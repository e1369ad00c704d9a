CONSTANTS
    k1 = k1
    d1 = d1
    d1x = d1x
    d2 = d2
    b = b
    h = h
    a1 = a1
    a2 = a2
    ah = ah
    f1 = f1
    f2 = f2
    fb = fb
    fh = fh
    g1 = g1
    s = s
    x = x
    t1 = t1
    t2 = t2
    Keys = {k1}
    Tool = k1
    Contracts = {d1, d1x, d2, b, h, a1, a2, ah}
    Documents = {d1, d2, b, h, d1x}
    Fps = {f1, f2, fb, fh, g1}
    FpOf <- MCFpOf
    DocOf <- MCDocOf
    Amended <- MCAmended
    SourceOf <- MCSourceOf
    Verdict <- MCVerdict
    Tasks = {t1, t2}
    Absent = Absent
    None = None
    JournalVersions = 1
    ReceiptKeys = 8
    MaxVersion = 6
    Worlds <- MCPass
SPECIFICATION Spec
INVARIANTS WatchTypeOK
PROPERTIES OnlyDueWrites DriftIsSeen
CHECK_DEADLOCK FALSE
