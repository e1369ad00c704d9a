CONSTANTS
    k1 = k1
    k2 = k2
    rc = rc
    qc = qc
    hc = hc
    hx = hx
    dc = dc
    fr = fr
    fq = fq
    fh = fh
    fd = fd
    s1 = s1
    s2 = s2
    Keys = {k1, k2}
    Contracts = {rc, qc, hc, hx, dc}
    Fps = {fr, fq, fh, fd}
    FpOf <- MCFpOf
    SemIds = {s1, s2}
    SemOf <- MCSemOf
    Shape <- MCShape
    Absent = Absent
    NoIndex = NoIndex
    JournalVersions = 2
    ReceiptKeys = 2
    MaxVersion = 3
    Worlds <- MCPass
SPECIFICATION SessionSpec
INVARIANTS RegistryTypeOK ReceiptComplete GraphTypeOK IndexesAreSnapshots
PROPERTY LookupIsCurrent
SYMMETRY MCSymmetry
CHECK_DEADLOCK FALSE
