CONSTANTS
    p1 = p1
    p2 = p2
    k1 = k1
    k2 = k2
    c1 = c1
    c2 = c2
    f1 = f1
    r1 = r1
    r2 = r2
    Conns = {p1, p2}
    Keys = {k1, k2}
    Contracts = {c1, c2}
    Fps = {f1}
    FpOf <- MCFpOf
    Absent = Absent
    None = None
    Runs = {r1, r2}
    MaxEvents = 3
    JournalVersions = 1
    ReceiptKeys = 1
    MaxVersion = 2
    Worlds <- MCPass
SPECIFICATION Spec
INVARIANTS FileTypeOK OpenMeansCurrent ReceiptExact
PROPERTIES ImplementsRegistry CommitsPerformTheirCall BackupIsWhatWasMigrated TracesReplayAndGrow
SYMMETRY MCSymmetry
CHECK_DEADLOCK FALSE
