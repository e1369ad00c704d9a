CONSTANTS
    k1 = k1
    k2 = k2
    c1 = c1
    c1meta = c1meta
    c1amended = c1amended
    c2 = c2
    f1 = f1
    f1amended = f1amended
    f2 = f2
    t1 = t1
    t2 = t2
    Keys = {k1, k2}
    Contracts = {c1, c1meta, c1amended, c2}
    Fps = {f1, f1amended, f2}
    FpOf <- MCFpOf
    Amendable <- MCAmendable
    Threads = {t1, t2}
    Absent = Absent
    NoBinding = NoBinding
    JournalVersions = 1
    ReceiptKeys = 8
    MaxVersion = 4
    Scenarios <- MCStale
    MaxOps = 4
SPECIFICATION Spec
INVARIANTS ReadyInvokerWasVouched
SYMMETRY MCSymmetry
CHECK_DEADLOCK FALSE
