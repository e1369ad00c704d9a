CONSTANTS
    a = a
    f1 = f1
    f2 = f2
    f3 = f3
    t1 = t1
    t2 = t2
    r1 = r1
    Keys = {a}
    Fps = {f1, f2, f3}
    ReadOnly = {f1, f2}
    Tasks = {t1, t2}
    Removers = {r1}
    Absent = Absent
    None = None
    Scenarios <- MCDrain
    MaxQuiesce = 2
    MaxRecords = 2
SPECIFICATION Spec
PROPERTIES RemovalEnds
CHECK_DEADLOCK FALSE
