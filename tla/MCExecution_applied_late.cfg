CONSTANTS
    a = a
    b = b
    f1 = f1
    f2 = f2
    w = w
    x = x
    y = y
    NoBinding = NoBinding
    Keys = {a, b}
    Fps = {f1, f2, w}
    ReadOnly = {f1, f2}
    Calls = {x, y}
    Scenarios <- MCOneDeadline
    MaxPolicy = 1
SPECIFICATION Spec
PROPERTIES BudgetFailureAppliedNothing
CHECK_DEADLOCK FALSE
