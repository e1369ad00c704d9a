CONSTANTS
    v = v
    w = w
    Workers = {v, w}
    None = None
    Worlds <- MCPass
SPECIFICATION Spec
INVARIANTS PlanRunTypeOK TraceIsAppendable StartsAreClosed TraceIsTrue
PROPERTIES StreamEnds
CHECK_DEADLOCK FALSE
