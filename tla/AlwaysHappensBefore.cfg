SPECIFICATION Spec
CONSTANTS
    Controller = {c1, c2}
    One = c1
    Other = c2
    Node = {n1, n2, n3}
    Few = {n1, n2}
    NodeEnd = end
    Starts = {{}, {n1}, {n1, n2}}
    Queries <- MCQueries
INVARIANTS
    TracesReal
    MeetsEveryStop
PROPERTY
    Implements
CHECK_DEADLOCK FALSE
