SPECIFICATION Spec
CONSTANTS
    Scope <- MCScope
    Message = {"m", "n"}
    MaxDepth = 2
    MaxCalls = 4
INVARIANTS
    EachShownOnce
PROPERTIES
    Implements
CHECK_DEADLOCK FALSE
