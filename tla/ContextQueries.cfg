SPECIFICATION ContextSpec
CONSTANTS
    n1 = 0  n2 = 1  n3 = 2  n4 = 3
    c1 = c1  c2 = c2
    Node = {0, 1, 2, 3}
    N = 4
    Controller = {c1, c2}
    None = none
    Questions <- MCQuestions
INVARIANTS
    IndexSound
    IndexComplete
    FlowsRight
    ShortestPathRight
    RootsRight
    NoNodeTwice
    FirstExample
PROPERTIES
    Terminates
    AllAnswered
CHECK_DEADLOCK FALSE
