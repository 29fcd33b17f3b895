SPECIFICATION Spec
CONSTANTS
    Key = {k1, k2, k3}
    Elem = {m}
    Inputs <- MCInputs
INVARIANTS
    CacheSound
    AnswersExact
PROPERTIES
    AnswersFinal
