SPECIFICATION Spec
CONSTANTS
    d1 = d1
    d2 = d2
    q1 = q1
    q2 = q2
    k1 = k1
    c1 = c1
    c2 = c2
    NoConvo = NoConvo
    NoAnswer = NoAnswer
    Docs <- TwoDocs
    Questions <- OneQuestion
    Near <- AllPairs
    Relevant <- AllPairs
    Scopes <- GlobalAndOne
    Convos <- NoConvos
    Clients <- OneClient
    MaxAnswers = 1
CHECK_DEADLOCK FALSE
INVARIANTS T2StaysInScope ProvenanceCovers
