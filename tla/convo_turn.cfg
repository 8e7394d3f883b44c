SPECIFICATION FairSpec
CONSTANTS
    a1 = a1
    t1 = t1
    k1 = k1
    NoConvo = NoConvo
    NoCall = NoCall
    Selected <- Techniques
    Calls <- OneCall
    Convos <- OneConvo
    Turns <- OneTurn
    Recent = 1
    MaxToolRounds = 3
    ToolReplies <- SomeReplies
CHECK_DEADLOCK FALSE
INVARIANTS AnswerKept TurnKept ToolCallsAnswered RowsAccounted
PROPERTIES RequestsRunDown RequestsEnd
