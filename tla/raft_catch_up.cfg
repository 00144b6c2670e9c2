SPECIFICATION CatchUpSpec
CONSTANTS
    Node = {n1, n2, n3}
    Nil = Nil
    Value = {v}
    Electable <- NobodyElse
    MaxLog <- OneMore
    Crashing = {n2}
    Duplicates = FALSE
    Leader = n1
    Down = {n3}
    LeaderTerms <- Ones
    LaggingTerms <- Laggards
    MaxDatagram = 2
CHECK_DEADLOCK FALSE
PROPERTIES
    OnlySizeLeavesBehind
    WrittenIsCommitted
    NeverFallsBack
