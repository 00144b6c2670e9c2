SPECIFICATION Spec
CONSTANTS
    n1 = n1
    n2 = n2
    n3 = n3
    Node = {n1, n2, n3}
    Nil = Nil
    Value = {v}
    Electable <- Pair
    MaxLog <- WriteInTwo
    Crashing = {}
    Duplicates = TRUE
VIEW LiveView
CHECK_DEADLOCK FALSE
INVARIANTS
    TypeOK
    LogMatching
    LeaderHoldsItsTerm
    MatchIndexSound
