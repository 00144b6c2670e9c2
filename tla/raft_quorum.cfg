SPECIFICATION SpecQuorum
CONSTANTS
    n1 = n1
    n2 = n2
    n3 = n3
    Node = {n1, n2, n3}
    Nil = Nil
    Value = {v}
    Electable <- Seesaw
    MaxLog <- WriteInTwoOfFour
    Crashing = {n1}
    Duplicates = TRUE
VIEW LiveView
CHECK_DEADLOCK FALSE
INVARIANTS
    MatchIndexSound
    CommitWithinLog
    StateMachineSafety
    LeaderCompleteness
PROPERTIES
    CommittedPrefixStable
    ImplementsReplicatedLog
