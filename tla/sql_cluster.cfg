SPECIFICATION SqlSpec
CONSTANTS
    Node = {a, b}
    Call = {c1, c2}
    x = x
    y = y
    Item = {x, y}
    Work <- Asked
    Adhoc <- WriteByQuery
    Nil = Nil
    MaxReigns = 2
    MaxCrashes = 1
SYMMETRY Symmetry
VIEW SqlView
CHECK_DEADLOCK FALSE
INVARIANTS
    SqlTypeOK
    
    CallWritesOnce
    FailsOnlyByRace
PROPERTIES
    TransactionAllOrNothing
