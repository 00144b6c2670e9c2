SPECIFICATION Spec
CONSTANTS
    n1 = n1
    n2 = n2
    n3 = n3
    Node = {n1, n2, n3}
    Nil = Nil
    Value = {v}
    Electable <- AnyoneTwice
    MaxLog <- NoWrites
    Crashing = {n1, n2, n3}
    Duplicates = TRUE
SYMMETRY NodeSymmetry
VIEW ElectionView
CHECK_DEADLOCK FALSE
INVARIANTS
    OneVotePerTerm
    ElectionSafety
    ElectionInv
