SPECIFICATION Spec
CONSTANTS
    n1 = n1
    n2 = n2
    n3 = n3
    Node = {n1, n2, n3, n4}
    Nil = Nil
    Value = {v}
    Electable <- AnyoneOnce
    MaxLog <- OneWrite
    Crashing = {}
    Duplicates = TRUE
SYMMETRY NodeSymmetry
CHECK_DEADLOCK FALSE
INVARIANTS
    ElectionSafety
