SPECIFICATION Spec
CONSTANTS
    n1 = n1
    n2 = n2
    n3 = n3
    Node = {n1, n2, n3}
    Nil = Nil
    Value = {v}
    Electable <- AnyoneOnce
    MaxLog <- OneWrite
    Crashing = {}
    Duplicates = FALSE
SYMMETRY NodeSymmetry
CHECK_DEADLOCK FALSE
PROPERTIES
    QuorumCommit
