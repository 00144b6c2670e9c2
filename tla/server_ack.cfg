SPECIFICATION Spec
CONSTANTS
    Request = {r1}
    Other = Other
    Nil = Nil
    MaxLog = 2
    MaxCrashes = 0
INVARIANTS
    AckedWriteIsInDatabase
