SPECIFICATION FairSpec
CONSTANTS
    Request = {r1, r2}
    Other = Other
    Nil = Nil
    MaxLog = 3
    MaxCrashes = 1
INVARIANTS
    ServerTypeOK
    AppliedOnceInOrder
    NoLostConfirmation
    ConfirmedWasExecuted
PROPERTIES
    EveryRequestAnswered
    CommittedGetsApplied
