SPECIFICATION FilesSpec
CONSTANTS
    Self = self
    Others = {c, d}
    Nil = Nil
    LeaderLog <- OneAndThree
    MaxTerm = 3
    MaxLog = 3
    MaxCrashes = 2
    Content = {1, 2}
    PageSize = 512
    MaxFrames = 3
    MaxRounds = 3
    FrameIndex = {1, 2, 3}
    FrameSize = {2048, 4096}
    MaxLines = 4
    Index = {0, 1, 2}
    Data = {d1, d2}
    Full = 2
    Nothing = Nothing
    Manager = {m1, m2, m3}
    Nodes <- TwoNodes
    Pid = {p1, p2, p3}
    NoFile = NoFile
    StartsOne = {m3}
    MaxReboots = 1
SYMMETRY Symmetry
VIEW FilesView
CHECK_DEADLOCK FALSE
INVARIANTS
    StoreTypeOK
    RowsHaveNoGap
    FileHoldsNode
    ToldVotesSurvive
    AckedEntriesSurvive
    WalTypeOK
    ReportsWhatWasWritten
    RefusesOnlyTornOrStale
    BatchIsWholeAndInOrder
    LoadsNewest
    NodesAreListed
PROPERTIES
    CommittedStaysInFile
    ImplementsDurableNode
