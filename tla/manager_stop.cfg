SPECIFICATION ManagerSpec
CONSTANTS
    Manager = {m1, m2, m3}
    Nodes <- TwoNodes
    Pid = {p1, p2, p3}
    NoFile = NoFile
    StartsOne = {m3}
    MaxReboots = 1
CHECK_DEADLOCK FALSE
PROPERTY StopStopsAll
