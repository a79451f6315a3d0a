CONSTANTS
    Threads = {m, t}
    Main = m
    Writers = {w1}
    CallKinds = {"plain", "detail"}
    FatBins = {f1}
    Modes = {"capture"}
    Bare = FALSE
    Size = 2
    None = none
    MaxCalls = 3
    MaxBundles = 1
SPECIFICATION FairSpec
PROPERTIES ExitAlwaysEnds
CHECK_DEADLOCK FALSE
