CONSTANTS
    Threads = {m, t}
    Main = m
    Writers = {w1}
    CallKinds = {"plain", "detail"}
    FatBins = {f1}
    Modes = {"capture"}
    Bare = FALSE
    Size = 1
    None = none
    MaxCalls = 3
    MaxBundles = 1
SPECIFICATION FairSpec
PROPERTIES PushReturns ExitEnds
CHECK_DEADLOCK FALSE
