CONSTANTS
    Threads = {m, t}
    Main = m
    Writers = {w1, w2}
    CallKinds = {"copy"}
    FatBins = {f1, f2}
    Modes = {"capture", "binint", "unset"}
    Bare = TRUE
    Size = 2
    None = none
    MaxCalls = 4
    MaxBundles = 1
SPECIFICATION Spec
CONSTRAINT FewWhenBare
SYMMETRY Symm
INVARIANTS TypeOK OncePerEvent AllTakenAreRecorded DiskConsistent FilesHoldTheirRows SingleWriter CausallyClosed CompleteWhenDraining AsleepOnlyIfMissed
PROPERTIES ImplementsRecorder
CHECK_DEADLOCK FALSE
