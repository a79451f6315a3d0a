CONSTANTS
    Addrs = {a, b}
    Hosts = {h}
    Sizes = {1, 3}
    Word = 4
    None = none
    MaxEvents = 4
    MaxOdd = 1
    MaxRuns = 2
    MaxLoaded = 6
    MaxStrays = 1
SPECIFICATION Spec
SYMMETRY Symm
INVARIANTS TypeOK SimpleReplays PromptAtEnd ResultsPaired
CHECK_DEADLOCK FALSE
