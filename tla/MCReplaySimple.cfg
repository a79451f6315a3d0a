CONSTANTS
    Addrs = {a}
    Hosts = {h}
    Sizes = {1}
    Word = 4
    None = none
    MaxEvents = 4
    MaxOdd = 0
    MaxRuns = 2
    MaxLoaded = 4
    MaxStrays = 0
SPECIFICATION Spec
INVARIANTS SimpleSequencesReplay
CHECK_DEADLOCK FALSE
