CONSTANTS
    Producers = {p1, p2}
    Consumers = {c1}
    Items = {x}
    None = none
    Size = 4
    Wrap = 16
    Remap <- Swap
    Ops <- ProgramOps
    MaxPush = 18
    MaxPop = 18
SPECIFICATION FairSpec
INVARIANTS SizeReadRight
PROPERTIES BalancedFinish
CHECK_DEADLOCK FALSE
