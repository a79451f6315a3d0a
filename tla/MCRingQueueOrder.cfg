CONSTANTS
    Producers = {p1, p2, p3}
    Consumers = {c1}
    Items = {x}
    Size = 3
    None = none
    MaxPush = 6
    MaxPop = 6
SPECIFICATION OSpec
SYMMETRY Symm
INVARIANTS TypeOK ExactlyOnce NoInvention SizeCounts Fifo
PROPERTIES LapsOnlyNearFull
CHECK_DEADLOCK FALSE
