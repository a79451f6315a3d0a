CONSTANTS
    Producers = {p1, p2}
    Consumers = {c1, c2}
    Items = {x}
    None = none
    Size = 2
    Wrap = 64
    Remap <- Straight
    Ops <- AllOps
    MaxPush = 5
    MaxPop = 5
SPECIFICATION Spec
SYMMETRY Symm
INVARIANTS TypeOK SlotOwned WholeElements
PROPERTIES ImplementsRing TryRespectsBounds
CHECK_DEADLOCK FALSE
