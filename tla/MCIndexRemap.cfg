CONSTANTS
    Width = 8
    Sizes = {1, 2, 3, 4, 5, 8, 9, 15, 16, 17, 33, 64, 65, 100, 128}
    PerLine = {2, 3, 4, 8, 16}
    Laps = 2
SPECIFICATION Spec
INVARIANTS SizeIsLeastPower EachPlaceOnce SwapsDigits
PROPERTIES NeighboursApart
CHECK_DEADLOCK FALSE
