CONSTANTS
    SimmWrap = 256
    Values = 5
    Foreign = foreign
    Programs <- MCPrograms
    Allotments <- MCAllotments
    Gaps = {0, 600}
    Apps = {"instrcount", "memtrace"}
    Instrumented = 1
    AddressWrap = 4096
    MaxCount = 2
SPECIFICATION Spec
INVARIANTS TypeOK CountExact
PROPERTIES Transparent
CHECK_DEADLOCK FALSE
