SPECIFICATION Spec
CONSTANTS
    Downloads = {d1}
    Dests = {x1}
    Old = Old
    NoFile = NoFile
    Hole = Hole
    Chunks = 2
    FaultSets = {{"flush"}}
    Exclusive = TRUE
INVARIANTS NothingPartialLeft
CHECK_DEADLOCK FALSE
