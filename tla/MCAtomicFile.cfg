SPECIFICATION Spec
CONSTANTS
    Downloads = {d1, d2, d3}
    Dests = {x1, x2}
    Old = Old
    NoFile = NoFile
    Hole = Hole
    Chunks = 2
    FaultSets <- SeenOrAll
    Exclusive = TRUE
SYMMETRY Symmetry
INVARIANTS TypeOK NeverPartial
PROPERTIES CleansUp Implements OnlySuccessChangesDest
CHECK_DEADLOCK FALSE
