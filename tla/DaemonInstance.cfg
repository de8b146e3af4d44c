SPECIFICATION InstanceSpec
CONSTANTS
    Daemons = {d1, d2, d3}
    Old = old
    NoFile = noFile
SYMMETRY Symmetry
INVARIANTS
    SingleUnlessMoved
    ServerOwnsFiles
    RefusalJustified
CHECK_DEADLOCK FALSE
