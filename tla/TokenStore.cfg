SPECIFICATION TokenSpec
CONSTANTS
    c1 = c1
    c2 = c2
    c3 = c3
    k1 = k1
    k2 = k2
    p1 = p1
    p2 = p2
    Contenders = {c1, c2, c3}
    Old = old
    NoFile = noFile
    Processes = {p1, p2}
    ProcessOf <- OneAndAnother
    Keys = {k1, k2}
    Jobs <- TheirJobs
INVARIANTS
    ExclusiveUnlessMoved
    NoUpdateLost
    SpentOnce
CHECK_DEADLOCK FALSE
