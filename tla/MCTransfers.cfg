CONSTANTS
    r1 = r1
    r2 = r2
    r3 = r3
    c1 = c1
    c2 = c2
    none = none
    Readers = {r1, r2, r3}
    MaxTransfers = 2
    Conns = {c1, c2}
    NoConn = none
SPECIFICATION FairSpec
INVARIANT SlotsAccounted
PROPERTIES TransfersEnd ReaperEnds
