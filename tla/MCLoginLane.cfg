CONSTANTS
    f1 = f1
    b1 = b1
    reaper = reaper
    c1 = c1
    c2 = c2
    none = none
    Requests = {f1, b1}
    Background = {b1}
    Causes = {"cancel", "deadline"}
    Reaper = reaper
    QueueLimit = 2
    Conns = {c1, c2}
    NoConn = none
SPECIFICATION FairLaneSpec
INVARIANTS TimerHitsOwnRun NoConnectionLost
PROPERTIES LaneKeepsQueue OwnerReturns
