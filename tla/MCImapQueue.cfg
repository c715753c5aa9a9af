CONSTANTS
    f1 = f1
    f2 = f2
    b1 = b1
    b2 = b2
    reaper = reaper
    Requests = {f1, f2, b1, b2}
    Background = {b1, b2}
    Causes = {"deadline"}
    Reaper = reaper
    QueueLimit = 2
SPECIFICATION FairSpec
INVARIANTS OneHolder NobodyWaitsForFree QueueBounded
PROPERTIES HandOffInOrder ImplementsLane WaitEnds ReaperServed
CHECK_DEADLOCK TRUE
