SPECIFICATION KeysSpec
CONSTANTS
    Logins = {l1, l2}
    l1 = l1
    l2 = l2
    Together = 2
    MaxKeys = 2
    MaxPasswords = 3
SYMMETRY Symmetric
INVARIANT NothingLost
PROPERTY LetGoOnceMoved
PROPERTY ShutForCause
CONSTRAINT Followed
CHECK_DEADLOCK FALSE
