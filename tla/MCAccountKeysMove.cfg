\* One login at work at a time.
SPECIFICATION KeysSpec
CONSTANTS
    Logins = {l1, l2}
    l1 = l1
    l2 = l2
    Together = 1
    MaxKeys = 2
    MaxPasswords = 1
SYMMETRY Symmetric
INVARIANT MoveGoesOn
CHECK_DEADLOCK FALSE
