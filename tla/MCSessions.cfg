\* Two accounts, two requests at once.
SPECIFICATION Spec
CONSTANTS
    Accounts = {acct1, acct2}
    acct1 = acct1
    acct2 = acct2
    Requests = {r1, r2}
    r1 = r1
    r2 = r2
    MaxSignIns = 3
    MaxTime = 2
SYMMETRY Symmetric
INVARIANT TypeOK
INVARIANT SignedOutStays
INVARIANT OnRecord
CHECK_DEADLOCK FALSE
