SPECIFICATION Spec
CONSTANTS
    None = None
    Refs = {own1, f1, f2}
    own1 = own1
    f1 = f1
    f2 = f2
    Fed = {f1, f2}
    Shown = {own1}
    Guests = {guest1}
    guest1 = guest1
    Names = {n1, n2}
    n1 = n1
    n2 = n2
    Data = {datum1}
    datum1 = datum1
    Secrets = {secret1}
    secret1 = secret1
    MaxCTag = 3
    MaxVersion = 2
    MaxBusy = 2
SYMMETRY Symmetric
INVARIANT CTagTells
INVARIANT IndexesAgree
INVARIANT AccessByConsent
INVARIANT FedTruly
CHECK_DEADLOCK FALSE
