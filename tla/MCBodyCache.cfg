\* Two messages, two logins, a folder made anew once, room for one body.
SPECIFICATION Spec
CONSTANTS
    Logins = {l1, l2}
    l1 = l1
    l2 = l2
    UIDs = {u1, u2}
    u1 = u1
    u2 = u2
    Keep = 1
    MaxValidity = 2
    MaxWork = 2
SYMMETRY Symmetric
INVARIANT TypeOK
INVARIANT HeldIdentified
INVARIANT HeldTellsTruth
PROPERTY ActionStands
CHECK_DEADLOCK FALSE
