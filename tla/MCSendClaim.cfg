CONSTANTS
    p1 = p1
    p2 = p2
    m1 = m1
    Posts = {p1, p2}
    Messages = {m1}
    Keep = 2
    MaxTime = 4
SPECIFICATION Spec
SYMMETRY PostSymmetry
INVARIANTS OneCopyInWindow DraftOutlivesSend ClaimTellsTruth FailedIsUnsent
