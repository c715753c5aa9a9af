CONSTANTS
    r1 = r1
    a1 = a1
    j1 = j1
    j2 = j2
    nobody = nobody
    Readers = {r1}
    Ahead = {a1}
    Jobs = {j1, j2}
    Nobody = nobody
    MaxChanges = 1
SPECIFICATION Spec
SYMMETRY JobSymmetry
INVARIANTS TypeOK HeldCurrent AnswersCurrent PlainVouched
