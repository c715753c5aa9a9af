CONSTANTS
    a = a
    b = b
    s1 = s1
    s2 = s2
    w1 = w1
    Names = {a, b}
    Syncs = {s1, s2}
    Writers = {w1}
    Kinds = {"put", "delete", "move", "props"}
    Reports = {TRUE, FALSE}
    May404 = TRUE
    MaxVersion = 3
    MaxForgets = 1
    MaxWrites = 1
SPECIFICATION Spec
SYMMETRY Interchangeable
INVARIANTS InStepUnlessRaced NothingWrong
