\* One feed, two alborz, two requests at once.
SPECIFICATION SubsSpec
CONSTANTS
    Instances = {i1, i2}
    i1 = i1
    i2 = i2
    URLs = {u1}
    u1 = u1
    Requests = {r1, r2}
    r1 = r1
    r2 = r2
    Times <- MCTimes
    MaxCuts = 1
INVARIANT ReaderObeyed
PROPERTY AgreeAtLast
