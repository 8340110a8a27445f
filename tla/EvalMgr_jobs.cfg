SPECIFICATION FairSpec
CONSTANTS
    j1 = j1  j2 = j2  w1 = w1  w2 = w2  c1 = c1  c2 = c2
    Jobs = {j1, j2}
    Workers = {w1, w2}
    Callers = {c1, c2}
    Recipe <- OneTransfer
    MaxReplies = 2
    Disturbances = {}
    MaxDisturbances = 0
INVARIANTS OneExecutor
PROPERTIES NoPhaseTwice LeavesQueue ImplementsFairLifecycle
