SPECIFICATION Spec
CONSTANTS
    j1 = j1  j2 = j2  w1 = w1  w2 = w2  c1 = c1  c2 = c2
    Jobs = {j1}
    Workers = {w1, w2}
    Callers = {c1, c2}
    Recipe <- TwoTransfers
    MaxReplies = 2
    Disturbances = {"cancel", "delete", "crash", "rollback"}
    MaxDisturbances = 1
SYMMETRY Symmetry
INVARIANTS ResumeMatchesTransfer SaveNeverConflicts NothingStranded
PROPERTIES ImplementsLifecycle
