SPECIFICATION Spec
CONSTANTS
    r1 = r1  r2 = r2  w1 = w1
    Requests = {r1, r2}
    Workers = {w1}
    MaxTime = 2
    MaxVersions = 4
SYMMETRY Symmetry
INVARIANTS AwardsOnlyInSuccess DatedIsScheduled ScheduledHasTask TaskKeepsDate AwardedOnce
CHECK_DEADLOCK FALSE
