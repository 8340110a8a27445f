SPECIFICATION FairSpec
CONSTANTS
    s1 = s1  s2 = s2  s3 = s3  s4 = s4
    Submissions = {s1, s2, s3, s4}
    TeamOf <- MCTeamOf
    TaskOf <- MCTaskOf
    SentAt <- MCSentAt
    Outcomes <- MCOutcomes
    Viewers = {"admin", "other"}
    Teams = {1, 2}
    Tasks = {7}
    Unmatched = {2}
    FreezeTime = 3
    RoundLength = 3
    BombPenalty = 20
    MaxRequests = 2
    MaxReports = 2
    MaxClock = 3
INVARIANTS TypeOK NothingSkipped FlashesAreTrue
PROPERTIES StandingsAreRight Published
