SPECIFICATION FairSpec
CONSTANTS
    s1 = s1  s2 = s2  t1 = t1  t2 = t2
    Subs = {s1}
    Names = {t1, t2}
    MailAdmins = TRUE
    MaxEvaluations = 3
    MaxUploads = 2
    MaxRequests = 1
    MaxMishaps = 1
INVARIANTS FlagIsHonest
PROPERTIES JudgedOnCurrent AllRejudged
CHECK_DEADLOCK FALSE
