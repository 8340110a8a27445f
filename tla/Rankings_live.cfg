SPECIFICATION FairSpec
CONSTANTS
    k1 = k1  k2 = k2  d1 = d1  d2 = d2  w1 = w1  w2 = w2  v1 = v1
    Keys = {k1, k2}
    Daemons = {d1}
    Writers = {w1}
    Viewers = {v1}
    MaxChanges = 2
    Disturbances = {}
    MaxDisturbances = 0
PROPERTIES AnnouncedIsPublished
