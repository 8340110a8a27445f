SPECIFICATION FairSpec
CONSTANTS
    u1 = u1
    t1 = t1
    t2 = t2
    a1 = a1
    a2 = a2
    b1 = b1
    m1 = m1
    m2 = m2
    None = None
    Users = {u1}
    User = u1
    Sockets = {a1, a2, b1}
    Tabs = {t1, t2}
    Messages = {m1}
    Owner <- MCOwner
    Layouts <- MCReconnect
    MaxUnsent = 1
    MaxFaults = 1
    MaxClicks = 1
PROPERTIES
    LogsInOrSays
    Arrives
CHECK_DEADLOCK FALSE
