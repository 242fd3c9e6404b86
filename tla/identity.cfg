SPECIFICATION BothSpec
CONSTANTS
    Clients = {c1, c2}
    MaxFailed = 2
    MaxTries = 2
    MaxPerWindow = 2
    MaxSessions = 2
    MaxIssued = 2
    MaxChanges = 1
    Callers = {d1, d2}
    MaxPerHour = 2
    MaxTemps = 2
    MaxOwn = 2
    MaxEmail = 1
    MaxOpened = 1
SYMMETRY Symmetry
CONSTRAINT Bound
CHECK_DEADLOCK FALSE
INVARIANTS OpenIsCurrent SentLinkWorks TemporariesMatchTheirMail
PROPERTIES LockHolds EndedForGood
