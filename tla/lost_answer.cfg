SPECIFICATION BothSpec
CONSTANTS
    Records = {}
    Requests = {q1}
    Days = 1
    MaxChanges = 0
    Workers = {w1}
    Callers = {c1}
    Kinds = {"bulk"}
    Stores = {s1}
    MaxJobs = 1
    MaxTime = 2
    LoseAnswers = TRUE
    PartsShown = {"files"}
CHECK_DEADLOCK FALSE
INVARIANT FinishedHasItsFile
