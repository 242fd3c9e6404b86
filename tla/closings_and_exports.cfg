SPECIFICATION BothSpec
CONSTANTS
    Records = {1}
    Requests = {q1, q2}
    Days = 2
    MaxChanges = 2
    Workers = {w1, w2}
    Callers = {c1}
    Kinds = {"bulk", "excel", "direct"}
    Stores = {s1}
    MaxJobs = 1
    MaxTime = 3
    LoseAnswers = FALSE
    PartsShown = {"closing", "files"}
SYMMETRY Symmetry
CHECK_DEADLOCK FALSE
INVARIANTS GoneStoreHoldsNobody CirclesAreKnown FinishedOnce HandedOutWithinScope
