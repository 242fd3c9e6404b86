SPECIFICATION PartsSpec
CONSTANTS
    Editors = {a, b}
    Members = {a, b}
    Devices = {v1, v2}
    Desks = {d1, d2}
    MaxShifts = 2
    Days = 2
    Window = 1
    Records = {1}
    Requests = {a, b}
    Weeks = 2
    WeekDays = 1
    MaxRows = 2
SYMMETRY Symmetry
CONSTRAINT Bound
CHECK_DEADLOCK FALSE
INVARIANTS ConfirmedAddsUp HoursCountOnce PlansHold HistoryIsAChain
PROPERTY SentOnceAsMailed
