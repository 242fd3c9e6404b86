--------------------------- MODULE WorkSchedules ---------------------------
(***************************************************************************)
(* The working plans of one store (work-schedules/work-schedules.service,  *)
(* work-schedule-purge, removeSchedules of staff-members/retirement):      *)
(* administrators enter, move and remove shifts and copy last week into an *)
(* empty one, while staff leave, the store closes and old plans are        *)
(* deleted.  Each is a transaction under READ COMMITTED that takes its     *)
(* locks one by one, judges with what it has locked and writes at the end. *)
(***************************************************************************)
EXTENDS RowLocks

CONSTANTS
    Records,    \* staff records of the store, in the order of their ids
    Weeks,      \* the weeks planned, from 1
    WeekDays,   \* days of a week
    MaxRows     \* Bound: rows of work_schedules

VARIABLES
    people,     \* record -> retired_date (0: none), RETIRED, last day of its contract
    closed,     \* the store is closed
    plan,       \* row -> record, shift, is_deleted ("live", "deleted")
    told        \* row -> the shift its latest history entry leaves, NoShift after none

tables == <<people, closed, plan, told>>
planVars == <<tables, tx>>

Ids == 1..MaxRows
Calendar == 1..(Weeks * WeekDays)
WeekOf(d) == (d - 1) \div WeekDays + 1
\* A shift keeps its day busy; one over midnight the next day too.
Busy(s) == {s.day} \cup (IF s.night THEN {s.day + 1} ELSE {})
NoShift == [day |-> 0, night |-> FALSE]
\* Bound: what is entered ends within the weeks planned (a copy may end later).
Shifts == {s \in [day : Calendar, night : BOOLEAN] : Busy(s) \subseteq Calendar}
NoRow == [of |-> 0, shift |-> NoShift, state |-> "none"]

Live(i) == plan[i].state = "live"
LiveIn(w) == {i \in Ids : Live(i) /\ WeekOf(plan[i].shift.day) = w}
Unused == {i \in Ids : plan[i].state = "none"}

(* What is locked: the week of the store (advisory), the record, the row. *)
Week(w) == <<"week", w>>
Staff(r) == <<"staff", r>>
Row(i) == <<"row", i>>

Idle == [job |-> "idle", of |-> 0, id |-> 0, shift |-> NoShift, found |-> NoShift,
         copies |-> {}, held |-> {}, want |-> <<>>]

Init ==
    /\ people \in [Records -> [retire : {0}, retired : {FALSE}, until : {WeekDays, Weeks * WeekDays}]]
    /\ closed = FALSE
    /\ plan = [i \in Ids |-> NoRow] /\ told = [i \in Ids |-> NoShift]
    /\ tx = [q \in Requests |-> Idle]

-----------------------------------------------------------------------------
\* staffFor: the day lies within a signed contract and not after the leaving.
MayWork(r, day) ==
    /\ day <= people[r].until
    /\ people[r].retire # 0 => day <= people[r].retire
\* checkOverlap: no live shift of the record but the row except takes the same time.
Overlaps(r, s, except) ==
    \E i \in Ids \ {except} : Live(i) /\ plan[i].of = r /\ Busy(plan[i].shift) \cap Busy(s) # {}

\* The locks a job takes: the week shared (or, to copy into it, for itself alone), then
\* the record, then the row (the variant: no week).
RemoveLocks(r, i) == <<Lock(Staff(r), "NO KEY UPDATE"), Lock(Row(i), "UPDATE")>>
UpdateLocksUnweeked(r, i, s) == RemoveLocks(r, i)
UpdateLocks(r, i, s) == <<Lock(Week(WeekOf(s.day)), "SHARED")>> \o RemoveLocks(r, i)
CreateLocks(r, s) == <<Lock(Week(WeekOf(s.day)), "SHARED"), Lock(Staff(r), "NO KEY UPDATE")>>
CopyLocks(w) == <<Lock(Week(w), "EXCLUSIVE")>>
PurgeLocks(i) == <<Lock(Row(i), "UPDATE")>>

Start(q, request) ==
    /\ tx[q].job = "idle" /\ tx' = [tx EXCEPT ![q] = request]
    /\ UNCHANGED tables
CreateShift(q, r, s) ==
    Start(q, [Idle EXCEPT !.job = "create", !.of = r, !.shift = s, !.want = CreateLocks(r, s)])
\* The row is found without a lock, and read again once it is locked.
UpdateShift(q, i, s) ==
    /\ Live(i)
    /\ Start(q, [Idle EXCEPT !.job = "update", !.of = plan[i].of, !.id = i, !.shift = s,
                             !.found = plan[i].shift, !.want = UpdateLocks(plan[i].of, i, s)])
RemoveShift(q, i) ==
    /\ Live(i)
    /\ Start(q, [Idle EXCEPT !.job = "remove", !.of = plan[i].of, !.id = i,
                             !.found = plan[i].shift, !.want = RemoveLocks(plan[i].of, i)])
Copy(q, w) ==
    /\ w > 1 /\ ~closed
    /\ Start(q, [Idle EXCEPT !.job = "copy", !.shift.day = (w - 1) * WeekDays + 1, !.want = CopyLocks(w)])
\* Any row may have been created three years ago.
Purge(q, i) ==
    /\ plan[i].state \in {"live", "deleted"}
    /\ Start(q, [Idle EXCEPT !.job = "purge", !.id = i, !.want = PurgeLocks(i)])

-----------------------------------------------------------------------------
\* Shifts of last week, a week later: what copyLastWeek reads as it counts the week.
Sources(w) == {[of |-> plan[i].of, shift |-> [plan[i].shift EXCEPT !.day = @ + WeekDays]] :
               i \in LiveIn(w - 1)}
\* What a request knows better with its next lock granted: of its row what it says
\* now (the variant: what it said before), of its week what there is to copy.
FoundEarlier(q) == tx[q].found
FoundLocked(q) ==
    IF tx[q].job # "purge" /\ Head(tx[q].want).row = Row(tx[q].id) THEN plan[tx[q].id].shift ELSE tx[q].found
Learns(q) ==
    LET row == Head(tx[q].want).row
        w == WeekOf(tx[q].shift.day)
        copies == IF tx[q].job = "copy" /\ row = Week(w) THEN Sources(w) ELSE tx[q].copies
        more == IF tx[q].job = "copy" /\ row = Week(w)
                THEN LocksOn({c.of : c \in copies}, Staff, "NO KEY UPDATE") ELSE <<>>
    IN  [tx[q] EXCEPT !.held = Granted(q), !.want = Tail(@) \o more,
                      !.copies = copies, !.found = FoundLocked(q)]

\* What is judged as a lock is granted; otherwise the request is refused.
StillGood(q) ==
    LET row == Head(tx[q].want).row
        r == tx[q].of
        s == tx[q].shift
    IN  CASE tx[q].job = "create" /\ row = Staff(r) ->
                 MayWork(r, s.day) /\ ~closed /\ ~Overlaps(r, s, 0)
          [] tx[q].job = "update" /\ row = Row(tx[q].id) ->
                 Live(tx[q].id) /\ MayWork(r, s.day) /\ ~Overlaps(r, s, tx[q].id)
          [] tx[q].job = "remove" /\ row = Row(tx[q].id) -> Live(tx[q].id)
          [] tx[q].job = "copy" /\ row[1] = "week" -> LiveIn(row[2]) = {}
          [] tx[q].job = "purge" -> plan[tx[q].id].state # "none"
          [] OTHER -> TRUE

Acquire(q) ==
    /\ tx[q].want # <<>> /\ Blockers(q) = {}
    /\ tx' = [tx EXCEPT ![q] = IF StillGood(q) THEN Learns(q) ELSE Idle]
    /\ UNCHANGED tables

-----------------------------------------------------------------------------
Finishing(q, job) == tx[q].job = job /\ tx[q].want = <<>>
Answer(q) == tx' = [tx EXCEPT ![q] = Idle]

\* Shifts entered together, each with its history entry.
Enter(shifts) ==
    /\ Cardinality(shifts) <= Cardinality(Unused)
    /\ LET order == SetToSeq(shifts)
           first == MaxRows - Cardinality(Unused)
           new == [i \in first + 1..first + Len(order) |-> order[i - first]]
       IN  /\ plan' = [i \in Ids |-> IF i \in DOMAIN new
                                     THEN [of |-> new[i].of, shift |-> new[i].shift, state |-> "live"]
                                     ELSE plan[i]]
           /\ told' = [i \in Ids |-> IF i \in DOMAIN new THEN new[i].shift ELSE told[i]]
FinishCreate(q) ==
    /\ Finishing(q, "create") /\ Enter({[of |-> tx[q].of, shift |-> tx[q].shift]})
    /\ Answer(q) /\ UNCHANGED <<people, closed>>
FinishUpdate(q) ==
    /\ Finishing(q, "update")
    /\ plan' = [plan EXCEPT ![tx[q].id].shift = tx[q].shift]
    /\ told' = [told EXCEPT ![tx[q].id] = tx[q].shift]
    /\ Answer(q) /\ UNCHANGED <<people, closed>>
\* Rows marked as deleted (nothing reads their values any more), each with its entry.
Delete(ids) ==
    /\ plan' = [i \in Ids |-> IF i \in ids THEN [NoRow EXCEPT !.state = "deleted"] ELSE plan[i]]
    /\ told' = [i \in Ids |-> IF i \in ids THEN NoShift ELSE told[i]]
FinishRemove(q) ==
    /\ Finishing(q, "remove") /\ Delete({tx[q].id})
    /\ Answer(q) /\ UNCHANGED <<people, closed>>

\* A copy leaves out what the record may not work or has no time for; staff and
\* rows are read as they are once the records are locked.
Copied(q) ==
    {c \in tx[q].copies : MayWork(c.of, c.shift.day) /\ ~closed /\ ~Overlaps(c.of, c.shift, 0)}
FinishCopy(q) ==
    /\ Finishing(q, "copy") /\ Enter(Copied(q))
    /\ Answer(q) /\ UNCHANGED <<people, closed>>

\* Leaving is final: the shifts after the day are marked as deleted.
After(r, day) == {i \in Ids : Live(i) /\ plan[i].of = r /\ plan[i].shift.day > day}
Finalize(r, day) ==
    /\ \A i \in After(r, day) : Free(Row(i), "NO KEY UPDATE")
    /\ people' = [people EXCEPT ![r].retire = day, ![r].retired = TRUE]
    /\ Delete(After(r, day))
\* A retirement, its change or its cancellation (day 0) waits for the record and
\* commits; the day may lie ahead, or have passed and the leaving be final at once.
Retire(r, day) ==
    /\ ~people[r].retired /\ Free(Staff(r), "NO KEY UPDATE")
    /\ \/ people' = [people EXCEPT ![r].retire = day] /\ UNCHANGED <<plan, told>>
       \/ day # 0 /\ Finalize(r, day)
    /\ UNCHANGED <<closed, tx>>
\* The batch settles a leaving whose day has passed.
Settle(r) ==
    /\ ~people[r].retired /\ people[r].retire # 0 /\ Free(Staff(r), "NO KEY UPDATE")
    /\ Finalize(r, people[r].retire) /\ UNCHANGED <<closed, tx>>
\* The store closes, with all who are employed locked: they leave on that day or
\* earlier.
Close(day) ==
    /\ ~closed /\ closed' = TRUE
    /\ \A r \in Records : ~people[r].retired => Free(Staff(r), "NO KEY UPDATE")
    /\ people' = [r \in Records |-> IF ~people[r].retired /\ people[r].retire \notin 1..day
                                   THEN [people[r] EXCEPT !.retire = day] ELSE people[r]]
    /\ UNCHANGED <<plan, told, tx>>

\* The purge deletes the history of the row in one statement and the row in the next.
PurgeHistory(q) ==
    /\ Finishing(q, "purge")
    /\ told' = [told EXCEPT ![tx[q].id] = NoShift]
    /\ tx' = [tx EXCEPT ![q].job = "purgeRow"]
    /\ UNCHANGED <<people, closed, plan>>
PurgeRow(q) ==
    /\ Finishing(q, "purgeRow")
    /\ plan' = [plan EXCEPT ![tx[q].id] = [NoRow EXCEPT !.state = "purged"]]
    /\ Answer(q) /\ UNCHANGED <<people, closed, told>>

Steps(q) ==
    \/ \E r \in Records, s \in Shifts : CreateShift(q, r, s)
    \/ \E i \in Ids : RemoveShift(q, i) \/ Purge(q, i) \/ \E s \in Shifts : UpdateShift(q, i, s)
    \/ \E w \in 1..Weeks : Copy(q, w)
    \/ Acquire(q)
    \/ FinishCreate(q) \/ FinishUpdate(q) \/ FinishRemove(q) \/ FinishCopy(q)
    \/ PurgeHistory(q) \/ PurgeRow(q)
Next ==
    \/ \E q \in Requests : Steps(q)
    \/ \E r \in Records : Settle(r) \/ \E day \in {0} \cup Calendar : Retire(r, day)
    \/ \E day \in Calendar : Close(day)
Spec == Init /\ [][Next]_planVars

-----------------------------------------------------------------------------
\* Types of the records, the rows and the requests in progress.
TypeOK ==
    /\ people \in [Records -> [retire : {0} \cup Calendar, retired : BOOLEAN, until : Calendar]]
    /\ closed \in BOOLEAN
    /\ \A i \in Ids : /\ plan[i].state \in {"none", "live", "deleted", "purged"}
                      /\ Live(i) => plan[i].of \in Records /\ plan[i].shift.day \in Calendar
                      /\ told[i].day \in {0} \cup Calendar

\* Pressed twice, or while others enter and move shifts, a copy of last week only
\* fills an empty week: what it counted empty is still empty when it writes.
CopiesIntoEmptyWeeks ==
    \A q \in Requests :
        tx[q].job = "copy" /\ tx[q].held # {} => LiveIn(WeekOf(tx[q].shift.day)) = {}

\* Nobody is planned twice at a time, without the exclusion constraint having to step in,
\* and whoever has left has no shift after the last day.
PlanHolds ==
    /\ \A i \in Ids : Live(i) => ~Overlaps(plan[i].of, plan[i].shift, i)
    /\ \A i \in Ids : Live(i) /\ people[plan[i].of].retired
                         => plan[i].shift.day <= people[plan[i].of].retire

\* What overlapping requests checked of the plan still holds when they write.
PlansHold == PlanHolds /\ CopiesIntoEmptyWeeks

\* The history is a chain: what an entry in the making gives as the value before is
\* what the row says and what the entry before it left; and the purge, whose two
\* statements each see what is committed by then, leaves no entry without its row.
HistoryIsAChain ==
    \A q \in Requests :
        /\ tx[q].job \in {"update", "remove"} /\ tx[q].want = <<>>
              => tx[q].found = plan[tx[q].id].shift /\ tx[q].found = told[tx[q].id]
        /\ tx[q].job = "purgeRow" => told[tx[q].id] = NoShift
=============================================================================
