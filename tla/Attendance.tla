----------------------------- MODULE Attendance -----------------------------
(***************************************************************************)
(* The working hours of one person, who may be employed at several stores: *)
(* the worker checks in and out with the app, and an administrator enters  *)
(* or corrects times.  The app locks the account; an administrator does so *)
(* too if the staff record has one, and otherwise locks the staff record.  *)
(* A time is a number of days, of which the last Window may be edited.     *)
(***************************************************************************)
EXTENDS Integers, Sequences, FiniteSets

CONSTANTS Members,   \* staff records of the person, one per store
          Devices,   \* devices the worker uses the app on
          Desks,     \* requests of administrators under way at once
          MaxShifts, \* bound on check-ins
          Days,      \* bound on the clock
          Window     \* how far back times may be edited

VARIABLES now,
          linked,   \* staff records that have the account (account_id)
          employed, \* staff records that are employed under a signed contract
          shifts,   \* check-ins, each with the check-outs that name it
          entry,    \* what the app on a device is registering
          edit,     \* what an administrator is registering
          crossed   \* an account came between the reading and the locking of an edit

attendanceVars == <<now, linked, employed, shifts, entry, edit, crossed>>

None == [op |-> "none"]
Shift == [member: Members, in: 0..Days, outs: Seq(0..Days)]

TypeOK ==
    /\ now \in 0..Days /\ linked \subseteq Members /\ employed \subseteq Members
    /\ shifts \in Seq(Shift) /\ Len(shifts) <= MaxShifts
    /\ \A i \in DOMAIN shifts, o \in 0..Days :
          o \in {shifts[i].outs[k] : k \in DOMAIN shifts[i].outs} => o > shifts[i].in /\ o <= now
    /\ DOMAIN entry = Devices /\ DOMAIN edit = Desks /\ crossed \in BOOLEAN

Init ==
    /\ now = 0 /\ linked \in SUBSET Members /\ employed = Members /\ shifts = <<>>
    /\ entry = [v \in Devices |-> None] /\ edit = [d \in Desks |-> None]
    /\ crossed = FALSE

----------------------------------------------------------------------------
Ids == DOMAIN shifts
Usable == linked \cap employed
IsOpen(i) == shifts[i].outs = <<>>
Editable(t) == t >= now - Window

\* openCheckInOf: the open check-ins that keep another one from being made.
OpenAt(members) == {i \in Ids : shifts[i].member \in members /\ IsOpen(i) /\ Editable(shifts[i].in)}
Latest(S) == CHOOSE i \in S : \A j \in S : \/ shifts[j].in < shifts[i].in
                                           \/ shifts[j].in = shifts[i].in /\ j <= i

\* Up to when a shift occupies its member: an open one counts as still going on.
Until(i) == IF ~IsOpen(i) THEN shifts[i].outs[1]
            ELSE IF Editable(shifts[i].in) THEN now + 1 ELSE shifts[i].in + 1

\* assertNoOverlap
Clashes(m, in, out, mine) ==
    \E i \in Ids \ mine : /\ shifts[i].member = m
                          /\ shifts[i].in < out /\ in < Until(i)

\* Who holds which row: FOR UPDATE of the account, of a staff record, of check-ins.
Locked(d) == edit[d].op # "none" /\ edit[d].step = "locked"
AccountIsFree ==
    /\ \A v \in Devices : entry[v] = None
    /\ \A d \in Desks : Locked(d) => edit[d].lock # "account"
RecordIsFree(m) == \A d \in Desks : Locked(d) => ~(edit[d].lock = "record" /\ edit[d].member = m)
CheckInIsFree(i) == \A d \in Desks : Locked(d) /\ edit[d].op = "correct" => edit[d].shift # i

LockIsFree(d) == IF edit[d].lock = "account" THEN AccountIsFree ELSE RecordIsFree(edit[d].member)
Unmoved == UNCHANGED <<now, linked, employed, crossed>>

----------------------------------------------------------------------------
\* checkIn and checkOut: under the lock of the account it is looked up what is
\* open, ...
CheckIn(v, m) ==
    /\ entry[v] = None /\ AccountIsFree /\ m \in Usable /\ OpenAt(Usable) = {}
    /\ entry' = [entry EXCEPT ![v] = [op |-> "in", member |-> m]]
    /\ Unmoved /\ UNCHANGED <<shifts, edit>>

CheckOut(v, m) ==
    /\ entry[v] = None /\ AccountIsFree /\ m \in Usable /\ OpenAt(Usable) # {}
    /\ LET i == Latest(OpenAt(Usable)) IN
          /\ shifts[i].member = m /\ shifts[i].in >= now - 1
          /\ entry' = [entry EXCEPT ![v] = [op |-> "out", member |-> m, shift |-> i]]
    /\ Unmoved /\ UNCHANGED <<shifts, edit>>

\* ... and the row is inserted, which waits for a lock of the rows it refers to.
Record(v) ==
    LET e == entry[v] IN
    /\ e # None /\ RecordIsFree(e.member)
    /\ \/ /\ e.op = "in" /\ Len(shifts) < MaxShifts
          /\ shifts' = Append(shifts, [member |-> e.member, in |-> now, outs |-> <<>>])
       \/ /\ e.op = "out" /\ CheckInIsFree(e.shift) /\ shifts[e.shift].in < now
          /\ shifts' = [shifts EXCEPT ![e.shift].outs = Append(@, now)]
    /\ entry' = [entry EXCEPT ![v] = None]
    /\ Unmoved /\ UNCHANGED edit

Abort(v) == /\ entry[v] # None /\ entry' = [entry EXCEPT ![v] = None]
            /\ Unmoved /\ UNCHANGED <<shifts, edit>>

----------------------------------------------------------------------------
\* Before it locks, an edit reads whether the staff record has an account.
LockOf(m) == IF m \in linked THEN "account" ELSE "record"
Times == {t \in (0..now) \X (0..now + 1) : t[1] < t[2] /\ Editable(t[1])}
Begin(d, e) == /\ edit[d] = None /\ edit' = [edit EXCEPT ![d] = e]
               /\ Unmoved /\ UNCHANGED <<shifts, entry>>

\* proxy: times the worker could not register; out = now + 1: a check-in only.
BeginProxy(d, m) ==
    /\ m \in employed
    /\ \E t \in Times : Begin(d, [op |-> "proxy", step |-> "read", lock |-> LockOf(m), member |-> m,
                               in |-> t[1], out |-> t[2]])

LockForProxy(d) ==
    LET e == edit[d]
        alone == IF e.lock = "account" THEN Usable \cup {e.member} ELSE {e.member}
    IN
    /\ e.op = "proxy" /\ e.step = "read" /\ LockIsFree(d)
    /\ e.out = now + 1 => OpenAt(alone) = {}
    /\ ~Clashes(e.member, e.in, e.out, {})
    /\ edit' = [edit EXCEPT ![d].step = "locked"]
    /\ Unmoved /\ UNCHANGED <<shifts, entry>>

EnterProxy(d) ==
    /\ Locked(d) /\ edit[d].op = "proxy" /\ Len(shifts) < MaxShifts
    /\ shifts' = Append(shifts, [member |-> edit[d].member, in |-> edit[d].in,
                                 outs |-> IF edit[d].out > now THEN <<>> ELSE <<edit[d].out>>])
    /\ edit' = [edit EXCEPT ![d] = None]
    /\ Unmoved /\ UNCHANGED entry

\* A mutant: the pair is not read again once it is locked.
LockForCorrectionOnce(d) ==
    LET e == edit[d] IN
    /\ e.op = "correct" /\ e.step = "read" /\ LockIsFree(d) /\ CheckInIsFree(e.shift)
    /\ Editable(e.seen.in)
    /\ ~Clashes(e.member, e.in, e.out, {e.shift})
    /\ edit' = [edit EXCEPT ![d].step = "locked"]
    /\ Unmoved /\ UNCHANGED <<shifts, entry>>

\* correct: a check-in with its check-out, which is made if there is none; of one that
\* is open the check-in alone may be corrected (out = now + 1).
BeginCorrection(d, i) ==
    \E t \in Times :
        /\ t[2] <= now \/ IsOpen(i)
        /\ Begin(d, [op |-> "correct", step |-> "read", lock |-> LockOf(shifts[i].member),
                     member |-> shifts[i].member, shift |-> i, seen |-> shifts[i],
                     in |-> t[1], out |-> t[2]])

\* lockedPair: the pair is locked, read again, and is still as it was shown.
LockForCorrection(d) ==
    LET e == edit[d] IN
    /\ e.op = "correct" /\ e.step = "read" /\ LockIsFree(d) /\ CheckInIsFree(e.shift)
    /\ shifts[e.shift] = e.seen /\ Editable(e.seen.in)
    /\ ~Clashes(e.member, e.in, e.out, {e.shift})
    /\ edit' = [edit EXCEPT ![d].step = "locked"]
    /\ Unmoved /\ UNCHANGED <<shifts, entry>>

EnterCorrection(d) ==
    LET e == edit[d]
        was == shifts[e.shift].outs
        outs == IF e.out > now THEN was
                ELSE IF e.seen.outs = <<>> THEN Append(was, e.out) ELSE [was EXCEPT ![1] = e.out]
    IN
    /\ Locked(d) /\ e.op = "correct"
    /\ shifts' = [shifts EXCEPT ![e.shift].in = e.in, ![e.shift].outs = outs]
    /\ edit' = [edit EXCEPT ![d] = None]
    /\ Unmoved /\ UNCHANGED entry

Refuse(d) == /\ edit[d] # None /\ edit' = [edit EXCEPT ![d] = None]
             /\ Unmoved /\ UNCHANGED <<shifts, entry>>

----------------------------------------------------------------------------
\* acceptForAccount gives the staff record its account; both are locked for it.
Link(m) ==
    /\ m \notin linked /\ AccountIsFree /\ RecordIsFree(m)
    /\ linked' = linked \cup {m}
    /\ crossed' = (crossed \/ \E d \in Desks : edit[d].op # "none" /\ edit[d].member = m)
    /\ UNCHANGED <<now, employed, shifts, entry, edit>>

\* The end of an employment, which locks the record and then the account.
Retire(m) ==
    /\ m \in employed /\ RecordIsFree(m)
    /\ m \in linked => AccountIsFree
    /\ employed' = employed \ {m}
    /\ UNCHANGED <<now, linked, shifts, entry, edit, crossed>>

Tick == /\ now < Days /\ now' = now + 1
        /\ \A v \in Devices : entry[v] = None   \* a request is quicker than a day
        /\ \A d \in Desks : edit[d] = None
        /\ UNCHANGED <<linked, employed, shifts, entry, edit, crossed>>

Next ==
    \/ \E v \in Devices : \/ \E m \in Members : CheckIn(v, m) \/ CheckOut(v, m)
                          \/ Record(v) \/ Abort(v)
    \/ \E d \in Desks : \/ \E m \in Members : BeginProxy(d, m)
                        \/ \E i \in Ids : BeginCorrection(d, i)
                        \/ LockForProxy(d) \/ EnterProxy(d)
                        \/ LockForCorrection(d) \/ EnterCorrection(d) \/ Refuse(d)
    \/ \E m \in Members : Link(m) \/ Retire(m)
    \/ Tick

Spec == Init /\ [][Next]_attendanceVars

----------------------------------------------------------------------------
(* While an edit that found no account is waiting for its lock the record    *)
(* can be given one, and then the app and the edit hold different locks.     *)
(* What follows is claimed up to that moment.                                *)

\* A check-in is made only while the account has none that is open, whichever
\* stores, devices and administrators are at it.
OneOpenCheckIn ==
    [][~crossed => \A i \in Ids' \ Ids :
          IsOpen(i)' /\ shifts[i].member' \in Usable => OpenAt(Usable) = {}]_attendanceVars

\* A check-in has at most one check-out: hours are not counted twice.
OneCheckOut == ~crossed => \A i \in Ids : Len(shifts[i].outs) <= 1

\* Shifts of one staff record never overlap; an open one lasts until now.
NoOverlap ==
    ~crossed => \A i, j \in Ids :
        i # j /\ shifts[i].member = shifts[j].member =>
            Until(i) <= shifts[j].in \/ Until(j) <= shifts[i].in

\* No hour is counted twice: neither by two check-outs nor by two shifts.
HoursCountOnce == OneCheckOut /\ NoOverlap
=============================================================================
