--------------------------- MODULE InvitationCode ---------------------------
(***************************************************************************)
(* Entering an invitation code for one phone number, and the sends to that *)
(* number: the rows of invitation_code_attempts, which are the lock        *)
(* (StaffSignupService.guardCode; prepare and undo of                      *)
(* ContractDeliveryService).  The newest row is the state.  A send adds a  *)
(* row that unlocks the number; undoing the send deletes rows.  All three  *)
(* take the advisory lock of the number, so each is one step.              *)
(*                                                                         *)
(* Records are the staff records (at any store) that have this number: the *)
(* attempts of all of them share one key.  A send here is of kind INVITE;  *)
(* affiliation requests have no code and leave the rows alone.             *)
(***************************************************************************)
EXTENDS Integers

CONSTANTS
  Records,    \* staff records with the number
  MaxFailed,  \* MAX_FAILED_ATTEMPTS: 5 in the code
  LockTime,   \* CODE_LOCK_MS, in ticks of the clock
  MaxRows,    \* bound: attempt rows written in one behaviour
  MaxSends,   \* bound: sends
  MaxTime     \* bound: ticks

VARIABLES
  attempts,  \* invitation_code_attempts: id -> row
  lastId,    \* the last id of that table taken
  sends,     \* send -> its invitation, and what undo will remember of it
  issued,    \* the last send taken
  link,      \* record -> its invitation in SENT, or None
  now

vars == <<attempts, lastId, sends, issued, link, now>>

None == 0
Rows == 1..MaxRows
Sends == 1..MaxSends

\* kind: a row, or none (not written yet, or deleted).
NoRow == [kind |-> "NONE", ok |-> FALSE, failed |-> 0, until |-> 0]
AttemptRow ==
  [kind : {"NONE", "ROW"}, ok : BOOLEAN, failed : 0..MaxFailed, until : 0..(MaxTime + LockTime)]

\* st: "unsettled" between commit and answer; "settled" when the provider took
\* it or nobody will undo it; "answered" by the worker; "undone": row deleted.
NoSend == [st |-> "none", unlock |-> None, closed |-> None]
SendRow ==
  [st : {"none", "unsettled", "settled", "answered", "undone"},
   unlock : 0..MaxRows, closed : 0..MaxSends]

TypeOK ==
  /\ attempts \in [Rows -> AttemptRow]
  /\ lastId \in 0..MaxRows
  /\ sends \in [Sends -> SendRow]
  /\ issued \in 0..MaxSends
  /\ link \in [Records -> 0..MaxSends]
  /\ now \in 0..MaxTime

Init ==
  /\ attempts = [i \in Rows |-> NoRow]
  /\ lastId = 0
  /\ sends = [n \in Sends |-> NoSend]
  /\ issued = 0
  /\ link = [r \in Records |-> None]
  /\ now = 0

-----------------------------------------------------------------------------
(* The state of the lock (attempt-lock.ts)                                 *)

Kept(i) == attempts[i].kind = "ROW"
\* The last row kept among the ids up to "upto", or the cleared state.
StateAt(upto) ==
  IF \E i \in Rows : i <= upto /\ Kept(i)
  THEN attempts[CHOOSE i \in Rows : /\ i <= upto /\ Kept(i)
                                    /\ \A j \in Rows : j <= upto /\ Kept(j) => j <= i]
  ELSE NoRow
State == StateAt(lastId)

IsLocked(state) == state.until > now

RegisterFailure(state) ==
  IF IsLocked(state) THEN state
  ELSE LET failed == (IF state.until = 0 THEN state.failed ELSE 0) + 1
       IN  [state EXCEPT !.failed = failed,
                         !.until = IF failed >= MaxFailed THEN now + LockTime ELSE 0]

\* One more row; ok marks a new start.
Record(ok, state) ==
  /\ lastId < MaxRows
  /\ lastId' = lastId + 1
  /\ attempts' = [attempts EXCEPT ![lastId + 1] =
                    [kind |-> "ROW", ok |-> ok, failed |-> state.failed, until |-> state.until]]

-----------------------------------------------------------------------------
(* guardCode: a code is entered for the number                             *)

LiveLinks == {n \in Sends : \E r \in Records : link[r] = n}
\* Sends whose invitation row still exists, with its code.
Invitations == {n \in Sends : sends[n].st \notin {"none", "undone"}}

\* A locked number: the attempt is kept and not counted.
EnterLocked ==
  /\ IsLocked(State)
  /\ Record(FALSE, State)
  /\ UNCHANGED <<sends, issued, link, now>>

EnterLive ==
  /\ ~IsLocked(State)
  /\ LiveLinks # {}
  /\ Record(TRUE, NoRow)
  /\ UNCHANGED <<sends, issued, link, now>>

\* The code of an invitation that is over: neither counted nor cleared.
EnterEnded ==
  /\ ~IsLocked(State)
  /\ Invitations \ LiveLinks # {}
  /\ Record(FALSE, State)
  /\ UNCHANGED <<sends, issued, link, now>>

EnterWrong ==
  /\ ~IsLocked(State)
  /\ Record(FALSE, RegisterFailure(State))
  /\ UNCHANGED <<sends, issued, link, now>>

-----------------------------------------------------------------------------
(* The sends (ContractDeliveryService), as far as the rows go              *)

\* prepare: a new invitation closes the record's last one and unlocks.
Send(r) ==
  /\ issued < MaxSends
  /\ issued' = issued + 1
  /\ link' = [link EXCEPT ![r] = issued + 1]
  /\ sends' = [sends EXCEPT ![issued + 1] =
                 [st |-> "unsettled", unlock |-> lastId + 1, closed |-> link[r]]]
  /\ Record(TRUE, NoRow)
  /\ UNCHANGED now

\* The provider took it, or it stays unsettled for ever.
Settle(n) ==
  /\ sends[n].st = "unsettled"
  /\ sends' = [sends EXCEPT ![n].st = "settled"]
  /\ UNCHANGED <<attempts, lastId, issued, link, now>>

\* Faults: undo deletes every row from its own on; or it stops at any row that
\* says "no failures", also one that only repeats the state.
UndoneRowsAll(n) == {i \in Rows : i >= sends[n].unlock}
UndoneRowsToZero(n) ==
  {i \in Rows : /\ i >= sends[n].unlock
                /\ ~\E j \in Rows : /\ sends[n].unlock < j /\ j <= i /\ Kept(j)
                                    /\ attempts[j].failed = 0 /\ attempts[j].until = 0}

\* The unlock row and what was entered after it, up to the next new start.
UndoneRows(n) ==
  {i \in Rows : /\ i >= sends[n].unlock
                /\ ~\E j \in Rows : sends[n].unlock < j /\ j <= i /\ Kept(j) /\ attempts[j].ok}

\* undo: the invitation goes, and so do its rows; unless another request closed
\* or replaced the link, the one it had closed may be put back.
Undo(n) ==
  /\ sends[n].st = "unsettled"
  /\ sends' = [sends EXCEPT ![n].st = "undone"]
  /\ attempts' = [i \in Rows |-> IF i \in UndoneRows(n) THEN NoRow ELSE attempts[i]]
  /\ link' \in {[r \in Records |-> IF link[r] = n THEN back ELSE link[r]] :
                  back \in {None} \union ({sends[n].closed} \intersect Invitations)}
  /\ UNCHANGED <<lastId, issued, now>>

\* The worker takes up the invitation, perhaps in the app before it was sent.
Answer(r) ==
  /\ link[r] # None
  /\ sends' = [sends EXCEPT ![link[r]].st = "answered"]
  /\ link' = [link EXCEPT ![r] = None]
  /\ UNCHANGED <<attempts, lastId, issued, now>>

\* Hiring called off, retirement, or past its date.
CloseLink(r) ==
  /\ link[r] # None
  /\ link' = [link EXCEPT ![r] = None]
  /\ UNCHANGED <<attempts, lastId, sends, issued, now>>

Tick == now < MaxTime /\ now' = now + 1 /\ UNCHANGED <<attempts, lastId, sends, issued, link>>

Next ==
  \/ EnterLocked \/ EnterLive \/ EnterEnded \/ EnterWrong
  \/ \E r \in Records : Send(r)
  \/ \E n \in Sends : Settle(n)
  \/ \E n \in Sends : Undo(n)
  \/ \E r \in Records : Answer(r)
  \/ \E r \in Records : CloseLink(r)
  \/ Tick

Spec == Init /\ [][Next]_vars

-----------------------------------------------------------------------------
(* Properties                                                              *)

\* Whoever received a code can use it: unless MaxFailed failures were entered
\* after its send, the number is not locked, whatever other sends were undone
\* meanwhile (undo "stops before the row from which that request unlocked").
ReceivedCodeWorks ==
  \A n \in LiveLinks : IsLocked(State) =>
    \A k \in 1..MaxFailed :
      \E i \in Rows : i > sends[n].unlock /\ Kept(i) /\ attempts[i].failed = k

\* The rows of guardCode, sends and undos keep the counts that CodeThrottle
\* describes: a send that never went out leaves the lock as it found it.
IsStart(i) == Kept(i) /\ attempts[i].ok
CountFrom(start) ==
  LET mine == {i \in start..lastId : i # 0 /\ Kept(i) /\ ~\E j \in (start + 1)..i : IsStart(j)}
      last == attempts[CHOOSE i \in mine : \A j \in mine : j <= i]
  IN  IF mine = {} THEN [failed |-> 0, until |-> 0]
      ELSE [failed |-> last.failed, until |-> last.until]
Counts == [start \in {0} \union {i \in Rows : IsStart(i)} |-> CountFrom(start)]
Throttle == INSTANCE CodeThrottle WITH
  counts <- Counts,
  unlocks <- {sends[n].unlock : n \in 1..issued},
  clock <- now
ImplementsThrottle == Throttle!ThrottleSpec
=============================================================================
