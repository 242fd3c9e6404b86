---------------------------- MODULE StoreClosing ----------------------------
(***************************************************************************)
(* One store, its staff records and the requests that lock their rows:     *)
(* the update that opens or closes the store, its removal, retirement and  *)
(* its cancellation, contracts written, sent and sent again, acceptances   *)
(* and clocking in (stores/store-management.service.ts,                    *)
(* store-closings/store-closings.service.ts, retireStores of               *)
(* staff-members/retirement.service.ts).  A request is one PostgreSQL      *)
(* transaction under READ COMMITTED: it takes its row locks one after the  *)
(* other, waits where they conflict, and does its writing at the end.      *)
(***************************************************************************)
EXTENDS RowLocks

CONSTANTS
    Records,    \* staff records of the store, in the order of their ids
    Days,       \* the last day of the calendar
    MaxChanges  \* Bound: updates of the store's row (its updatedAt)

ASSUME StoreAssumption ==
    /\ Records \subseteq Nat /\ IsFiniteSet(Records)
    /\ Days \in Nat \ {0} /\ MaxChanges \in Nat

VARIABLES
    day,        \* today in Korea
    status,     \* store_status_code, or "deleted" (is_deleted)
    changes,    \* updatedAt, as the number of updates
    closedOn,   \* closed_date, 0 before
    staff,      \* record -> employment, retired_date (0: none), account linked
    contract,   \* record -> status of its contract, "none" without one
    invited,    \* record -> status of its invitation, "none" without one
    atWork,     \* records with a check-in and no check-out yet
    late        \* history: records written to while or after the store closed

rows == <<day, status, changes, closedOn, staff, contract, invited, atWork, late>>
vars == <<rows, tx>>

None == 0
Pending == {"DRAFT", "PENDING_SEND", "PENDING_SIGNATURE"}
InProgress(r) == contract[r] \in Pending \cup {"SIGNED"}
Employed == {r \in Records : staff[r].employment = "EMPLOYED"}
There == status # "deleted"

\* What a request asks for beyond its job: the new status of the store, the state a
\* contract is saved in, the worker's answer.
Aims(job) ==
    CASE job = "update" -> {"NOT_OPERATING", "OPERATING", "CLOSED"}
      [] job = "write" -> {"DRAFT", "PENDING_SEND"}
      [] job = "sign" -> {"SIGNED", "REJECTED"}
      [] job = "answer" -> {"ACCEPTED", "REJECTED"}
      [] OTHER -> {"none"}
StoreJobs == {"update", "remove"}
StaffJobs == {"clockIn", "retire", "move", "cancel", "answer", "send", "resend", "sign", "write"}

(* The rows that are locked. *)
Store == <<"store", 0>>
Staff(r) == <<"staff", r>>
Account(r) == <<"account", r>>

Idle == [job |-> "idle", of |-> None, to |-> "none", seen |-> 0, again |-> FALSE,
         held |-> {}, want |-> <<>>]

Init ==
    /\ day = 1 /\ status \in {"NOT_OPERATING", "OPERATING"}
    /\ changes = 0 /\ closedOn = 0
    /\ staff = [r \in Records |-> [employment |-> "none", retire |-> 0, linked |-> FALSE]]
    /\ contract = [r \in Records |-> "none"] /\ invited = [r \in Records |-> "none"]
    /\ atWork = {} /\ late = {} /\ tx = [q \in Requests |-> Idle]

\* The locks a job starts with; clocking in, retirement and closing learn the
\* others on the way (More).
FirstLocks(job, r) ==
    CASE job = "update" -> <<Lock(Store, "NO KEY UPDATE")>>
      [] job = "remove" -> <<Lock(Store, "UPDATE")>>
      [] job = "clockIn" -> <<Lock(Account(r), "UPDATE")>>
      [] job \in {"retire", "move", "cancel", "send", "sign"} -> <<Lock(Staff(r), "NO KEY UPDATE")>>
      [] job = "resend" -> <<Lock(Staff(r), "NO KEY UPDATE"), Lock(Store, "SHARE")>>
      [] job = "answer" -> <<Lock(Account(r), "UPDATE"), Lock(Staff(r), "UPDATE")>>
      [] job = "write" -> (IF r \in Employed THEN <<Lock(Staff(r), "NO KEY UPDATE")>> ELSE <<>>)
                          \o <<Lock(Store, "KEY SHARE")>>

\* What is read without a lock before the transaction begins.
Admitted(job, r, to) ==
    /\ There
    /\ job = "update" => /\ status # "CLOSED" /\ changes < MaxChanges
                         /\ to \in {"OPERATING", "CLOSED", status}
    /\ job = "remove" => status = "NOT_OPERATING" /\ ~\E x \in Records : InProgress(x)
    /\ job = "write" => status # "CLOSED" /\ ~InProgress(r)
    /\ job \in StaffJobs \ {"write"} => r \in Employed
    /\ job = "answer" => invited[r] # "none"

Begin(q, job, r, to) ==
    /\ tx[q].job = "idle" /\ Admitted(job, r, to)
    /\ tx' = [tx EXCEPT ![q] = [Idle EXCEPT !.job = job, !.of = r, !.to = to, !.seen = changes,
                                            !.want = FirstLocks(job, r)]]
    /\ UNCHANGED rows

\* The check-in as checkIn judges it, with the account locked.
MayClockIn(r) ==
    /\ staff[r].employment = "EMPLOYED" /\ staff[r].linked /\ contract[r] = "SIGNED"
    /\ status # "CLOSED" /\ There /\ r \notin atWork

\* What a closing locks of the records and, once it has them, of their accounts
\* (the variants: records FOR UPDATE; no accounts).
RecordLocksForUpdate == LocksOn(Employed, Staff, "UPDATE")
ClosingRecordLocks == LocksOn(Employed, Staff, "NO KEY UPDATE")
NoAccountLocks(held) == <<>>
ClosingAccountLocks(held) ==
    LocksOn({x \in Employed : staff[x].linked /\ \E l \in held : l.row = Staff(x)}, Account, "UPDATE")

\* The locks q learns of when its next one is granted: closing finds the records
\* to lock once the store is its own, their accounts once the records are.
More(q) ==
    LET job == tx[q].job
        row == Head(tx[q].want).row
        r == tx[q].of
    IN  CASE job = "update" /\ tx[q].to = "CLOSED" /\ row = Store ->
                 ClosingRecordLocks
          [] job = "update" /\ row[1] = "staff" /\ Len(tx[q].want) = 1 ->
                 ClosingAccountLocks(Granted(q))
          [] job \in {"retire", "move", "cancel"} /\ row = Staff(r) /\ staff[r].linked ->
                 <<Lock(Account(r), "UPDATE")>>
          [] job = "clockIn" /\ row = Account(r) ->
                 <<Lock(Staff(r), "KEY SHARE"), Lock(Store, "KEY SHARE")>>
          [] OTHER -> <<>>

\* What is judged again as a lock is granted; otherwise the transaction is given up.
StillGood(q) ==
    LET row == Head(tx[q].want).row
    IN  /\ tx[q].job = "update" /\ row = Store => There /\ changes = tx[q].seen
        /\ tx[q].job = "clockIn" /\ row[1] = "account" => MayClockIn(tx[q].of)

Acquire(q) ==
    /\ tx[q].want # <<>> /\ Blockers(q) = {}
    /\ tx' = [tx EXCEPT ![q] = IF StillGood(q)
                               THEN [tx[q] EXCEPT !.held = Granted(q), !.want = Tail(@) \o More(q)]
                               ELSE Idle]
    /\ UNCHANGED rows

\* PostgreSQL gives up one transaction of a circle; a closing is run once more
\* from its beginning, a second circle is answered with 409 (retryOnDeadlock).
Abort(q) ==
    /\ \E C \in Circles : q \in C
    /\ tx' = [tx EXCEPT ![q] = IF tx[q].to = "CLOSED" /\ ~tx[q].again
                               THEN [@ EXCEPT !.held = {}, !.again = TRUE,
                                              !.want = FirstLocks("update", None)]
                               ELSE Idle]
    /\ UNCHANGED rows

Finishing(q, job) == tx[q].job = job /\ tx[q].want = <<>>
Answer(q) == tx' = [tx EXCEPT ![q] = Idle]
Ended(c) == IF c \in Pending THEN "ENDED" ELSE c
Expired(i) == IF i = "SENT" THEN "EXPIRED" ELSE i

\* The records a closing has locked; those no longer employed are not returned.
Locked(q) == {r \in Employed : Holds(q, Staff(r))}

Update(q) ==
    /\ Finishing(q, "update") /\ tx[q].to # "CLOSED"
    /\ status' = tx[q].to /\ changes' = changes + 1 /\ Answer(q)
    /\ UNCHANGED <<day, closedOn, staff, contract, invited, atWork, late>>

\* close and retireStores: every locked record leaves today at the latest, every
\* pending contract and live invitation of the store ends.
Close(q) ==
    /\ Finishing(q, "update") /\ tx[q].to = "CLOSED"
    /\ Locked(q) \cap atWork = {}
    /\ status' = "CLOSED" /\ changes' = changes + 1 /\ closedOn' = day
    /\ staff' = [r \in Records |->
                    IF r \in Locked(q) /\ (staff[r].retire = 0 \/ staff[r].retire > day)
                    THEN [staff[r] EXCEPT !.retire = day] ELSE staff[r]]
    /\ contract' = [r \in Records |-> Ended(contract[r])]
    /\ invited' = [r \in Records |-> Expired(invited[r])]
    /\ Answer(q) /\ UNCHANGED <<day, atWork, late>>

\* A record at work: 409 OPEN_CHECK_IN, everything rolled back.
CloseRefused(q) ==
    /\ Finishing(q, "update") /\ tx[q].to = "CLOSED"
    /\ Locked(q) \cap atWork # {}
    /\ Answer(q) /\ UNCHANGED rows

RemoveStore(q) ==
    /\ Finishing(q, "remove")
    /\ IF status = "NOT_OPERATING" /\ ~\E r \in Records : InProgress(r)
       THEN status' = "deleted" /\ changes' = changes + 1
       ELSE UNCHANGED <<status, changes>>
    /\ Answer(q) /\ UNCHANGED <<day, closedOn, staff, contract, invited, atWork, late>>

ClockIn(q) ==
    /\ Finishing(q, "clockIn")
    /\ atWork' = atWork \cup {tx[q].of} /\ Answer(q)
    /\ UNCHANGED <<day, status, changes, closedOn, staff, contract, invited, late>>

\* Clocking out takes the account's lock for one short transaction.
ClockOut(r) ==
    /\ r \in atWork /\ Free(Account(r), "UPDATE")
    /\ atWork' = atWork \ {r}
    /\ UNCHANGED <<day, status, changes, closedOn, staff, contract, invited, late, tx>>

Finalized(r, date) ==
    /\ staff' = [staff EXCEPT ![r].retire = date, ![r].employment = "RETIRED"]
    /\ contract' = [contract EXCEPT ![r] = Ended(@)]
    /\ invited' = [invited EXCEPT ![r] = Expired(@)]
Scheduled(r, date) ==
    IF date # 0 /\ date < day THEN Finalized(r, date)
    ELSE staff' = [staff EXCEPT ![r].retire = date] /\ UNCHANGED <<contract, invited>>

\* retire, changeDate and cancel with their guards under the locks of lockStaff.
MayRetire(r) ==
    /\ r \in Employed /\ staff[r].retire = 0 /\ r \notin atWork
    /\ staff[r].linked \/ contract[r] \notin {"none", "DRAFT"}
MayMove(r) == r \in Employed /\ staff[r].retire > day

Retire(q) ==
    LET r == tx[q].of IN
    /\ \/ Finishing(q, "retire") /\ MayRetire(r) /\ \E d \in 1..Days : Scheduled(r, d)
       \/ Finishing(q, "move") /\ MayMove(r) /\ r \notin atWork
          /\ \E d \in (1..Days) \ {staff[r].retire} : Scheduled(r, d)
       \/ Finishing(q, "cancel") /\ MayMove(r) /\ Scheduled(r, 0)
    /\ Answer(q) /\ UNCHANGED <<day, status, changes, closedOn, atWork, late>>
RetireRefused(q) ==
    LET r == tx[q].of IN
    /\ \/ Finishing(q, "retire") /\ ~MayRetire(r)
       \/ Finishing(q, "move") /\ (~MayMove(r) \/ r \in atWork)
       \/ Finishing(q, "cancel") /\ ~MayMove(r)
    /\ Answer(q) /\ UNCHANGED rows

\* The batch settles each record whose day has passed in a transaction of its own.
RetireDue(r) ==
    /\ r \in Employed /\ staff[r].retire \in 1..(day - 1)
    /\ Free(Staff(r), "NO KEY UPDATE") /\ Finalized(r, staff[r].retire)
    /\ UNCHANGED <<day, status, changes, closedOn, atWork, late, tx>>

\* A contract is written, for a new record or one still employed: it is a draft or
\* waits to be sent.  The insertion waits for nobody but a removal of the store.
Write(q) ==
    LET r == tx[q].of
        closing == \E p \in Requests : tx[p].to = "CLOSED" /\ tx[p].held # {}
        fresh == staff[r].employment = "none"
    IN  /\ Finishing(q, "write")
        /\ fresh \/ (r \in Employed /\ staff[r].retire = 0)
        /\ ~InProgress(r)
        /\ contract' = [contract EXCEPT ![r] = tx[q].to]
        /\ staff' = [staff EXCEPT ![r].employment = "EMPLOYED"]
        /\ invited' = [invited EXCEPT ![r] = IF tx[q].to = "PENDING_SEND" THEN "SENT" ELSE Expired(@)]
        /\ late' = IF status \in {"CLOSED", "deleted"} \/ (fresh /\ closing) THEN late \cup {r} ELSE late
        /\ Answer(q) /\ UNCHANGED <<day, status, changes, closedOn, atWork>>
WriteRefused(q) ==
    LET r == tx[q].of IN
    /\ Finishing(q, "write")
    /\ InProgress(r) \/ (staff[r].employment # "none" /\ (r \notin Employed \/ staff[r].retire # 0))
    /\ Answer(q) /\ UNCHANGED rows

\* A contract that waits is sent, again or for the first time.
MaySend(r) == contract[r] \in {"PENDING_SEND", "PENDING_SIGNATURE"}
\* A refused one is revived if the store, read under its lock, is open.
MayReopen(r) ==
    /\ contract[r] = "REJECTED" /\ status # "CLOSED" /\ There
    /\ r \in Employed /\ staff[r].retire = 0
Send(q) ==
    LET r == tx[q].of IN
    /\ \/ Finishing(q, "send") /\ MaySend(r)
          /\ contract' = IF staff[r].linked THEN [contract EXCEPT ![r] = "PENDING_SIGNATURE"] ELSE contract
       \/ Finishing(q, "resend") /\ MayReopen(r)
          /\ contract' = [contract EXCEPT ![r] = IF staff[r].linked THEN "PENDING_SIGNATURE" ELSE "PENDING_SEND"]
    /\ invited' = IF staff[r].linked THEN invited ELSE [invited EXCEPT ![r] = "SENT"]
    /\ Answer(q) /\ UNCHANGED <<day, status, changes, closedOn, staff, atWork, late>>
SendRefused(q) ==
    /\ \/ Finishing(q, "send") /\ ~MaySend(tx[q].of)
       \/ Finishing(q, "resend") /\ ~MayReopen(tx[q].of)
    /\ Answer(q) /\ UNCHANGED rows

\* An invitation or affiliation request is answered: accepted, the record becomes the
\* account's and its contract waits for the signature; refused, the contract is too.
\* Answered before, it is found out only here, with account and record locked.
MayAnswer(r) == invited[r] = "SENT" /\ ~staff[r].linked
Accept(q) ==
    LET r == tx[q].of
        after == IF tx[q].to = "ACCEPTED" THEN "PENDING_SIGNATURE" ELSE "REJECTED"
    IN  /\ Finishing(q, "answer") /\ MayAnswer(r)
        /\ invited' = [invited EXCEPT ![r] = tx[q].to]
        /\ staff' = [staff EXCEPT ![r].linked = (tx[q].to = "ACCEPTED")]
        /\ contract' = [contract EXCEPT ![r] = IF @ = "PENDING_SEND" THEN after ELSE @]
        /\ Answer(q) /\ UNCHANGED <<day, status, changes, closedOn, atWork, late>>
AnswerRefused(q) ==
    /\ Finishing(q, "answer") /\ ~MayAnswer(tx[q].of)
    /\ Answer(q) /\ UNCHANGED rows

\* The worker signs or refuses under the lock of the record.
Sign(q) ==
    LET r == tx[q].of IN
    /\ Finishing(q, "sign")
    /\ contract' = IF contract[r] = "PENDING_SIGNATURE" /\ staff[r].linked
                   THEN [contract EXCEPT ![r] = tx[q].to] ELSE contract
    /\ Answer(q) /\ UNCHANGED <<day, status, changes, closedOn, staff, invited, atWork, late>>

NextDay == day < Days /\ day' = day + 1
           /\ UNCHANGED <<status, changes, closedOn, staff, contract, invited, atWork, late, tx>>

Steps(q) ==
    \/ \E job \in StoreJobs : \E to \in Aims(job) : Begin(q, job, None, to)
    \/ \E job \in StaffJobs, r \in Records : \E to \in Aims(job) : Begin(q, job, r, to)
    \/ Acquire(q) \/ Abort(q)
    \/ Update(q) \/ Close(q) \/ CloseRefused(q) \/ RemoveStore(q)
    \/ ClockIn(q) \/ Retire(q) \/ RetireRefused(q) \/ Write(q) \/ WriteRefused(q)
    \/ Send(q) \/ SendRefused(q) \/ Accept(q) \/ AnswerRefused(q) \/ Sign(q)

Next ==
    \/ \E q \in Requests : Steps(q)
    \/ \E r \in Records : ClockOut(r) \/ RetireDue(r)
    \/ NextDay
Spec == Init /\ [][Next]_vars

-----------------------------------------------------------------------------
\* Types of the rows and of the requests in progress.
TypeOK ==
    /\ day \in 1..Days /\ closedOn \in 0..Days /\ changes \in 0..(MaxChanges + 1)
    /\ status \in {"NOT_OPERATING", "OPERATING", "CLOSED", "deleted"}
    /\ staff \in [Records -> [employment : {"none", "EMPLOYED", "RETIRED"},
                              retire : 0..Days, linked : BOOLEAN]]
    /\ contract \in [Records -> Pending \cup {"none", "SIGNED", "REJECTED", "ENDED"}]
    /\ invited \in [Records -> {"none", "SENT", "ACCEPTED", "REJECTED", "EXPIRED"}]
    /\ atWork \subseteq Records /\ late \subseteq Records
    /\ \A q \in Requests : tx[q].job \in StoreJobs \cup StaffJobs \cup {"idle"}

\* Whatever was under way when the store closed (clocking in, a contract sent again,
\* an acceptance, a retirement moved or cancelled), a closed store keeps nobody: each
\* record leaves on the day of closing or before and is not at work, no contract
\* waits and no invitation is live; and a removed store has no contract in progress.
\* Only records written to while it closed may be missed, which retireStores accepts.
GoneStoreHoldsNobody ==
    \A r \in Records \ late :
        /\ status = "CLOSED" =>
               /\ r \in Employed => staff[r].retire \in 1..closedOn /\ r \notin atWork
               /\ contract[r] \notin Pending /\ invited[r] # "SENT"
        /\ status = "deleted" => ~InProgress(r)

\* Requests wait in a circle only where one of them takes its rows against the order
\* store, record, account: a refused contract sent again (record before store) meets a
\* closing, as retryOnDeadlock says, and an answer (account before record) meets a
\* closing or a retirement.  Clocking in, writing, sending and signing never do.
CirclesAreKnown ==
    \A C \in Circles :
        /\ \E q \in C : tx[q].job \in {"resend", "answer"}
        /\ \A q \in C : tx[q].to = "CLOSED" \/ tx[q].job \in {"resend", "answer", "retire", "move", "cancel"}
=============================================================================
