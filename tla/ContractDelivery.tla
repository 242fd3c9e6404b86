-------------------------- MODULE ContractDelivery --------------------------
(***************************************************************************)
(* Sending employment contracts at one store: the contract, staff-record   *)
(* and invitation rows, every request that writes them, and the sends that *)
(* a request commits and only then hands to the Alimtalk provider.         *)
(*                                                                         *)
(* A request's transaction is one step: it runs under the phone lock and   *)
(* the staff and contract row locks (lockPeople, lockContractWithStaff).   *)
(* What follows its commit is not: ContractDeliveryService.dispatch reads  *)
(* the invitation again, calls the provider and, when nothing went out,    *)
(* undoes the send in a second transaction.  Those are steps of their own, *)
(* interleaved with every other request and with a crash of the process.   *)
(*                                                                         *)
(* Abstractions.  Time is the order of the sends: each send (and each      *)
(* acceptance of an affiliation request, which starts a signing period)    *)
(* takes the next stamp, and everything stamped up to "lapsed" is over 30  *)
(* days old.  A send's stamp is also its invitation's id and the           *)
(* contract's sentAt.  An account is named by its phone number.            *)
(***************************************************************************)
EXTENDS ContractStatus, Integers, FiniteSets

CONSTANTS
  Staff,      \* ids of staff records
  Phones,     \* phone numbers, each standing for the person and account behind it
  Contracts,  \* contract ids
  NoOne,      \* a null reference
  Leavers,    \* bound: the records an administrator may retire
  MaxStamps   \* bound: sends and affiliation acceptances of one behaviour

ASSUME LeaversAssumption == Leavers \subseteq Staff
ASSUME MaxStampsAssumption == MaxStamps \in Nat
ASSUME NoOneAssumption == NoOne \notin Staff \union Phones

VARIABLES
  account,   \* phone -> an account with that number exists
  staff,     \* staff_members rows
  contract,  \* contracts rows
  history,   \* contract_status_histories: what the rows of a contract say
  inv,       \* invitations rows, by id
  pending,   \* sends committed by a request that has not yet answered
  out,       \* sends the provider accepted: they may have reached the worker
  lost,      \* sends nobody will settle: crash, unknown outcome, failed undo
  stamps,    \* the last stamp taken
  lapsed     \* stamps up to here are more than 30 days old

vars == <<account, staff, contract, history, inv, pending, out, lost, stamps, lapsed>>
answerVars == <<pending, out, lost>>

Stamps == 1..MaxStamps
Never == 0
StampsOrNever == 0..MaxStamps

NoContract == [st |-> "NONE", staff |-> NoOne, act |-> "NONE",
               sent |-> Never, due |-> Never, renews |-> FALSE]
DeletedContract == [NoContract EXCEPT !.st = "GONE"]
NoRecord == [join |-> "NONE", phone |-> NoOne, cand |-> NoOne,
             leave |-> "STAYS", logged |-> FALSE]
DeletedRecord == [NoRecord EXCEPT !.join = "GONE"]
NoInvitation == [st |-> "NONE", staff |-> NoOne, kind |-> "NONE"]
NoHistory == [last |-> "NONE", by |-> Never, seen |-> {}]

-----------------------------------------------------------------------------
(* The rows of the database                                                *)

ContractRow ==
  [st : Statuses \union {"NONE", "GONE"}, staff : Staff \union {NoOne},
   act : DraftActions, sent : StampsOrNever, due : StampsOrNever, renews : BOOLEAN]
StaffRow ==
  [join : {"NONE", "DRAFT", "INVITED", "JOINED", "GONE"},
   phone : Phones \union {NoOne}, cand : Phones \union {NoOne},
   leave : {"STAYS", "LEAVING", "LEFT"}, logged : BOOLEAN]
InvitationRow ==
  [st : {"NONE", "SENT", "ACCEPTED", "REJECTED", "UNDER_AGE", "EXPIRED"},
   staff : Staff \union {NoOne}, kind : DraftActions]
\* The status history as far as it is read: the status of its newest row, the
\* send that wrote that row, and which endings and signings it has recorded.
HistoryRows ==
  [last : Statuses \union {"NONE"}, by : StampsOrNever,
   seen : SUBSET {"SIGNED", "REJECTED", "EXPIRED"}]
\* DeliveryBefore: the values a send may have to be turned back to.
Before ==
  [st : Statuses \union {"NONE"}, sent : StampsOrNever, due : StampsOrNever,
   act : DraftActions, join : {"DRAFT", "INVITED"}, cand : Phones \union {NoOne}]
PendingInvite ==
  [send : Stamps, stage : {"committed", "sending", "undoing"},
   contract : Contracts, staff : Staff, kind : {"INVITE", "AFFILIATION"},
   before : Before, moved : BOOLEAN, phoneChanged : BOOLEAN, replaced : BOOLEAN,
   expired : SUBSET Stamps]

TypeOK ==
  /\ account \in [Phones -> BOOLEAN]
  /\ staff \in [Staff -> StaffRow]
  /\ contract \in [Contracts -> ContractRow]
  /\ history \in [Contracts -> HistoryRows]
  /\ inv \in [Stamps -> InvitationRow]
  /\ pending \subseteq PendingInvite
  /\ out \subseteq Stamps
  /\ lost \subseteq Stamps
  /\ stamps \in StampsOrNever
  /\ lapsed \in StampsOrNever

Init ==
  /\ account = [ph \in Phones |-> FALSE]
  /\ staff = [s \in Staff |-> NoRecord]
  /\ contract = [c \in Contracts |-> NoContract]
  /\ history = [c \in Contracts |-> NoHistory]
  /\ inv = [n \in Stamps |-> NoInvitation]
  /\ pending = {}
  /\ out = {}
  /\ lost = {}
  /\ stamps = Never
  /\ lapsed = Never

-----------------------------------------------------------------------------
(* What the handlers read                                                  *)

Exists(c) == contract[c].st \in Statuses
Registered(s) == staff[s].join \in {"DRAFT", "INVITED", "JOINED"}
Joined(s) == staff[s].join = "JOINED"
StaffOf(C) == {contract[d].staff : d \in C}
Live(s) == {n \in Stamps : inv[n].st = "SENT" /\ inv[n].staff = s}
Due(stamp) == stamp # Never /\ stamp <= lapsed

\* Fault: whoever is scheduled to leave no longer counts as employed.
EmployedStaying(ph) ==
  {s \in Staff : Joined(s) /\ staff[s].phone = ph /\ staff[s].leave = "STAYS"}

\* A joined record still employed under that number: a second one is refused.
EmployedAt(ph) ==
  {s \in Staff : Joined(s) /\ staff[s].phone = ph /\ staff[s].leave # "LEFT"}

\* Fault: drafts of the number are not replaced.
InProgressButDrafts(ph, except) ==
  {d \in Contracts \ {except} :
     contract[d].st \in InProgress \ {"DRAFT"} /\ staff[contract[d].staff].phone = ph}

InProgressAt(ph, except) ==
  {d \in Contracts \ {except} :
     contract[d].st \in InProgress /\ staff[contract[d].staff].phone = ph}

\* SIGNED_ONCE: signed now, or ended by the daily batch after it was signed.
SignedOnce(c) ==
  \/ contract[c].st = "SIGNED"
  \/ contract[c].st = "ENDED" /\ "SIGNED" \in history[c].seen
HasSigned(s) == \E c \in Contracts : contract[c].staff = s /\ SignedOnce(c)

\* decideInvitation: by whether an account with the number exists.
Judged(ph) == IF account[ph] THEN "AFFILIATION" ELSE "INVITE"
JudgedCandidate(ph) == IF account[ph] THEN ph ELSE NoOne

Moved(h, to, send) ==
  [last |-> to, by |-> send, seen |-> h.seen \union ({to} \cap {"SIGNED", "REJECTED", "EXPIRED"})]

\* A staff row can be deleted only when no other row refers to it (RESTRICT).
Deletable(s) == ~staff[s].logged /\ \A n \in Stamps : inv[n].staff # s

-----------------------------------------------------------------------------
(* What the handlers write                                                 *)

Expire(S) ==
  [n \in Stamps |-> IF inv[n].st = "SENT" /\ inv[n].staff \in S
                    THEN [inv[n] EXCEPT !.st = "EXPIRED"] ELSE inv[n]]

\* Records other than "keep" that replacing the contracts R leaves without any.
Orphans(R, keep) ==
  {s \in StaffOf(R) \ {keep} :
     /\ ~Joined(s)
     /\ \A d \in Contracts : contract[d].staff = s => d \in R /\ contract[d].st = "DRAFT"}

\* replaceContracts and dropOrphanRecords, with what the request itself writes:
\* contract c becomes "row", its history "log" and its record s "rec".
Replace(R, c, row, log, s, rec) ==
  /\ \A t \in Orphans(R, s) : Deletable(t)
  /\ contract' = [d \in Contracts |->
       IF d = c THEN row
       ELSE IF d \notin R THEN contract[d]
       ELSE IF contract[d].st = "DRAFT" THEN DeletedContract
       ELSE [contract[d] EXCEPT !.st = "ENDED"]]
  /\ history' = [d \in Contracts |->
       IF d = c THEN log
       ELSE IF d \notin R THEN history[d]
       ELSE IF contract[d].st = "DRAFT" THEN NoHistory
       ELSE Moved(history[d], "ENDED", Never)]
  /\ staff' = [t \in Staff |->
       IF t = s THEN rec ELSE IF t \in Orphans(R, s) THEN DeletedRecord ELSE staff[t]]

\* The contract's own columns after prepare: this send's stamp is its sentAt.
Sent(row, status, act, channel) ==
  [row EXCEPT !.st = status, !.act = act, !.sent = stamps + 1,
              !.due = IF channel = "AFFILIATION" THEN Never ELSE stamps + 1]

\* The record after prepare: an offer makes it INVITED.
Offered(rec, channel, join) ==
  IF channel = "INVITE" /\ join = "DRAFT" THEN [rec EXCEPT !.join = "INVITED", !.cand = NoOne]
  ELSE IF channel = "AFFILIATION" THEN [rec EXCEPT !.join = "INVITED"]
  ELSE rec

BeforeOf(c, s) ==
  [st |-> contract[c].st, sent |-> contract[c].sent, due |-> contract[c].due,
   act |-> contract[c].act, join |-> staff[s].join, cand |-> staff[s].cand]

\* prepare: close every usable invitation of the record, and unless the worker
\* is told in the app write the new one and leave its dispatch to do.
Prepare(c, s, R, channel, before, moved, phoneChanged) ==
  LET n == stamps + 1
  IN  /\ stamps < MaxStamps
      /\ stamps' = n
      /\ IF channel = "APP"
         THEN /\ inv' = Expire(StaffOf(R) \union {s})
              /\ pending' = pending
         ELSE /\ inv' = [Expire(StaffOf(R) \union {s}) EXCEPT
                           ![n] = [st |-> "SENT", staff |-> s, kind |-> channel]]
              /\ pending' = pending \union
                   {[send |-> n, stage |-> "committed", contract |-> c, staff |-> s,
                     kind |-> channel, before |-> before, moved |-> moved,
                     phoneChanged |-> phoneChanged, replaced |-> R # {},
                     expired |-> IF s \in StaffOf(R) THEN {} ELSE Live(s)]}

\* A save that sends nothing still closes what it replaced.
NoSend(R) ==
  /\ inv' = Expire(StaffOf(R))
  /\ UNCHANGED <<pending, stamps>>

-----------------------------------------------------------------------------
(* ContractsService.create                                                 *)

\* Which record a new contract goes to: a fresh one, a pre-join record of the
\* same number used again, or the record of the employee it renews.
FreshRecord(s) == staff[s].join = "NONE"
ReusedRecord(s, ph) ==
  staff[s].join \in {"DRAFT", "INVITED"} /\ staff[s].phone = ph /\ staff[s].leave = "STAYS"
RenewedRecord(s, ph) ==
  Joined(s) /\ staff[s].phone = ph /\ staff[s].leave = "STAYS" /\ HasSigned(s)

\* previousContractId: an employee's new contract renews the last signed one; a
\* leaver's may be chosen for a rehire; a paper contract may be an older upload.
RenewsOn(s, ph, target) ==
  IF FreshRecord(s)
  THEN {FALSE} \union {\E t \in Staff : staff[t].phone = ph /\ staff[t].leave # "STAYS" /\ HasSigned(t)}
  ELSE {HasSigned(s)} \union (IF Joined(s) \/ target # "SIGNED" THEN {} ELSE {FALSE})

Create(c, s, ph, target) ==
  LET joined == Joined(s)
      R == InProgressAt(ph, c)
      act == IF target = "DRAFT" \/ joined THEN "NONE" ELSE Judged(ph)
      cand == IF target = "DRAFT" THEN NoOne ELSE JudgedCandidate(ph)
      status == IF target = "PENDING_SEND" THEN DeliveredStatusOf(joined, act) ELSE target
      channel == ChannelOf(joined, act)
      rec == IF joined THEN staff[s]
             ELSE IF FreshRecord(s)
             THEN [NoRecord EXCEPT !.join = "DRAFT", !.phone = ph, !.cand = cand]
             ELSE [staff[s] EXCEPT !.cand = cand]
      before == [st |-> "NONE", sent |-> Never, due |-> Never, act |-> "NONE",
                 join |-> rec.join, cand |-> staff[s].cand]
  IN  /\ contract[c].st = "NONE"
      /\ FreshRecord(s) \/ ReusedRecord(s, ph) \/ RenewedRecord(s, ph)
      /\ EmployedAt(ph) \subseteq {s}
      /\ \E renews \in RenewsOn(s, ph, target) :
           LET row == [NoContract EXCEPT !.st = status, !.staff = s, !.act = act, !.renews = renews]
           IN  IF target = "PENDING_SEND"
               THEN /\ Replace(R, c, Sent(row, status, act, channel),
                               Moved(NoHistory, status, stamps + 1),
                               s, Offered(rec, channel, rec.join))
                    /\ Prepare(c, s, R, channel, before, TRUE, FALSE)
               ELSE /\ Replace(R, c, row, Moved(NoHistory, status, Never), s, rec)
                    /\ NoSend(R)
      /\ UNCHANGED <<account, out, lost, lapsed>>

-----------------------------------------------------------------------------
(* ContractsService.update: a draft saved again, or a requested correction *)

Save(c, ph, target) ==
  LET s == contract[c].staff
      joined == Joined(s)
      correction == contract[c].st = "CORRECTION_REQUESTED"
      R == InProgressAt(ph, c)
      keeps == target # "DRAFT" /\ (correction \/ (joined /\ contract[c].renews)) /\ ph = staff[s].phone
      act == IF target = "DRAFT" THEN "NONE" ELSE IF keeps THEN contract[c].act ELSE Judged(ph)
      cand == IF target = "DRAFT" THEN NoOne ELSE IF keeps THEN staff[s].cand ELSE JudgedCandidate(ph)
      status == IF target = "PENDING_SEND" THEN DeliveredStatusOf(joined, act) ELSE target
      channel == ChannelOf(joined, act)
      rec == IF joined THEN staff[s] ELSE [staff[s] EXCEPT !.phone = ph, !.cand = cand]
      row == [contract[c] EXCEPT !.st = status, !.act = act]
  IN  /\ \/ contract[c].st = "DRAFT"
         \/ correction /\ target = "PENDING_SEND"
      /\ joined \/ contract[c].renews => ph = staff[s].phone
      /\ contract[c].renews /\ target # "DRAFT" => staff[s].leave = "STAYS"
      /\ EmployedAt(ph) \subseteq {s}
      /\ target = "DRAFT" \/ keeps \/ EmployedAt(ph) = {}
      /\ IF target = "PENDING_SEND"
         THEN /\ Replace(R, c, Sent(row, status, act, channel),
                         Moved(history[c], status, stamps + 1),
                         s, Offered(rec, channel, staff[s].join))
              /\ Prepare(c, s, R, channel, BeforeOf(c, s), TRUE, ph # staff[s].phone)
         ELSE /\ Replace(R, c, row,
                         IF target = "DRAFT" THEN history[c] ELSE Moved(history[c], target, Never),
                         s, rec)
              /\ NoSend(R)
      /\ UNCHANGED <<account, out, lost, lapsed>>

(* ContractsService.updateWorker: the number or the party data is corrected *)
(* on a contract already sent, and it is sent again.                        *)
UpdateWorker(c, ph) ==
  LET s == contract[c].staff
      joined == Joined(s)
      phoneChanged == ph # staff[s].phone
      R == IF phoneChanged THEN InProgressAt(ph, c) ELSE {}
      act == IF joined THEN contract[c].act ELSE Judged(ph)
      status == DeliveredStatusOf(joined, act)
      channel == ChannelOf(joined, act)
      moved == status # contract[c].st
      rec == IF joined THEN staff[s]
             ELSE [staff[s] EXCEPT !.phone = ph, !.cand = JudgedCandidate(ph)]
  IN  /\ contract[c].st \in WorkerEditable
      /\ phoneChanged => ~joined /\ ~contract[c].renews
      /\ ~joined => EmployedAt(ph) = {}
      /\ moved => CanTransition(contract[c].st, status)
      /\ Replace(R, c, Sent(contract[c], status, act, channel),
                 IF moved THEN Moved(history[c], status, stamps + 1) ELSE history[c],
                 s, Offered(rec, channel, staff[s].join))
      /\ Prepare(c, s, R, channel, BeforeOf(c, s), moved, phoneChanged)
      /\ UNCHANGED <<account, out, lost, lapsed>>

(* ContractSendService.send                                                *)
Resend(c) ==
  LET s == contract[c].staff
      joined == Joined(s)
      ph == staff[s].phone
      reopened == contract[c].st \in ReopenedStatuses
      act == IF joined THEN contract[c].act ELSE Judged(ph)
      channel == ChannelOf(joined, act)
      status == IF joined \/ reopened \/ channel = "AFFILIATION"
                THEN DeliveredStatusOf(joined, act) ELSE contract[c].st
      moved == status # contract[c].st
      rec == IF joined THEN staff[s] ELSE [staff[s] EXCEPT !.cand = JudgedCandidate(ph)]
  IN  /\ contract[c].st \in ResendableStatuses
      /\ reopened => staff[s].leave = "STAYS" /\ InProgressAt(ph, c) = {}
      /\ ~joined => EmployedAt(ph) = {}
      /\ moved => CanTransition(contract[c].st, status)
      /\ Replace({}, c, Sent(contract[c], status, act, channel),
                 IF moved THEN Moved(history[c], status, stamps + 1) ELSE history[c],
                 s, Offered(rec, channel, staff[s].join))
      /\ Prepare(c, s, {}, channel, BeforeOf(c, s), moved, FALSE)
      /\ UNCHANGED <<account, out, lost, lapsed>>

\* Fault: the hiring is called off and the link stays usable.
EndLeavesLink(c) ==
  /\ contract[c].st = "PENDING_SEND"
  /\ contract' = [contract EXCEPT ![c].st = "ENDED"]
  /\ history' = [history EXCEPT ![c] = Moved(@, "ENDED", Never)]
  /\ UNCHANGED <<account, staff, inv, answerVars, stamps, lapsed>>

(* ContractSendService.end: the hiring is called off                       *)
End(c) ==
  /\ contract[c].st = "PENDING_SEND"
  /\ contract' = [contract EXCEPT ![c].st = "ENDED"]
  /\ history' = [history EXCEPT ![c] = Moved(@, "ENDED", Never)]
  /\ inv' = Expire({contract[c].staff})
  /\ UNCHANGED <<account, staff, answerVars, stamps, lapsed>>

\* Fault: the record goes with any of its drafts.
RemoveWithRecord(c) ==
  LET s == contract[c].staff
  IN  /\ contract[c].st = "DRAFT"
      /\ contract' = [contract EXCEPT ![c] = DeletedContract]
      /\ history' = [history EXCEPT ![c] = NoHistory]
      /\ IF staff[s].join = "DRAFT"
         THEN Deletable(s) /\ staff' = [staff EXCEPT ![s] = DeletedRecord]
         ELSE UNCHANGED staff
      /\ UNCHANGED <<account, inv, answerVars, stamps, lapsed>>

(* ContractsService.remove: a draft, and the record only it was using      *)
Remove(c) ==
  LET s == contract[c].staff
      only == \A d \in Contracts \ {c} : contract[d].staff # s
  IN  /\ contract[c].st = "DRAFT"
      /\ contract' = [contract EXCEPT ![c] = DeletedContract]
      /\ history' = [history EXCEPT ![c] = NoHistory]
      /\ IF only /\ staff[s].join = "DRAFT"
         THEN Deletable(s) /\ staff' = [staff EXCEPT ![s] = DeletedRecord]
         ELSE UNCHANGED staff
      /\ UNCHANGED <<account, inv, answerVars, stamps, lapsed>>

-----------------------------------------------------------------------------
(* The worker answers: StaffSignupService, AffiliationRequestsService       *)

\* Fault: the signing period of an accepted request is not set.
MoveWaitingUndated(s, to, due) ==
  LET waiting == {d \in Contracts : contract[d].staff = s /\ contract[d].st = "PENDING_SEND"}
  IN  /\ contract' = [d \in Contracts |->
            IF d \in waiting THEN [contract[d] EXCEPT !.st = to] ELSE contract[d]]
      /\ history' = [d \in Contracts |->
            IF d \in waiting THEN Moved(history[d], to, Never) ELSE history[d]]

\* transitionMany over the record's waiting contracts.
MoveWaiting(s, to, due) ==
  LET waiting == {d \in Contracts : contract[d].staff = s /\ contract[d].st = "PENDING_SEND"}
  IN  /\ contract' = [d \in Contracts |->
            IF d \in waiting
            THEN [contract[d] EXCEPT !.st = to, !.due = IF due = Never THEN @ ELSE due]
            ELSE contract[d]]
      /\ history' = [d \in Contracts |->
            IF d \in waiting THEN Moved(history[d], to, Never) ELSE history[d]]

Join(s) == staff' = [staff EXCEPT ![s].join = "JOINED", ![s].cand = NoOne]

Usable(n, kind) ==
  /\ inv[n].st = "SENT" /\ inv[n].kind = kind /\ ~Due(n)
  /\ ~Joined(inv[n].staff)

\* signup: needs the code or link, so the message must have got through.
Signup(n) ==
  LET s == inv[n].staff
  IN  /\ n \in out /\ Usable(n, "INVITE")
      /\ ~account[staff[s].phone]
      /\ inv' = [inv EXCEPT ![n].st = "ACCEPTED"]
      /\ account' = [account EXCEPT ![staff[s].phone] = TRUE]
      /\ Join(s)
      /\ MoveWaiting(s, "PENDING_SIGNATURE", Never)
      /\ UNCHANGED <<answerVars, stamps, lapsed>>

\* signup by someone under 19: the invitation is closed, nothing else changes.
SignupUnderAge(n) ==
  /\ n \in out /\ Usable(n, "INVITE")
  /\ ~account[staff[inv[n].staff].phone]
  /\ inv' = [inv EXCEPT ![n].st = "UNDER_AGE"]
  /\ UNCHANGED <<account, staff, contract, history, answerVars, stamps, lapsed>>

\* acceptForAccount: a logged-in worker takes up an invitation to the number of
\* the account.  It is listed in the app: no code, and no message, is needed.
AcceptForAccount(n) ==
  LET s == inv[n].staff
  IN  /\ Usable(n, "INVITE")
      /\ account[staff[s].phone]
      /\ inv' = [inv EXCEPT ![n].st = "ACCEPTED"]
      /\ Join(s)
      /\ MoveWaiting(s, "PENDING_SIGNATURE", Never)
      /\ UNCHANGED <<account, answerVars, stamps, lapsed>>

\* accept: the signing period starts now.  Listed in the app as well.
AcceptRequest(n) ==
  LET s == inv[n].staff
  IN  /\ Usable(n, "AFFILIATION")
      /\ staff[s].cand = staff[s].phone
      /\ EmployedAt(staff[s].phone) = {}
      /\ stamps < MaxStamps
      /\ stamps' = stamps + 1
      /\ inv' = [inv EXCEPT ![n].st = "ACCEPTED"]
      /\ Join(s)
      /\ MoveWaiting(s, "PENDING_SIGNATURE", stamps + 1)
      /\ UNCHANGED <<account, answerVars, lapsed>>

RejectRequest(n) ==
  LET s == inv[n].staff
  IN  /\ Usable(n, "AFFILIATION")
      /\ staff[s].cand = staff[s].phone
      /\ inv' = [inv EXCEPT ![n].st = "REJECTED"]
      /\ MoveWaiting(s, "REJECTED", Never)
      /\ UNCHANGED <<account, staff, answerVars, stamps, lapsed>>

(* MyContractsService: sign, reject, requestCorrection.  The worker's app  *)
(* serves contracts of a joined record only, in time and while employed.   *)
Decide(c, to) ==
  /\ contract[c].st = "PENDING_SIGNATURE"
  /\ Joined(contract[c].staff)
  /\ staff[contract[c].staff].leave # "LEFT"
  /\ ~Due(contract[c].due)
  /\ contract' = [contract EXCEPT ![c].st = to]
  /\ history' = [history EXCEPT ![c] = Moved(@, to, Never)]
  /\ UNCHANGED <<account, staff, inv, answerVars, stamps, lapsed>>

-----------------------------------------------------------------------------
(* Retirement (RetirementService) and the nightly batches                  *)

\* Fault: only contracts waiting for an answer of the leaver end.
FinalizedWaitingOnly(s) ==
  LET ended == {d \in Contracts : contract[d].staff = s /\
                                  contract[d].st \in {"PENDING_SEND", "PENDING_SIGNATURE"}}
  IN  /\ staff' = [staff EXCEPT ![s].leave = "LEFT", ![s].logged = TRUE]
      /\ inv' = Expire({s})
      /\ contract' = [d \in Contracts |->
            IF d \in ended THEN [contract[d] EXCEPT !.st = "ENDED"] ELSE contract[d]]
      /\ history' = [d \in Contracts |->
            IF d \in ended THEN Moved(history[d], "ENDED", Never) ELSE history[d]]
      /\ UNCHANGED <<account, answerVars, stamps, lapsed>>

Finalized(s) ==
  LET ended == {d \in Contracts : contract[d].staff = s /\ contract[d].st \in InProgress}
  IN  /\ staff' = [staff EXCEPT ![s].leave = "LEFT", ![s].logged = TRUE]
      /\ inv' = Expire({s})
      /\ contract' = [d \in Contracts |->
            IF d \in ended THEN [contract[d] EXCEPT !.st = "ENDED"] ELSE contract[d]]
      /\ history' = [d \in Contracts |->
            IF d \in ended THEN Moved(history[d], "ENDED", Never) ELSE history[d]]
      /\ UNCHANGED <<account, answerVars, stamps, lapsed>>

\* retire: a past date is final at once, another one waits for retireDue.
Retire(s, past) ==
  /\ Registered(s) /\ staff[s].leave = "STAYS"
  /\ \/ Joined(s)
     \/ \E d \in Contracts : contract[d].staff = s /\ contract[d].st # "DRAFT"
  /\ IF past THEN Finalized(s)
     ELSE /\ staff' = [staff EXCEPT ![s].leave = "LEAVING", ![s].logged = TRUE]
          /\ UNCHANGED <<account, contract, history, inv, answerVars, stamps, lapsed>>

CancelRetirement(s) ==
  /\ staff[s].leave = "LEAVING"
  /\ staff' = [staff EXCEPT ![s].leave = "STAYS"]
  /\ UNCHANGED <<account, contract, history, inv, answerVars, stamps, lapsed>>

RetireDue(s) == staff[s].leave = "LEAVING" /\ Finalized(s)

\* runDaily: contracts and invitations past their date; signed contracts whose
\* period is over (which ones is not modelled: any of them).
Overdue ==
  \/ \E c \in Contracts : contract[c].st = "PENDING_SIGNATURE" /\ Due(contract[c].due)
  \/ \E n \in Stamps : inv[n].st = "SENT" /\ Due(n)
\* Fault: the batch forgets the invitations.
RunDailyContractsOnly(over) ==
  /\ Overdue \/ over # {}
  /\ contract' = [c \in Contracts |->
       IF contract[c].st = "PENDING_SIGNATURE" /\ Due(contract[c].due)
       THEN [contract[c] EXCEPT !.st = "EXPIRED"]
       ELSE IF c \in over THEN [contract[c] EXCEPT !.st = "ENDED"] ELSE contract[c]]
  /\ UNCHANGED <<account, staff, history, inv, answerVars, stamps, lapsed>>

RunDaily(over) ==
  /\ Overdue \/ over # {}
  /\ contract' = [c \in Contracts |->
       IF contract[c].st = "PENDING_SIGNATURE" /\ Due(contract[c].due)
       THEN [contract[c] EXCEPT !.st = "EXPIRED"]
       ELSE IF c \in over THEN [contract[c] EXCEPT !.st = "ENDED"] ELSE contract[c]]
  /\ history' = [c \in Contracts |->
       IF contract[c].st = "PENDING_SIGNATURE" /\ Due(contract[c].due)
       THEN Moved(history[c], "EXPIRED", Never)
       ELSE IF c \in over THEN Moved(history[c], "ENDED", Never) ELSE history[c]]
  /\ inv' = [n \in Stamps |->
       IF inv[n].st = "SENT" /\ Due(n) THEN [inv[n] EXCEPT !.st = "EXPIRED"] ELSE inv[n]]
  /\ UNCHANGED <<account, staff, answerVars, stamps, lapsed>>
SignedContracts == {c \in Contracts : contract[c].st = "SIGNED"}

-----------------------------------------------------------------------------
(* ContractDeliveryService.dispatch, after the commit                      *)

InFlight == {p.send : p \in pending}
\* Fault: a refusal does not count as an answer.
AcceptedOnly(n) == inv[n].st = "ACCEPTED"
Answered(n) == inv[n].st \in {"ACCEPTED", "REJECTED"}
Step(p, stage) == pending' = (pending \ {p}) \union {[p EXCEPT !.stage = stage]}
Done(p) == pending' = pending \ {p}
rows == <<account, staff, contract, history, inv, stamps, lapsed>>

\* Fault: a send found closed is dropped, its invitation left where it is.
DispatchDropsClosed(p) ==
  /\ p.stage = "committed"
  /\ IF inv[p.send].st = "SENT" THEN Step(p, "sending") ELSE Done(p)
  /\ UNCHANGED <<rows, out, lost>>

\* The re-read before sending: answered already, closed by somebody else
\* meanwhile (to be undone unsent), or still to be sent.
DispatchReread(p) ==
  /\ p.stage = "committed"
  /\ IF Answered(p.send) THEN Done(p)
     ELSE Step(p, IF inv[p.send].st = "SENT" THEN "sending" ELSE "undoing")
  /\ UNCHANGED <<rows, out, lost>>

AlimtalkAccepted(p) ==
  /\ p.stage = "sending"
  /\ Done(p)
  /\ out' = out \union {p.send}
  /\ UNCHANGED <<rows, lost>>

\* NOT_SENT, REJECTED: certainly nothing went out.
AlimtalkFailed(p) ==
  /\ p.stage = "sending"
  /\ Step(p, "undoing")
  /\ UNCHANGED <<rows, out, lost>>

\* UNCONFIRMED: no undo; the message may or may not have gone out.
AlimtalkUnconfirmed(p) ==
  /\ p.stage = "sending"
  /\ Done(p)
  /\ \/ out' = out \union {p.send} /\ UNCHANGED lost
     \/ lost' = lost \union {p.send} /\ UNCHANGED out
  /\ UNCHANGED rows

\* The process dies before it settled the send, or the undo transaction failed.
Abandoned(p) ==
  /\ Done(p)
  /\ lost' = lost \union {p.send}
  /\ UNCHANGED <<rows, out>>
UndoError(p) == p.stage = "undoing" /\ Abandoned(p)

-----------------------------------------------------------------------------
(* ContractDeliveryService.undo: nothing went out, so turn the send back   *)

\* Fault: only another number counts as judged anew, not another outcome.
RejudgedByNumber(p) == p.phoneChanged

RejudgedOf(p) ==
  p.phoneChanged \/ (p.before.st \notin {"NONE", "DRAFT"} /\ p.kind # p.before.act)

RestoredStatusOf(p, live) ==
  IF p.before.st \in {"NONE", "DRAFT"} THEN "DRAFT"
  ELSE IF p.before.st \in {"CORRECTION_REQUESTED", "REJECTED", "EXPIRED"} THEN p.before.st
  ELSE IF ~RejudgedOf(p) /\
          (live \/ (p.before.st = "PENDING_SIGNATURE" /\ ChannelOf(FALSE, p.before.act) # "INVITE"))
  THEN p.before.st ELSE "DRAFT"

\* Faults: undo trusts what it remembers; undo looks at the contract's stamp and
\* not at the invitation.
OvertakenNever(p) == FALSE
OvertakenBySend(p) == contract[p.contract].sent # p.send

\* Another request has sent again or closed the invitation: its word stands.
Overtaken(p) == inv[p.send].st # "SENT" \/ contract[p.contract].sent # p.send

Revived(p) ==
  IF RejudgedOf(p) \/ p.replaced THEN {} ELSE {n \in p.expired : inv[n].st = "EXPIRED"}

\* The history row of the send goes; a new contract's first row becomes DRAFT.
\* A return to another status than before is a row of its own.
TurnedBack(h, p, restored) ==
  LET undone == IF ~p.moved \/ h.by # p.send THEN h
                ELSE [h EXCEPT !.last = IF p.before.st = "NONE" THEN "DRAFT" ELSE p.before.st,
                               !.by = Never]
  IN  IF p.before.st # "NONE" /\ restored # p.before.st
      THEN Moved(undone, restored, Never) ELSE undone

TurnBack(p) ==
  LET s == p.staff
      c == p.contract
      live == Revived(p) # {} \/ Live(s) \ {p.send} # {}
      restored == RestoredStatusOf(p, live)
  IN  /\ inv' = [n \in Stamps |->
            IF n = p.send THEN NoInvitation
            ELSE IF n \in Revived(p) THEN [inv[n] EXCEPT !.st = "SENT"] ELSE inv[n]]
      /\ contract' = [contract EXCEPT ![c] =
            [@ EXCEPT !.st = restored,
                      !.sent = IF restored = "DRAFT" THEN Never ELSE p.before.sent,
                      !.due = IF restored = "DRAFT" THEN Never ELSE p.before.due,
                      !.act = IF RejudgedOf(p) THEN p.kind ELSE p.before.act]]
      /\ history' = [history EXCEPT ![c] = TurnedBack(@, p, restored)]
      /\ staff' =
            IF (p.before.join = "DRAFT" \/ ~live) /\ staff[s].join = "INVITED"
            THEN [staff EXCEPT ![s].join = "DRAFT",
                               ![s].cand = IF p.kind = "AFFILIATION" THEN @
                                           ELSE IF RejudgedOf(p) THEN NoOne ELSE p.before.cand]
            ELSE staff

Undo(p) ==
  /\ p.stage = "undoing"
  /\ Done(p)
  /\ IF Answered(p.send) THEN UNCHANGED <<staff, contract, history, inv>>
     ELSE IF Overtaken(p)
     THEN /\ inv' = [inv EXCEPT ![p.send] = NoInvitation]
          /\ UNCHANGED <<staff, contract, history>>
     ELSE TurnBack(p)
  /\ UNCHANGED <<account, stamps, lapsed, out, lost>>

-----------------------------------------------------------------------------
(* The environment                                                         *)

\* A person opens an account at another store, with the same number.
AccountElsewhere(ph) ==
  /\ ~account[ph]
  /\ account' = [account EXCEPT ![ph] = TRUE]
  /\ UNCHANGED <<staff, contract, history, inv, answerVars, stamps, lapsed>>

\* Time passes: the oldest stamp not yet past 30 days becomes so.  No request
\* is still between its commit and its answer by then (the calls time out).
Lapse ==
  /\ lapsed < stamps
  /\ lapsed + 1 \notin InFlight
  /\ lapsed' = lapsed + 1
  /\ UNCHANGED <<account, staff, contract, history, inv, answerVars, stamps>>

Admin ==
  \/ \E c \in Contracts, s \in Staff, ph \in Phones :
       \E target \in {"DRAFT", "PENDING_SEND", "SIGNED"} : Create(c, s, ph, target)
  \/ \E c \in Contracts, ph \in Phones :
       \E target \in {"DRAFT", "PENDING_SEND", "SIGNED"} : Save(c, ph, target)
  \/ \E c \in Contracts, ph \in Phones : UpdateWorker(c, ph)
  \/ \E c \in Contracts : Resend(c)
  \/ \E c \in Contracts : End(c)
  \/ \E c \in Contracts : Remove(c)
  \/ \E s \in Leavers, past \in BOOLEAN : Retire(s, past)
  \/ \E s \in Staff : CancelRetirement(s)

Worker ==
  \/ \E n \in Stamps : Signup(n)
  \/ \E n \in Stamps : SignupUnderAge(n)
  \/ \E n \in Stamps : AcceptForAccount(n)
  \/ \E n \in Stamps : AcceptRequest(n)
  \/ \E n \in Stamps : RejectRequest(n)
  \/ \E c \in Contracts, to \in {"SIGNED", "REJECTED", "CORRECTION_REQUESTED"} : Decide(c, to)

Nightly ==
  \/ \E over \in SUBSET SignedContracts : RunDaily(over)
  \/ \E s \in Staff : RetireDue(s)

Delivery ==
  \/ \E p \in pending : DispatchReread(p)
  \/ \E p \in pending : AlimtalkAccepted(p)
  \/ \E p \in pending : AlimtalkFailed(p)
  \/ \E p \in pending : AlimtalkUnconfirmed(p)
  \/ \E p \in pending : Undo(p)
  \/ \E p \in pending : UndoError(p)
  \/ \E p \in pending : Abandoned(p)

Environment ==
  \/ \E ph \in Phones : AccountElsewhere(ph)
  \/ Lapse

Next == Admin \/ Worker \/ Nightly \/ Delivery \/ Environment

Spec == Init /\ [][Next]_vars

-----------------------------------------------------------------------------
(* Safety                                                                  *)

\* Of the invitations of a record at most one can be used, whichever sends,
\* undos and answers overlapped ("only the last link works", prepare).
OneLiveInvitation ==
  \A m, n \in Stamps :
    inv[m].st = "SENT" /\ inv[n].st = "SENT" /\ inv[m].staff = inv[n].staff => m = n

\* A usable invitation stands for one waiting contract, and invitation type,
\* contract draftAction and candidate account agree on one judgement of the
\* number (the comment on undo's candidateAccountId).
LiveLinkMatchesContract ==
  \A n \in Stamps : inv[n].st = "SENT" =>
    LET s == inv[n].staff
    IN  /\ staff[s].join = "INVITED"
        /\ \E c \in Contracts : /\ contract[c].staff = s
                                /\ contract[c].st = "PENDING_SEND"
                                /\ contract[c].act = inv[n].kind
        /\ staff[s].cand = IF inv[n].kind = "INVITE" THEN NoOne ELSE staff[s].phone

\* PENDING_SEND means an invitation went out: its last send reached the
\* provider, is still to be settled, or was left unsettled by a failure.
WaitingWasOffered ==
  \A c \in Contracts : contract[c].st = "PENDING_SEND" =>
    contract[c].sent \in out \union lost \union InFlight

\* A code that never went out is not left usable by overlapping undos.
UnsentLinkIsNotLive ==
  \A n \in Stamps : inv[n].st = "SENT" => n \in out \union lost \union InFlight

\* What is on offer went out or is on its way: the waiting contract and the
\* usable code, whichever sends overlapped and in whatever order they failed.
OfferedWasSent == WaitingWasOffered /\ UnsentLinkIsNotLive

\* A contract waits for a signature only of someone who can sign it in the app,
\* and always with a deadline: nothing can be waiting for ever.
SigningIsPossible ==
  \A c \in Contracts :
    /\ contract[c].st \in {"PENDING_SIGNATURE", "CORRECTION_REQUESTED"} => Joined(contract[c].staff)
    /\ contract[c].st = "PENDING_SIGNATURE" => contract[c].due # Never

\* At most one contract in progress per phone number, whichever record holds it.
OneInProgressPerPhone ==
  \A c, d \in Contracts :
    contract[c].st \in InProgress /\ contract[d].st \in InProgress
      /\ staff[contract[c].staff].phone = staff[contract[d].staff].phone => c = d

\* A person is employed at a store under one joined record.
OneEmployedRecord ==
  \A s, t \in Staff :
    Joined(s) /\ Joined(t) /\ staff[s].leave # "LEFT" /\ staff[t].leave # "LEFT"
      /\ staff[s].phone = staff[t].phone => s = t

\* Once retirement is final no late answer, undo or save leaves the record with
\* a contract in progress or a usable invitation.
LeaverHoldsNothing ==
  \A s \in Staff : staff[s].leave = "LEFT" =>
    /\ \A c \in Contracts : contract[c].staff = s => contract[c].st \notin InProgress
    /\ Live(s) = {}

\* The newest history row names the contract's status, also after an undo has
\* taken rows away.
HistoryTellsStatus ==
  \A c \in Contracts : Exists(c) => history[c].last = contract[c].st

\* As long as undo would turn a contract back, the contract is as this send
\* left it: undo never overwrites what another request or an answer decided.
UndoFindsItsOwnWork ==
  \A p \in pending :
    ~Answered(p.send) /\ ~Overtaken(p) =>
      LET c == contract[p.contract]
      IN  /\ c.st = "PENDING_SEND" /\ c.act = p.kind /\ c.staff = p.staff
          /\ p.moved => history[p.contract].by = p.send

\* Undo takes back this send's work and nothing else, and the history that is
\* left still ends in the contract's status.
UndoneConsistently == HistoryTellsStatus /\ UndoFindsItsOwnWork

\* A status changes only along TRANSITIONS, or back by the undo of a send.
StatusFollowsTable ==
  [][\A c \in Contracts : Exists(c) /\ contract'[c].st \notin {"GONE", contract[c].st} =>
       \/ CanTransition(contract[c].st, contract'[c].st)
       \/ \E p \in pending \ pending' :
            /\ p.contract = c /\ p.stage = "undoing"
            /\ contract[c].st = "PENDING_SEND"
            /\ contract'[c].st \in {"DRAFT", p.before.st}]_vars

\* Deleting a draft deletes the record only it was using (the comments on
\* remove, contracts.service.ts and contracts.controller.ts: "never sent, so
\* nothing is left to keep").  In the code an invitation of an earlier send may
\* still refer to the record, and the deletion fails on the foreign key.
DraftCanBeRemoved ==
  \A c \in Contracts :
    LET s == contract[c].staff
    IN  /\ pending = {}
        /\ contract[c].st = "DRAFT"
        /\ staff[s].join = "DRAFT"
        /\ \A d \in Contracts \ {c} : contract[d].staff # s
        => Deletable(s)

\* An ended contract is not turned back into a usable draft (the comment on
\* restoredStatusOf): a contract refused by the worker is a draft again only if
\* the record got an invitation after the refusal.
RefusedContractStaysRefused ==
  \A c \in Contracts, n \in Stamps :
    /\ pending = {}
    /\ contract[c].st = "DRAFT" /\ "REJECTED" \in history[c].seen
    /\ inv[n].st = "REJECTED" /\ inv[n].staff = contract[c].staff
    => \E m \in Stamps : m > n /\ inv[m].staff = contract[c].staff

-----------------------------------------------------------------------------
(* The inductive invariant behind TypeOK and OneLiveInvitation              *)

\* A contract's record has not been deleted under it, and what is not a contract
\* any more carries no send.
RecordsExist ==
  \A c \in Contracts :
    IF Exists(c) THEN contract[c].staff \in Staff /\ Registered(contract[c].staff)
    ELSE contract[c].sent = Never

\* Invitations are numbered by the stamps taken so far, and each is of a record.
LinksAreStamped ==
  \A n \in Stamps :
    IF inv[n].st = "NONE" THEN inv[n].staff = NoOne ELSE inv[n].staff \in Staff /\ n <= stamps

\* What a request remembers of its send is still so when it comes to undo it:
\* the invitation is of its record, and so is the one it closed, if any.
SendsKnowTheirLinks ==
  \A p \in pending :
    /\ p.send <= stamps
    /\ inv[p.send].st # "NONE" => inv[p.send].staff = p.staff
    /\ \A m \in p.expired : m < p.send /\ (inv[m].st # "NONE" => inv[m].staff = p.staff)
    /\ \A m, n \in p.expired : m = n

LinksInOrder == LinksAreStamped /\ SendsKnowTheirLinks /\ OneLiveInvitation

IInv == TypeOK /\ RecordsExist /\ LinksInOrder

\* Each send is settled by one request, once: nothing still to be settled has
\* gone out.  Hence a worker who was refused under age (who needed the code) did
\* not answer a send that may still be undone.
SentOnce ==
  /\ \A n \in out : n <= stamps
  /\ \A p \in pending : p.send \notin out
  /\ \A p, q \in pending : p.send = q.send => p = q
  /\ \A n \in Stamps : inv[n].st = "UNDER_AGE" => n \in out

-----------------------------------------------------------------------------
(* The abstract specification this one implements                          *)

Promise == INSTANCE InvitationLink WITH
  link <- [s \in Staff |-> Live(s)],
  holder <- [n \in Stamps |-> inv[n].staff],
  answered <- {n \in Stamps : inv[n].st \in {"ACCEPTED", "REJECTED", "UNDER_AGE"}},
  last <- stamps

\* Every request, answer, undo and batch is a step of InvitationLink: at most
\* one usable link per record, and only unanswered ones of its own come back.
ImplementsInvitationLink == Promise!LinkSpec

-----------------------------------------------------------------------------
(* Liveness                                                                *)

\* The clock goes on; the batch runs every day; a request that has committed
\* its sends goes on to settle each of them, or its process dies.  Nobody is
\* assumed to send, to answer or to cancel anything.
Settle(p) ==
  \/ DispatchReread(p) \/ AlimtalkAccepted(p) \/ AlimtalkFailed(p)
  \/ AlimtalkUnconfirmed(p) \/ Undo(p) \/ UndoError(p) \/ Abandoned(p)

Fairness ==
  /\ WF_vars(Lapse)
  /\ WF_vars(\E over \in SUBSET SignedContracts : RunDaily(over))
  /\ \A n \in Stamps : WF_vars(\E p \in pending : p.send = n /\ Settle(p))

FairSpec == Spec /\ Fairness

\* No link stays usable for ever, however sends, crashes and undos that put an
\* older link back follow each other.
LinksClose == \A n \in Stamps : []<>(inv[n].st # "SENT")

\* A contract waiting for a signature is eventually signed, answered or expired:
\* it has a deadline on every way into that status, undo included.
SigningCloses == \A c \in Contracts : []<>(contract[c].st # "PENDING_SIGNATURE")

\* What is offered comes to an end: links by their date, contracts by their deadline.
OffersEnd == LinksClose /\ SigningCloses
=============================================================================
