--------------------------- MODULE InvitationLink ---------------------------
(***************************************************************************)
(* What sending contracts promises about the links workers hold, with no   *)
(* contract, status or provider in sight ("only the last link works",      *)
(* prepare in contract-delivery.service.ts).                               *)
(*                                                                         *)
(* A record has at most one usable link.  A newer link closes the one      *)
(* before; withdrawing a link that never went out may open the one it had  *)
(* closed again, but only an older one, of the same record, that nobody    *)
(* has answered.  An answer is for ever.                                   *)
(***************************************************************************)
EXTENDS Integers

CONSTANTS
  Staff,     \* records that links are issued to
  NoOne,     \* no record
  MaxStamps  \* bound: links are numbered 1..MaxStamps in the order of issue

VARIABLES
  link,      \* record -> the set of its usable links, empty or one
  holder,    \* link -> the record it was issued to, unless withdrawn unsent
  answered,  \* links a worker has answered
  last       \* the newest number taken

linkVars == <<link, holder, answered, last>>

Links == 1..MaxStamps

LinkInit ==
  /\ link = [s \in Staff |-> {}]
  /\ holder = [n \in Links |-> NoOne]
  /\ answered = {}
  /\ last = 0

\* A new link for s; it closes the link s had, and those of the records in S.
Issue(s, S) ==
  /\ last < MaxStamps
  /\ last' = last + 1
  /\ link' = [t \in Staff |-> IF t = s THEN {last'} ELSE IF t \in S THEN {} ELSE link[t]]
  /\ holder' = [holder EXCEPT ![last'] = s]
  /\ UNCHANGED answered

\* The links of S close: replaced, ended, retired or past their date.
Close(S) ==
  /\ link' = [t \in Staff |-> IF t \in S THEN {} ELSE link[t]]
  /\ last' \in {last, last + 1}
  /\ UNCHANGED <<holder, answered>>

\* A link that never went out is withdrawn; the one it had closed may reopen.
Withdraw(n) ==
  /\ holder[n] \in Staff /\ n \notin answered
  /\ holder' = [holder EXCEPT ![n] = NoOne]
  /\ LET s == holder[n]
     IN  \/ link' = [link EXCEPT ![s] = @ \ {n}]
         \/ \E m \in Links \ answered :
              /\ link[s] = {n} /\ m < n /\ holder[m] = s
              /\ link' = [link EXCEPT ![s] = {m}]
  /\ UNCHANGED <<answered, last>>

Answer(n) ==
  /\ holder[n] \in Staff /\ n \in link[holder[n]]
  /\ link' = [link EXCEPT ![holder[n]] = {}]
  /\ answered' = answered \union {n}
  /\ last' \in {last, last + 1}
  /\ UNCHANGED holder

LinkNext ==
  \/ \E s \in Staff, S \in SUBSET Staff : Issue(s, S)
  \/ \E S \in SUBSET Staff : Close(S)
  \/ \E n \in Links : Withdraw(n)
  \/ \E n \in Links : Answer(n)

LinkSpec == LinkInit /\ [][LinkNext]_linkVars
=============================================================================
