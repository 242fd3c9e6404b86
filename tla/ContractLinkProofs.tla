------------------------- MODULE ContractLinkProofs -------------------------
(***************************************************************************)
(* ContractDelivery implements InvitationLink, for any number of records,  *)
(* contracts and sends: every step of a request, an answer, a batch or an  *)
(* undo is a step of InvitationLink on the links, or leaves them alone.    *)
(* And InvitationCode implements CodeThrottle, for any number of rows,     *)
(* sends and staff records with one phone number.  And the files of one    *)
(* contract are where its rows say, and say what was agreed.               *)
(***************************************************************************)
EXTENDS ContractDeliveryProofs, MCSendsAndCodes, NaturalsInduction, WellFoundedInduction

\* What the mapping shows of a record: at most one usable link.
LEMMA LiveLinks ==
  ASSUME IInv, NEW s \in Staff
  PROVE  /\ Live(s) \subseteq Stamps
         /\ \A n \in Stamps : n \in Live(s) <=> inv[n].st = "SENT" /\ inv[n].staff = s
         /\ \A m, n \in Live(s) : m = n
BY DEF Live, IInv, LinksInOrder, OneLiveInvitation

\* A step that only closes usable invitations closes the links of some records.
LEMMA ClosingIsClose ==
  ASSUME IInv, stamps' \in {stamps, stamps + 1},
         \A n \in Stamps :
           /\ inv'[n].staff = inv[n].staff
           /\ inv'[n].st = inv[n].st \/ (inv[n].st = "SENT" /\ inv'[n].st = "EXPIRED")
  PROVE  \E S \in SUBSET Staff : Promise!Close(S)
<1> DEFINE S == {s \in Staff : \E n \in Stamps : inv[n].staff = s /\ inv'[n].st # inv[n].st}
<1>1. ASSUME NEW t \in Staff
      PROVE  Live(t)' = IF t \in S THEN {} ELSE Live(t)
  <2>1. Live(t)' = {n \in Stamps : inv'[n].st = "SENT" /\ inv[n].staff = t}
    BY DEF Live
  <2>2. CASE t \in S
    <3>1. PICK n \in Stamps : inv[n].staff = t /\ inv[n].st = "SENT" /\ inv'[n].st = "EXPIRED"
      BY <2>2
    <3>2. \A m \in Stamps : inv'[m].st = "SENT" /\ inv[m].staff = t => m = n
      BY <3>1 DEF IInv, LinksInOrder, OneLiveInvitation
    <3> QED
      BY <2>1, <2>2, <3>1, <3>2
  <2>3. CASE t \notin S
    BY <2>1, <2>3 DEF Live
  <2> QED
    BY <2>2, <2>3
<1> HIDE DEF S
<1>2. [t \in Staff |-> Live(t)]' = [t \in Staff |-> IF t \in S THEN {} ELSE [u \in Staff |-> Live(u)][t]]
  BY <1>1
<1>3. [n \in Stamps |-> inv[n].staff]' = [n \in Stamps |-> inv[n].staff]
  OBVIOUS
<1>4. {n \in Stamps : inv[n].st \in {"ACCEPTED", "REJECTED", "UNDER_AGE"}}' =
      {n \in Stamps : inv[n].st \in {"ACCEPTED", "REJECTED", "UNDER_AGE"}}
  OBVIOUS
<1>5. Promise!Close(S)
  BY <1>2, <1>3, <1>4 DEF Promise!Close
<1> QED
  BY <1>5 DEF S

\* An answer answers the link and leaves its record with none.
LEMMA AnswerIsAnswer ==
  ASSUME IInv, NEW n \in Stamps, inv[n].st = "SENT",
         NEW answer \in {"ACCEPTED", "REJECTED", "UNDER_AGE"},
         inv' = [inv EXCEPT ![n].st = answer], stamps' \in {stamps, stamps + 1}
  PROVE  Promise!Answer(n)
<1> DEFINE s == inv[n].staff
           Answers == {"ACCEPTED", "REJECTED", "UNDER_AGE"}
           linked == [t \in Staff |-> Live(t)]
           holder == [m \in Stamps |-> inv[m].staff]
           answered == {m \in Stamps : inv[m].st \in Answers}
<1>1. inv \in [Stamps -> InvitationRow] /\ s \in Staff
  BY DEF IInv, TypeOK, LinksInOrder, LinksAreStamped
<1>2. /\ inv'[n].st = answer /\ inv'[n].staff = s
      /\ \A m \in Stamps \ {n} : inv'[m] = inv[m]
  BY <1>1 DEF InvitationRow
<1>3. n \in Live(s)
  BY DEF Live
<1>4. \A t \in Staff : Live(t)' = IF t = s THEN {} ELSE Live(t)
  <2> SUFFICES ASSUME NEW t \in Staff PROVE Live(t)' = IF t = s THEN {} ELSE Live(t)
    OBVIOUS
  <2>1. Live(t)' = {m \in Stamps : inv'[m].st = "SENT" /\ inv'[m].staff = t}
    BY DEF Live
  <2>2. CASE t = s
    <3>1. \A m \in Stamps : inv[m].st = "SENT" /\ inv[m].staff = s => m = n
      BY DEF IInv, LinksInOrder, OneLiveInvitation
    <3> QED
      BY <1>2, <2>1, <2>2, <3>1
  <2>3. CASE t # s
    <3>1. \A m \in Stamps : inv'[m].st = "SENT" /\ inv'[m].staff = t <=>
                            inv[m].st = "SENT" /\ inv[m].staff = t
      BY <1>2, <2>3
    <3> QED
      BY <2>1, <2>3, <3>1 DEF Live
  <2> QED
    BY <2>2, <2>3
<1>5. linked' = [linked EXCEPT ![s] = {}]
  BY <1>1, <1>4
<1>6. holder' = holder
  BY <1>2
<1>7. answered' = answered \union {n}
  BY <1>2
<1>8. holder[n] = s /\ linked[s] = Live(s)
  BY <1>1
<1> QED
  BY <1>1, <1>3, <1>5, <1>6, <1>7, <1>8 DEF Promise!Answer

\* A send that writes an invitation issues a link, any other closes some.
LEMMA PrepareIsIssue ==
  ASSUME IInv, NEW c, NEW s \in Staff, NEW R, NEW channel, NEW earlier, NEW moved, NEW phoneChanged,
         Prepare(c, s, R, channel, earlier, moved, phoneChanged)
  PROVE  Promise!LinkNext
<1> DEFINE n == stamps + 1
           C == StaffOf(R) \union {s}
           closed == Expire(C)
           S == StaffOf(R) \intersect Staff
           Answers == {"ACCEPTED", "REJECTED", "UNDER_AGE"}
           linked == [t \in Staff |-> Live(t)]
           holder == [m \in Stamps |-> inv[m].staff]
           answered == {m \in Stamps : inv[m].st \in Answers}
<1>1. stamps < MaxStamps /\ stamps' = n /\ stamps \in Int /\ n \in Stamps
  BY MaxStampsAssumption DEF Prepare, IInv, TypeOK, Stamps, StampsOrNever
<1>2. /\ closed = [m \in Stamps |-> closed[m]]
      /\ \A m \in Stamps : closed[m] = IF inv[m].st = "SENT" /\ inv[m].staff \in C
                                       THEN [inv[m] EXCEPT !.st = "EXPIRED"] ELSE inv[m]
  BY DEF Expire
<1>3. \A m \in Stamps :
        /\ closed[m].staff = inv[m].staff
        /\ closed[m].st = IF inv[m].st = "SENT" /\ inv[m].staff \in C THEN "EXPIRED" ELSE inv[m].st
  <2>1. \A m \in Stamps : inv[m] \in InvitationRow
    BY DEF IInv, TypeOK
  <2> HIDE DEF C, closed
  <2> QED
    BY <1>2, <2>1 DEF InvitationRow
<1> HIDE DEF closed
<1>4. CASE channel = "APP"
  <2>1. inv' = closed
    BY <1>4 DEF Prepare, closed
  <2>2. \E T \in SUBSET Staff : Promise!Close(T)
    BY <1>1, <1>3, <2>1, ClosingIsClose
  <2> QED
    BY <2>2 DEF Promise!LinkNext
<1>5. CASE channel # "APP"
  <2>1. inv' = [closed EXCEPT ![n] = [st |-> "SENT", staff |-> s, kind |-> channel]]
    BY <1>5 DEF Prepare, closed
  <2>2. /\ inv'[n].st = "SENT" /\ inv'[n].staff = s
        /\ \A m \in Stamps \ {n} : inv'[m] = closed[m]
    BY <1>1, <1>2, <2>1
  <2>3. inv[n].st = "NONE"
    BY <1>1 DEF IInv, LinksInOrder, LinksAreStamped
  <2> HIDE DEF n
  <2>4. \A t \in Staff : Live(t)' = IF t = s THEN {n} ELSE IF t \in S THEN {} ELSE Live(t)
    <3> SUFFICES ASSUME NEW t \in Staff
                 PROVE  Live(t)' = IF t = s THEN {n} ELSE IF t \in S THEN {} ELSE Live(t)
      OBVIOUS
    <3>1. Live(t)' = {m \in Stamps : inv'[m].st = "SENT" /\ inv'[m].staff = t}
      BY DEF Live
    <3>2. \A m \in Stamps \ {n} : inv'[m].st = "SENT" /\ inv'[m].staff = t <=>
                                  inv[m].st = "SENT" /\ inv[m].staff = t /\ t \notin C
      BY <1>3, <2>2
    <3> QED
      BY <1>1, <2>2, <2>3, <3>1, <3>2 DEF Live
  <2>5. linked' = [t \in Staff |-> IF t = s THEN {n} ELSE IF t \in S THEN {} ELSE linked[t]]
    BY <2>4
  <2>6. holder' = [holder EXCEPT ![n] = s]
    BY <1>1, <1>3, <2>2
  <2>7. answered' = answered
    <3>1. \A m \in Stamps : inv'[m].st \in Answers <=> inv[m].st \in Answers
      BY <1>3, <2>2, <2>3
    <3> QED
      BY <3>1
  <2>8. PICK T \in SUBSET Staff : T = S
    OBVIOUS
  <2>9. Promise!Issue(s, T)
    <3>1. stamps' = stamps + 1 /\ stamps < MaxStamps
      BY <1>1 DEF n
    <3>2. n = stamps'
      BY <1>1
    <3> HIDE DEF S, linked, holder, answered
    <3>3. /\ linked' = [t \in Staff |-> IF t = s THEN {stamps'} ELSE IF t \in T THEN {} ELSE linked[t]]
          /\ holder' = [holder EXCEPT ![stamps'] = s]
      BY <2>5, <2>6, <2>8, <3>2
    <3> QED
      BY <2>7, <3>1, <3>3 DEF Promise!Issue, linked, holder, answered
  <2> QED
    BY <2>9 DEF Promise!LinkNext
<1> QED
  BY <1>4, <1>5

\* A withdrawn send takes its link away; the one that comes back, if any, is an
\* older and unanswered one of the same record, and the send's own was open.
LEMMA UndoIsWithdraw ==
  ASSUME IInv, SentOnce, NEW p \in pending, Undo(p)
  PROVE  Promise!LinkNext \/ UNCHANGED Promise!linkVars
<1> DEFINE n == p.send
           s == p.staff
           Answers == {"ACCEPTED", "REJECTED", "UNDER_AGE"}
           linked == [t \in Staff |-> Live(t)]
           holder == [m \in Stamps |-> inv[m].staff]
           answered == {m \in Stamps : inv[m].st \in Answers}
<1>1. /\ p \in PendingInvite /\ n \in Stamps /\ s \in Staff /\ p.expired \subseteq Stamps
      /\ inv \in [Stamps -> InvitationRow] /\ stamps' = stamps
  BY DEF IInv, TypeOK, PendingInvite, Undo
<1>2. /\ inv[n].st # "NONE" => inv[n].staff = s
      /\ inv[n].st = "NONE" => inv[n].staff = NoOne
      /\ \A m \in p.expired : m < n /\ (inv[m].st # "NONE" => inv[m].staff = s)
      /\ \A k, m \in p.expired : k = m
  BY <1>1 DEF IInv, LinksInOrder, SendsKnowTheirLinks, LinksAreStamped
<1>3. \A m \in Stamps : inv[m].st = "SENT" /\ inv[m].staff = s /\ inv[n].st = "SENT" => m = n
  BY <1>1, <1>2 DEF IInv, LinksInOrder, OneLiveInvitation
<1>4. CASE inv' = inv
  <2>1. UNCHANGED Promise!linkVars
    BY <1>1, <1>4 DEF Promise!linkVars, Live
  <2> QED
    BY <2>1
<1>5. CASE inv' # inv /\ inv[n].st \notin Answers /\ Overtaken(p)
  <2>1. inv' = [inv EXCEPT ![n] = NoInvitation]
    BY <1>5 DEF Undo
  <2>2. /\ inv'[n].st = "NONE" /\ inv'[n].staff = NoOne
        /\ \A m \in Stamps \ {n} : inv'[m] = inv[m]
    BY <1>1, <2>1 DEF NoInvitation
  <2>3. CASE inv[n].st = "NONE"
    <3>1. \A m \in Stamps : inv'[m].st = inv[m].st /\ inv'[m].staff = inv[m].staff
      BY <1>2, <2>2, <2>3
    <3>2. \E S \in SUBSET Staff : Promise!Close(S)
      BY <1>1, <3>1, ClosingIsClose
    <3> QED
      BY <3>2 DEF Promise!LinkNext
  <2>4. CASE inv[n].st # "NONE"
    <3>1. linked' = [linked EXCEPT ![s] = @ \ {n}]
      <4> SUFFICES ASSUME NEW t \in Staff
                   PROVE  Live(t)' = IF t = s THEN Live(s) \ {n} ELSE Live(t)
        BY <1>1
      <4>1. Live(t)' = {m \in Stamps : inv'[m].st = "SENT" /\ inv'[m].staff = t}
        BY DEF Live
      <4> QED
        BY <1>2, <2>2, <2>4, <4>1 DEF Live
    <3>2. holder' = [holder EXCEPT ![n] = NoOne]
      BY <1>1, <2>2
    <3>3. answered' = answered /\ n \notin answered
      BY <1>5, <2>2
    <3>4. holder[n] = s
      BY <1>1, <1>2, <2>4
    <3>5. PICK k \in Stamps : k = n
      BY <1>1
    <3>6. Promise!Withdraw(k)
      BY <1>1, <3>1, <3>2, <3>3, <3>4, <3>5 DEF Promise!Withdraw
    <3> QED
      BY <3>6 DEF Promise!LinkNext, Promise!Links, Stamps
  <2> QED
    BY <2>3, <2>4
<1>6. CASE inv' # inv /\ inv[n].st = "SENT" /\ ~Overtaken(p)
  <2>1. TurnBack(p)
    BY <1>6 DEF Undo, Answered
  <2>2. inv' = [m \in Stamps |-> IF m = n THEN NoInvitation
                                ELSE IF m \in Revived(p) THEN [inv[m] EXCEPT !.st = "SENT"] ELSE inv[m]]
    BY <2>1 DEF TurnBack
  <2>3. /\ Revived(p) \subseteq p.expired /\ \A m \in Revived(p) : inv[m].st = "EXPIRED"
    BY DEF Revived
  <2>4. /\ inv'[n].st = "NONE" /\ inv'[n].staff = NoOne
        /\ \A m \in Stamps \ {n} : inv'[m].staff = inv[m].staff
        /\ \A m \in Stamps \ {n} : inv'[m].st = IF m \in Revived(p) THEN "SENT" ELSE inv[m].st
    <3>1. \A m \in Stamps : /\ [inv[m] EXCEPT !.st = "SENT"].staff = inv[m].staff
                            /\ [inv[m] EXCEPT !.st = "SENT"].st = "SENT"
      BY <1>1 DEF InvitationRow
    <3> QED
      BY <1>1, <2>2, <3>1 DEF NoInvitation
  <2>5. inv[n].staff = s /\ Live(s) = {n}
    BY <1>1, <1>2, <1>3, <1>6 DEF Live
  <2>6. ASSUME NEW t \in Staff
        PROVE  Live(t)' = IF t = s THEN Revived(p) ELSE Live(t)
    <3>1. Live(t)' = {m \in Stamps : inv'[m].st = "SENT" /\ inv'[m].staff = t}
      BY DEF Live
    <3>2. \A m \in Revived(p) : m \in Stamps /\ m # n /\ inv[m].staff = s
      BY <1>1, <1>2, <1>6, <2>3
    <3>3. \A m \in Stamps \ {n} : inv'[m].st = "SENT" /\ inv'[m].staff = t <=>
            (m \in Revived(p) /\ t = s) \/ (inv[m].st = "SENT" /\ inv[m].staff = t)
      BY <2>3, <2>4, <3>2
    <3>4. n \notin Live(t)' /\ (t # s => n \notin Live(t))
      BY <2>4, <2>5, <3>1 DEF Live
    <3>5. CASE t = s
      BY <1>3, <1>6, <2>4, <3>1, <3>2, <3>3, <3>5
    <3>6. CASE t # s
      BY <3>1, <3>3, <3>4, <3>6 DEF Live
    <3> QED
      BY <3>5, <3>6
  <2>7. linked' = [linked EXCEPT ![s] = Revived(p)] /\ linked[s] = {n}
    BY <1>1, <2>5, <2>6
  <2>8. holder' = [holder EXCEPT ![n] = NoOne] /\ holder[n] = s
    BY <1>1, <2>4, <2>5
  <2>9. answered' = answered /\ n \notin answered
    <3>1. \A m \in Stamps : inv'[m].st \in Answers <=> inv[m].st \in Answers
      BY <1>6, <2>3, <2>4
    <3> QED
      BY <1>6, <3>1
  <2>10. PICK k \in Stamps : k = n
    BY <1>1
  <2>11. Promise!Withdraw(k)
    <3>1. CASE Revived(p) = {}
      <4>1. linked' = [linked EXCEPT ![s] = @ \ {n}]
        BY <1>1, <2>7, <3>1
      <4> QED
        BY <1>1, <2>8, <2>9, <2>10, <4>1 DEF Promise!Withdraw
    <3>2. CASE Revived(p) # {}
      <4>1. PICK m \in Revived(p) : TRUE
        BY <3>2
      <4>2. Revived(p) = {m} /\ m \in Stamps /\ m < n /\ m # n
        BY <1>1, <1>2, <1>6, <2>3, <4>1
      <4>3. m \notin answered /\ holder[m] = s
        BY <1>2, <2>3, <4>1, <4>2
      <4>4. linked' = [linked EXCEPT ![s] = {m}]
        BY <2>7, <4>2
      <4>5. m \in Promise!Links
        BY <4>2 DEF Promise!Links, Stamps
      <4> QED
        BY <1>1, <2>7, <2>8, <2>9, <2>10, <4>2, <4>3, <4>4, <4>5 DEF Promise!Withdraw
    <3> QED
      BY <3>1, <3>2
  <2> QED
    BY <2>11 DEF Promise!LinkNext, Promise!Links, Stamps
<1>7. inv[n].st # "UNDER_AGE"
  BY <1>1 DEF SentOnce
<1>8. inv' # inv => inv[n].st \notin Answers /\ (~Overtaken(p) => inv[n].st = "SENT")
  BY <1>7 DEF Undo, Answered, Overtaken
<1> QED
  BY <1>4, <1>5, <1>6, <1>8

-----------------------------------------------------------------------------
(* SentOnce, kind of step by kind of step                                  *)

\* A step that leaves the sends in flight alone or drops some, and adds none to
\* those that went out.
LEMMA SettlingKeepsSentOnce ==
  ASSUME IInv, SentOnce, pending' \subseteq pending, out' = out, stamps' \in {stamps, stamps + 1},
         \A n \in Stamps : inv'[n].st = "UNDER_AGE" => inv[n].st = "UNDER_AGE" \/ n \in out
  PROVE  SentOnce'
<1>1. stamps \in Int /\ \A n \in out : n \in Int
  BY DEF IInv, TypeOK, Stamps, StampsOrNever
<1>2. \A n \in out : n <= stamps'
  BY <1>1 DEF SentOnce
<1> QED
  BY <1>2 DEF SentOnce

\* A new send takes a number that nothing has.
LEMMA PrepareKeepsSentOnce ==
  ASSUME IInv, SentOnce, NEW c, NEW s, NEW R, NEW channel, NEW earlier, NEW moved, NEW phoneChanged,
         Prepare(c, s, R, channel, earlier, moved, phoneChanged), out' = out
  PROVE  SentOnce'
<1> DEFINE n == stamps + 1
           closed == Expire(StaffOf(R) \union {s})
           p == [send |-> n, stage |-> "committed", contract |-> c, staff |-> s,
                 kind |-> channel, before |-> earlier, moved |-> moved,
                 phoneChanged |-> phoneChanged, replaced |-> R # {},
                 expired |-> IF s \in StaffOf(R) THEN {} ELSE Live(s)]
<1>1. /\ stamps \in Int /\ n \in Stamps /\ stamps' = n
      /\ \A m \in out : m \in Int
  BY MaxStampsAssumption DEF Prepare, IInv, TypeOK, Stamps, StampsOrNever
<1>2. /\ closed = [m \in Stamps |-> closed[m]]
      /\ \A m \in Stamps : closed[m] = IF inv[m].st = "SENT" /\ inv[m].staff \in StaffOf(R) \union {s}
                                       THEN [inv[m] EXCEPT !.st = "EXPIRED"] ELSE inv[m]
  BY DEF Expire
<1>3. \A m \in Stamps : closed[m].st = "UNDER_AGE" => inv[m].st = "UNDER_AGE"
  <2>1. \A m \in Stamps : inv[m] \in InvitationRow
    BY DEF IInv, TypeOK
  <2> HIDE DEF closed
  <2> QED
    BY <1>2, <2>1 DEF InvitationRow
<1>4. /\ \A m \in Stamps : inv'[m].st = "UNDER_AGE" => inv[m].st = "UNDER_AGE"
      /\ pending' = pending \/ pending' = pending \union {p}
  <2>1. CASE channel = "APP"
    BY <1>3, <2>1 DEF Prepare
  <2>2. CASE channel # "APP"
    <3>1. /\ inv' = [closed EXCEPT ![n] = [st |-> "SENT", staff |-> s, kind |-> channel]]
          /\ pending' = pending \union {p}
      BY <2>2 DEF Prepare
    <3> HIDE DEF closed, n, p
    <3> QED
      BY <1>1, <1>2, <1>3, <3>1
  <2> QED
    BY <2>1, <2>2
<1>5. p.send = n
  OBVIOUS
<1> HIDE DEF n, p
<1>6. /\ \A m \in out : m <= stamps /\ m <= stamps' /\ m # n
      /\ \A q \in pending : q.send # n /\ q.send \notin out
  <2>1. \A q \in pending : q.send \in Stamps /\ q.send <= stamps
    BY DEF IInv, TypeOK, PendingInvite, LinksInOrder, SendsKnowTheirLinks
  <2>2. \A q \in pending : q.send # n
    BY <1>1, <2>1 DEF n, Stamps
  <2>3. \A m \in out : m <= stamps /\ m <= stamps' /\ m # n
    BY <1>1 DEF SentOnce, n
  <2> QED
    BY <2>2, <2>3 DEF SentOnce
<1> QED
  BY <1>4, <1>5, <1>6 DEF SentOnce

\* Settling a send of one's own: it goes out at most once.
LEMMA DispatchKeepsSentOnce ==
  ASSUME IInv, SentOnce, NEW p \in pending,
         \/ DispatchReread(p) \/ AlimtalkAccepted(p) \/ AlimtalkFailed(p)
         \/ AlimtalkUnconfirmed(p) \/ UndoError(p) \/ Abandoned(p)
  PROVE  SentOnce' /\ UNCHANGED <<inv, stamps>>
<1>1. /\ p \in PendingInvite /\ p.send \in Stamps /\ p.send <= stamps
  BY DEF IInv, TypeOK, PendingInvite, LinksInOrder, SendsKnowTheirLinks
<1>2. UNCHANGED <<inv, stamps>>
  BY DEF DispatchReread, AlimtalkAccepted, AlimtalkFailed, AlimtalkUnconfirmed, UndoError, Abandoned, rows
<1>3. \/ Done(p) /\ out' \subseteq out \union {p.send}
      \/ out' = out /\ \E stage \in {"committed", "sending", "undoing"} : Step(p, stage)
  BY DEF DispatchReread, AlimtalkAccepted, AlimtalkFailed, AlimtalkUnconfirmed, UndoError, Abandoned
<1>4. CASE Done(p) /\ out' \subseteq out \union {p.send}
  <2>1. out \subseteq out'
    BY DEF DispatchReread, AlimtalkAccepted, AlimtalkFailed, AlimtalkUnconfirmed, UndoError, Abandoned
  <2>2. pending' = pending \ {p}
    BY <1>4 DEF Done
  <2> QED
    BY <1>1, <1>2, <1>4, <2>1, <2>2 DEF SentOnce
<1>5. CASE out' = out /\ \E stage \in {"committed", "sending", "undoing"} : Step(p, stage)
  <2>1. PICK stage \in {"committed", "sending", "undoing"} : Step(p, stage)
    BY <1>5
  <2> DEFINE q == [p EXCEPT !.stage = stage]
  <2>2. q.send = p.send
    BY <1>1 DEF PendingInvite
  <2>3. pending' = (pending \ {p}) \union {q}
    BY <2>1 DEF Step
  <2> HIDE DEF q
  <2> QED
    BY <1>2, <1>5, <2>2, <2>3 DEF SentOnce
<1> QED
  BY <1>2, <1>3, <1>4, <1>5

-----------------------------------------------------------------------------
(* Every action is a step of InvitationLink, or none, and keeps SentOnce    *)

\* What each step is shown to do.
LinkStep == SentOnce' /\ (Promise!LinkNext \/ UNCHANGED Promise!linkVars)

\* prepare, in whichever request, is a step of InvitationLink.
LEMMA SendIsLinkStep ==
  ASSUME IInv, SentOnce,
         NEW c, NEW s \in Staff, NEW R, NEW channel, NEW earlier, NEW moved, NEW phoneChanged,
         Prepare(c, s, R, channel, earlier, moved, phoneChanged), out' = out
  PROVE  LinkStep
BY PrepareIsIssue, PrepareKeepsSentOnce DEF LinkStep

\* A step that only closes usable invitations.
LEMMA ClosingIsLinkStep ==
  ASSUME IInv, SentOnce, stamps' = stamps, pending' = pending, out' = out,
         \A n \in Stamps :
           /\ inv'[n].staff = inv[n].staff
           /\ inv'[n].st = inv[n].st \/ (inv[n].st = "SENT" /\ inv'[n].st = "EXPIRED")
  PROVE  LinkStep
<1>1. \E S \in SUBSET Staff : Promise!Close(S)
  BY ClosingIsClose
<1>2. SentOnce'
  BY SettlingKeepsSentOnce
<1> QED
  BY <1>1, <1>2 DEF LinkStep, Promise!LinkNext

\* Closing all usable invitations of some records.
LEMMA ExpireIsLinkStep ==
  ASSUME IInv, SentOnce, stamps' = stamps, pending' = pending, out' = out,
         NEW S, inv' = Expire(S)
  PROVE  LinkStep
<1>1. \A n \in Stamps :
        /\ inv'[n].staff = inv[n].staff
        /\ inv'[n].st = inv[n].st \/ (inv[n].st = "SENT" /\ inv'[n].st = "EXPIRED")
  <2> SUFFICES ASSUME NEW n \in Stamps
               PROVE  /\ inv'[n].staff = inv[n].staff
                      /\ inv'[n].st = inv[n].st \/ (inv[n].st = "SENT" /\ inv'[n].st = "EXPIRED")
    OBVIOUS
  <2>1. inv[n] \in InvitationRow
    BY DEF IInv, TypeOK
  <2>2. inv'[n] = IF inv[n].st = "SENT" /\ inv[n].staff \in S
                  THEN [inv[n] EXCEPT !.st = "EXPIRED"] ELSE inv[n]
    BY DEF Expire
  <2> QED
    BY <2>1, <2>2 DEF InvitationRow
<1> QED
  BY <1>1, ClosingIsLinkStep

\* An answer of the worker is the Answer step of InvitationLink.
LEMMA AnswerIsLinkStep ==
  ASSUME IInv, SentOnce, NEW n \in Stamps, inv[n].st = "SENT",
         NEW answer \in {"ACCEPTED", "REJECTED", "UNDER_AGE"},
         answer = "UNDER_AGE" => n \in out,
         inv' = [inv EXCEPT ![n].st = answer], stamps' \in {stamps, stamps + 1},
         pending' = pending, out' = out
  PROVE  LinkStep
<1>1. Promise!Answer(n)
  BY AnswerIsAnswer
<1>2. SentOnce'
  <2>1. inv \in [Stamps -> InvitationRow]
    BY DEF IInv, TypeOK
  <2>2. \A m \in Stamps : inv'[m].st = "UNDER_AGE" => inv[m].st = "UNDER_AGE" \/ m \in out
    BY <2>1 DEF InvitationRow
  <2> QED
    BY <2>2, SettlingKeepsSentOnce
<1> QED
  BY <1>1, <1>2 DEF LinkStep, Promise!LinkNext, Promise!Links, Stamps

\* A step that does not touch the invitations.
LEMMA NoLinkStep ==
  ASSUME IInv, SentOnce, UNCHANGED <<inv, stamps, pending, out>>
  PROVE  LinkStep
<1>1. UNCHANGED Promise!linkVars
  BY DEF Promise!linkVars, Live
<1>2. SentOnce'
  BY DEF SentOnce
<1> QED
  BY <1>1, <1>2 DEF LinkStep

\* create issues one link or only closes those of what it replaces.
LEMMA CreateIsLinkStep ==
  ASSUME IInv, SentOnce, NEW c \in Contracts, NEW s \in Staff, NEW ph \in Phones,
         NEW target \in {"DRAFT", "PENDING_SEND", "SIGNED"}, Create(c, s, ph, target)
  PROVE  LinkStep
<1> DEFINE joined == Joined(s)
           R == InProgressAt(ph, c)
           act == IF target = "DRAFT" \/ joined THEN "NONE" ELSE Judged(ph)
           cand == IF target = "DRAFT" THEN NoOne ELSE JudgedCandidate(ph)
           channel == ChannelOf(joined, act)
           rec == IF joined THEN staff[s]
                  ELSE IF FreshRecord(s)
                  THEN [NoRecord EXCEPT !.join = "DRAFT", !.phone = ph, !.cand = cand]
                  ELSE [staff[s] EXCEPT !.cand = cand]
           earlier == [st |-> "NONE", sent |-> Never, due |-> Never, act |-> "NONE",
                      join |-> rec.join, cand |-> staff[s].cand]
           yes == TRUE
           no == FALSE
<1>1. out' = out /\ (Prepare(c, s, R, channel, earlier, yes, no) \/ NoSend(R))
  BY DEF Create
<1> HIDE DEF R, channel, earlier, yes, no
<1>2. CASE Prepare(c, s, R, channel, earlier, yes, no)
  BY <1>1, <1>2, SendIsLinkStep
<1>3. CASE NoSend(R)
  BY <1>1, <1>3, ExpireIsLinkStep DEF NoSend
<1> QED
  BY <1>1, <1>2, <1>3

\* update issues one link or only closes those of what it replaces.
LEMMA SaveIsLinkStep ==
  ASSUME IInv, SentOnce, NEW c \in Contracts, NEW ph \in Phones,
         NEW target \in {"DRAFT", "PENDING_SEND", "SIGNED"}, Save(c, ph, target)
  PROVE  LinkStep
<1> DEFINE s == contract[c].staff
           joined == Joined(s)
           correction == contract[c].st = "CORRECTION_REQUESTED"
           R == InProgressAt(ph, c)
           keeps == target # "DRAFT" /\ (correction \/ (joined /\ contract[c].renews)) /\ ph = staff[s].phone
           act == IF target = "DRAFT" THEN "NONE" ELSE IF keeps THEN contract[c].act ELSE Judged(ph)
           channel == ChannelOf(joined, act)
           earlier == BeforeOf(c, s)
           phoneChanged == ph # staff[s].phone
           yes == TRUE
<1>1. out' = out /\ (Prepare(c, s, R, channel, earlier, yes, phoneChanged) \/ NoSend(R))
  BY DEF Save
<1>2. s \in Staff
  BY RecordOfContract DEF Save, Statuses
<1> HIDE DEF s, R, channel, earlier, yes, phoneChanged
<1>3. CASE Prepare(c, s, R, channel, earlier, yes, phoneChanged)
  BY <1>1, <1>2, <1>3, SendIsLinkStep
<1>4. CASE NoSend(R)
  BY <1>1, <1>4, ExpireIsLinkStep DEF NoSend
<1> QED
  BY <1>1, <1>3, <1>4

\* updateWorker issues one link, or closes links when the worker is told in the app.
LEMMA UpdateWorkerIsLinkStep ==
  ASSUME IInv, SentOnce, NEW c \in Contracts, NEW ph \in Phones, UpdateWorker(c, ph)
  PROVE  LinkStep
<1> DEFINE s == contract[c].staff
           joined == Joined(s)
           phoneChanged == ph # staff[s].phone
           R == IF phoneChanged THEN InProgressAt(ph, c) ELSE {}
           act == IF joined THEN contract[c].act ELSE Judged(ph)
           status == DeliveredStatusOf(joined, act)
           channel == ChannelOf(joined, act)
           moved == status # contract[c].st
           earlier == BeforeOf(c, s)
<1>1. out' = out /\ Prepare(c, s, R, channel, earlier, moved, phoneChanged)
  BY DEF UpdateWorker
<1>2. s \in Staff
  BY RecordOfContract DEF UpdateWorker, WorkerEditable, Statuses
<1> HIDE DEF s, R, channel, earlier, moved, phoneChanged
<1> QED
  BY <1>1, <1>2, SendIsLinkStep

\* send issues one link, or closes links when the worker is told in the app.
LEMMA ResendIsLinkStep ==
  ASSUME IInv, SentOnce, NEW c \in Contracts, Resend(c)
  PROVE  LinkStep
<1> DEFINE s == contract[c].staff
           joined == Joined(s)
           ph == staff[s].phone
           reopened == contract[c].st \in ReopenedStatuses
           act == IF joined THEN contract[c].act ELSE Judged(ph)
           channel == ChannelOf(joined, act)
           status == IF joined \/ reopened \/ channel = "AFFILIATION"
                     THEN DeliveredStatusOf(joined, act) ELSE contract[c].st
           moved == status # contract[c].st
           earlier == BeforeOf(c, s)
           R == {d \in Contracts : FALSE}
           no == FALSE
<1>1. out' = out /\ Prepare(c, s, R, channel, earlier, moved, no)
  <2>1. R = {}
    OBVIOUS
  <2> HIDE DEF R
  <2> QED
    BY <2>1 DEF Resend
<1>2. s \in Staff
  BY RecordOfContract DEF Resend, ResendableStatuses, Statuses
<1> HIDE DEF s, R, channel, earlier, moved, no
<1> QED
  BY <1>1, <1>2, SendIsLinkStep

\* The requests of administrators.
LEMMA AdminIsLinkStep ==
  ASSUME IInv, SentOnce, Admin
  PROVE  LinkStep
<1>1. ASSUME NEW c \in Contracts, End(c) PROVE LinkStep
  BY <1>1, ExpireIsLinkStep DEF End, answerVars
<1>2. ASSUME NEW c \in Contracts, Remove(c) PROVE LinkStep
  BY <1>2, NoLinkStep DEF Remove, answerVars
<1>3. ASSUME NEW s \in Staff, NEW past \in BOOLEAN, Retire(s, past) PROVE LinkStep
  <2>1. Finalized(s) \/ UNCHANGED <<inv, stamps, pending, out>>
    BY <1>3 DEF Retire, answerVars
  <2>2. CASE Finalized(s)
    BY <2>2, ExpireIsLinkStep DEF Finalized, answerVars
  <2> QED
    BY <2>1, <2>2, NoLinkStep
<1>4. ASSUME NEW s \in Staff, CancelRetirement(s) PROVE LinkStep
  BY <1>4, NoLinkStep DEF CancelRetirement, answerVars
<1> QED
  BY <1>1, <1>2, <1>3, <1>4, CreateIsLinkStep, SaveIsLinkStep, UpdateWorkerIsLinkStep,
     ResendIsLinkStep, LeaversAssumption DEF Admin

\* The worker's answers and decisions.
LEMMA WorkerIsLinkStep ==
  ASSUME IInv, SentOnce, Worker
  PROVE  LinkStep
<1>1. ASSUME NEW n \in Stamps,
             Signup(n) \/ SignupUnderAge(n) \/ AcceptForAccount(n) \/ AcceptRequest(n) \/ RejectRequest(n)
      PROVE  LinkStep
  <2>1. /\ inv[n].st = "SENT" /\ pending' = pending /\ out' = out
        /\ stamps' \in {stamps, stamps + 1}
    BY <1>1 DEF Signup, SignupUnderAge, AcceptForAccount, AcceptRequest, RejectRequest, Usable, answerVars
  <2>2. PICK answer \in {"ACCEPTED", "REJECTED", "UNDER_AGE"} :
          inv' = [inv EXCEPT ![n].st = answer] /\ (answer = "UNDER_AGE" => n \in out)
    BY <1>1 DEF Signup, SignupUnderAge, AcceptForAccount, AcceptRequest, RejectRequest
  <2> QED
    BY <2>1, <2>2, AnswerIsLinkStep
<1>2. ASSUME NEW c \in Contracts, NEW to, Decide(c, to) PROVE LinkStep
  BY <1>2, NoLinkStep DEF Decide, answerVars
<1> QED
  BY <1>1, <1>2 DEF Worker

\* The batches.
LEMMA NightlyIsLinkStep ==
  ASSUME IInv, SentOnce, Nightly
  PROVE  LinkStep
<1>1. ASSUME NEW s \in Staff, RetireDue(s) PROVE LinkStep
  BY <1>1, ExpireIsLinkStep DEF RetireDue, Finalized, answerVars
<1>2. ASSUME NEW over \in SUBSET SignedContracts, RunDaily(over) PROVE LinkStep
  <2>1. ASSUME NEW n \in Stamps
        PROVE  /\ inv'[n].staff = inv[n].staff
               /\ inv'[n].st = inv[n].st \/ (inv[n].st = "SENT" /\ inv'[n].st = "EXPIRED")
    <3>1. inv[n] \in InvitationRow
      BY DEF IInv, TypeOK
    <3>2. inv'[n] = IF inv[n].st = "SENT" /\ Due(n) THEN [inv[n] EXCEPT !.st = "EXPIRED"] ELSE inv[n]
      BY <1>2 DEF RunDaily
    <3> QED
      BY <3>1, <3>2 DEF InvitationRow
  <2>2. UNCHANGED <<stamps, pending, out>>
    BY <1>2 DEF RunDaily, answerVars
  <2> QED
    BY <2>1, <2>2, ClosingIsLinkStep
<1> QED
  BY <1>1, <1>2 DEF Nightly

\* What follows the commit of a send.
LEMMA DeliveryIsLinkStep ==
  ASSUME IInv, SentOnce, Delivery
  PROVE  LinkStep
<1>1. ASSUME NEW p \in pending, Undo(p) PROVE LinkStep
  <2>1. /\ pending' \subseteq pending /\ out' = out /\ stamps' = stamps
        /\ \A n \in Stamps : inv'[n].st = "UNDER_AGE" => inv[n].st = "UNDER_AGE" \/ n \in out
    <3>1. /\ pending' \subseteq pending /\ out' = out /\ stamps' = stamps
      BY <1>1 DEF Undo, Done
    <3>2. inv \in [Stamps -> InvitationRow]
      BY DEF IInv, TypeOK
    <3>3. ASSUME NEW n \in Stamps
          PROVE  inv'[n].st = "UNDER_AGE" => inv[n].st = "UNDER_AGE"
      <4>1. inv[n] \in InvitationRow
        BY <3>2
      <4>2. inv'[n] \in {inv[n], NoInvitation, [inv[n] EXCEPT !.st = "SENT"]}
        BY <1>1, <3>2 DEF Undo, TurnBack
      <4> QED
        BY <4>1, <4>2 DEF NoInvitation, InvitationRow
    <3> QED
      BY <3>1, <3>3
  <2> QED
    BY <1>1, <2>1, SettlingKeepsSentOnce, UndoIsWithdraw DEF LinkStep
<1>2. ASSUME NEW p \in pending,
             \/ DispatchReread(p) \/ AlimtalkAccepted(p) \/ AlimtalkFailed(p)
             \/ AlimtalkUnconfirmed(p) \/ UndoError(p) \/ Abandoned(p)
      PROVE  LinkStep
  <2>1. SentOnce' /\ UNCHANGED <<inv, stamps>>
    BY <1>2, DispatchKeepsSentOnce
  <2>2. UNCHANGED Promise!linkVars
    BY <2>1 DEF Promise!linkVars, Live
  <2> QED
    BY <2>1, <2>2 DEF LinkStep
<1> QED
  BY <1>1, <1>2 DEF Delivery

\* Whatever the step.
LEMMA NextIsLinkStep == IInv /\ SentOnce /\ [Next]_vars => LinkStep
<1> SUFFICES ASSUME IInv, SentOnce, [Next]_vars PROVE LinkStep
  OBVIOUS
<1>1. CASE Environment
  BY <1>1, NoLinkStep DEF Environment, AccountElsewhere, Lapse, answerVars
<1>2. CASE UNCHANGED vars
  BY <1>2, NoLinkStep DEF vars
<1> QED
  BY <1>1, <1>2, AdminIsLinkStep, WorkerIsLinkStep, NightlyIsLinkStep, DeliveryIsLinkStep DEF Next

\* The initial states map to the initial state of InvitationLink.
LEMMA InitIsLinkInit == Init => Promise!LinkInit /\ SentOnce
<1> SUFFICES ASSUME Init PROVE Promise!LinkInit /\ SentOnce
  OBVIOUS
<1>1. /\ \A n \in Stamps : inv[n].st = "NONE" /\ inv[n].staff = NoOne
      /\ out = {} /\ pending = {} /\ stamps = 0
  BY DEF Init, NoInvitation, Never
<1>2. SentOnce
  BY <1>1 DEF SentOnce
<1>3. [s \in Staff |-> Live(s)] = [s \in Staff |-> {}]
  BY <1>1 DEF Live
<1>4. /\ [n \in Stamps |-> inv[n].staff] = [n \in Promise!Links |-> NoOne]
      /\ {n \in Stamps : inv[n].st \in {"ACCEPTED", "REJECTED", "UNDER_AGE"}} = {}
  BY <1>1 DEF Promise!Links, Stamps
<1> QED
  BY <1>1, <1>2, <1>3, <1>4 DEF Promise!LinkInit

\* Each send is settled once: what is still to be settled has not gone out, and
\* an under-age refusal is of a link that had gone out.
THEOREM SettledOnce == Spec => []SentOnce
<1>1. IInv /\ SentOnce /\ [Next]_vars => SentOnce'
  BY NextIsLinkStep DEF LinkStep
<1>2. Init => SentOnce
  BY InitIsLinkInit
<1> QED
  BY <1>1, <1>2, Invariance, PTL DEF Spec

\* Sending contracts keeps the promise about links, for every number of records,
\* contracts and sends: at most one usable link per record, the one an undo puts
\* back is an older, unanswered one of the same record, and an answer is final.
THEOREM Implementation == Spec => ImplementsInvitationLink
<1>1. IInv /\ SentOnce /\ [Next]_vars => [Promise!LinkNext]_(Promise!linkVars)
  BY NextIsLinkStep DEF LinkStep
<1>2. Init => Promise!LinkInit
  BY InitIsLinkInit
<1> QED
  BY <1>1, <1>2, Invariance, SettledOnce, PTL DEF Spec, ImplementsInvitationLink, Promise!LinkSpec

-----------------------------------------------------------------------------
(* The rows of codes entered                                               *)

CodeRow == [kind : {"NONE", "ROW"}, ok : BOOLEAN, failed : Nat, until : Nat]
CodeSend == [st : {"none", "unsettled", "settled", "answered", "undone"},
             unlock : Nat, closed : 0..MaxSends]
CodeTyped ==
    /\ attempts \in [Code!Rows -> CodeRow] /\ lastId \in 0..MaxRows /\ now \in Nat
    /\ sends \in [Code!Sends -> CodeSend] /\ sendsIssued \in 0..MaxSends
         /\ link \in [Records -> 0..MaxSends]

\* No new start between two rows.
StartIn(A, j, i) == \E x \in Code!Rows : j < x /\ x <= i /\ A[x].kind = "ROW" /\ A[x].ok
\* A count is reached one failure at a time since the last start, and a number is
\* locked by MaxFailed of them.
CountsUp(A, i) ==
    /\ A[i].ok => A[i].failed = 0 /\ A[i].until = 0
    /\ A[i].until # 0 => A[i].failed >= MaxFailed
    /\ \A k \in 1 .. A[i].failed :
         \E j \in Code!Rows : j <= i /\ A[j].kind = "ROW" /\ A[j].failed = k /\ ~StartIn(A, j, i)
RowsCount(A, last) ==
    \A i \in Code!Rows : A[i].kind = "ROW" => i <= last /\ CountsUp(A, i)
\* The row of a send that was not undone is there, later sends have later rows.
SendsFit(S, m, A, last) ==
    \A n \in Code!Sends :
      /\ S[n].st # "none" <=> n <= m
      /\ n <= m => /\ S[n].unlock \in 1 .. last /\ S[n].closed < n
                   /\ S[n].st # "undone" => A[S[n].unlock].kind = "ROW" /\ A[S[n].unlock].ok
      /\ \A o \in Code!Sends : o < n /\ n <= m => S[o].unlock < S[n].unlock
LinksFit(L, S) == \A r \in Records : L[r] # Code!None =>
  L[r] \in Code!Sends /\ S[L[r]].st \notin {"none", "undone"}
CodeInv ==
    /\ CodeTyped /\ RowsCount(attempts, lastId) /\ SendsFit(sends, sendsIssued, attempts, lastId)
    /\ LinksFit(link, sends)

LEMMA CodeTells ==
  ASSUME CodeInv
  PROVE  /\ attempts \in [Code!Rows -> CodeRow] /\ lastId \in Nat /\ lastId <= MaxRows
              /\ now \in Nat
         /\ sends \in [Code!Sends -> CodeSend] /\ sendsIssued \in Nat /\ sendsIssued <= MaxSends
         /\ link \in [Records -> 0..MaxSends]
         /\ \A i \in Code!Rows : attempts[i] \in CodeRow /\ i \in Nat
         /\ \A n \in Code!Sends : sends[n] \in CodeSend /\ n \in Nat
         /\ \A i \in Code!Rows : attempts[i].kind = "ROW" => i <= lastId /\ CountsUp(attempts, i)
         /\ LinksFit(link, sends)
BY CodeConstants DEF CodeInv, CodeTyped, RowsCount, Code!Rows, Code!Sends

\* What is known of a send n.
LEMMA SendTells ==
  ASSUME CodeInv, NEW n \in Code!Sends, sends[n].st # "none"
  PROVE  /\ n <= sendsIssued /\ sends[n].unlock \in 1 .. lastId /\ sends[n].unlock \in Code!Rows
         /\ sends[n].closed < n /\ sends[n].unlock \in Nat
         /\ sends[n].st # "undone" => Code!IsStart(sends[n].unlock)
         /\ \A o \in Code!Sends : o # n /\ sends[o].st # "none" =>
              sends[o].unlock # sends[n].unlock
<1>1. /\ n <= sendsIssued /\ sends[n].unlock \in 1 .. lastId /\ sends[n].closed < n
      /\ sends[n].st # "undone" => Code!IsStart(sends[n].unlock)
  BY DEF CodeInv, SendsFit, Code!IsStart, Code!Kept
<1>2. sends[n].unlock \in Code!Rows /\ sends[n].unlock \in Nat
  BY <1>1, CodeTells, CodeConstants DEF Code!Rows
<1>3. ASSUME NEW o \in Code!Sends, o # n, sends[o].st # "none"
      PROVE  sends[o].unlock # sends[n].unlock
  <2>1. o <= sendsIssued /\ sends[o].unlock \in 1 .. lastId /\ n \in Nat /\ o \in Nat
    BY <1>3, CodeConstants DEF CodeInv, SendsFit, Code!Sends
  <2>2. o < n => sends[o].unlock < sends[n].unlock
    BY <1>1, <1>3 DEF CodeInv, SendsFit
  <2>3. n < o => sends[n].unlock < sends[o].unlock
    BY <1>3, <2>1 DEF CodeInv, SendsFit
  <2> QED
    BY <1>2, <1>3, <2>1, <2>2, <2>3, CodeTells
<1> QED
  BY <1>1, <1>2, <1>3

\* Of the rows that are kept, and of any set of numbers up to a bound, one is the last.
LEMMA LastExists ==
  ASSUME NEW S, NEW top \in Nat, S \subseteq 0 .. top, S # {}
  PROVE  \E i \in S : \A j \in S : j <= i
<1> DEFINE T == {top - i : i \in S}
<1>1. T \subseteq Nat /\ T # {}
  <2>1. \A i \in S : top - i \in Nat
    OBVIOUS
  <2> QED
    BY <2>1
<1>2. PICK t \in T : \A j \in T : ~(<<j, t>> \in OpToRel(<, Nat))
  BY <1>1, NatLessThanWellFounded, WFMin
<1>3. PICK i \in S : t = top - i
  BY <1>2
<1>4. ASSUME NEW j \in S, ~(j <= i)
      PROVE  FALSE
  <2>1. top - j \in T /\ top - j < t /\ <<top - j, t>> \in Nat \X Nat
    BY <1>1, <1>3, <1>4
  <2>2. <<top - j, t>> \in {ss \in Nat \X Nat : ss[1] < ss[2]}
    BY <2>1
  <2> QED
    BY <1>2, <2>1, <2>2 DEF OpToRel
<1> QED
  BY <1>4

\* The state is what the last row says, or clear when there is none.
LEMMA StateIsLast ==
  ASSUME CodeInv
  PROVE  \/ (\A i \in Code!Rows : ~Code!Kept(i)) /\ Code!State = Code!NoRow
         \/ \E i \in Code!Rows : /\ Code!Kept(i) /\ (\A j \in Code!Rows : Code!Kept(j) => j <= i)
                                 /\ Code!State = attempts[i]
<1>1. \A i \in Code!Rows : Code!Kept(i) => i <= lastId
  BY CodeTells DEF Code!Kept
<1>2. CASE \A i \in Code!Rows : ~Code!Kept(i)
  BY <1>2 DEF Code!State, Code!StateAt
<1>3. CASE \E i \in Code!Rows : Code!Kept(i)
  <2> DEFINE S == {i \in Code!Rows : Code!Kept(i)}
  <2>1. PICK i \in S : \A j \in S : j <= i
    <3>1. S \subseteq 0 .. MaxRows /\ S # {}
      BY <1>3 DEF Code!Rows
    <3> QED
      BY <3>1, LastExists, CodeConstants
  <2>2. i \in Code!Rows /\ Code!Kept(i) /\ i <= lastId
          /\ \A j \in Code!Rows : Code!Kept(j) => j <= i
    BY <1>1, <2>1
  <2>3. PICK c : c = CHOOSE k \in Code!Rows : /\ k <= lastId /\ Code!Kept(k)
                                              /\ \A j \in Code!Rows : j <= lastId
                                                   /\ Code!Kept(j) => j <= k
    OBVIOUS
  <2>4. c \in Code!Rows /\ Code!Kept(c) /\ \A j \in Code!Rows : j <= lastId
          /\ Code!Kept(j) => j <= c
    BY <2>2, <2>3
  <2>5. c = i
    <3>1. c <= i /\ i <= c /\ c \in Nat /\ i \in Nat
      BY <2>2, <2>4, CodeTells
    <3> QED
      BY <3>1
  <2>6. Code!State = attempts[c]
    BY <1>1, <1>3, <2>3 DEF Code!State, Code!StateAt
  <2> QED
    BY <2>2, <2>5, <2>6
<1> QED
  BY <1>2, <1>3

\* A row more: row counts as before, and the new one counts up from the last.
LEMMA RecordTells ==
  ASSUME CodeInv, NEW ok \in BOOLEAN, NEW state, Code!Record(ok, state),
         state.failed \in Nat, state.until \in Nat,
         ok => state.failed = 0 /\ state.until = 0,
         state.until # 0 => state.failed >= MaxFailed,
         state.failed = 0 \/ state.failed \in {Code!State.failed, Code!State.failed + 1}
           \/ state.failed = 1
  PROVE  \E A \in [Code!Rows -> CodeRow], last \in 0 .. MaxRows :
           /\ attempts' = A /\ lastId' = last /\ last = lastId + 1 /\ last \in Code!Rows
           /\ A[last] = [kind |-> "ROW", ok |-> ok, failed |-> state.failed,
                until |-> state.until]
           /\ \A i \in Code!Rows \ {last} : A[i] = attempts[i]
           /\ attempts[last].kind # "ROW"
           /\ RowsCount(A, last)
<1>1. PICK last : last = lastId + 1
  OBVIOUS
<1>2. PICK row : row = [kind |-> "ROW", ok |-> ok, failed |-> state.failed, until |-> state.until]
  OBVIOUS
<1>3. PICK A : A = [attempts EXCEPT ![last] = row]
  OBVIOUS
<1>4. attempts' = A /\ lastId' = last /\ last \in Code!Rows /\ last \in 0 .. MaxRows
        /\ last \in Nat
      /\ lastId \in Nat /\ lastId < last
  BY <1>1, <1>2, <1>3, CodeTells, CodeConstants DEF Code!Record, Code!Rows
<1>5. row \in CodeRow
  BY <1>2 DEF CodeRow
<1>6. A \in [Code!Rows -> CodeRow] /\ A[last] = row
        /\ \A i \in Code!Rows \ {last} : A[i] = attempts[i]
  BY <1>3, <1>4, <1>5, CodeTells
<1>7. attempts[last].kind # "ROW"
  BY <1>4, CodeTells
<1>8. ASSUME NEW i \in Code!Rows, A[i].kind = "ROW"
      PROVE  i <= last /\ CountsUp(A, i)
  <2>1. CASE i # last
    <3>1. i <= lastId /\ CountsUp(attempts, i) /\ A[i] = attempts[i] /\ i \in Nat
      BY <1>6, <1>8, <2>1, CodeTells
    <3>2. ASSUME NEW j \in Code!Rows, j <= i
          PROVE  StartIn(A, j, i) => StartIn(attempts, j, i)
      BY <1>4, <1>6, <3>1, <3>2, CodeTells DEF StartIn
    <3>3. \A j \in Code!Rows : j <= i => j # last /\ A[j] = attempts[j]
      BY <1>4, <1>6, <3>1, CodeTells
    <3>4. ASSUME NEW k \in 1 .. A[i].failed
          PROVE  \E j \in Code!Rows : j <= i /\ A[j].kind = "ROW" /\ A[j].failed = k
                   /\ ~StartIn(A, j, i)
      <4>1. PICK j \in Code!Rows : /\ j <= i /\ attempts[j].kind = "ROW" /\ attempts[j].failed = k
                                   /\ ~StartIn(attempts, j, i)
        BY <3>1, <3>4 DEF CountsUp
      <4> QED
        BY <3>2, <3>3, <4>1
    <3>5. CountsUp(A, i)
      BY <3>1, <3>4 DEF CountsUp
    <3>6. i <= last
      BY <1>4, <3>1, CodeTells
    <3> QED
      BY <3>5, <3>6
  <2>2. CASE i = last
    <3>1. A[i].failed = state.failed /\ A[i].until = state.until /\ A[i].ok = ok
      BY <1>2, <1>6, <2>2
    <3>2. ASSUME NEW k \in 1 .. state.failed
          PROVE  \E j \in Code!Rows : j <= i /\ A[j].kind = "ROW" /\ A[j].failed = k
                   /\ ~StartIn(A, j, i)
      <4>1. ~ok
        BY <3>2
      <4>2. ~StartIn(A, i, i) /\ i <= i
        BY CodeTells DEF StartIn
      <4>3. CASE k = state.failed
        BY <1>2, <1>6, <2>2, <4>2, <4>3
      <4>4. CASE k # state.failed
        <5>1. k \in 1 .. Code!State.failed /\ Code!State.failed # 0 /\ k \in Nat
          <6>1. Code!State.failed \in Nat
            BY StateIsLast, CodeTells DEF CodeRow, Code!NoRow
          <6> QED
            BY <3>2, <4>4, <6>1
        <5>2. PICK l \in Code!Rows : /\ Code!Kept(l)
                /\ (\A j \in Code!Rows : Code!Kept(j) => j <= l)
                                     /\ Code!State = attempts[l]
          BY <5>1, StateIsLast DEF Code!NoRow
        <5>3. PICK j \in Code!Rows : /\ j <= l /\ attempts[j].kind = "ROW"
                /\ attempts[j].failed = k
                                     /\ ~StartIn(attempts, j, l)
          BY <5>1, <5>2, CodeTells DEF CountsUp, Code!Kept
        <5>4. j # last /\ j <= i /\ A[j] = attempts[j]
          BY <1>4, <1>6, <1>7, <2>2, <5>3, CodeTells
        <5>5. ~StartIn(A, j, i)
          <6>1. ASSUME NEW x \in Code!Rows, j < x, x <= i, A[x].kind = "ROW", A[x].ok
                PROVE  FALSE
            <7>1. x # last
              BY <1>2, <1>6, <4>1, <6>1
            <7>2. attempts[x].kind = "ROW" /\ attempts[x].ok
              BY <1>6, <6>1, <7>1
            <7>3. x <= l
              BY <5>2, <7>2 DEF Code!Kept
            <7> QED
              BY <5>3, <6>1, <7>2, <7>3 DEF StartIn
          <6> QED
            BY <6>1 DEF StartIn
        <5> QED
          BY <5>3, <5>4, <5>5
      <4> QED
        BY <4>3, <4>4
    <3> QED
      BY <1>4, <2>2, <3>1, <3>2 DEF CountsUp
  <2> QED
    BY <2>1, <2>2
<1> QED
  BY <1>1, <1>2, <1>4, <1>6, <1>7, <1>8 DEF RowsCount

\* A row more takes no row from a send.
LEMMA RecordKeepsSends ==
  ASSUME CodeInv, NEW A, NEW last \in Nat, last = lastId + 1,
         \A i \in Code!Rows \ {last} : A[i] = attempts[i]
  PROVE  SendsFit(sends, sendsIssued, A, last)
<1>1. ASSUME NEW n \in Code!Sends, n <= sendsIssued
      PROVE  /\ sends[n].unlock \in 1 .. last
             /\ sends[n].st # "undone" => A[sends[n].unlock] = attempts[sends[n].unlock]
  <2>1. sends[n].unlock \in 1 .. lastId
    BY <1>1 DEF CodeInv, SendsFit
  <2>2. sends[n].unlock \in Code!Rows /\ sends[n].unlock # last
    BY <2>1, CodeTells, CodeConstants DEF Code!Rows
  <2> QED
    BY <2>1, <2>2, CodeTells
<1> QED
  BY <1>1 DEF CodeInv, SendsFit

\* A code is entered.
LEMMA EnteringKeeps ==
  ASSUME CodeInv, NEW ok \in BOOLEAN, NEW state, Code!Record(ok, state),
         state.failed \in Nat, state.until \in Nat,
         ok => state.failed = 0 /\ state.until = 0,
         state.until # 0 => state.failed >= MaxFailed,
         state.failed = 0 \/ state.failed \in {Code!State.failed, Code!State.failed + 1}
           \/ state.failed = 1,
         UNCHANGED <<sends, sendsIssued, link, now>>
  PROVE  CodeInv'
<1>1. PICK A \in [Code!Rows -> CodeRow], last \in 0 .. MaxRows :
           /\ attempts' = A /\ lastId' = last /\ last = lastId + 1 /\ last \in Code!Rows
           /\ A[last] = [kind |-> "ROW", ok |-> ok, failed |-> state.failed,
                until |-> state.until]
           /\ \A i \in Code!Rows \ {last} : A[i] = attempts[i]
           /\ attempts[last].kind # "ROW"
           /\ RowsCount(A, last)
  BY RecordTells
<1>2. SendsFit(sends, sendsIssued, A, last)
  BY <1>1, RecordKeepsSends, CodeConstants
<1> QED
  BY <1>1, <1>2 DEF CodeInv, CodeTyped

LEMMA StateTells ==
  ASSUME CodeInv
  PROVE  /\ Code!State \in CodeRow /\ Code!State.failed \in Nat /\ Code!State.until \in Nat
         /\ Code!State.until # 0 => Code!State.failed >= MaxFailed
<1>1. Code!NoRow \in CodeRow /\ Code!NoRow.until = 0
  BY DEF Code!NoRow, CodeRow
<1>2. Code!State \in CodeRow /\ (Code!State.until # 0 => Code!State.failed >= MaxFailed)
  BY <1>1, StateIsLast, CodeTells DEF CountsUp, Code!Kept
<1> QED
  BY <1>2 DEF CodeRow

\* What a failure leaves.
LEMMA FailureTells ==
  ASSUME CodeInv, ~Code!IsLocked(Code!State)
  PROVE  /\ Code!RegisterFailure(Code!State).failed =
              (IF Code!State.until = 0 THEN Code!State.failed ELSE 0) + 1
         /\ Code!RegisterFailure(Code!State).until =
              IF Code!RegisterFailure(Code!State).failed >= MaxFailed THEN now + LockTime ELSE 0
<1>1. PICK f, u : f = (IF Code!State.until = 0 THEN Code!State.failed ELSE 0) + 1
                  /\ u = IF f >= MaxFailed THEN now + LockTime ELSE 0
  OBVIOUS
<1>2. Code!RegisterFailure(Code!State) = [Code!State EXCEPT !.failed = f, !.until = u]
  BY <1>1 DEF Code!RegisterFailure
<1>3. [Code!State EXCEPT !.failed = f, !.until = u].failed = f
      /\ [Code!State EXCEPT !.failed = f, !.until = u].until = u
  BY StateTells DEF CodeRow
<1> QED
  BY <1>1, <1>2, <1>3

LEMMA EnterKeeps ==
  ASSUME CodeInv, Code!EnterLocked \/ Code!EnterLive \/ Code!EnterEnded \/ Code!EnterWrong
  PROVE  CodeInv'
<1>1. CASE Code!EnterLocked \/ Code!EnterEnded
  <2>1. Code!Record(FALSE, Code!State) /\ UNCHANGED <<sends, sendsIssued, link, now>>
    BY <1>1 DEF Code!EnterLocked, Code!EnterEnded
  <2> QED
    BY <2>1, StateTells, EnteringKeeps
<1>2. CASE Code!EnterLive
  <2>1. Code!Record(TRUE, Code!NoRow) /\ UNCHANGED <<sends, sendsIssued, link, now>>
    BY <1>2 DEF Code!EnterLive
  <2>2. PICK state, ok : state = Code!NoRow /\ ok = TRUE
    OBVIOUS
  <2>3. /\ state.failed = 0 /\ state.until = 0 /\ ok \in BOOLEAN /\ Code!Record(ok, state)
        /\ state.failed \in Nat /\ state.until \in Nat
    BY <2>1, <2>2 DEF Code!NoRow
  <2> QED
    BY <2>1, <2>2, <2>3, EnteringKeeps
<1>3. CASE Code!EnterWrong
  <2>1. /\ Code!Record(FALSE, Code!RegisterFailure(Code!State))
             /\ UNCHANGED <<sends, sendsIssued, link, now>>
        /\ ~Code!IsLocked(Code!State)
    BY <1>3 DEF Code!EnterWrong
  <2>2. PICK state : state = Code!RegisterFailure(Code!State)
    OBVIOUS
  <2>3. /\ state.failed \in Nat /\ state.until \in Nat
        /\ state.until # 0 => state.failed >= MaxFailed
        /\ state.failed \in {Code!State.failed + 1, 1}
    BY <2>1, <2>2, FailureTells, StateTells, CodeTells, CodeConstants
  <2> QED
    BY <2>1, <2>2, <2>3, EnteringKeeps
<1> QED
  BY <1>1, <1>2, <1>3

\* Only what a send n says of itself changes: not to nothing, and not back to its row.
Says(n, st) == [sends EXCEPT ![n].st = st]
LEMMA SendStaysFit ==
  ASSUME CodeInv, NEW n \in Code!Sends, sends[n].st \notin {"none", "undone"},
         NEW st \in {"settled", "answered", "undone"}
  PROVE  Says(n, st) \in [Code!Sends -> CodeSend]
           /\ SendsFit(Says(n, st), sendsIssued, attempts, lastId)
         /\ Says(n, st)[n].st = st /\ (\A o \in Code!Sends \ {n} : Says(n, st)[o] = sends[o])
         /\ (\A o \in Code!Sends : Says(n, st)[o].unlock = sends[o].unlock)
<1>0. PICK S : S = Says(n, st)
  OBVIOUS
<1>1. PICK s : s = [sends[n] EXCEPT !.st = st]
  OBVIOUS
<1>2. s \in CodeSend /\ s.st = st /\ s.unlock = sends[n].unlock /\ s.closed = sends[n].closed
  BY <1>1, CodeTells DEF CodeSend
<1>3. /\ S \in [Code!Sends -> CodeSend] /\ S[n] = s /\ \A o \in Code!Sends \ {n} : S[o] = sends[o]
  BY <1>0, <1>1, <1>2, CodeTells DEF Says
<1>4. \A o \in Code!Sends : /\ S[o].unlock = sends[o].unlock /\ S[o].closed = sends[o].closed
                            /\ S[o].st = "none" <=> sends[o].st = "none"
                            /\ S[o].st # "undone" => sends[o].st # "undone"
  BY <1>2, <1>3
<1> QED
  BY <1>0, <1>2, <1>3, <1>4 DEF CodeInv, SendsFit

LEMMA SettleKeeps ==
  ASSUME CodeInv, NEW n \in Code!Sends, Code!Settle(n)
  PROVE  CodeInv'
<1>1. PICK S : S = Says(n, "settled")
  OBVIOUS
<1>2. sends' = S /\ sends[n].st = "unsettled"
        /\ UNCHANGED <<attempts, lastId, sendsIssued, link, now>>
  BY <1>1 DEF Code!Settle, Says
<1>3. S \in [Code!Sends -> CodeSend] /\ SendsFit(S, sendsIssued, attempts, lastId)
      /\ S[n].st = "settled" /\ (\A o \in Code!Sends \ {n} : S[o] = sends[o])
  BY <1>1, <1>2, SendStaysFit
<1>4. LinksFit(link, S)
  BY <1>3, CodeTells DEF LinksFit
<1> QED
  BY <1>2, <1>3, <1>4 DEF CodeInv, CodeTyped

LEMMA AnswerKeeps ==
  ASSUME CodeInv, NEW r \in Records, Code!Answer(r)
  PROVE  CodeInv'
<1>1. PICK n : n = link[r]
  OBVIOUS
<1>2. n \in Code!Sends /\ sends[n].st \notin {"none", "undone"}
  BY <1>1, CodeTells DEF Code!Answer, LinksFit
<1>3. PICK S : S = Says(n, "answered")
  OBVIOUS
<1>4. PICK L : L = [link EXCEPT ![r] = Code!None]
  OBVIOUS
<1>5. sends' = S /\ link' = L /\ UNCHANGED <<attempts, lastId, sendsIssued, now>>
  BY <1>1, <1>3, <1>4 DEF Code!Answer, Says
<1>6. S \in [Code!Sends -> CodeSend] /\ SendsFit(S, sendsIssued, attempts, lastId)
      /\ S[n].st = "answered" /\ (\A o \in Code!Sends \ {n} : S[o] = sends[o])
  BY <1>2, <1>3, SendStaysFit
<1>7. L \in [Records -> 0..MaxSends] /\ \A q \in Records : L[q] \in {Code!None, link[q]}
  BY <1>4, CodeTells, CodeConstants DEF Code!None
<1>8. LinksFit(L, S)
  BY <1>6, <1>7, CodeTells DEF LinksFit
<1> QED
  BY <1>5, <1>6, <1>7, <1>8 DEF CodeInv, CodeTyped

LEMMA CloseLinkKeeps ==
  ASSUME CodeInv, NEW r \in Records, Code!CloseLink(r)
  PROVE  CodeInv'
<1>1. PICK L : L = [link EXCEPT ![r] = Code!None]
  OBVIOUS
<1>2. link' = L /\ UNCHANGED <<attempts, lastId, sends, sendsIssued, now>>
  BY <1>1 DEF Code!CloseLink
<1>3. L \in [Records -> 0..MaxSends] /\ \A q \in Records : L[q] \in {Code!None, link[q]}
  BY <1>1, CodeTells, CodeConstants DEF Code!None
<1>4. LinksFit(L, sends)
  BY <1>3, CodeTells DEF LinksFit
<1> QED
  BY <1>2, <1>3, <1>4 DEF CodeInv, CodeTyped

LEMMA SendKeeps ==
  ASSUME CodeInv, NEW r \in Records, Code!Send(r)
  PROVE  CodeInv'
<1>1. PICK n, last : n = sendsIssued + 1 /\ last = lastId + 1
  OBVIOUS
<1>2. /\ n \in Code!Sends /\ n \in Nat /\ n \in 0 .. MaxSends /\ last \in Nat /\ sendsIssued < n
      /\ sends[n].st = "none"
  <2>1. n \in Code!Sends /\ n \in Nat /\ sendsIssued < n /\ n \in 0 .. MaxSends /\ last \in Nat
    BY <1>1, CodeTells, CodeConstants DEF Code!Send, Code!Sends
  <2> QED
    BY <2>1, CodeTells DEF CodeInv, SendsFit
<1>3. PICK s : s = [st |-> "unsettled", unlock |-> last, closed |-> link[r]]
  OBVIOUS
<1>4. PICK S : S = [sends EXCEPT ![n] = s]
  OBVIOUS
<1>5. PICK L : L = [link EXCEPT ![r] = n]
  OBVIOUS
<1>6. sendsIssued' = n /\ link' = L /\ sends' = S /\ Code!Record(TRUE, Code!NoRow)
        /\ UNCHANGED now
  BY <1>1, <1>3, <1>4, <1>5 DEF Code!Send
<1>7. PICK state, ok : state = Code!NoRow /\ ok = TRUE
  OBVIOUS
<1>8. /\ state.failed = 0 /\ state.until = 0 /\ ok \in BOOLEAN /\ Code!Record(ok, state)
      /\ state.failed \in Nat /\ state.until \in Nat
  BY <1>6, <1>7 DEF Code!NoRow
<1>9. PICK A \in [Code!Rows -> CodeRow], l \in 0 .. MaxRows :
           /\ attempts' = A /\ lastId' = l /\ l = lastId + 1 /\ l \in Code!Rows
           /\ A[l] = [kind |-> "ROW", ok |-> ok, failed |-> state.failed, until |-> state.until]
           /\ \A i \in Code!Rows \ {l} : A[i] = attempts[i]
           /\ attempts[l].kind # "ROW"
           /\ RowsCount(A, l)
  BY <1>8, RecordTells
<1>10. SendsFit(sends, sendsIssued, A, last)
  BY <1>1, <1>2, <1>9, RecordKeepsSends
<1>11. link[r] \in 0 .. sendsIssued /\ link[r] < n
  <2>1. link[r] # Code!None => link[r] <= sendsIssued
    BY CodeTells DEF CodeInv, SendsFit, LinksFit
  <2>2. link[r] \in Nat
    BY CodeTells, CodeConstants
  <2> QED
    BY <1>1, <1>2, <2>1, <2>2, CodeTells DEF Code!None
<1>12. s \in CodeSend /\ s.st = "unsettled" /\ s.unlock = last /\ s.closed = link[r]
  BY <1>2, <1>3, CodeTells DEF CodeSend
<1>13. S \in [Code!Sends -> CodeSend] /\ S[n] = s /\ \A o \in Code!Sends \ {n} : S[o] = sends[o]
  BY <1>2, <1>4, <1>12, CodeTells
<1>14. L \in [Records -> 0..MaxSends] /\ L[r] = n /\ \A q \in Records \ {r} : L[q] = link[q]
  BY <1>2, <1>5, CodeTells
<1>15. ASSUME NEW o \in Code!Sends
       PROVE  /\ S[o].st # "none" <=> o <= n
              /\ o <= n => /\ S[o].unlock \in 1 .. last /\ S[o].closed < o
                           /\ S[o].st # "undone" => A[S[o].unlock].kind = "ROW"
                                /\ A[S[o].unlock].ok
              /\ \A p \in Code!Sends : p < o /\ o <= n => S[p].unlock < S[o].unlock
  <2>1. o \in Nat /\ (o # n => (o <= n <=> o <= sendsIssued))
    BY <1>1, <1>2, CodeTells
  <2>2. \A p \in Code!Sends : p \in Nat /\ (p < n => p # n /\ p <= sendsIssued)
    BY <1>1, <1>2, CodeTells
  <2>3. CASE o = n
    <3>1. \A p \in Code!Sends : p < n => S[p].unlock < last
      <4>1. \A p \in Code!Sends : p < n => sends[p].unlock \in 1 .. lastId
        BY <2>2 DEF CodeInv, SendsFit
      <4> QED
        BY <1>1, <1>13, <2>2, <4>1, CodeTells
    <3>2. last \in 1 .. last
      BY <1>1, <1>2, CodeTells
    <3>3. A[last].kind = "ROW" /\ A[last].ok
      BY <1>1, <1>7, <1>9
    <3> QED
      BY <1>2, <1>11, <1>12, <1>13, <2>3, <3>1, <3>2, <3>3
  <2>4. CASE o # n
    <3>1. \A p \in Code!Sends : p < o /\ o <= n => p # n
      BY <1>2, <2>1, <2>2
    <3> QED
      BY <1>10, <1>13, <2>1, <2>4, <3>1 DEF SendsFit
  <2> QED
    BY <2>3, <2>4
<1>16. SendsFit(S, n, A, last)
  BY <1>15 DEF SendsFit
<1>17. LinksFit(L, S)
  <2>1. \A q \in Records \ {r} : link[q] # Code!None => link[q] # n
    BY <1>2, CodeTells DEF LinksFit
  <2> QED
    BY <1>2, <1>12, <1>13, <1>14, <2>1, CodeTells DEF LinksFit
<1>18. l = last
  BY <1>1, <1>9
<1> QED
  BY <1>2, <1>6, <1>9, <1>13, <1>14, <1>16, <1>17, <1>18 DEF CodeInv, CodeTyped

\* Which rows an undo deletes: a start and what was entered since.
LEMMA UndoTells ==
  ASSUME CodeInv, NEW n \in Code!Sends, sends[n].st = "unsettled", NEW A,
         A = [i \in Code!Rows |-> IF i \in Code!UndoneRows(n) THEN Code!NoRow ELSE attempts[i]]
  PROVE  /\ A \in [Code!Rows -> CodeRow] /\ Code!IsStart(sends[n].unlock)
              /\ sends[n].unlock \in Code!Rows
         /\ \A i \in Code!Rows : i \notin Code!UndoneRows(n) => A[i] = attempts[i]
         /\ \A i \in Code!Rows : i \in Code!UndoneRows(n) => A[i].kind # "ROW"
         /\ \A i \in Code!Rows : i \in Code!UndoneRows(n) <=>
              i >= sends[n].unlock /\ ~StartIn(attempts, sends[n].unlock, i)
         /\ \A i \in Code!Rows : Code!IsStart(i) /\ i \in Code!UndoneRows(n) =>
              i = sends[n].unlock
         /\ sends[n].unlock \in Code!UndoneRows(n)
         /\ \A i, j \in Code!Rows : i \notin Code!UndoneRows(n)
              /\ j \in Code!UndoneRows(n) /\ j <= i
              => StartIn(attempts, j, i)
<1>1. PICK u : u = sends[n].unlock
  OBVIOUS
<1>2. Code!IsStart(u) /\ u \in Code!Rows /\ u \in Nat
  BY <1>1, SendTells
<1>3. Code!NoRow \in CodeRow /\ Code!NoRow.kind # "ROW"
  BY DEF Code!NoRow, CodeRow
<1>4. A \in [Code!Rows -> CodeRow]
      /\ (\A i \in Code!Rows : i \notin Code!UndoneRows(n) => A[i] = attempts[i])
      /\ (\A i \in Code!Rows : i \in Code!UndoneRows(n) => A[i].kind # "ROW")
  BY <1>3, CodeTells
<1>5. \A i \in Code!Rows : i \in Code!UndoneRows(n) <=> i >= u /\ ~StartIn(attempts, u, i)
  BY <1>1 DEF Code!UndoneRows, StartIn, Code!Kept
<1>6. \A i \in Code!Rows : Code!IsStart(i) /\ i \in Code!UndoneRows(n) => i = u
  <2>1. ASSUME NEW i \in Code!Rows, Code!IsStart(i), i \in Code!UndoneRows(n), i # u
        PROVE  FALSE
    <3>1. u < i /\ i <= i
      BY <1>2, <1>5, <2>1, CodeTells
    <3> QED
      BY <1>5, <2>1, <3>1 DEF StartIn, Code!IsStart, Code!Kept
  <2> QED
    BY <2>1
<1>7. u \in Code!UndoneRows(n)
  BY <1>2, <1>5 DEF StartIn
<1>8. ASSUME NEW i \in Code!Rows, NEW j \in Code!Rows, i \notin Code!UndoneRows(n),
             j \in Code!UndoneRows(n), j <= i
      PROVE  StartIn(attempts, j, i)
  <2>1. i \in Nat /\ j \in Nat /\ u <= j /\ u <= i
    BY <1>2, <1>5, <1>8, CodeTells
  <2>2. PICK x \in Code!Rows : u < x /\ x <= i /\ attempts[x].kind = "ROW" /\ attempts[x].ok
    BY <1>5, <1>8, <2>1 DEF StartIn
  <2>3. ~(x <= j)
    BY <1>5, <1>8, <2>2 DEF StartIn
  <2> QED
    BY <2>1, <2>2, <2>3, CodeTells DEF StartIn
<1> QED
  BY <1>1, <1>2, <1>4, <1>5, <1>6, <1>7, <1>8

LEMMA UndoKeeps ==
  ASSUME CodeInv, NEW n \in Code!Sends, Code!Undo(n)
  PROVE  CodeInv'
<1>1. PICK S : S = Says(n, "undone")
  OBVIOUS
<1>2. PICK A :
         A = [i \in Code!Rows |-> IF i \in Code!UndoneRows(n) THEN Code!NoRow ELSE attempts[i]]
  OBVIOUS
<1>3. PICK back, L :
         /\ back \in {Code!None} \union ({sends[n].closed} \intersect Code!Invitations)
         /\ link' = L /\ L = [r \in Records |-> IF link[r] = n THEN back ELSE link[r]]
  BY DEF Code!Undo
<1>4. /\ sends[n].st = "unsettled" /\ sends' = S /\ attempts' = A
      /\ UNCHANGED <<lastId, sendsIssued, now>>
  BY <1>1, <1>2 DEF Code!Undo, Says
<1>5. S \in [Code!Sends -> CodeSend] /\ SendsFit(S, sendsIssued, attempts, lastId)
      /\ S[n].st = "undone" /\ (\A o \in Code!Sends \ {n} : S[o] = sends[o])
      /\ (\A o \in Code!Sends : S[o].unlock = sends[o].unlock)
  BY <1>1, <1>4, SendStaysFit
<1>6. /\ A \in [Code!Rows -> CodeRow]
      /\ \A i \in Code!Rows : i \notin Code!UndoneRows(n) => A[i] = attempts[i]
      /\ \A i \in Code!Rows : i \in Code!UndoneRows(n) => A[i].kind # "ROW"
      /\ \A i \in Code!Rows : Code!IsStart(i) /\ i \in Code!UndoneRows(n) => i = sends[n].unlock
      /\ \A i, j \in Code!Rows : i \notin Code!UndoneRows(n) /\ j \in Code!UndoneRows(n) /\ j <= i
              => StartIn(attempts, j, i)
  BY <1>2, <1>4, UndoTells
<1>7. SendsFit(S, sendsIssued, A, lastId)
  <2>1. ASSUME NEW o \in Code!Sends, o <= sendsIssued, S[o].st # "undone"
        PROVE  A[S[o].unlock].kind = "ROW" /\ A[S[o].unlock].ok
    <3>1. o # n /\ S[o] = sends[o] /\ sends[o].st # "none"
      BY <1>5, <2>1 DEF CodeInv, SendsFit
    <3>2. sends[o].unlock \in Code!Rows /\ Code!IsStart(sends[o].unlock)
          /\ sends[o].unlock # sends[n].unlock
      BY <1>4, <2>1, <3>1, SendTells
    <3>3. A[sends[o].unlock] = attempts[sends[o].unlock]
      BY <1>6, <3>2
    <3> QED
      BY <3>1, <3>2, <3>3 DEF Code!IsStart, Code!Kept
  <2> QED
    BY <1>5, <2>1 DEF SendsFit
<1>8. ASSUME NEW i \in Code!Rows, A[i].kind = "ROW"
      PROVE  i <= lastId /\ CountsUp(A, i)
  <2>1. i \notin Code!UndoneRows(n) /\ A[i] = attempts[i] /\ i <= lastId /\ CountsUp(attempts, i)
    BY <1>6, <1>8, CodeTells
  <2>2. ASSUME NEW k \in 1 .. A[i].failed
        PROVE  \E j \in Code!Rows : j <= i /\ A[j].kind = "ROW" /\ A[j].failed = k
                 /\ ~StartIn(A, j, i)
    <3>1. PICK j \in Code!Rows : /\ j <= i /\ attempts[j].kind = "ROW" /\ attempts[j].failed = k
                                 /\ ~StartIn(attempts, j, i)
      BY <2>1, <2>2 DEF CountsUp
    <3>2. j \notin Code!UndoneRows(n) /\ A[j] = attempts[j]
      BY <1>6, <2>1, <3>1
    <3>3. ~StartIn(A, j, i)
      BY <1>6, <3>1 DEF StartIn
    <3> QED
      BY <3>1, <3>2, <3>3
  <2> QED
    BY <2>1, <2>2 DEF CountsUp
<1>9. back \in 0 .. MaxSends /\ (back # Code!None => back \in Code!Sends /\ back # n
                                               /\ sends[back].st \notin {"none", "undone"})
  <2>1. sends[n].closed < n /\ n \in Nat
    BY <1>4, SendTells, CodeTells
  <2> QED
    BY <1>3, <2>1, CodeConstants DEF Code!Invitations, Code!None, Code!Sends
<1>10. L \in [Records -> 0..MaxSends]
         /\ \A r \in Records : L[r] = IF link[r] = n THEN back ELSE link[r]
  BY <1>3, <1>9, CodeTells
<1>11. LinksFit(L, S)
  BY <1>5, <1>9, <1>10, CodeTells DEF LinksFit
<1> QED
  BY <1>3, <1>4, <1>5, <1>6, <1>7, <1>8, <1>10, <1>11 DEF CodeInv, CodeTyped, RowsCount

LEMMA CodeInit ==
  ASSUME Code!Init
  PROVE  CodeInv
<1>1. Code!NoRow \in CodeRow /\ Code!NoRow.kind # "ROW"
  BY DEF Code!NoRow, CodeRow
<1>2. Code!NoSend \in CodeSend /\ Code!NoSend.st = "none"
  BY CodeConstants DEF Code!NoSend, CodeSend, Code!None
<1>3. CodeTyped
  BY <1>1, <1>2, CodeConstants DEF Code!Init, CodeTyped, Code!None
<1>4. RowsCount(attempts, lastId)
  BY <1>1 DEF Code!Init, RowsCount
<1>5. SendsFit(sends, sendsIssued, attempts, lastId)
  BY <1>2, CodeConstants DEF Code!Init, SendsFit, Code!Sends
<1> QED
  BY <1>3, <1>4, <1>5 DEF Code!Init, CodeInv, LinksFit

LEMMA CodeNext ==
  ASSUME CodeInv, [Code!Next]_codeSide
  PROVE  CodeInv'
<1>1. CASE Code!Tick
  BY <1>1, CodeTells DEF Code!Tick, CodeInv, CodeTyped
<1>2. CASE UNCHANGED codeSide
  BY <1>2 DEF codeSide, CodeInv, CodeTyped
<1> QED
  BY <1>1, <1>2, EnterKeeps, SendKeeps, SettleKeeps, UndoKeeps, AnswerKeeps, CloseLinkKeeps
     DEF Code!Next

\* The last start is at or after the row of a live invitation, so that all failures that
\* lock were entered since.
LEMMA CodesWork ==
  ASSUME CodeInv
  PROVE  Code!ReceivedCodeWorks
<1>1. ASSUME NEW n \in Code!LiveLinks, Code!IsLocked(Code!State), NEW k \in 1..MaxFailed
      PROVE  \E i \in Code!Rows : i > sends[n].unlock /\ Code!Kept(i) /\ attempts[i].failed = k
  <2>1. n \in Code!Sends /\ sends[n].st \notin {"none", "undone"}
    BY <1>1, CodeTells DEF Code!LiveLinks, LinksFit, Code!None, Code!Sends
  <2>2. PICK u : u = sends[n].unlock
    OBVIOUS
  <2>3. u \in Code!Rows /\ u \in Nat /\ Code!IsStart(u)
    BY <2>1, <2>2, SendTells
  <2>4. Code!State.until > now
    BY <1>1 DEF Code!IsLocked
  <2>5. PICK l \in Code!Rows : Code!Kept(l)
          /\ (\A j \in Code!Rows : Code!Kept(j) => j <= l) /\ Code!State = attempts[l]
    BY <2>3, StateIsLast DEF Code!IsStart
  <2>6. k \in 1 .. attempts[l].failed
    BY <1>1, <2>4, <2>5, StateTells, CodeTells, CodeConstants
  <2>7. PICK j \in Code!Rows : /\ j <= l /\ attempts[j].kind = "ROW" /\ attempts[j].failed = k
                               /\ ~StartIn(attempts, j, l)
    BY <2>5, <2>6, CodeTells DEF CountsUp, Code!Kept
  <2>8. j # u
    <3>1. attempts[u].failed = 0 /\ k # 0
      BY <1>1, <2>3, CodeTells DEF Code!IsStart, Code!Kept, CountsUp
    <3> QED
      BY <2>7, <3>1
  <2>9. ~(j < u)
    BY <2>3, <2>5, <2>7 DEF StartIn, Code!IsStart, Code!Kept
  <2> QED
    BY <2>2, <2>3, <2>7, <2>8, <2>9, CodeTells DEF Code!Kept
<1> QED
  BY <1>1 DEF Code!ReceivedCodeWorks

-----------------------------------------------------------------------------
(* The counts that the rows stand for                                      *)

StartsOf(A) == {0} \union {i \in Code!Rows : A[i].kind = "ROW" /\ A[i].ok}
MineOf(A, start, last) ==
    {i \in start..last : /\ i # 0 /\ A[i].kind = "ROW"
                         /\ ~\E j \in (start + 1)..i : A[j].kind = "ROW" /\ A[j].ok}
CountOf(A, start, last) ==
    LET mine == MineOf(A, start, last)
        newest == A[CHOOSE i \in mine : \A j \in mine : j <= i]
    IN  IF mine = {} THEN [failed |-> 0, until |-> 0]
        ELSE [failed |-> newest.failed, until |-> newest.until]
CountsOf(A, last) == [start \in StartsOf(A) |-> CountOf(A, start, last)]

LEMMA CountsAreOf == Code!Counts = CountsOf(attempts, lastId)
BY DEF Code!Counts, CountsOf, Code!CountFrom, CountOf, MineOf, StartsOf, Code!IsStart,
   Code!Kept

LEMMA NextCountsAreOf == Code!Counts' = CountsOf(attempts', lastId')
BY DEF Code!Counts, CountsOf, Code!CountFrom, CountOf, MineOf, StartsOf, Code!IsStart,
   Code!Kept

LEMMA MineTells ==
  ASSUME NEW A, NEW start \in Nat, NEW last \in Nat, last <= MaxRows, NEW i
  PROVE  i \in MineOf(A, start, last) <=>
           i \in Code!Rows /\ start <= i /\ i <= last /\ A[i].kind = "ROW"
             /\ ~StartIn(A, start, i)
<1>1. ASSUME i \in Code!Rows, i <= last
      PROVE  StartIn(A, start, i) <=> \E j \in (start + 1)..i : A[j].kind = "ROW" /\ A[j].ok
  BY <1>1, CodeConstants DEF StartIn, Code!Rows
<1>2. i \in start..last /\ i # 0 <=> i \in Code!Rows /\ start <= i /\ i <= last
  BY CodeConstants DEF Code!Rows
<1> QED
  BY <1>1, <1>2 DEF MineOf

LEMMA CountIsLast ==
  ASSUME NEW A, NEW start \in Nat, NEW last \in Nat, NEW l \in MineOf(A, start, last),
         \A j \in MineOf(A, start, last) : j <= l
  PROVE  CountOf(A, start, last) = [failed |-> A[l].failed, until |-> A[l].until]
<1>1. PICK mine, c : /\ mine = MineOf(A, start, last)
                     /\ c = CHOOSE i \in mine : \A j \in mine : j <= i
  OBVIOUS
<1>2. mine \subseteq Nat
  BY <1>1 DEF MineOf
<1>3. c \in mine /\ \A j \in mine : j <= c
  BY <1>1
<1>4. c = l
  <2>1. c \in Nat /\ l \in Nat /\ c <= l /\ l <= c
    BY <1>1, <1>2, <1>3
  <2> QED
    BY <2>1
<1>5. CountOf(A, start, last) = IF mine = {} THEN [failed |-> 0, until |-> 0]
                                ELSE [failed |-> A[c].failed, until |-> A[c].until]
  BY <1>1 DEF CountOf
<1> QED
  BY <1>1, <1>4, <1>5

LEMMA CountIsClear ==
  ASSUME NEW A, NEW start, NEW last, MineOf(A, start, last) = {}
  PROVE  CountOf(A, start, last) = [failed |-> 0, until |-> 0]
BY DEF CountOf

\* Rows that are alike since a start count alike.
LEMMA CountsAlike ==
  ASSUME NEW A, NEW B, NEW start \in Nat, NEW last \in Nat, NEW end \in Nat,
         last <= MaxRows, end <= MaxRows,
         MineOf(A, start, last) = MineOf(B, start, end),
         \A i \in MineOf(A, start, last) : A[i] = B[i]
  PROVE  CountOf(A, start, last) = CountOf(B, start, end)
<1>1. CASE MineOf(A, start, last) = {}
  BY <1>1, CountIsClear
<1>2. CASE MineOf(A, start, last) # {}
  <2>1. MineOf(A, start, last) \subseteq 0 .. last
    BY DEF MineOf
  <2>2. PICK l \in MineOf(A, start, last) : \A j \in MineOf(A, start, last) : j <= l
    BY <1>2, <2>1, LastExists
  <2>3. CountOf(A, start, last) = [failed |-> A[l].failed, until |-> A[l].until]
    BY <2>2, CountIsLast
  <2>4. CountOf(B, start, end) = [failed |-> B[l].failed, until |-> B[l].until]
    BY <2>2, CountIsLast
  <2> QED
    BY <2>2, <2>3, <2>4
<1> QED
  BY <1>1, <1>2

\* The newest start, and the count that is in force: the state.
LEMMA NewestTells ==
  ASSUME CodeInv
  PROVE  /\ Code!Throttle!Newest \in StartsOf(attempts) /\ Code!Throttle!Newest \in Nat
         /\ \A s \in StartsOf(attempts) : s <= Code!Throttle!Newest
         /\ \A s \in StartsOf(attempts) : s \in Nat /\ s <= lastId
         /\ Code!Counts[Code!Throttle!Newest] = [failed |-> Code!State.failed,
              until |-> Code!State.until]
         /\ DOMAIN Code!Counts = StartsOf(attempts)
<1>1. \A s \in StartsOf(attempts) : s \in Nat /\ s <= lastId /\ s \in 0 .. MaxRows
  BY CodeTells, CodeConstants DEF StartsOf, Code!Rows
<1>2. PICK n \in StartsOf(attempts) : \A s \in StartsOf(attempts) : s <= n
  <2>1. StartsOf(attempts) \subseteq 0 .. MaxRows /\ StartsOf(attempts) # {}
    BY <1>1 DEF StartsOf
  <2> QED
    BY <2>1, LastExists, CodeConstants
<1>3. DOMAIN Code!Counts = StartsOf(attempts)
  BY CountsAreOf DEF CountsOf
<1>4. Code!Throttle!Newest = n
  <2>1. PICK c : c = CHOOSE s \in StartsOf(attempts) : \A o \in StartsOf(attempts) : o <= s
    OBVIOUS
  <2>2. Code!Throttle!Newest = c
    BY <1>3, <2>1 DEF Code!Throttle!Newest
  <2>3. c \in StartsOf(attempts) /\ \A o \in StartsOf(attempts) : o <= c
    BY <1>2, <2>1
  <2>4. c \in Nat /\ n \in Nat /\ c <= n /\ n <= c
    BY <1>1, <1>2, <2>3
  <2> QED
    BY <2>2, <2>4
<1>5. Code!Counts[n] = CountOf(attempts, n, lastId)
  BY <1>2, CountsAreOf DEF CountsOf
<1>6. CountOf(attempts, n, lastId) = [failed |-> Code!State.failed, until |-> Code!State.until]
  <2>0. n \in Nat /\ lastId \in Nat /\ lastId <= MaxRows
    BY <1>1, <1>2, CodeTells
  <2>1. CASE (\A i \in Code!Rows : ~Code!Kept(i)) /\ Code!State = Code!NoRow
    <3>1. MineOf(attempts, n, lastId) = {}
      BY <2>0, <2>1, MineTells DEF Code!Kept
    <3> QED
      BY <2>1, <3>1, CountIsClear DEF Code!NoRow
  <2>2. ASSUME NEW l \in Code!Rows, Code!Kept(l), \A j \in Code!Rows : Code!Kept(j) =>
               j <= l, Code!State = attempts[l]
        PROVE  CountOf(attempts, n, lastId) = [failed |-> Code!State.failed,
                 until |-> Code!State.until]
    <3>1. n <= l
      BY <1>2, <2>2, CodeTells DEF StartsOf, Code!Kept
    <3>2. ~StartIn(attempts, n, l)
      <4>1. ASSUME NEW x \in Code!Rows, n < x, attempts[x].kind = "ROW" /\ attempts[x].ok
            PROVE  FALSE
        <5>1. x \in StartsOf(attempts)
          BY <4>1 DEF StartsOf
        <5>2. x <= n /\ x \in Nat
          BY <1>1, <1>2, <5>1
        <5> QED
          BY <2>0, <4>1, <5>2
      <4> QED
        BY <4>1 DEF StartIn
    <3>3. l \in MineOf(attempts, n, lastId)
      BY <2>0, <2>2, <3>1, <3>2, MineTells, CodeTells DEF Code!Kept
    <3>4. \A j \in MineOf(attempts, n, lastId) : j <= l
      BY <2>0, <2>2, MineTells DEF Code!Kept
    <3> QED
      BY <2>0, <2>2, <3>3, <3>4, CountIsLast
  <2> QED
    BY <2>1, <2>2, StateIsLast
<1> QED
  BY <1>1, <1>2, <1>3, <1>4, <1>5, <1>6

LEMMA LocksAreShut ==
  ASSUME CodeInv
  PROVE  Code!Throttle!Shut(Code!Counts[Code!Throttle!Newest]) <=> Code!IsLocked(Code!State)
BY NewestTells DEF Code!Throttle!Shut, Code!IsLocked

\* A row more: the count in force goes on, or a new one is begun.
LEMMA RecordCounts ==
  ASSUME CodeInv, NEW A, NEW last \in Nat, last = lastId + 1, last \in Code!Rows,
         \A i \in Code!Rows \ {last} : A[i] = attempts[i], A[last].kind = "ROW"
  PROVE  /\ \A s \in StartsOf(attempts) :
              s # Code!Throttle!Newest \/ A[last].ok
                => CountOf(A, s, last) = CountOf(attempts, s, lastId)
         /\ CountOf(A, IF A[last].ok THEN last ELSE Code!Throttle!Newest, last)
              = [failed |-> A[last].failed, until |-> A[last].until]
         /\ A[last].ok => StartsOf(A) = StartsOf(attempts) \union {last}
         /\ ~A[last].ok => StartsOf(A) = StartsOf(attempts)
<1>1. /\ lastId \in Nat /\ lastId <= MaxRows /\ last <= MaxRows /\ lastId < last
      /\ attempts[last].kind # "ROW" /\ \A i \in Code!Rows : attempts[i].kind = "ROW" =>
           i <= lastId
  BY CodeTells, CodeConstants DEF Code!Rows
<1>2. PICK n : n = Code!Throttle!Newest
  OBVIOUS
<1>3. /\ n \in StartsOf(attempts) /\ n \in Nat /\ n <= lastId
      /\ \A s \in StartsOf(attempts) : s <= n /\ s \in Nat /\ s <= lastId
  BY <1>2, NewestTells
<1>4. ASSUME NEW s \in StartsOf(attempts), s # n \/ A[last].ok
      PROVE  CountOf(A, s, last) = CountOf(attempts, s, lastId)
  <2>1. s \in Nat /\ s <= n
    BY <1>3
  <2>2. StartIn(A, s, last)
    <3>1. CASE A[last].ok
      BY <1>1, <1>3, <2>1, <3>1 DEF StartIn
    <3>2. CASE s # n
      <4>1. n \in Code!Rows /\ attempts[n].kind = "ROW" /\ attempts[n].ok /\ s < n
        BY <1>3, <1>4, <2>1, <3>2 DEF StartsOf
      <4>2. n <= last /\ A[n] = attempts[n]
        BY <1>1, <1>3, <4>1
      <4> QED
        BY <4>1, <4>2 DEF StartIn
    <3> QED
      BY <1>4, <3>1, <3>2
  <2>3. ASSUME NEW i \in Code!Rows, i # last, i <= lastId
        PROVE  StartIn(A, s, i) <=> StartIn(attempts, s, i)
    BY <1>1, <2>3, CodeTells DEF StartIn
  <2>4. ASSUME NEW i
        PROVE  i \in MineOf(A, s, last) <=> i \in MineOf(attempts, s, lastId)
    <3>1. CASE i = last
      BY <1>1, <2>1, <2>2, <3>1, MineTells
    <3>2. CASE i \notin Code!Rows
      BY <1>1, <2>1, <3>2, MineTells
    <3>3. CASE i \in Code!Rows /\ i # last
      <4>1. A[i] = attempts[i] /\ i \in Nat /\ (i <= last <=> i <= lastId)
        BY <1>1, <3>3, CodeTells
      <4> QED
        BY <1>1, <2>1, <2>3, <3>3, <4>1, MineTells
    <3> QED
      BY <3>1, <3>2, <3>3
  <2>5. MineOf(A, s, last) = MineOf(attempts, s, lastId)
    BY <2>4
  <2>6. \A i \in MineOf(A, s, last) : A[i] = attempts[i]
    <3>1. ASSUME NEW i \in MineOf(attempts, s, lastId)
          PROVE  A[i] = attempts[i]
      <4>1. i \in Code!Rows /\ i <= lastId
        BY <1>1, <2>1, <3>1, MineTells
      <4>2. i # last
        BY <1>1, <4>1
      <4> QED
        BY <4>1, <4>2
    <3> QED
      BY <2>5, <3>1
  <2> QED
    BY <1>1, <2>1, <2>5, <2>6, CountsAlike
<1>5. PICK e : e = IF A[last].ok THEN last ELSE n
  OBVIOUS
<1>6. e \in Nat /\ e <= last
  BY <1>1, <1>3, <1>5
<1>7. last \in MineOf(A, e, last)
  <2>1. ~StartIn(A, e, last)
    <3>1. ASSUME NEW x \in Code!Rows, e < x, x <= last, A[x].kind = "ROW" /\ A[x].ok
          PROVE  FALSE
      <4>1. CASE A[last].ok
        BY <1>5, <3>1, <4>1, CodeTells
      <4>2. CASE ~A[last].ok
        <5>1. x # last /\ attempts[x].kind = "ROW" /\ attempts[x].ok
          BY <3>1, <4>2
        <5>2. x <= n
          BY <1>3, <5>1 DEF StartsOf
        <5> QED
          BY <1>3, <1>5, <3>1, <4>2, <5>2, CodeTells
      <4> QED
        BY <4>1, <4>2
    <3> QED
      BY <3>1 DEF StartIn
  <2> QED
    BY <1>1, <1>6, <2>1, MineTells
<1>8. \A j \in MineOf(A, e, last) : j <= last
  BY <1>1, <1>6, MineTells
<1>9. CountOf(A, e, last) = [failed |-> A[last].failed, until |-> A[last].until]
  BY <1>6, <1>7, <1>8, CountIsLast
<1>10. /\ A[last].ok => StartsOf(A) = StartsOf(attempts) \union {last}
       /\ ~A[last].ok => StartsOf(A) = StartsOf(attempts)
  BY <1>1 DEF StartsOf
<1> QED
  BY <1>2, <1>4, <1>5, <1>9, <1>10

-----------------------------------------------------------------------------
(* Each step as one of the throttle                                        *)

Unlocks == {sends[n].unlock : n \in 1..sendsIssued}
ThrottleStep == Code!Throttle!ThrottleNext \/ UNCHANGED Code!Throttle!throttleVars

\* The rows, the sends' rows and the clock stay.
LEMMA StaysAsItIs ==
  ASSUME CodeInv, UNCHANGED <<attempts, lastId, sendsIssued, now>>,
         \A n \in Code!Sends : sends'[n].unlock = sends[n].unlock
  PROVE  ThrottleStep
<1>1. CountsOf(attempts', lastId') = CountsOf(attempts, lastId)
  OBVIOUS
<1>2. Code!Counts' = Code!Counts
  BY <1>1, CountsAreOf, NextCountsAreOf
<1>3. 1..sendsIssued \subseteq Code!Sends
  BY CodeTells, CodeConstants DEF Code!Sends
<1>4. {sends'[n].unlock : n \in 1..sendsIssued'} = {sends[n].unlock : n \in 1..sendsIssued}
  BY <1>3
<1> QED
  BY <1>2, <1>4 DEF ThrottleStep, Code!Throttle!throttleVars

\* What the rows count after one more.
LEMMA RecordSteps ==
  ASSUME CodeInv, NEW ok \in BOOLEAN, NEW state, Code!Record(ok, state),
         state.failed \in Nat, state.until \in Nat,
         ok => state.failed = 0 /\ state.until = 0,
         state.until # 0 => state.failed >= MaxFailed,
         state.failed = 0 \/ state.failed \in {Code!State.failed, Code!State.failed + 1}
           \/ state.failed = 1
  PROVE  /\ ~ok => Code!Counts' = [Code!Counts EXCEPT ![Code!Throttle!Newest] =
                                     [failed |-> state.failed, until |-> state.until]]
         /\ ok => /\ Code!Counts' =
                       [i \in DOMAIN Code!Counts \union {lastId + 1} |->
                          IF i = lastId + 1 THEN Code!Throttle!Clear ELSE Code!Counts[i]]
                  /\ lastId + 1 \in DOMAIN Code!Counts' \ DOMAIN Code!Counts
                  /\ \A s \in DOMAIN Code!Counts : s < lastId + 1
<1>1. PICK A \in [Code!Rows -> CodeRow], last \in 0 .. MaxRows :
           /\ attempts' = A /\ lastId' = last /\ last = lastId + 1 /\ last \in Code!Rows
           /\ A[last] = [kind |-> "ROW", ok |-> ok, failed |-> state.failed,
                until |-> state.until]
           /\ \A i \in Code!Rows \ {last} : A[i] = attempts[i]
           /\ attempts[last].kind # "ROW"
           /\ RowsCount(A, last)
  BY RecordTells
<1>2. last \in Nat /\ A[last].kind = "ROW" /\ A[last].ok = ok
      /\ A[last].failed = state.failed /\ A[last].until = state.until
  BY <1>1, CodeConstants
<1>3. PICK n : n = Code!Throttle!Newest
  OBVIOUS
<1>4. /\ \A s \in StartsOf(attempts) :
              s # n \/ ok => CountOf(A, s, last) = CountOf(attempts, s, lastId)
      /\ CountOf(A, IF ok THEN last ELSE n, last) = [failed |-> state.failed,
           until |-> state.until]
      /\ ok => StartsOf(A) = StartsOf(attempts) \union {last}
      /\ ~ok => StartsOf(A) = StartsOf(attempts)
  <2>1. PICK row : row = A[last]
    OBVIOUS
  <2>2. /\ \A s \in StartsOf(attempts) :
              s # n \/ row.ok => CountOf(A, s, last) = CountOf(attempts, s, lastId)
        /\ CountOf(A, IF row.ok THEN last ELSE n, last) = [failed |-> row.failed,
             until |-> row.until]
        /\ row.ok => StartsOf(A) = StartsOf(attempts) \union {last}
        /\ ~row.ok => StartsOf(A) = StartsOf(attempts)
    BY ONLY CodeInv, <1>1, <1>2, <1>3, <2>1, RecordCounts
  <2>3. row.ok = ok /\ row.failed = state.failed /\ row.until = state.until
    BY <1>2, <2>1
  <2> QED
    BY ONLY <2>2, <2>3
<1>5. Code!Counts = CountsOf(attempts, lastId) /\ Code!Counts' = CountsOf(A, last)
  BY <1>1, CountsAreOf, NextCountsAreOf
<1>6. /\ DOMAIN Code!Counts = StartsOf(attempts) /\ n \in StartsOf(attempts)
      /\ \A s \in StartsOf(attempts) : s \in Nat /\ s <= lastId
  BY <1>3, NewestTells
<1>7. \A s \in StartsOf(attempts) : Code!Counts[s] = CountOf(attempts, s, lastId)
        /\ s < last /\ s # last
  BY <1>1, <1>5, <1>6, CodeTells DEF CountsOf
<1>8. PICK new : new = [failed |-> state.failed, until |-> state.until]
  OBVIOUS
<1>9. CASE ~ok
  <2>1. CountsOf(A, last) = [s \in StartsOf(attempts) |-> IF s = n THEN new ELSE Code!Counts[s]]
    <3>1. \A s \in StartsOf(attempts) : CountOf(A, s,
            last) = IF s = n THEN new ELSE Code!Counts[s]
      BY <1>4, <1>7, <1>8, <1>9
    <3>2. StartsOf(A) = StartsOf(attempts)
      BY <1>4, <1>9
    <3> QED
      BY <3>1, <3>2 DEF CountsOf
  <2>2. [Code!Counts EXCEPT ![n] = new] = [s \in StartsOf(attempts) |-> IF s =
          n THEN new ELSE Code!Counts[s]]
    BY <1>5, <1>6 DEF CountsOf
  <2>3. Code!Counts' = [Code!Counts EXCEPT ![n] = new]
    BY <1>5, <2>1, <2>2
  <2> QED
    BY <1>3, <1>8, <1>9, <2>3
<1>10. CASE ok
  <2>1. new = Code!Throttle!Clear
    BY <1>8, <1>10 DEF Code!Throttle!Clear
  <2>2. CountsOf(A, last) = [s \in StartsOf(attempts) \union {last} |->
                               IF s = last THEN Code!Throttle!Clear ELSE Code!Counts[s]]
    <3>1. \A s \in StartsOf(attempts) \union {last} :
             CountOf(A, s, last) = IF s = last THEN Code!Throttle!Clear ELSE Code!Counts[s]
      BY <1>4, <1>7, <1>8, <1>10, <2>1
    <3>2. StartsOf(A) = StartsOf(attempts) \union {last}
      BY <1>4, <1>10
    <3> QED
      BY <3>1, <3>2 DEF CountsOf
  <2>3. Code!Counts' = [s \in DOMAIN Code!Counts \union {last} |->
                          IF s = last THEN Code!Throttle!Clear ELSE Code!Counts[s]]
    BY <1>5, <1>6, <2>2
  <2>4. last \in DOMAIN Code!Counts' \ DOMAIN Code!Counts
    BY <1>6, <1>7, <2>3
  <2> QED
    BY <1>1, <1>6, <1>7, <1>10, <2>3, <2>4
<1> QED
  BY <1>9, <1>10

LEMMA EnterIsThrottled ==
  ASSUME CodeInv, Code!EnterLocked \/ Code!EnterLive \/ Code!EnterEnded \/ Code!EnterWrong
  PROVE  ThrottleStep
<1>1. UNCHANGED <<sends, sendsIssued, now>>
  BY DEF Code!EnterLocked, Code!EnterLive, Code!EnterEnded, Code!EnterWrong
<1>2. Unlocks = {sends'[n].unlock : n \in 1..sendsIssued'}
  BY <1>1 DEF Unlocks
<1>3. PICK n : n = Code!Throttle!Newest
  OBVIOUS
<1>4. Code!Counts[n] = [failed |-> Code!State.failed, until |-> Code!State.until]
        /\ n \in DOMAIN Code!Counts
  BY <1>3, NewestTells
<1>5. CASE Code!EnterLocked \/ Code!EnterEnded
  <2>1. Code!Record(FALSE, Code!State)
    BY <1>5 DEF Code!EnterLocked, Code!EnterEnded
  <2>2. Code!Counts' = [Code!Counts EXCEPT ![n] = [failed |-> Code!State.failed,
          until |-> Code!State.until]]
    BY <1>3, <2>1, StateTells, RecordSteps
  <2>3. Code!Counts' = Code!Counts
    BY <1>4, <2>2 DEF Code!Counts
  <2> QED
    BY <1>1, <2>3 DEF ThrottleStep, Code!Throttle!throttleVars
<1>6. CASE Code!EnterLive
  <2>1. Code!Record(TRUE, Code!NoRow) /\ ~Code!IsLocked(Code!State)
    BY <1>6 DEF Code!EnterLive
  <2>2. PICK state, ok : state = Code!NoRow /\ ok = TRUE
    OBVIOUS
  <2>3. /\ state.failed = 0 /\ state.until = 0 /\ ok \in BOOLEAN /\ Code!Record(ok, state)
        /\ state.failed \in Nat /\ state.until \in Nat
    BY <2>1, <2>2 DEF Code!NoRow
  <2>4. PICK last : last = lastId + 1
    OBVIOUS
  <2>5. /\ Code!Counts' = [i \in DOMAIN Code!Counts \union {last} |->
                             IF i = last THEN Code!Throttle!Clear ELSE Code!Counts[i]]
        /\ last \in DOMAIN Code!Counts' \ DOMAIN Code!Counts
             /\ \A s \in DOMAIN Code!Counts : s < last
    BY <2>2, <2>3, <2>4, RecordSteps
  <2>6. ~Code!Throttle!Shut(Code!Counts[Code!Throttle!Newest])
    BY <2>1, LocksAreShut
  <2>7. Code!Throttle!RightCode(last)
    BY <1>1, <2>5, <2>6 DEF Code!Throttle!RightCode, Code!Throttle!StartAnew
  <2> QED
    BY <2>5, <2>7 DEF ThrottleStep, Code!Throttle!ThrottleNext
<1>7. CASE Code!EnterWrong
  <2>1. Code!Record(FALSE, Code!RegisterFailure(Code!State)) /\ ~Code!IsLocked(Code!State)
    BY <1>7 DEF Code!EnterWrong
  <2>2. PICK state : state = Code!RegisterFailure(Code!State)
    OBVIOUS
  <2>3. /\ state.failed = (IF Code!State.until = 0 THEN Code!State.failed ELSE 0) + 1
        /\ state.until = IF state.failed >= MaxFailed THEN now + LockTime ELSE 0
    BY <2>1, <2>2, FailureTells
  <2>4. /\ state.failed \in Nat /\ state.until \in Nat
        /\ state.until # 0 => state.failed >= MaxFailed
        /\ state.failed \in {Code!State.failed + 1, 1}
    BY <2>3, StateTells, CodeTells, CodeConstants
  <2>5. Code!Counts' = [Code!Counts EXCEPT ![n] = [failed |-> state.failed,
          until |-> state.until]]
    BY <1>3, <2>1, <2>2, <2>4, RecordSteps
  <2>6. Code!Throttle!OneMore(Code!Counts[n]) = [failed |-> state.failed, until |-> state.until]
    BY <1>4, <2>3 DEF Code!Throttle!OneMore
  <2>7. ~Code!Throttle!Shut(Code!Counts[n])
    BY <1>3, <2>1, LocksAreShut
  <2>8. Code!Throttle!WrongCode
    BY <1>1, <1>3, <2>5, <2>6, <2>7 DEF Code!Throttle!WrongCode
  <2> QED
    BY <2>8 DEF ThrottleStep, Code!Throttle!ThrottleNext
<1> QED
  BY <1>5, <1>6, <1>7

LEMMA SendIsThrottled ==
  ASSUME CodeInv, NEW r \in Records, Code!Send(r)
  PROVE  ThrottleStep
<1>1. PICK m, last : m = sendsIssued + 1 /\ last = lastId + 1
  OBVIOUS
<1>2. /\ sendsIssued' = m /\ Code!Record(TRUE, Code!NoRow) /\ UNCHANGED now
      /\ sends' = [sends EXCEPT ![m] = [st |-> "unsettled", unlock |-> last, closed |-> link[r]]]
  BY <1>1 DEF Code!Send
<1>0. m \in Code!Sends
  BY <1>1, CodeTells, CodeConstants DEF Code!Send, Code!Sends
<1>3. PICK state, ok : state = Code!NoRow /\ ok = TRUE
  OBVIOUS
<1>4. /\ state.failed = 0 /\ state.until = 0 /\ ok \in BOOLEAN /\ Code!Record(ok, state)
      /\ state.failed \in Nat /\ state.until \in Nat
  BY <1>2, <1>3 DEF Code!NoRow
<1>5. /\ Code!Counts' = [i \in DOMAIN Code!Counts \union {last} |->
                           IF i = last THEN Code!Throttle!Clear ELSE Code!Counts[i]]
      /\ last \in DOMAIN Code!Counts' \ DOMAIN Code!Counts
           /\ \A s \in DOMAIN Code!Counts : s < last
  BY <1>1, <1>3, <1>4, RecordSteps
<1>6. {sends'[n].unlock : n \in 1..sendsIssued'} =
        {sends[n].unlock : n \in 1..sendsIssued} \union {last}
  <2>0. sendsIssued \in Nat /\ DOMAIN sends = Code!Sends
    BY CodeTells
  <2>1. 1..m = (1..sendsIssued) \union {m} /\ m \notin 1..sendsIssued /\ m \in DOMAIN sends
    BY ONLY <2>0, <1>0, <1>1
  <2>2. sends'[m].unlock = last /\ \A n \in 1..sendsIssued : sends'[n] = sends[n]
    BY <1>2, <2>1
  <2> QED
    BY <1>2, <2>1, <2>2
<1>7. Code!Throttle!Unlock(last)
  BY <1>2, <1>5, <1>6 DEF Code!Throttle!Unlock, Code!Throttle!StartAnew
<1> QED
  BY <1>5, <1>7 DEF ThrottleStep, Code!Throttle!ThrottleNext

\* Undoing a send leaves the rows of every other start.
LEMMA UndoKeepsOthers ==
  ASSUME CodeInv, NEW n \in Code!Sends, sends[n].st = "unsettled", NEW A,
         A = [i \in Code!Rows |-> IF i \in Code!UndoneRows(n) THEN Code!NoRow ELSE attempts[i]]
  PROVE  /\ StartsOf(A) = StartsOf(attempts) \ {sends[n].unlock}
         /\ \A s \in StartsOf(A) : CountOf(A, s, lastId) = CountOf(attempts, s, lastId)
<1>1. PICK u : u = sends[n].unlock
  OBVIOUS
<1>2. /\ Code!IsStart(u) /\ u \in Code!Rows /\ u \in Code!UndoneRows(n) /\ u \in Nat
      /\ \A i \in Code!Rows : i \notin Code!UndoneRows(n) => A[i] = attempts[i]
      /\ \A i \in Code!Rows : i \in Code!UndoneRows(n) => A[i].kind # "ROW"
      /\ \A i \in Code!Rows : i \in Code!UndoneRows(n) <=> i >= u /\ ~StartIn(attempts, u, i)
      /\ \A i \in Code!Rows : Code!IsStart(i) /\ i \in Code!UndoneRows(n) => i = u
      /\ \A i, j \in Code!Rows : i \notin Code!UndoneRows(n) /\ j \in Code!UndoneRows(n) /\ j <= i
           => StartIn(attempts, j, i)
  BY <1>1, UndoTells, CodeTells
<1>3. lastId \in Nat /\ lastId <= MaxRows /\ \A i \in Code!Rows : i \in Nat /\ i # 0
  BY CodeTells DEF Code!Rows
<1>4. \A x \in Code!Rows : (A[x].kind = "ROW" /\ A[x].ok)
                             <=> (attempts[x].kind = "ROW" /\ attempts[x].ok /\ x # u)
  BY <1>2 DEF Code!IsStart, Code!Kept
<1>5. StartsOf(A) = StartsOf(attempts) \ {u}
  BY <1>2, <1>3, <1>4 DEF StartsOf
<1>6. ASSUME NEW s \in StartsOf(A)
      PROVE  CountOf(A, s, lastId) = CountOf(attempts, s, lastId)
  <2>1. s \in Nat /\ s # u /\ s \in StartsOf(attempts)
    BY <1>3, <1>5 DEF StartsOf
  <2>2. ASSUME NEW i \in Code!Rows, i \in Code!UndoneRows(n), s <= i
        PROVE  StartIn(attempts, s, i)
    <3>1. u <= i /\ ~StartIn(attempts, u, i) /\ i \in Nat
      BY <1>2, <1>3, <2>2
    <3>2. CASE s < u
      BY <1>2, <3>1, <3>2 DEF StartIn, Code!IsStart, Code!Kept
    <3>3. CASE u < s
      <4>1. s \in Code!Rows /\ attempts[s].kind = "ROW" /\ attempts[s].ok
        BY <1>2, <2>1, <3>3 DEF StartsOf
      <4> QED
        BY <2>2, <3>1, <3>3, <4>1 DEF StartIn
    <3> QED
      BY <1>2, <2>1, <3>2, <3>3
  <2>3. ASSUME NEW i \in Code!Rows, i \notin Code!UndoneRows(n), s <= i
        PROVE  StartIn(A, s, i) <=> StartIn(attempts, s, i)
    <3>1. ASSUME NEW x \in Code!Rows, s < x, x <= i, attempts[x].kind = "ROW", attempts[x].ok
          PROVE  StartIn(A, s, i)
      <4>1. CASE x # u
        BY <1>4, <3>1, <4>1 DEF StartIn
      <4>2. CASE x = u
        <5>1. PICK y \in Code!Rows : u < y /\ y <= i /\ attempts[y].kind = "ROW" /\ attempts[y].ok
          BY <1>2, <2>3, <3>1, <4>2 DEF StartIn
        <5>2. s < y /\ y # u
          BY <1>2, <1>3, <2>1, <3>1, <4>2, <5>1
        <5> QED
          BY <1>4, <5>1, <5>2 DEF StartIn
      <4> QED
        BY <4>1, <4>2
    <3>2. StartIn(A, s, i) => StartIn(attempts, s, i)
      BY <1>4 DEF StartIn
    <3> QED
      BY <3>1, <3>2 DEF StartIn
  <2>4. ASSUME NEW i
        PROVE  i \in MineOf(A, s, lastId) <=> i \in MineOf(attempts, s, lastId)
    <3>1. /\ i \in MineOf(A, s, lastId) <=>
               i \in Code!Rows /\ s <= i /\ i <= lastId /\ A[i].kind = "ROW" /\ ~StartIn(A, s, i)
          /\ i \in MineOf(attempts, s, lastId) <=>
               i \in Code!Rows /\ s <= i /\ i <= lastId /\ attempts[i].kind = "ROW"
                 /\ ~StartIn(attempts, s, i)
      BY <1>3, <2>1, MineTells
    <3> QED
      BY <1>2, <2>2, <2>3, <3>1
  <2>5. MineOf(A, s, lastId) = MineOf(attempts, s, lastId)
    BY <2>4
  <2>6. \A i \in MineOf(A, s, lastId) : A[i] = attempts[i]
    <3>1. ASSUME NEW i \in MineOf(A, s, lastId)
          PROVE  i \in Code!Rows /\ i \notin Code!UndoneRows(n)
      BY <1>2, <1>3, <2>1, MineTells
    <3> QED
      BY <1>2, <3>1
  <2> QED
    BY ONLY <1>3, <2>1, <2>5, <2>6, CountsAlike
<1> QED
  BY <1>1, <1>5, <1>6

LEMMA UndoIsThrottled ==
  ASSUME CodeInv, NEW n \in Code!Sends, Code!Undo(n)
  PROVE  ThrottleStep
<1>1. PICK A, u :
         /\ A = [i \in Code!Rows |-> IF i \in Code!UndoneRows(n) THEN Code!NoRow ELSE attempts[i]]
         /\ u = sends[n].unlock
  OBVIOUS
<1>2. /\ sends[n].st = "unsettled" /\ attempts' = A /\ UNCHANGED <<lastId, sendsIssued, now>>
      /\ sends' = [sends EXCEPT ![n].st = "undone"]
  BY <1>1 DEF Code!Undo
<1>3. /\ StartsOf(A) = StartsOf(attempts) \ {u}
      /\ \A s \in StartsOf(A) : CountOf(A, s, lastId) = CountOf(attempts, s, lastId)
  BY <1>1, <1>2, UndoKeepsOthers
<1>4. u \in StartsOf(attempts)
  BY <1>1, <1>2, SendTells DEF StartsOf, Code!IsStart, Code!Kept
<1>5. Code!Counts = CountsOf(attempts, lastId) /\ Code!Counts' = CountsOf(A, lastId)
  BY <1>2, CountsAreOf, NextCountsAreOf
<1>6. CountsOf(A, lastId) = [s \in StartsOf(attempts) \ {u} |-> CountOf(attempts, s, lastId)]
  BY <1>3 DEF CountsOf
<1>7. DOMAIN Code!Counts = StartsOf(attempts)
      /\ \A s \in StartsOf(attempts) : Code!Counts[s] = CountOf(attempts, s, lastId)
  BY <1>5 DEF CountsOf
<1>8. CountsOf(A, lastId) = [s \in DOMAIN Code!Counts \ {u} |-> Code!Counts[s]]
  BY <1>6, <1>7
<1>9. \A o \in Code!Sends : sends'[o].unlock = sends[o].unlock
  BY <1>2, CodeTells DEF CodeSend
<1>10. 1..sendsIssued \subseteq Code!Sends /\ n \in 1..sendsIssued
  BY <1>2, SendTells, CodeTells, CodeConstants DEF Code!Sends
<1>11. {sends'[o].unlock : o \in 1..sendsIssued'} = {sends[o].unlock : o \in 1..sendsIssued}
  BY <1>2, <1>9, <1>10
<1>12. u \in {sends[o].unlock : o \in 1..sendsIssued}
  BY <1>1, <1>10
<1>13. Code!Counts' = [s \in DOMAIN Code!Counts \ {u} |-> Code!Counts[s]]
  BY <1>5, <1>8
<1>14. Code!Throttle!WithdrawStart(u)
  BY <1>2, <1>4, <1>7, <1>11, <1>12, <1>13 DEF Code!Throttle!WithdrawStart
<1>15. u \in DOMAIN Code!Counts \ DOMAIN Code!Counts'
  BY <1>4, <1>7, <1>13
<1> QED
  BY <1>14, <1>15 DEF ThrottleStep, Code!Throttle!ThrottleNext

LEMMA OthersAreThrottled ==
  ASSUME CodeInv,
         \/ \E n \in Code!Sends : Code!Settle(n)
         \/ \E r \in Records : Code!Answer(r)
         \/ \E r \in Records : Code!CloseLink(r)
  PROVE  ThrottleStep
<1>1. UNCHANGED <<attempts, lastId, sendsIssued, now>>
  BY DEF Code!Settle, Code!Answer, Code!CloseLink
<1>2. \/ \E n \in Code!Sends, st \in {"settled",
           "answered"} : sends' = [sends EXCEPT ![n].st = st]
      \/ UNCHANGED sends
  <2>1. CASE \E n \in Code!Sends : Code!Settle(n)
    BY <2>1 DEF Code!Settle
  <2>2. ASSUME NEW r \in Records, Code!Answer(r)
        PROVE  \E n \in Code!Sends : sends' = [sends EXCEPT ![n].st = "answered"]
    <3>1. link[r] \in Code!Sends
      BY <2>2, CodeTells DEF Code!Answer, LinksFit
    <3> QED
      BY <2>2, <3>1 DEF Code!Answer
  <2>3. CASE \E r \in Records : Code!CloseLink(r)
    BY <2>3 DEF Code!CloseLink
  <2> QED
    BY <2>1, <2>2, <2>3
<1>3. \A n \in Code!Sends : sends'[n].unlock = sends[n].unlock
  BY <1>2, CodeTells DEF CodeSend
<1> QED
  BY <1>1, <1>3, StaysAsItIs

LEMMA TickIsThrottled ==
  ASSUME CodeInv, Code!Tick
  PROVE  ThrottleStep
<1>1. UNCHANGED <<attempts, lastId, sends, sendsIssued, link>> /\ now' = now + 1
  BY DEF Code!Tick
<1>2. CountsOf(attempts', lastId') = CountsOf(attempts, lastId)
  BY <1>1
<1>3. Code!Counts' = Code!Counts
  BY <1>2, CountsAreOf, NextCountsAreOf
<1>4. {sends'[n].unlock : n \in 1..sendsIssued'} = {sends[n].unlock : n \in 1..sendsIssued}
  BY <1>1
<1> QED
  BY <1>1, <1>3, <1>4 DEF ThrottleStep, Code!Throttle!ThrottleNext, Code!Throttle!ThrottleTick

LEMMA CodeRefines ==
  ASSUME CodeInv, [Code!Next]_codeSide
  PROVE  ThrottleStep
<1>1. CASE UNCHANGED codeSide
  BY <1>1, StaysAsItIs DEF codeSide
<1>2. CASE Code!Next
  BY <1>2, EnterIsThrottled, SendIsThrottled, UndoIsThrottled, OthersAreThrottled,
     TickIsThrottled
  DEF Code!Next
<1> QED
  BY <1>1, <1>2

LEMMA ThrottleBegins ==
  ASSUME Code!Init
  PROVE  Code!Throttle!ThrottleInit
<1>1. lastId = 0 /\ sendsIssued = 0 /\ now = 0 /\ \A i \in Code!Rows : attempts[i].kind # "ROW"
  BY DEF Code!Init, Code!NoRow
<1>2. StartsOf(attempts) = {0}
  BY <1>1 DEF StartsOf
<1>3. MineOf(attempts, 0, lastId) = {}
  BY <1>1 DEF MineOf
<1>4. CountOf(attempts, 0, lastId) = Code!Throttle!Clear
  BY <1>3, CountIsClear DEF Code!Throttle!Clear
<1>5. Code!Counts = [i \in {0} |-> Code!Throttle!Clear]
  BY <1>2, <1>4, CountsAreOf DEF CountsOf
<1>6. {sends[n].unlock : n \in 1..sendsIssued} = {}
  BY <1>1
<1> QED
  BY <1>1, <1>5, <1>6 DEF Code!Throttle!ThrottleInit

\* CodeInv holds at every step of the sends to a number and the codes entered for it.
THEOREM CodeInvariant == PartsSpec => []CodeInv
<1>1. PartsInit => CodeInv
  BY CodeInit DEF PartsInit
<1>2. CodeInv /\ [PartsNext]_<<vars, codeSide, papersSide, part>> => CodeInv'
  <2> SUFFICES ASSUME CodeInv, [PartsNext]_<<vars, codeSide, papersSide, part>> PROVE CodeInv'
    OBVIOUS
  <2>1. [Code!Next]_codeSide
    BY DEF PartsNext
  <2> QED
    BY <2>1, CodeNext
<1> QED
  BY <1>1, <1>2, PTL DEF PartsSpec

\* Whoever received a code can use it, whatever other sends to the number were undone
\* since: what locks the number was entered after the send, one failure at a time.
THEOREM CodesThatWork == PartsSpec => []ReceivedCodeWorks
<1>1. CodeInv => ReceivedCodeWorks
  BY CodesWork DEF ReceivedCodeWorks
<1> QED
  BY <1>1, CodeInvariant, PTL

\* The rows that guardCode, sends and undos write and delete are the counts of
\* CodeThrottle: an undone send leaves the lock as if it had never been made.
THEOREM CodeImplementsThrottle == PartsSpec => ImplementsThrottle
<1>1. PartsInit => Code!Throttle!ThrottleInit
  BY ThrottleBegins DEF PartsInit
<1>2. CodeInv /\ [PartsNext]_<<vars, codeSide, papersSide, part>>
        => [Code!Throttle!ThrottleNext]_(Code!Throttle!throttleVars)
  <2> SUFFICES ASSUME CodeInv, [PartsNext]_<<vars, codeSide, papersSide, part>>
               PROVE  [Code!Throttle!ThrottleNext]_(Code!Throttle!throttleVars)
    OBVIOUS
  <2>1. [Code!Next]_codeSide
    BY DEF PartsNext
  <2> QED
    BY <2>1, CodeRefines DEF ThrottleStep
<1> QED
  BY <1>1, <1>2, CodeInvariant, PTL
  DEF PartsSpec, ImplementsThrottle, Code!ImplementsThrottle, Code!Throttle!ThrottleSpec

-----------------------------------------------------------------------------
(* Rows, files and what requests hold in between                           *)

MadeKinds == {"SENT_ORIGINAL", "SIGNED_COPY"}
PaperKey == [n : Nat, terms : Nat, employer : Nat]
PaperRow ==
  [kind : MadeKinds \union {"SIGNATURE", "PAPER_EMPLOYMENT_CONTRACT"},
   sent : Nat, key : PaperKey]
Agreements ==
  [st : {"DRAFT", "PENDING_SEND", "PENDING_SIGNATURE", "SIGNED", "GONE"},
   sent : Nat, terms : Nat, employer : Nat, restored : SUBSET Nat]
MakerReads ==
  [stage : {"read"}, kind : MadeKinds, sent : Nat, terms : Nat, employer : Nat,
   backfill : BOOLEAN]
MakerHolds ==
  [stage : {"put", "failed"}, kind : MadeKinds, sent : Nat, backfill : BOOLEAN, key : PaperKey]
SigningOpen == [stage : {"open"}, sent : Nat, terms : Nat]
SigningHolds == [stage : {"put", "failed"}, sent : Nat, terms : Nat, key : PaperKey]
PaperHolds == [stage : {"put"}, key : PaperKey]
PapersTyped ==
    /\ agreement \in Agreements /\ store \in Nat /\ late \in BOOLEAN
    /\ \A n \in DOMAIN before : before[n].sent \in Nat
    /\ docs \subseteq PaperRow /\ files \subseteq PaperKey
    /\ maker \in [Makers -> {Papers!Idle} \union MakerReads \union MakerHolds]
    /\ signing \in {Papers!Idle, Papers!Done} \union SigningOpen \union SigningHolds
    /\ paper \in {Papers!Idle, Papers!Done, [stage |-> "cut"]} \union PaperHolds
    /\ purge \in [stage : {"idle", "locked", "deleted", "deferred", "done"}]

\* Who has put an object, or may have, that no row refers to yet.
Holds(r) == r.stage \in {"put", "failed"}
KeysApart(M, g, p) ==
    /\ \A m, o \in Makers : m # o /\ Holds(M[m]) /\ Holds(M[o]) => M[m].key # M[o].key
    /\ \A m \in Makers : Holds(M[m]) /\ Holds(g) => M[m].key # g.key
    /\ \A m \in Makers : Holds(M[m]) /\ Holds(p) => M[m].key # p.key
    /\ Holds(g) /\ Holds(p) => g.key # p.key
\* Until its row is written the object is there and is nobody else's.
KeyIsNew(r, D, F) == r.stage = "put" => r.key \in F /\ \A d \in D : d.key # r.key
KeysAreNew(M, g, p, D, F) ==
    (\A m \in Makers : KeyIsNew(M[m], D, F)) /\ KeyIsNew(g, D, F) /\ KeyIsNew(p, D, F)
Held(k, M, g, p) ==
    \/ \E m \in Makers : Holds(M[m]) /\ M[m].key = k
    \/ Holds(g) /\ g.key = k
    \/ Holds(p) /\ p.key = k
FilesKnown(F, D, M, g, p) == \A k \in F : (\E d \in D : d.key = k) \/ Held(k, M, g, p)
RowsThere(D, F, p, u) == u = Papers!Idle /\ p.stage # "cut" => \A d \in D : d.key \in F
\* What holds the row of the contract holds its status.
PurgeFits(c, D, F, p, u) ==
    /\ p.stage = "put" => c.st = "DRAFT"
    /\ u.stage \in {"locked", "deleted"} => c.st = "SIGNED" /\ p.stage # "put"
    /\ u.stage = "deleted" => \A d \in D : d.key \notin F
    /\ c.st = "GONE" => D = {}

\* What is sent says what was written for that send, unless an undo returned to it.
TellsSend(c, sent, terms) == sent = Papers!None \/ terms = sent \/ sent \in c.restored
RowsTell(c, D) ==
    \A d \in D :
      /\ d.kind = "SENT_ORIGINAL" => d.key.terms = d.sent \/ d.sent \in c.restored
      /\ d.kind = "SIGNATURE" => c.st = "SIGNED" /\ d.key.terms = c.terms
      /\ d.kind = "SIGNED_COPY" => /\ c.st = "SIGNED" /\ d.sent = c.sent
                                   /\ d.key.terms = c.terms /\ d.key.employer = c.employer
\* A run tells what it read, which of a signed contract is what it still says; who is
\* to keep the employer finds none kept, or the copy of who was faster.
MakerTells(c, D, r) ==
  LET terms == IF r.stage = "read" THEN r.terms ELSE r.key.terms
      employer == IF r.stage = "read" THEN r.employer ELSE r.key.employer
  IN  r.stage # "idle" =>
        /\ r.kind = "SENT_ORIGINAL" => ~r.backfill /\ (terms = r.sent \/ r.sent \in c.restored)
        /\ r.kind = "SIGNED_COPY" =>
             /\ c.st \in {"SIGNED", "GONE"} /\ r.sent = c.sent /\ terms = c.terms
             /\ ~r.backfill => c.employer # Papers!None /\ employer = c.employer
             /\ r.backfill /\ c.st = "SIGNED" =>
                  \/ c.employer = Papers!None
                  \/ \E d \in D : d.kind = "SIGNED_COPY" /\ d.sent = c.sent
MakersTell(c, D, M) == \A m \in Makers : MakerTells(c, D, M[m])
\* The worker has read what is sent now, or it is sent again by now.
SigningTells(c, g) ==
    g.stage \in {"open", "put", "failed"} =>
      /\ c.st \in {"PENDING_SIGNATURE", "SIGNED", "GONE"}
      /\ c.st = "PENDING_SIGNATURE" => /\ g.sent <= c.sent
                                       /\ g.sent = c.sent => g.terms = c.terms
      /\ Holds(g) => g.key.terms = g.terms
PapersInv ==
    /\ PapersTyped
    /\ TellsSend(agreement, agreement.sent, agreement.terms) /\ RowsTell(agreement, docs)
    /\ MakersTell(agreement, docs, maker) /\ SigningTells(agreement, signing)
    /\ KeysApart(maker, signing, paper) /\ KeysAreNew(maker, signing, paper, docs, files)
    /\ FilesKnown(files, docs, maker, signing, paper) /\ RowsThere(docs, files, paper, purge)
    /\ PurgeFits(agreement, docs, files, paper, purge)

LEMMA PapersTell ==
  ASSUME PapersInv
  PROVE  /\ agreement \in Agreements /\ store \in Nat /\ late \in BOOLEAN
         /\ (\A n \in DOMAIN before : before[n].sent \in Nat)
         /\ docs \subseteq PaperRow /\ files \subseteq PaperKey
         /\ maker \in [Makers -> {Papers!Idle} \union MakerReads \union MakerHolds]
         /\ signing \in {Papers!Idle, Papers!Done} \union SigningOpen \union SigningHolds
         /\ paper \in {Papers!Idle, Papers!Done, [stage |-> "cut"]} \union PaperHolds
         /\ purge \in [stage : {"idle", "locked", "deleted", "deferred", "done"}]
         /\ TellsSend(agreement, agreement.sent, agreement.terms) /\ RowsTell(agreement, docs)
         /\ MakersTell(agreement, docs, maker) /\ SigningTells(agreement, signing)
         /\ KeysApart(maker, signing, paper) /\ KeysAreNew(maker, signing, paper, docs, files)
         /\ FilesKnown(files, docs, maker, signing, paper) /\ RowsThere(docs, files, paper, purge)
         /\ PurgeFits(agreement, docs, files, paper, purge)
BY DEF PapersInv, PapersTyped

\* The stages of a run, of the worker's request and of a registration.
LEMMA MakerStages ==
  ASSUME NEW r \in {Papers!Idle} \union MakerReads \union MakerHolds
  PROVE  /\ r.stage = "idle" <=> r = Papers!Idle
         /\ r.stage = "read" <=> r \in MakerReads
         /\ r.stage \in {"put", "failed"} <=> r \in MakerHolds
         /\ r.stage \in {"idle", "read", "put", "failed"}
         /\ r \in MakerHolds => /\ r.key \in PaperKey /\ r.kind \in MadeKinds /\ r.sent \in Nat
                                /\ r.backfill \in BOOLEAN
         /\ r \in MakerReads => /\ r.kind \in MadeKinds /\ r.sent \in Nat /\ r.terms \in Nat
                                /\ r.employer \in Nat /\ r.backfill \in BOOLEAN
BY DEF Papers!Idle, MakerReads, MakerHolds

LEMMA SigningStages ==
  ASSUME NEW r \in {Papers!Idle, Papers!Done} \union SigningOpen \union SigningHolds
  PROVE  /\ r.stage = "idle" <=> r = Papers!Idle
         /\ r.stage = "open" <=> r \in SigningOpen
         /\ r.stage \in {"put", "failed"} <=> r \in SigningHolds
         /\ r.stage \in {"idle", "done", "open", "put", "failed"}
         /\ r \in SigningHolds => r.key \in PaperKey /\ r.sent \in Nat /\ r.terms \in Nat
         /\ r \in SigningOpen => r.sent \in Nat /\ r.terms \in Nat
BY DEF Papers!Idle, Papers!Done, SigningOpen, SigningHolds

LEMMA PaperStages ==
  ASSUME NEW r \in {Papers!Idle, Papers!Done, [stage |-> "cut"]} \union PaperHolds
  PROVE  /\ r.stage = "put" <=> r \in PaperHolds
         /\ r.stage \in {"idle", "done", "cut", "put"}
         /\ r \in PaperHolds => r.key \in PaperKey
BY DEF Papers!Idle, Papers!Done, PaperHolds

LEMMA StagesTell ==
  /\ Papers!Idle.stage = "idle" /\ Papers!Done.stage = "done" /\ [stage |-> "cut"].stage = "cut"
  /\ ~Holds(Papers!Idle) /\ ~Holds(Papers!Done) /\ ~Holds([stage |-> "cut"])
BY DEF Papers!Idle, Papers!Done, Holds

LEMMA LockedTells ==
  ASSUME PapersInv, ~Papers!Locked
  PROVE  paper.stage # "put" /\ purge.stage \notin {"locked", "deleted"}
BY DEF Papers!Locked

\* Keys in use, and the one a new object gets.
LEMMA HeldIsInFlight ==
  ASSUME PapersInv, NEW k, Held(k, maker, signing, paper)
  PROVE  k \in Papers!InFlight
<1>1. CASE \E m \in Makers : Holds(maker[m]) /\ maker[m].key = k
  BY <1>1 DEF Papers!InFlight, Holds
<1>2. CASE \E r \in {signing, paper} : Holds(r) /\ r.key = k
  BY <1>2 DEF Papers!InFlight, Holds
<1> QED
  BY <1>1, <1>2 DEF Held

LEMMA InFlightIsHeld ==
  ASSUME PapersInv, NEW k \in Papers!InFlight
  PROVE  Held(k, maker, signing, paper)
<1>1. CASE k \in {maker[m].key : m \in {n \in Makers : maker[n].stage \in {"put", "failed"}}}
  BY <1>1 DEF Held, Holds
<1>2. CASE k \in {r.key : r \in {q \in {signing, paper} : q.stage \in {"put", "failed"}}}
  BY <1>2 DEF Held, Holds
<1> QED
  BY <1>1, <1>2 DEF Papers!InFlight

LEMMA PutIsNew ==
  ASSUME PapersInv, Papers!Room, NEW terms \in Nat, NEW employer \in Nat, NEW key,
         key = Papers!Put(terms, employer)
  PROVE  /\ key \in PaperKey /\ key.terms = terms /\ key.employer = employer
         /\ key \notin files /\ (\A d \in docs : d.key # key)
         /\ ~Held(key, maker, signing, paper)
<1> DEFINE S == {n \in 1 .. MaxKeys : n \notin Papers!InUse}
<1>1. S \subseteq Nat /\ S # {}
  BY PapersConstants DEF Papers!Room
<1>2. PICK n \in S : \A j \in S : ~(<<j, n>> \in OpToRel(<, Nat))
  BY <1>1, NatLessThanWellFounded, WFMin
<1>3. \A j \in 1 .. (n - 1) : j \in Papers!InUse
  <2>1. ASSUME NEW j \in 1 .. (n - 1), j \notin Papers!InUse
        PROVE  FALSE
    <3>3. n \in Nat /\ n \in 1 .. MaxKeys
      BY <1>1, <1>2
    <3>4. j \in Nat /\ j < n /\ j \in 1 .. MaxKeys
      BY ONLY <2>1, <3>3, PapersConstants
    <3>1. j \in S /\ j < n /\ j \in Nat /\ n \in Nat
      BY <2>1, <3>3, <3>4
    <3>2. <<j, n>> \in {ss \in Nat \X Nat : ss[1] < ss[2]}
      BY <3>1
    <3> QED
      BY <1>2, <3>1, <3>2 DEF OpToRel
  <2> QED
    BY <2>1
<1>4. PICK free : free = [n |-> n, terms |-> terms, employer |-> employer]
  OBVIOUS
<1>5. PICK K : K = [n : 1 .. MaxKeys, terms : {terms}, employer : {employer}]
  OBVIOUS
<1>6. free \in K /\ free.n \notin Papers!InUse /\ \A j \in 1 .. (free.n - 1) : j \in Papers!InUse
  BY <1>2, <1>3, <1>4, <1>5
<1>7. key = CHOOSE k \in K : k.n \notin Papers!InUse
        /\ \A j \in 1 .. (k.n - 1) : j \in Papers!InUse
  BY <1>5 DEF Papers!Put
<1>8. key \in K /\ key.n \notin Papers!InUse
  BY <1>6, <1>7
<1>9. \A k : k \in files \/ k \in Papers!InFlight \/ k \in {d.key : d \in docs} =>
        k.n \in Papers!InUse
  BY DEF Papers!InUse
<1>10. ~Held(key, maker, signing, paper)
  BY <1>8, <1>9, HeldIsInFlight
<1>11. key \in PaperKey /\ key.terms = terms /\ key.employer = employer
  BY <1>5, <1>8, PapersConstants DEF PaperKey
<1> QED
  BY <1>8, <1>9, <1>10, <1>11

\* Nobody holds what its owner gave up, and what is deleted then is no row's.
LEMMA CleanedFiles ==
  ASSUME PapersInv, NEW key, NEW F, Papers!CleanUp(key), files' = F
  PROVE  /\ F \subseteq files /\ (\A k \in files : k \notin F => k = key)
         /\ \A d \in docs : d.key \in files => d.key \in F
         /\ key \in F => \E d \in docs : d.key = key
BY DEF Papers!CleanUp, Papers!Kept

LEMMA PapersFrom ==
  ASSUME PapersTyped', TellsSend(agreement', agreement'.sent, agreement'.terms),
         RowsTell(agreement', docs'), MakersTell(agreement', docs', maker'),
         SigningTells(agreement', signing'), KeysApart(maker', signing', paper'),
         KeysAreNew(maker', signing', paper', docs', files'),
         FilesKnown(files', docs', maker', signing', paper'),
         RowsThere(docs', files', paper', purge'),
         PurgeFits(agreement', docs', files', paper', purge')
  PROVE  PapersInv'
BY DEF PapersInv, TellsSend, RowsTell, MakersTell, MakerTells, SigningTells, KeysApart,
   KeysAreNew, KeyIsNew, FilesKnown, Held, Holds, RowsThere, PurgeFits, Papers!Idle

-----------------------------------------------------------------------------
(* The contract                                                            *)

LEMMA ContractMoves ==
  ASSUME PapersInv, NEW c \in Agreements, agreement' = c,
         UNCHANGED <<docs, files, maker, signing, paper, purge>>,
         store' \in Nat, late' \in BOOLEAN, \A n \in DOMAIN before' : before'[n].sent \in Nat,
         \/ c = agreement
         \/ /\ ~Papers!Locked
            /\ agreement.st \notin {"SIGNED", "GONE"} /\ c.st \notin {"SIGNED", "GONE"}
            /\ agreement.restored \subseteq c.restored /\ TellsSend(c, c.sent, c.terms)
            /\ SigningTells(c, signing)
  PROVE  PapersInv'
<1>1. PapersTyped'
  BY PapersTell DEF PapersTyped
<1>2. CASE c = agreement
  BY <1>1, <1>2, PapersTell, PapersFrom
<1>3. CASE c # agreement
  <2>1. /\ paper.stage # "put" /\ purge.stage \notin {"locked", "deleted"}
        /\ agreement.st \notin {"SIGNED", "GONE"} /\ c.st \notin {"SIGNED", "GONE"}
        /\ agreement.restored \subseteq c.restored /\ TellsSend(c, c.sent, c.terms)
        /\ SigningTells(c, signing)
    BY <1>3, LockedTells
  <2>2. RowsTell(c, docs)
    BY <2>1, PapersTell DEF RowsTell
  <2>3. MakersTell(c, docs, maker)
    BY <2>1, PapersTell DEF MakersTell, MakerTells
  <2>4. PurgeFits(c, docs, files, paper, purge)
    BY <2>1, PapersTell DEF PurgeFits
  <2> QED
    BY <1>1, <2>1, <2>2, <2>3, <2>4, PapersTell, PapersFrom
<1> QED
  BY <1>2, <1>3

LEMMA ContractSteps ==
  ASSUME PapersInv,
         \/ \E n \in 1 .. MaxSends : Papers!Send(n) \/ Papers!Settle(n) \/ Papers!Undo(n)
         \/ Papers!Join \/ Papers!ChangeStore \/ Papers!DayOver
  PROVE  PapersInv'
<1>1. ASSUME NEW n \in 1 .. MaxSends, Papers!Send(n)
      PROVE  PapersInv'
  <2>1. n \in Nat
    BY PapersConstants
  <2>2. PICK c : c = [agreement EXCEPT !.sent = n, !.terms = n,
                        !.st = IF agreement.st = "PENDING_SIGNATURE" THEN agreement.st
                               ELSE "PENDING_SEND"]
    OBVIOUS
  <2>3. /\ ~Papers!Locked /\ agreement' = c /\ agreement.sent < n /\ late' = FALSE
        /\ agreement.st \in {"DRAFT", "PENDING_SEND", "PENDING_SIGNATURE"}
        /\ UNCHANGED <<store, docs, files, maker, signing, paper, purge>>
    BY <1>1, <2>2 DEF Papers!Send, Papers!storageVars
  <2>4. /\ c \in Agreements /\ c.sent = n /\ c.terms = n /\ c.restored = agreement.restored
        /\ c.st \in {"PENDING_SEND", "PENDING_SIGNATURE"}
        /\ c.st = "PENDING_SIGNATURE" <=> agreement.st = "PENDING_SIGNATURE"
    BY <2>1, <2>2, <2>3, PapersTell DEF Agreements
  <2>5. \A k \in DOMAIN before' : before'[k].sent \in Nat
    BY <1>1, PapersTell DEF Papers!Send, Agreements
  <2>6. SigningTells(c, signing)
    <3>1. /\ agreement.sent \in Nat
          /\ signing.stage \in {"open", "put", "failed"} => signing.sent \in Nat
      BY PapersTell, SigningStages DEF Agreements
    <3> QED
      BY <2>1, <2>3, <2>4, <3>1, PapersTell DEF SigningTells
  <2>7. TellsSend(c, c.sent, c.terms)
    BY <2>4 DEF TellsSend
  <2> QED
    BY <2>3, <2>4, <2>5, <2>6, <2>7, PapersTell, ContractMoves
<1>2. ASSUME NEW n \in 1 .. MaxSends, Papers!Settle(n)
      PROVE  PapersInv'
  <2>1. \A k \in DOMAIN before' : before'[k].sent \in Nat
    BY <1>2, PapersTell DEF Papers!Settle, Papers!Answered
  <2> QED
    BY <1>2, <2>1, PapersTell, ContractMoves DEF Papers!Settle, Papers!storageVars,
       Papers!workVars
<1>3. ASSUME NEW n \in 1 .. MaxSends, Papers!Undo(n)
      PROVE  PapersInv'
  <2>1. /\ \A k \in DOMAIN before' : before'[k].sent \in Nat
        /\ n \in DOMAIN before /\ ~Papers!Locked
        /\ UNCHANGED <<store, late, docs, files, maker, signing, paper, purge>>
    BY <1>3, PapersTell DEF Papers!Undo, Papers!Answered, Papers!storageVars, Papers!workVars
  <2>2. PICK s : s = before[n].sent
    OBVIOUS
  <2>3. s \in Nat
    BY <2>1, <2>2, PapersTell
  <2>4. CASE agreement' = agreement
    BY <2>1, <2>4, PapersTell, ContractMoves
  <2>5. CASE agreement' # agreement
    <3>1. PICK c : c = agreement'
      OBVIOUS
    <3>2. /\ agreement.st = "PENDING_SEND"
          /\ \/ c = [agreement EXCEPT !.sent = s, !.restored = agreement.restored \union {s}]
             \/ c = [agreement EXCEPT !.sent = Papers!None, !.st = "DRAFT"]
      BY <1>3, <2>2, <2>5, <3>1 DEF Papers!Undo
    <3>3. /\ c \in Agreements /\ c.st \in {"PENDING_SEND", "DRAFT"}
          /\ agreement.restored \subseteq c.restored
          /\ c.sent = Papers!None \/ c.sent \in c.restored
      <4>1. agreement \in Agreements
        BY PapersTell
      <4>2. CASE c = [agreement EXCEPT !.sent = s, !.restored = agreement.restored \union {s}]
        <5>1. agreement.restored \union {s} \in SUBSET Nat
          BY <2>3, <4>1 DEF Agreements
        <5> QED
          BY <2>3, <3>2, <4>1, <4>2, <5>1 DEF Agreements
      <4>3. CASE c = [agreement EXCEPT !.sent = Papers!None, !.st = "DRAFT"]
        BY <4>1, <4>3 DEF Agreements, Papers!None
      <4> QED
        BY <3>2, <4>2, <4>3
    <3>4. TellsSend(c, c.sent, c.terms)
      BY <3>3 DEF TellsSend
    <3>5. SigningTells(c, signing)
      BY <3>2, PapersTell DEF SigningTells
    <3> QED
      BY <2>1, <3>1, <3>2, <3>3, <3>4, <3>5, PapersTell, ContractMoves
  <2> QED
    BY <2>4, <2>5
<1>4. CASE Papers!Join
  <2>1. PICK c : c = [agreement EXCEPT !.st = "PENDING_SIGNATURE"]
    OBVIOUS
  <2>2. /\ ~Papers!Locked /\ agreement.st = "PENDING_SEND" /\ agreement' = c
        /\ UNCHANGED <<before, store, late, docs, files, maker, signing, paper, purge>>
    BY <1>4, <2>1 DEF Papers!Join, Papers!storageVars, Papers!workVars
  <2>3. /\ c \in Agreements /\ c.st = "PENDING_SIGNATURE" /\ c.sent = agreement.sent
        /\ c.terms = agreement.terms /\ c.restored = agreement.restored
    BY <2>1, PapersTell DEF Agreements
  <2>4. TellsSend(c, c.sent, c.terms)
    BY <2>3, PapersTell DEF TellsSend
  <2>5. SigningTells(c, signing)
    BY <2>2, PapersTell DEF SigningTells
  <2> QED
    BY <2>2, <2>3, <2>4, <2>5, PapersTell, ContractMoves
<1>5. CASE Papers!ChangeStore
  BY <1>5, PapersTell, ContractMoves DEF Papers!ChangeStore, Papers!storageVars,
     Papers!workVars
<1>6. CASE Papers!DayOver
  BY <1>6, PapersTell, ContractMoves DEF Papers!DayOver, Papers!storageVars, Papers!workVars
<1> QED
  BY <1>1, <1>2, <1>3, <1>4, <1>5, <1>6

-----------------------------------------------------------------------------
(* What one request does with its object                                   *)

\* A request that was x is r, and the files are F: it gets a new key or keeps its own,
\* and deletes nothing but what is its own and no row's.
Handles(x, r, F) ==
    /\ KeyIsNew(r, docs, F) /\ F \subseteq PaperKey
    /\ Holds(r) => (Holds(x) /\ r.key = x.key) \/ ~Held(r.key, maker, signing, paper)
    /\ \A k \in F : k \in files \/ (Holds(r) /\ k = r.key)
    /\ \A k \in files : k \notin F => Holds(x) /\ k = x.key /\ \A d \in docs : d.key # k
    /\ \A k \in F : Holds(x) /\ k = x.key =>
         (Holds(r) /\ r.key = k) \/ \E d \in docs : d.key = k
    /\ \A d \in docs : d.key \in F => d.key \in files

LEMMA NewObject ==
  ASSUME PapersInv, Papers!Room, NEW terms \in Nat, NEW employer \in Nat, NEW key,
         key = Papers!Put(terms, employer), NEW x, ~Holds(x), NEW r, Holds(r), r.key = key,
         NEW F, F = files \union {key}
  PROVE  Handles(x, r, F)
<1>1. /\ key \in PaperKey /\ key \notin files /\ (\A d \in docs : d.key # key)
      /\ ~Held(key, maker, signing, paper)
  BY PutIsNew
<1> QED
  BY <1>1, PapersTell DEF Handles, KeyIsNew

LEMMA SameObject ==
  ASSUME PapersInv, NEW x, NEW r, Holds(r), Holds(x), r.key = x.key, r.stage # "put"
  PROVE  Handles(x, r, files)
BY PapersTell DEF Handles, KeyIsNew

LEMMA NoObject ==
  ASSUME PapersInv, NEW x, NEW r, ~Holds(r), ~Holds(x)
  PROVE  Handles(x, r, files)
BY PapersTell DEF Handles, KeyIsNew, Holds

LEMMA LeftObject ==
  ASSUME PapersInv, NEW x, NEW r, ~Holds(r), Holds(x), NEW F, files' = F, Papers!CleanUp(x.key)
  PROVE  Handles(x, r, F)
<1>1. PICK key : key = x.key
  OBVIOUS
<1>2. /\ F \subseteq files /\ (\A k \in files : k \notin F => k = key)
      /\ (\A d \in docs : d.key \in files => d.key \in F)
      /\ key \in F => \E d \in docs : d.key = key
  BY <1>1, CleanedFiles
<1> QED
  BY <1>1, <1>2, PapersTell DEF Handles, KeyIsNew, Holds

LEMMA DroppedObject ==
  ASSUME PapersInv, NEW x, NEW r, ~Holds(r), Holds(x), \A d \in docs : d.key # x.key
  PROVE  Handles(x, r, files \ {x.key})
BY PapersTell DEF Handles, KeyIsNew, Holds

LEMMA MakerHandles ==
  ASSUME PapersInv, NEW m \in Makers,
         NEW r \in {Papers!Idle} \union MakerReads \union MakerHolds, NEW F,
         maker' = [maker EXCEPT ![m] = r], files' = F, Handles(maker[m], r, F),
         MakerTells(agreement, docs, r),
         UNCHANGED <<agreement, before, store, late, docs, signing, paper, purge>>
  PROVE  PapersInv'
<1>1. PICK M : M = [maker EXCEPT ![m] = r]
  OBVIOUS
<1>2. /\ M \in [Makers -> {Papers!Idle} \union MakerReads \union MakerHolds]
      /\ M[m] = r /\ \A o \in Makers : o # m => M[o] = maker[o]
  BY <1>1, PapersTell
<1>3. PICK x : x = maker[m]
  OBVIOUS
<1>4. /\ KeyIsNew(r, docs, F) /\ F \subseteq PaperKey
      /\ Holds(r) => (Holds(x) /\ r.key = x.key) \/ ~Held(r.key, maker, signing, paper)
      /\ (\A k \in F : k \in files \/ (Holds(r) /\ k = r.key))
      /\ (\A k \in files : k \notin F => Holds(x) /\ k = x.key /\ \A d \in docs : d.key # k)
      /\ (\A k \in F : Holds(x) /\ k = x.key =>
            (Holds(r) /\ r.key = k) \/ \E d \in docs : d.key = k)
      /\ \A d \in docs : d.key \in F => d.key \in files
  BY <1>3 DEF Handles
<1>5. PapersTyped'
  BY <1>1, <1>2, <1>4, PapersTell DEF PapersTyped
<1>6. MakersTell(agreement, docs, M)
  BY <1>2, PapersTell DEF MakersTell
<1>7. KeysApart(maker, signing, paper) /\ KeysAreNew(maker, signing, paper, docs, files)
      /\ FilesKnown(files, docs, maker, signing, paper)
  BY PapersTell
<1>8. KeysApart(M, signing, paper)
  <2>1. \A o \in Makers : o # m /\ Holds(r) /\ Holds(maker[o]) => r.key # maker[o].key
    BY <1>3, <1>4, <1>7 DEF KeysApart, Held
  <2>2. Holds(r) /\ Holds(signing) => r.key # signing.key
    BY <1>3, <1>4, <1>7 DEF KeysApart, Held
  <2>3. Holds(r) /\ Holds(paper) => r.key # paper.key
    BY <1>3, <1>4, <1>7 DEF KeysApart, Held
  <2> QED
    BY <1>2, <1>7, <2>1, <2>2, <2>3 DEF KeysApart
<1>9. KeysAreNew(M, signing, paper, docs, F)
  <2>1. ASSUME NEW q, Holds(x) /\ Holds(q) => q.key # x.key, KeyIsNew(q, docs, files)
        PROVE  KeyIsNew(q, docs, F)
    BY <1>4, <2>1 DEF KeyIsNew, Holds
  <2>2. \A o \in Makers : o # m => KeyIsNew(maker[o], docs, F)
    BY <1>3, <1>7, <2>1 DEF KeysApart, KeysAreNew
  <2>3. KeyIsNew(signing, docs, F) /\ KeyIsNew(paper, docs, F)
    BY <1>3, <1>7, <2>1 DEF KeysApart, KeysAreNew
  <2> QED
    BY <1>2, <1>4, <2>2, <2>3 DEF KeysAreNew
<1>10. FilesKnown(F, docs, M, signing, paper)
  <2>1. ASSUME NEW k \in F, \A d \in docs : d.key # k
        PROVE  Held(k, M, signing, paper)
    <3>1. CASE Holds(r) /\ r.key = k
      BY <1>2, <3>1 DEF Held
    <3>2. CASE ~(Holds(r) /\ r.key = k)
      <4>1. k \in files /\ ~(Holds(x) /\ k = x.key)
        BY <1>4, <2>1, <3>2
      <4>2. Held(k, maker, signing, paper)
        BY <1>7, <2>1, <4>1 DEF FilesKnown
      <4> QED
        BY <1>2, <1>3, <4>1, <4>2 DEF Held
    <3> QED
      BY <3>1, <3>2
  <2> QED
    BY <2>1 DEF FilesKnown
<1>11. RowsThere(docs, F, paper, purge) /\ PurgeFits(agreement, docs, F, paper, purge)
  BY <1>4, PapersTell DEF RowsThere, PurgeFits
<1> QED
  BY <1>1, <1>5, <1>6, <1>8, <1>9, <1>10, <1>11, PapersTell, PapersFrom

LEMMA SigningHandles ==
  ASSUME PapersInv, NEW r \in {Papers!Idle,
         Papers!Done} \union SigningOpen \union SigningHolds, NEW F,
         signing' = r, files' = F, Handles(signing, r, F), SigningTells(agreement, r),
         UNCHANGED <<agreement, before, store, late, docs, maker, paper, purge>>
  PROVE  PapersInv'
<1>3. PICK x : x = signing
  OBVIOUS
<1>4. /\ KeyIsNew(r, docs, F) /\ F \subseteq PaperKey
      /\ Holds(r) => (Holds(x) /\ r.key = x.key) \/ ~Held(r.key, maker, signing, paper)
      /\ (\A k \in F : k \in files \/ (Holds(r) /\ k = r.key))
      /\ (\A k \in files : k \notin F => Holds(x) /\ k = x.key /\ \A d \in docs : d.key # k)
      /\ (\A k \in F : Holds(x) /\ k = x.key =>
            (Holds(r) /\ r.key = k) \/ \E d \in docs : d.key = k)
      /\ \A d \in docs : d.key \in F => d.key \in files
  BY <1>3 DEF Handles
<1>5. PapersTyped'
  BY <1>4, PapersTell DEF PapersTyped
<1>7. KeysApart(maker, signing, paper) /\ KeysAreNew(maker, signing, paper, docs, files)
      /\ FilesKnown(files, docs, maker, signing, paper)
  BY PapersTell
<1>8. KeysApart(maker, r, paper)
  <2>1. \A o \in Makers : Holds(r) /\ Holds(maker[o]) => r.key # maker[o].key
    BY <1>3, <1>4, <1>7 DEF KeysApart, Held
  <2>2. Holds(r) /\ Holds(paper) => r.key # paper.key
    BY <1>3, <1>4, <1>7 DEF KeysApart, Held
  <2> QED
    BY <1>7, <2>1, <2>2 DEF KeysApart
<1>9. KeysAreNew(maker, r, paper, docs, F)
  <2>1. ASSUME NEW q, Holds(x) /\ Holds(q) => q.key # x.key, KeyIsNew(q, docs, files)
        PROVE  KeyIsNew(q, docs, F)
    BY <1>4, <2>1 DEF KeyIsNew, Holds
  <2>2. \A o \in Makers : KeyIsNew(maker[o], docs, F)
    BY <1>3, <1>7, <2>1 DEF KeysApart, KeysAreNew
  <2>3. KeyIsNew(paper, docs, F)
    BY <1>3, <1>7, <2>1 DEF KeysApart, KeysAreNew
  <2> QED
    BY <1>4, <2>2, <2>3 DEF KeysAreNew
<1>10. FilesKnown(F, docs, maker, r, paper)
  <2>1. ASSUME NEW k \in F, \A d \in docs : d.key # k
        PROVE  Held(k, maker, r, paper)
    <3>1. CASE Holds(r) /\ r.key = k
      BY <3>1 DEF Held
    <3>2. CASE ~(Holds(r) /\ r.key = k)
      <4>1. k \in files /\ ~(Holds(x) /\ k = x.key)
        BY <1>4, <2>1, <3>2
      <4>2. Held(k, maker, signing, paper)
        BY <1>7, <2>1, <4>1 DEF FilesKnown
      <4> QED
        BY <1>3, <4>1, <4>2 DEF Held
    <3> QED
      BY <3>1, <3>2
  <2> QED
    BY <2>1 DEF FilesKnown
<1>11. RowsThere(docs, F, paper, purge) /\ PurgeFits(agreement, docs, F, paper, purge)
  BY <1>4, PapersTell DEF RowsThere, PurgeFits
<1> QED
  BY <1>5, <1>8, <1>9, <1>10, <1>11, PapersTell, PapersFrom

LEMMA PaperHandles ==
  ASSUME PapersInv, NEW r \in {Papers!Idle, Papers!Done,
         [stage |-> "cut"]} \union PaperHolds, NEW F,
         paper' = r, files' = F, Handles(paper, r, F), paper.stage # "cut",
         r.stage = "put" => agreement.st = "DRAFT" /\ purge.stage \notin {"locked", "deleted"},
         UNCHANGED <<agreement, before, store, late, docs, maker, signing, purge>>
  PROVE  PapersInv'
<1>3. PICK x : x = paper
  OBVIOUS
<1>4. /\ KeyIsNew(r, docs, F) /\ F \subseteq PaperKey
      /\ Holds(r) => (Holds(x) /\ r.key = x.key) \/ ~Held(r.key, maker, signing, paper)
      /\ (\A k \in F : k \in files \/ (Holds(r) /\ k = r.key))
      /\ (\A k \in files : k \notin F => Holds(x) /\ k = x.key /\ \A d \in docs : d.key # k)
      /\ (\A k \in F : Holds(x) /\ k = x.key =>
            (Holds(r) /\ r.key = k) \/ \E d \in docs : d.key = k)
      /\ \A d \in docs : d.key \in F => d.key \in files
  BY <1>3 DEF Handles
<1>5. PapersTyped'
  BY <1>4, PapersTell DEF PapersTyped
<1>7. KeysApart(maker, signing, paper) /\ KeysAreNew(maker, signing, paper, docs, files)
      /\ FilesKnown(files, docs, maker, signing, paper)
  BY PapersTell
<1>8. KeysApart(maker, signing, r)
  <2>1. \A o \in Makers : Holds(r) /\ Holds(maker[o]) => r.key # maker[o].key
    BY <1>3, <1>4, <1>7 DEF KeysApart, Held
  <2>2. Holds(r) /\ Holds(signing) => r.key # signing.key
    BY <1>3, <1>4, <1>7 DEF KeysApart, Held
  <2> QED
    BY <1>7, <2>1, <2>2 DEF KeysApart
<1>9. KeysAreNew(maker, signing, r, docs, F)
  <2>1. ASSUME NEW q, Holds(x) /\ Holds(q) => q.key # x.key, KeyIsNew(q, docs, files)
        PROVE  KeyIsNew(q, docs, F)
    BY <1>4, <2>1 DEF KeyIsNew, Holds
  <2>2. \A o \in Makers : KeyIsNew(maker[o], docs, F)
    BY <1>3, <1>7, <2>1 DEF KeysApart, KeysAreNew
  <2>3. KeyIsNew(signing, docs, F)
    BY <1>3, <1>7, <2>1 DEF KeysApart, KeysAreNew
  <2> QED
    BY <1>4, <2>2, <2>3 DEF KeysAreNew
<1>10. FilesKnown(F, docs, maker, signing, r)
  <2>1. ASSUME NEW k \in F, \A d \in docs : d.key # k
        PROVE  Held(k, maker, signing, r)
    <3>1. CASE Holds(r) /\ r.key = k
      BY <3>1 DEF Held
    <3>2. CASE ~(Holds(r) /\ r.key = k)
      <4>1. k \in files /\ ~(Holds(x) /\ k = x.key)
        BY <1>4, <2>1, <3>2
      <4>2. Held(k, maker, signing, paper)
        BY <1>7, <2>1, <4>1 DEF FilesKnown
      <4> QED
        BY <1>3, <4>1, <4>2 DEF Held
    <3> QED
      BY <3>1, <3>2
  <2> QED
    BY <2>1 DEF FilesKnown
<1>11. RowsThere(docs, F, r, purge) /\ PurgeFits(agreement, docs, F, r, purge)
  BY <1>4, PapersTell DEF RowsThere, PurgeFits
<1> QED
  BY <1>5, <1>8, <1>9, <1>10, <1>11, PapersTell, PapersFrom

-----------------------------------------------------------------------------
(* Signing and making papers                                               *)

LEMMA SigningSteps ==
  ASSUME PapersInv, Papers!OpenScreen \/ Papers!PutSignature \/ Papers!SignFails
         \/ Papers!SignCleanUp \/ Papers!CloseScreen
  PROVE  PapersInv'
<1>1. CASE Papers!OpenScreen
  <2>1. PICK r : r = [stage |-> "open", sent |-> agreement.sent, terms |-> agreement.terms]
    OBVIOUS
  <2>2. /\ signing = Papers!Idle /\ agreement.st = "PENDING_SIGNATURE" /\ signing' = r
        /\ UNCHANGED <<agreement, before, store, late, docs, files, maker, paper, purge>>
    BY <1>1, <2>1 DEF Papers!OpenScreen, Papers!contractVars, Papers!storageVars
  <2>3. /\ r \in SigningOpen /\ r.stage = "open" /\ ~Holds(r) /\ ~Holds(signing)
        /\ SigningTells(agreement, r)
    BY <2>1, <2>2, PapersTell, StagesTell DEF SigningOpen, Agreements, Holds, SigningTells
  <2> QED
    BY <2>2, <2>3, NoObject, SigningHandles
<1>2. CASE Papers!PutSignature
  <2>1. PICK key : key = Papers!Put(signing.terms, Papers!None)
    OBVIOUS
  <2>2. PICK r : signing' = r
    OBVIOUS
  <2>3. /\ signing.stage = "open" /\ Papers!Room /\ files' = files \union {key}
        /\ \E stage \in {"put", "failed"} :
             r = [stage |-> stage, sent |-> signing.sent, terms |-> signing.terms, key |-> key]
        /\ UNCHANGED <<agreement, before, store, late, docs, maker, paper, purge>>
    BY <1>2, <2>1, <2>2 DEF Papers!PutSignature, Papers!At, Papers!contractVars
  <2>4. signing.sent \in Nat /\ signing.terms \in Nat /\ Papers!None \in Nat /\ ~Holds(signing)
    BY <2>3, PapersTell, SigningStages DEF Papers!None, Holds
  <2>5. key \in PaperKey /\ key.terms = signing.terms
    BY <2>1, <2>3, <2>4, PutIsNew
  <2>6. /\ r \in SigningHolds /\ Holds(r) /\ r.key = key /\ r.sent = signing.sent
        /\ r.terms = signing.terms
    BY <2>3, <2>4, <2>5 DEF SigningHolds, Holds
  <2>7. SigningTells(agreement, r)
    BY <2>3, <2>5, <2>6, PapersTell DEF SigningTells
  <2>8. PICK F : F = files \union {key}
    OBVIOUS
  <2>9. Handles(signing, r, F)
    BY <2>1, <2>3, <2>4, <2>6, <2>8, NewObject
  <2> QED
    BY <2>2, <2>3, <2>6, <2>7, <2>8, <2>9, SigningHandles
<1>3. CASE Papers!SignFails
  <2>1. PICK r : r = [signing EXCEPT !.stage = "failed"]
    OBVIOUS
  <2>2. /\ signing.stage = "put" /\ signing' = r
        /\ UNCHANGED <<agreement, before, store, late, docs, files, maker, paper, purge>>
    BY <1>3, <2>1 DEF Papers!SignFails, Papers!contractVars, Papers!storageVars
  <2>3. signing \in SigningHolds /\ Holds(signing)
    BY <2>2, PapersTell, SigningStages DEF Holds
  <2>4. /\ r \in SigningHolds /\ r.stage = "failed" /\ r.key = signing.key
             /\ r.sent = signing.sent
        /\ r.terms = signing.terms
    BY <2>1, <2>3 DEF SigningHolds
  <2>5. Holds(r) /\ SigningTells(agreement, r)
    BY <2>2, <2>3, <2>4, PapersTell DEF SigningTells, Holds
  <2> QED
    BY <2>2, <2>3, <2>4, <2>5, SameObject, SigningHandles
<1>4. CASE Papers!SignCleanUp
  <2>1. PICK r, F : signing' = r /\ files' = F
    OBVIOUS
  <2>2. /\ signing.stage = "failed" /\ Papers!CleanUp(signing.key)
             /\ r \in {Papers!Idle, Papers!Done}
        /\ UNCHANGED <<agreement, before, store, late, docs, maker, paper, purge>>
    BY <1>4, <2>1 DEF Papers!SignCleanUp, Papers!contractVars
  <2>3. Holds(signing) /\ ~Holds(r) /\ SigningTells(agreement, r)
    BY <2>2, StagesTell DEF Holds, SigningTells
  <2>4. Handles(signing, r, F)
    BY <2>1, <2>2, <2>3, LeftObject
  <2> QED
    BY <2>1, <2>2, <2>3, <2>4, SigningHandles
<1>5. CASE Papers!CloseScreen
  <2>1. /\ signing.stage = "open" /\ signing' = Papers!Idle
        /\ UNCHANGED <<agreement, before, store, late, docs, files, maker, paper, purge>>
    BY <1>5 DEF Papers!CloseScreen, Papers!contractVars, Papers!storageVars
  <2>2. ~Holds(signing) /\ ~Holds(Papers!Idle) /\ SigningTells(agreement, Papers!Idle)
    BY <2>1, StagesTell DEF Holds, SigningTells
  <2> QED
    BY <2>1, <2>2, NoObject, SigningHandles
<1> QED
  BY <1>1, <1>2, <1>3, <1>4, <1>5

\* The signature's row is written with what the worker read, which is what the contract says.
LEMMA SignKeeps ==
  ASSUME PapersInv, Papers!Sign
  PROVE  PapersInv'
<1>1. PICK c, D, r, key :
           /\ c = [agreement EXCEPT !.st = "SIGNED", !.employer = store] /\ key = signing.key
           /\ D = docs \union {Papers!Row("SIGNATURE", Papers!None, key)} /\ r = signing'
  OBVIOUS
<1>2. /\ signing.stage = "put" /\ ~Papers!Locked /\ agreement.st = "PENDING_SIGNATURE"
      /\ agreement.sent = signing.sent /\ agreement' = c /\ docs' = D
      /\ r \in {Papers!Done, [signing EXCEPT !.stage = "failed"]}
      /\ UNCHANGED <<before, store, late, files, maker, paper, purge>>
  BY <1>1 DEF Papers!Sign, Papers!Signable
<1>3. signing \in SigningHolds /\ Holds(signing) /\ key \in PaperKey
  BY <1>1, <1>2, PapersTell, SigningStages DEF Holds
<1>4. /\ c \in Agreements /\ c.st = "SIGNED" /\ c.sent = agreement.sent
           /\ c.terms = agreement.terms
      /\ c.restored = agreement.restored
  BY <1>1, <1>2, PapersTell DEF Agreements
<1>5. PICK d : d = Papers!Row("SIGNATURE", Papers!None, key)
  OBVIOUS
<1>6. d \in PaperRow /\ d.kind = "SIGNATURE" /\ d.key = key /\ D = docs \union {d}
  BY <1>1, <1>3, <1>5 DEF Papers!Row, PaperRow, Papers!None
<1>7. /\ r \in {Papers!Idle, Papers!Done} \union SigningOpen \union SigningHolds
           /\ r.stage # "put"
      /\ Holds(r) => r.key = key /\ r.terms = signing.terms
  BY <1>1, <1>2, <1>3, StagesTell DEF SigningHolds, Holds
<1>8. PapersTyped'
  BY <1>1, <1>2, <1>4, <1>6, <1>7, PapersTell DEF PapersTyped
<1>9. key.terms = agreement.terms
  BY <1>1, <1>2, <1>3, PapersTell DEF SigningTells, Agreements
<1>10. RowsTell(c, D)
  BY <1>2, <1>4, <1>6, <1>9, PapersTell DEF RowsTell
<1>11. MakersTell(c, D, maker)
  BY <1>2, <1>4, <1>6, PapersTell DEF MakersTell, MakerTells
<1>12. SigningTells(c, r)
  BY <1>2, <1>3, <1>4, <1>7, <1>1, PapersTell DEF SigningTells
<1>13. TellsSend(c, c.sent, c.terms)
  BY <1>4, PapersTell DEF TellsSend
<1>14. KeysApart(maker, r, paper)
  BY <1>1, <1>3, <1>7, PapersTell DEF KeysApart
<1>15. KeysAreNew(maker, r, paper, D, files)
  <2>1. \A m \in Makers : KeyIsNew(maker[m], D, files)
    BY <1>1, <1>3, <1>6, PapersTell DEF KeysApart, KeysAreNew, KeyIsNew, Holds
  <2>2. KeyIsNew(paper, D, files) /\ KeyIsNew(r, D, files)
    BY <1>2, <1>7, LockedTells DEF KeyIsNew
  <2> QED
    BY <2>1, <2>2 DEF KeysAreNew
<1>16. FilesKnown(files, D, maker, r, paper)
  BY <1>1, <1>6, PapersTell DEF FilesKnown, Held
<1>17. key \in files
  BY <1>1, <1>2, PapersTell DEF KeysAreNew, KeyIsNew
<1>18. RowsThere(D, files, paper, purge) /\ PurgeFits(c, D, files, paper, purge)
  BY <1>2, <1>4, <1>6, <1>17, PapersTell, LockedTells DEF RowsThere, PurgeFits
<1> QED
  BY <1>1, <1>2, <1>8, <1>10, <1>11, <1>12, <1>13, <1>14, <1>15, <1>16, <1>18, PapersFrom

LEMMA MakerSteps ==
  ASSUME PapersInv, NEW m \in Makers,
         \/ \E kind \in {"SENT_ORIGINAL", "SIGNED_COPY"} : Papers!Read(m, kind)
         \/ Papers!PutPaper(m) \/ Papers!InsertFails(m) \/ Papers!MakeCleanUp(m)
              \/ Papers!MakeDies(m)
  PROVE  PapersInv'
<1>0. PICK x : x = maker[m]
  OBVIOUS
<1>9. x \in {Papers!Idle} \union MakerReads \union MakerHolds /\ MakerTells(agreement, docs, x)
  BY <1>0, PapersTell DEF MakersTell
<1>1. ASSUME NEW kind \in {"SENT_ORIGINAL", "SIGNED_COPY"}, Papers!Read(m, kind)
      PROVE  PapersInv'
  <2>1. PICK r : r = Papers!Reading(kind)
    OBVIOUS
  <2>2. /\ x = Papers!Idle /\ maker' = [maker EXCEPT ![m] = r] /\ Papers!Makeable(kind)
        /\ UNCHANGED <<agreement, before, store, late, docs, files, signing, paper, purge>>
    BY <1>0, <1>1, <2>1 DEF Papers!Read, Papers!contractVars, Papers!storageVars
  <2>3. /\ r.stage = "read" /\ r.kind = kind /\ r.sent = agreement.sent
             /\ r.terms = agreement.terms
        /\ r.employer = Papers!Employer(kind)
        /\ r.backfill = (kind = "SIGNED_COPY" /\ agreement.employer = Papers!None)
    BY <2>1 DEF Papers!Reading
  <2>4. r \in MakerReads
    BY <2>1, PapersTell DEF Papers!Reading, MakerReads, MadeKinds, Papers!Employer, Agreements
  <2>5. MakerTells(agreement, docs, r)
    <3>1. CASE kind = "SENT_ORIGINAL"
      BY <2>2, <2>3, <3>1, PapersTell DEF MakerTells, TellsSend, Papers!Makeable
    <3>2. CASE kind = "SIGNED_COPY"
      <4>1. agreement.st = "SIGNED"
        BY <2>2, <3>2, PapersTell DEF Papers!Makeable, Papers!Has, RowsTell
      <4> QED
        BY <2>3, <3>2, <4>1 DEF MakerTells, Papers!Employer
    <3> QED
      BY <3>1, <3>2
  <2>6. ~Holds(x) /\ ~Holds(r)
    BY <2>2, <2>3, StagesTell DEF Holds
  <2> QED
    BY <1>0, <2>2, <2>4, <2>5, <2>6, NoObject, MakerHandles
<1>2. CASE Papers!PutPaper(m)
  <2>1. PICK key : key = Papers!Put(x.terms, x.employer)
    OBVIOUS
  <2>2. PICK r : r = [stage |-> "put", kind |-> x.kind, sent |-> x.sent,
                      backfill |-> x.backfill, key |-> key]
    OBVIOUS
  <2>3. /\ x.stage = "read" /\ Papers!Room /\ files' = files \union {key}
        /\ maker' = [maker EXCEPT ![m] = r]
        /\ UNCHANGED <<agreement, before, store, late, docs, signing, paper, purge>>
    BY <1>0, <1>2, <2>1, <2>2 DEF Papers!PutPaper, Papers!contractVars
  <2>4. /\ x.terms \in Nat /\ x.employer \in Nat /\ x.kind \in MadeKinds /\ x.sent \in Nat
        /\ x.backfill \in BOOLEAN /\ ~Holds(x)
    BY <1>9, <2>3, MakerStages DEF Holds
  <2>5. key \in PaperKey /\ key.terms = x.terms /\ key.employer = x.employer
    BY <2>1, <2>3, <2>4, PutIsNew
  <2>6. r \in MakerHolds /\ Holds(r) /\ r.key = key /\ r.stage = "put"
    BY <2>2, <2>4, <2>5 DEF MakerHolds, Holds
  <2>7. MakerTells(agreement, docs, r)
    BY <1>9, <2>2, <2>3, <2>5 DEF MakerTells
  <2>8. PICK F : F = files \union {key}
    OBVIOUS
  <2>9. Handles(x, r, F)
    BY <2>1, <2>3, <2>4, <2>6, <2>8, NewObject
  <2> QED
    BY <1>0, <2>3, <2>6, <2>7, <2>8, <2>9, MakerHandles
<1>3. CASE Papers!InsertFails(m)
  <2>1. PICK r : r = [x EXCEPT !.stage = "failed"]
    OBVIOUS
  <2>2. x.stage = "put"
    BY <1>0, <1>3 DEF Papers!InsertFails
  <2>3. x \in MakerHolds /\ Holds(x)
    BY <1>9, <2>2, MakerStages DEF Holds
  <2>4. r \in MakerHolds /\ Holds(r) /\ r.key = x.key /\ r.stage = "failed"
    BY <2>1, <2>3 DEF MakerHolds, Holds
  <2>5. MakerTells(agreement, docs, r)
    BY <1>9, <2>1, <2>2, <2>3 DEF MakerTells, MakerHolds
  <2>6. /\ maker' = [maker EXCEPT ![m] = r]
        /\ UNCHANGED <<agreement, before, store, late, docs, files, signing, paper, purge>>
    BY <1>0, <1>3, <2>1, PapersTell DEF Papers!InsertFails, Papers!contractVars,
       Papers!storageVars
  <2> QED
    BY <1>0, <2>3, <2>4, <2>5, <2>6, SameObject, MakerHandles
<1>4. CASE Papers!MakeCleanUp(m) \/ (Papers!MakeDies(m) /\ x.stage # "read")
  <2>1. PICK F : files' = F
    OBVIOUS
  <2>2. /\ x # Papers!Idle /\ x.stage # "read" /\ Papers!CleanUp(x.key)
        /\ maker' = [maker EXCEPT ![m] = Papers!Idle]
        /\ UNCHANGED <<agreement, before, store, late, docs, signing, paper, purge>>
    BY <1>0, <1>4, StagesTell DEF Papers!MakeCleanUp, Papers!MakeDies, Papers!contractVars
  <2>3. Holds(x) /\ ~Holds(Papers!Idle)
    BY <1>9, <2>2, MakerStages, StagesTell DEF Holds
  <2>4. MakerTells(agreement, docs, Papers!Idle)
    BY StagesTell DEF MakerTells
  <2>5. Handles(x, Papers!Idle, F)
    BY <2>1, <2>2, <2>3, LeftObject
  <2> QED
    BY <1>0, <2>1, <2>2, <2>4, <2>5, MakerHandles
<1>5. CASE Papers!MakeDies(m) /\ x.stage = "read"
  <2>1. /\ maker' = [maker EXCEPT ![m] = Papers!Idle]
        /\ UNCHANGED <<agreement, before, store, late, docs, files, signing, paper, purge>>
    BY <1>0, <1>5 DEF Papers!MakeDies, Papers!contractVars
  <2>2. ~Holds(x) /\ ~Holds(Papers!Idle) /\ MakerTells(agreement, docs, Papers!Idle)
    BY <1>5, StagesTell DEF Holds, MakerTells
  <2> QED
    BY <1>0, <2>1, <2>2, NoObject, MakerHandles
<1> QED
  BY <1>1, <1>2, <1>3, <1>4, <1>5

\* The row of an original or a copy; a copy keeps the employer it shows.
LEMMA InsertKeeps ==
  ASSUME PapersInv, NEW m \in Makers, NEW answered \in BOOLEAN, Papers!Insert(m, answered)
  PROVE  PapersInv'
<1>1. PICK x, r, key, c, d, D, M :
           /\ x = maker[m] /\ key = x.key /\ c = agreement' /\ d = Papers!Row(x.kind, x.sent, key)
           /\ D = docs \union {d}
           /\ r = IF answered THEN Papers!Idle ELSE [x EXCEPT !.stage = "failed"]
           /\ M = [maker EXCEPT ![m] = r]
  OBVIOUS
<1>2. /\ x.stage = "put" /\ ~Papers!Locked /\ agreement.st # "GONE"
           /\ ~Papers!Taken(x.kind, x.sent)
      /\ docs' = D /\ maker' = M
      /\ c = IF x.backfill /\ agreement.employer = Papers!None
             THEN [agreement EXCEPT !.employer = key.employer] ELSE agreement
      /\ UNCHANGED <<before, store, late, files, signing, paper, purge>>
  BY <1>1, PapersTell DEF Papers!Insert
<1>3. /\ x \in MakerHolds /\ Holds(x) /\ key \in PaperKey /\ x.kind \in MadeKinds
      /\ x.sent \in Nat /\ x.backfill \in BOOLEAN /\ MakerTells(agreement, docs, x)
  BY <1>1, <1>2, PapersTell, MakerStages DEF Holds, MakersTell
<1>4. /\ d \in PaperRow /\ d.kind = x.kind /\ d.sent = x.sent /\ d.key = key
  BY <1>1, <1>3 DEF Papers!Row, PaperRow
<1>5. /\ r \in {Papers!Idle} \union MakerHolds /\ r.stage \in {"idle", "failed"}
      /\ Holds(r) => r.key = key
  BY <1>1, <1>3, StagesTell DEF MakerHolds, Holds
<1>6. /\ M \in [Makers -> {Papers!Idle} \union MakerReads \union MakerHolds]
      /\ M[m] = r /\ \A o \in Makers : o # m => M[o] = maker[o]
  BY <1>1, <1>5, PapersTell
<1>7. /\ c \in Agreements /\ c.st = agreement.st /\ c.sent = agreement.sent
      /\ c.terms = agreement.terms /\ c.restored = agreement.restored
      /\ c.employer # agreement.employer => x.backfill /\ agreement.employer = Papers!None
      /\ x.backfill /\ agreement.employer = Papers!None => c.employer = key.employer
  BY <1>2, <1>3, PapersTell DEF Agreements, PaperKey
<1>8. PapersTyped'
  BY <1>1, <1>2, <1>4, <1>6, <1>7, PapersTell DEF PapersTyped
<1>9. x.backfill => x.kind = "SIGNED_COPY"
  BY <1>2, <1>3 DEF MakerTells, MadeKinds
<1>10. x.kind = "SIGNED_COPY" =>
          /\ agreement.st = "SIGNED" /\ x.sent = agreement.sent /\ key.terms = agreement.terms
          /\ ~\E e \in docs : e.kind = "SIGNED_COPY"
          /\ key.employer = c.employer
  <2>1. ASSUME x.kind = "SIGNED_COPY"
        PROVE  /\ agreement.st = "SIGNED" /\ x.sent = agreement.sent
                    /\ key.terms = agreement.terms
               /\ ~\E e \in docs : e.kind = "SIGNED_COPY"
               /\ key.employer = c.employer
    <3>1. /\ agreement.st = "SIGNED" /\ x.sent = agreement.sent /\ key.terms = agreement.terms
          /\ ~x.backfill => agreement.employer # Papers!None /\ key.employer = agreement.employer
          /\ x.backfill => \/ agreement.employer = Papers!None
                           \/ \E e \in docs : e.kind = "SIGNED_COPY" /\ e.sent = agreement.sent
      BY <1>1, <1>2, <1>3, <2>1, PapersTell DEF MakerTells, Agreements
    <3>2. ~\E e \in docs : e.kind = "SIGNED_COPY"
      BY <1>2, <2>1, <3>1, PapersTell DEF Papers!Taken, RowsTell
    <3> QED
      BY <1>7, <3>1, <3>2
  <2> QED
    BY <2>1
<1>11. RowsTell(c, D)
  <2>1. ASSUME NEW e \in docs
        PROVE  /\ e.kind = "SENT_ORIGINAL" => e.key.terms = e.sent \/ e.sent \in c.restored
               /\ e.kind = "SIGNATURE" => c.st = "SIGNED" /\ e.key.terms = c.terms
               /\ e.kind = "SIGNED_COPY" => /\ c.st = "SIGNED" /\ e.sent = c.sent
                                            /\ e.key.terms = c.terms
                                                 /\ e.key.employer = c.employer
    BY <1>7, <1>9, <1>10, PapersTell DEF RowsTell
  <2>2. /\ d.kind = "SENT_ORIGINAL" => d.key.terms = d.sent \/ d.sent \in c.restored
        /\ d.kind # "SIGNATURE"
        /\ d.kind = "SIGNED_COPY" => /\ c.st = "SIGNED" /\ d.sent = c.sent
                                     /\ d.key.terms = c.terms /\ d.key.employer = c.employer
    BY <1>1, <1>2, <1>3, <1>4, <1>7, <1>10 DEF MakerTells, MadeKinds
  <2> QED
    BY <1>1, <2>1, <2>2 DEF RowsTell
<1>12. MakersTell(c, D, M)
  <2>1. MakerTells(c, D, r)
    <3>1. CASE answered
      BY <1>1, <3>1, StagesTell DEF MakerTells
    <3>2. CASE ~answered
      <4>1. /\ r.stage = "failed" /\ r.kind = x.kind /\ r.sent = x.sent /\ r.backfill = x.backfill
            /\ r.key = key
        BY <1>1, <1>3, <3>2 DEF MakerHolds
      <4>2. d \in D
        BY <1>1
      <4>3. x.kind = "SENT_ORIGINAL" =>
              ~x.backfill /\ (key.terms = x.sent \/ x.sent \in c.restored)
        BY <1>1, <1>2, <1>3, <1>7 DEF MakerTells
      <4>4. x.kind = "SIGNED_COPY" /\ ~x.backfill => c.employer # Papers!None
        BY <1>2, <1>3, <1>7 DEF MakerTells
      <4> QED
        BY <1>4, <1>7, <1>10, <4>1, <4>2, <4>3, <4>4 DEF MakerTells
    <3> QED
      BY <3>1, <3>2
  <2>2. ASSUME NEW o \in Makers, o # m
        PROVE  MakerTells(c, D, maker[o])
    <3>1. MakerTells(agreement, docs, maker[o])
      BY PapersTell DEF MakersTell
    <3>2. CASE c.employer = agreement.employer
      BY <1>1, <1>7, <3>1, <3>2 DEF MakerTells
    <3>3. CASE c.employer # agreement.employer
      <4>1. d \in D /\ d.kind = "SIGNED_COPY" /\ d.sent = c.sent
              /\ agreement.employer = Papers!None
        BY <1>1, <1>4, <1>7, <1>9, <1>10, <3>3
      <4> QED
        BY <1>7, <3>1, <4>1 DEF MakerTells
    <3> QED
      BY <3>2, <3>3
  <2> QED
    BY <1>6, <2>1, <2>2 DEF MakersTell
<1>13. SigningTells(c, signing) /\ TellsSend(c, c.sent, c.terms)
  BY <1>7, PapersTell DEF SigningTells, TellsSend
<1>14. KeysApart(M, signing, paper)
  BY <1>1, <1>3, <1>5, <1>6, PapersTell DEF KeysApart
<1>15. KeysAreNew(M, signing, paper, D, files)
  <2>1. ASSUME NEW q, Holds(q) => q.key # key, KeyIsNew(q, docs, files)
        PROVE  KeyIsNew(q, D, files)
    BY <1>1, <1>4, <2>1 DEF KeyIsNew, Holds
  <2>2. \A o \in Makers : o # m => KeyIsNew(maker[o], D, files)
    BY <1>1, <1>3, <2>1, PapersTell DEF KeysApart, KeysAreNew
  <2>3. KeyIsNew(signing, D, files) /\ KeyIsNew(paper, D, files)
    BY <1>1, <1>3, <2>1, PapersTell DEF KeysApart, KeysAreNew
  <2>4. KeyIsNew(r, D, files)
    BY <1>5 DEF KeyIsNew
  <2> QED
    BY <1>6, <2>2, <2>3, <2>4 DEF KeysAreNew
<1>16. FilesKnown(files, D, M, signing, paper)
  <2>1. ASSUME NEW k \in files, \A e \in D : e.key # k
        PROVE  Held(k, M, signing, paper)
    <3>1. Held(k, maker, signing, paper) /\ k # key
      BY <1>1, <1>4, <2>1, PapersTell DEF FilesKnown
    <3> QED
      BY <1>1, <1>6, <3>1 DEF Held
  <2> QED
    BY <2>1 DEF FilesKnown
<1>17. key \in files
  BY <1>1, <1>2, PapersTell DEF KeysAreNew, KeyIsNew
<1>18. RowsThere(D, files, paper, purge) /\ PurgeFits(c, D, files, paper, purge)
  BY <1>1, <1>2, <1>4, <1>7, <1>17, PapersTell, LockedTells DEF RowsThere, PurgeFits
<1> QED
  BY <1>1, <1>2, <1>8, <1>11, <1>12, <1>13, <1>14, <1>15, <1>16, <1>18, PapersFrom

-----------------------------------------------------------------------------
(* Registration of a paper and purge                                       *)

LEMMA PaperSteps ==
  ASSUME PapersInv, Papers!RegisterPaper \/ Papers!PaperFails
  PROVE  PapersInv'
<1>1. CASE Papers!RegisterPaper
  <2>1. PICK key, r, F : /\ key = Papers!Put(agreement.terms, Papers!None)
                         /\ r = [stage |-> "put", key |-> key]
                         /\ F = files \union {key}
    OBVIOUS
  <2>2. /\ agreement.st = "DRAFT" /\ paper = Papers!Idle /\ ~Papers!Locked /\ Papers!Room
             /\ files' = F /\ paper' = r
        /\ UNCHANGED <<agreement, before, store, late, docs, maker, signing, purge>>
    BY <1>1, <2>1 DEF Papers!RegisterPaper, Papers!contractVars
  <2>3. agreement.terms \in Nat /\ Papers!None \in Nat
    BY PapersTell DEF Agreements, Papers!None
  <2>4. key \in PaperKey
    BY <2>1, <2>2, <2>3, PutIsNew
  <2>5. r \in PaperHolds /\ Holds(r) /\ r.key = key /\ ~Holds(paper) /\ paper.stage # "cut"
    BY <2>1, <2>2, <2>4, StagesTell DEF PaperHolds, Holds
  <2>6. Handles(paper, r, F)
    BY <2>1, <2>2, <2>3, <2>5, NewObject
  <2> QED
    BY <2>2, <2>5, <2>6, LockedTells, PaperHandles
<1>2. CASE Papers!PaperFails
  <2>1. PICK F : F = files \ {paper.key}
    OBVIOUS
  <2>2. /\ paper.stage = "put" /\ paper' = Papers!Idle /\ files' = F
        /\ UNCHANGED <<agreement, before, store, late, docs, maker, signing, purge>>
    BY <1>2, <2>1 DEF Papers!PaperFails, Papers!contractVars
  <2>3. Holds(paper) /\ ~Holds(Papers!Idle) /\ Papers!Idle.stage # "put"
          /\ \A d \in docs : d.key # paper.key
    BY <2>2, PapersTell, StagesTell DEF Holds, KeysAreNew, KeyIsNew
  <2>4. Handles(paper, Papers!Idle, F)
    BY <2>1, <2>3, DroppedObject
  <2> QED
    BY <2>2, <2>3, <2>4, PaperHandles
<1> QED
  BY <1>1, <1>2

LEMMA PaperCommittedKeeps ==
  ASSUME PapersInv, Papers!PaperCommitted
  PROVE  PapersInv'
<1>1. PICK c, key, d, D, p, F :
           /\ c = [agreement EXCEPT !.st = "SIGNED", !.sent = Papers!None] /\ key = paper.key
           /\ d = Papers!Row("PAPER_EMPLOYMENT_CONTRACT", Papers!None, key) /\ D = docs \union {d}
           /\ p = paper' /\ F = files'
  OBVIOUS
<1>2. /\ paper.stage = "put" /\ docs' = D /\ agreement' = c
      /\ \/ p = Papers!Done /\ F = files
         \/ p = [stage |-> "cut"] /\ F = files \ {key}
      /\ UNCHANGED <<before, store, late, maker, signing, purge>>
  BY <1>1 DEF Papers!PaperCommitted
<1>3. /\ key \in PaperKey /\ agreement.st = "DRAFT" /\ Holds(paper) /\ key \in files
      /\ (\A e \in docs : e.key # key) /\ purge.stage \notin {"locked", "deleted"}
  BY <1>1, <1>2, PapersTell, PaperStages DEF Holds, PurgeFits, KeysAreNew, KeyIsNew
<1>4. /\ c \in Agreements /\ c.st = "SIGNED" /\ c.sent = Papers!None /\ c.terms = agreement.terms
      /\ c.restored = agreement.restored
  BY <1>1, PapersTell DEF Agreements, Papers!None
<1>5. d \in PaperRow /\ d.kind = "PAPER_EMPLOYMENT_CONTRACT" /\ d.key = key
  BY <1>1, <1>3 DEF Papers!Row, PaperRow, Papers!None
<1>6. /\ p \in {Papers!Idle, Papers!Done, [stage |-> "cut"]} \union PaperHolds
           /\ p.stage \in {"done", "cut"}
      /\ ~Holds(p) /\ F \subseteq files
  BY <1>2, StagesTell
<1>7. PapersTyped'
  BY <1>1, <1>2, <1>4, <1>5, <1>6, PapersTell DEF PapersTyped
<1>8. \A e \in docs : e.kind \notin {"SIGNATURE", "SIGNED_COPY"}
  BY <1>3, PapersTell DEF RowsTell
<1>9. RowsTell(c, D)
  BY <1>1, <1>4, <1>5, <1>8, PapersTell DEF RowsTell
<1>10. MakersTell(c, D, maker)
  BY <1>3, <1>4, PapersTell DEF MakersTell, MakerTells
<1>11. SigningTells(c, signing) /\ TellsSend(c, c.sent, c.terms)
  BY <1>3, <1>4, PapersTell DEF SigningTells, TellsSend
<1>12. KeysApart(maker, signing, p)
  BY <1>6, PapersTell DEF KeysApart
<1>13. KeysAreNew(maker, signing, p, D, F)
  <2>1. ASSUME NEW q, Holds(q) => q.key # key, KeyIsNew(q, docs, files)
        PROVE  KeyIsNew(q, D, F)
    BY <1>1, <1>2, <1>5, <2>1 DEF KeyIsNew, Holds
  <2>2. \A o \in Makers : KeyIsNew(maker[o], D, F)
    BY <1>1, <1>3, <2>1, PapersTell DEF KeysApart, KeysAreNew
  <2>3. KeyIsNew(signing, D, F)
    BY <1>1, <1>3, <2>1, PapersTell DEF KeysApart, KeysAreNew
  <2>4. KeyIsNew(p, D, F)
    BY <1>6 DEF KeyIsNew
  <2> QED
    BY <2>2, <2>3, <2>4 DEF KeysAreNew
<1>14. FilesKnown(F, D, maker, signing, p)
  <2>1. ASSUME NEW k \in F, \A e \in D : e.key # k
        PROVE  Held(k, maker, signing, p)
    <3>1. Held(k, maker, signing, paper) /\ k # key
      BY <1>1, <1>5, <1>6, <2>1, PapersTell DEF FilesKnown
    <3> QED
      BY <1>1, <3>1 DEF Held
  <2> QED
    BY <2>1 DEF FilesKnown
<1>15. RowsThere(D, F, p, purge)
  <2>1. CASE p = Papers!Done /\ F = files
    BY <1>1, <1>2, <1>3, <1>5, <2>1, PapersTell DEF RowsThere
  <2>2. CASE p = [stage |-> "cut"]
    BY <2>2, StagesTell DEF RowsThere
  <2> QED
    BY <1>2, <2>1, <2>2
<1>16. PurgeFits(c, D, F, p, purge)
  BY <1>3, <1>4, <1>6 DEF PurgeFits
<1> QED
  BY <1>1, <1>2, <1>7, <1>9, <1>10, <1>11, <1>12, <1>13, <1>14, <1>15, <1>16, PapersFrom

\* What the purge deletes are files of rows, which nobody holds but who failed.
LEMMA PurgeSteps ==
  ASSUME PapersInv, Papers!PurgeLocks \/ Papers!PurgeDeletes \/ Papers!PurgeCommits
         \/ Papers!PurgeAborts
  PROVE  PapersInv'
<1>1. CASE Papers!PurgeLocks \/ Papers!PurgeAborts
  <2>1. PICK u : u = purge'
    OBVIOUS
  <2>2. /\ UNCHANGED <<agreement, before, store, late, docs, files, maker, signing, paper>>
        /\ \/ u = [stage |-> "locked"] /\ agreement.st = "SIGNED" /\ ~Papers!Locked
           \/ u = [stage |-> "deferred"] /\ purge.stage = "deleted"
    BY <1>1, <2>1 DEF Papers!PurgeLocks, Papers!PurgeAborts, Papers!contractVars,
       Papers!storageVars
  <2>3. PapersTyped'
    BY <2>1, <2>2, PapersTell DEF PapersTyped
  <2>4. u.stage \in {"locked", "deferred"} /\ u # Papers!Idle
    BY <2>2 DEF Papers!Idle
  <2>5. PurgeFits(agreement, docs, files, paper, u)
    BY <2>2, <2>4, PapersTell, LockedTells DEF PurgeFits
  <2>6. RowsThere(docs, files, paper, u)
    BY <2>4 DEF RowsThere
  <2> QED
    BY <2>1, <2>2, <2>3, <2>5, <2>6, PapersTell, PapersFrom
<1>2. CASE Papers!PurgeDeletes
  <2>1. PICK u, F : u = purge' /\ F = files'
    OBVIOUS
  <2>2. /\ UNCHANGED <<agreement, before, store, late, docs, maker, signing, paper>>
        /\ purge.stage = "locked"
        /\ \/ u = [stage |-> "deleted"] /\ F = files \ Papers!Listed
           \/ u = [stage |-> "deferred"] /\ \E some \in SUBSET Papers!Listed : F = files \ some
    BY <1>2, <2>1 DEF Papers!PurgeDeletes, Papers!contractVars
  <2>3. /\ F \subseteq files /\ \A k \in files : k \notin F => \E d \in docs : d.key = k
    BY <2>2 DEF Papers!Listed
  <2>4. PapersTyped'
    BY <2>1, <2>2, <2>3, PapersTell DEF PapersTyped
  <2>5. u.stage \in {"deleted", "deferred"} /\ u # Papers!Idle
    BY <2>2 DEF Papers!Idle
  <2>6. PurgeFits(agreement, docs, F, paper, u)
    <3>1. u.stage = "deleted" => \A d \in docs : d.key \notin F
      BY <2>2 DEF Papers!Listed
    <3> QED
      BY <2>2, <3>1, PapersTell DEF PurgeFits
  <2>7. RowsThere(docs, F, paper, u)
    BY <2>5 DEF RowsThere
  <2>8. KeysAreNew(maker, signing, paper, docs, F)
    BY <2>3, PapersTell DEF KeysAreNew, KeyIsNew
  <2>9. FilesKnown(F, docs, maker, signing, paper)
    BY <2>3, PapersTell DEF FilesKnown
  <2> QED
    BY <2>1, <2>2, <2>4, <2>6, <2>7, <2>8, <2>9, PapersTell, PapersFrom
<1>3. CASE Papers!PurgeCommits
  <2>1. PICK c : c = [agreement EXCEPT !.st = "GONE"]
    OBVIOUS
  <2>2. /\ purge.stage = "deleted" /\ docs' = {} /\ agreement' = c /\ purge' = Papers!Done
        /\ UNCHANGED <<before, store, late, files, maker, signing, paper>>
    BY <1>3, <2>1 DEF Papers!PurgeCommits
  <2>3. /\ c \in Agreements /\ c.st = "GONE" /\ c.sent = agreement.sent
             /\ c.terms = agreement.terms
        /\ c.restored = agreement.restored /\ c.employer = agreement.employer
    BY <2>1, PapersTell DEF Agreements
  <2>4. agreement.st = "SIGNED" /\ paper.stage # "put" /\ \A d \in docs : d.key \notin files
    BY <2>2, PapersTell DEF PurgeFits
  <2>5. PapersTyped'
    BY <2>2, <2>3, PapersTell DEF PapersTyped, Papers!Done
  <2>6. MakersTell(c, {}, maker) /\ SigningTells(c, signing) /\ TellsSend(c, c.sent, c.terms)
    BY <2>3, <2>4, PapersTell DEF MakersTell, MakerTells, SigningTells, TellsSend
  <2>7. RowsTell(c, {}) /\ RowsThere({}, files, paper, Papers!Done)
    BY DEF RowsTell, RowsThere
  <2>8. PurgeFits(c, {}, files, paper, Papers!Done)
    BY <2>4, StagesTell DEF PurgeFits
  <2>9. KeysAreNew(maker, signing, paper, {}, files)
    BY PapersTell DEF KeysAreNew, KeyIsNew
  <2>10. FilesKnown(files, {}, maker, signing, paper)
    BY <2>4, PapersTell DEF FilesKnown
  <2> QED
    BY <2>2, <2>5, <2>6, <2>7, <2>8, <2>9, <2>10, PapersTell, PapersFrom
<1> QED
  BY <1>1, <1>2, <1>3

-----------------------------------------------------------------------------
(* Papers in every state                                                   *)

LEMMA PapersInit ==
  ASSUME Papers!Init
  PROVE  PapersInv
<1>1. /\ store = 1 /\ late = FALSE /\ maker = [m \in Makers |-> Papers!Idle]
      /\ signing = Papers!Idle /\ paper = Papers!Idle /\ purge = Papers!Idle /\ DOMAIN before = {}
  BY DEF Papers!Init
<1>2. /\ agreement \in Agreements /\ docs \subseteq PaperRow /\ files \subseteq PaperKey
      /\ agreement.restored = {} /\ agreement.terms = agreement.sent
      /\ \/ docs = {} /\ files = {} /\ agreement.st = "DRAFT"
         \/ /\ docs = {Papers!Row("SIGNATURE", Papers!None, Papers!Old)} /\ files = {Papers!Old}
            /\ agreement.st = "SIGNED" /\ agreement.terms = 1
  BY DEF Papers!Init, Papers!Contract, Agreements, Papers!Row, PaperRow, PaperKey,
     Papers!Old, Papers!None
<1>3. PapersTyped
  BY <1>1, <1>2 DEF PapersTyped, Papers!Idle
<1>4. /\ Papers!Row("SIGNATURE", Papers!None, Papers!Old).kind = "SIGNATURE"
           /\ Papers!Row("SIGNATURE", Papers!None, Papers!Old).key = Papers!Old
      /\ Papers!Old.terms = 1
  BY DEF Papers!Row, Papers!Old
<1>5. RowsTell(agreement, docs) /\ TellsSend(agreement, agreement.sent, agreement.terms)
  BY <1>2, <1>4 DEF RowsTell, TellsSend
<1>6. \A m \in Makers : maker[m] = Papers!Idle
  BY <1>1
<1>7. MakersTell(agreement, docs, maker) /\ SigningTells(agreement, signing)
  BY <1>1, <1>6, StagesTell DEF MakersTell, MakerTells, SigningTells
<1>8. KeysApart(maker, signing, paper) /\ KeysAreNew(maker, signing, paper, docs, files)
  BY <1>1, <1>6, StagesTell DEF KeysApart, KeysAreNew, KeyIsNew
<1>9. FilesKnown(files, docs, maker, signing, paper)
  BY <1>2, <1>4 DEF FilesKnown
<1>10. RowsThere(docs, files, paper, purge) /\ PurgeFits(agreement, docs, files, paper, purge)
  BY <1>1, <1>2, <1>4, StagesTell DEF RowsThere, PurgeFits
<1> QED
  BY <1>3, <1>5, <1>7, <1>8, <1>9, <1>10 DEF PapersInv

LEMMA PapersNext ==
  ASSUME PapersInv, [Papers!Next]_papersSide
  PROVE  PapersInv'
<1>1. CASE UNCHANGED papersSide
  BY <1>1, PapersTell, ContractMoves DEF papersSide, Papers!contractVars,
     Papers!storageVars, Papers!workVars
<1>2. ASSUME NEW m \in Makers, Papers!Makes(m)
      PROVE  PapersInv'
  BY <1>2, MakerSteps, InsertKeeps DEF Papers!Makes
<1> QED
  BY <1>1, <1>2, ContractSteps, SigningSteps, SignKeeps, PaperSteps, PaperCommittedKeeps,
     PurgeSteps
  DEF Papers!Next

LEMMA PapersPromise ==
  ASSUME PapersInv
  PROVE  Papers!RowsAndFiles /\ Papers!PapersTellWhatWasAgreed
<1>1. \A d \in docs : d.key \in files \/ purge # Papers!Idle \/ paper.stage = "cut"
  BY PapersTell DEF RowsThere
<1>2. agreement.st = "GONE" => files \subseteq Papers!InFlight
  BY PapersTell, HeldIsInFlight DEF PurgeFits, FilesKnown
<1>3. Papers!PapersTellWhatWasAgreed
  BY PapersTell DEF RowsTell, Papers!PapersTellWhatWasAgreed
<1> QED
  BY <1>1, <1>2, <1>3 DEF Papers!RowsAndFiles

\* PapersInv holds at every step of the sends, the signing, the making of papers, the
\* registration and the purge of one contract.
THEOREM PapersInvariant == PartsSpec => []PapersInv
<1>1. PartsInit => PapersInv
  BY PapersInit DEF PartsInit
<1>2. PapersInv /\ [PartsNext]_<<vars, codeSide, papersSide, part>> => PapersInv'
  <2> SUFFICES ASSUME PapersInv, [PartsNext]_<<vars, codeSide, papersSide, part>>
               PROVE  PapersInv'
    OBVIOUS
  <2>1. [Papers!Next]_papersSide
    BY DEF PartsNext
  <2> QED
    BY <2>1, PapersNext
<1> QED
  BY <1>1, <1>2, PTL DEF PartsSpec

\* What a row of contract_documents refers to is in the storage, whatever failed after
\* the commit that wrote it; and a purge leaves nothing but what a request still holds.
THEOREM FilesAreThere == PartsSpec => []RowsAndFiles
<1>1. PapersInv => RowsAndFiles
  BY PapersPromise DEF RowsAndFiles
<1> QED
  BY <1>1, PapersInvariant, PTL

\* The original says what was sent, the worker signs what they read, and the copy says
\* what was signed, with the employer that the contract keeps.
THEOREM PapersAreTrue == PartsSpec => []PapersTellWhatWasAgreed
<1>1. PapersInv => PapersTellWhatWasAgreed
  BY PapersPromise DEF PapersTellWhatWasAgreed
<1> QED
  BY <1>1, PapersInvariant, PTL
=============================================================================
