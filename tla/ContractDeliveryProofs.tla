----------------------- MODULE ContractDeliveryProofs -----------------------
(***************************************************************************)
(* Theorems about ContractDelivery, for any number of records, phones,     *)
(* contracts and sends.  The inductive invariant is IInv of that module.   *)
(***************************************************************************)
EXTENDS ContractDelivery, TLAPS

-----------------------------------------------------------------------------
(* Facts about the operators the actions are built from                    *)

\* Anything but an app message goes to somebody who has not joined.
LEMMA ChannelToApplicants ==
  ASSUME NEW joined \in BOOLEAN, NEW act \in DraftActions
  PROVE  /\ ChannelOf(joined, act) \in {"APP", "INVITE", "AFFILIATION"}
         /\ ChannelOf(joined, act) # "APP" => ~joined
BY DEF ChannelOf, DraftActions

\* A send leaves the contract waiting for the worker or for the signature.
LEMMA DeliveredStatusType ==
  ASSUME NEW joined, NEW act
  PROVE  DeliveredStatusOf(joined, act) \in {"PENDING_SEND", "PENDING_SIGNATURE"}
BY DEF DeliveredStatusOf

\* A new history row keeps to the columns of the history.
LEMMA MovedType ==
  ASSUME NEW h \in HistoryRows, NEW to \in Statuses, NEW send \in StampsOrNever
  PROVE  Moved(h, to, send) \in HistoryRows
BY DEF Moved, HistoryRows

\* Judging a number gives a kind of invitation and an account that has it.
LEMMA JudgedType ==
  ASSUME NEW ph \in Phones
  PROVE  /\ Judged(ph) \in DraftActions \ {"NONE"}
         /\ JudgedCandidate(ph) \in Phones \union {NoOne}
BY DEF Judged, JudgedCandidate, DraftActions

\* Closing invitations changes nothing but their status.
LEMMA ExpireCloses ==
  ASSUME NEW S, TypeOK
  PROVE  /\ Expire(S) \in [Stamps -> InvitationRow]
         /\ \A n \in Stamps :
              /\ Expire(S)[n].staff = inv[n].staff
              /\ Expire(S)[n].st = "NONE" <=> inv[n].st = "NONE"
              /\ Expire(S)[n].st = "SENT" => inv[n].st = "SENT" /\ inv[n].staff \notin S
<1>1. ASSUME NEW n \in Stamps
      PROVE  /\ Expire(S)[n] \in InvitationRow
             /\ Expire(S)[n].staff = inv[n].staff
             /\ Expire(S)[n].st = "NONE" <=> inv[n].st = "NONE"
             /\ Expire(S)[n].st = "SENT" => inv[n].st = "SENT" /\ inv[n].staff \notin S
  <2>1. inv[n] \in InvitationRow
    BY DEF TypeOK
  <2>2. Expire(S)[n] = IF inv[n].st = "SENT" /\ inv[n].staff \in S
                       THEN [inv[n] EXCEPT !.st = "EXPIRED"] ELSE inv[n]
    BY DEF Expire
  <2> QED
    BY <2>1, <2>2 DEF InvitationRow
<1>2. Expire(S) = [n \in Stamps |-> Expire(S)[n]]
  BY DEF Expire
<1> QED
  BY <1>1, <1>2

-----------------------------------------------------------------------------
(* The links                                                               *)

\* A step that only closes invitations, and settles sends or leaves them as
\* they are, keeps the links in order.
LEMMA ClosingKeepsOrder ==
  ASSUME TypeOK, LinksInOrder,
         stamps' \in StampsOrNever, stamps <= stamps',
         \A n \in Stamps :
           \/ /\ inv'[n].staff = inv[n].staff /\ (inv'[n].st = "NONE" <=> inv[n].st = "NONE")
              /\ inv'[n].st = "SENT" => inv[n].st = "SENT"
           \/ inv'[n] = NoInvitation,
         \A q \in pending' : \E p \in pending :
           q.send = p.send /\ q.staff = p.staff /\ q.expired = p.expired
  PROVE  LinksInOrder'
<1> USE DEF LinksInOrder, Stamps, StampsOrNever, NoInvitation
<1>1. LinksAreStamped'
  BY DEF LinksAreStamped, TypeOK
<1>2. OneLiveInvitation'
  BY DEF OneLiveInvitation
<1>3. SendsKnowTheirLinks'
  <2> SUFFICES ASSUME NEW q \in pending'
               PROVE  /\ q.send <= stamps'
                      /\ inv'[q.send].st # "NONE" => inv'[q.send].staff = q.staff
                      /\ \A m \in q.expired :
                           m < q.send /\ (inv'[m].st # "NONE" => inv'[m].staff = q.staff)
                      /\ \A m, n \in q.expired : m = n
    BY DEF SendsKnowTheirLinks
  <2>1. PICK p \in pending : q.send = p.send /\ q.staff = p.staff /\ q.expired = p.expired
    OBVIOUS
  <2>2. p.send \in Stamps /\ p.expired \subseteq Stamps
    BY DEF TypeOK, PendingInvite
  <2>3. /\ p.send <= stamps
        /\ inv[p.send].st # "NONE" => inv[p.send].staff = p.staff
        /\ \A m \in p.expired : m < p.send /\ (inv[m].st # "NONE" => inv[m].staff = p.staff)
        /\ \A m, n \in p.expired : m = n
    BY DEF SendsKnowTheirLinks
  <2>4. stamps \in Int /\ stamps' \in Int /\ \A m \in Stamps : m \in Int
    BY DEF TypeOK
  <2> QED
    BY <2>1, <2>2, <2>3, <2>4
<1> QED
  BY <1>1, <1>2, <1>3

\* A send leaves its record with the new invitation as the only usable one, and
\* remembers the one it closed.
LEMMA PrepareKeepsOrder ==
  ASSUME TypeOK, LinksInOrder,
         NEW c \in Contracts, NEW s \in Staff, NEW R \in SUBSET Contracts,
         NEW channel \in {"APP", "INVITE", "AFFILIATION"}, NEW before,
         channel # "APP" => before \in Before,
         NEW moved \in BOOLEAN, NEW phoneChanged \in BOOLEAN,
         Prepare(c, s, R, channel, before, moved, phoneChanged)
  PROVE  /\ inv' \in [Stamps -> InvitationRow]
         /\ pending' \subseteq PendingInvite
         /\ stamps' \in StampsOrNever
         /\ LinksInOrder'
<1> DEFINE n == stamps + 1
           closed == Expire(StaffOf(R) \union {s})
           p == [send |-> n, stage |-> "committed", contract |-> c, staff |-> s,
                 kind |-> channel, before |-> before, moved |-> moved,
                 phoneChanged |-> phoneChanged, replaced |-> R # {},
                 expired |-> IF s \in StaffOf(R) THEN {} ELSE Live(s)]
<1>1. n \in Stamps /\ stamps' = n /\ stamps \in Int /\ n \in StampsOrNever
  BY MaxStampsAssumption DEF Prepare, TypeOK, Stamps, StampsOrNever
<1>2. /\ closed \in [Stamps -> InvitationRow]
      /\ \A m \in Stamps :
           /\ closed[m].staff = inv[m].staff
           /\ closed[m].st = "NONE" <=> inv[m].st = "NONE"
           /\ closed[m].st = "SENT" =>
                inv[m].st = "SENT" /\ inv[m].staff \notin (StaffOf(R) \union {s})
  <2> HIDE DEF n
  <2> QED
    BY ExpireCloses
<1> HIDE DEF closed
<1>3. CASE channel = "APP"
  <2>1. inv' = closed /\ pending' = pending
    BY <1>3 DEF Prepare, closed
  <2>2. LinksInOrder'
    BY <1>1, <1>2, <2>1, ClosingKeepsOrder
  <2> QED
    BY <1>1, <1>2, <2>1, <2>2 DEF TypeOK
<1>4. CASE channel # "APP"
  <2>1. inv' = [closed EXCEPT ![n] = [st |-> "SENT", staff |-> s, kind |-> channel]]
    BY <1>4 DEF Prepare, closed
  <2>2. pending' = pending \union {p}
    BY <1>4 DEF Prepare
  <2>3. Live(s) \subseteq Stamps
    BY DEF Live
  <2>4. p \in PendingInvite
    <3>1. channel \in {"INVITE", "AFFILIATION"}
      BY <1>4
    <3> HIDE DEF n
    <3> QED
      BY <1>1, <1>4, <2>3, <3>1 DEF PendingInvite
  <2>5. inv' \in [Stamps -> InvitationRow]
    BY <1>1, <1>2, <1>4, <2>1 DEF InvitationRow, DraftActions
  <2>6. /\ inv'[n].st = "SENT" /\ inv'[n].staff = s
        /\ \A m \in Stamps \ {n} : inv'[m] = closed[m]
    BY <1>1, <1>2, <2>1
  <2>7. \A m \in Stamps : m \in Int /\ (inv[m].st # "NONE" => m <= stamps)
    BY DEF LinksInOrder, LinksAreStamped, Stamps
  <2> HIDE DEF n, p
  <2>8. LinksAreStamped'
    BY <1>1, <1>2, <2>6, <2>7 DEF LinksInOrder, LinksAreStamped, n
  <2>9. OneLiveInvitation'
    <3>1. \A m \in Stamps \ {n} : inv'[m].st = "SENT" =>
            inv[m].st = "SENT" /\ inv'[m].staff = inv[m].staff /\ inv[m].staff # s
      BY <1>2, <2>6
    <3> QED
      BY <2>6, <3>1 DEF LinksInOrder, OneLiveInvitation
  <2>10. SendsKnowTheirLinks'
    <3> SUFFICES ASSUME NEW q \in pending'
                 PROVE  /\ q.send <= stamps'
                        /\ inv'[q.send].st # "NONE" => inv'[q.send].staff = q.staff
                        /\ \A m \in q.expired :
                             m < q.send /\ (inv'[m].st # "NONE" => inv'[m].staff = q.staff)
                        /\ \A k, m \in q.expired : k = m
      BY DEF SendsKnowTheirLinks
    <3>1. CASE q \in pending
      <4>1. q.send \in Stamps /\ q.expired \subseteq Stamps
        BY <3>1 DEF TypeOK, PendingInvite
      <4>2. /\ q.send <= stamps
            /\ inv[q.send].st # "NONE" => inv[q.send].staff = q.staff
            /\ \A m \in q.expired :
                 m < q.send /\ (inv[m].st # "NONE" => inv[m].staff = q.staff)
            /\ \A k, m \in q.expired : k = m
        BY <3>1 DEF LinksInOrder, SendsKnowTheirLinks
      <4>3. \A m \in Stamps : m <= stamps => m # n /\ m <= stamps'
        BY <1>1, <2>7 DEF n
      <4>4. \A m \in q.expired : m # n
        BY <1>1, <2>7, <4>1, <4>2 DEF n
      <4> QED
        BY <1>2, <2>6, <4>1, <4>2, <4>3, <4>4
    <3>2. CASE q = p
      <4>1. q.send = n /\ q.staff = s /\ q.expired \subseteq Live(s)
        BY <3>2 DEF p
      <4>2. \A m \in Live(s) : m \in Stamps /\ inv[m].st = "SENT" /\ inv[m].staff = s
        BY DEF Live
      <4>3. \A k, m \in Live(s) : k = m
        BY <4>2 DEF LinksInOrder, OneLiveInvitation
      <4>4. \A m \in Live(s) : m < n /\ m # n
        BY <1>1, <2>7, <4>2 DEF n
      <4>5. n <= stamps'
        BY <1>1 DEF n
      <4> QED
        BY <1>2, <2>6, <4>1, <4>2, <4>3, <4>4, <4>5
    <3> QED
      BY <2>2, <3>1, <3>2
  <2> QED
    BY <1>1, <2>2, <2>4, <2>5, <2>8, <2>9, <2>10 DEF LinksInOrder, TypeOK
<1> QED
  BY <1>3, <1>4

\* A save that sends nothing closes links only.
LEMMA NoSendKeepsOrder ==
  ASSUME TypeOK, LinksInOrder, NEW R, NoSend(R)
  PROVE  /\ inv' \in [Stamps -> InvitationRow]
         /\ pending' \subseteq PendingInvite
         /\ stamps' \in StampsOrNever
         /\ LinksInOrder'
<1>1. inv' = Expire(StaffOf(R)) /\ pending' = pending /\ stamps' = stamps
  BY DEF NoSend
<1>2. stamps <= stamps'
  BY <1>1 DEF TypeOK, StampsOrNever
<1>3. LinksInOrder'
  BY <1>1, <1>2, ExpireCloses, ClosingKeepsOrder DEF TypeOK
<1> QED
  BY <1>1, <1>3, ExpireCloses DEF TypeOK

-----------------------------------------------------------------------------
(* The rows that a save writes                                             *)

\* Replacing contracts R while writing contract c and its record s deletes no
\* record that a contract still names.
LEMMA ReplaceKeepsRecords ==
  ASSUME TypeOK, RecordsExist,
         NEW c \in Contracts, NEW s \in Staff, NEW R \in SUBSET Contracts, c \notin R,
         \A d \in R : contract[d].st \in InProgress,
         NEW row \in ContractRow, row.st \in Statuses, row.staff = s,
         NEW log \in HistoryRows,
         NEW rec \in StaffRow, rec.join \in {"DRAFT", "INVITED", "JOINED"},
         Replace(R, c, row, log, s, rec)
  PROVE  /\ contract' \in [Contracts -> ContractRow]
         /\ history' \in [Contracts -> HistoryRows]
         /\ staff' \in [Staff -> StaffRow]
         /\ RecordsExist'
<1>1. /\ DeletedContract \in ContractRow /\ DeletedContract.st = "GONE"
      /\ DeletedContract.sent = Never
  <2>1. Never \in StampsOrNever
    BY MaxStampsAssumption DEF StampsOrNever, Never
  <2> QED
    BY <2>1 DEF DeletedContract, NoContract, ContractRow, Statuses, DraftActions
<1>2. /\ DeletedRecord \in StaffRow /\ NoHistory \in HistoryRows
  <2>1. Never \in StampsOrNever
    BY MaxStampsAssumption DEF StampsOrNever, Never
  <2>2. DeletedRecord \in StaffRow
    BY DEF DeletedRecord, NoRecord, StaffRow
  <2> QED
    BY <2>1, <2>2 DEF NoHistory, HistoryRows
<1>3. ASSUME NEW d \in Contracts
      PROVE  /\ contract'[d] \in ContractRow /\ history'[d] \in HistoryRows
             /\ d = c => contract'[d] = row
             /\ d # c => \/ contract'[d] = contract[d]
                         \/ contract'[d] = DeletedContract
                         \/ /\ d \in R /\ contract[d].st # "DRAFT"
                            /\ contract'[d].staff = contract[d].staff
                            /\ contract'[d].sent = contract[d].sent
             /\ d \in R /\ d # c /\ contract[d].st = "DRAFT" => contract'[d] = DeletedContract
  <2>1. contract[d] \in ContractRow /\ history[d] \in HistoryRows
    BY DEF TypeOK
  <2>2. /\ [contract[d] EXCEPT !.st = "ENDED"] \in ContractRow
        /\ [contract[d] EXCEPT !.st = "ENDED"].staff = contract[d].staff
        /\ [contract[d] EXCEPT !.st = "ENDED"].sent = contract[d].sent
    BY <2>1 DEF ContractRow, Statuses
  <2>3. Moved(history[d], "ENDED", Never) \in HistoryRows
    <3>1. Never \in StampsOrNever /\ "ENDED" \in Statuses
      BY MaxStampsAssumption DEF StampsOrNever, Never, Statuses
    <3> QED
      BY <2>1, <3>1, MovedType
  <2>4. /\ contract'[d] = IF d = c THEN row
                          ELSE IF d \notin R THEN contract[d]
                          ELSE IF contract[d].st = "DRAFT" THEN DeletedContract
                          ELSE [contract[d] EXCEPT !.st = "ENDED"]
        /\ history'[d] = IF d = c THEN log
                         ELSE IF d \notin R THEN history[d]
                         ELSE IF contract[d].st = "DRAFT" THEN NoHistory
                         ELSE Moved(history[d], "ENDED", Never)
    BY DEF Replace
  <2> HIDE DEF Moved, DeletedContract, NoHistory
  <2> QED
    BY <1>1, <1>2, <2>1, <2>2, <2>3, <2>4
<1>4. ASSUME NEW t \in Staff
      PROVE  /\ staff'[t] \in StaffRow
             /\ t = s => staff'[t] = rec
             /\ t # s => staff'[t] = staff[t] \/ t \in Orphans(R, s)
  <2>1. staff'[t] = IF t = s THEN rec ELSE IF t \in Orphans(R, s) THEN DeletedRecord ELSE staff[t]
    BY DEF Replace
  <2> QED
    BY <1>2, <2>1 DEF TypeOK
<1>5. RecordsExist'
  <2> SUFFICES ASSUME NEW d \in Contracts
               PROVE  IF Exists(d)'
                      THEN contract'[d].staff \in Staff /\ Registered(contract[d].staff)'
                      ELSE contract'[d].sent = Never
    BY DEF RecordsExist
  <2>1. CASE d = c
    BY <1>3, <1>4, <2>1 DEF Exists, Registered
  <2>2. CASE d # c /\ contract'[d] = DeletedContract
    BY <1>1, <2>2 DEF Exists, Statuses
  <2>3. CASE d # c /\ contract'[d] # DeletedContract
    <3>1. /\ contract'[d].staff = contract[d].staff /\ contract'[d].sent = contract[d].sent
          /\ d \notin R \/ contract[d].st # "DRAFT"
          /\ d \in R \/ contract'[d] = contract[d]
      BY <1>3, <2>3
    <3>2. d \in R => Exists(d)
      BY DEF Exists, InProgress, Statuses
    <3>3. Exists(d)' => Exists(d)
      BY <3>1, <3>2 DEF Exists
    <3>4. CASE ~Exists(d)
      <4>1. contract[d].sent = Never
        BY <3>4 DEF RecordsExist
      <4> QED
        BY <3>1, <3>3, <3>4, <4>1
    <3>5. CASE Exists(d)
      <4>1. contract[d].staff \in Staff /\ Registered(contract[d].staff)
        BY <3>5 DEF RecordsExist
      <4>2. contract[d].staff \notin Orphans(R, s)
        BY <3>1 DEF Orphans
      <4>3. Registered(contract[d].staff)'
        BY <1>4, <3>1, <4>1, <4>2 DEF Registered
      <4>4. Exists(d)'
        <5>1. CASE d \in R
          <6>1. contract'[d] = [contract[d] EXCEPT !.st = "ENDED"]
            BY <2>3, <3>1, <5>1 DEF Replace
          <6>2. contract[d] \in ContractRow
            BY DEF TypeOK
          <6> QED
            BY <6>1, <6>2 DEF Exists, Statuses, ContractRow
        <5> QED
          BY <3>1, <3>5, <5>1 DEF Exists
      <4> QED
        BY <3>1, <4>1, <4>3, <4>4
    <3> QED
      BY <3>4, <3>5
  <2> QED
    BY <2>1, <2>2, <2>3
<1>6. /\ DOMAIN contract' = Contracts /\ DOMAIN history' = Contracts /\ DOMAIN staff' = Staff
      /\ contract' = [d \in Contracts |-> contract'[d]]
      /\ history' = [d \in Contracts |-> history'[d]]
      /\ staff' = [t \in Staff |-> staff'[t]]
  BY DEF Replace
<1> QED
  BY <1>3, <1>4, <1>5, <1>6

\* Steps that delete no row keep every contract its record.
LEMMA NoDeletionKeepsRecords ==
  ASSUME RecordsExist,
         \A d \in Contracts :
           /\ contract'[d].staff = contract[d].staff /\ contract'[d].sent = contract[d].sent
           /\ contract'[d].st \in Statuses <=> contract[d].st \in Statuses,
         \A t \in Staff : staff[t].join \in {"DRAFT", "INVITED", "JOINED"} =>
                          staff'[t].join \in {"DRAFT", "INVITED", "JOINED"}
  PROVE  RecordsExist'
BY DEF RecordsExist, Exists, Registered

\* transitionMany changes status and deadline of the record's waiting contracts.
LEMMA MoveWaitingType ==
  ASSUME TypeOK, NEW s, NEW to \in Statuses, NEW due \in StampsOrNever,
         MoveWaiting(s, to, due)
  PROVE  /\ contract' \in [Contracts -> ContractRow]
         /\ history' \in [Contracts -> HistoryRows]
         /\ \A d \in Contracts :
              /\ contract'[d].staff = contract[d].staff /\ contract'[d].sent = contract[d].sent
              /\ contract'[d].st \in Statuses <=> contract[d].st \in Statuses
<1>1. Never \in StampsOrNever
  BY MaxStampsAssumption DEF StampsOrNever, Never
<1>2. ASSUME NEW d \in Contracts
      PROVE  /\ contract'[d] \in ContractRow /\ history'[d] \in HistoryRows
             /\ contract'[d].staff = contract[d].staff /\ contract'[d].sent = contract[d].sent
             /\ contract'[d].st \in Statuses <=> contract[d].st \in Statuses
  <2>1. contract[d] \in ContractRow /\ history[d] \in HistoryRows
    BY DEF TypeOK
  <2>2. Moved(history[d], to, Never) \in HistoryRows
    BY <1>1, <2>1, MovedType
  <2>3. /\ contract'[d] =
             IF contract[d].staff = s /\ contract[d].st = "PENDING_SEND"
             THEN [contract[d] EXCEPT !.st = to, !.due = IF due = Never THEN contract[d].due ELSE due]
             ELSE contract[d]
        /\ history'[d] =
             IF contract[d].staff = s /\ contract[d].st = "PENDING_SEND"
             THEN Moved(history[d], to, Never) ELSE history[d]
    BY DEF MoveWaiting
  <2>4. history'[d] \in HistoryRows
    BY <2>1, <2>2, <2>3
  <2>5. "PENDING_SEND" \in Statuses
    BY DEF Statuses
  <2>6. CASE contract[d].staff = s /\ contract[d].st = "PENDING_SEND"
    <3> DEFINE dd == IF due = Never THEN contract[d].due ELSE due
    <3>1. contract'[d] = [contract[d] EXCEPT !.st = to, !.due = dd]
      BY <2>3, <2>6
    <3>2. dd \in StampsOrNever
      BY <2>1 DEF ContractRow
    <3> HIDE DEF dd
    <3> QED
      BY <2>1, <2>4, <2>5, <2>6, <3>1, <3>2 DEF ContractRow
  <2> QED
    BY <2>1, <2>3, <2>4, <2>6
<1>3. /\ contract' = [d \in Contracts |-> contract'[d]]
      /\ history' = [d \in Contracts |-> history'[d]]
  BY DEF MoveWaiting
<1> QED
  BY <1>2, <1>3

\* A status change of some contracts, with its history row.
LEMMA StatusMoveType ==
  ASSUME TypeOK, NEW M \in SUBSET Contracts, NEW to \in [Contracts -> Statuses],
         \A d \in M : contract[d].st \in Statuses,
         contract' = [d \in Contracts |->
           IF d \in M THEN [contract[d] EXCEPT !.st = to[d]] ELSE contract[d]],
         history' = [d \in Contracts |->
           IF d \in M THEN Moved(history[d], to[d], Never) ELSE history[d]]
  PROVE  /\ contract' \in [Contracts -> ContractRow]
         /\ history' \in [Contracts -> HistoryRows]
         /\ \A d \in Contracts :
              /\ contract'[d].staff = contract[d].staff /\ contract'[d].sent = contract[d].sent
              /\ contract'[d].st \in Statuses <=> contract[d].st \in Statuses
<1>1. Never \in StampsOrNever
  BY MaxStampsAssumption DEF StampsOrNever, Never
<1>2. ASSUME NEW d \in Contracts
      PROVE  /\ contract'[d] \in ContractRow /\ history'[d] \in HistoryRows
             /\ contract'[d].staff = contract[d].staff /\ contract'[d].sent = contract[d].sent
             /\ contract'[d].st \in Statuses <=> contract[d].st \in Statuses
  <2>1. contract[d] \in ContractRow /\ history[d] \in HistoryRows /\ to[d] \in Statuses
    BY DEF TypeOK
  <2>2. Moved(history[d], to[d], Never) \in HistoryRows
    BY <1>1, <2>1, MovedType
  <2>3. history'[d] \in HistoryRows
    BY <2>1, <2>2
  <2> QED
    BY <2>1, <2>3 DEF ContractRow
<1>3. /\ contract' = [d \in Contracts |-> contract'[d]]
      /\ history' = [d \in Contracts |-> history'[d]]
  OBVIOUS
<1> QED
  BY <1>2, <1>3

-----------------------------------------------------------------------------
(* Saves and sends: create, update, updateWorker, resend                   *)

\* The contracts a number has in progress, but for one, can all be replaced.
LEMMA InProgressContracts ==
  ASSUME NEW ph, NEW c
  PROVE  /\ InProgressAt(ph, c) \in SUBSET Contracts /\ c \notin InProgressAt(ph, c)
         /\ \A d \in InProgressAt(ph, c) : contract[d].st \in InProgress
BY DEF InProgressAt

\* The record and the contract row that a send writes.
LEMMA SentType ==
  ASSUME TypeOK, stamps < MaxStamps, NEW row \in ContractRow, NEW status \in Statuses,
         NEW act \in DraftActions, NEW channel
  PROVE  /\ Sent(row, status, act, channel) \in ContractRow
         /\ Sent(row, status, act, channel).st = status
         /\ Sent(row, status, act, channel).staff = row.staff
         /\ stamps + 1 \in StampsOrNever
<1> DEFINE due == IF channel = "AFFILIATION" THEN Never ELSE stamps + 1
<1>1. stamps + 1 \in StampsOrNever /\ due \in StampsOrNever
  BY MaxStampsAssumption DEF TypeOK, StampsOrNever, Never
<1>2. Sent(row, status, act, channel) =
        [row EXCEPT !.st = status, !.act = act, !.sent = stamps + 1, !.due = due]
  BY DEF Sent
<1> HIDE DEF due
<1> QED
  BY <1>1, <1>2 DEF ContractRow

\* An offer (the staff update of prepare) keeps the record to its columns.
LEMMA OfferedType ==
  ASSUME NEW rec \in StaffRow, rec.join \in {"DRAFT", "INVITED", "JOINED"},
         NEW channel, NEW join
  PROVE  /\ Offered(rec, channel, join) \in StaffRow
         /\ Offered(rec, channel, join).join \in {"DRAFT", "INVITED", "JOINED"}
BY DEF Offered, StaffRow

\* Before a send to an applicant the record can be turned back to what it was.
LEMMA BeforeType ==
  ASSUME TypeOK, NEW c \in Contracts, contract[c].st \in Statuses,
         NEW s \in Staff, staff[s].join \in {"DRAFT", "INVITED"}
  PROVE  BeforeOf(c, s) \in Before
<1>1. contract[c] \in ContractRow /\ staff[s] \in StaffRow
  BY DEF TypeOK
<1>2. /\ contract[c].st \in Statuses \union {"NONE", "GONE"} /\ contract[c].sent \in StampsOrNever
      /\ contract[c].due \in StampsOrNever /\ contract[c].act \in DraftActions
      /\ staff[s].cand \in Phones \union {NoOne}
  BY <1>1 DEF ContractRow, StaffRow
<1> QED
  BY <1>1, <1>2 DEF BeforeOf, Before

\* What every request that saves a contract and sends it has in common.
LEMMA SendKeepsIInv ==
  ASSUME IInv, NEW c \in Contracts, NEW s \in Staff, NEW R \in SUBSET Contracts, c \notin R,
         \A d \in R : contract[d].st \in InProgress,
         NEW row \in ContractRow, row.staff = s,
         NEW status \in Statuses, NEW act \in DraftActions,
         NEW channel \in {"APP", "INVITE", "AFFILIATION"},
         NEW log \in HistoryRows,
         NEW rec \in StaffRow, rec.join \in {"DRAFT", "INVITED", "JOINED"}, NEW join,
         NEW before, channel # "APP" => before \in Before,
         NEW moved \in BOOLEAN, NEW phoneChanged \in BOOLEAN,
         Replace(R, c, Sent(row, status, act, channel), log, s, Offered(rec, channel, join)),
         Prepare(c, s, R, channel, before, moved, phoneChanged),
         UNCHANGED <<account, out, lost, lapsed>>
  PROVE  IInv'
<1>1. stamps < MaxStamps
  BY DEF Prepare
<1>2. /\ Sent(row, status, act, channel) \in ContractRow
      /\ Sent(row, status, act, channel).st \in Statuses
      /\ Sent(row, status, act, channel).staff = s
  BY <1>1, SentType DEF IInv
<1>3. /\ Offered(rec, channel, join) \in StaffRow
      /\ Offered(rec, channel, join).join \in {"DRAFT", "INVITED", "JOINED"}
  BY OfferedType
<1>4. /\ contract' \in [Contracts -> ContractRow]
      /\ history' \in [Contracts -> HistoryRows]
      /\ staff' \in [Staff -> StaffRow]
      /\ RecordsExist'
  BY <1>2, <1>3, ReplaceKeepsRecords DEF IInv
<1>5. /\ inv' \in [Stamps -> InvitationRow] /\ pending' \subseteq PendingInvite
      /\ stamps' \in StampsOrNever /\ LinksInOrder'
  <2>1. TypeOK /\ LinksInOrder
    BY DEF IInv
  <2> QED
    BY ONLY <2>1, PrepareKeepsOrder, channel # "APP" => before \in Before,
            Prepare(c, s, R, channel, before, moved, phoneChanged),
            c \in Contracts, s \in Staff, R \in SUBSET Contracts,
            channel \in {"APP", "INVITE", "AFFILIATION"}, moved \in BOOLEAN,
            phoneChanged \in BOOLEAN
<1> QED
  BY <1>4, <1>5 DEF IInv, TypeOK

\* ... or saves it without sending.
LEMMA SaveOnlyKeepsIInv ==
  ASSUME IInv, NEW c \in Contracts, NEW s \in Staff, NEW R \in SUBSET Contracts, c \notin R,
         \A d \in R : contract[d].st \in InProgress,
         NEW row \in ContractRow, row.staff = s, row.st \in Statuses,
         NEW log \in HistoryRows,
         NEW rec \in StaffRow, rec.join \in {"DRAFT", "INVITED", "JOINED"},
         Replace(R, c, row, log, s, rec), NoSend(R),
         UNCHANGED <<account, out, lost, lapsed>>
  PROVE  IInv'
<1>1. /\ contract' \in [Contracts -> ContractRow]
      /\ history' \in [Contracts -> HistoryRows]
      /\ staff' \in [Staff -> StaffRow]
      /\ RecordsExist'
  BY ReplaceKeepsRecords DEF IInv
<1>2. /\ inv' \in [Stamps -> InvitationRow] /\ pending' \subseteq PendingInvite
      /\ stamps' \in StampsOrNever /\ LinksInOrder'
  BY NoSendKeepsOrder DEF IInv
<1> QED
  BY <1>1, <1>2 DEF IInv, TypeOK

\* ContractsService.create keeps the inductive invariant: a fresh, reused or renewed
\* record, with replacement, and with or without a send.
LEMMA CreateKeepsIInv ==
  ASSUME IInv, NEW c \in Contracts, NEW s \in Staff, NEW ph \in Phones,
         NEW target \in {"DRAFT", "PENDING_SEND", "SIGNED"}, Create(c, s, ph, target)
  PROVE  IInv'
<1> DEFINE joined == Joined(s)
           R == InProgressAt(ph, c)
           act == IF target = "DRAFT" \/ joined THEN "NONE" ELSE Judged(ph)
           cand == IF target = "DRAFT" THEN NoOne ELSE JudgedCandidate(ph)
           status == IF target = "PENDING_SEND" THEN DeliveredStatusOf(joined, act) ELSE target
           channel == ChannelOf(joined, act)
           rec == IF joined THEN staff[s]
                  ELSE IF FreshRecord(s)
                  THEN [NoRecord EXCEPT !.join = "DRAFT", !.phone = ph, !.cand = cand]
                  ELSE [staff[s] EXCEPT !.cand = cand]
           before == [st |-> "NONE", sent |-> Never, due |-> Never, act |-> "NONE",
                      join |-> rec.join, cand |-> staff[s].cand]
           row(renews) == [NoContract EXCEPT !.st = status, !.staff = s, !.act = act,
                                             !.renews = renews]
<1>1. joined \in BOOLEAN /\ act \in DraftActions /\ cand \in Phones \union {NoOne}
  BY JudgedType DEF Joined, DraftActions
<1>2. status \in Statuses
  <2>1. DeliveredStatusOf(joined, act) \in Statuses
    BY DeliveredStatusType DEF Statuses
  <2> QED
    BY <2>1 DEF Statuses
<1>3. channel \in {"APP", "INVITE", "AFFILIATION"} /\ (channel # "APP" => ~joined)
  BY <1>1, ChannelToApplicants
<1>4. R \in SUBSET Contracts /\ c \notin R /\ \A d \in R : contract[d].st \in InProgress
  BY InProgressContracts
<1>5. staff[s] \in StaffRow /\ Never \in StampsOrNever
  BY MaxStampsAssumption DEF IInv, TypeOK, StampsOrNever, Never
<1>6. FreshRecord(s) \/ ReusedRecord(s, ph) \/ RenewedRecord(s, ph)
  BY DEF Create
<1>7. rec \in StaffRow /\ rec.join \in {"DRAFT", "INVITED", "JOINED"}
      /\ (~joined => rec.join \in {"DRAFT", "INVITED"})
  <2> HIDE DEF cand
  <2>1. CASE joined
    BY <1>5, <2>1 DEF Joined
  <2>2. CASE ~joined /\ FreshRecord(s)
    BY <1>1, <2>2 DEF NoRecord, StaffRow
  <2>3. CASE ~joined /\ ~FreshRecord(s)
    <3>1. staff[s].join \in {"DRAFT", "INVITED"}
      BY <1>6, <2>3 DEF ReusedRecord, RenewedRecord
    <3> QED
      BY <1>1, <1>5, <2>3, <3>1 DEF StaffRow
  <2> QED
    BY <2>1, <2>2, <2>3
<1>8. channel # "APP" => before \in Before
  <2>1. staff[s].cand \in Phones \union {NoOne}
    BY <1>5 DEF StaffRow
  <2> HIDE DEF rec
  <2> QED
    BY <1>3, <1>5, <1>7, <2>1 DEF Before, DraftActions
<1>9. ASSUME NEW b \in BOOLEAN
      PROVE  row(b) \in ContractRow /\ row(b).staff = s /\ row(b).st = status
  <2> HIDE DEF status, act
  <2> QED
    BY <1>1, <1>2, <1>5 DEF NoContract, ContractRow
<1>10. \A h \in HistoryRows, n \in StampsOrNever : Moved(h, status, n) \in HistoryRows
  BY <1>2, MovedType
<1>11. NoHistory \in HistoryRows
  BY <1>5 DEF NoHistory, HistoryRows
<1>12. UNCHANGED <<account, out, lost, lapsed>>
  BY DEF Create
<1>13. PICK b \in BOOLEAN :
         IF target = "PENDING_SEND"
         THEN /\ Replace(R, c, Sent(row(b), status, act, channel),
                         Moved(NoHistory, status, stamps + 1), s, Offered(rec, channel, rec.join))
              /\ Prepare(c, s, R, channel, before, TRUE, FALSE)
         ELSE /\ Replace(R, c, row(b), Moved(NoHistory, status, Never), s, rec)
              /\ NoSend(R)
  <2>1. RenewsOn(s, ph, target) \subseteq BOOLEAN
    BY DEF RenewsOn, HasSigned
  <2> QED
    BY <2>1 DEF Create
<1> HIDE DEF joined, R, act, cand, status, channel, rec, before, row
<1>14. CASE target = "PENDING_SEND"
  <2>1. /\ Replace(R, c, Sent(row(b), status, act, channel),
                   Moved(NoHistory, status, stamps + 1), s, Offered(rec, channel, rec.join))
        /\ Prepare(c, s, R, channel, before, TRUE, FALSE)
    BY <1>13, <1>14
  <2>2. stamps + 1 \in StampsOrNever
    BY <2>1, MaxStampsAssumption DEF Prepare, IInv, TypeOK, StampsOrNever
  <2>3. Moved(NoHistory, status, stamps + 1) \in HistoryRows
    BY <1>10, <1>11, <2>2
  <2> QED
    <3>1. row(b) \in ContractRow /\ row(b).staff = s
      BY <1>9
    <3> DEFINE yes == TRUE
               no == FALSE
    <3>2. yes \in BOOLEAN /\ no \in BOOLEAN /\ Prepare(c, s, R, channel, before, yes, no)
      BY <2>1
    <3> HIDE DEF yes, no
    <3> QED
      BY ONLY IInv, c \in Contracts, s \in Staff, <1>1, <1>2, <1>3, <1>4, <1>7, <1>8, <1>12,
              <2>1, <2>3, <3>1, <3>2, SendKeepsIInv
<1>15. CASE target # "PENDING_SEND"
  <2>1. Replace(R, c, row(b), Moved(NoHistory, status, Never), s, rec) /\ NoSend(R)
    BY <1>13, <1>15
  <2> QED
    BY <1>2, <1>4, <1>5, <1>7, <1>9, <1>10, <1>11, <1>12, <2>1, SaveOnlyKeepsIInv
<1> QED
  BY <1>14, <1>15

\* The record of a contract, as the requests on that contract find it.
LEMMA RecordOfContract ==
  ASSUME IInv, NEW c \in Contracts, contract[c].st \in Statuses
  PROVE  /\ contract[c] \in ContractRow /\ history[c] \in HistoryRows
         /\ contract[c].act \in DraftActions
         /\ contract[c].staff \in Staff /\ staff[contract[c].staff] \in StaffRow
         /\ staff[contract[c].staff].cand \in Phones \union {NoOne}
         /\ staff[contract[c].staff].join \in {"DRAFT", "INVITED", "JOINED"}
         /\ ~Joined(contract[c].staff) => staff[contract[c].staff].join \in {"DRAFT", "INVITED"}
<1>1. contract[c].staff \in Staff /\ Registered(contract[c].staff)
  BY DEF IInv, RecordsExist, Exists
<1>2. staff[contract[c].staff] \in StaffRow /\ contract[c] \in ContractRow /\ history[c] \in HistoryRows
  BY <1>1 DEF IInv, TypeOK
<1>3. staff[contract[c].staff].cand \in Phones \union {NoOne} /\ contract[c].act \in DraftActions
  BY <1>2 DEF StaffRow, ContractRow
<1> QED
  BY <1>1, <1>2, <1>3 DEF Registered, Joined

\* ContractsService.update keeps the inductive invariant.
LEMMA SaveKeepsIInv ==
  ASSUME IInv, NEW c \in Contracts, NEW ph \in Phones,
         NEW target \in {"DRAFT", "PENDING_SEND", "SIGNED"}, Save(c, ph, target)
  PROVE  IInv'
<1> DEFINE s == contract[c].staff
           joined == Joined(s)
           correction == contract[c].st = "CORRECTION_REQUESTED"
           R == InProgressAt(ph, c)
           keeps == target # "DRAFT" /\ (correction \/ (joined /\ contract[c].renews)) /\ ph = staff[s].phone
           act == IF target = "DRAFT" THEN "NONE" ELSE IF keeps THEN contract[c].act ELSE Judged(ph)
           cand == IF target = "DRAFT" THEN NoOne
                   ELSE IF keeps THEN staff[s].cand ELSE JudgedCandidate(ph)
           status == IF target = "PENDING_SEND" THEN DeliveredStatusOf(joined, act) ELSE target
           channel == ChannelOf(joined, act)
           rec == IF joined THEN staff[s] ELSE [staff[s] EXCEPT !.phone = ph, !.cand = cand]
           row == [contract[c] EXCEPT !.st = status, !.act = act]
           before == BeforeOf(c, s)
           phoneChanged == ph # staff[s].phone
           log == IF target = "DRAFT" THEN history[c] ELSE Moved(history[c], target, Never)
<1>1. contract[c].st \in Statuses
  BY DEF Save, Statuses
<1>2. /\ contract[c] \in ContractRow /\ history[c] \in HistoryRows
      /\ contract[c].act \in DraftActions
      /\ s \in Staff /\ staff[s] \in StaffRow /\ staff[s].cand \in Phones \union {NoOne}
      /\ staff[s].join \in {"DRAFT", "INVITED", "JOINED"}
      /\ ~joined => staff[s].join \in {"DRAFT", "INVITED"}
  BY <1>1, RecordOfContract
<1>3. joined \in BOOLEAN /\ act \in DraftActions /\ cand \in Phones \union {NoOne}
  BY <1>2, JudgedType DEF Joined, DraftActions
<1>4. status \in Statuses
  <2>1. DeliveredStatusOf(joined, act) \in Statuses
    BY DeliveredStatusType DEF Statuses
  <2> QED
    BY <2>1 DEF Statuses
<1>5. channel \in {"APP", "INVITE", "AFFILIATION"} /\ (channel # "APP" => ~joined)
  BY <1>3, ChannelToApplicants
<1>6. R \in SUBSET Contracts /\ c \notin R /\ \A d \in R : contract[d].st \in InProgress
  BY InProgressContracts
<1>7. rec \in StaffRow /\ rec.join \in {"DRAFT", "INVITED", "JOINED"}
  <2> HIDE DEF cand, joined, s
  <2> QED
    BY <1>2, <1>3 DEF StaffRow
<1>8. channel # "APP" => before \in Before
  BY <1>1, <1>2, <1>5, BeforeType DEF IInv
<1>9. row \in ContractRow /\ row.staff = s /\ row.st = status
  <2> HIDE DEF status, act
  <2> QED
    BY <1>2, <1>3, <1>4 DEF ContractRow
<1>10. Never \in StampsOrNever
  BY MaxStampsAssumption DEF StampsOrNever, Never
<1>11. log \in HistoryRows
  BY <1>2, <1>10, MovedType DEF Statuses
<1>12. UNCHANGED <<account, out, lost, lapsed>>
  BY DEF Save
<1>13. IF target = "PENDING_SEND"
       THEN /\ Replace(R, c, Sent(row, status, act, channel),
                       Moved(history[c], status, stamps + 1), s, Offered(rec, channel, staff[s].join))
            /\ Prepare(c, s, R, channel, before, TRUE, phoneChanged)
       ELSE Replace(R, c, row, log, s, rec) /\ NoSend(R)
  BY DEF Save
<1>14. phoneChanged \in BOOLEAN
  OBVIOUS
<1> HIDE DEF s, joined, correction, R, keeps, act, cand, status, channel, rec, row, before,
             phoneChanged, log
<1>15. CASE target = "PENDING_SEND"
  <2> DEFINE yes == TRUE
  <2>1. /\ Replace(R, c, Sent(row, status, act, channel),
                   Moved(history[c], status, stamps + 1), s, Offered(rec, channel, staff[s].join))
        /\ yes \in BOOLEAN /\ Prepare(c, s, R, channel, before, yes, phoneChanged)
    BY <1>13, <1>15
  <2> HIDE DEF yes
  <2>2. stamps + 1 \in StampsOrNever
    BY <2>1, MaxStampsAssumption DEF Prepare, IInv, TypeOK, StampsOrNever
  <2>3. Moved(history[c], status, stamps + 1) \in HistoryRows
    BY <1>2, <1>4, <2>2, MovedType
  <2> QED
    BY ONLY IInv, c \in Contracts, <1>2, <1>3, <1>4, <1>5, <1>6, <1>7, <1>8, <1>9, <1>12, <1>14,
            <2>1, <2>3, SendKeepsIInv
<1>16. CASE target # "PENDING_SEND"
  <2>1. Replace(R, c, row, log, s, rec) /\ NoSend(R)
    BY <1>13, <1>16
  <2> QED
    BY ONLY IInv, c \in Contracts, <1>2, <1>4, <1>6, <1>7, <1>9, <1>11, <1>12, <2>1,
            SaveOnlyKeepsIInv
<1> QED
  BY <1>15, <1>16

\* ContractsService.updateWorker keeps the inductive invariant.
LEMMA UpdateWorkerKeepsIInv ==
  ASSUME IInv, NEW c \in Contracts, NEW ph \in Phones, UpdateWorker(c, ph)
  PROVE  IInv'
<1> DEFINE s == contract[c].staff
           joined == Joined(s)
           phoneChanged == ph # staff[s].phone
           R == IF phoneChanged THEN InProgressAt(ph, c) ELSE {}
           act == IF joined THEN contract[c].act ELSE Judged(ph)
           status == DeliveredStatusOf(joined, act)
           channel == ChannelOf(joined, act)
           moved == status # contract[c].st
           rec == IF joined THEN staff[s]
                  ELSE [staff[s] EXCEPT !.phone = ph, !.cand = JudgedCandidate(ph)]
           before == BeforeOf(c, s)
           log == IF moved THEN Moved(history[c], status, stamps + 1) ELSE history[c]
<1>1. contract[c].st \in Statuses
  BY DEF UpdateWorker, WorkerEditable, Statuses
<1>2. /\ contract[c] \in ContractRow /\ history[c] \in HistoryRows
      /\ contract[c].act \in DraftActions
      /\ s \in Staff /\ staff[s] \in StaffRow
      /\ staff[s].join \in {"DRAFT", "INVITED", "JOINED"}
      /\ ~joined => staff[s].join \in {"DRAFT", "INVITED"}
  BY <1>1, RecordOfContract
<1>3. joined \in BOOLEAN /\ act \in DraftActions
  BY <1>2, JudgedType DEF Joined
<1>4. status \in Statuses
  BY DeliveredStatusType DEF Statuses
<1>5. channel \in {"APP", "INVITE", "AFFILIATION"} /\ (channel # "APP" => ~joined)
  BY <1>3, ChannelToApplicants
<1>6. R \in SUBSET Contracts /\ c \notin R /\ \A d \in R : contract[d].st \in InProgress
  BY InProgressContracts
<1>7. rec \in StaffRow /\ rec.join \in {"DRAFT", "INVITED", "JOINED"}
  <2>1. JudgedCandidate(ph) \in Phones \union {NoOne}
    BY JudgedType
  <2> HIDE DEF joined, s
  <2> QED
    BY <1>2, <2>1 DEF StaffRow
<1>8. channel # "APP" => before \in Before
  BY <1>1, <1>2, <1>5, BeforeType DEF IInv
<1>9. /\ Replace(R, c, Sent(contract[c], status, act, channel), log, s,
                 Offered(rec, channel, staff[s].join))
      /\ Prepare(c, s, R, channel, before, moved, phoneChanged)
      /\ UNCHANGED <<account, out, lost, lapsed>>
  BY DEF UpdateWorker
<1>10. moved \in BOOLEAN /\ phoneChanged \in BOOLEAN /\ contract[c].staff = s
  OBVIOUS
<1>11. log \in HistoryRows
  <2>1. stamps + 1 \in StampsOrNever
    BY <1>9, MaxStampsAssumption DEF Prepare, IInv, TypeOK, StampsOrNever
  <2> QED
    BY <1>2, <1>4, <2>1, MovedType
<1> HIDE DEF s, joined, phoneChanged, R, act, status, channel, moved, rec, before, log
<1> QED
  BY ONLY IInv, c \in Contracts, <1>2, <1>3, <1>4, <1>5, <1>6, <1>7, <1>8, <1>9, <1>10, <1>11,
          SendKeepsIInv

\* ContractSendService.send keeps the inductive invariant.
LEMMA ResendKeepsIInv ==
  ASSUME IInv, NEW c \in Contracts, Resend(c)
  PROVE  IInv'
<1> DEFINE s == contract[c].staff
           joined == Joined(s)
           ph == staff[s].phone
           reopened == contract[c].st \in ReopenedStatuses
           act == IF joined THEN contract[c].act ELSE Judged(ph)
           channel == ChannelOf(joined, act)
           status == IF joined \/ reopened \/ channel = "AFFILIATION"
                     THEN DeliveredStatusOf(joined, act) ELSE contract[c].st
           moved == status # contract[c].st
           rec == IF joined THEN staff[s] ELSE [staff[s] EXCEPT !.cand = JudgedCandidate(ph)]
           before == BeforeOf(c, s)
           log == IF moved THEN Moved(history[c], status, stamps + 1) ELSE history[c]
           R == {d \in Contracts : FALSE}
           no == FALSE
<1>1. contract[c].st \in Statuses
  BY DEF Resend, ResendableStatuses, Statuses
<1>2. /\ contract[c] \in ContractRow /\ history[c] \in HistoryRows
      /\ contract[c].act \in DraftActions
      /\ s \in Staff /\ staff[s] \in StaffRow
      /\ staff[s].join \in {"DRAFT", "INVITED", "JOINED"}
      /\ ~joined => staff[s].join \in {"DRAFT", "INVITED"}
  BY <1>1, RecordOfContract
<1>3. joined \in BOOLEAN /\ act \in DraftActions
  BY <1>2 DEF Joined, Judged, DraftActions
<1>4. status \in Statuses
  <2>1. DeliveredStatusOf(joined, act) \in Statuses
    BY DeliveredStatusType DEF Statuses
  <2> QED
    BY <1>1, <2>1
<1>5. channel \in {"APP", "INVITE", "AFFILIATION"} /\ (channel # "APP" => ~joined)
  BY <1>3, ChannelToApplicants
<1>6. R \in SUBSET Contracts /\ c \notin R /\ (\A d \in R : contract[d].st \in InProgress) /\ R = {}
  OBVIOUS
<1>7. rec \in StaffRow /\ rec.join \in {"DRAFT", "INVITED", "JOINED"}
  <2>1. ph \in Phones \union {NoOne}
    BY <1>2 DEF StaffRow
  <2>2. JudgedCandidate(ph) \in Phones \union {NoOne}
    BY <2>1 DEF JudgedCandidate
  <2> HIDE DEF joined, s, ph
  <2> QED
    BY <1>2, <2>2 DEF StaffRow
<1>8. channel # "APP" => before \in Before
  BY <1>1, <1>2, <1>5, BeforeType DEF IInv
<1>9. /\ Replace(R, c, Sent(contract[c], status, act, channel), log, s,
                 Offered(rec, channel, staff[s].join))
      /\ Prepare(c, s, R, channel, before, moved, no)
      /\ UNCHANGED <<account, out, lost, lapsed>>
  <2> HIDE DEF Replace, Prepare
  <2> QED
    BY <1>6 DEF Resend
<1>10. moved \in BOOLEAN /\ no \in BOOLEAN /\ contract[c].staff = s
  OBVIOUS
<1>11. log \in HistoryRows
  <2>1. stamps + 1 \in StampsOrNever
    BY <1>9, MaxStampsAssumption DEF Prepare, IInv, TypeOK, StampsOrNever
  <2> QED
    BY <1>2, <1>4, <2>1, MovedType
<1> HIDE DEF s, joined, ph, reopened, act, status, channel, moved, rec, before, log, R, no
<1> QED
  BY ONLY IInv, c \in Contracts, <1>2, <1>3, <1>4, <1>5, <1>6, <1>7, <1>8, <1>9, <1>10, <1>11,
          SendKeepsIInv

-----------------------------------------------------------------------------
(* Requests and batches that only end things, and the worker's answers     *)

\* A step that sends and deletes nothing: enough to know each row's type, what
\* it does to the status of contracts and records, and that it only closes links.
LEMMA QuietStepKeepsIInv ==
  ASSUME IInv,
         account' \in [Phones -> BOOLEAN], staff' \in [Staff -> StaffRow],
         contract' \in [Contracts -> ContractRow], history' \in [Contracts -> HistoryRows],
         inv' \in [Stamps -> InvitationRow], stamps' \in StampsOrNever, stamps <= stamps',
         \A d \in Contracts :
           /\ contract'[d].staff = contract[d].staff /\ contract'[d].sent = contract[d].sent
           /\ contract'[d].st \in Statuses <=> contract[d].st \in Statuses,
         \A t \in Staff : staff[t].join \in {"DRAFT", "INVITED", "JOINED"} =>
                          staff'[t].join \in {"DRAFT", "INVITED", "JOINED"},
         \A n \in Stamps :
           /\ inv'[n].staff = inv[n].staff /\ (inv'[n].st = "NONE" <=> inv[n].st = "NONE")
           /\ inv'[n].st = "SENT" => inv[n].st = "SENT",
         UNCHANGED <<pending, out, lost, lapsed>>
  PROVE  IInv'
<1>1. RecordsExist'
  BY NoDeletionKeepsRecords DEF IInv
<1>2. \A q \in pending' : \E p \in pending :
        q.send = p.send /\ q.staff = p.staff /\ q.expired = p.expired
  OBVIOUS
<1>3. LinksInOrder'
  BY <1>2, ClosingKeepsOrder DEF IInv
<1> QED
  BY <1>1, <1>3 DEF IInv, TypeOK

\* ContractSendService.end keeps the inductive invariant.
LEMMA EndKeepsIInv ==
  ASSUME IInv, NEW c \in Contracts, End(c)
  PROVE  IInv'
<1> DEFINE to == [d \in Contracts |-> "ENDED"]
<1>1. TypeOK /\ contract[c].st \in Statuses /\ to \in [Contracts -> Statuses]
  BY DEF IInv, End, Statuses
<1>2. /\ contract' = [d \in Contracts |->
           IF d \in {c} THEN [contract[d] EXCEPT !.st = to[d]] ELSE contract[d]]
      /\ history' = [d \in Contracts |->
           IF d \in {c} THEN Moved(history[d], to[d], Never) ELSE history[d]]
  BY <1>1 DEF End, TypeOK
<1> HIDE DEF to
<1>3. /\ contract' \in [Contracts -> ContractRow]
      /\ history' \in [Contracts -> HistoryRows]
      /\ \A d \in Contracts :
           /\ contract'[d].staff = contract[d].staff /\ contract'[d].sent = contract[d].sent
           /\ contract'[d].st \in Statuses <=> contract[d].st \in Statuses
  BY ONLY <1>1, <1>2, {c} \in SUBSET Contracts, \A d \in {c} : contract[d].st \in Statuses,
          StatusMoveType
<1>4. /\ inv' = Expire({contract[c].staff})
      /\ UNCHANGED <<account, staff, pending, out, lost, stamps, lapsed>>
  BY DEF End, answerVars
<1>5. stamps <= stamps'
  BY <1>1, <1>4 DEF TypeOK, StampsOrNever
<1> QED
  BY <1>1, <1>3, <1>4, <1>5, ExpireCloses, QuietStepKeepsIInv DEF TypeOK

\* ContractsService.remove keeps the inductive invariant: the record it deletes has
\* no other contract.
LEMMA RemoveKeepsIInv ==
  ASSUME IInv, NEW c \in Contracts, Remove(c)
  PROVE  IInv'
<1> DEFINE s == contract[c].staff
           only == \A d \in Contracts \ {c} : contract[d].staff # s
<1>1. Never \in StampsOrNever
  BY MaxStampsAssumption DEF StampsOrNever, Never
<1>2. /\ DeletedContract \in ContractRow /\ DeletedContract.st = "GONE"
      /\ DeletedContract.sent = Never /\ DeletedRecord \in StaffRow /\ NoHistory \in HistoryRows
  <2>1. DeletedRecord \in StaffRow
    BY DEF DeletedRecord, NoRecord, StaffRow
  <2>2. NoHistory \in HistoryRows
    BY <1>1 DEF NoHistory, HistoryRows
  <2>3. DeletedContract \in ContractRow /\ DeletedContract.st = "GONE" /\ DeletedContract.sent = Never
    BY <1>1 DEF DeletedContract, NoContract, ContractRow, Statuses, DraftActions
  <2> QED
    BY <2>1, <2>2, <2>3
<1>3. /\ contract' = [contract EXCEPT ![c] = DeletedContract]
      /\ history' = [history EXCEPT ![c] = NoHistory]
      /\ staff' = staff \/ (only /\ staff' = [staff EXCEPT ![s] = DeletedRecord])
      /\ UNCHANGED <<account, inv, pending, out, lost, stamps, lapsed>>
  BY DEF Remove, answerVars
<1>4. TypeOK'
  <2>1. contract' \in [Contracts -> ContractRow] /\ history' \in [Contracts -> HistoryRows]
    BY <1>2, <1>3 DEF IInv, TypeOK
  <2>2. staff' \in [Staff -> StaffRow]
    BY <1>2, <1>3 DEF IInv, TypeOK
  <2> QED
    BY <1>3, <2>1, <2>2 DEF IInv, TypeOK
<1>5. RecordsExist'
  <2> SUFFICES ASSUME NEW d \in Contracts
               PROVE  IF Exists(d)'
                      THEN contract'[d].staff \in Staff /\ Registered(contract[d].staff)'
                      ELSE contract'[d].sent = Never
    BY DEF RecordsExist
  <2>1. contract \in [Contracts -> ContractRow] /\ staff \in [Staff -> StaffRow]
    BY DEF IInv, TypeOK
  <2>2. CASE d = c
    BY <1>2, <1>3, <2>1, <2>2 DEF Exists, Statuses
  <2>3. CASE d # c
    <3>1. contract'[d] = contract[d]
      BY <1>3, <2>1, <2>3
    <3>2. IF Exists(d) THEN contract[d].staff \in Staff /\ Registered(contract[d].staff)
          ELSE contract[d].sent = Never
      BY DEF IInv, RecordsExist
    <3>3. contract[d].staff \in Staff => staff'[contract[d].staff] = staff[contract[d].staff]
      BY <1>3, <2>1, <2>3
    <3> QED
      BY <3>1, <3>2, <3>3 DEF Exists, Registered
  <2> QED
    BY <2>2, <2>3
<1>6. LinksInOrder'
  BY <1>3 DEF IInv, LinksInOrder, LinksAreStamped, SendsKnowTheirLinks, OneLiveInvitation
<1> QED
  BY <1>4, <1>5, <1>6 DEF IInv

\* An answer closes its invitation with it.
LEMMA AnswerCloses ==
  ASSUME TypeOK, NEW n \in Stamps, inv[n].st = "SENT",
         NEW answer \in {"ACCEPTED", "REJECTED", "UNDER_AGE"},
         inv' = [inv EXCEPT ![n].st = answer]
  PROVE  /\ inv' \in [Stamps -> InvitationRow]
         /\ \A m \in Stamps :
              /\ inv'[m].staff = inv[m].staff /\ (inv'[m].st = "NONE" <=> inv[m].st = "NONE")
              /\ inv'[m].st = "SENT" => inv[m].st = "SENT"
<1>1. inv \in [Stamps -> InvitationRow] /\ inv[n] \in InvitationRow
  BY DEF TypeOK
<1>2. inv' = [inv EXCEPT ![n] = [inv[n] EXCEPT !.st = answer]]
  OBVIOUS
<1>3. /\ [inv[n] EXCEPT !.st = answer] \in InvitationRow
      /\ [inv[n] EXCEPT !.st = answer].staff = inv[n].staff
      /\ [inv[n] EXCEPT !.st = answer].st = answer
  BY <1>1 DEF InvitationRow
<1> QED
  BY <1>1, <1>2, <1>3

\* Joining (the staff update of sign-up and acceptance) keeps records what they are.
LEMMA JoinType ==
  ASSUME TypeOK, NEW s, Join(s)
  PROVE  /\ staff' \in [Staff -> StaffRow]
         /\ \A t \in Staff : staff[t].join \in {"DRAFT", "INVITED", "JOINED"} =>
                              staff'[t].join \in {"DRAFT", "INVITED", "JOINED"}
<1>1. staff \in [Staff -> StaffRow]
  BY DEF TypeOK
<1>2. ASSUME NEW t \in Staff
      PROVE  /\ staff'[t] \in StaffRow
             /\ staff[t].join \in {"DRAFT", "INVITED", "JOINED"} =>
                  staff'[t].join \in {"DRAFT", "INVITED", "JOINED"}
  <2>1. staff'[t] = staff[t] \/ staff'[t] = [staff[t] EXCEPT !.join = "JOINED", !.cand = NoOne]
    BY <1>1 DEF Join
  <2> QED
    BY <1>1, <2>1 DEF StaffRow
<1>3. staff' = [t \in Staff |-> staff'[t]]
  BY <1>1 DEF Join
<1> QED
  BY <1>2, <1>3

\* StaffSignupService.signup keeps the inductive invariant.
LEMMA SignupKeepsIInv ==
  ASSUME IInv, NEW n \in Stamps, Signup(n)
  PROVE  IInv'
<1> DEFINE s == inv[n].staff
           to == "PENDING_SIGNATURE"
<1>1. TypeOK /\ to \in Statuses /\ Never \in StampsOrNever
  BY MaxStampsAssumption DEF IInv, Statuses, StampsOrNever, Never
<1>2. /\ inv[n].st = "SENT" /\ inv' = [inv EXCEPT ![n].st = "ACCEPTED"]
      /\ account' = [account EXCEPT ![staff[s].phone] = TRUE]
      /\ Join(s) /\ MoveWaiting(s, to, Never)
      /\ UNCHANGED <<pending, out, lost, stamps, lapsed>>
  BY DEF Signup, Usable, answerVars
<1> HIDE DEF to, s
<1>3. account' \in [Phones -> BOOLEAN] /\ stamps <= stamps' /\ stamps' \in StampsOrNever
  <2> DEFINE yes == TRUE
  <2>1. yes \in BOOLEAN /\ account' = [account EXCEPT ![staff[s].phone] = yes]
    BY <1>2
  <2> HIDE DEF yes
  <2>2. account' \in [Phones -> BOOLEAN]
    BY <1>1, <2>1 DEF TypeOK
  <2> QED
    BY <1>1, <1>2, <2>2 DEF TypeOK, StampsOrNever
<1>4. "ACCEPTED" \in {"ACCEPTED", "REJECTED", "UNDER_AGE"}
  OBVIOUS
<1> QED
  BY <1>1, <1>2, <1>3, <1>4, AnswerCloses, JoinType, MoveWaitingType, QuietStepKeepsIInv

\* A sign-up refused under age keeps the inductive invariant.
LEMMA SignupUnderAgeKeepsIInv ==
  ASSUME IInv, NEW n \in Stamps, SignupUnderAge(n)
  PROVE  IInv'
<1>1. TypeOK
  BY DEF IInv
<1>2. /\ inv[n].st = "SENT" /\ inv' = [inv EXCEPT ![n].st = "UNDER_AGE"]
      /\ UNCHANGED <<account, staff, contract, history, pending, out, lost, stamps, lapsed>>
  BY DEF SignupUnderAge, Usable, answerVars
<1>3. stamps <= stamps'
  BY <1>1, <1>2 DEF TypeOK, StampsOrNever
<1>4. "UNDER_AGE" \in {"ACCEPTED", "REJECTED", "UNDER_AGE"}
  OBVIOUS
<1>5. /\ inv' \in [Stamps -> InvitationRow]
      /\ \A m \in Stamps :
           /\ inv'[m].staff = inv[m].staff /\ (inv'[m].st = "NONE" <=> inv[m].st = "NONE")
           /\ inv'[m].st = "SENT" => inv[m].st = "SENT"
  BY <1>1, <1>2, <1>4, AnswerCloses
<1> QED
  BY <1>1, <1>2, <1>3, <1>5, QuietStepKeepsIInv DEF TypeOK

\* StaffSignupService.acceptForAccount keeps the inductive invariant.
LEMMA AcceptForAccountKeepsIInv ==
  ASSUME IInv, NEW n \in Stamps, AcceptForAccount(n)
  PROVE  IInv'
<1> DEFINE s == inv[n].staff
           to == "PENDING_SIGNATURE"
<1>1. TypeOK /\ to \in Statuses /\ Never \in StampsOrNever
  BY MaxStampsAssumption DEF IInv, Statuses, StampsOrNever, Never
<1>2. /\ inv[n].st = "SENT" /\ inv' = [inv EXCEPT ![n].st = "ACCEPTED"]
      /\ Join(s) /\ MoveWaiting(s, to, Never)
      /\ UNCHANGED <<account, pending, out, lost, stamps, lapsed>>
  BY DEF AcceptForAccount, Usable, answerVars
<1> HIDE DEF to, s
<1>3. account' \in [Phones -> BOOLEAN] /\ stamps <= stamps' /\ stamps' \in StampsOrNever
  BY <1>1, <1>2 DEF TypeOK, StampsOrNever
<1>4. "ACCEPTED" \in {"ACCEPTED", "REJECTED", "UNDER_AGE"}
  OBVIOUS
<1> QED
  BY <1>1, <1>2, <1>3, <1>4, AnswerCloses, JoinType, MoveWaitingType, QuietStepKeepsIInv

\* AffiliationRequestsService.accept keeps the inductive invariant.
LEMMA AcceptRequestKeepsIInv ==
  ASSUME IInv, NEW n \in Stamps, AcceptRequest(n)
  PROVE  IInv'
<1> DEFINE s == inv[n].staff
           to == "PENDING_SIGNATURE"
           due == stamps + 1
<1>1. TypeOK /\ to \in Statuses
  BY DEF IInv, Statuses
<1>2. /\ inv[n].st = "SENT" /\ inv' = [inv EXCEPT ![n].st = "ACCEPTED"]
      /\ Join(s) /\ MoveWaiting(s, to, due)
      /\ stamps < MaxStamps /\ stamps' = due
      /\ UNCHANGED <<account, pending, out, lost, lapsed>>
  BY DEF AcceptRequest, Usable, answerVars
<1>3. due \in StampsOrNever /\ stamps <= stamps'
  BY <1>1, <1>2, MaxStampsAssumption DEF TypeOK, StampsOrNever
<1> HIDE DEF to, s, due
<1>4. account' \in [Phones -> BOOLEAN] /\ stamps' \in StampsOrNever
  BY <1>1, <1>2, <1>3 DEF TypeOK
<1>5. "ACCEPTED" \in {"ACCEPTED", "REJECTED", "UNDER_AGE"}
  OBVIOUS
<1> QED
  BY <1>1, <1>2, <1>3, <1>4, <1>5, AnswerCloses, JoinType, MoveWaitingType, QuietStepKeepsIInv

\* AffiliationRequestsService.reject keeps the inductive invariant.
LEMMA RejectRequestKeepsIInv ==
  ASSUME IInv, NEW n \in Stamps, RejectRequest(n)
  PROVE  IInv'
<1> DEFINE s == inv[n].staff
           to == "REJECTED"
<1>1. TypeOK /\ to \in Statuses /\ Never \in StampsOrNever
  BY MaxStampsAssumption DEF IInv, Statuses, StampsOrNever, Never
<1>2. /\ inv[n].st = "SENT" /\ inv' = [inv EXCEPT ![n].st = "REJECTED"]
      /\ MoveWaiting(s, to, Never)
      /\ UNCHANGED <<account, staff, pending, out, lost, stamps, lapsed>>
  BY DEF RejectRequest, Usable, answerVars
<1> HIDE DEF to, s
<1>3. /\ account' \in [Phones -> BOOLEAN] /\ staff' \in [Staff -> StaffRow]
      /\ stamps <= stamps' /\ stamps' \in StampsOrNever
  BY <1>1, <1>2 DEF TypeOK, StampsOrNever
<1>4. "REJECTED" \in {"ACCEPTED", "REJECTED", "UNDER_AGE"}
  OBVIOUS
<1> QED
  BY <1>1, <1>2, <1>3, <1>4, AnswerCloses, MoveWaitingType, QuietStepKeepsIInv

\* sign, reject and requestCorrection keep the inductive invariant.
LEMMA DecideKeepsIInv ==
  ASSUME IInv, NEW c \in Contracts,
         NEW answer \in {"SIGNED", "REJECTED", "CORRECTION_REQUESTED"}, Decide(c, answer)
  PROVE  IInv'
<1> DEFINE to == [d \in Contracts |-> answer]
<1>1. TypeOK /\ contract[c].st \in Statuses /\ to \in [Contracts -> Statuses]
  BY DEF IInv, Decide, Statuses
<1>2. /\ contract' = [d \in Contracts |->
           IF d \in {c} THEN [contract[d] EXCEPT !.st = to[d]] ELSE contract[d]]
      /\ history' = [d \in Contracts |->
           IF d \in {c} THEN Moved(history[d], to[d], Never) ELSE history[d]]
  BY <1>1 DEF Decide, TypeOK
<1> HIDE DEF to
<1>3. /\ contract' \in [Contracts -> ContractRow]
      /\ history' \in [Contracts -> HistoryRows]
      /\ \A d \in Contracts :
           /\ contract'[d].staff = contract[d].staff /\ contract'[d].sent = contract[d].sent
           /\ contract'[d].st \in Statuses <=> contract[d].st \in Statuses
  BY ONLY <1>1, <1>2, {c} \in SUBSET Contracts, \A d \in {c} : contract[d].st \in Statuses,
          StatusMoveType
<1>4. UNCHANGED <<account, staff, inv, pending, out, lost, stamps, lapsed>>
  BY DEF Decide, answerVars
<1>5. stamps <= stamps'
  BY <1>1, <1>4 DEF TypeOK, StampsOrNever
<1> QED
  BY <1>1, <1>3, <1>4, <1>5, QuietStepKeepsIInv DEF TypeOK

\* finalize: contracts in progress end, links close, the record stays.
LEMMA FinalizedKeepsIInv ==
  ASSUME IInv, NEW s \in Staff, Finalized(s)
  PROVE  IInv'
<1> DEFINE ended == {d \in Contracts : contract[d].staff = s /\ contract[d].st \in InProgress}
           to == [d \in Contracts |-> "ENDED"]
<1>1. /\ TypeOK /\ to \in [Contracts -> Statuses] /\ ended \in SUBSET Contracts
      /\ \A d \in ended : contract[d].st \in Statuses
  BY DEF IInv, InProgress, Statuses
<1>2. /\ contract' = [d \in Contracts |->
           IF d \in ended THEN [contract[d] EXCEPT !.st = to[d]] ELSE contract[d]]
      /\ history' = [d \in Contracts |->
           IF d \in ended THEN Moved(history[d], to[d], Never) ELSE history[d]]
  BY DEF Finalized
<1> HIDE DEF to, ended
<1>3. /\ contract' \in [Contracts -> ContractRow]
      /\ history' \in [Contracts -> HistoryRows]
      /\ \A d \in Contracts :
           /\ contract'[d].staff = contract[d].staff /\ contract'[d].sent = contract[d].sent
           /\ contract'[d].st \in Statuses <=> contract[d].st \in Statuses
  BY <1>1, <1>2, StatusMoveType
<1>4. /\ inv' = Expire({s})
      /\ staff' = [staff EXCEPT ![s].leave = "LEFT", ![s].logged = TRUE]
      /\ UNCHANGED <<account, pending, out, lost, stamps, lapsed>>
  BY DEF Finalized, answerVars
<1>5. stamps <= stamps' /\ stamps' \in StampsOrNever /\ account' \in [Phones -> BOOLEAN]
  BY <1>1, <1>4 DEF TypeOK, StampsOrNever
<1>6. /\ staff' \in [Staff -> StaffRow]
      /\ \A t \in Staff : staff[t].join \in {"DRAFT", "INVITED", "JOINED"} =>
                           staff'[t].join \in {"DRAFT", "INVITED", "JOINED"}
  <2> DEFINE yes == TRUE
             left == [staff[s] EXCEPT !.leave = "LEFT", !.logged = yes]
  <2>1. staff \in [Staff -> StaffRow] /\ staff[s] \in StaffRow /\ yes \in BOOLEAN
    BY <1>1 DEF TypeOK
  <2>2. staff' = [staff EXCEPT ![s] = left]
    BY <1>4, <2>1
  <2> HIDE DEF yes
  <2>3. left \in StaffRow /\ left.join = staff[s].join
    BY <2>1 DEF StaffRow
  <2> HIDE DEF left
  <2> QED
    BY <2>1, <2>2, <2>3
<1> QED
  BY <1>1, <1>3, <1>4, <1>5, <1>6, ExpireCloses, QuietStepKeepsIInv

\* A retirement that is scheduled or called off touches the record only.
LEMMA LeaveOnlyKeepsIInv ==
  ASSUME IInv, NEW s \in Staff, NEW leave \in {"STAYS", "LEAVING"}, NEW logged \in BOOLEAN,
         staff' = [staff EXCEPT ![s] = [staff[s] EXCEPT !.leave = leave, !.logged = logged]],
         UNCHANGED <<account, contract, history, inv, pending, out, lost, stamps, lapsed>>
  PROVE  IInv'
<1>1. TypeOK
  BY DEF IInv
<1>2. /\ staff' \in [Staff -> StaffRow]
      /\ \A t \in Staff : staff[t].join \in {"DRAFT", "INVITED", "JOINED"} =>
                           staff'[t].join \in {"DRAFT", "INVITED", "JOINED"}
  <2>1. staff[s] \in StaffRow
    BY <1>1 DEF TypeOK
  <2>2. /\ [staff[s] EXCEPT !.leave = leave, !.logged = logged] \in StaffRow
        /\ [staff[s] EXCEPT !.leave = leave, !.logged = logged].join = staff[s].join
    BY <2>1 DEF StaffRow
  <2> QED
    BY <1>1, <2>2 DEF TypeOK
<1>3. stamps <= stamps'
  BY <1>1 DEF TypeOK, StampsOrNever
<1> QED
  BY <1>1, <1>2, <1>3, QuietStepKeepsIInv DEF TypeOK

\* RetirementService.retire keeps the inductive invariant, at once or for later.
LEMMA RetireKeepsIInv ==
  ASSUME IInv, NEW s \in Staff, NEW past \in BOOLEAN, Retire(s, past)
  PROVE  IInv'
<1>1. CASE past
  BY <1>1, FinalizedKeepsIInv DEF Retire
<1>2. CASE ~past
  <2> DEFINE yes == TRUE
  <2>1. /\ staff' = [staff EXCEPT ![s] = [staff[s] EXCEPT !.leave = "LEAVING", !.logged = yes]]
        /\ UNCHANGED <<account, contract, history, inv, pending, out, lost, stamps, lapsed>>
    BY <1>2 DEF Retire, answerVars, IInv, TypeOK
  <2>2. yes \in BOOLEAN /\ "LEAVING" \in {"STAYS", "LEAVING"}
    OBVIOUS
  <2> HIDE DEF yes
  <2> QED
    BY <2>1, <2>2, LeaveOnlyKeepsIInv
<1> QED
  BY <1>1, <1>2

\* RetirementService.cancel keeps the inductive invariant.
LEMMA CancelRetirementKeepsIInv ==
  ASSUME IInv, NEW s \in Staff, CancelRetirement(s)
  PROVE  IInv'
<1> DEFINE logged == staff[s].logged
<1>1. staff[s] \in StaffRow /\ logged \in BOOLEAN
  BY DEF IInv, TypeOK, StaffRow
<1>2. [staff[s] EXCEPT !.leave = "STAYS"] = [staff[s] EXCEPT !.leave = "STAYS", !.logged = logged]
  BY <1>1 DEF StaffRow
<1>3. /\ staff' = [staff EXCEPT ![s] = [staff[s] EXCEPT !.leave = "STAYS", !.logged = logged]]
      /\ UNCHANGED <<account, contract, history, inv, pending, out, lost, stamps, lapsed>>
  BY <1>2 DEF CancelRetirement, answerVars
<1>4. "STAYS" \in {"STAYS", "LEAVING"}
  OBVIOUS
<1> HIDE DEF logged
<1> QED
  BY <1>1, <1>3, <1>4, LeaveOnlyKeepsIInv

\* The daily batch keeps the inductive invariant.
LEMMA RunDailyKeepsIInv ==
  ASSUME IInv, NEW over \in SUBSET SignedContracts, RunDaily(over)
  PROVE  IInv'
<1> DEFINE late == {d \in Contracts : contract[d].st = "PENDING_SIGNATURE" /\ Due(contract[d].due)}
           M == late \union over
           to == [d \in Contracts |-> IF d \in late THEN "EXPIRED" ELSE "ENDED"]
<1>1. TypeOK
  BY DEF IInv
<1>2. /\ M \in SUBSET Contracts /\ to \in [Contracts -> Statuses]
      /\ \A d \in M : contract[d].st \in Statuses
  BY DEF SignedContracts, Statuses
<1>3. /\ contract' = [d \in Contracts |->
           IF d \in M THEN [contract[d] EXCEPT !.st = to[d]] ELSE contract[d]]
      /\ history' = [d \in Contracts |->
           IF d \in M THEN Moved(history[d], to[d], Never) ELSE history[d]]
  <2>1. \A d \in Contracts :
          /\ contract'[d] = IF d \in M THEN [contract[d] EXCEPT !.st = to[d]] ELSE contract[d]
          /\ history'[d] = IF d \in M THEN Moved(history[d], to[d], Never) ELSE history[d]
    BY DEF RunDaily
  <2>2. contract' = [d \in Contracts |-> contract'[d]] /\ history' = [d \in Contracts |-> history'[d]]
    BY DEF RunDaily
  <2> HIDE DEF M, to
  <2> QED
    BY <2>1, <2>2
<1> HIDE DEF late, M, to
<1>4. /\ contract' \in [Contracts -> ContractRow]
      /\ history' \in [Contracts -> HistoryRows]
      /\ \A d \in Contracts :
           /\ contract'[d].staff = contract[d].staff /\ contract'[d].sent = contract[d].sent
           /\ contract'[d].st \in Statuses <=> contract[d].st \in Statuses
  BY <1>1, <1>2, <1>3, StatusMoveType
<1>5. /\ inv' \in [Stamps -> InvitationRow]
      /\ \A n \in Stamps :
           /\ inv'[n].staff = inv[n].staff /\ (inv'[n].st = "NONE" <=> inv[n].st = "NONE")
           /\ inv'[n].st = "SENT" => inv[n].st = "SENT"
  <2>1. ASSUME NEW n \in Stamps
        PROVE  /\ inv'[n] \in InvitationRow
               /\ inv'[n].staff = inv[n].staff /\ (inv'[n].st = "NONE" <=> inv[n].st = "NONE")
               /\ inv'[n].st = "SENT" => inv[n].st = "SENT"
    <3>1. inv[n] \in InvitationRow
      BY <1>1 DEF TypeOK
    <3>2. inv'[n] = IF inv[n].st = "SENT" /\ Due(n) THEN [inv[n] EXCEPT !.st = "EXPIRED"] ELSE inv[n]
      BY DEF RunDaily
    <3> QED
      BY <3>1, <3>2 DEF InvitationRow
  <2>2. inv' = [n \in Stamps |-> inv'[n]]
    BY DEF RunDaily
  <2> QED
    BY <2>1, <2>2
<1>6. UNCHANGED <<account, staff, pending, out, lost, stamps, lapsed>>
  BY DEF RunDaily, answerVars
<1>7. stamps <= stamps'
  BY <1>1, <1>6 DEF TypeOK, StampsOrNever
<1> QED
  BY <1>1, <1>4, <1>5, <1>6, <1>7, QuietStepKeepsIInv DEF TypeOK

-----------------------------------------------------------------------------
(* Dispatch and undo                                                       *)

\* Settling a send, or taking it one stage on, leaves the rows alone and what
\* the other requests remember.
LEMMA DispatchKeepsIInv ==
  ASSUME IInv, NEW p \in pending, UNCHANGED rows,
         pending' \subseteq pending \union
           {[p EXCEPT !.stage = stage] : stage \in {"committed", "sending", "undoing"}},
         out' \subseteq Stamps, lost' \subseteq Stamps
  PROVE  IInv'
<1>1. TypeOK /\ p \in PendingInvite
  BY DEF IInv, TypeOK
<1>2. ASSUME NEW stage \in {"committed", "sending", "undoing"}
      PROVE  /\ [p EXCEPT !.stage = stage] \in PendingInvite
             /\ [p EXCEPT !.stage = stage].send = p.send
             /\ [p EXCEPT !.stage = stage].staff = p.staff
             /\ [p EXCEPT !.stage = stage].expired = p.expired
  BY <1>1 DEF PendingInvite
<1>3. \A q \in pending' : /\ q \in PendingInvite
                          /\ \E o \in pending : q.send = o.send /\ q.staff = o.staff /\ q.expired = o.expired
  BY <1>1, <1>2 DEF TypeOK
<1>4. stamps <= stamps' /\ UNCHANGED <<account, staff, contract, history, inv, stamps, lapsed>>
  BY <1>1 DEF TypeOK, StampsOrNever, rows
<1>5. LinksInOrder'
  <2>1. \A q \in pending' : \E o \in pending :
          q.send = o.send /\ q.staff = o.staff /\ q.expired = o.expired
    BY <1>3
  <2> QED
    BY <1>1, <1>4, <2>1, ClosingKeepsOrder DEF IInv, TypeOK
<1>6. RecordsExist'
  BY <1>4 DEF IInv, RecordsExist, Exists, Registered
<1> QED
  BY <1>1, <1>3, <1>4, <1>5, <1>6 DEF IInv, TypeOK

\* Whatever dispatch meets before it undoes anything keeps the inductive invariant.
LEMMA DispatchStepsKeepIInv ==
  ASSUME IInv, NEW p \in pending,
         \/ DispatchReread(p) \/ AlimtalkAccepted(p) \/ AlimtalkFailed(p)
         \/ AlimtalkUnconfirmed(p) \/ UndoError(p) \/ Abandoned(p)
  PROVE  IInv'
<1>1. p \in PendingInvite /\ out \subseteq Stamps /\ lost \subseteq Stamps
  BY DEF IInv, TypeOK
<1>2. p.send \in Stamps
  BY <1>1 DEF PendingInvite
<1>3. UNCHANGED rows
  BY DEF DispatchReread, AlimtalkAccepted, AlimtalkFailed, AlimtalkUnconfirmed, UndoError, Abandoned
<1>4. \/ Done(p)
      \/ \E stage \in {"committed", "sending", "undoing"} : Step(p, stage)
  BY DEF DispatchReread, AlimtalkAccepted, AlimtalkFailed, AlimtalkUnconfirmed, UndoError, Abandoned
<1>5. pending' \subseteq pending \union
        {[p EXCEPT !.stage = stage] : stage \in {"committed", "sending", "undoing"}}
  BY <1>4 DEF Done, Step
<1>6. out' \subseteq out \union {p.send} /\ lost' \subseteq lost \union {p.send}
  BY DEF DispatchReread, AlimtalkAccepted, AlimtalkFailed, AlimtalkUnconfirmed, UndoError, Abandoned
<1>7. out' \subseteq Stamps /\ lost' \subseteq Stamps
  BY <1>1, <1>2, <1>6
<1> QED
  BY <1>3, <1>5, <1>7, DispatchKeepsIInv

\* undo returns a contract to one of its statuses.
LEMMA RestoredStatusType ==
  ASSUME NEW p \in PendingInvite, NEW live
  PROVE  RestoredStatusOf(p, live) \in Statuses
<1>1. p.before.st \in Statuses \union {"NONE"}
  BY DEF PendingInvite, Before
<1> QED
  BY <1>1 DEF RestoredStatusOf, Statuses

\* What undo does to the history keeps to its columns.
LEMMA TurnedBackType ==
  ASSUME NEW h \in HistoryRows, NEW p \in PendingInvite, NEW restored \in Statuses
  PROVE  TurnedBack(h, p, restored) \in HistoryRows
<1> DEFINE last == IF p.before.st = "NONE" THEN "DRAFT" ELSE p.before.st
           undone == IF ~p.moved \/ h.by # p.send THEN h
                     ELSE [h EXCEPT !.last = last, !.by = Never]
<1>1. Never \in StampsOrNever
  BY MaxStampsAssumption DEF StampsOrNever, Never
<1>2. last \in Statuses
  BY DEF PendingInvite, Before, Statuses
<1>3. undone \in HistoryRows
  <2> HIDE DEF last
  <2> QED
    BY <1>1, <1>2 DEF HistoryRows
<1>4. TurnedBack(h, p, restored) \in {Moved(undone, restored, Never), undone}
  BY DEF TurnedBack
<1> HIDE DEF undone
<1>5. Moved(undone, restored, Never) \in HistoryRows
  BY <1>1, <1>3, MovedType
<1> QED
  BY <1>3, <1>4, <1>5

\* Turning a send back: its invitation goes, and at most one older link of the
\* same record comes back, for the send's own link was the only usable one.
LEMMA TurnBackKeepsIInv ==
  ASSUME IInv, NEW p \in pending, ~Overtaken(p), TurnBack(p), pending' \subseteq pending,
         UNCHANGED <<account, stamps, lapsed, out, lost>>
  PROVE  IInv'
<1> DEFINE s == p.staff
           c == p.contract
           n == p.send
           live == Revived(p) # {} \/ Live(s) \ {n} # {}
           restored == RestoredStatusOf(p, live)
           sent == IF restored = "DRAFT" THEN Never ELSE p.before.sent
           due == IF restored = "DRAFT" THEN Never ELSE p.before.due
           act == IF RejudgedOf(p) THEN p.kind ELSE p.before.act
           row == [contract[c] EXCEPT !.st = restored, !.sent = sent, !.due = due, !.act = act]
           cand == IF p.kind = "AFFILIATION" THEN staff[s].cand
                   ELSE IF RejudgedOf(p) THEN NoOne ELSE p.before.cand
           rec == [staff[s] EXCEPT !.join = "DRAFT", !.cand = cand]
<1>1. TypeOK /\ p \in PendingInvite /\ Never \in StampsOrNever
  BY MaxStampsAssumption DEF IInv, TypeOK, StampsOrNever, Never
<1>2. /\ s \in Staff /\ c \in Contracts /\ n \in Stamps /\ p.before \in Before
      /\ p.kind \in {"INVITE", "AFFILIATION"} /\ p.expired \subseteq Stamps
  BY <1>1 DEF PendingInvite
<1>3. contract[c] \in ContractRow /\ history[c] \in HistoryRows /\ staff[s] \in StaffRow
  BY <1>1, <1>2 DEF TypeOK
<1>4. /\ inv[n].st = "SENT" /\ contract[c].sent = n
  BY DEF Overtaken
<1>5. /\ inv[n].staff = s /\ n <= stamps
      /\ \A m \in p.expired : m < p.send /\ (inv[m].st # "NONE" => inv[m].staff = s)
      /\ \A k, m \in p.expired : k = m
  BY <1>4 DEF IInv, LinksInOrder, SendsKnowTheirLinks
<1>6. Revived(p) \subseteq p.expired /\ \A m \in Revived(p) : inv[m].st = "EXPIRED"
  BY DEF Revived
<1>7. restored \in Statuses
  BY <1>1, RestoredStatusType
<1>8. /\ contract' = [contract EXCEPT ![c] = row]
      /\ history' = [history EXCEPT ![c] = TurnedBack(history[c], p, restored)]
      /\ staff' = staff \/ (staff[s].join = "INVITED" /\ staff' = [staff EXCEPT ![s] = rec])
      /\ inv' = [m \in Stamps |-> IF m = n THEN NoInvitation
                                  ELSE IF m \in Revived(p) THEN [inv[m] EXCEPT !.st = "SENT"] ELSE inv[m]]
  <2> HIDE DEF Revived, RestoredStatusOf, RejudgedOf, TurnedBack, live
  <2>1. contract' = [contract EXCEPT ![c] = row]
    BY DEF TurnBack, live
  <2>2. history' = [history EXCEPT ![c] = TurnedBack(history[c], p, restored)]
    BY DEF TurnBack, live
  <2>3. staff' = staff \/ (staff[s].join = "INVITED" /\ staff' = [staff EXCEPT ![s] = rec])
    BY <1>1, <1>2 DEF TurnBack, TypeOK
  <2>4. inv' = [m \in Stamps |-> IF m = n THEN NoInvitation
                                ELSE IF m \in Revived(p) THEN [inv[m] EXCEPT !.st = "SENT"] ELSE inv[m]]
    BY DEF TurnBack
  <2> QED
    BY <2>1, <2>2, <2>3, <2>4
<1>9. row \in ContractRow /\ row.st \in Statuses /\ row.staff = contract[c].staff
  <2>1. sent \in StampsOrNever /\ due \in StampsOrNever /\ act \in DraftActions
    BY <1>1, <1>2 DEF Before, DraftActions
  <2> HIDE DEF restored, sent, due, act
  <2> QED
    BY <1>3, <1>7, <2>1 DEF ContractRow
<1>10. rec \in StaffRow /\ rec.join = "DRAFT"
  <2>1. cand \in Phones \union {NoOne}
    BY <1>2, <1>3 DEF StaffRow, Before
  <2> HIDE DEF cand
  <2> QED
    BY <1>3, <2>1 DEF StaffRow
<1>11. TurnedBack(history[c], p, restored) \in HistoryRows
  <2> HIDE DEF restored
  <2> QED
    BY <1>1, <1>3, <1>7, TurnedBackType
<1> HIDE DEF row, rec, restored
<1>12. TypeOK'
  <2>1. contract' \in [Contracts -> ContractRow] /\ history' \in [Contracts -> HistoryRows]
    BY <1>1, <1>8, <1>9, <1>11 DEF TypeOK
  <2>2. staff' \in [Staff -> StaffRow]
    BY <1>1, <1>8, <1>10 DEF TypeOK
  <2>3. inv' \in [Stamps -> InvitationRow]
    <3>1. NoInvitation \in InvitationRow
      BY DEF NoInvitation, InvitationRow, DraftActions
    <3>2. \A m \in Stamps : inv[m] \in InvitationRow /\ [inv[m] EXCEPT !.st = "SENT"] \in InvitationRow
      BY <1>1 DEF TypeOK, InvitationRow
    <3> QED
      BY <1>8, <3>1, <3>2
  <2> QED
    BY <1>1, <2>1, <2>2, <2>3 DEF TypeOK
<1>13. RecordsExist'
  <2>1. contract[c].st \in Statuses
    BY <1>2, <1>4 DEF IInv, RecordsExist, Exists, Never, Stamps
  <2>2. ASSUME NEW d \in Contracts
        PROVE  IF Exists(d)' THEN contract'[d].staff \in Staff /\ Registered(contract[d].staff)'
               ELSE contract'[d].sent = Never
    <3>1. /\ contract'[d].staff = contract[d].staff
          /\ contract'[d].st \in Statuses <=> contract[d].st \in Statuses
          /\ d # c => contract'[d] = contract[d]
      BY <1>1, <1>2, <1>8, <1>9, <2>1 DEF TypeOK
    <3>2. \A t \in Staff : staff[t].join \in {"DRAFT", "INVITED", "JOINED"} =>
                           staff'[t].join \in {"DRAFT", "INVITED", "JOINED"}
      BY <1>1, <1>2, <1>8, <1>10 DEF TypeOK
    <3>3. IF Exists(d) THEN contract[d].staff \in Staff /\ Registered(contract[d].staff)
          ELSE contract[d].sent = Never
      BY DEF IInv, RecordsExist
    <3> QED
      BY <2>1, <3>1, <3>2, <3>3 DEF Exists, Registered
  <2>3. \A d \in Contracts : contract'[d].staff = contract[d].staff
    BY <1>1, <1>2, <1>8, <1>9 DEF TypeOK
  <2> QED
    BY <2>2, <2>3 DEF RecordsExist, Exists, Registered
<1>14. /\ inv'[n].st = "NONE" /\ inv'[n].staff = NoOne
       /\ \A m \in Stamps \ {n} :
            /\ inv'[m].staff = inv[m].staff /\ (inv'[m].st = "NONE" <=> inv[m].st = "NONE")
            /\ inv'[m].st = "SENT" => inv[m].st = "SENT" \/ m \in Revived(p)
  <2>1. \A m \in Stamps : /\ [inv[m] EXCEPT !.st = "SENT"].staff = inv[m].staff
                          /\ inv[m] \in InvitationRow
    BY <1>1 DEF TypeOK, InvitationRow
  <2> QED
    BY <1>2, <1>6, <1>8, <2>1 DEF NoInvitation
<1>15. OneLiveInvitation'
  <2> SUFFICES ASSUME NEW k \in Stamps, NEW m \in Stamps,
                      inv'[k].st = "SENT", inv'[m].st = "SENT", inv'[k].staff = inv'[m].staff
               PROVE  k = m
    BY DEF OneLiveInvitation
  <2>1. /\ k # n /\ m # n /\ inv[k].staff = inv[m].staff
        /\ inv[k].st = "SENT" \/ k \in Revived(p)
        /\ inv[m].st = "SENT" \/ m \in Revived(p)
    BY <1>14
  <2>2. \A r \in Stamps : inv[r].st = "SENT" /\ inv[r].staff = s => r = n
    BY <1>2, <1>4, <1>5 DEF IInv, LinksInOrder, OneLiveInvitation
  <2>3. \A r \in Revived(p) : r \in p.expired /\ inv[r].staff = s
    BY <1>5, <1>6
  <2>4. CASE k \in Revived(p) \/ m \in Revived(p)
    BY <1>5, <2>1, <2>2, <2>3, <2>4
  <2>5. CASE inv[k].st = "SENT" /\ inv[m].st = "SENT"
    BY <2>1, <2>5 DEF IInv, LinksInOrder, OneLiveInvitation
  <2> QED
    BY <2>1, <2>4, <2>5
<1>16. LinksAreStamped'
  BY <1>14 DEF IInv, LinksInOrder, LinksAreStamped
<1>17. SendsKnowTheirLinks'
  <2> SUFFICES ASSUME NEW q \in pending
               PROVE  /\ q.send <= stamps'
                      /\ inv'[q.send].st # "NONE" => inv'[q.send].staff = q.staff
                      /\ \A m \in q.expired :
                           m < q.send /\ (inv'[m].st # "NONE" => inv'[m].staff = q.staff)
                      /\ \A k, m \in q.expired : k = m
    BY DEF SendsKnowTheirLinks
  <2>1. q.send \in Stamps /\ q.expired \subseteq Stamps
    BY <1>1 DEF TypeOK, PendingInvite
  <2>2. /\ q.send <= stamps
        /\ inv[q.send].st # "NONE" => inv[q.send].staff = q.staff
        /\ \A m \in q.expired : m < q.send /\ (inv[m].st # "NONE" => inv[m].staff = q.staff)
        /\ \A k, m \in q.expired : k = m
    BY DEF IInv, LinksInOrder, SendsKnowTheirLinks
  <2> QED
    BY <1>14, <2>1, <2>2
<1> QED
  BY <1>12, <1>13, <1>15, <1>16, <1>17 DEF IInv, LinksInOrder

\* undo keeps the inductive invariant: answered, overtaken or turned back.
LEMMA UndoKeepsIInv ==
  ASSUME IInv, NEW p \in pending, Undo(p)
  PROVE  IInv'
<1>1. /\ pending' \subseteq pending /\ UNCHANGED <<account, stamps, lapsed, out, lost>>
  BY DEF Undo, Done
<1>2. TypeOK /\ p.send \in Stamps /\ \A q \in pending' : q \in pending
  BY <1>1 DEF IInv, TypeOK, PendingInvite
<1>3. stamps <= stamps' /\ stamps' \in StampsOrNever
  BY <1>1, <1>2 DEF TypeOK, StampsOrNever
<1>4. CASE ~Answered(p.send) /\ ~Overtaken(p)
  BY <1>1, <1>4, TurnBackKeepsIInv DEF Undo
<1>5. CASE Answered(p.send) \/ Overtaken(p)
  <2>1. /\ UNCHANGED <<staff, contract, history>>
        /\ inv' = inv \/ inv' = [inv EXCEPT ![p.send] = NoInvitation]
    BY <1>5 DEF Undo
  <2>2. /\ NoInvitation \in InvitationRow /\ NoInvitation.st = "NONE"
    BY DEF NoInvitation, InvitationRow, DraftActions
  <2>3. /\ inv' \in [Stamps -> InvitationRow]
        /\ \A m \in Stamps : inv'[m] = inv[m] \/ inv'[m] = NoInvitation
    BY <1>2, <2>1, <2>2 DEF TypeOK
  <2>4. LinksInOrder'
    <3>1. \A m \in Stamps :
            \/ /\ inv'[m].staff = inv[m].staff /\ (inv'[m].st = "NONE" <=> inv[m].st = "NONE")
               /\ inv'[m].st = "SENT" => inv[m].st = "SENT"
            \/ inv'[m] = NoInvitation
      BY <2>3
    <3>2. \A q \in pending' : \E o \in pending :
            q.send = o.send /\ q.staff = o.staff /\ q.expired = o.expired
      BY <1>2
    <3> QED
      BY <1>2, <1>3, <3>1, <3>2, ClosingKeepsOrder DEF IInv
  <2>5. RecordsExist'
    BY <2>1 DEF IInv, RecordsExist, Exists, Registered
  <2>6. TypeOK'
    BY <1>1, <1>2, <2>1, <2>3 DEF TypeOK
  <2> QED
    BY <2>4, <2>5, <2>6 DEF IInv
<1> QED
  BY <1>4, <1>5

-----------------------------------------------------------------------------
(* The theorems                                                            *)

LEMMA InitEstablishesIInv == Init => IInv
<1> SUFFICES ASSUME Init PROVE IInv
  OBVIOUS
<1>1. Never \in StampsOrNever
  BY MaxStampsAssumption DEF StampsOrNever, Never
<1>2. /\ NoRecord \in StaffRow /\ NoInvitation \in InvitationRow
  BY DEF NoRecord, StaffRow, NoInvitation, InvitationRow, DraftActions
<1>3. NoContract \in ContractRow /\ NoHistory \in HistoryRows
  BY <1>1 DEF NoContract, ContractRow, NoHistory, HistoryRows, DraftActions
<1>4. TypeOK
  <2>1. account \in [Phones -> BOOLEAN]
    BY DEF Init
  <2> QED
    BY <1>1, <1>2, <1>3, <2>1 DEF Init, TypeOK
<1>5. RecordsExist
  BY DEF Init, RecordsExist, Exists, NoContract, Statuses
<1>6. LinksInOrder
  BY DEF Init, LinksInOrder, LinksAreStamped, SendsKnowTheirLinks, OneLiveInvitation, NoInvitation
<1> QED
  BY <1>4, <1>5, <1>6 DEF IInv

\* Every step keeps the inductive invariant: one step of the proof per action.
LEMMA NextKeepsIInv == IInv /\ [Next]_vars => IInv'
<1> SUFFICES ASSUME IInv, [Next]_vars PROVE IInv'
  OBVIOUS
<1>1. CASE Admin
  <2>1. ASSUME NEW c \in Contracts, NEW s \in Staff, NEW ph \in Phones,
               NEW target \in {"DRAFT", "PENDING_SEND", "SIGNED"}, Create(c, s, ph, target)
        PROVE  IInv'
    BY <2>1, CreateKeepsIInv
  <2>2. ASSUME NEW c \in Contracts, NEW ph \in Phones,
               NEW target \in {"DRAFT", "PENDING_SEND", "SIGNED"}, Save(c, ph, target)
        PROVE  IInv'
    BY <2>2, SaveKeepsIInv
  <2>3. ASSUME NEW c \in Contracts, NEW ph \in Phones, UpdateWorker(c, ph) PROVE IInv'
    BY <2>3, UpdateWorkerKeepsIInv
  <2>4. ASSUME NEW c \in Contracts, Resend(c) \/ End(c) \/ Remove(c) PROVE IInv'
    BY <2>4, ResendKeepsIInv, EndKeepsIInv, RemoveKeepsIInv
  <2>5. ASSUME NEW s \in Leavers, NEW past \in BOOLEAN, Retire(s, past) PROVE IInv'
    BY <2>5, RetireKeepsIInv, LeaversAssumption
  <2>6. ASSUME NEW s \in Staff, CancelRetirement(s) PROVE IInv'
    BY <2>6, CancelRetirementKeepsIInv
  <2> QED
    BY <1>1, <2>1, <2>2, <2>3, <2>4, <2>5, <2>6 DEF Admin
<1>2. CASE Worker
  <2>1. ASSUME NEW n \in Stamps,
               Signup(n) \/ SignupUnderAge(n) \/ AcceptForAccount(n) \/ AcceptRequest(n) \/ RejectRequest(n)
        PROVE  IInv'
    BY <2>1, SignupKeepsIInv, SignupUnderAgeKeepsIInv, AcceptForAccountKeepsIInv,
       AcceptRequestKeepsIInv, RejectRequestKeepsIInv
  <2>2. ASSUME NEW c \in Contracts, NEW to \in {"SIGNED", "REJECTED", "CORRECTION_REQUESTED"},
               Decide(c, to)
        PROVE  IInv'
    BY <2>2, DecideKeepsIInv
  <2> QED
    BY <1>2, <2>1, <2>2 DEF Worker
<1>3. CASE Nightly
  <2>1. ASSUME NEW over \in SUBSET SignedContracts, RunDaily(over) PROVE IInv'
    BY <2>1, RunDailyKeepsIInv
  <2>2. ASSUME NEW s \in Staff, RetireDue(s) PROVE IInv'
    BY <2>2, FinalizedKeepsIInv DEF RetireDue
  <2> QED
    BY <1>3, <2>1, <2>2 DEF Nightly
<1>4. CASE Delivery
  BY <1>4, DispatchStepsKeepIInv, UndoKeepsIInv DEF Delivery
<1>5. CASE Environment
  <2>1. TypeOK /\ LinksInOrder /\ RecordsExist
    BY DEF IInv
  <2>2. /\ UNCHANGED <<staff, contract, history, inv, pending, out, lost, stamps>>
        /\ account' \in [Phones -> BOOLEAN] /\ lapsed' \in StampsOrNever
    <3>1. ASSUME NEW ph \in Phones, AccountElsewhere(ph)
          PROVE  /\ UNCHANGED <<staff, contract, history, inv, pending, out, lost, stamps, lapsed>>
                 /\ account' \in [Phones -> BOOLEAN]
      <4> DEFINE yes == TRUE
      <4>1. yes \in BOOLEAN /\ account' = [account EXCEPT ![ph] = yes]
        BY <3>1 DEF AccountElsewhere
      <4> HIDE DEF yes
      <4>2. account' \in [Phones -> BOOLEAN]
        BY <2>1, <4>1 DEF TypeOK
      <4> QED
        BY <3>1, <4>2 DEF AccountElsewhere, answerVars
    <3>2. ASSUME Lapse
          PROVE  /\ UNCHANGED <<account, staff, contract, history, inv, pending, out, lost, stamps>>
                 /\ lapsed' \in StampsOrNever
      BY <2>1, <3>2, MaxStampsAssumption DEF Lapse, answerVars, TypeOK, StampsOrNever
    <3> QED
      BY <1>5, <2>1, <3>1, <3>2 DEF Environment, TypeOK
  <2>3. RecordsExist'
    BY <2>1, <2>2 DEF RecordsExist, Exists, Registered
  <2>4. LinksInOrder'
    BY <2>1, <2>2 DEF LinksInOrder, LinksAreStamped, SendsKnowTheirLinks, OneLiveInvitation
  <2>5. TypeOK'
    BY <2>1, <2>2 DEF TypeOK
  <2> QED
    BY <2>3, <2>4, <2>5 DEF IInv
<1>6. CASE UNCHANGED vars
  BY <1>6 DEF vars, IInv, TypeOK, RecordsExist, Exists, Registered, LinksInOrder, LinksAreStamped,
              SendsKnowTheirLinks, OneLiveInvitation
<1> QED
  BY <1>1, <1>2, <1>3, <1>4, <1>5, <1>6 DEF Next

\* The invariant holds in every reachable state.
THEOREM Invariance == Spec => []IInv
BY InitEstablishesIInv, NextKeepsIInv, PTL DEF Spec

\* Every row the requests, batches and undos write is one the schema allows.
THEOREM TypeCorrect == Spec => []TypeOK
<1>1. IInv => TypeOK
  BY DEF IInv
<1> QED
  BY <1>1, Invariance, PTL

\* A worker never holds two usable links of one record, however many sends,
\* undos, answers and batches of how many requests overlap.
THEOREM AtMostOneLiveInvitation == Spec => []OneLiveInvitation
<1>1. IInv => OneLiveInvitation
  BY DEF IInv, LinksInOrder
<1> QED
  BY <1>1, Invariance, PTL
=============================================================================
