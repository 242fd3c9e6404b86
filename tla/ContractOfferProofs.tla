------------------------- MODULE ContractOfferProofs -------------------------
(***************************************************************************)
(* Theorems about ContractDelivery: what is on offer, what undo finds and  *)
(* who holds what, for any number of records, phones, contracts and sends. *)
(***************************************************************************)
EXTENDS ContractLinkProofs

-----------------------------------------------------------------------------
(* The inductive invariant, beyond IInv and SentOnce                       *)

Waits(c) == contract[c].st = "PENDING_SEND"

\* A usable link is the one of the last send of a waiting contract of its record,
\* judged as the contract is, and nobody is employed under its number.
LinkOf(n, c) ==
  /\ contract[c].staff = inv[n].staff /\ Waits(c)
  /\ contract[c].act = inv[n].kind /\ contract[c].sent = n
LinksAreOffers ==
  \A n \in Stamps : inv[n].st = "SENT" =>
    LET r == staff[inv[n].staff]
    IN  /\ \E c \in Contracts : LinkOf(n, c)
        /\ r.join = "INVITED" /\ EmployedAt(r.phone) = {}
        /\ r.cand = IF inv[n].kind = "INVITE" THEN NoOne ELSE r.phone

\* A waiting contract names a send that got out, or whose link is usable; it
\* entered this status by that send or an earlier one, and has a deadline if it
\* is to be signed without another.
GotOutOrUsable(n) == n \in out \union lost \/ inv[n].st = "SENT"
WaitingIsAccounted ==
  \A c \in Contracts : Waits(c) =>
    /\ contract[c].sent # Never /\ history[c].by <= contract[c].sent
    /\ GotOutOrUsable(contract[c].sent)
    /\ contract[c].act = "INVITE" => contract[c].due # Never

\* An invitation nobody answered is one that got out or may yet be taken back.
LinksAreAccounted ==
  \A n \in Stamps :
    inv[n].st \in {"SENT", "EXPIRED", "UNDER_AGE"} => n \in out \union lost \union InFlight

\* Sends still to be settled are young, and nobody else has settled them.
SendsAreOpen ==
  /\ lapsed <= stamps /\ \A n \in out \union lost : n <= stamps
  /\ \A p \in pending : lapsed < p.send /\ p.send \notin out \union lost

\* A stamp belongs to one contract, on its row or in a send's memory of it.
Owns(c, n) ==
  \/ contract[c].sent = n
  \/ \E p \in pending : p.contract = c /\ n \in {p.send, p.before.sent}
StampsAreOwned ==
  \A n \in Stamps : \A c, d \in Contracts : Owns(c, n) => n <= stamps /\ (Owns(d, n) => c = d)

\* What a send remembers tells how its contract was.
Remembers(p) ==
  LET c == p.contract
      b == p.before
  IN  /\ b.st \in {"NONE", "DRAFT", "PENDING_SEND", "REJECTED", "EXPIRED"}
      /\ p.moved <=> b.st # "PENDING_SEND"
      /\ b.st = "PENDING_SEND" /\ b.act = "INVITE" => b.due # Never
      /\ contract[c].st # "NONE" /\ (Exists(c) => contract[c].staff = p.staff)
      /\ inv[p.send].st # "NONE" => inv[p.send].kind = p.kind
      /\ p.moved /\ Waits(c) => p.send <= history[c].by

\* A link that a send closed, replacing nothing, was that of its own contract, which
\* has not entered its status anew between the two.
ClosedItsOwn(p) ==
  ~p.replaced => \A m \in p.expired :
    /\ p.before.st = "PENDING_SEND" /\ p.before.sent = m /\ p.before.join = "INVITED"
    /\ inv[m].st # "NONE" => inv[m].kind = p.before.act
    /\ history[p.contract].by <= m \/ p.send < history[p.contract].by

SendsRemember == \A p \in pending : Remembers(p) /\ ClosedItsOwn(p)

Rules ==
  /\ HistoryTellsStatus /\ OneInProgressPerPhone /\ SigningIsPossible
  /\ LeaverHoldsNothing /\ OneEmployedRecord
Sends == SendsAreOpen /\ StampsAreOwned /\ SendsRemember
Offers == LinksAreOffers /\ WaitingIsAccounted /\ LinksAreAccounted
Dealings == Rules /\ Sends /\ Offers
OfferInv == IInv /\ SentOnce /\ Dealings

-----------------------------------------------------------------------------
(* What a send remembers stays true                                        *)

\* What the steps do to the rows that a send still to be settled refers to: no
\* contract changes hands or comes to wait but by a new send.
ContractsGoOn ==
  \A c \in Contracts :
    /\ contract[c].st # "NONE" => contract'[c].st # "NONE"
    /\ Exists(c)' /\ contract[c].st # "NONE" =>
         Exists(c) /\ contract'[c].staff = contract[c].staff
    /\ Waits(c)' => (Waits(c) /\ history'[c] = history[c]) \/ history'[c].by = stamps + 1
    /\ history'[c].by \in {history[c].by, Never, stamps + 1}
LinksGoOn ==
  \A n \in Stamps : n <= stamps /\ inv'[n].st # "NONE" =>
    inv[n].st # "NONE" /\ inv'[n].kind = inv[n].kind

\* A send's own facts.
LEMMA SendFacts ==
  ASSUME IInv, NEW p \in pending
  PROVE  /\ p.contract \in Contracts /\ p.staff \in Staff /\ p.send \in Stamps
         /\ p.send \in Int /\ p.send <= stamps /\ p.kind \in {"INVITE", "AFFILIATION"}
         /\ p.before \in Before /\ p.before.sent \in StampsOrNever
         /\ p.moved \in BOOLEAN /\ p.replaced \in BOOLEAN /\ p.expired \subseteq Stamps
         /\ \A m \in p.expired : m \in Int /\ m <= stamps /\ m < p.send
<1>1. p \in PendingInvite
  BY DEF IInv, TypeOK
<1>2. /\ p.contract \in Contracts /\ p.staff \in Staff /\ p.send \in Stamps
      /\ p.kind \in {"INVITE", "AFFILIATION"} /\ p.before \in Before
      /\ p.moved \in BOOLEAN /\ p.replaced \in BOOLEAN /\ p.expired \subseteq Stamps
  BY <1>1 DEF PendingInvite
<1>3. p.before.sent \in StampsOrNever
  BY <1>2 DEF Before
<1>4. p.send <= stamps /\ \A m \in p.expired : m < p.send
  BY DEF IInv, LinksInOrder, SendsKnowTheirLinks
<1>5. stamps \in Int /\ \A n \in Stamps : n \in Int
  BY MaxStampsAssumption DEF IInv, TypeOK, Stamps, StampsOrNever
<1> QED
  BY <1>2, <1>3, <1>4, <1>5

\* Stamps are integers, and the rows are what they are.
LEMMA Numbers ==
  ASSUME IInv
  PROVE  /\ stamps \in Int /\ 0 <= stamps /\ stamps <= MaxStamps /\ lapsed \in Int /\ Never = 0
         /\ \A n \in Stamps : n \in Int /\ 0 < n /\ n # Never
         /\ \A n \in StampsOrNever : n \in Int /\ 0 <= n /\ (n # Never => n \in Stamps)
         /\ \A c \in Contracts : /\ contract[c].sent \in StampsOrNever /\ contract[c].due \in StampsOrNever
                                 /\ history[c].by \in StampsOrNever
<1>1. \A c \in Contracts : contract[c] \in ContractRow /\ history[c] \in HistoryRows
  BY DEF IInv, TypeOK
<1>2. \A c \in Contracts : /\ contract[c].sent \in StampsOrNever /\ contract[c].due \in StampsOrNever
                           /\ history[c].by \in StampsOrNever
  BY <1>1 DEF ContractRow, HistoryRows
<1> QED
  BY <1>2, MaxStampsAssumption DEF IInv, TypeOK, Stamps, StampsOrNever, Never

\* Whatever the other requests do, what a send remembers stays true of its contract
\* and of the links it knows.
LEMMA RememberedStill ==
  ASSUME IInv, ContractsGoOn, LinksGoOn, NEW p \in pending, Remembers(p), ClosedItsOwn(p)
  PROVE  Remembers(p)' /\ ClosedItsOwn(p)'
<1> DEFINE c == p.contract
<1>1. /\ c \in Contracts /\ p.send \in Stamps /\ p.send \in Int /\ p.send <= stamps
      /\ p.expired \subseteq Stamps /\ \A m \in p.expired : m \in Int /\ m <= stamps /\ m < p.send
  BY SendFacts
<1>2. /\ stamps \in Int /\ history[c].by \in Int /\ Never = 0
      /\ \A n \in Stamps : n \in Int /\ 0 < n
  BY <1>1, Numbers
<1>3. /\ contract[c].st # "NONE" => contract'[c].st # "NONE"
      /\ Exists(c)' /\ contract[c].st # "NONE" => Exists(c) /\ contract'[c].staff = contract[c].staff
      /\ Waits(c)' => (Waits(c) /\ history'[c] = history[c]) \/ history'[c].by = stamps + 1
      /\ history'[c].by \in {history[c].by, Never, stamps + 1}
  BY <1>1 DEF ContractsGoOn
<1>4. \A n \in Stamps : n <= stamps /\ inv'[n].st # "NONE" =>
        inv[n].st # "NONE" /\ inv'[n].kind = inv[n].kind
  BY DEF LinksGoOn
<1>5. Remembers(p)'
  <2>1. /\ p.before.st \in {"NONE", "DRAFT", "PENDING_SEND", "REJECTED", "EXPIRED"}
        /\ p.moved <=> p.before.st # "PENDING_SEND"
        /\ p.before.st = "PENDING_SEND" /\ p.before.act = "INVITE" => p.before.due # Never
        /\ contract[c].st # "NONE" /\ (Exists(c) => contract[c].staff = p.staff)
        /\ inv[p.send].st # "NONE" => inv[p.send].kind = p.kind
        /\ p.moved /\ Waits(c) => p.send <= history[c].by
    BY DEF Remembers
  <2>2. contract'[c].st # "NONE" /\ (Exists(c)' => contract'[c].staff = p.staff)
    BY <1>3, <2>1
  <2>3. inv'[p.send].st # "NONE" => inv'[p.send].kind = p.kind
    BY <1>1, <1>4, <2>1
  <2>4. p.moved /\ Waits(c)' => p.send <= history'[c].by
    BY <1>1, <1>2, <1>3, <2>1
  <2> QED
    BY <2>1, <2>2, <2>3, <2>4 DEF Remembers, Waits, Exists
<1>6. ClosedItsOwn(p)'
  <2> SUFFICES ASSUME ~p.replaced, NEW m \in p.expired
               PROVE  /\ p.before.st = "PENDING_SEND" /\ p.before.sent = m
                      /\ p.before.join = "INVITED"
                      /\ inv'[m].st # "NONE" => inv'[m].kind = p.before.act
                      /\ history'[c].by <= m \/ p.send < history'[c].by
    BY DEF ClosedItsOwn
  <2>1. /\ p.before.st = "PENDING_SEND" /\ p.before.sent = m /\ p.before.join = "INVITED"
        /\ inv[m].st # "NONE" => inv[m].kind = p.before.act
        /\ history[c].by <= m \/ p.send < history[c].by
    BY DEF ClosedItsOwn
  <2>2. m \in Stamps /\ m \in Int /\ m <= stamps /\ 0 < m
    BY <1>1, <1>2
  <2> QED
    BY <1>1, <1>2, <1>3, <1>4, <2>1, <2>2
<1> QED
  BY <1>5, <1>6

\* What steps that neither send nor settle anything have in common for the sends.
LEMMA OthersKeepSends ==
  ASSUME IInv, Sends, ContractsGoOn, LinksGoOn,
         \A c \in Contracts : contract'[c].sent \in {contract[c].sent, Never},
         stamps' \in Int, stamps <= stamps', UNCHANGED <<pending, out, lost, lapsed>>
  PROVE  Sends'
<1>1. /\ stamps \in Int /\ lapsed \in Int /\ Never = 0 /\ \A n \in Stamps : n \in Int /\ n # Never
      /\ out \subseteq Stamps /\ lost \subseteq Stamps
  BY Numbers DEF IInv, TypeOK
<1>2. SendsAreOpen'
  BY <1>1 DEF Sends, SendsAreOpen
<1>3. StampsAreOwned'
  <2> SUFFICES ASSUME NEW n \in Stamps, NEW c \in Contracts, NEW d \in Contracts, Owns(c, n)'
               PROVE  n <= stamps' /\ (Owns(d, n)' => c = d)
    BY DEF StampsAreOwned
  <2>1. \A e \in Contracts : Owns(e, n)' => Owns(e, n)
    BY <1>1 DEF Owns
  <2> QED
    BY <1>1, <2>1 DEF Sends, StampsAreOwned
<1>4. SendsRemember'
  <2> SUFFICES ASSUME NEW p \in pending'
               PROVE  Remembers(p)' /\ ClosedItsOwn(p)'
    BY DEF SendsRemember
  <2>1. p \in pending /\ Remembers(p) /\ ClosedItsOwn(p)
    BY DEF Sends, SendsRemember
  <2> QED
    BY <2>1, RememberedStill
<1> QED
  BY <1>2, <1>3, <1>4 DEF Sends

-----------------------------------------------------------------------------
(* Whose link it is                                                        *)

\* The record of a usable link is an applicant's, still there, with one contract in
\* progress under its number: the one on offer.
LEMMA LinkContract ==
  ASSUME OfferInv, NEW n \in Stamps, inv[n].st = "SENT"
  PROVE  /\ inv[n].staff \in Staff /\ staff[inv[n].staff].join = "INVITED"
         /\ staff[inv[n].staff].leave # "LEFT"
         /\ EmployedAt(staff[inv[n].staff].phone) = {}
         /\ \E c \in Contracts :
              /\ LinkOf(n, c)
              /\ \A d \in Contracts :
                   contract[d].st \in InProgress
                   /\ staff[contract[d].staff].phone = staff[inv[n].staff].phone => d = c
<1>1. inv[n].staff \in Staff
  BY DEF OfferInv, IInv, LinksInOrder, LinksAreStamped
<1>2. /\ \E c \in Contracts : LinkOf(n, c)
      /\ staff[inv[n].staff].join = "INVITED" /\ EmployedAt(staff[inv[n].staff].phone) = {}
  BY DEF OfferInv, Dealings, Offers, LinksAreOffers
<1>3. PICK c \in Contracts : LinkOf(n, c)
  BY <1>2
<1>4. contract[c].st \in InProgress /\ contract[c].staff = inv[n].staff
  BY <1>3 DEF LinkOf, Waits, InProgress
<1>5. staff[inv[n].staff].leave # "LEFT"
  BY <1>1, <1>4 DEF OfferInv, Dealings, Rules, LeaverHoldsNothing
<1>6. \A d \in Contracts : contract[d].st \in InProgress
        /\ staff[contract[d].staff].phone = staff[inv[n].staff].phone => d = c
  BY <1>4 DEF OfferInv, Dealings, Rules, OneInProgressPerPhone
<1> QED
  BY <1>1, <1>2, <1>3, <1>5, <1>6

\* If the link that a waiting contract names is usable, it is that contract's.
LEMMA WaitingLink ==
  ASSUME OfferInv, NEW c \in Contracts, Waits(c), inv[contract[c].sent].st = "SENT",
         contract[c].sent \in Stamps
  PROVE  LinkOf(contract[c].sent, c)
<1> DEFINE n == contract[c].sent
<1>1. PICK d \in Contracts : LinkOf(n, d)
  BY DEF OfferInv, Dealings, Offers, LinksAreOffers
<1>2. Owns(c, n) /\ Owns(d, n)
  BY <1>1 DEF Owns, LinkOf
<1>3. c = d
  BY <1>2 DEF OfferInv, Dealings, Sends, StampsAreOwned
<1> QED
  BY <1>1, <1>3

\* The stamp of a waiting contract is one that was taken.
LEMMA WaitingStamp ==
  ASSUME OfferInv, NEW c \in Contracts, Waits(c)
  PROVE  /\ contract[c].sent \in Stamps /\ contract[c].sent \in Int /\ contract[c].sent <= stamps
         /\ history[c].by \in Int /\ history[c].by <= contract[c].sent
         /\ contract[c].staff \in Staff
<1>1. contract[c].sent # Never /\ history[c].by <= contract[c].sent
  BY DEF OfferInv, Dealings, Offers, WaitingIsAccounted
<1>2. contract[c].sent \in Stamps /\ contract[c].sent \in Int /\ history[c].by \in Int
  BY <1>1, Numbers DEF OfferInv
<1>3. Owns(c, contract[c].sent)
  BY DEF Owns
<1>4. contract[c].sent <= stamps
  BY <1>2, <1>3 DEF OfferInv, Dealings, Sends, StampsAreOwned
<1>5. contract[c].staff \in Staff
  BY DEF OfferInv, IInv, RecordsExist, Exists, Statuses, Waits
<1> QED
  BY <1>1, <1>2, <1>4, <1>5

-----------------------------------------------------------------------------
(* Steps that move contracts on and close links                            *)

\* Contracts go on to another status, none of them to wait for a sign-up.
ContractsMove ==
  \A c \in Contracts :
    \/ contract'[c] = contract[c] /\ history'[c] = history[c]
    \/ /\ Exists(c) /\ contract'[c].st \in Statuses \ {"DRAFT", "PENDING_SEND"}
       /\ contract'[c].st \in InProgress => contract[c].st \in InProgress
       /\ contract'[c].staff = contract[c].staff /\ contract'[c].sent = contract[c].sent
       /\ history'[c].last = contract'[c].st /\ history'[c].by = Never

\* Links are answered or closed, by nobody else put back.
LinksEnd ==
  \A n \in Stamps :
    \/ inv'[n] = inv[n]
    \/ /\ inv[n].st = "SENT" /\ inv'[n].st \in {"ACCEPTED", "REJECTED", "UNDER_AGE", "EXPIRED"}
       /\ inv'[n].staff = inv[n].staff /\ inv'[n].kind = inv[n].kind

\* People keep their number; who has left now holds nothing.
PeopleStay ==
  \A s \in Staff :
    /\ staff'[s].phone = staff[s].phone
    /\ staff'[s].leave = "LEFT" =>
         \/ staff[s].leave = "LEFT"
         \/ /\ Live(s)' = {}
            /\ \A c \in Contracts : contract[c].staff = s => contract'[c].st \notin InProgress

\* What is left on offer is as it was, and no waiting contract loses its link.
OffersStand ==
  /\ \A n \in Stamps : inv'[n].st = "SENT" =>
       /\ \A c \in Contracts : LinkOf(n, c) => contract'[c] = contract[c]
       /\ staff'[inv[n].staff].join = "INVITED"
       /\ staff'[inv[n].staff].cand = staff[inv[n].staff].cand
       /\ EmployedAt(staff[inv[n].staff].phone)' = {}
  /\ \A c \in Contracts : Waits(c)' => GotOutOrUsable(contract[c].sent)'

LEMMA MovesKeepRules ==
  ASSUME OfferInv, ContractsMove, LinksEnd, PeopleStay, SigningIsPossible', OneEmployedRecord'
  PROVE  Rules'
<1>1. /\ HistoryTellsStatus /\ OneInProgressPerPhone /\ LeaverHoldsNothing
      /\ \A c \in Contracts : Exists(c) => contract[c].staff \in Staff
  BY DEF OfferInv, Dealings, Rules, IInv, RecordsExist
<1>2. HistoryTellsStatus'
  BY <1>1 DEF ContractsMove, HistoryTellsStatus, Exists
<1>3. \A c \in Contracts : contract'[c].st \in InProgress =>
        /\ contract[c].st \in InProgress /\ contract'[c].staff = contract[c].staff
        /\ contract[c].staff \in Staff
        /\ staff'[contract[c].staff].phone = staff[contract[c].staff].phone
  <2> SUFFICES ASSUME NEW c \in Contracts, contract'[c].st \in InProgress
               PROVE  /\ contract[c].st \in InProgress /\ contract'[c].staff = contract[c].staff
                      /\ contract[c].staff \in Staff
                      /\ staff'[contract[c].staff].phone = staff[contract[c].staff].phone
    OBVIOUS
  <2>1. contract[c].st \in InProgress /\ contract'[c].staff = contract[c].staff
    BY DEF ContractsMove
  <2>2. contract[c].staff \in Staff
    BY <1>1, <2>1 DEF Exists, Statuses, InProgress
  <2> QED
    BY <2>1, <2>2 DEF PeopleStay
<1>4. OneInProgressPerPhone'
  BY <1>1, <1>3 DEF OneInProgressPerPhone
<1>5. LeaverHoldsNothing'
  <2> SUFFICES ASSUME NEW s \in Staff, staff'[s].leave = "LEFT"
               PROVE  /\ \A c \in Contracts : contract'[c].staff = s => contract'[c].st \notin InProgress
                      /\ Live(s)' = {}
    BY DEF LeaverHoldsNothing
  <2>1. CASE staff[s].leave = "LEFT"
    <3>1. Live(s)' \subseteq Live(s)
      BY DEF LinksEnd, Live
    <3>2. /\ \A c \in Contracts : contract[c].staff = s => contract[c].st \notin InProgress
          /\ Live(s) = {}
      BY <1>1, <2>1 DEF LeaverHoldsNothing
    <3> QED
      BY <1>3, <3>1, <3>2
  <2>2. CASE staff[s].leave # "LEFT"
    BY <1>3, <2>2 DEF PeopleStay
  <2> QED
    BY <2>1, <2>2
<1> QED
  BY <1>2, <1>4, <1>5 DEF Rules

LEMMA MovesKeepSends ==
  ASSUME IInv, Sends, ContractsMove, LinksEnd, UNCHANGED answerVars, lapsed' = lapsed,
         stamps' \in Int, stamps <= stamps'
  PROVE  Sends'
<1>1. ContractsGoOn
  <2> SUFFICES ASSUME NEW c \in Contracts
               PROVE  /\ contract[c].st # "NONE" => contract'[c].st # "NONE"
                      /\ Exists(c)' /\ contract[c].st # "NONE" =>
                           Exists(c) /\ contract'[c].staff = contract[c].staff
                      /\ Waits(c)' => Waits(c) /\ history'[c] = history[c]
                      /\ history'[c].by \in {history[c].by, Never}
    BY DEF ContractsGoOn
  <2>1. CASE contract'[c] = contract[c] /\ history'[c] = history[c]
    BY <2>1 DEF Exists, Waits
  <2>2. CASE /\ Exists(c) /\ contract'[c].st \in Statuses \ {"DRAFT", "PENDING_SEND"}
             /\ contract'[c].staff = contract[c].staff /\ history'[c].by = Never
    BY <2>2 DEF Exists, Waits, Statuses
  <2> QED
    BY <2>1, <2>2 DEF ContractsMove
<1>2. LinksGoOn
  BY DEF LinksEnd, LinksGoOn
<1>3. \A c \in Contracts : contract'[c].sent \in {contract[c].sent, Never}
  BY DEF ContractsMove
<1> QED
  BY <1>1, <1>2, <1>3, OthersKeepSends DEF answerVars

LEMMA MovesKeepOffers ==
  ASSUME OfferInv, ContractsMove, LinksEnd, PeopleStay, OffersStand, UNCHANGED answerVars
  PROVE  Offers'
<1>1. LinksAreOffers'
  <2> SUFFICES ASSUME NEW n \in Stamps, inv'[n].st = "SENT"
               PROVE  /\ \E c \in Contracts : LinkOf(n, c)'
                      /\ staff'[inv'[n].staff].join = "INVITED"
                      /\ EmployedAt(staff[inv[n].staff].phone)' = {}
                      /\ staff'[inv'[n].staff].cand =
                           IF inv'[n].kind = "INVITE" THEN NoOne ELSE staff'[inv'[n].staff].phone
    BY DEF LinksAreOffers
  <2>1. inv'[n] = inv[n] /\ inv[n].st = "SENT"
    BY DEF LinksEnd
  <2>2. inv[n].staff \in Staff /\ \E c \in Contracts : LinkOf(n, c)
    BY <2>1, LinkContract
  <2>3. staff[inv[n].staff].cand = IF inv[n].kind = "INVITE" THEN NoOne ELSE staff[inv[n].staff].phone
    BY <2>1 DEF OfferInv, Dealings, Offers, LinksAreOffers
  <2>4. staff'[inv[n].staff].phone = staff[inv[n].staff].phone
    BY <2>2 DEF PeopleStay
  <2>5. PICK c \in Contracts : LinkOf(n, c)
    BY <2>2
  <2>6. LinkOf(n, c)'
    BY <2>1, <2>5 DEF OffersStand, LinkOf, Waits
  <2> QED
    BY <2>1, <2>2, <2>3, <2>4, <2>6 DEF OffersStand
<1>2. WaitingIsAccounted'
  <2> SUFFICES ASSUME NEW c \in Contracts, Waits(c)'
               PROVE  /\ contract'[c].sent # Never /\ history'[c].by <= contract'[c].sent
                      /\ GotOutOrUsable(contract[c].sent)'
                      /\ contract'[c].act = "INVITE" => contract'[c].due # Never
    BY DEF WaitingIsAccounted
  <2>1. contract'[c] = contract[c] /\ history'[c] = history[c] /\ Waits(c)
    BY DEF ContractsMove, Waits
  <2>2. /\ contract[c].sent # Never /\ history[c].by <= contract[c].sent
        /\ contract[c].act = "INVITE" => contract[c].due # Never
    BY <2>1 DEF OfferInv, Dealings, Offers, WaitingIsAccounted
  <2>3. GotOutOrUsable(contract[c].sent)'
    BY DEF OffersStand
  <2> QED
    BY <2>1, <2>2, <2>3
<1>3. LinksAreAccounted'
  BY DEF OfferInv, Dealings, Offers, LinksAreAccounted, LinksEnd, answerVars, InFlight
<1> QED
  BY <1>1, <1>2, <1>3 DEF Offers

LEMMA MovesKeepDealings ==
  ASSUME OfferInv, ContractsMove, LinksEnd, PeopleStay, OffersStand,
         SigningIsPossible', OneEmployedRecord', UNCHANGED <<answerVars, lapsed>>,
         stamps' \in Int, stamps <= stamps'
  PROVE  Dealings'
<1>1. IInv /\ Sends
  BY DEF OfferInv, Dealings
<1>2. Rules'
  BY MovesKeepRules
<1>3. Sends'
  BY <1>1, MovesKeepSends
<1>4. Offers'
  BY MovesKeepOffers
<1> QED
  BY <1>2, <1>3, <1>4 DEF Dealings

\* Closing the links of some records.
LEMMA ExpireEnds ==
  ASSUME IInv, NEW S, inv' = Expire(S)
  PROVE  /\ LinksEnd
         /\ \A n \in Stamps : inv[n].staff \notin S => inv'[n] = inv[n]
         /\ \A n \in Stamps : inv'[n].st = "SENT" =>
              inv'[n] = inv[n] /\ inv[n].st = "SENT" /\ inv[n].staff \notin S
<1>1. \A n \in Stamps : inv[n] \in InvitationRow
  BY DEF IInv, TypeOK
<1>2. \A n \in Stamps :
        inv'[n] = IF inv[n].st = "SENT" /\ inv[n].staff \in S
                  THEN [inv[n] EXCEPT !.st = "EXPIRED"] ELSE inv[n]
  BY DEF Expire
<1>3. \A n \in Stamps : inv[n].st = "SENT" /\ inv[n].staff \in S =>
        /\ inv'[n].st = "EXPIRED" /\ inv'[n].staff = inv[n].staff /\ inv'[n].kind = inv[n].kind
  BY <1>1, <1>2 DEF InvitationRow
<1> QED
  BY <1>2, <1>3 DEF LinksEnd

\* A waiting contract that stays keeps its claim to have been offered, unless its own
\* link is closed.
LEMMA ClaimStands ==
  ASSUME OfferInv, NEW c \in Contracts, Waits(c), contract'[c] = contract[c],
         out \union lost \subseteq out' \union lost',
         LinkOf(contract[c].sent, c) /\ inv[contract[c].sent].st = "SENT" =>
           inv'[contract[c].sent].st = "SENT" \/ contract[c].sent \in out' \union lost'
  PROVE  GotOutOrUsable(contract[c].sent)'
<1>1. contract[c].sent \in Stamps
  BY WaitingStamp
<1>2. GotOutOrUsable(contract[c].sent)
  BY DEF OfferInv, Dealings, Offers, WaitingIsAccounted
<1> QED
  BY <1>1, <1>2, WaitingLink DEF GotOutOrUsable

\* Nobody becomes an employee, or is one again.
NobodyHired ==
  \A s \in Staff : Joined(s)' /\ staff'[s].leave # "LEFT" =>
    Joined(s) /\ staff[s].leave # "LEFT" /\ staff'[s].phone = staff[s].phone

LEMMA NobodyHiredTwice ==
  ASSUME OneEmployedRecord, NobodyHired
  PROVE  OneEmployedRecord'
BY DEF OneEmployedRecord, NobodyHired

\* A step that leaves the other records alone and closes the links of record s with its
\* waiting contract.
LEMMA ClosedTogether ==
  ASSUME OfferInv, NEW s \in Staff, inv' = Expire({s}), ContractsMove,
         \A d \in Contracts : contract[d].staff # s => contract'[d] = contract[d],
         \A d \in Contracts : Waits(d)' => contract[d].staff # s,
         \A t \in Staff \ {s} : staff'[t] = staff[t],
         NobodyHired,
         UNCHANGED answerVars
  PROVE  OffersStand
<1>1. /\ LinksEnd
      /\ \A n \in Stamps : inv[n].staff \notin {s} => inv'[n] = inv[n]
      /\ \A n \in Stamps : inv'[n].st = "SENT" =>
           inv'[n] = inv[n] /\ inv[n].st = "SENT" /\ inv[n].staff \notin {s}
  BY ExpireEnds DEF OfferInv
<1>2. ASSUME NEW n \in Stamps, inv'[n].st = "SENT"
      PROVE  /\ \A c \in Contracts : LinkOf(n, c) => contract'[c] = contract[c]
             /\ staff'[inv[n].staff].join = "INVITED"
             /\ staff'[inv[n].staff].cand = staff[inv[n].staff].cand
             /\ EmployedAt(staff[inv[n].staff].phone)' = {}
  <2>1. inv'[n] = inv[n] /\ inv[n].st = "SENT" /\ inv[n].staff # s
    BY <1>1, <1>2
  <2>2. /\ inv[n].staff \in Staff /\ staff[inv[n].staff].join = "INVITED"
        /\ EmployedAt(staff[inv[n].staff].phone) = {}
    BY <2>1, LinkContract
  <2>3. staff'[inv[n].staff] = staff[inv[n].staff]
    BY <2>1, <2>2
  <2>5. EmployedAt(staff[inv[n].staff].phone)' = {}
    BY <2>1, <2>2, <2>3 DEF EmployedAt, NobodyHired
  <2> QED
    BY <2>1, <2>2, <2>3, <2>5 DEF LinkOf
<1>3. ASSUME NEW c \in Contracts, Waits(c)'
      PROVE  GotOutOrUsable(contract[c].sent)'
  <2>1. Waits(c) /\ contract'[c] = contract[c] /\ contract[c].staff # s
    BY <1>3 DEF ContractsMove, Waits
  <2>2. contract[c].sent \in Stamps
    BY <2>1, WaitingStamp
  <2>3. LinkOf(contract[c].sent, c) => inv'[contract[c].sent] = inv[contract[c].sent]
    BY <1>1, <2>1, <2>2 DEF LinkOf
  <2> QED
    BY <2>1, <2>3, ClaimStands DEF answerVars
<1> QED
  BY <1>2, <1>3 DEF OffersStand

\* ContractSendService.end calls one hiring off, and nothing else.
LEMMA EndKeepsDealings ==
  ASSUME OfferInv, NEW c \in Contracts, End(c)
  PROVE  Dealings'
<1> DEFINE s == contract[c].staff
<1>1. /\ Waits(c) /\ inv' = Expire({s}) /\ UNCHANGED <<account, staff, answerVars, stamps, lapsed>>
      /\ contract' = [contract EXCEPT ![c].st = "ENDED"]
      /\ history' = [history EXCEPT ![c] = Moved(@, "ENDED", Never)]
  BY DEF End, Waits
<1>2. /\ contract \in [Contracts -> ContractRow] /\ history \in [Contracts -> HistoryRows]
      /\ s \in Staff /\ contract[c] \in ContractRow
  BY <1>1, WaitingStamp DEF OfferInv, IInv, TypeOK
<1>3. /\ contract'[c] = [contract[c] EXCEPT !.st = "ENDED"]
      /\ history'[c] = Moved(history[c], "ENDED", Never)
      /\ \A d \in Contracts \ {c} : contract'[d] = contract[d] /\ history'[d] = history[d]
  BY <1>1, <1>2
<1>4. /\ contract'[c].st = "ENDED" /\ contract'[c].staff = s
      /\ contract'[c].sent = contract[c].sent
  BY <1>2, <1>3 DEF ContractRow
<1>5. ContractsMove
  BY <1>1, <1>3, <1>4 DEF ContractsMove, Exists, Waits, Statuses, InProgress, Moved
<1>6. \A d \in Contracts : Waits(d)' => contract[d].staff # s
  <2>1. ASSUME NEW d \in Contracts, Waits(d)'
        PROVE  contract[d].staff # s
    <3>1. d # c /\ Waits(d)
      BY <1>3, <1>4, <2>1 DEF Waits
    <3> QED
      BY <1>1, <3>1 DEF OfferInv, Dealings, Rules, OneInProgressPerPhone, Waits, InProgress
  <2> QED
    BY <2>1
<1>7. /\ LinksEnd
      /\ \A n \in Stamps : inv'[n].st = "SENT" => inv'[n] = inv[n]
  BY <1>1, ExpireEnds DEF OfferInv
<1>8. PeopleStay /\ NobodyHired
  BY <1>1 DEF PeopleStay, NobodyHired, Joined
<1>9. SigningIsPossible'
  BY <1>1, <1>3, <1>4 DEF OfferInv, Dealings, Rules, SigningIsPossible, Joined
<1>10. OneEmployedRecord'
  BY <1>8, NobodyHiredTwice DEF OfferInv, Dealings, Rules
<1>11. OffersStand
  <2>1. \A d \in Contracts : contract[d].staff # s => contract'[d] = contract[d]
    BY <1>3
  <2> QED
    BY <1>1, <1>2, <1>5, <1>6, <1>8, <2>1, ClosedTogether
<1>12. stamps' \in Int /\ stamps <= stamps'
  BY <1>1, Numbers DEF OfferInv
<1> QED
  BY <1>1, <1>5, <1>7, <1>8, <1>9, <1>10, <1>11, <1>12, MovesKeepDealings

\* Retirement that is final ends every contract in progress of the leaver, with the link.
LEMMA FinalizedKeepsDealings ==
  ASSUME OfferInv, NEW s \in Staff, Finalized(s)
  PROVE  Dealings'
<1> DEFINE ended == {d \in Contracts : contract[d].staff = s /\ contract[d].st \in InProgress}
<1>1. /\ inv' = Expire({s}) /\ UNCHANGED <<account, answerVars, stamps, lapsed>>
      /\ staff' = [staff EXCEPT ![s].leave = "LEFT", ![s].logged = TRUE]
      /\ contract' = [d \in Contracts |->
            IF d \in ended THEN [contract[d] EXCEPT !.st = "ENDED"] ELSE contract[d]]
      /\ history' = [d \in Contracts |->
            IF d \in ended THEN Moved(history[d], "ENDED", Never) ELSE history[d]]
  BY DEF Finalized
<1>2. /\ staff \in [Staff -> StaffRow] /\ staff[s] \in StaffRow
      /\ \A d \in Contracts : contract[d] \in ContractRow
  BY DEF OfferInv, IInv, TypeOK
<1>3. /\ staff'[s].phone = staff[s].phone /\ staff'[s].join = staff[s].join
      /\ staff'[s].leave = "LEFT" /\ \A t \in Staff \ {s} : staff'[t] = staff[t]
  BY <1>1, <1>2 DEF StaffRow
<1>4. \A d \in Contracts : ~(contract[d].staff = s /\ contract[d].st \in InProgress) =>
        contract'[d] = contract[d] /\ history'[d] = history[d]
  BY <1>1
<1>5. ASSUME NEW d \in Contracts, contract[d].staff = s, contract[d].st \in InProgress
      PROVE  /\ contract'[d].st = "ENDED" /\ contract'[d].staff = s
             /\ contract'[d].sent = contract[d].sent
             /\ history'[d].last = "ENDED" /\ history'[d].by = Never
  <2>1. /\ contract'[d] = [contract[d] EXCEPT !.st = "ENDED"]
        /\ history'[d] = Moved(history[d], "ENDED", Never)
    BY <1>1, <1>5
  <2> QED
    BY <1>2, <1>5, <2>1 DEF ContractRow, Moved
<1> HIDE DEF ended
<1>6. ContractsMove
  <2>1. InProgress \subseteq Statuses /\ "ENDED" \in Statuses \ {"DRAFT", "PENDING_SEND"}
        /\ "ENDED" \notin InProgress
    BY DEF InProgress, Statuses
  <2> QED
    BY <1>4, <1>5, <2>1 DEF ContractsMove, Exists
<1>7. \A d \in Contracts : Waits(d)' => contract[d].staff # s
  BY <1>4, <1>5 DEF Waits, InProgress
<1>8. /\ LinksEnd
      /\ \A n \in Stamps : inv'[n].st = "SENT" => inv'[n] = inv[n] /\ inv[n].staff \notin {s}
  BY <1>1, ExpireEnds DEF OfferInv
<1>9. PeopleStay
  <2>1. Live(s)' = {}
    BY <1>8 DEF Live
  <2>2. \A c \in Contracts : contract[c].staff = s => contract'[c].st \notin InProgress
    BY <1>4, <1>5 DEF InProgress
  <2> QED
    BY <1>3, <2>1, <2>2 DEF PeopleStay
<1>10. NobodyHired
  BY <1>3 DEF NobodyHired, Joined
<1>11. SigningIsPossible'
  <2> SUFFICES ASSUME NEW c \in Contracts
               PROVE  /\ contract'[c].st \in {"PENDING_SIGNATURE", "CORRECTION_REQUESTED"} =>
                           staff'[contract'[c].staff].join = "JOINED"
                      /\ contract'[c].st = "PENDING_SIGNATURE" => contract'[c].due # Never
    BY DEF SigningIsPossible, Joined
  <2>1. CASE contract[c].staff = s /\ contract[c].st \in InProgress
    BY <1>5, <2>1
  <2>2. CASE ~(contract[c].staff = s /\ contract[c].st \in InProgress)
    <3>1. contract'[c] = contract[c]
      BY <1>4, <2>2
    <3>2. contract[c].st \in {"PENDING_SIGNATURE", "CORRECTION_REQUESTED"} =>
            contract[c].staff \in Staff \ {s} /\ staff[contract[c].staff].join = "JOINED"
      BY <2>2 DEF OfferInv, Dealings, Rules, SigningIsPossible, Joined, IInv, RecordsExist, Exists,
                  Statuses, InProgress
    <3>3. contract[c].st = "PENDING_SIGNATURE" => contract[c].due # Never
      BY DEF OfferInv, Dealings, Rules, SigningIsPossible
    <3> QED
      BY <1>3, <3>1, <3>2, <3>3
  <2> QED
    BY <2>1, <2>2
<1>12. OneEmployedRecord'
  BY <1>10, NobodyHiredTwice DEF OfferInv, Dealings, Rules
<1>13. OffersStand
  <2>1. \A d \in Contracts : contract[d].staff # s => contract'[d] = contract[d]
    BY <1>4
  <2> QED
    BY <1>1, <1>3, <1>6, <1>7, <1>10, <2>1, ClosedTogether
<1>14. stamps' \in Int /\ stamps <= stamps'
  BY <1>1, Numbers DEF OfferInv
<1> QED
  BY <1>1, <1>6, <1>8, <1>9, <1>11, <1>12, <1>13, <1>14, MovesKeepDealings

\* Records that change in nothing but their retirement date, which is still to come.
LEMMA LeaveOnlyKeepsDealings ==
  ASSUME OfferInv, NEW s \in Staff, staff[s].leave # "LEFT", staff'[s].leave # "LEFT",
         staff'[s].phone = staff[s].phone, staff'[s].join = staff[s].join,
         staff'[s].cand = staff[s].cand, \A t \in Staff \ {s} : staff'[t] = staff[t],
         UNCHANGED <<contract, history, inv, answerVars, stamps, lapsed>>
  PROVE  Dealings'
<1>1. ContractsMove /\ LinksEnd
  BY DEF ContractsMove, LinksEnd
<1>2. PeopleStay /\ NobodyHired
  BY DEF PeopleStay, NobodyHired, Joined
<1>3. \A c \in Contracts : Exists(c) => contract[c].staff \in Staff
  BY DEF OfferInv, IInv, RecordsExist
<1>4. SigningIsPossible'
  BY <1>3 DEF OfferInv, Dealings, Rules, SigningIsPossible, Joined, Exists, Statuses
<1>5. OneEmployedRecord'
  BY <1>2, NobodyHiredTwice DEF OfferInv, Dealings, Rules
<1>6. OffersStand
  <2>1. ASSUME NEW n \in Stamps, inv'[n].st = "SENT"
        PROVE  /\ \A c \in Contracts : LinkOf(n, c) => contract'[c] = contract[c]
               /\ staff'[inv[n].staff].join = "INVITED"
               /\ staff'[inv[n].staff].cand = staff[inv[n].staff].cand
               /\ EmployedAt(staff[inv[n].staff].phone)' = {}
    <3>1. /\ inv[n].staff \in Staff /\ staff[inv[n].staff].join = "INVITED"
          /\ EmployedAt(staff[inv[n].staff].phone) = {}
      BY <2>1, LinkContract
    <3>2. staff'[inv[n].staff].phone = staff[inv[n].staff].phone
      BY <3>1
    <3>3. EmployedAt(staff[inv[n].staff].phone)' = {}
      BY <1>2, <3>1, <3>2 DEF EmployedAt, NobodyHired
    <3> QED
      BY <3>1, <3>3
  <2>2. ASSUME NEW c \in Contracts, Waits(c)'
        PROVE  GotOutOrUsable(contract[c].sent)'
    BY <2>2 DEF OfferInv, Dealings, Offers, WaitingIsAccounted, GotOutOrUsable, answerVars, Waits
  <2> QED
    BY <2>1, <2>2 DEF OffersStand
<1>7. stamps' \in Int /\ stamps <= stamps'
  BY Numbers DEF OfferInv
<1> QED
  BY <1>1, <1>2, <1>4, <1>5, <1>6, <1>7, MovesKeepDealings

LEMMA RetireKeepsDealings ==
  ASSUME OfferInv, NEW s \in Staff, NEW past \in BOOLEAN, Retire(s, past)
  PROVE  Dealings'
<1>1. CASE past
  BY <1>1, FinalizedKeepsDealings DEF Retire
<1>2. CASE ~past
  <2>1. /\ staff[s].leave = "STAYS" /\ staff' = [staff EXCEPT ![s].leave = "LEAVING", ![s].logged = TRUE]
        /\ UNCHANGED <<contract, history, inv, answerVars, stamps, lapsed>>
    BY <1>2 DEF Retire
  <2>2. staff \in [Staff -> StaffRow] /\ staff[s] \in StaffRow
    BY DEF OfferInv, IInv, TypeOK
  <2>3. /\ staff'[s].phone = staff[s].phone /\ staff'[s].join = staff[s].join
        /\ staff'[s].cand = staff[s].cand /\ staff'[s].leave = "LEAVING"
        /\ \A t \in Staff \ {s} : staff'[t] = staff[t]
    BY <2>1, <2>2 DEF StaffRow
  <2> QED
    BY <2>1, <2>3, LeaveOnlyKeepsDealings
<1> QED
  BY <1>1, <1>2

LEMMA CancelRetirementKeepsDealings ==
  ASSUME OfferInv, NEW s \in Staff, CancelRetirement(s)
  PROVE  Dealings'
<1>1. /\ staff[s].leave = "LEAVING" /\ staff' = [staff EXCEPT ![s].leave = "STAYS"]
      /\ UNCHANGED <<contract, history, inv, answerVars, stamps, lapsed>>
  BY DEF CancelRetirement
<1>2. staff \in [Staff -> StaffRow] /\ staff[s] \in StaffRow
  BY DEF OfferInv, IInv, TypeOK
<1>3. /\ staff'[s].phone = staff[s].phone /\ staff'[s].join = staff[s].join
      /\ staff'[s].cand = staff[s].cand /\ staff'[s].leave = "STAYS"
      /\ \A t \in Staff \ {s} : staff'[t] = staff[t]
  BY <1>1, <1>2 DEF StaffRow
<1> QED
  BY <1>1, <1>3, LeaveOnlyKeepsDealings

\* When no record changes, and only links are closed that no contract needs any more:
\* the step of a worker at a contract, and of the nightly batch.
LEMMA RowsOnlyKeepDealings ==
  ASSUME OfferInv, ContractsMove, LinksEnd,
         \A c \in Contracts : Waits(c) => contract'[c] = contract[c],
         \A c \in Contracts : contract'[c].st \in {"PENDING_SIGNATURE", "CORRECTION_REQUESTED"} =>
           /\ contract[c].st \in {"PENDING_SIGNATURE", "CORRECTION_REQUESTED"}
           /\ contract'[c].st = "PENDING_SIGNATURE" => contract'[c] = contract[c],
         \A n \in Stamps : inv[n].st = "SENT" => inv'[n].st = "SENT" \/ n \in out \union lost,
         UNCHANGED <<staff, answerVars, stamps, lapsed>>
  PROVE  Dealings'
<1>1. PeopleStay /\ NobodyHired
  BY DEF PeopleStay, NobodyHired, Joined
<1>2. SigningIsPossible'
  BY DEF OfferInv, Dealings, Rules, SigningIsPossible, Joined, ContractsMove
<1>3. OneEmployedRecord'
  BY <1>1, NobodyHiredTwice DEF OfferInv, Dealings, Rules
<1>4. OffersStand
  <2>1. ASSUME NEW n \in Stamps, inv'[n].st = "SENT"
        PROVE  /\ \A c \in Contracts : LinkOf(n, c) => contract'[c] = contract[c]
               /\ staff'[inv[n].staff].join = "INVITED"
               /\ staff'[inv[n].staff].cand = staff[inv[n].staff].cand
               /\ EmployedAt(staff[inv[n].staff].phone)' = {}
    <3>1. inv'[n] = inv[n] /\ inv[n].st = "SENT"
      BY <2>1 DEF LinksEnd
    <3>2. /\ inv[n].staff \in Staff /\ staff[inv[n].staff].join = "INVITED"
          /\ EmployedAt(staff[inv[n].staff].phone) = {}
      BY <3>1, LinkContract
    <3>3. EmployedAt(staff[inv[n].staff].phone)' = {}
      BY <3>1, <3>2 DEF EmployedAt, Joined
    <3> QED
      BY <3>2, <3>3 DEF LinkOf
  <2>2. ASSUME NEW c \in Contracts, Waits(c)'
        PROVE  GotOutOrUsable(contract[c].sent)'
    <3>1. Waits(c) /\ contract'[c] = contract[c]
      BY <2>2 DEF ContractsMove, Waits
    <3>2. contract[c].sent \in Stamps
      BY <3>1, WaitingStamp
    <3> QED
      BY <3>1, <3>2, ClaimStands DEF answerVars
  <2> QED
    BY <2>1, <2>2 DEF OffersStand
<1>5. stamps' \in Int /\ stamps <= stamps'
  BY Numbers DEF OfferInv
<1> QED
  BY <1>1, <1>2, <1>3, <1>4, <1>5, MovesKeepDealings

LEMMA DecideKeepsDealings ==
  ASSUME OfferInv, NEW c \in Contracts,
         NEW to \in {"SIGNED", "REJECTED", "CORRECTION_REQUESTED"}, Decide(c, to)
  PROVE  Dealings'
<1>1. /\ contract[c].st = "PENDING_SIGNATURE" /\ UNCHANGED <<account, staff, inv, answerVars, stamps, lapsed>>
      /\ contract' = [contract EXCEPT ![c].st = to]
      /\ history' = [history EXCEPT ![c] = Moved(@, to, Never)]
  BY DEF Decide
<1>2. contract \in [Contracts -> ContractRow] /\ history \in [Contracts -> HistoryRows]
      /\ contract[c] \in ContractRow
  BY DEF OfferInv, IInv, TypeOK
<1>3. /\ contract'[c] = [contract[c] EXCEPT !.st = to] /\ history'[c] = Moved(history[c], to, Never)
      /\ \A d \in Contracts \ {c} : contract'[d] = contract[d] /\ history'[d] = history[d]
  BY <1>1, <1>2
<1>4. /\ contract'[c].st = to /\ contract'[c].staff = contract[c].staff
      /\ contract'[c].sent = contract[c].sent
  BY <1>2, <1>3 DEF ContractRow
<1>5. ContractsMove
  BY <1>1, <1>3, <1>4 DEF ContractsMove, Exists, Statuses, InProgress, Moved
<1>6. LinksEnd /\ \A n \in Stamps : inv[n].st = "SENT" => inv'[n].st = "SENT"
  BY <1>1 DEF LinksEnd
<1>7. \A d \in Contracts : Waits(d) => contract'[d] = contract[d]
  BY <1>1, <1>3 DEF Waits
<1>8. \A d \in Contracts : contract'[d].st \in {"PENDING_SIGNATURE", "CORRECTION_REQUESTED"} =>
        /\ contract[d].st \in {"PENDING_SIGNATURE", "CORRECTION_REQUESTED"}
        /\ contract'[d].st = "PENDING_SIGNATURE" => contract'[d] = contract[d]
  BY <1>1, <1>3, <1>4
<1> QED
  BY <1>1, <1>5, <1>6, <1>7, <1>8, RowsOnlyKeepDealings

\* The nightly batch closes links of sends that were settled long ago.
LEMMA RunDailyKeepsDealings ==
  ASSUME OfferInv, NEW over \in SUBSET SignedContracts, RunDaily(over)
  PROVE  Dealings'
<1>1. /\ UNCHANGED <<account, staff, answerVars, stamps, lapsed>>
      /\ contract' = [c \in Contracts |->
           IF contract[c].st = "PENDING_SIGNATURE" /\ Due(contract[c].due)
           THEN [contract[c] EXCEPT !.st = "EXPIRED"]
           ELSE IF c \in over THEN [contract[c] EXCEPT !.st = "ENDED"] ELSE contract[c]]
      /\ history' = [c \in Contracts |->
           IF contract[c].st = "PENDING_SIGNATURE" /\ Due(contract[c].due)
           THEN Moved(history[c], "EXPIRED", Never)
           ELSE IF c \in over THEN Moved(history[c], "ENDED", Never) ELSE history[c]]
      /\ inv' = [n \in Stamps |->
           IF inv[n].st = "SENT" /\ Due(n) THEN [inv[n] EXCEPT !.st = "EXPIRED"] ELSE inv[n]]
  BY DEF RunDaily
<1>2. ASSUME NEW c \in Contracts
      PROVE  \/ contract'[c] = contract[c] /\ history'[c] = history[c]
             \/ /\ contract[c].st \in {"PENDING_SIGNATURE", "SIGNED"}
                /\ contract'[c].st \in {"EXPIRED", "ENDED"}
                /\ contract'[c].staff = contract[c].staff /\ contract'[c].sent = contract[c].sent
                /\ history'[c].last = contract'[c].st /\ history'[c].by = Never
  <2>1. contract[c] \in ContractRow
    BY DEF OfferInv, IInv, TypeOK
  <2>2. CASE contract[c].st = "PENDING_SIGNATURE" /\ Due(contract[c].due)
    <3>1. /\ contract'[c] = [contract[c] EXCEPT !.st = "EXPIRED"]
          /\ history'[c] = Moved(history[c], "EXPIRED", Never)
      BY <1>1, <2>2
    <3> QED
      BY <2>1, <2>2, <3>1 DEF ContractRow, Moved
  <2>3. CASE ~(contract[c].st = "PENDING_SIGNATURE" /\ Due(contract[c].due)) /\ c \in over
    <3>1. /\ contract'[c] = [contract[c] EXCEPT !.st = "ENDED"]
          /\ history'[c] = Moved(history[c], "ENDED", Never)
      BY <1>1, <2>3
    <3>2. contract[c].st = "SIGNED"
      BY <2>3 DEF SignedContracts
    <3> QED
      BY <2>1, <3>1, <3>2 DEF ContractRow, Moved
  <2>4. CASE ~(contract[c].st = "PENDING_SIGNATURE" /\ Due(contract[c].due)) /\ c \notin over
    BY <1>1, <2>4
  <2> QED
    BY <2>2, <2>3, <2>4
<1>3. ContractsMove
  BY <1>2 DEF ContractsMove, Exists, Statuses, InProgress
<1>4. LinksEnd
  <2> SUFFICES ASSUME NEW n \in Stamps
               PROVE  \/ inv'[n] = inv[n]
                      \/ /\ inv[n].st = "SENT" /\ inv'[n].st = "EXPIRED"
                         /\ inv'[n].staff = inv[n].staff /\ inv'[n].kind = inv[n].kind
    BY DEF LinksEnd
  <2>1. inv[n] \in InvitationRow
    BY DEF OfferInv, IInv, TypeOK
  <2> QED
    BY <1>1, <2>1 DEF InvitationRow
<1>5. \A n \in Stamps : inv[n].st = "SENT" => inv'[n].st = "SENT" \/ n \in out \union lost
  <2> SUFFICES ASSUME NEW n \in Stamps, inv[n].st = "SENT", Due(n)
               PROVE  n \in out \union lost
    BY <1>1
  <2>1. n \in out \union lost \union InFlight
    BY DEF OfferInv, Dealings, Offers, LinksAreAccounted
  <2>2. n \notin InFlight
    <3>1. n <= lapsed /\ n \in Int /\ lapsed \in Int
      BY Numbers DEF Due, OfferInv
    <3>2. \A p \in pending : lapsed < p.send /\ p.send \in Int
      BY SendFacts DEF OfferInv, Dealings, Sends, SendsAreOpen
    <3> QED
      BY <3>1, <3>2 DEF InFlight
  <2> QED
    BY <2>1, <2>2
<1>6. \A c \in Contracts : Waits(c) => contract'[c] = contract[c]
  BY <1>2 DEF Waits
<1>7. \A c \in Contracts : contract'[c].st \in {"PENDING_SIGNATURE", "CORRECTION_REQUESTED"} =>
        /\ contract[c].st \in {"PENDING_SIGNATURE", "CORRECTION_REQUESTED"}
        /\ contract'[c].st = "PENDING_SIGNATURE" => contract'[c] = contract[c]
  BY <1>2
<1> QED
  BY <1>1, <1>3, <1>4, <1>5, <1>6, <1>7, RowsOnlyKeepDealings

-----------------------------------------------------------------------------
(* The worker answers                                                      *)

\* An answer takes the one waiting contract of the record along with the link, and
\* the record itself if it is a yes.
LEMMA AnswerKeepsDealings ==
  ASSUME OfferInv, NEW n \in Stamps, inv[n].st = "SENT",
         NEW a \in {"ACCEPTED", "REJECTED"}, inv' = [inv EXCEPT ![n].st = a],
         NEW to \in {"PENDING_SIGNATURE", "REJECTED"}, NEW due \in StampsOrNever,
         MoveWaiting(inv[n].staff, to, due),
         \/ to = "REJECTED" /\ staff' = staff
         \/ /\ to = "PENDING_SIGNATURE" /\ Join(inv[n].staff)
            /\ inv[n].kind = "INVITE" \/ due # Never,
         UNCHANGED <<answerVars, lapsed>>, stamps' \in Int, stamps <= stamps'
  PROVE  Dealings'
<1> DEFINE s == inv[n].staff
<1>1. /\ s \in Staff /\ staff[s].join = "INVITED" /\ staff[s].leave # "LEFT"
      /\ EmployedAt(staff[s].phone) = {}
  BY LinkContract
<1>2. PICK c \in Contracts :
        /\ LinkOf(n, c)
        /\ \A d \in Contracts :
             contract[d].st \in InProgress /\ staff[contract[d].staff].phone = staff[s].phone => d = c
  BY LinkContract
<1>3. /\ contract[c].staff = s /\ Waits(c) /\ contract[c].act = inv[n].kind
      /\ contract[c].sent = n
  BY <1>2 DEF LinkOf
<1>4. \A d \in Contracts : contract[d].staff = s /\ Waits(d) => d = c
  BY <1>2 DEF Waits, InProgress
<1>5. \A d \in Contracts \ {c} : contract'[d] = contract[d] /\ history'[d] = history[d]
  BY <1>4 DEF MoveWaiting, Waits
<1>6. /\ contract'[c] = [contract[c] EXCEPT !.st = to, !.due = IF due = Never THEN @ ELSE due]
      /\ history'[c] = Moved(history[c], to, Never)
  BY <1>3 DEF MoveWaiting, Waits
<1>7. contract[c] \in ContractRow /\ inv[n] \in InvitationRow
  BY DEF OfferInv, IInv, TypeOK
<1>8. /\ contract'[c].st = to /\ contract'[c].staff = s /\ contract'[c].sent = contract[c].sent
      /\ contract'[c].due = IF due = Never THEN contract[c].due ELSE due
      /\ history'[c].last = to /\ history'[c].by = Never
  BY <1>3, <1>6, <1>7 DEF ContractRow, Moved
<1>9. ContractsMove
  BY <1>3, <1>5, <1>8 DEF ContractsMove, Exists, Waits, Statuses, InProgress
<1>10. /\ inv'[n].st = a /\ inv'[n].staff = s /\ inv'[n].kind = inv[n].kind
       /\ \A m \in Stamps \ {n} : inv'[m] = inv[m]
  BY <1>7 DEF InvitationRow, OfferInv, IInv, TypeOK
<1>11. LinksEnd
  BY <1>10 DEF LinksEnd
<1>12. /\ \A t \in Staff \ {s} : staff'[t] = staff[t]
       /\ staff'[s].phone = staff[s].phone /\ staff'[s].leave = staff[s].leave
       /\ to = "PENDING_SIGNATURE" => staff'[s].join = "JOINED"
       /\ to = "REJECTED" => staff' = staff
  <2>1. staff \in [Staff -> StaffRow] /\ staff[s] \in StaffRow
    BY <1>1 DEF OfferInv, IInv, TypeOK
  <2> QED
    BY <1>1, <2>1 DEF Join, StaffRow
<1>13. PeopleStay
  BY <1>12 DEF PeopleStay
<1> HIDE DEF s
<1>14. SigningIsPossible'
  <2> SUFFICES ASSUME NEW d \in Contracts
               PROVE  /\ contract'[d].st \in {"PENDING_SIGNATURE", "CORRECTION_REQUESTED"} =>
                           staff'[contract'[d].staff].join = "JOINED"
                      /\ contract'[d].st = "PENDING_SIGNATURE" => contract'[d].due # Never
    BY DEF SigningIsPossible, Joined
  <2>1. CASE d = c
    <3>1. contract[c].act = "INVITE" => contract[c].due # Never
      BY <1>3 DEF OfferInv, Dealings, Offers, WaitingIsAccounted
    <3> QED
      BY <1>3, <1>8, <1>12, <2>1, <3>1
  <2>2. CASE d # c
    <3>1. contract'[d] = contract[d]
      BY <1>5, <2>2
    <3>2. /\ contract[d].st \in {"PENDING_SIGNATURE", "CORRECTION_REQUESTED"} =>
               contract[d].staff \in Staff /\ staff[contract[d].staff].join = "JOINED"
          /\ contract[d].st = "PENDING_SIGNATURE" => contract[d].due # Never
      BY DEF OfferInv, Dealings, Rules, SigningIsPossible, Joined, IInv, RecordsExist, Exists, Statuses
    <3> QED
      BY <1>1, <1>12, <3>1, <3>2
  <2> QED
    BY <2>1, <2>2
<1>15. OneEmployedRecord'
  <2>1. \A t \in Staff : staff[t].join = "JOINED" /\ staff[t].leave # "LEFT" =>
          staff[t].phone # staff[s].phone
    BY <1>1 DEF EmployedAt, Joined
  <2>2. OneEmployedRecord
    BY DEF OfferInv, Dealings, Rules
  <2> QED
    BY <1>1, <1>12, <2>1, <2>2 DEF OneEmployedRecord, Joined
<1>16. OffersStand
  <2>1. ASSUME NEW m \in Stamps, inv'[m].st = "SENT"
        PROVE  /\ \A d \in Contracts : LinkOf(m, d) => contract'[d] = contract[d]
               /\ staff'[inv[m].staff].join = "INVITED"
               /\ staff'[inv[m].staff].cand = staff[inv[m].staff].cand
               /\ EmployedAt(staff[inv[m].staff].phone)' = {}
    <3>1. m # n /\ inv'[m] = inv[m] /\ inv[m].st = "SENT"
      BY <1>10, <2>1
    <3>2. inv[m].staff # s
      BY <3>1 DEF s, OfferInv, IInv, LinksInOrder, OneLiveInvitation
    <3>3. /\ inv[m].staff \in Staff /\ staff[inv[m].staff].join = "INVITED"
          /\ EmployedAt(staff[inv[m].staff].phone) = {}
          /\ \E d \in Contracts : LinkOf(m, d)
      BY <3>1, LinkContract
    <3>4. \A d \in Contracts : LinkOf(m, d) => d # c
      BY <1>3, <3>2 DEF LinkOf
    <3>5. staff[inv[m].staff].phone # staff[s].phone
      BY <1>2, <3>3, <3>4 DEF LinkOf, Waits, InProgress
    <3>6. staff'[inv[m].staff] = staff[inv[m].staff]
      BY <1>12, <3>2, <3>3
    <3>7. EmployedAt(staff[inv[m].staff].phone)' = {}
      <4>1. \A t \in Staff : staff'[t].join = "JOINED" /\ staff'[t].leave # "LEFT" =>
              staff'[t].phone # staff[inv[m].staff].phone
        BY <1>12, <3>3, <3>5 DEF EmployedAt, Joined
      <4> QED
        BY <3>1, <3>6, <4>1 DEF EmployedAt, Joined
    <3> QED
      BY <1>5, <3>3, <3>4, <3>6, <3>7
  <2>2. ASSUME NEW d \in Contracts, Waits(d)'
        PROVE  GotOutOrUsable(contract[d].sent)'
    <3>1. d # c
      BY <1>8, <2>2 DEF Waits
    <3>2. Waits(d) /\ contract'[d] = contract[d]
      BY <1>5, <2>2, <3>1 DEF Waits
    <3>3. contract[d].sent \in Stamps
      BY <3>2, WaitingStamp
    <3>4. LinkOf(contract[d].sent, d) => contract[d].sent # n
      BY <1>4, <3>1, <3>2 DEF LinkOf, s
    <3> QED
      BY <1>10, <3>2, <3>3, <3>4, ClaimStands DEF answerVars
  <2> QED
    BY <2>1, <2>2 DEF OffersStand
<1> QED
  BY <1>9, <1>11, <1>13, <1>14, <1>15, <1>16, MovesKeepDealings

LEMMA WorkerKeepsDealings ==
  ASSUME OfferInv, Worker
  PROVE  Dealings'
<1>1. stamps \in Int /\ Never \in StampsOrNever
  BY Numbers, MaxStampsAssumption DEF OfferInv, StampsOrNever, Never
<1>2. ASSUME NEW n \in Stamps, Signup(n) \/ AcceptForAccount(n)
      PROVE  Dealings'
  <2>1. /\ inv[n].st = "SENT" /\ inv[n].kind = "INVITE" /\ inv' = [inv EXCEPT ![n].st = "ACCEPTED"]
        /\ Join(inv[n].staff) /\ MoveWaiting(inv[n].staff, "PENDING_SIGNATURE", Never)
        /\ UNCHANGED <<answerVars, stamps, lapsed>>
    BY <1>2 DEF Signup, AcceptForAccount, Usable
  <2>2. stamps' \in Int /\ stamps <= stamps'
    BY <1>1, <2>1
  <2> QED
    BY <1>1, <2>1, <2>2, AnswerKeepsDealings
<1>3. ASSUME NEW n \in Stamps, AcceptRequest(n)
      PROVE  Dealings'
  <2>1. /\ inv[n].st = "SENT" /\ inv' = [inv EXCEPT ![n].st = "ACCEPTED"]
        /\ Join(inv[n].staff) /\ MoveWaiting(inv[n].staff, "PENDING_SIGNATURE", stamps + 1)
        /\ UNCHANGED <<answerVars, lapsed>> /\ stamps < MaxStamps /\ stamps' = stamps + 1
    BY <1>3 DEF AcceptRequest, Usable
  <2>2. /\ stamps + 1 \in StampsOrNever /\ stamps + 1 # Never
        /\ stamps' \in Int /\ stamps <= stamps'
    BY <2>1, Numbers, MaxStampsAssumption DEF OfferInv, StampsOrNever
  <2> QED
    BY <2>1, <2>2, AnswerKeepsDealings
<1>4. ASSUME NEW n \in Stamps, RejectRequest(n)
      PROVE  Dealings'
  <2>1. /\ inv[n].st = "SENT" /\ inv' = [inv EXCEPT ![n].st = "REJECTED"] /\ staff' = staff
        /\ MoveWaiting(inv[n].staff, "REJECTED", Never)
        /\ UNCHANGED <<answerVars, stamps, lapsed>>
    BY <1>4 DEF RejectRequest, Usable
  <2>2. stamps' \in Int /\ stamps <= stamps'
    BY <1>1, <2>1
  <2> QED
    BY <1>1, <2>1, <2>2, AnswerKeepsDealings
<1>5. ASSUME NEW n \in Stamps, SignupUnderAge(n)
      PROVE  Dealings'
  <2>1. /\ n \in out /\ inv[n].st = "SENT" /\ inv' = [inv EXCEPT ![n].st = "UNDER_AGE"]
        /\ UNCHANGED <<account, staff, contract, history, answerVars, stamps, lapsed>>
    BY <1>5 DEF SignupUnderAge, Usable
  <2>2. inv[n] \in InvitationRow /\ inv \in [Stamps -> InvitationRow]
    BY DEF OfferInv, IInv, TypeOK
  <2>3. /\ inv'[n].st = "UNDER_AGE" /\ inv'[n].staff = inv[n].staff /\ inv'[n].kind = inv[n].kind
        /\ \A m \in Stamps \ {n} : inv'[m] = inv[m]
    BY <2>1, <2>2 DEF InvitationRow
  <2>4. ContractsMove
    BY <2>1 DEF ContractsMove
  <2>5. LinksEnd
    BY <2>1, <2>3 DEF LinksEnd
  <2>6. \A m \in Stamps : inv[m].st = "SENT" => inv'[m].st = "SENT" \/ m \in out \union lost
    BY <2>1, <2>3
  <2> QED
    BY <2>1, <2>4, <2>5, <2>6, RowsOnlyKeepDealings
<1> QED
  BY <1>2, <1>3, <1>4, <1>5, DecideKeepsDealings DEF Worker

LEMMA NightlyKeepsDealings ==
  ASSUME OfferInv, Nightly
  PROVE  Dealings'
BY RunDailyKeepsDealings, FinalizedKeepsDealings DEF Nightly, RetireDue

LEMMA EnvironmentKeepsDealings ==
  ASSUME OfferInv, Environment
  PROVE  Dealings'
<1>1. ASSUME NEW ph \in Phones, AccountElsewhere(ph)
      PROVE  Dealings'
  <2>1. UNCHANGED <<staff, contract, history, inv, answerVars, stamps, lapsed>>
    BY <1>1 DEF AccountElsewhere
  <2>2. ContractsMove /\ LinksEnd
    BY <2>1 DEF ContractsMove, LinksEnd
  <2> QED
    BY <2>1, <2>2, RowsOnlyKeepDealings
<1>2. CASE Lapse
  <2>1. /\ lapsed < stamps /\ lapsed + 1 \notin InFlight /\ lapsed' = lapsed + 1
        /\ UNCHANGED <<account, staff, contract, history, inv, answerVars, stamps>>
    BY <1>2 DEF Lapse
  <2>2. Rules'
    BY <2>1 DEF OfferInv, Dealings, Rules, HistoryTellsStatus, OneInProgressPerPhone, SigningIsPossible,
                LeaverHoldsNothing, OneEmployedRecord, Exists, Joined, Live
  <2>3. Offers'
    BY <2>1 DEF OfferInv, Dealings, Offers, LinksAreOffers, LinkOf, Waits, EmployedAt, Joined,
                WaitingIsAccounted, GotOutOrUsable, LinksAreAccounted, InFlight, answerVars
  <2>4. SendsAreOpen'
    <3>1. SendsAreOpen
      BY DEF OfferInv, Dealings, Sends
    <3>2. lapsed \in Int /\ stamps \in Int /\ \A p \in pending : p.send \in Int
      BY Numbers, SendFacts DEF OfferInv
    <3>3. \A p \in pending : lapsed' < p.send
      BY <2>1, <3>1, <3>2 DEF SendsAreOpen, InFlight
    <3> QED
      BY <2>1, <3>1, <3>2, <3>3 DEF SendsAreOpen, answerVars
  <2>5. StampsAreOwned' /\ SendsRemember'
    BY <2>1 DEF OfferInv, Dealings, Sends, StampsAreOwned, SendsRemember, Owns, Remembers, ClosedItsOwn,
                Exists, Waits, answerVars
  <2> QED
    BY <2>2, <2>3, <2>4, <2>5 DEF Dealings, Sends
<1> QED
  BY <1>1, <1>2 DEF Environment

-----------------------------------------------------------------------------
(* Dispatch and undo                                                       *)

\* A step of a request on its own send: on to another stage, or settled.
SendGoesOn(p) == (\E stage \in {"sending", "undoing"} : Step(p, stage)) \/ Done(p)

LEMMA SendsAfter ==
  ASSUME IInv, NEW p \in pending, SendGoesOn(p)
  PROVE  /\ \A q \in pending' : \E r \in pending :
              /\ q.send = r.send /\ q.contract = r.contract /\ q.staff = r.staff /\ q.kind = r.kind
              /\ q.before = r.before /\ q.moved = r.moved /\ q.replaced = r.replaced
              /\ q.expired = r.expired /\ (r = p => ~Done(p))
         /\ InFlight \ {p.send} \subseteq InFlight'
         /\ ~Done(p) => InFlight \subseteq InFlight'
<1>1. CASE Done(p)
  BY <1>1 DEF Done, InFlight
<1>2. CASE \E stage \in {"sending", "undoing"} : Step(p, stage)
  <2>1. PICK stage \in {"sending", "undoing"} :
          pending' = (pending \ {p}) \union {[p EXCEPT !.stage = stage]}
    BY <1>2 DEF Step
  <2> DEFINE q == [p EXCEPT !.stage = stage]
  <2>2. p \in PendingInvite
    BY DEF IInv, TypeOK
  <2>3. /\ q.send = p.send /\ q.contract = p.contract /\ q.staff = p.staff /\ q.kind = p.kind
        /\ q.before = p.before /\ q.moved = p.moved /\ q.replaced = p.replaced
        /\ q.expired = p.expired /\ q.stage = stage
    BY <2>2 DEF PendingInvite
  <2>4. pending' = (pending \ {p}) \union {q}
    BY <2>1
  <2> HIDE DEF q
  <2>5. Done(p) => q \in pending /\ q # p
    BY <2>4 DEF Done
  <2>6. InFlight \subseteq InFlight'
    BY <2>3, <2>4 DEF InFlight
  <2>7. ASSUME NEW x \in pending'
        PROVE  \E r \in pending :
              /\ x.send = r.send /\ x.contract = r.contract /\ x.staff = r.staff /\ x.kind = r.kind
              /\ x.before = r.before /\ x.moved = r.moved /\ x.replaced = r.replaced
              /\ x.expired = r.expired /\ (r = p => ~Done(p))
    <3>1. CASE x \in pending /\ x # p
      BY <3>1
    <3>2. CASE x = q /\ ~Done(p)
      BY <2>3, <3>2
    <3> QED
      BY <2>4, <2>5, <3>1, <3>2, <2>7
  <2> QED
    BY <2>6, <2>7
<1> QED
  BY <1>1, <1>2 DEF SendGoesOn

\* A step of dispatch changes no row: it takes the send on, or settles it as got out,
\* as lost or as answered.
LEMMA DispatchKeepsDealings ==
  ASSUME OfferInv, NEW p \in pending, SendGoesOn(p), UNCHANGED rows,
         out \union lost \subseteq out' \union lost',
         out' \union lost' \subseteq out \union lost \union {p.send},
         p.send \in out' \union lost' => Done(p),
         Done(p) => p.send \in out' \union lost' \/ Answered(p.send)
  PROVE  Dealings'
<1>1. UNCHANGED <<account, staff, contract, history, inv, stamps, lapsed>>
  BY DEF rows
<1>2. /\ \A q \in pending' : \E r \in pending :
              /\ q.send = r.send /\ q.contract = r.contract /\ q.staff = r.staff /\ q.kind = r.kind
              /\ q.before = r.before /\ q.moved = r.moved /\ q.replaced = r.replaced
              /\ q.expired = r.expired /\ (r = p => ~Done(p))
      /\ InFlight \ {p.send} \subseteq InFlight' /\ (~Done(p) => InFlight \subseteq InFlight')
  BY SendsAfter DEF OfferInv
<1>3. Rules'
  BY <1>1 DEF OfferInv, Dealings, Rules, HistoryTellsStatus, OneInProgressPerPhone, SigningIsPossible,
              LeaverHoldsNothing, OneEmployedRecord, Exists, Joined, Live
<1>4. Offers'
  <2>1. LinksAreOffers'
    BY <1>1 DEF OfferInv, Dealings, Offers, LinksAreOffers, LinkOf, Waits, EmployedAt, Joined
  <2>2. WaitingIsAccounted'
    BY <1>1 DEF OfferInv, Dealings, Offers, WaitingIsAccounted, GotOutOrUsable, Waits
  <2>3. LinksAreAccounted'
    <3> SUFFICES ASSUME NEW n \in Stamps, inv[n].st \in {"SENT", "EXPIRED", "UNDER_AGE"}
                 PROVE  n \in out' \union lost' \union InFlight'
      BY <1>1 DEF LinksAreAccounted
    <3>1. n \in out \union lost \union InFlight
      BY DEF OfferInv, Dealings, Offers, LinksAreAccounted
    <3>2. CASE n \in out \union lost
      BY <3>2
    <3>3. CASE n \in InFlight /\ n # p.send
      BY <1>2, <3>3
    <3>4. CASE n \in InFlight /\ n = p.send
      <4>1. Done(p) => p.send \in out' \union lost'
        BY <3>4 DEF Answered
      <4> QED
        BY <1>2, <3>4, <4>1
    <3> QED
      BY <3>1, <3>2, <3>3, <3>4
  <2> QED
    BY <2>1, <2>2, <2>3 DEF Offers
<1>5. SendsAreOpen'
  <2>1. SendsAreOpen
    BY DEF OfferInv, Dealings, Sends
  <2>2. \A r \in pending : r.send = p.send => r = p
    BY DEF OfferInv, SentOnce
  <2>3. \A q \in pending' : lapsed < q.send /\ q.send \notin out' \union lost'
    <3> TAKE q \in pending'
    <3>1. PICK r \in pending : q.send = r.send /\ (r = p => ~Done(p))
      BY <1>2
    <3>2. lapsed < r.send /\ r.send \notin out \union lost
      BY <2>1 DEF SendsAreOpen
    <3> QED
      BY <2>2, <3>1, <3>2
  <2>4. \A n \in out' \union lost' : n <= stamps
    BY <2>1, SendFacts DEF SendsAreOpen, OfferInv
  <2> QED
    BY <1>1, <2>1, <2>3, <2>4 DEF SendsAreOpen
<1>6. StampsAreOwned'
  <2> SUFFICES ASSUME NEW n \in Stamps, NEW c \in Contracts, NEW d \in Contracts, Owns(c, n)'
               PROVE  n <= stamps' /\ (Owns(d, n)' => c = d)
    BY DEF StampsAreOwned
  <2>1. \A e \in Contracts : Owns(e, n)' => Owns(e, n)
    BY <1>1, <1>2 DEF Owns
  <2> QED
    BY <1>1, <2>1 DEF OfferInv, Dealings, Sends, StampsAreOwned
<1>7. SendsRemember'
  <2> SUFFICES ASSUME NEW q \in pending'
               PROVE  Remembers(q)' /\ ClosedItsOwn(q)'
    BY DEF SendsRemember
  <2>1. PICK r \in pending :
              /\ q.send = r.send /\ q.contract = r.contract /\ q.staff = r.staff /\ q.kind = r.kind
              /\ q.before = r.before /\ q.moved = r.moved /\ q.replaced = r.replaced
              /\ q.expired = r.expired
    BY <1>2
  <2>2. Remembers(r) /\ ClosedItsOwn(r)
    BY DEF OfferInv, Dealings, Sends, SendsRemember
  <2> QED
    BY <1>1, <2>1, <2>2 DEF Remembers, ClosedItsOwn, Exists, Waits
<1> QED
  BY <1>3, <1>4, <1>5, <1>6, <1>7 DEF Dealings, Sends

\* A send that goes on to another stage is not settled.
LEMMA StagesDiffer ==
  ASSUME OfferInv, NEW p \in pending, NEW stage \in {"sending", "undoing"}, p.stage # stage,
         Step(p, stage)
  PROVE  ~Done(p)
<1>1. p \in PendingInvite
  BY DEF OfferInv, IInv, TypeOK
<1>2. [p EXCEPT !.stage = stage] # p /\ [p EXCEPT !.stage = stage].send = p.send
  BY <1>1 DEF PendingInvite
<1>3. \A q \in pending : q.send = p.send => q = p
  BY DEF OfferInv, SentOnce
<1> QED
  BY <1>2, <1>3 DEF Step, Done

LEMMA DispatchStepsKeepDealings ==
  ASSUME OfferInv, NEW p \in pending,
         DispatchReread(p) \/ AlimtalkAccepted(p) \/ AlimtalkFailed(p) \/ AlimtalkUnconfirmed(p)
         \/ UndoError(p) \/ Abandoned(p)
  PROVE  Dealings'
<1>1. p.send \notin out \union lost
  BY DEF OfferInv, Dealings, Sends, SendsAreOpen
<1>2. CASE DispatchReread(p)
  <2>1. UNCHANGED <<rows, out, lost>> /\ SendGoesOn(p) /\ (Done(p) => Answered(p.send))
    <3>1. UNCHANGED <<rows, out, lost>> /\ p.stage = "committed"
      BY <1>2 DEF DispatchReread
    <3>2. CASE Answered(p.send)
      BY <1>2, <3>1, <3>2 DEF DispatchReread, SendGoesOn
    <3>3. CASE ~Answered(p.send)
      <4>1. PICK stage \in {"sending", "undoing"} : Step(p, stage)
        BY <1>2, <3>3 DEF DispatchReread
      <4> QED
        BY <3>1, <4>1, StagesDiffer DEF SendGoesOn
    <3> QED
      BY <3>2, <3>3
  <2> QED
    BY <1>1, <2>1, DispatchKeepsDealings
<1>3. CASE AlimtalkFailed(p)
  <2>1. UNCHANGED <<rows, out, lost>> /\ Step(p, "undoing") /\ p.stage = "sending"
    BY <1>3 DEF AlimtalkFailed
  <2>2. ~Done(p)
    BY <2>1, StagesDiffer
  <2> QED
    BY <1>1, <2>1, <2>2, DispatchKeepsDealings DEF SendGoesOn
<1>4. CASE AlimtalkAccepted(p) \/ AlimtalkUnconfirmed(p) \/ UndoError(p) \/ Abandoned(p)
  <2>1. /\ Done(p) /\ UNCHANGED rows
        /\ \/ out' = out \union {p.send} /\ UNCHANGED lost
           \/ lost' = lost \union {p.send} /\ UNCHANGED out
    BY <1>4 DEF AlimtalkAccepted, AlimtalkUnconfirmed, UndoError, Abandoned
  <2> QED
    BY <2>1, DispatchKeepsDealings DEF SendGoesOn
<1> QED
  BY <1>2, <1>3, <1>4

\* As long as undo would turn a contract back, the contract is as this send left it.
LEMMA UndoFinds ==
  ASSUME OfferInv, NEW p \in pending, ~Answered(p.send), ~Overtaken(p)
  PROVE  /\ Waits(p.contract) /\ contract[p.contract].act = p.kind
         /\ contract[p.contract].staff = p.staff /\ contract[p.contract].sent = p.send
         /\ inv[p.send].st = "SENT" /\ inv[p.send].staff = p.staff /\ inv[p.send].kind = p.kind
         /\ history[p.contract].by <= p.send
         /\ p.moved => history[p.contract].by = p.send
<1> DEFINE c == p.contract
           n == p.send
<1>1. c \in Contracts /\ n \in Stamps /\ n \in Int
  BY SendFacts DEF OfferInv
<1>2. inv[n].st = "SENT" /\ contract[c].sent = n
  BY DEF Overtaken
<1>3. PICK d \in Contracts : LinkOf(n, d)
  BY <1>1, <1>2, LinkContract
<1>4. Owns(d, n) /\ Owns(c, n)
  BY <1>2, <1>3 DEF Owns, LinkOf
<1>5. d = c
  BY <1>1, <1>4 DEF OfferInv, Dealings, Sends, StampsAreOwned
<1>6. LinkOf(n, c)
  BY <1>3, <1>5
<1>7. inv[n].kind = p.kind /\ (p.moved /\ Waits(c) => n <= history[c].by)
  BY <1>2 DEF OfferInv, Dealings, Sends, SendsRemember, Remembers
<1>8. inv[n].staff = p.staff
  BY <1>2 DEF OfferInv, IInv, LinksInOrder, SendsKnowTheirLinks
<1>9. history[c].by <= n /\ history[c].by \in Int
  BY <1>1, <1>2, <1>6, WaitingStamp DEF LinkOf
<1> HIDE DEF c, n
<1>10. p.moved => history[c].by = n
  BY <1>1, <1>6, <1>7, <1>9 DEF LinkOf
<1> QED
  BY <1>2, <1>6, <1>7, <1>8, <1>9, <1>10 DEF LinkOf, c, n

\* Settling a send leaves what the others remember.
LEMMA SettledKeepsSends ==
  ASSUME OfferInv, NEW p \in pending, Done(p), ContractsGoOn, LinksGoOn,
         \A c \in Contracts :
           \/ contract'[c].sent \in {contract[c].sent, Never}
           \/ c = p.contract /\ contract'[c].sent = p.before.sent,
         UNCHANGED <<stamps, lapsed, out, lost>>
  PROVE  Sends'
<1>1. pending' \subseteq pending
  BY DEF Done
<1>2. SendsAreOpen'
  BY <1>1 DEF OfferInv, Dealings, Sends, SendsAreOpen
<1>3. StampsAreOwned'
  <2> SUFFICES ASSUME NEW n \in Stamps, NEW c \in Contracts, NEW d \in Contracts, Owns(c, n)'
               PROVE  n <= stamps' /\ (Owns(d, n)' => c = d)
    BY DEF StampsAreOwned
  <2>1. n # Never
    BY Numbers DEF OfferInv
  <2>2. \A e \in Contracts : Owns(e, n)' => Owns(e, n)
    BY <1>1, <2>1 DEF Owns
  <2> QED
    BY <2>2 DEF OfferInv, Dealings, Sends, StampsAreOwned
<1>4. SendsRemember'
  <2> SUFFICES ASSUME NEW q \in pending'
               PROVE  Remembers(q)' /\ ClosedItsOwn(q)'
    BY DEF SendsRemember
  <2>1. q \in pending /\ Remembers(q) /\ ClosedItsOwn(q)
    BY <1>1 DEF OfferInv, Dealings, Sends, SendsRemember
  <2> QED
    BY <2>1, RememberedStill DEF OfferInv
<1> QED
  BY <1>2, <1>3, <1>4 DEF Sends

\* A send that others have overtaken only loses its invitation.
LEMMA OvertakenKeepsDealings ==
  ASSUME OfferInv, NEW p \in pending, Done(p), Overtaken(p), ~Answered(p.send),
         inv' = [inv EXCEPT ![p.send] = NoInvitation],
         UNCHANGED <<account, staff, contract, history, stamps, lapsed, out, lost>>
  PROVE  Dealings'
<1> DEFINE n == p.send
<1>1. n \in Stamps /\ p.contract \in Contracts
  BY SendFacts DEF OfferInv
<1>2. inv'[n].st = "NONE" /\ \A m \in Stamps \ {n} : inv'[m] = inv[m]
  BY <1>1 DEF OfferInv, IInv, TypeOK, NoInvitation
<1>3. pending' = pending \ {p} /\ InFlight \ {n} \subseteq InFlight'
  BY DEF Done, InFlight
<1>4. n \notin out \union lost
  BY DEF OfferInv, Dealings, Sends, SendsAreOpen
<1> HIDE DEF n
<1>5. Rules'
  <2>1. \A s \in Staff : Live(s)' \subseteq Live(s)
    BY <1>2 DEF Live
  <2> QED
    BY <2>1 DEF OfferInv, Dealings, Rules, HistoryTellsStatus, OneInProgressPerPhone, SigningIsPossible,
                LeaverHoldsNothing, OneEmployedRecord, Exists, Joined
<1>6. Sends'
  <2>1. ContractsGoOn
    BY DEF ContractsGoOn, Exists, Waits
  <2>2. LinksGoOn
    BY <1>2 DEF LinksGoOn
  <2> QED
    BY <2>1, <2>2, SettledKeepsSends
<1>7. LinksAreOffers'
  <2> SUFFICES ASSUME NEW m \in Stamps, inv'[m].st = "SENT"
               PROVE  inv'[m] = inv[m] /\ inv[m].st = "SENT"
    BY DEF OfferInv, Dealings, Offers, LinksAreOffers, LinkOf, Waits, EmployedAt, Joined
  <2> QED
    BY <1>2
<1>8. WaitingIsAccounted'
  <2> SUFFICES ASSUME NEW c \in Contracts, Waits(c)
               PROVE  GotOutOrUsable(contract[c].sent)'
    BY DEF OfferInv, Dealings, Offers, WaitingIsAccounted, Waits
  <2>1. contract[c].sent # n
    <3> SUFFICES ASSUME contract[c].sent = n
                 PROVE  FALSE
      OBVIOUS
    <3>1. inv[n].st = "SENT"
      BY <1>4 DEF OfferInv, Dealings, Offers, WaitingIsAccounted, GotOutOrUsable
    <3>2. Owns(c, n) /\ Owns(p.contract, n)
      BY DEF Owns, n
    <3>3. c = p.contract
      BY <1>1, <3>2 DEF OfferInv, Dealings, Sends, StampsAreOwned
    <3> QED
      BY <3>1, <3>3 DEF Overtaken, n
  <2>2. contract[c].sent \in Stamps /\ GotOutOrUsable(contract[c].sent)
    BY WaitingStamp DEF OfferInv, Dealings, Offers, WaitingIsAccounted
  <2> QED
    BY <1>2, <2>1, <2>2 DEF GotOutOrUsable
<1>9. LinksAreAccounted'
  BY <1>2, <1>3 DEF OfferInv, Dealings, Offers, LinksAreAccounted
<1> QED
  BY <1>5, <1>6, <1>7, <1>8, <1>9 DEF Dealings, Offers

\* What a send that is turned back puts back: an invitation of its own contract, sent
\* before it in the same status, or none.
LEMMA RevivedIsOwn ==
  ASSUME OfferInv, NEW p \in pending, ~Answered(p.send), ~Overtaken(p), NEW m \in Revived(p)
  PROVE  /\ m \in Stamps /\ m # p.send /\ inv[m].st = "EXPIRED" /\ inv[m].staff = p.staff
         /\ inv[m].kind = p.kind /\ \A k \in Revived(p) : k = m
         /\ ~RejudgedOf(p) /\ ~p.moved /\ p.before.st = "PENDING_SEND"
         /\ p.before.sent = m /\ p.before.act = p.kind /\ p.before.join = "INVITED"
         /\ p.before.act = "INVITE" => p.before.due # Never
         /\ history[p.contract].by <= m
<1>1. /\ ~RejudgedOf(p) /\ ~p.replaced /\ m \in p.expired /\ inv[m].st = "EXPIRED"
      /\ \A k \in Revived(p) : k \in p.expired
  BY DEF Revived
<1>2. m \in Stamps /\ m \in Int /\ m < p.send /\ p.send \in Int /\ p.contract \in Contracts
  BY <1>1, SendFacts DEF OfferInv
<1>3. inv[m].staff = p.staff /\ \A k \in Revived(p) : k = m
  BY <1>1 DEF OfferInv, IInv, LinksInOrder, SendsKnowTheirLinks
<1>4. Remembers(p) /\ ClosedItsOwn(p)
  BY DEF OfferInv, Dealings, Sends, SendsRemember
<1>5. /\ p.before.st = "PENDING_SEND" /\ p.before.sent = m /\ p.before.join = "INVITED"
      /\ inv[m].kind = p.before.act
      /\ history[p.contract].by <= m \/ p.send < history[p.contract].by
  BY <1>1, <1>4 DEF ClosedItsOwn
<1>6. ~p.moved /\ (p.before.act = "INVITE" => p.before.due # Never)
  BY <1>4, <1>5 DEF Remembers
<1>7. p.kind = p.before.act
  BY <1>1, <1>5 DEF RejudgedOf
<1>8. history[p.contract].by <= p.send /\ history[p.contract].by \in Int
  BY <1>2, UndoFinds, Numbers DEF OfferInv, StampsOrNever
<1>9. history[p.contract].by <= m
  BY ONLY <1>2, <1>5, <1>8
<1>10. m # p.send
  BY ONLY <1>2
<1>11. /\ m \in Stamps /\ m # p.send /\ inv[m].st = "EXPIRED" /\ inv[m].staff = p.staff
       /\ inv[m].kind = p.kind /\ \A k \in Revived(p) : k = m
  <2>1. inv[m].kind = p.kind
    BY ONLY <1>5, <1>7
  <2> QED
    BY ONLY <1>1, <1>2, <1>3, <1>10, <2>1
<1>12. /\ ~RejudgedOf(p) /\ ~p.moved /\ p.before.st = "PENDING_SEND"
       /\ p.before.sent = m /\ p.before.act = p.kind /\ p.before.join = "INVITED"
       /\ p.before.act = "INVITE" => p.before.due # Never
  <2>1. p.before.act = p.kind
    BY ONLY <1>7
  <2> QED
    BY ONLY <1>1, <1>5, <1>6, <2>1
<1> QED
  BY ONLY <1>9, <1>11, <1>12

\* The status that an undo goes back to, by whether an invitation is put back.
LEMMA RestoredStatus ==
  ASSUME OfferInv, NEW p \in pending, ~Answered(p.send), ~Overtaken(p),
         NEW live \in BOOLEAN, live <=> Revived(p) # {}
  PROVE  /\ live => RestoredStatusOf(p, live) = "PENDING_SEND"
         /\ ~live => RestoredStatusOf(p, live) \in {"DRAFT", "REJECTED", "EXPIRED"}
         /\ TurnedBack(history[p.contract], p, RestoredStatusOf(p, live)).last =
              RestoredStatusOf(p, live)
         /\ TurnedBack(history[p.contract], p, RestoredStatusOf(p, live)).by
              \in {history[p.contract].by, Never}
         /\ live => TurnedBack(history[p.contract], p, RestoredStatusOf(p, live)) = history[p.contract]
<1> DEFINE h == history[p.contract]
           restored == RestoredStatusOf(p, live)
<1>1. /\ p.before.st \in {"NONE", "DRAFT", "PENDING_SEND", "REJECTED", "EXPIRED"}
      /\ p.moved <=> p.before.st # "PENDING_SEND"
  BY DEF OfferInv, Dealings, Sends, SendsRemember, Remembers
<1>2. p.contract \in Contracts /\ h \in HistoryRows
  BY SendFacts DEF OfferInv, IInv, TypeOK
<1>3. p.moved => h.by = p.send
  BY UndoFinds
<1>4. h.last = "PENDING_SEND"
  BY <1>2, UndoFinds DEF OfferInv, Dealings, Rules, HistoryTellsStatus, Waits, Exists, Statuses
<1>5. live => p.before.st = "PENDING_SEND" /\ ~RejudgedOf(p)
  BY RevivedIsOwn
<1>6. /\ restored = IF p.before.st \in {"NONE", "DRAFT"} THEN "DRAFT"
                    ELSE IF p.before.st \in {"REJECTED", "EXPIRED"} THEN p.before.st
                    ELSE IF live THEN "PENDING_SEND" ELSE "DRAFT"
  BY <1>1, <1>5 DEF RestoredStatusOf
<1>7. /\ TurnedBack(h, p, restored).last = restored
      /\ TurnedBack(h, p, restored).by \in {h.by, Never}
      /\ p.before.st = "PENDING_SEND" /\ restored = "PENDING_SEND" => TurnedBack(h, p, restored) = h
  <2> HIDE DEF h, restored
  <2>1. CASE p.before.st = "PENDING_SEND"
    BY <1>1, <1>4, <2>1 DEF TurnedBack, Moved
  <2>2. CASE p.before.st # "PENDING_SEND"
    <3> DEFINE first == IF p.before.st = "NONE" THEN "DRAFT" ELSE p.before.st
               undone == [h EXCEPT !.last = first, !.by = Never]
    <3>1. restored = first
      BY <1>1, <1>6, <2>2
    <3>2. undone.last = first /\ undone.by = Never
      BY <1>2 DEF HistoryRows
    <3>3. TurnedBack(h, p, restored) = undone
      BY <1>1, <1>3, <2>2, <3>1 DEF TurnedBack
    <3> HIDE DEF undone
    <3> QED
      BY <2>2, <3>1, <3>2, <3>3
  <2> QED
    BY <2>1, <2>2
<1> QED
  BY <1>5, <1>6, <1>7

\* A send that is turned back takes its link, its status and its history row away, and
\* puts back what it found: an offer that stood, or nothing on offer.
LEMMA TurnBackKeepsDealings ==
  ASSUME OfferInv, NEW p \in pending, ~Answered(p.send), ~Overtaken(p), Done(p), TurnBack(p),
         UNCHANGED <<account, stamps, lapsed, out, lost>>
  PROVE  Dealings'
<1> DEFINE s == p.staff
           c == p.contract
           n == p.send
           live == Revived(p) # {}
           restored == RestoredStatusOf(p, live)
<1>1. /\ n \in Stamps /\ c \in Contracts /\ s \in Staff /\ p.before.sent \in StampsOrNever
  BY SendFacts DEF OfferInv
<1>2. /\ Waits(c) /\ contract[c].act = p.kind /\ contract[c].staff = s /\ contract[c].sent = n
      /\ inv[n].st = "SENT" /\ inv[n].staff = s /\ inv[n].kind = p.kind
  BY UndoFinds
<1>3. /\ staff[s].join = "INVITED" /\ staff[s].leave # "LEFT" /\ EmployedAt(staff[s].phone) = {}
  BY <1>1, <1>2, LinkContract
<1>4. \A d \in Contracts :
        contract[d].st \in InProgress /\ staff[contract[d].staff].phone = staff[s].phone => d = c
  BY <1>1, <1>2 DEF OfferInv, Dealings, Rules, OneInProgressPerPhone, Waits, InProgress
<1>5. Live(s) \ {n} = {}
  BY <1>1, <1>2 DEF Live, OfferInv, IInv, LinksInOrder, OneLiveInvitation
<1>6. /\ live => restored = "PENDING_SEND"
      /\ ~live => restored \in {"DRAFT", "REJECTED", "EXPIRED"}
      /\ TurnedBack(history[c], p, restored).last = restored
      /\ TurnedBack(history[c], p, restored).by \in {history[c].by, Never}
      /\ live => TurnedBack(history[c], p, restored) = history[c]
  <2> DEFINE l == live
  <2>1. l \in BOOLEAN /\ (l <=> Revived(p) # {})
    OBVIOUS
  <2> HIDE DEF l
  <2> QED
    BY <2>1, RestoredStatus DEF l
<1>7. contract \in [Contracts -> ContractRow] /\ history \in [Contracts -> HistoryRows]
      /\ staff \in [Staff -> StaffRow] /\ inv \in [Stamps -> InvitationRow]
  BY DEF OfferInv, IInv, TypeOK
<1>8. /\ inv' = [m \in Stamps |->
            IF m = n THEN NoInvitation
            ELSE IF m \in Revived(p) THEN [inv[m] EXCEPT !.st = "SENT"] ELSE inv[m]]
      /\ contract' = [contract EXCEPT ![c] =
            [@ EXCEPT !.st = restored,
                      !.sent = IF restored = "DRAFT" THEN Never ELSE p.before.sent,
                      !.due = IF restored = "DRAFT" THEN Never ELSE p.before.due,
                      !.act = IF RejudgedOf(p) THEN p.kind ELSE p.before.act]]
      /\ history' = [history EXCEPT ![c] = TurnedBack(@, p, restored)]
      /\ staff' =
            IF (p.before.join = "DRAFT" \/ ~live) /\ staff[s].join = "INVITED"
            THEN [staff EXCEPT ![s].join = "DRAFT",
                               ![s].cand = IF p.kind = "AFFILIATION" THEN @
                                           ELSE IF RejudgedOf(p) THEN NoOne ELSE p.before.cand]
            ELSE staff
  BY <1>5 DEF TurnBack
<1>9. /\ inv'[n].st = "NONE" /\ \A m \in Stamps : m # n /\ m \notin Revived(p) => inv'[m] = inv[m]
      /\ \A m \in Revived(p) :
           /\ m \in Stamps /\ m # n /\ inv[m].st = "EXPIRED" /\ inv'[m].st = "SENT"
           /\ inv'[m].staff = s /\ inv'[m].kind = p.kind /\ inv[m].kind = p.kind
  <2>1. \A m \in Revived(p) : m \in Stamps /\ m # n /\ inv[m].st = "EXPIRED" /\ inv[m].staff = s
                              /\ inv[m].kind = p.kind
    BY RevivedIsOwn
  <2>2. \A m \in Revived(p) : inv'[m] = [inv[m] EXCEPT !.st = "SENT"] /\ inv[m] \in InvitationRow
    BY <1>7, <1>8, <2>1
  <2>3. \A m \in Revived(p) : inv'[m].st = "SENT" /\ inv'[m].staff = s /\ inv'[m].kind = p.kind
    <3>1. \A i \in InvitationRow :
            LET j == [i EXCEPT !.st = "SENT"]
            IN  j.st = "SENT" /\ j.staff = i.staff /\ j.kind = i.kind
      BY DEF InvitationRow
    <3> SUFFICES ASSUME NEW m \in Revived(p)
                 PROVE  inv'[m].st = "SENT" /\ inv'[m].staff = s /\ inv'[m].kind = p.kind
      OBVIOUS
    <3>2. /\ inv'[m] = [inv[m] EXCEPT !.st = "SENT"] /\ inv[m] \in InvitationRow
          /\ inv[m].staff = s /\ inv[m].kind = p.kind
      BY <2>1, <2>2
    <3> HIDE DEF s
    <3> QED
      BY ONLY <3>1, <3>2
  <2>4. inv'[n].st = "NONE" /\ \A m \in Stamps : m # n /\ m \notin Revived(p) => inv'[m] = inv[m]
    BY <1>1, <1>8 DEF NoInvitation
  <2> QED
    BY <2>1, <2>3, <2>4
<1>10. \A m \in Revived(p) :
         /\ live /\ p.before.join = "INVITED" /\ ~RejudgedOf(p) /\ p.before.sent = m
         /\ p.before.act = p.kind /\ (p.kind = "INVITE" => p.before.due # Never)
         /\ history[c].by <= m
  BY RevivedIsOwn
<1> HIDE DEF live, restored
<1>11. /\ \A d \in Contracts \ {c} : contract'[d] = contract[d] /\ history'[d] = history[d]
       /\ contract'[c].st = restored /\ contract'[c].staff = s
       /\ contract'[c].sent = (IF restored = "DRAFT" THEN Never ELSE p.before.sent)
       /\ contract'[c].due = (IF restored = "DRAFT" THEN Never ELSE p.before.due)
       /\ contract'[c].act = (IF RejudgedOf(p) THEN p.kind ELSE p.before.act)
  <2>1. contract[c] \in ContractRow
    BY <1>1, <1>7
  <2>2. contract'[c] = [contract[c] EXCEPT
                      !.st = restored,
                      !.sent = IF restored = "DRAFT" THEN Never ELSE p.before.sent,
                      !.due = IF restored = "DRAFT" THEN Never ELSE p.before.due,
                      !.act = IF RejudgedOf(p) THEN p.kind ELSE p.before.act]
    BY <1>1, <1>7, <1>8
  <2> QED
    BY <1>1, <1>2, <1>7, <1>8, <2>1, <2>2 DEF ContractRow
<1>12. /\ history'[c].last = restored /\ history'[c].by \in {history[c].by, Never}
       /\ live => history'[c] = history[c]
  BY <1>1, <1>6, <1>7, <1>8
<1>13. /\ \A t \in Staff \ {s} : staff'[t] = staff[t]
       /\ staff'[s].phone = staff[s].phone /\ staff'[s].leave = staff[s].leave
       /\ staff'[s].join \in {"DRAFT", "INVITED"}
       /\ live => staff' = staff
  <2>1. staff[s] \in StaffRow
    BY <1>1, <1>7
  <2>2. live => p.before.join = "INVITED"
    BY <1>10 DEF live
  <2> QED
    BY <1>1, <1>3, <1>7, <1>8, <2>1, <2>2 DEF StaffRow
<1> HIDE DEF s, c, n
<1>14. Rules'
  <2>1. HistoryTellsStatus'
    BY <1>11, <1>12 DEF OfferInv, Dealings, Rules, HistoryTellsStatus, Exists
  <2>2. \A d \in Contracts : contract'[d].st \in InProgress =>
          /\ contract[d].st \in InProgress /\ contract'[d].staff = contract[d].staff
          /\ contract[d].staff \in Staff
    BY <1>1, <1>2, <1>11 DEF OfferInv, IInv, RecordsExist, Exists, Statuses, InProgress, Waits
  <2>3. \A t \in Staff : staff'[t].phone = staff[t].phone /\ staff'[t].leave = staff[t].leave
                         /\ (staff'[t].join = "JOINED" <=> staff[t].join = "JOINED")
    BY <1>3, <1>13
  <2>4. OneInProgressPerPhone'
    BY <2>2, <2>3 DEF OfferInv, Dealings, Rules, OneInProgressPerPhone
  <2>5. SigningIsPossible'
    <3>1. contract'[c].st \notin {"PENDING_SIGNATURE", "CORRECTION_REQUESTED"}
      BY <1>6, <1>11
    <3>2. \A d \in Contracts : contract[d].st \in InProgress => contract[d].staff \in Staff
      BY DEF OfferInv, IInv, RecordsExist, Exists, Statuses, InProgress
    <3> QED
      BY <1>11, <2>2, <2>3, <3>1 DEF OfferInv, Dealings, Rules, SigningIsPossible, Joined, InProgress
  <2>6. LeaverHoldsNothing'
    <3> SUFFICES ASSUME NEW t \in Staff, staff'[t].leave = "LEFT"
                 PROVE  /\ \A d \in Contracts : contract'[d].staff = t => contract'[d].st \notin InProgress
                        /\ Live(t)' = {}
      BY DEF LeaverHoldsNothing
    <3>1. t # s /\ staff[t].leave = "LEFT"
      BY <1>3, <2>3
    <3>2. /\ \A d \in Contracts : contract[d].staff = t => contract[d].st \notin InProgress
          /\ Live(t) = {}
      BY <3>1 DEF OfferInv, Dealings, Rules, LeaverHoldsNothing
    <3>3. Live(t)' \subseteq Live(t)
      BY <1>9, <3>1 DEF Live
    <3> QED
      BY <2>2, <3>2, <3>3
  <2>7. OneEmployedRecord'
    BY <2>3 DEF OfferInv, Dealings, Rules, OneEmployedRecord, Joined
  <2> QED
    BY <2>1, <2>4, <2>5, <2>6, <2>7 DEF Rules
<1>15. Sends'
  <2>1. ContractsGoOn
    <3>1. restored \in Statuses /\ (restored = "PENDING_SEND" => live)
      BY <1>6 DEF Statuses
    <3> QED
      BY <1>2, <1>11, <1>12, <3>1 DEF ContractsGoOn, Exists, Waits, Statuses
  <2>2. LinksGoOn
    BY <1>9 DEF LinksGoOn
  <2>3. \A d \in Contracts :
           \/ contract'[d].sent \in {contract[d].sent, Never}
           \/ d = p.contract /\ contract'[d].sent = p.before.sent
    BY <1>11 DEF c
  <2> QED
    BY <2>1, <2>2, <2>3, SettledKeepsSends
<1>16. LinksAreOffers'
  <2> SUFFICES ASSUME NEW m \in Stamps, inv'[m].st = "SENT"
               PROVE  /\ \E d \in Contracts : LinkOf(m, d)'
                      /\ staff'[inv'[m].staff].join = "INVITED"
                      /\ EmployedAt(staff[inv[m].staff].phone)' = {}
                      /\ staff'[inv'[m].staff].cand =
                           IF inv'[m].kind = "INVITE" THEN NoOne ELSE staff'[inv'[m].staff].phone
    BY DEF LinksAreOffers
  <2>1. m # n
    BY <1>9
  <2>2. \A ph : EmployedAt(ph) = {} =>
          \A t \in Staff : ~(staff'[t].join = "JOINED" /\ staff'[t].phone = ph /\ staff'[t].leave # "LEFT")
    BY <1>3, <1>13 DEF EmployedAt, Joined
  <2>3. CASE m \in Revived(p)
    <3>1. live /\ staff' = staff /\ restored = "PENDING_SEND"
      BY <1>6, <1>10, <1>13, <2>3
    <3>2. LinkOf(m, c)'
      BY <1>9, <1>10, <1>11, <2>3, <3>1 DEF LinkOf, Waits
    <3>3. staff[s].cand = IF p.kind = "INVITE" THEN NoOne ELSE staff[s].phone
      BY <1>1, <1>2 DEF OfferInv, Dealings, Offers, LinksAreOffers
    <3> QED
      BY <1>1, <1>3, <1>9, <2>2, <2>3, <3>1, <3>2, <3>3 DEF EmployedAt, Joined
  <2>4. CASE m \notin Revived(p)
    <3>1. inv'[m] = inv[m] /\ inv[m].st = "SENT"
      BY <1>9, <2>1, <2>4
    <3>2. inv[m].staff # s
      BY <1>1, <1>2, <2>1, <3>1 DEF OfferInv, IInv, LinksInOrder, OneLiveInvitation
    <3>3. /\ inv[m].staff \in Staff /\ staff[inv[m].staff].join = "INVITED"
          /\ EmployedAt(staff[inv[m].staff].phone) = {} /\ \E d \in Contracts : LinkOf(m, d)
          /\ staff[inv[m].staff].cand =
               IF inv[m].kind = "INVITE" THEN NoOne ELSE staff[inv[m].staff].phone
      BY <3>1, LinkContract DEF OfferInv, Dealings, Offers, LinksAreOffers
    <3>4. staff'[inv[m].staff] = staff[inv[m].staff]
      BY <1>13, <3>2, <3>3
    <3>5. PICK d \in Contracts : LinkOf(m, d)
      BY <3>3
    <3>6. d # c
      BY <1>2, <3>2, <3>5 DEF LinkOf
    <3>7. LinkOf(m, d)'
      BY <1>11, <3>1, <3>5, <3>6 DEF LinkOf, Waits
    <3> QED
      BY <2>2, <3>1, <3>3, <3>4, <3>7 DEF EmployedAt, Joined
  <2> QED
    BY <2>3, <2>4
<1>17. WaitingIsAccounted'
  <2> SUFFICES ASSUME NEW d \in Contracts, Waits(d)'
               PROVE  /\ contract'[d].sent # Never /\ history'[d].by <= contract'[d].sent
                      /\ GotOutOrUsable(contract[d].sent)'
                      /\ contract'[d].act = "INVITE" => contract'[d].due # Never
    BY DEF WaitingIsAccounted
  <2>1. CASE d = c
    <3>1. live /\ restored = "PENDING_SEND"
      BY <1>6, <1>11, <2>1 DEF Waits
    <3>2. PICK m \in Revived(p) : TRUE
      BY <3>1 DEF live
    <3>3. m # Never
      BY <1>9, <3>2, Numbers DEF OfferInv
    <3> QED
      BY <1>9, <1>10, <1>11, <1>12, <2>1, <3>1, <3>2, <3>3 DEF GotOutOrUsable
  <2>2. CASE d # c
    <3>1. contract'[d] = contract[d] /\ history'[d] = history[d] /\ Waits(d)
      BY <1>11, <2>2 DEF Waits
    <3>2. /\ contract[d].sent # Never /\ history[d].by <= contract[d].sent
          /\ contract[d].act = "INVITE" => contract[d].due # Never
          /\ GotOutOrUsable(contract[d].sent) /\ contract[d].sent \in Stamps
      BY <3>1, WaitingStamp DEF OfferInv, Dealings, Offers, WaitingIsAccounted
    <3>3. contract[d].sent # n
      <4>1. contract[d].sent = n => Owns(c, n) /\ Owns(d, n)
        BY <1>2 DEF Owns
      <4> QED
        BY <1>1, <2>2, <4>1 DEF OfferInv, Dealings, Sends, StampsAreOwned
    <3>4. inv[contract[d].sent].st = "SENT" => inv'[contract[d].sent].st = "SENT"
      BY <1>9, <3>2, <3>3
    <3> QED
      BY <3>1, <3>2, <3>4 DEF GotOutOrUsable
  <2> QED
    BY <2>1, <2>2
<1>18. LinksAreAccounted'
  <2>1. InFlight \ {n} \subseteq InFlight'
    BY DEF Done, InFlight, n
  <2>2. n \notin out \union lost
    BY DEF OfferInv, Dealings, Sends, SendsAreOpen, n
  <2> SUFFICES ASSUME NEW m \in Stamps, inv'[m].st \in {"SENT", "EXPIRED", "UNDER_AGE"}
               PROVE  m \in out \union lost \union InFlight'
    BY DEF LinksAreAccounted
  <2>3. m # n /\ inv[m].st \in {"SENT", "EXPIRED", "UNDER_AGE"}
    BY <1>9
  <2> QED
    BY <2>1, <2>3 DEF OfferInv, Dealings, Offers, LinksAreAccounted
<1> QED
  BY <1>14, <1>15, <1>16, <1>17, <1>18 DEF Dealings, Offers

LEMMA DeliveryKeepsDealings ==
  ASSUME OfferInv, Delivery
  PROVE  Dealings'
<1>1. ASSUME NEW p \in pending, Undo(p)
      PROVE  Dealings'
  <2>1. Done(p) /\ UNCHANGED <<account, stamps, lapsed, out, lost>>
    BY <1>1 DEF Undo
  <2>2. CASE Answered(p.send)
    <3>1. UNCHANGED rows
      BY <1>1, <2>2 DEF Undo, rows
    <3>2. p.send \notin out \union lost
      BY DEF OfferInv, Dealings, Sends, SendsAreOpen
    <3> QED
      BY <2>1, <2>2, <3>1, <3>2, DispatchKeepsDealings DEF SendGoesOn
  <2>3. CASE ~Answered(p.send) /\ Overtaken(p)
    <3>1. inv' = [inv EXCEPT ![p.send] = NoInvitation] /\ UNCHANGED <<staff, contract, history>>
      BY <1>1, <2>3 DEF Undo
    <3> QED
      BY <2>1, <2>3, <3>1, OvertakenKeepsDealings
  <2>4. CASE ~Answered(p.send) /\ ~Overtaken(p)
    <3>1. TurnBack(p)
      BY <1>1, <2>4 DEF Undo
    <3> QED
      BY <2>1, <2>4, <3>1, TurnBackKeepsDealings
  <2> QED
    BY <2>2, <2>3, <2>4
<1> QED
  BY <1>1, DispatchStepsKeepDealings DEF Delivery

-----------------------------------------------------------------------------
(* Saves: contracts replaced, and orphans deleted                          *)

\* A save of contract c and its record s, as "row" and "rec", replaces every other
\* contract in progress of the record or under its number.
SaveFits(c, s, R, row, rec) ==
  /\ c \notin R /\ \A d \in R : contract[d].st \in InProgress
  /\ \A d \in Contracts \ {c} :
       contract[d].st \in InProgress
       /\ (contract[d].staff = s \/ staff[contract[d].staff].phone = rec.phone) => d \in R
  /\ contract[c].st = "NONE" \/ (Exists(c) /\ contract[c].staff = s)
  /\ row.staff = s /\ row.st \in {"DRAFT", "SIGNED", "PENDING_SIGNATURE", "PENDING_SEND"}
  /\ row.st = "PENDING_SIGNATURE" => Joined(s) /\ row.due # Never
  /\ rec.leave # "LEFT"
  /\ IF Joined(s) THEN rec = staff[s] ELSE rec.join \in {"DRAFT", "INVITED"}

LEMMA ReplaceRows ==
  ASSUME IInv, NEW c \in Contracts, NEW s \in Staff, NEW R \in SUBSET Contracts, c \notin R,
         NEW row, NEW log, NEW rec, Replace(R, c, row, log, s, rec)
  PROVE  /\ contract'[c] = row /\ history'[c] = log /\ staff'[s] = rec
         /\ \A d \in Contracts \ {c} : d \notin R => contract'[d] = contract[d] /\ history'[d] = history[d]
         /\ \A d \in R :
              /\ contract'[d].st \in {"GONE", "ENDED"} /\ contract'[d].sent \in {contract[d].sent, Never}
              /\ history'[d].by = Never
              /\ contract'[d].st = "ENDED" =>
                   contract'[d].staff = contract[d].staff /\ history'[d].last = "ENDED"
         /\ \A t \in Staff \ {s} :
              \/ staff'[t] = staff[t]
              \/ /\ staff'[t].leave = "STAYS" /\ staff'[t].join = "GONE" /\ ~Joined(t)
                 /\ t \in StaffOf(R) /\ \A d \in Contracts : contract[d].staff = t => d \in R
<1>1. /\ contract' = [d \in Contracts |->
            IF d = c THEN row
            ELSE IF d \notin R THEN contract[d]
            ELSE IF contract[d].st = "DRAFT" THEN DeletedContract
            ELSE [contract[d] EXCEPT !.st = "ENDED"]]
      /\ history' = [d \in Contracts |->
            IF d = c THEN log
            ELSE IF d \notin R THEN history[d]
            ELSE IF contract[d].st = "DRAFT" THEN NoHistory
            ELSE Moved(history[d], "ENDED", Never)]
      /\ staff' = [t \in Staff |->
            IF t = s THEN rec ELSE IF t \in Orphans(R, s) THEN DeletedRecord ELSE staff[t]]
  BY DEF Replace
<1>2. ASSUME NEW d \in R
      PROVE  /\ contract'[d].st \in {"GONE", "ENDED"}
             /\ contract'[d].sent \in {contract[d].sent, Never} /\ history'[d].by = Never
             /\ contract'[d].st = "ENDED" =>
                  contract'[d].staff = contract[d].staff /\ history'[d].last = "ENDED"
  <2>1. d \in Contracts /\ d # c /\ contract[d] \in ContractRow
    BY DEF IInv, TypeOK
  <2>2. CASE contract[d].st = "DRAFT"
    <3>1. contract'[d] = DeletedContract /\ history'[d] = NoHistory
      BY <1>1, <2>1, <2>2
    <3> QED
      BY <3>1 DEF DeletedContract, NoContract, NoHistory
  <2>3. CASE contract[d].st # "DRAFT"
    <3>1. /\ contract'[d] = [contract[d] EXCEPT !.st = "ENDED"]
          /\ history'[d] = Moved(history[d], "ENDED", Never)
      BY <1>1, <2>1, <2>3
    <3> QED
      BY <2>1, <3>1 DEF ContractRow, Moved
  <2> QED
    BY <2>2, <2>3
<1>3. ASSUME NEW t \in Staff \ {s}
      PROVE  \/ staff'[t] = staff[t]
             \/ /\ staff'[t].leave = "STAYS" /\ staff'[t].join = "GONE" /\ ~Joined(t)
                /\ t \in StaffOf(R) /\ \A d \in Contracts : contract[d].staff = t => d \in R
  <2>1. CASE t \in Orphans(R, s)
    <3>1. staff'[t] = DeletedRecord
      BY <1>1, <2>1
    <3> QED
      BY <2>1, <3>1 DEF Orphans, DeletedRecord, NoRecord
  <2>2. CASE t \notin Orphans(R, s)
    BY <1>1, <2>2
  <2> QED
    BY <2>1, <2>2
<1> QED
  BY <1>1, <1>2, <1>3

LEMMA ReplaceKeepsRules ==
  ASSUME OfferInv, NEW c \in Contracts, NEW s \in Staff, NEW R \in SUBSET Contracts,
         NEW row, NEW log, NEW rec, SaveFits(c, s, R, row, rec), log.last = row.st,
         Replace(R, c, row, log, s, rec), \A t \in Staff \ {s} : Live(t)' \subseteq Live(t)
  PROVE  Rules'
<1>1. /\ c \notin R /\ row.staff = s /\ rec.leave # "LEFT"
      /\ row.st \in {"DRAFT", "SIGNED", "PENDING_SIGNATURE", "PENDING_SEND"}
      /\ row.st = "PENDING_SIGNATURE" => Joined(s) /\ row.due # Never
      /\ \A d \in Contracts \ {c} :
           contract[d].st \in InProgress
           /\ (contract[d].staff = s \/ staff[contract[d].staff].phone = rec.phone) => d \in R
  BY DEF SaveFits
<1>2. /\ contract'[c] = row /\ history'[c] = log /\ staff'[s] = rec
      /\ \A d \in Contracts \ {c} : d \notin R => contract'[d] = contract[d] /\ history'[d] = history[d]
      /\ \A d \in R : /\ contract'[d].st \in {"GONE", "ENDED"}
                      /\ contract'[d].st = "ENDED" => history'[d].last = "ENDED"
      /\ \A t \in Staff \ {s} :
           \/ staff'[t] = staff[t]
           \/ /\ staff'[t].leave = "STAYS" /\ staff'[t].join = "GONE"
              /\ \A d \in Contracts : contract[d].staff = t => d \in R
  BY <1>1, ReplaceRows DEF OfferInv
<1>3. /\ HistoryTellsStatus /\ OneInProgressPerPhone /\ SigningIsPossible
      /\ LeaverHoldsNothing /\ OneEmployedRecord
      /\ \A d \in Contracts : Exists(d) => contract[d].staff \in Staff
  BY DEF OfferInv, Dealings, Rules, IInv, RecordsExist
<1>4. Joined(s) => rec = staff[s]
  BY DEF SaveFits
<1>5. staff'[s].join = "JOINED" => Joined(s)
  BY <1>2 DEF SaveFits, Joined
<1>6. HistoryTellsStatus'
  <2> SUFFICES ASSUME NEW d \in Contracts, contract'[d].st \in Statuses
               PROVE  history'[d].last = contract'[d].st
    BY DEF HistoryTellsStatus, Exists
  <2>1. CASE d = c
    BY <1>2, <2>1
  <2>2. CASE d \in R
    BY <1>2, <2>2 DEF Statuses
  <2>3. CASE d # c /\ d \notin R
    BY <1>2, <1>3, <2>3 DEF HistoryTellsStatus, Exists
  <2> QED
    BY <2>1, <2>2, <2>3
\* What is in progress now and is not c was so before, under a record left alone.
<1>7. ASSUME NEW d \in Contracts, contract'[d].st \in InProgress, d # c
      PROVE  /\ d \notin R /\ contract'[d] = contract[d] /\ contract[d].staff \in Staff
             /\ contract[d].staff # s /\ staff'[contract[d].staff] = staff[contract[d].staff]
             /\ staff[contract[d].staff].phone # rec.phone
  <2>1. d \notin R /\ contract'[d] = contract[d]
    BY <1>2, <1>7 DEF InProgress
  <2>2. contract[d].staff \in Staff
    BY <1>3, <1>7, <2>1 DEF Exists, InProgress, Statuses
  <2>3. contract[d].staff # s /\ staff[contract[d].staff].phone # rec.phone
    BY <1>1, <1>7, <2>1
  <2> QED
    BY <1>2, <2>1, <2>2, <2>3
<1>8. OneInProgressPerPhone'
  BY <1>1, <1>2, <1>3, <1>7 DEF OneInProgressPerPhone
<1>9. SigningIsPossible'
  <2> SUFFICES ASSUME NEW d \in Contracts
               PROVE  /\ contract'[d].st \in {"PENDING_SIGNATURE", "CORRECTION_REQUESTED"} =>
                           staff'[contract'[d].staff].join = "JOINED"
                      /\ contract'[d].st = "PENDING_SIGNATURE" => contract'[d].due # Never
    BY DEF SigningIsPossible, Joined
  <2>1. CASE d = c
    BY <1>1, <1>2, <1>4, <2>1 DEF Joined
  <2>2. CASE d # c
    BY <1>3, <1>7, <2>2 DEF SigningIsPossible, Joined, InProgress
  <2> QED
    BY <2>1, <2>2
<1>10. LeaverHoldsNothing'
  <2> SUFFICES ASSUME NEW t \in Staff, staff'[t].leave = "LEFT"
               PROVE  /\ \A d \in Contracts : contract'[d].staff = t => contract'[d].st \notin InProgress
                      /\ Live(t)' = {}
    BY DEF LeaverHoldsNothing
  <2>1. t # s /\ staff'[t] = staff[t]
    BY <1>1, <1>2
  <2>2. /\ \A d \in Contracts : contract[d].staff = t => contract[d].st \notin InProgress
        /\ Live(t) = {}
    BY <1>3, <2>1 DEF LeaverHoldsNothing
  <2>3. \A d \in Contracts : contract'[d].staff = t => contract'[d].st \notin InProgress
    BY <1>1, <1>2, <1>7, <2>1, <2>2
  <2> QED
    BY <2>1, <2>2, <2>3
<1>11. OneEmployedRecord'
  <2>1. \A t \in Staff : staff'[t].join = "JOINED" => staff[t].join = "JOINED" /\ staff'[t] = staff[t]
    BY <1>2, <1>4, <1>5 DEF Joined
  <2> QED
    BY <1>3, <2>1 DEF OneEmployedRecord, Joined
<1> QED
  BY <1>6, <1>8, <1>9, <1>10, <1>11 DEF Rules

\* An offer that a save does not touch stands.
LEMMA OtherOffers ==
  ASSUME OfferInv, NEW c \in Contracts, NEW s \in Staff, NEW R \in SUBSET Contracts,
         NEW row, NEW log, NEW rec, SaveFits(c, s, R, row, rec),
         Replace(R, c, row, log, s, rec),
         NEW m \in Stamps, inv[m].st = "SENT", inv[m].staff \notin StaffOf(R) \union {s},
         inv'[m] = inv[m]
  PROVE  /\ \E d \in Contracts : LinkOf(m, d)'
         /\ staff'[inv'[m].staff].join = "INVITED"
         /\ EmployedAt(staff[inv[m].staff].phone)' = {}
         /\ staff'[inv'[m].staff].cand =
              IF inv'[m].kind = "INVITE" THEN NoOne ELSE staff'[inv'[m].staff].phone
<1>1. /\ c \notin R /\ (contract[c].st = "NONE" \/ contract[c].staff = s)
  BY DEF SaveFits
<1>2. /\ staff'[s] = rec
      /\ \A d \in Contracts \ {c} : d \notin R => contract'[d] = contract[d]
      /\ \A t \in Staff \ {s} :
              \/ staff'[t] = staff[t]
              \/ staff'[t].join = "GONE" /\ t \in StaffOf(R)
  BY <1>1, ReplaceRows DEF OfferInv
<1>3. /\ inv[m].staff \in Staff /\ staff[inv[m].staff].join = "INVITED"
      /\ EmployedAt(staff[inv[m].staff].phone) = {} /\ \E d \in Contracts : LinkOf(m, d)
      /\ staff[inv[m].staff].cand =
           IF inv[m].kind = "INVITE" THEN NoOne ELSE staff[inv[m].staff].phone
  BY LinkContract DEF OfferInv, Dealings, Offers, LinksAreOffers
<1>4. PICK d \in Contracts : LinkOf(m, d)
  BY <1>3
<1>5. d # c /\ d \notin R
  BY <1>1, <1>4 DEF LinkOf, Waits, StaffOf
<1>6. LinkOf(m, d)'
  BY <1>2, <1>4, <1>5 DEF LinkOf, Waits
<1>7. staff'[inv[m].staff] = staff[inv[m].staff]
  BY <1>2, <1>3
<1>8. Joined(s) => rec = staff[s]
  BY DEF SaveFits
<1>9. rec.join = "JOINED" => Joined(s)
  BY DEF SaveFits
<1>10. \A t \in Staff : staff'[t].join = "JOINED" => staff'[t] = staff[t]
  BY <1>2, <1>8, <1>9
<1>11. EmployedAt(staff[inv[m].staff].phone)' = {}
  BY <1>3, <1>7, <1>10 DEF EmployedAt, Joined
<1> QED
  BY <1>3, <1>6, <1>7, <1>11

\* ... and so does the claim of a contract that it does not touch.
LEMMA OtherClaims ==
  ASSUME OfferInv, NEW c \in Contracts, NEW s \in Staff, NEW R \in SUBSET Contracts,
         NEW row, NEW log, NEW rec, SaveFits(c, s, R, row, rec),
         Replace(R, c, row, log, s, rec), UNCHANGED <<out, lost>>,
         \A m \in Stamps : inv[m].st = "SENT" /\ inv[m].staff \notin StaffOf(R) \union {s} =>
           inv'[m] = inv[m],
         NEW d \in Contracts \ {c}, Waits(d)'
  PROVE  /\ contract'[d].sent # Never /\ history'[d].by <= contract'[d].sent
         /\ GotOutOrUsable(contract[d].sent)'
         /\ contract'[d].act = "INVITE" => contract'[d].due # Never
<1>1. /\ c \notin R
      /\ \A e \in Contracts \ {c} : contract[e].st \in InProgress /\ contract[e].staff = s => e \in R
      /\ \A e \in R : contract[e].st \in InProgress
  BY DEF SaveFits
<1>2. d \notin R
  BY <1>1, ReplaceRows DEF OfferInv, Waits
<1>3. contract'[d] = contract[d] /\ history'[d] = history[d] /\ Waits(d)
  BY <1>1, <1>2, ReplaceRows DEF OfferInv, Waits
<1>4. /\ contract[d].sent # Never /\ history[d].by <= contract[d].sent
      /\ contract[d].act = "INVITE" => contract[d].due # Never
      /\ contract[d].sent \in Stamps
  BY <1>3, WaitingStamp DEF OfferInv, Dealings, Offers, WaitingIsAccounted
<1>5. contract[d].staff \notin StaffOf(R) \union {s}
  <2>1. contract[d].st \in InProgress
    BY <1>3 DEF Waits, InProgress
  <2>2. contract[d].staff # s
    BY <1>1, <1>2, <2>1
  <2>3. \A e \in R : contract[e].staff # contract[d].staff
    BY <1>1, <1>2, <2>1 DEF OfferInv, Dealings, Rules, OneInProgressPerPhone
  <2> QED
    BY <2>2, <2>3 DEF StaffOf
<1>6. LinkOf(contract[d].sent, d) /\ inv[contract[d].sent].st = "SENT" =>
        inv'[contract[d].sent].st = "SENT"
  BY <1>4, <1>5 DEF LinkOf
<1>7. GotOutOrUsable(contract[d].sent)'
  BY <1>3, <1>6, ClaimStands
<1> QED
  BY <1>3, <1>4, <1>7

\* A save that sends nothing: contract c is a draft, or signed on paper.
LEMMA SaveOnlyKeepsDealings ==
  ASSUME OfferInv, NEW c \in Contracts, NEW s \in Staff, NEW R \in SUBSET Contracts,
         NEW row, NEW log, NEW rec, SaveFits(c, s, R, row, rec), ~Waits(c),
         row.st \in {"DRAFT", "SIGNED"}, row.sent \in {contract[c].sent, Never},
         log.last = row.st, log.by \in {history[c].by, Never},
         Replace(R, c, row, log, s, rec), NoSend(R), UNCHANGED <<account, out, lost, lapsed>>
  PROVE  Dealings'
<1>1. /\ c \notin R /\ row.staff = s /\ (contract[c].st = "NONE" \/ (Exists(c) /\ contract[c].staff = s))
      /\ \A d \in R : contract[d].st \in InProgress
      /\ \A d \in Contracts \ {c} : contract[d].st \in InProgress /\ contract[d].staff = s => d \in R
  BY DEF SaveFits
<1>2. inv' = Expire(StaffOf(R)) /\ pending' = pending /\ stamps' = stamps
  BY DEF NoSend
<1>3. /\ \A m \in Stamps : inv[m].staff \notin StaffOf(R) => inv'[m] = inv[m]
      /\ \A m \in Stamps : inv'[m].st = "SENT" =>
           inv'[m] = inv[m] /\ inv[m].st = "SENT" /\ inv[m].staff \notin StaffOf(R)
      /\ LinksEnd
  BY <1>2, ExpireEnds DEF OfferInv
<1>4. /\ contract'[c] = row /\ history'[c] = log
      /\ \A d \in Contracts \ {c} : d \notin R => contract'[d] = contract[d] /\ history'[d] = history[d]
      /\ \A d \in R :
           /\ contract'[d].st \in {"GONE", "ENDED"} /\ contract'[d].sent \in {contract[d].sent, Never}
           /\ history'[d].by = Never
           /\ contract'[d].st = "ENDED" => contract'[d].staff = contract[d].staff
  BY <1>1, ReplaceRows DEF OfferInv
\* A link of the record itself would belong to a contract in progress, which is replaced.
<1>5. \A m \in Stamps : inv[m].st = "SENT" /\ inv[m].staff = s => s \in StaffOf(R)
  <2> SUFFICES ASSUME NEW m \in Stamps, inv[m].st = "SENT", inv[m].staff = s
               PROVE  s \in StaffOf(R)
    OBVIOUS
  <2>1. PICK d \in Contracts : LinkOf(m, d)
    BY LinkContract
  <2>2. d # c /\ contract[d].st \in InProgress /\ contract[d].staff = s
    BY <2>1 DEF LinkOf, Waits, InProgress
  <2> QED
    BY <1>1, <2>2 DEF StaffOf
<1>6. Rules'
  <2>1. \A t \in Staff \ {s} : Live(t)' \subseteq Live(t)
    BY <1>3 DEF Live
  <2> QED
    BY <2>1, ReplaceKeepsRules
<1>7. Sends'
  <2>1. ContractsGoOn
    <3> SUFFICES ASSUME NEW d \in Contracts
                 PROVE  /\ contract[d].st # "NONE" => contract'[d].st # "NONE"
                        /\ contract'[d].st \in Statuses /\ contract[d].st # "NONE" =>
                             contract[d].st \in Statuses /\ contract'[d].staff = contract[d].staff
                        /\ Waits(d)' => Waits(d) /\ history'[d] = history[d]
                        /\ history'[d].by \in {history[d].by, Never}
      BY DEF ContractsGoOn, Exists
    <3>1. CASE d = c
      BY <1>1, <1>4, <3>1 DEF Waits, Exists
    <3>2. CASE d \in R
      BY <1>1, <1>4, <3>2 DEF Waits, InProgress, Statuses
    <3>3. CASE d # c /\ d \notin R
      BY <1>4, <3>3 DEF Waits
    <3> QED
      BY <3>1, <3>2, <3>3
  <2>2. LinksGoOn
    BY <1>3 DEF LinksEnd, LinksGoOn
  <2>3. \A d \in Contracts : contract'[d].sent \in {contract[d].sent, Never}
    BY <1>4
  <2>4. stamps' \in Int /\ stamps <= stamps'
    BY <1>2, Numbers DEF OfferInv
  <2> QED
    BY <1>2, <2>1, <2>2, <2>3, <2>4, OthersKeepSends DEF OfferInv, Dealings
<1>8. LinksAreOffers'
  <2> SUFFICES ASSUME NEW m \in Stamps, inv'[m].st = "SENT"
               PROVE  /\ \E d \in Contracts : LinkOf(m, d)'
                      /\ staff'[inv'[m].staff].join = "INVITED"
                      /\ EmployedAt(staff[inv[m].staff].phone)' = {}
                      /\ staff'[inv'[m].staff].cand =
                           IF inv'[m].kind = "INVITE" THEN NoOne ELSE staff'[inv'[m].staff].phone
    BY DEF LinksAreOffers
  <2>1. inv'[m] = inv[m] /\ inv[m].st = "SENT" /\ inv[m].staff \notin StaffOf(R) \union {s}
    BY <1>3, <1>5
  <2> QED
    BY <2>1, OtherOffers
<1>9. WaitingIsAccounted'
  <2> SUFFICES ASSUME NEW d \in Contracts, Waits(d)'
               PROVE  /\ contract'[d].sent # Never /\ history'[d].by <= contract'[d].sent
                      /\ GotOutOrUsable(contract[d].sent)'
                      /\ contract'[d].act = "INVITE" => contract'[d].due # Never
    BY DEF WaitingIsAccounted
  <2>1. d # c
    BY <1>4 DEF Waits
  <2> QED
    BY <1>3, <2>1, OtherClaims
<1>10. LinksAreAccounted'
  BY <1>2, <1>3 DEF OfferInv, Dealings, Offers, LinksAreAccounted, LinksEnd, InFlight
<1> QED
  BY <1>6, <1>7, <1>8, <1>9, <1>10 DEF Dealings, Offers

-----------------------------------------------------------------------------
(* Sends                                                                   *)

\* The rows and the memory that a send writes.
SendFits(c, s, row, log, rec, channel, earlier, moved) ==
  /\ row.sent = stamps + 1 /\ log.last = row.st
  /\ IF moved THEN log.by = stamps + 1 ELSE log = history[c]
  /\ IF channel = "APP" THEN row.st = "PENDING_SIGNATURE"
     ELSE /\ row.st = "PENDING_SEND" /\ row.act = channel
          /\ channel = "INVITE" => row.due # Never
          /\ rec.join = "INVITED" /\ EmployedAt(rec.phone) = {}
          /\ rec.cand = IF channel = "INVITE" THEN NoOne ELSE rec.phone
          /\ contract[c].st \in {"NONE", "DRAFT", "PENDING_SEND", "REJECTED", "EXPIRED"}
          /\ earlier.st = contract[c].st /\ earlier.sent \in {contract[c].sent, Never}
          /\ moved <=> contract[c].st # "PENDING_SEND"
          /\ Exists(c) => earlier = BeforeOf(c, s)

\* What the send adds to the invitations and to the work of dispatch.
LEMMA SendRows ==
  ASSUME OfferInv, NEW c \in Contracts, NEW s \in Staff, NEW R \in SUBSET Contracts,
         NEW channel \in {"APP", "INVITE", "AFFILIATION"}, NEW earlier, NEW moved, NEW phoneChanged,
         Prepare(c, s, R, channel, earlier, moved, phoneChanged)
  PROVE  /\ stamps' = stamps + 1 /\ stamps' \in Stamps
         /\ \A m \in Stamps : inv[m].st # "NONE" => m <= stamps /\ m # stamps'
         /\ \A m \in Stamps : m # stamps' /\ inv[m].staff \notin StaffOf(R) \union {s} =>
              inv'[m] = inv[m]
         /\ \A m \in Stamps : m # stamps' /\ inv'[m].st = "SENT" =>
              inv'[m] = inv[m] /\ inv[m].st = "SENT" /\ inv[m].staff \notin StaffOf(R) \union {s}
         /\ \A m \in Stamps : m # stamps' =>
              \/ inv'[m] = inv[m]
              \/ inv[m].st = "SENT" /\ inv'[m].st = "EXPIRED" /\ inv'[m].kind = inv[m].kind
         /\ channel = "APP" => pending' = pending /\ inv'[stamps'].st = inv[stamps'].st
         /\ channel # "APP" =>
              /\ inv'[stamps'].st = "SENT" /\ inv'[stamps'].staff = s /\ inv'[stamps'].kind = channel
              /\ \E q \in pending' :
                   /\ pending' = pending \union {q}
                   /\ q.send = stamps' /\ q.contract = c /\ q.staff = s /\ q.kind = channel
                   /\ q.before = earlier /\ q.moved = moved /\ q.replaced = (R # {})
                   /\ q.expired = IF s \in StaffOf(R) THEN {} ELSE Live(s)
<1> DEFINE n == stamps + 1
           closed == Expire(StaffOf(R) \union {s})
<1>1. n \in Stamps /\ stamps' = n /\ stamps \in Int
  BY Numbers, MaxStampsAssumption DEF OfferInv, Prepare, Stamps
<1>2. \A m \in Stamps : inv[m].st # "NONE" => m <= stamps /\ m # n
  BY <1>1, Numbers DEF OfferInv, IInv, LinksInOrder, LinksAreStamped
<1>3. inv \in [Stamps -> InvitationRow]
  BY DEF OfferInv, IInv, TypeOK
<1>4. \A m \in Stamps : closed[m] = IF inv[m].st = "SENT" /\ inv[m].staff \in StaffOf(R) \union {s}
                                    THEN [inv[m] EXCEPT !.st = "EXPIRED"] ELSE inv[m]
  BY DEF Expire
<1>5. \A i \in InvitationRow :
        [i EXCEPT !.st = "EXPIRED"].st = "EXPIRED" /\ [i EXCEPT !.st = "EXPIRED"].kind = i.kind
  BY DEF InvitationRow
<1>6. \A m \in Stamps :
        /\ inv[m].staff \notin StaffOf(R) \union {s} => closed[m] = inv[m]
        /\ closed[m].st = "SENT" =>
             closed[m] = inv[m] /\ inv[m].st = "SENT" /\ inv[m].staff \notin StaffOf(R) \union {s}
        /\ \/ closed[m] = inv[m]
           \/ inv[m].st = "SENT" /\ closed[m].st = "EXPIRED" /\ closed[m].kind = inv[m].kind
  <2> TAKE m \in Stamps
  <2>1. inv[m] \in InvitationRow
    BY <1>3
  <2>2. CASE inv[m].st = "SENT" /\ inv[m].staff \in StaffOf(R) \union {s}
    <3>1. closed[m] = [inv[m] EXCEPT !.st = "EXPIRED"]
      BY <1>4, <2>2
    <3> QED
      BY <1>5, <2>1, <2>2, <3>1
  <2>3. CASE ~(inv[m].st = "SENT" /\ inv[m].staff \in StaffOf(R) \union {s})
    <3>1. closed[m] = inv[m]
      BY <1>4, <2>3
    <3> QED
      BY <2>3, <3>1
  <2> QED
    BY <2>2, <2>3
<1>7. DOMAIN closed = Stamps
  BY DEF Expire
<1> HIDE DEF closed
<1>8. CASE channel = "APP"
  <2>1. inv' = closed /\ pending' = pending
    BY <1>8 DEF Prepare, closed
  <2>2. inv[n].st = "NONE"
    BY <1>1, <1>2
  <2> QED
    BY <1>1, <1>2, <1>6, <1>8, <2>1, <2>2
<1>9. CASE channel # "APP"
  <2> DEFINE q == [send |-> n, stage |-> "committed", contract |-> c, staff |-> s,
                   kind |-> channel, before |-> earlier, moved |-> moved,
                   phoneChanged |-> phoneChanged, replaced |-> R # {},
                   expired |-> IF s \in StaffOf(R) THEN {} ELSE Live(s)]
  <2>1. /\ inv' = [closed EXCEPT ![n] = [st |-> "SENT", staff |-> s, kind |-> channel]]
        /\ pending' = pending \union {q}
    BY <1>9 DEF Prepare, closed
  <2>2. /\ inv'[n].st = "SENT" /\ inv'[n].staff = s /\ inv'[n].kind = channel
        /\ \A m \in Stamps : m # n => inv'[m] = closed[m]
    BY <1>1, <1>7, <2>1
  <2>3. /\ q.send = n /\ q.contract = c /\ q.staff = s /\ q.kind = channel
        /\ q.before = earlier /\ q.moved = moved /\ q.replaced = (R # {})
        /\ q.expired = IF s \in StaffOf(R) THEN {} ELSE Live(s)
    OBVIOUS
  <2> HIDE DEF q, n
  <2>4. q \in pending'
    BY <2>1
  <2>5. stamps' = stamps + 1 /\ n = stamps'
    BY <1>1 DEF n
  <2> QED
    BY <1>1, <1>2, <1>6, <1>9, <2>1, <2>2, <2>3, <2>4, <2>5
<1> QED
  BY <1>8, <1>9

\* What the new send remembers is true of its contract.
LEMMA NewSendRemembers ==
  ASSUME OfferInv, NEW c \in Contracts, NEW s \in Staff, NEW R \in SUBSET Contracts,
         NEW row, NEW log, NEW rec, NEW channel \in {"INVITE", "AFFILIATION"}, NEW earlier,
         NEW moved \in BOOLEAN, SaveFits(c, s, R, row, rec),
         SendFits(c, s, row, log, rec, channel, earlier, moved),
         contract'[c] = row, history'[c] = log, stamps' = stamps + 1, stamps' \in Stamps,
         inv'[stamps'].kind = channel,
         \A m \in Stamps : m # stamps' =>
              \/ inv'[m] = inv[m]
              \/ inv[m].st = "SENT" /\ inv'[m].st = "EXPIRED" /\ inv'[m].kind = inv[m].kind,
         \A m \in Stamps : inv[m].st # "NONE" => m # stamps',
         NEW q, q.send = stamps', q.contract = c, q.staff = s, q.kind = channel, q.before = earlier,
         q.moved = moved, q.replaced = (R # {}),
         q.expired = IF s \in StaffOf(R) THEN {} ELSE Live(s)
  PROVE  Remembers(q)' /\ ClosedItsOwn(q)'
<1>1. /\ row.staff = s /\ (contract[c].st = "NONE" \/ (Exists(c) /\ contract[c].staff = s))
      /\ row.st = "PENDING_SEND"
      /\ \A d \in Contracts \ {c} : contract[d].st \in InProgress /\ contract[d].staff = s => d \in R
  BY DEF SaveFits, SendFits
<1>2. /\ IF moved THEN log.by = stamps + 1 ELSE log = history[c]
      /\ contract[c].st \in {"NONE", "DRAFT", "PENDING_SEND", "REJECTED", "EXPIRED"}
      /\ earlier.st = contract[c].st /\ (moved <=> contract[c].st # "PENDING_SEND")
      /\ Exists(c) => earlier = BeforeOf(c, s)
  BY DEF SendFits
<1>3. contract[c].st = "PENDING_SEND" =>
        /\ earlier.act = contract[c].act /\ earlier.due = contract[c].due
        /\ earlier.sent = contract[c].sent /\ earlier.join = staff[s].join
  BY <1>2 DEF Exists, Statuses, BeforeOf
<1>4. stamps \in Int /\ stamps' \in Int
  BY Numbers DEF OfferInv
<1>5. Remembers(q)'
  <2>1. contract[c].st = "PENDING_SEND" /\ contract[c].act = "INVITE" => contract[c].due # Never
    BY DEF OfferInv, Dealings, Offers, WaitingIsAccounted, Waits
  <2>2. earlier.st = "PENDING_SEND" /\ earlier.act = "INVITE" => earlier.due # Never
    BY <1>2, <1>3, <2>1
  <2>3. contract'[c].st # "NONE" /\ contract'[c].staff = s
    BY <1>1
  <2>4. moved => stamps' <= history'[c].by
    BY <1>2, <1>4
  <2>5. moved <=> earlier.st # "PENDING_SEND"
    BY <1>2
  <2> QED
    BY <1>2, <2>2, <2>3, <2>4, <2>5 DEF Remembers, Exists
<1>6. ClosedItsOwn(q)'
  <2> SUFFICES ASSUME R = {}, NEW m \in q.expired
               PROVE  /\ earlier.st = "PENDING_SEND" /\ earlier.sent = m /\ earlier.join = "INVITED"
                      /\ inv'[m].st # "NONE" => inv'[m].kind = earlier.act
                      /\ history'[c].by <= m \/ stamps' < history'[c].by
    BY DEF ClosedItsOwn
  <2>1. m \in Stamps /\ inv[m].st = "SENT" /\ inv[m].staff = s
    BY DEF Live, StaffOf
  <2>2. PICK d \in Contracts : LinkOf(m, d)
    BY <2>1, LinkContract
  <2>3. d = c
    BY <1>1, <2>1, <2>2 DEF LinkOf, Waits, InProgress
  <2>4. contract[c].st = "PENDING_SEND" /\ contract[c].sent = m /\ contract[c].act = inv[m].kind
    BY <2>2, <2>3 DEF LinkOf, Waits
  <2>5. staff[s].join = "INVITED"
    BY <2>1, LinkContract
  <2>6. history[c].by <= m
    BY <2>4 DEF OfferInv, Dealings, Offers, WaitingIsAccounted, Waits
  <2>7. history'[c] = history[c]
    BY <1>2, <2>4
  <2> QED
    BY <1>2, <1>3, <2>1, <2>4, <2>5, <2>6, <2>7
<1> QED
  BY <1>5, <1>6

\* What every request that saves a contract and sends it has in common.
LEMMA SendKeepsDealings ==
  ASSUME OfferInv, NEW c \in Contracts, NEW s \in Staff, NEW R \in SUBSET Contracts,
         NEW row, NEW log, NEW rec, SaveFits(c, s, R, row, rec),
         NEW channel \in {"APP", "INVITE", "AFFILIATION"}, NEW earlier,
         NEW moved \in BOOLEAN, NEW phoneChanged,
         SendFits(c, s, row, log, rec, channel, earlier, moved),
         Replace(R, c, row, log, s, rec),
         Prepare(c, s, R, channel, earlier, moved, phoneChanged),
         UNCHANGED <<account, out, lost, lapsed>>
  PROVE  Dealings'
<1> DEFINE n == stamps'
<1>1. /\ c \notin R /\ row.staff = s /\ (contract[c].st = "NONE" \/ (Exists(c) /\ contract[c].staff = s))
      /\ \A d \in R : contract[d].st \in InProgress
  BY DEF SaveFits
<1>2. /\ row.sent = stamps + 1 /\ log.last = row.st
      /\ IF moved THEN log.by = stamps + 1 ELSE log = history[c]
      /\ channel = "APP" => row.st = "PENDING_SIGNATURE"
      /\ channel # "APP" =>
           /\ row.st = "PENDING_SEND" /\ row.act = channel
           /\ channel = "INVITE" => row.due # Never
           /\ rec.join = "INVITED" /\ EmployedAt(rec.phone) = {}
           /\ rec.cand = IF channel = "INVITE" THEN NoOne ELSE rec.phone
           /\ earlier.sent \in {contract[c].sent, Never}
           /\ moved <=> contract[c].st # "PENDING_SEND"
  BY DEF SendFits
<1>20. /\ stamps' = stamps + 1 /\ stamps' \in Stamps
       /\ \A m \in Stamps : inv[m].st # "NONE" => m <= stamps /\ m # stamps'
       /\ \A m \in Stamps : m # stamps' /\ inv[m].staff \notin StaffOf(R) \union {s} =>
            inv'[m] = inv[m]
       /\ \A m \in Stamps : m # stamps' /\ inv'[m].st = "SENT" =>
            inv'[m] = inv[m] /\ inv[m].st = "SENT" /\ inv[m].staff \notin StaffOf(R) \union {s}
       /\ \A m \in Stamps : m # stamps' =>
            \/ inv'[m] = inv[m]
            \/ inv[m].st = "SENT" /\ inv'[m].st = "EXPIRED" /\ inv'[m].kind = inv[m].kind
       /\ channel = "APP" => pending' = pending /\ inv'[stamps'].st = inv[stamps'].st
       /\ channel # "APP" =>
            /\ inv'[stamps'].st = "SENT" /\ inv'[stamps'].staff = s /\ inv'[stamps'].kind = channel
            /\ \E q \in pending' :
                 /\ pending' = pending \union {q}
                 /\ q.send = stamps' /\ q.contract = c /\ q.staff = s /\ q.kind = channel
                 /\ q.before = earlier /\ q.moved = moved /\ q.replaced = (R # {})
                 /\ q.expired = IF s \in StaffOf(R) THEN {} ELSE Live(s)
  BY ONLY OfferInv, c \in Contracts, s \in Staff, R \in SUBSET Contracts,
          channel \in {"APP", "INVITE", "AFFILIATION"},
          Prepare(c, s, R, channel, earlier, moved, phoneChanged), SendRows
<1>3. /\ stamps' = stamps + 1 /\ n \in Stamps
      /\ \A m \in Stamps : inv[m].st # "NONE" => m <= stamps /\ m # n
      /\ \A m \in Stamps : m # n /\ inv[m].staff \notin StaffOf(R) \union {s} => inv'[m] = inv[m]
      /\ \A m \in Stamps : m # n /\ inv'[m].st = "SENT" =>
           inv'[m] = inv[m] /\ inv[m].st = "SENT" /\ inv[m].staff \notin StaffOf(R) \union {s}
      /\ \A m \in Stamps : m # n =>
           \/ inv'[m] = inv[m]
           \/ inv[m].st = "SENT" /\ inv'[m].st = "EXPIRED" /\ inv'[m].kind = inv[m].kind
      /\ channel = "APP" => pending' = pending /\ inv'[n].st = inv[n].st
      /\ channel # "APP" => inv'[n].st = "SENT" /\ inv'[n].staff = s /\ inv'[n].kind = channel
  BY <1>20
<1>4. channel # "APP" =>
        \E q \in pending' :
          /\ pending' = pending \union {q}
          /\ q.send = n /\ q.contract = c /\ q.staff = s /\ q.kind = channel
          /\ q.before = earlier /\ q.moved = moved /\ q.replaced = (R # {})
          /\ q.expired = IF s \in StaffOf(R) THEN {} ELSE Live(s)
  BY <1>20
<1>5. /\ contract'[c] = row /\ history'[c] = log /\ staff'[s] = rec
      /\ \A d \in Contracts \ {c} : d \notin R => contract'[d] = contract[d] /\ history'[d] = history[d]
      /\ \A d \in R :
           /\ contract'[d].st \in {"GONE", "ENDED"} /\ contract'[d].sent \in {contract[d].sent, Never}
           /\ history'[d].by = Never
           /\ contract'[d].st = "ENDED" => contract'[d].staff = contract[d].staff
  BY <1>1, ReplaceRows DEF OfferInv
<1>6. /\ stamps \in Int /\ n \in Int /\ lapsed \in Int /\ 0 <= stamps /\ Never = 0 /\ n = stamps + 1
      /\ \A m \in Stamps : m \in Int /\ m # Never
      /\ out \subseteq Stamps /\ lost \subseteq Stamps
  BY <1>3, Numbers DEF OfferInv, IInv, TypeOK
<1>7. pending \subseteq pending'
  BY <1>3, <1>4
<1> HIDE DEF n
<1>8. Rules'
  <2>1. \A t \in Staff \ {s} : Live(t)' \subseteq Live(t)
    <3> SUFFICES ASSUME NEW t \in Staff \ {s}, NEW m \in Stamps, inv'[m].st = "SENT", inv'[m].staff = t
                 PROVE  inv[m].st = "SENT" /\ inv[m].staff = t
      BY DEF Live
    <3>1. m # n
      BY <1>3
    <3> QED
      BY <1>3, <3>1
  <2> QED
    BY <1>2, <2>1, ReplaceKeepsRules
<1>9. SendsAreOpen'
  <2>1. /\ SendsAreOpen /\ \A p \in pending : p.send \in Int
    BY SendFacts DEF OfferInv, Dealings, Sends
  <2>2. \A m \in out \union lost : m <= stamps /\ m \in Int /\ m # n
    BY <1>6, <2>1 DEF SendsAreOpen
  <2>3. \A p \in pending' : lapsed < p.send /\ p.send \notin out \union lost
    <3> TAKE p \in pending'
    <3>1. CASE p \in pending
      BY <2>1, <3>1 DEF SendsAreOpen
    <3>2. CASE p \notin pending
      <4>1. p.send = n
        BY <1>3, <1>4, <3>2
      <4>2. lapsed < n
        BY <1>6, <2>1 DEF SendsAreOpen
      <4> QED
        BY <2>2, <4>1, <4>2
    <3> QED
      BY <3>1, <3>2
  <2>4. lapsed <= stamps' /\ \A m \in out \union lost : m <= stamps'
    BY <1>3, <1>6, <2>1, <2>2 DEF SendsAreOpen
  <2> QED
    BY <2>3, <2>4 DEF SendsAreOpen
<1>10. StampsAreOwned'
  <2>1. \A m \in Stamps : \A d \in Contracts : Owns(d, m) => m <= stamps /\ m # n
    BY <1>6 DEF OfferInv, Dealings, Sends, StampsAreOwned
  <2>2. ASSUME NEW m \in Stamps, NEW d \in Contracts, Owns(d, m)'
        PROVE  Owns(d, m) \/ (d = c /\ m = n)
    <3>1. CASE contract'[d].sent = m
      <4>1. CASE d = c
        BY <1>2, <1>5, <1>6, <3>1, <4>1
      <4>2. CASE d # c
        BY <1>5, <1>6, <3>1, <4>2 DEF Owns
      <4> QED
        BY <4>1, <4>2
    <3>2. ASSUME NEW p \in pending', p.contract = d, m \in {p.send, p.before.sent}
          PROVE  Owns(d, m) \/ (d = c /\ m = n)
      <4>1. CASE p \in pending
        BY <3>2, <4>1 DEF Owns
      <4>2. CASE p \notin pending
        <5>1. channel # "APP" /\ p.send = n /\ p.contract = c /\ p.before = earlier
          BY <1>3, <1>4, <4>2
        <5>2. earlier.sent = contract[c].sent \/ earlier.sent = Never
          BY <1>2, <5>1
        <5> QED
          BY <1>6, <3>2, <5>1, <5>2 DEF Owns
      <4> QED
        BY <4>1, <4>2
    <3> QED
      BY <2>2, <3>1, <3>2 DEF Owns
  <2>3. n <= stamps'
    BY <1>6 DEF n
  <2>4. \A m \in Stamps : m <= stamps => m <= stamps'
    <3>1. stamps' = stamps + 1
      BY <1>20
    <3> QED
      BY ONLY <1>6, <3>1
  <2> QED
    BY <2>1, <2>2, <2>3, <2>4 DEF OfferInv, Dealings, Sends, StampsAreOwned
<1>11. SendsRemember'
  <2>1. ContractsGoOn
    <3> SUFFICES ASSUME NEW d \in Contracts
                 PROVE  /\ contract[d].st # "NONE" => contract'[d].st # "NONE"
                        /\ contract'[d].st \in Statuses /\ contract[d].st # "NONE" =>
                             contract[d].st \in Statuses /\ contract'[d].staff = contract[d].staff
                        /\ Waits(d)' => (Waits(d) /\ history'[d] = history[d]) \/ history'[d].by = stamps + 1
                        /\ history'[d].by \in {history[d].by, Never, stamps + 1}
      BY DEF ContractsGoOn, Exists
    <3>1. CASE d = c
      <4>1. row.st # "NONE"
        BY <1>2
      <4>2. Waits(c)' => moved \/ (Waits(c) /\ history'[c] = history[c])
        BY <1>2, <1>5 DEF Waits
      <4> QED
        BY <1>1, <1>2, <1>5, <3>1, <4>1, <4>2 DEF Exists
    <3>2. CASE d \in R
      BY <1>1, <1>5, <3>2 DEF Waits, InProgress, Statuses
    <3>3. CASE d # c /\ d \notin R
      BY <1>5, <3>3 DEF Waits
    <3> QED
      BY <3>1, <3>2, <3>3
  <2>2. LinksGoOn
    <3> SUFFICES ASSUME NEW m \in Stamps, m <= stamps, inv'[m].st # "NONE"
                 PROVE  inv[m].st # "NONE" /\ inv'[m].kind = inv[m].kind
      BY DEF LinksGoOn
    <3>1. m # n
      BY <1>6
    <3> QED
      BY <1>3, <3>1
  <2> SUFFICES ASSUME NEW p \in pending'
               PROVE  Remembers(p)' /\ ClosedItsOwn(p)'
    BY DEF SendsRemember
  <2>3. CASE p \in pending
    <3>1. Remembers(p) /\ ClosedItsOwn(p)
      BY <2>3 DEF OfferInv, Dealings, Sends, SendsRemember
    <3> QED
      BY <2>1, <2>2, <2>3, <3>1, RememberedStill DEF OfferInv
  <2>4. CASE p \notin pending
    <3>1. /\ channel \in {"INVITE", "AFFILIATION"}
          /\ p.send = stamps' /\ p.contract = c /\ p.staff = s /\ p.kind = channel
          /\ p.before = earlier /\ p.moved = moved /\ p.replaced = (R # {})
          /\ p.expired = IF s \in StaffOf(R) THEN {} ELSE Live(s)
      BY <1>3, <1>4, <2>4 DEF n
    <3>2. /\ stamps' = stamps + 1 /\ stamps' \in Stamps /\ inv'[stamps'].kind = channel
          /\ \A m \in Stamps : m # stamps' =>
               \/ inv'[m] = inv[m]
               \/ inv[m].st = "SENT" /\ inv'[m].st = "EXPIRED" /\ inv'[m].kind = inv[m].kind
          /\ \A m \in Stamps : inv[m].st # "NONE" => m # stamps'
      BY <1>3, <3>1 DEF n
    <3>3. contract'[c] = row /\ history'[c] = log
      BY <1>5
    <3> QED
      BY <3>1, <3>2, <3>3, NewSendRemembers
  <2> QED
    BY <2>3, <2>4
<1>12. LinksAreOffers'
  <2> SUFFICES ASSUME NEW m \in Stamps, inv'[m].st = "SENT"
               PROVE  /\ \E d \in Contracts : LinkOf(m, d)'
                      /\ staff'[inv'[m].staff].join = "INVITED"
                      /\ EmployedAt(staff[inv[m].staff].phone)' = {}
                      /\ staff'[inv'[m].staff].cand =
                           IF inv'[m].kind = "INVITE" THEN NoOne ELSE staff'[inv'[m].staff].phone
    BY DEF LinksAreOffers
  <2>1. CASE m # n
    <3>1. inv'[m] = inv[m] /\ inv[m].st = "SENT" /\ inv[m].staff \notin StaffOf(R) \union {s}
      BY <1>3, <2>1
    <3> QED
      BY <3>1, OtherOffers
  <2>2. CASE m = n
    <3>1. channel # "APP"
      BY <1>3, <2>2
    <3>2. inv'[m].staff = s /\ inv'[m].kind = channel
      BY <1>3, <2>2, <3>1
    <3>3. LinkOf(m, c)'
      BY <1>1, <1>2, <1>5, <1>6, <2>2, <3>1, <3>2 DEF LinkOf, Waits
    <3>4. EmployedAt(rec.phone) = {} /\ rec.join = "INVITED"
      BY <1>2, <3>1
    <3>5. \A t \in Staff : staff'[t].join = "JOINED" => staff'[t] = staff[t]
      BY <1>1, <1>5, <3>4, ReplaceRows DEF OfferInv
    <3>6. EmployedAt(staff[inv[m].staff].phone)' = {}
      BY <1>5, <3>2, <3>4, <3>5 DEF EmployedAt, Joined
    <3> QED
      BY <1>2, <1>5, <3>1, <3>2, <3>3, <3>6
  <2> QED
    BY <2>1, <2>2
<1>13. WaitingIsAccounted'
  <2> SUFFICES ASSUME NEW d \in Contracts, Waits(d)'
               PROVE  /\ contract'[d].sent # Never /\ history'[d].by <= contract'[d].sent
                      /\ GotOutOrUsable(contract[d].sent)'
                      /\ contract'[d].act = "INVITE" => contract'[d].due # Never
    BY DEF WaitingIsAccounted
  <2>1. CASE d = c
    <3>1. channel # "APP"
      BY <1>2, <1>5, <2>1 DEF Waits
    <3>2. contract'[c].sent = n /\ n # Never /\ GotOutOrUsable(contract[c].sent)'
      BY <1>2, <1>3, <1>5, <1>6, <3>1 DEF GotOutOrUsable
    <3>3. history'[c].by <= n
      <4>1. CASE moved
        BY <1>2, <1>5, <1>6, <4>1
      <4>2. CASE ~moved
        <5>1. Waits(c) /\ history'[c] = history[c]
          BY <1>2, <1>5, <3>1, <4>2 DEF Waits
        <5> QED
          BY <1>6, <5>1, WaitingStamp
      <4> QED
        BY <4>1, <4>2
    <3> QED
      BY <1>2, <1>5, <2>1, <3>1, <3>2, <3>3
  <2>2. CASE d # c
    <3>1. \A m \in Stamps : inv[m].st = "SENT" /\ inv[m].staff \notin StaffOf(R) \union {s} =>
            inv'[m] = inv[m]
      BY <1>3
    <3> QED
      BY <2>2, <3>1, OtherClaims
  <2> QED
    BY <2>1, <2>2
<1>14. LinksAreAccounted'
  <2> SUFFICES ASSUME NEW m \in Stamps, inv'[m].st \in {"SENT", "EXPIRED", "UNDER_AGE"}
               PROVE  m \in out \union lost \union InFlight'
    BY DEF LinksAreAccounted
  <2>1. InFlight \subseteq InFlight' /\ (channel # "APP" => n \in InFlight')
    BY <1>4, <1>7 DEF InFlight
  <2>2. inv[m].st \in {"SENT", "EXPIRED", "UNDER_AGE"} \/ (m = n /\ channel # "APP")
    BY <1>3
  <2> QED
    BY <2>1, <2>2 DEF OfferInv, Dealings, Offers, LinksAreAccounted
<1> QED
  BY <1>8, <1>9, <1>10, <1>11, <1>12, <1>13, <1>14 DEF Dealings, Sends, Offers

-----------------------------------------------------------------------------
(* The requests that save and send                                         *)

\* The contract's columns after prepare.
LEMMA SentRow ==
  ASSUME NEW row \in ContractRow, NEW status, NEW act, NEW channel
  PROVE  /\ Sent(row, status, act, channel).st = status
         /\ Sent(row, status, act, channel).act = act
         /\ Sent(row, status, act, channel).sent = stamps + 1
         /\ Sent(row, status, act, channel).staff = row.staff
         /\ channel # "AFFILIATION" => Sent(row, status, act, channel).due = stamps + 1
BY DEF Sent, ContractRow

\* An applicant's record after prepare: offered, by the one judgement of its number.
LEMMA OfferedRecord ==
  ASSUME NEW rec \in StaffRow, rec.join \in {"DRAFT", "INVITED"},
         NEW channel \in {"INVITE", "AFFILIATION"},
         rec.cand = IF channel = "INVITE" THEN NoOne ELSE rec.phone
  PROVE  LET to == Offered(rec, channel, rec.join)
         IN  to.join = "INVITED" /\ to.phone = rec.phone /\ to.leave = rec.leave
             /\ to.cand = IF channel = "INVITE" THEN NoOne ELSE rec.phone
<1>1. CASE channel = "AFFILIATION"
  BY <1>1 DEF Offered, StaffRow
<1>2. CASE channel = "INVITE"
  BY <1>2 DEF Offered, StaffRow
<1> QED
  BY <1>1, <1>2

\* A request that writes contract c by this one judgement and sends it.
LEMMA SendingKeepsDealings ==
  ASSUME OfferInv, NEW c \in Contracts, NEW s \in Staff, NEW R \in SUBSET Contracts, NEW ph,
         NEW row \in ContractRow, row.staff = s, NEW log, NEW rec \in StaffRow,
         NEW act \in DraftActions, NEW channel, NEW status, NEW join, NEW earlier,
         NEW moved \in BOOLEAN, NEW phoneChanged,
         channel = ChannelOf(Joined(s), act), status = DeliveredStatusOf(Joined(s), act),
         rec.phone = ph, rec.leave # "LEFT", join = rec.join,
         Joined(s) => rec = staff[s],
         ~Joined(s) =>
           /\ act = Judged(ph) /\ EmployedAt(ph) = {}
           /\ rec.join \in {"DRAFT", "INVITED"} /\ rec.cand = JudgedCandidate(ph)
           /\ contract[c].st \in {"NONE", "DRAFT", "PENDING_SEND", "REJECTED", "EXPIRED"}
           /\ moved <=> contract[c].st # "PENDING_SEND",
         c \notin R, \A d \in R : contract[d].st \in InProgress,
         \A d \in Contracts \ {c} :
           contract[d].st \in InProgress
           /\ (contract[d].staff = s \/ staff[contract[d].staff].phone = ph) => d \in R,
         contract[c].st = "NONE" \/ (Exists(c) /\ contract[c].staff = s),
         log.last = status, IF moved THEN log.by = stamps + 1 ELSE log = history[c],
         earlier.st = contract[c].st, earlier.sent \in {contract[c].sent, Never},
         Exists(c) => earlier = BeforeOf(c, s),
         Replace(R, c, Sent(row, status, act, channel), log, s, Offered(rec, channel, join)),
         Prepare(c, s, R, channel, earlier, moved, phoneChanged),
         UNCHANGED <<account, out, lost, lapsed>>
  PROVE  Dealings'
<1> DEFINE to == Sent(row, status, act, channel)
           offer == Offered(rec, channel, join)
<1>1. /\ to.st = status /\ to.act = act /\ to.sent = stamps + 1 /\ to.staff = s
      /\ channel # "AFFILIATION" => to.due = stamps + 1
  BY SentRow
<1>2. stamps + 1 # Never
  BY Numbers DEF OfferInv
<1>3. channel \in {"APP", "INVITE", "AFFILIATION"}
  BY DEF ChannelOf, DraftActions
<1>4. CASE Joined(s)
  <2>1. channel = "APP" /\ status = "PENDING_SIGNATURE"
    BY <1>4 DEF ChannelOf, DeliveredStatusOf
  <2>2. offer = rec /\ rec = staff[s]
    BY <1>4, <2>1 DEF Offered
  <2> HIDE DEF to, offer
  <2>3. SaveFits(c, s, R, to, offer)
    BY <1>1, <1>2, <1>4, <2>1, <2>2 DEF SaveFits
  <2>4. SendFits(c, s, to, log, offer, channel, earlier, moved)
    BY <1>1, <2>1 DEF SendFits
  <2>5. /\ Replace(R, c, to, log, s, offer) /\ Prepare(c, s, R, channel, earlier, moved, phoneChanged)
        /\ UNCHANGED <<account, out, lost, lapsed>>
    BY DEF to, offer
  <2> QED
    BY ONLY OfferInv, c \in Contracts, s \in Staff, R \in SUBSET Contracts, moved \in BOOLEAN,
            <1>3, <2>3, <2>4, <2>5, SendKeepsDealings
<1>5. CASE ~Joined(s)
  <2>1. act \in {"INVITE", "AFFILIATION"} /\ channel = act /\ status = "PENDING_SEND"
    BY <1>5 DEF ChannelOf, DeliveredStatusOf, Judged
  <2>2. rec.cand = IF channel = "INVITE" THEN NoOne ELSE rec.phone
    BY <1>5, <2>1 DEF Judged, JudgedCandidate
  <2>3. /\ offer.join = "INVITED" /\ offer.phone = ph /\ offer.leave # "LEFT"
        /\ offer.cand = IF channel = "INVITE" THEN NoOne ELSE ph
    BY <1>5, <2>1, <2>2, OfferedRecord
  <2>4. EmployedAt(ph) = {}
    BY <1>5
  <2> HIDE DEF to, offer
  <2>5. SaveFits(c, s, R, to, offer)
    BY <1>1, <1>5, <2>1, <2>3 DEF SaveFits
  <2>6. SendFits(c, s, to, log, offer, channel, earlier, moved)
    BY <1>1, <1>2, <1>5, <2>1, <2>3, <2>4 DEF SendFits
  <2>7. /\ Replace(R, c, to, log, s, offer) /\ Prepare(c, s, R, channel, earlier, moved, phoneChanged)
        /\ UNCHANGED <<account, out, lost, lapsed>>
    BY DEF to, offer
  <2> QED
    BY ONLY OfferInv, c \in Contracts, s \in Staff, R \in SUBSET Contracts, moved \in BOOLEAN,
            <1>3, <2>5, <2>6, <2>7, SendKeepsDealings
<1> QED
  BY <1>4, <1>5

\* A contract in progress is of somebody who has not left, the only one in progress
\* of the record and under its number, and waits for a signature only of an employee.
LEMMA RecordInProgress ==
  ASSUME OfferInv, NEW c \in Contracts, contract[c].st \in InProgress
  PROVE  /\ contract[c].staff \in Staff /\ staff[contract[c].staff].leave # "LEFT"
         /\ \A d \in Contracts \ {c} :
              contract[d].st \in InProgress =>
                /\ contract[d].staff # contract[c].staff
                /\ staff[contract[d].staff].phone # staff[contract[c].staff].phone
         /\ contract[c].st \in {"PENDING_SIGNATURE", "CORRECTION_REQUESTED"} =>
              Joined(contract[c].staff)
<1>1. contract[c].staff \in Staff
  BY DEF OfferInv, IInv, RecordsExist, Exists, InProgress, Statuses
<1> QED
  BY <1>1 DEF OfferInv, Dealings, Rules, LeaverHoldsNothing, OneInProgressPerPhone, SigningIsPossible

\* A save's own row.
LEMMA InProgressAtCovers ==
  ASSUME NEW c \in Contracts, NEW ph, NEW d \in Contracts \ {c}, contract[d].st \in InProgress,
         staff[contract[d].staff].phone = ph
  PROVE  d \in InProgressAt(ph, c)
BY DEF InProgressAt

\* ContractsService.create.
LEMMA CreateKeepsDealings ==
  ASSUME OfferInv, NEW c \in Contracts, NEW s \in Staff, NEW ph \in Phones,
         NEW target \in {"DRAFT", "PENDING_SEND", "SIGNED"}, Create(c, s, ph, target)
  PROVE  Dealings'
<1> DEFINE joined == Joined(s)
           R == InProgressAt(ph, c)
           act == IF target = "DRAFT" \/ joined THEN "NONE" ELSE Judged(ph)
           cand == IF target = "DRAFT" THEN NoOne ELSE JudgedCandidate(ph)
           status == IF target = "PENDING_SEND" THEN DeliveredStatusOf(joined, act) ELSE target
           channel == ChannelOf(joined, act)
           rec == IF joined THEN staff[s]
                  ELSE IF FreshRecord(s)
                  THEN [NoRecord EXCEPT !.join = "DRAFT", !.phone = ph, !.cand = cand]
                  ELSE [staff[s] EXCEPT !.cand = cand]
           earlier == [st |-> "NONE", sent |-> Never, due |-> Never, act |-> "NONE",
                      join |-> rec.join, cand |-> staff[s].cand]
           row(renews) == [NoContract EXCEPT !.st = status, !.staff = s, !.act = act,
                                             !.renews = renews]
           join == rec.join
<1>1. act \in DraftActions /\ cand \in Phones \union {NoOne}
  BY JudgedType DEF DraftActions
<1>2. status \in Statuses
  BY DeliveredStatusType DEF Statuses
<1>3. R \in SUBSET Contracts /\ c \notin R /\ \A d \in R : contract[d].st \in InProgress
  BY InProgressContracts
<1>4. /\ staff[s] \in StaffRow /\ Never \in StampsOrNever /\ contract[c].st = "NONE"
      /\ FreshRecord(s) \/ ReusedRecord(s, ph) \/ RenewedRecord(s, ph)
      /\ EmployedAt(ph) \subseteq {s} /\ UNCHANGED <<account, out, lost, lapsed>>
  BY MaxStampsAssumption DEF Create, OfferInv, IInv, TypeOK, StampsOrNever, Never
<1>5. /\ rec \in StaffRow /\ rec.phone = ph /\ rec.leave # "LEFT"
      /\ joined => rec = staff[s]
      /\ ~joined => rec.join \in {"DRAFT", "INVITED"} /\ rec.cand = cand
  <2> HIDE DEF cand
  <2>1. CASE joined
    BY <1>4, <2>1 DEF Joined, FreshRecord, ReusedRecord, RenewedRecord
  <2>2. CASE ~joined /\ FreshRecord(s)
    BY <1>1, <2>2 DEF NoRecord, StaffRow
  <2>3. CASE ~joined /\ ~FreshRecord(s)
    <3>1. staff[s].join \in {"DRAFT", "INVITED"} /\ staff[s].phone = ph /\ staff[s].leave = "STAYS"
      BY <1>4, <2>3 DEF ReusedRecord, RenewedRecord
    <3> QED
      BY <1>1, <1>4, <2>3, <3>1 DEF StaffRow
  <2> QED
    BY <2>1, <2>2, <2>3
<1>6. ASSUME NEW b \in BOOLEAN
      PROVE  /\ row(b) \in ContractRow /\ row(b).staff = s /\ row(b).st = status
             /\ row(b).sent = Never
  <2> HIDE DEF status, act
  <2> QED
    BY <1>1, <1>2, <1>4 DEF NoContract, ContractRow
\* The record has no other contract in progress, or has this number.
<1>7. \A d \in Contracts \ {c} :
        contract[d].st \in InProgress
        /\ (contract[d].staff = s \/ staff[contract[d].staff].phone = ph) => d \in R
  <2> SUFFICES ASSUME NEW d \in Contracts \ {c}, contract[d].st \in InProgress, contract[d].staff = s
               PROVE  staff[s].phone = ph
    BY InProgressAtCovers
  <2>1. Registered(s)
    BY DEF OfferInv, IInv, RecordsExist, Exists, InProgress, Statuses
  <2> QED
    BY <1>4, <2>1 DEF Registered, FreshRecord, ReusedRecord, RenewedRecord
<1>8. ~joined => EmployedAt(ph) = {}
  BY <1>4 DEF EmployedAt
<1>9. PICK b \in BOOLEAN :
         IF target = "PENDING_SEND"
         THEN /\ Replace(R, c, Sent(row(b), status, act, channel),
                         Moved(NoHistory, status, stamps + 1), s, Offered(rec, channel, join))
              /\ Prepare(c, s, R, channel, earlier, TRUE, FALSE)
         ELSE /\ Replace(R, c, row(b), Moved(NoHistory, status, Never), s, rec)
              /\ NoSend(R)
  <2>1. RenewsOn(s, ph, target) \subseteq BOOLEAN
    BY DEF RenewsOn, HasSigned
  <2> QED
    BY <2>1 DEF Create
<1>10. earlier.st = contract[c].st /\ earlier.sent = Never /\ ~Exists(c)
  BY <1>4 DEF Exists, Statuses
<1>11. /\ target = "PENDING_SEND" =>
            /\ status = DeliveredStatusOf(Joined(s), act) /\ (~joined => act = Judged(ph))
       /\ target # "DRAFT" => cand = JudgedCandidate(ph)
       /\ target # "PENDING_SEND" => status \in {"DRAFT", "SIGNED"}
  OBVIOUS
<1>12. \A n : Moved(NoHistory, status, n).last = status /\ Moved(NoHistory, status, n).by = n
  BY DEF Moved
<1>13. channel = ChannelOf(Joined(s), act) /\ join = rec.join
  OBVIOUS
<1>14. joined <=> Joined(s)
  OBVIOUS
<1>15. Never \in {history[c].by, Never}
  OBVIOUS
<1> HIDE DEF joined, R, act, cand, status, channel, rec, earlier, row, join
<1>16. CASE target = "PENDING_SEND"
  <2> DEFINE yes == TRUE
             no == FALSE
             log == Moved(NoHistory, status, stamps + 1)
             base == row(b)
  <2>1. /\ Replace(R, c, Sent(base, status, act, channel), log, s, Offered(rec, channel, join))
        /\ Prepare(c, s, R, channel, earlier, yes, no)
    BY <1>9, <1>16
  <2>2. log.last = status /\ log.by = stamps + 1 /\ base \in ContractRow /\ base.staff = s
        /\ yes \in BOOLEAN /\ (IF yes THEN log.by = stamps + 1 ELSE log = history[c])
        /\ (yes <=> contract[c].st # "PENDING_SEND")
    BY <1>4, <1>6, <1>12
  <2> HIDE DEF yes, no, log, base
  <2>3. status = DeliveredStatusOf(Joined(s), act)
    BY <1>11, <1>16
  <2>4. /\ Joined(s) => rec = staff[s]
        /\ ~Joined(s) =>
           /\ act = Judged(ph) /\ EmployedAt(ph) = {}
           /\ rec.join \in {"DRAFT", "INVITED"} /\ rec.cand = JudgedCandidate(ph)
           /\ contract[c].st \in {"NONE", "DRAFT", "PENDING_SEND", "REJECTED", "EXPIRED"}
           /\ yes <=> contract[c].st # "PENDING_SEND"
    BY <1>4, <1>5, <1>8, <1>11, <1>14, <1>16, <2>2
  <2>5. /\ earlier.sent \in {contract[c].sent, Never} /\ (Exists(c) => earlier = BeforeOf(c, s))
        /\ contract[c].st = "NONE" \/ (Exists(c) /\ contract[c].staff = s)
    BY <1>4, <1>10
  <2>6. rec \in StaffRow /\ rec.phone = ph /\ rec.leave # "LEFT"
    BY <1>5
  <2>7. earlier.st = contract[c].st /\ UNCHANGED <<account, out, lost, lapsed>>
    BY <1>4, <1>10
  <2> QED
    BY ONLY OfferInv, c \in Contracts, s \in Staff, <1>1, <1>3, <1>7, <1>13, <2>1, <2>2, <2>3, <2>4,
            <2>5, <2>6, <2>7, SendingKeepsDealings
<1>17. CASE target # "PENDING_SEND"
  <2> DEFINE log == Moved(NoHistory, status, Never)
             base == row(b)
  <2>1. Replace(R, c, base, log, s, rec) /\ NoSend(R) /\ status \in {"DRAFT", "SIGNED"}
    BY <1>9, <1>11, <1>17
  <2>2. /\ log.last = status /\ log.by = Never /\ base.staff = s /\ base.st = status
        /\ base.sent = Never
    BY <1>6, <1>12
  <2> HIDE DEF log, base
  <2>3. SaveFits(c, s, R, base, rec)
    BY <1>3, <1>4, <1>5, <1>7, <1>14, <2>1, <2>2 DEF SaveFits
  <2>4. /\ ~Waits(c) /\ base.st \in {"DRAFT", "SIGNED"} /\ base.sent \in {contract[c].sent, Never}
        /\ log.last = base.st /\ log.by \in {history[c].by, Never}
        /\ UNCHANGED <<account, out, lost, lapsed>>
    BY <1>4, <2>1, <2>2 DEF Waits
  <2> QED
    BY ONLY OfferInv, c \in Contracts, s \in Staff, <1>3, <2>1, <2>3, <2>4, SaveOnlyKeepsDealings
<1> QED
  BY <1>16, <1>17

\* ContractsService.update.
LEMMA SaveKeepsDealings ==
  ASSUME OfferInv, NEW c \in Contracts, NEW ph \in Phones,
         NEW target \in {"DRAFT", "PENDING_SEND", "SIGNED"}, Save(c, ph, target)
  PROVE  Dealings'
<1> DEFINE s == contract[c].staff
           joined == Joined(s)
           correction == contract[c].st = "CORRECTION_REQUESTED"
           R == InProgressAt(ph, c)
           keeps == target # "DRAFT" /\ (correction \/ (joined /\ contract[c].renews)) /\ ph = staff[s].phone
           act == IF target = "DRAFT" THEN "NONE" ELSE IF keeps THEN contract[c].act ELSE Judged(ph)
           cand == IF target = "DRAFT" THEN NoOne
                   ELSE IF keeps THEN staff[s].cand ELSE JudgedCandidate(ph)
           status == IF target = "PENDING_SEND" THEN DeliveredStatusOf(joined, act) ELSE target
           channel == ChannelOf(joined, act)
           rec == IF joined THEN staff[s] ELSE [staff[s] EXCEPT !.phone = ph, !.cand = cand]
           row == [contract[c] EXCEPT !.st = status, !.act = act]
           earlier == BeforeOf(c, s)
           phoneChanged == ph # staff[s].phone
           log == IF target = "DRAFT" THEN history[c] ELSE Moved(history[c], target, Never)
           sent == Moved(history[c], status, stamps + 1)
           join == staff[s].join
<1>1. /\ contract[c].st \in {"DRAFT", "CORRECTION_REQUESTED"} /\ contract[c].st \in InProgress
      /\ contract[c].st \in Statuses
      /\ contract[c].st = "CORRECTION_REQUESTED" => target = "PENDING_SEND"
      /\ joined => ph = staff[s].phone
      /\ EmployedAt(ph) \subseteq {s} /\ UNCHANGED <<account, out, lost, lapsed>>
  BY DEF Save, Statuses, InProgress
<1>2. /\ contract[c] \in ContractRow /\ history[c] \in HistoryRows /\ contract[c].act \in DraftActions
      /\ s \in Staff /\ staff[s] \in StaffRow /\ staff[s].cand \in Phones \union {NoOne}
      /\ ~joined => staff[s].join \in {"DRAFT", "INVITED"}
  BY <1>1, RecordOfContract DEF OfferInv
<1>3. /\ staff[s].leave # "LEFT"
      /\ \A d \in Contracts \ {c} : contract[d].st \in InProgress => contract[d].staff # s
      /\ contract[c].st = "CORRECTION_REQUESTED" => joined
  BY <1>1, RecordInProgress
<1>4. act \in DraftActions /\ cand \in Phones \union {NoOne}
  BY <1>2, JudgedType DEF DraftActions
<1>5. status \in Statuses
  BY DeliveredStatusType DEF Statuses
<1>6. R \in SUBSET Contracts /\ c \notin R /\ \A d \in R : contract[d].st \in InProgress
  BY InProgressContracts
<1>7. /\ rec \in StaffRow /\ rec.phone = ph /\ rec.leave # "LEFT" /\ join = rec.join
      /\ joined => rec = staff[s]
      /\ ~joined => rec.join \in {"DRAFT", "INVITED"} /\ rec.cand = cand
  <2> HIDE DEF cand, joined, s
  <2>1. CASE joined
    BY <1>1, <1>2, <1>3, <2>1
  <2>2. CASE ~joined
    BY <1>2, <1>3, <1>4, <2>2 DEF StaffRow
  <2> QED
    BY <2>1, <2>2
<1>8. row \in ContractRow /\ row.staff = s /\ row.st = status /\ row.sent = contract[c].sent
  <2> HIDE DEF status, act
  <2> QED
    BY <1>2, <1>4, <1>5 DEF ContractRow
<1>9. \A d \in Contracts \ {c} :
        contract[d].st \in InProgress
        /\ (contract[d].staff = s \/ staff[contract[d].staff].phone = ph) => d \in R
  BY <1>3, InProgressAtCovers
<1>10. ~joined => EmployedAt(ph) = {}
  BY <1>1 DEF EmployedAt
<1>11. IF target = "PENDING_SEND"
       THEN /\ Replace(R, c, Sent(row, status, act, channel), sent, s, Offered(rec, channel, join))
            /\ Prepare(c, s, R, channel, earlier, TRUE, phoneChanged)
       ELSE Replace(R, c, row, log, s, rec) /\ NoSend(R)
  BY DEF Save
<1>12. earlier.st = contract[c].st /\ earlier.sent = contract[c].sent /\ earlier = BeforeOf(c, s)
  BY DEF BeforeOf
<1>13. /\ target = "PENDING_SEND" => status = DeliveredStatusOf(Joined(s), act)
       /\ target # "DRAFT" /\ ~joined => act = Judged(ph) /\ cand = JudgedCandidate(ph)
       /\ target # "PENDING_SEND" => status = target /\ contract[c].st = "DRAFT"
       /\ channel = ChannelOf(Joined(s), act)
       /\ joined <=> Joined(s)
  BY <1>1, <1>3
<1>14. /\ sent.last = status /\ sent.by = stamps + 1
       /\ target = "DRAFT" => log = history[c]
       /\ target # "DRAFT" => log.last = target /\ log.by = Never
  BY DEF Moved
<1>15. Exists(c) /\ contract[c].staff = s
  BY <1>1 DEF Exists
<1>16. history[c].last = contract[c].st
  BY <1>15 DEF OfferInv, Dealings, Rules, HistoryTellsStatus
<1> HIDE DEF s, joined, correction, R, keeps, act, cand, status, channel, rec, row, earlier,
             phoneChanged, log, sent, join
<1>17. CASE target = "PENDING_SEND"
  <2> DEFINE yes == TRUE
  <2>1. /\ Replace(R, c, Sent(row, status, act, channel), sent, s, Offered(rec, channel, join))
        /\ Prepare(c, s, R, channel, earlier, yes, phoneChanged)
    BY <1>11, <1>17
  <2>2. /\ yes \in BOOLEAN /\ (IF yes THEN sent.by = stamps + 1 ELSE sent = history[c])
        /\ ~joined => (yes <=> contract[c].st # "PENDING_SEND")
    BY <1>1, <1>14
  <2> HIDE DEF yes
  <2>3. status = DeliveredStatusOf(Joined(s), act)
    BY <1>13, <1>17
  <2>4. /\ Joined(s) => rec = staff[s]
        /\ ~Joined(s) =>
           /\ act = Judged(ph) /\ EmployedAt(ph) = {}
           /\ rec.join \in {"DRAFT", "INVITED"} /\ rec.cand = JudgedCandidate(ph)
           /\ contract[c].st \in {"NONE", "DRAFT", "PENDING_SEND", "REJECTED", "EXPIRED"}
           /\ yes <=> contract[c].st # "PENDING_SEND"
    BY <1>1, <1>3, <1>7, <1>10, <1>13, <1>17, <2>2
  <2>5. /\ earlier.st = contract[c].st /\ earlier.sent \in {contract[c].sent, Never}
        /\ Exists(c) => earlier = BeforeOf(c, s)
        /\ contract[c].st = "NONE" \/ (Exists(c) /\ contract[c].staff = s)
    BY <1>12, <1>15
  <2>6. /\ rec \in StaffRow /\ rec.phone = ph /\ rec.leave # "LEFT" /\ join = rec.join
        /\ channel = ChannelOf(Joined(s), act) /\ UNCHANGED <<account, out, lost, lapsed>>
        /\ sent.last = status
    BY <1>1, <1>7, <1>13, <1>14
  <2> QED
    BY ONLY OfferInv, c \in Contracts, <1>2, <1>4, <1>6, <1>8, <1>9, <2>1, <2>2, <2>3, <2>4,
            <2>5, <2>6, SendingKeepsDealings
<1>18. CASE target # "PENDING_SEND"
  <2>1. /\ Replace(R, c, row, log, s, rec) /\ NoSend(R) /\ status = target
        /\ contract[c].st = "DRAFT" /\ target \in {"DRAFT", "SIGNED"}
    BY <1>11, <1>13, <1>18
  <2>2. SaveFits(c, s, R, row, rec)
    BY <1>6, <1>7, <1>8, <1>9, <1>13, <1>15, <2>1 DEF SaveFits
  <2>3. /\ ~Waits(c) /\ row.st \in {"DRAFT", "SIGNED"} /\ row.sent \in {contract[c].sent, Never}
        /\ log.last = row.st /\ log.by \in {history[c].by, Never}
        /\ UNCHANGED <<account, out, lost, lapsed>>
    BY <1>1, <1>8, <1>14, <1>16, <2>1 DEF Waits
  <2> QED
    BY ONLY OfferInv, c \in Contracts, <1>2, <1>6, <2>1, <2>2, <2>3, SaveOnlyKeepsDealings
<1> QED
  BY <1>17, <1>18

\* ContractsService.updateWorker.
LEMMA UpdateWorkerKeepsDealings ==
  ASSUME OfferInv, NEW c \in Contracts, NEW ph \in Phones, UpdateWorker(c, ph)
  PROVE  Dealings'
<1> DEFINE s == contract[c].staff
           joined == Joined(s)
           phoneChanged == ph # staff[s].phone
           R == IF phoneChanged THEN InProgressAt(ph, c) ELSE {}
           act == IF joined THEN contract[c].act ELSE Judged(ph)
           status == DeliveredStatusOf(joined, act)
           channel == ChannelOf(joined, act)
           moved == status # contract[c].st
           rec == IF joined THEN staff[s]
                  ELSE [staff[s] EXCEPT !.phone = ph, !.cand = JudgedCandidate(ph)]
           earlier == BeforeOf(c, s)
           log == IF moved THEN Moved(history[c], status, stamps + 1) ELSE history[c]
           join == staff[s].join
           row == contract[c]
<1>1. /\ contract[c].st \in {"PENDING_SEND", "PENDING_SIGNATURE", "CORRECTION_REQUESTED"}
      /\ contract[c].st \in InProgress /\ contract[c].st \in Statuses
      /\ joined => ph = staff[s].phone
      /\ ~joined => EmployedAt(ph) = {}
  BY DEF UpdateWorker, WorkerEditable, Statuses, InProgress
<1>2. /\ contract[c] \in ContractRow /\ history[c] \in HistoryRows /\ contract[c].act \in DraftActions
      /\ s \in Staff /\ staff[s] \in StaffRow
      /\ ~joined => staff[s].join \in {"DRAFT", "INVITED"}
  BY <1>1, RecordOfContract DEF OfferInv
<1>3. /\ staff[s].leave # "LEFT"
      /\ \A d \in Contracts \ {c} : contract[d].st \in InProgress =>
           contract[d].staff # s /\ staff[contract[d].staff].phone # staff[s].phone
      /\ ~joined => contract[c].st = "PENDING_SEND"
  BY <1>1, RecordInProgress
<1>4. act \in DraftActions
  BY <1>2, JudgedType
<1>5. R \in SUBSET Contracts /\ c \notin R /\ \A d \in R : contract[d].st \in InProgress
  BY InProgressContracts
<1>6. /\ rec \in StaffRow /\ rec.phone = ph /\ rec.leave # "LEFT" /\ join = rec.join
      /\ joined => rec = staff[s]
      /\ ~joined => rec.join \in {"DRAFT", "INVITED"} /\ rec.cand = JudgedCandidate(ph)
  <2>1. JudgedCandidate(ph) \in Phones \union {NoOne}
    BY JudgedType
  <2> HIDE DEF joined, s
  <2>2. CASE joined
    BY <1>1, <1>2, <1>3, <2>2
  <2>3. CASE ~joined
    BY <1>2, <1>3, <2>1, <2>3 DEF StaffRow
  <2> QED
    BY <2>2, <2>3
<1>7. \A d \in Contracts \ {c} :
        contract[d].st \in InProgress
        /\ (contract[d].staff = s \/ staff[contract[d].staff].phone = ph) => d \in R
  BY <1>3, InProgressAtCovers
<1>8. /\ Replace(R, c, Sent(row, status, act, channel), log, s, Offered(rec, channel, join))
      /\ Prepare(c, s, R, channel, earlier, moved, phoneChanged)
      /\ UNCHANGED <<account, out, lost, lapsed>>
  BY DEF UpdateWorker
<1>9. earlier.st = contract[c].st /\ earlier.sent = contract[c].sent /\ earlier = BeforeOf(c, s)
  BY DEF BeforeOf
<1>10. Exists(c) /\ contract[c].staff = s /\ row \in ContractRow /\ row.staff = s
  BY <1>1, <1>2 DEF Exists
<1>11. history[c].last = contract[c].st
  BY <1>10 DEF OfferInv, Dealings, Rules, HistoryTellsStatus
<1>12. moved \in BOOLEAN /\ log.last = status /\ (IF moved THEN log.by = stamps + 1 ELSE log = history[c])
  BY <1>11 DEF Moved
<1>13. /\ status = DeliveredStatusOf(Joined(s), act) /\ channel = ChannelOf(Joined(s), act)
       /\ joined <=> Joined(s)
       /\ ~joined => act = Judged(ph) /\ status = "PENDING_SEND"
  BY DEF DeliveredStatusOf, ChannelOf, Judged
<1>14. ~joined => (moved <=> contract[c].st # "PENDING_SEND")
  BY <1>3, <1>13
<1> HIDE DEF s, joined, phoneChanged, R, act, status, channel, moved, rec, earlier, log, join, row
<1>15. /\ Joined(s) => rec = staff[s]
       /\ ~Joined(s) =>
           /\ act = Judged(ph) /\ EmployedAt(ph) = {}
           /\ rec.join \in {"DRAFT", "INVITED"} /\ rec.cand = JudgedCandidate(ph)
           /\ contract[c].st \in {"NONE", "DRAFT", "PENDING_SEND", "REJECTED", "EXPIRED"}
           /\ moved <=> contract[c].st # "PENDING_SEND"
  BY <1>1, <1>3, <1>6, <1>13, <1>14
<1>16. /\ earlier.sent \in {contract[c].sent, Never} /\ (Exists(c) => earlier = BeforeOf(c, s))
       /\ contract[c].st = "NONE" \/ (Exists(c) /\ contract[c].staff = s)
  BY <1>9, <1>10
<1> QED
  BY ONLY OfferInv, c \in Contracts, <1>2, <1>4, <1>5, <1>6, <1>7, <1>8, <1>9, <1>10, <1>12, <1>13,
          <1>15, <1>16, SendingKeepsDealings

\* ContractSendService.send.
LEMMA ResendKeepsDealings ==
  ASSUME OfferInv, NEW c \in Contracts, Resend(c)
  PROVE  Dealings'
<1> DEFINE s == contract[c].staff
           joined == Joined(s)
           ph == staff[s].phone
           reopened == contract[c].st \in ReopenedStatuses
           act == IF joined THEN contract[c].act ELSE Judged(ph)
           channel == ChannelOf(joined, act)
           status == IF joined \/ reopened \/ channel = "AFFILIATION"
                     THEN DeliveredStatusOf(joined, act) ELSE contract[c].st
           moved == status # contract[c].st
           rec == IF joined THEN staff[s] ELSE [staff[s] EXCEPT !.cand = JudgedCandidate(ph)]
           earlier == BeforeOf(c, s)
           log == IF moved THEN Moved(history[c], status, stamps + 1) ELSE history[c]
           join == staff[s].join
           row == contract[c]
           R == {d \in Contracts : FALSE}
           no == FALSE
<1>1. /\ contract[c].st \in {"PENDING_SEND", "PENDING_SIGNATURE", "REJECTED", "EXPIRED"}
      /\ contract[c].st \in Statuses
      /\ reopened => staff[s].leave = "STAYS" /\ InProgressAt(ph, c) = {}
      /\ ~joined => EmployedAt(ph) = {}
  BY DEF Resend, ResendableStatuses, Statuses
<1>2. /\ contract[c] \in ContractRow /\ history[c] \in HistoryRows /\ contract[c].act \in DraftActions
      /\ s \in Staff /\ staff[s] \in StaffRow
      /\ ~joined => staff[s].join \in {"DRAFT", "INVITED"}
  BY <1>1, RecordOfContract DEF OfferInv
<1>3. /\ staff[s].leave # "LEFT"
      /\ \A d \in Contracts \ {c} : contract[d].st \in InProgress =>
           contract[d].staff # s /\ staff[contract[d].staff].phone # ph
      /\ ~joined => contract[c].st # "PENDING_SIGNATURE"
  <2>1. CASE reopened
    <3>1. InProgressAt(ph, c) = {} /\ staff[s].leave = "STAYS"
      BY <1>1, <2>1
    <3>2. \A d \in Contracts \ {c} : contract[d].st \in InProgress =>
            staff[contract[d].staff].phone # ph
      BY <3>1, InProgressAtCovers
    <3>3. contract[c].st # "PENDING_SIGNATURE"
      BY <2>1 DEF ReopenedStatuses
    <3> QED
      BY <3>1, <3>2, <3>3
  <2>2. CASE ~reopened
    <3>1. contract[c].st \in InProgress
      BY <1>1, <2>2 DEF ReopenedStatuses, InProgress
    <3> QED
      BY <3>1, RecordInProgress
  <2> QED
    BY <2>1, <2>2
<1>4. act \in DraftActions
  BY <1>2 DEF Judged, DraftActions
<1>5. R \in SUBSET Contracts /\ c \notin R /\ \A d \in R : contract[d].st \in InProgress
  OBVIOUS
<1>6. /\ rec \in StaffRow /\ rec.phone = ph /\ rec.leave # "LEFT" /\ join = rec.join
      /\ joined => rec = staff[s]
      /\ ~joined => rec.join \in {"DRAFT", "INVITED"} /\ rec.cand = JudgedCandidate(ph)
  <2>1. ph \in Phones \union {NoOne}
    BY <1>2 DEF StaffRow
  <2>2. JudgedCandidate(ph) \in Phones \union {NoOne}
    BY <2>1 DEF JudgedCandidate
  <2>3. ph = staff[s].phone
    OBVIOUS
  <2> HIDE DEF joined, s, ph
  <2>4. CASE joined
    BY <1>2, <1>3, <2>3, <2>4
  <2>5. CASE ~joined
    BY <1>2, <1>3, <2>2, <2>3, <2>5 DEF StaffRow
  <2> QED
    BY <2>4, <2>5
<1>7. \A d \in Contracts \ {c} :
        contract[d].st \in InProgress
        /\ (contract[d].staff = s \/ staff[contract[d].staff].phone = ph) => d \in R
  BY <1>3
<1>8. /\ Replace(R, c, Sent(row, status, act, channel), log, s, Offered(rec, channel, join))
      /\ Prepare(c, s, R, channel, earlier, moved, no)
      /\ UNCHANGED <<account, out, lost, lapsed>>
  <2> HIDE DEF Replace, Prepare
  <2>1. R = {}
    OBVIOUS
  <2> QED
    BY <2>1 DEF Resend
<1>9. earlier.st = contract[c].st /\ earlier.sent = contract[c].sent /\ earlier = BeforeOf(c, s)
  BY DEF BeforeOf
<1>10. Exists(c) /\ contract[c].staff = s /\ row \in ContractRow /\ row.staff = s
  BY <1>1, <1>2 DEF Exists
<1>11. history[c].last = contract[c].st
  BY <1>10 DEF OfferInv, Dealings, Rules, HistoryTellsStatus
<1>12. moved \in BOOLEAN /\ log.last = status /\ (IF moved THEN log.by = stamps + 1 ELSE log = history[c])
  BY <1>11 DEF Moved
\* An applicant's contract waits for the worker, sent before or not.
<1>13. /\ status = DeliveredStatusOf(Joined(s), act) /\ channel = ChannelOf(Joined(s), act)
       /\ joined <=> Joined(s)
       /\ ~joined => act = Judged(ph) /\ status = "PENDING_SEND"
  BY <1>1, <1>3 DEF DeliveredStatusOf, ChannelOf, Judged, ReopenedStatuses
<1>14. ~joined => (moved <=> contract[c].st # "PENDING_SEND")
  BY <1>13
<1> HIDE DEF s, joined, ph, reopened, act, status, channel, moved, rec, earlier, log, join, row, R, no
<1>15. /\ Joined(s) => rec = staff[s]
       /\ ~Joined(s) =>
           /\ act = Judged(ph) /\ EmployedAt(ph) = {}
           /\ rec.join \in {"DRAFT", "INVITED"} /\ rec.cand = JudgedCandidate(ph)
           /\ contract[c].st \in {"NONE", "DRAFT", "PENDING_SEND", "REJECTED", "EXPIRED"}
           /\ moved <=> contract[c].st # "PENDING_SEND"
  BY <1>1, <1>3, <1>6, <1>13, <1>14
<1>16. /\ earlier.sent \in {contract[c].sent, Never} /\ (Exists(c) => earlier = BeforeOf(c, s))
       /\ contract[c].st = "NONE" \/ (Exists(c) /\ contract[c].staff = s)
  BY <1>9, <1>10
<1> QED
  BY ONLY OfferInv, c \in Contracts, <1>2, <1>4, <1>5, <1>6, <1>7, <1>8, <1>9, <1>10, <1>12, <1>13,
          <1>15, <1>16, SendingKeepsDealings

\* ContractsService.remove: a draft, and the record only it was using, which has no
\* usable link: that would be of a contract on offer.
LEMMA RemoveKeepsDealings ==
  ASSUME OfferInv, NEW c \in Contracts, Remove(c)
  PROVE  Dealings'
<1> DEFINE s == contract[c].staff
           only == \A d \in Contracts \ {c} : contract[d].staff # s
<1>1. /\ contract' = [contract EXCEPT ![c] = DeletedContract]
      /\ history' = [history EXCEPT ![c] = NoHistory]
      /\ staff' = staff \/ (only /\ staff[s].join = "DRAFT" /\ staff' = [staff EXCEPT ![s] = DeletedRecord])
      /\ contract[c].st = "DRAFT"
      /\ UNCHANGED <<account, inv, pending, out, lost, stamps, lapsed>>
  BY DEF Remove, answerVars
<1>2. /\ contract \in [Contracts -> ContractRow] /\ history \in [Contracts -> HistoryRows]
      /\ staff \in [Staff -> StaffRow] /\ stamps \in Int
      /\ \A d \in Contracts : Exists(d) => contract[d].staff \in Staff
  BY Numbers DEF OfferInv, IInv, TypeOK, RecordsExist
<1>3. /\ contract'[c].st = "GONE" /\ contract'[c].sent = Never /\ history'[c].by = Never
      /\ \A d \in Contracts \ {c} : contract'[d] = contract[d] /\ history'[d] = history[d]
  BY <1>1, <1>2 DEF DeletedContract, NoContract, NoHistory
\* The record of any other contract, and any that is not a draft's, is left alone.
<1>4. \A t \in Staff :
        \/ staff'[t] = staff[t]
        \/ /\ only /\ t = s /\ staff[t].join = "DRAFT"
           /\ staff'[t].join = "GONE" /\ staff'[t].leave = "STAYS"
  BY <1>1, <1>2 DEF DeletedRecord, NoRecord
<1>5. Sends'
  <2>1. ContractsGoOn /\ LinksGoOn
    BY <1>1, <1>3 DEF ContractsGoOn, LinksGoOn, Exists, Waits, Statuses
  <2>2. \A d \in Contracts : contract'[d].sent \in {contract[d].sent, Never}
    BY <1>3
  <2> QED
    BY <1>1, <1>2, <2>1, <2>2, OthersKeepSends DEF OfferInv, Dealings
<1>6. /\ HistoryTellsStatus /\ OneInProgressPerPhone /\ SigningIsPossible
      /\ LeaverHoldsNothing /\ OneEmployedRecord
      /\ LinksAreOffers /\ WaitingIsAccounted /\ LinksAreAccounted
  BY DEF OfferInv, Dealings, Rules, Offers
<1>7. ASSUME NEW d \in Contracts, contract'[d].st \in Statuses
      PROVE  /\ d # c /\ contract'[d] = contract[d] /\ history'[d] = history[d]
             /\ contract[d].staff \in Staff /\ staff'[contract[d].staff] = staff[contract[d].staff]
  <2>1. d # c
    BY <1>3, <1>7 DEF Statuses
  <2>2. contract'[d] = contract[d] /\ history'[d] = history[d] /\ contract[d].staff \in Staff
    BY <1>2, <1>3, <1>7, <2>1 DEF Exists
  <2>3. only => contract[d].staff # s
    BY <2>1
  <2> QED
    BY <1>4, <2>1, <2>2, <2>3
<1>8. \A d \in Contracts : contract'[d].st \in InProgress => contract'[d].st \in Statuses
  BY DEF InProgress, Statuses
<1> HIDE DEF s, only
<1>9. Rules'
  <2>1. HistoryTellsStatus'
    BY <1>6, <1>7 DEF HistoryTellsStatus, Exists
  <2>2. OneInProgressPerPhone'
    BY <1>6, <1>7, <1>8 DEF OneInProgressPerPhone
  <2>3. SigningIsPossible'
    BY <1>6, <1>7, <1>8 DEF SigningIsPossible, Joined, InProgress
  <2>4. LeaverHoldsNothing'
    BY <1>1, <1>4, <1>6, <1>7, <1>8 DEF LeaverHoldsNothing, Live
  <2>5. OneEmployedRecord'
    BY <1>4, <1>6 DEF OneEmployedRecord, Joined
  <2> QED
    BY <2>1, <2>2, <2>3, <2>4, <2>5 DEF Rules
<1>10. LinksAreOffers'
  <2> SUFFICES ASSUME NEW n \in Stamps, inv[n].st = "SENT"
               PROVE  /\ \E d \in Contracts : LinkOf(n, d)'
                      /\ staff'[inv[n].staff].join = "INVITED"
                      /\ EmployedAt(staff[inv[n].staff].phone)' = {}
                      /\ staff'[inv[n].staff].cand =
                           IF inv[n].kind = "INVITE" THEN NoOne ELSE staff'[inv[n].staff].phone
    BY <1>1 DEF LinksAreOffers
  <2>1. /\ inv[n].staff \in Staff /\ staff[inv[n].staff].join = "INVITED"
        /\ EmployedAt(staff[inv[n].staff].phone) = {} /\ \E d \in Contracts : LinkOf(n, d)
        /\ staff[inv[n].staff].cand =
             IF inv[n].kind = "INVITE" THEN NoOne ELSE staff[inv[n].staff].phone
    BY <1>6, LinkContract DEF LinksAreOffers
  <2>2. staff'[inv[n].staff] = staff[inv[n].staff]
    BY <1>4, <2>1
  <2>3. \E d \in Contracts : LinkOf(n, d)'
    BY <1>1, <1>3, <2>1 DEF LinkOf, Waits
  <2>4. EmployedAt(staff[inv[n].staff].phone)' = {}
    BY <1>1, <1>4, <2>1, <2>2 DEF EmployedAt, Joined
  <2> QED
    BY <2>1, <2>2, <2>3, <2>4
<1>11. WaitingIsAccounted'
  BY <1>1, <1>6, <1>7 DEF WaitingIsAccounted, Waits, GotOutOrUsable, Statuses
<1>12. LinksAreAccounted'
  BY <1>1, <1>6 DEF LinksAreAccounted, InFlight
<1> QED
  BY <1>5, <1>9, <1>10, <1>11, <1>12 DEF Dealings, Offers

-----------------------------------------------------------------------------
(* The theorems                                                            *)

LEMMA AdminKeepsDealings ==
  ASSUME OfferInv, Admin
  PROVE  Dealings'
<1>1. ASSUME NEW c \in Contracts, NEW s \in Staff, NEW ph \in Phones,
             NEW target \in {"DRAFT", "PENDING_SEND", "SIGNED"}, Create(c, s, ph, target)
      PROVE  Dealings'
  BY <1>1, CreateKeepsDealings
<1>2. ASSUME NEW c \in Contracts, NEW ph \in Phones,
             NEW target \in {"DRAFT", "PENDING_SEND", "SIGNED"}, Save(c, ph, target)
      PROVE  Dealings'
  BY <1>2, SaveKeepsDealings
<1>3. ASSUME NEW c \in Contracts, NEW ph \in Phones, UpdateWorker(c, ph) PROVE Dealings'
  BY <1>3, UpdateWorkerKeepsDealings
<1>4. ASSUME NEW c \in Contracts, Resend(c) \/ End(c) \/ Remove(c) PROVE Dealings'
  BY <1>4, ResendKeepsDealings, EndKeepsDealings, RemoveKeepsDealings
<1>5. ASSUME NEW s \in Leavers, NEW past \in BOOLEAN, Retire(s, past) PROVE Dealings'
  BY <1>5, RetireKeepsDealings, LeaversAssumption
<1>6. ASSUME NEW s \in Staff, CancelRetirement(s) PROVE Dealings'
  BY <1>6, CancelRetirementKeepsDealings
<1> QED
  BY <1>1, <1>2, <1>3, <1>4, <1>5, <1>6 DEF Admin

\* Every step keeps OfferInv: the parts of SentOnce and IInv were shown with the links.
LEMMA NextKeepsOfferInv == OfferInv /\ [Next]_vars => OfferInv'
<1> SUFFICES ASSUME OfferInv, [Next]_vars PROVE OfferInv'
  OBVIOUS
<1>1. IInv' /\ SentOnce'
  BY NextKeepsIInv, NextIsLinkStep DEF OfferInv, LinkStep
<1>2. ASSUME UNCHANGED vars PROVE Dealings'
  <2>1. ContractsGoOn /\ LinksGoOn /\ \A d \in Contracts : contract'[d].sent \in {contract[d].sent, Never}
    BY <1>2 DEF vars, ContractsGoOn, LinksGoOn, Exists, Waits
  <2>2. stamps \in Int
    BY Numbers DEF OfferInv
  <2>3. Sends'
    BY <1>2, <2>1, <2>2, OthersKeepSends DEF vars, OfferInv, Dealings
  <2>4. Rules'
    BY <1>2 DEF vars, OfferInv, Dealings, Rules, HistoryTellsStatus, Exists, OneInProgressPerPhone,
                SigningIsPossible, Joined, LeaverHoldsNothing, Live, OneEmployedRecord
  <2>5. LinksAreOffers'
    BY <1>2 DEF vars, OfferInv, Dealings, Offers, LinksAreOffers, LinkOf, Waits, EmployedAt, Joined
  <2>6. WaitingIsAccounted' /\ LinksAreAccounted'
    BY <1>2 DEF vars, OfferInv, Dealings, Offers, WaitingIsAccounted, LinksAreAccounted, Waits,
                GotOutOrUsable, InFlight
  <2> QED
    BY <2>3, <2>4, <2>5, <2>6 DEF Dealings, Offers
<1>3. Dealings'
  BY <1>2, AdminKeepsDealings, WorkerKeepsDealings, NightlyKeepsDealings, DeliveryKeepsDealings,
     EnvironmentKeepsDealings DEF Next
<1> QED
  BY <1>1, <1>3 DEF OfferInv

LEMMA InitEstablishesOfferInv == Init => OfferInv
<1> SUFFICES ASSUME Init PROVE OfferInv
  OBVIOUS
<1>1. IInv /\ SentOnce
  BY InitEstablishesIInv, InitIsLinkInit
<1>2. /\ \A c \in Contracts : contract[c].st = "NONE" /\ contract[c].sent = Never
      /\ \A s \in Staff : staff[s].join = "NONE" /\ staff[s].leave = "STAYS"
      /\ \A n \in Stamps : inv[n].st = "NONE" /\ n # Never
      /\ pending = {} /\ out = {} /\ lost = {} /\ lapsed = Never /\ stamps = Never
  BY <1>1, Numbers DEF Init, NoContract, NoRecord, NoInvitation
<1>3. Rules
  BY <1>2 DEF Rules, HistoryTellsStatus, Exists, Statuses, OneInProgressPerPhone, InProgress,
              SigningIsPossible, LeaverHoldsNothing, OneEmployedRecord, Joined
<1>4. Sends
  <2>1. SendsAreOpen
    BY <1>2 DEF SendsAreOpen, Never
  <2>2. StampsAreOwned /\ SendsRemember
    BY <1>2 DEF StampsAreOwned, Owns, SendsRemember
  <2> QED
    BY <2>1, <2>2 DEF Sends
<1>5. Offers
  BY <1>2 DEF Offers, LinksAreOffers, WaitingIsAccounted, Waits, LinksAreAccounted
<1> QED
  BY <1>1, <1>3, <1>4, <1>5 DEF OfferInv, Dealings

\* OfferInv holds in every state, however requests, dispatches, failed sends, undos,
\* answers, batches and crashes overlap.
THEOREM OfferInvariant == Spec => []OfferInv
BY InitEstablishesOfferInv, NextKeepsOfferInv, PTL DEF Spec

\* What a worker can use is what the store offers: one waiting contract of the
\* record, judged as the link is, for the account the link is for.
THEOREM LinksMatchContracts == Spec => []LiveLinkMatchesContract
<1>1. OfferInv => LiveLinkMatchesContract
  BY DEF OfferInv, Dealings, Offers, LinksAreOffers, LinkOf, Waits, LiveLinkMatchesContract
<1> QED
  BY <1>1, OfferInvariant, PTL

\* What is on offer went out, is being sent, or was left unsettled by a failure: no
\* overlap of undos leaves a code usable, or a contract waiting, that never went out.
THEOREM NothingOfferedUnsent == Spec => []OfferedWasSent
<1>1. OfferInv => OfferedWasSent
  <2> SUFFICES ASSUME OfferInv PROVE OfferedWasSent
    OBVIOUS
  <2>1. UnsentLinkIsNotLive
    BY DEF OfferInv, Dealings, Offers, LinksAreAccounted, UnsentLinkIsNotLive
  <2>2. ASSUME NEW c \in Contracts, Waits(c)
        PROVE  contract[c].sent \in out \union lost \union InFlight
    BY <2>1, <2>2, WaitingStamp
       DEF OfferInv, Dealings, Offers, WaitingIsAccounted, GotOutOrUsable, UnsentLinkIsNotLive
  <2> QED
    BY <2>1, <2>2 DEF OfferedWasSent, WaitingWasOffered, Waits
<1> QED
  BY <1>1, OfferInvariant, PTL

\* Undo takes back its own send's work and nothing that another request or the worker
\* decided, and what is left of the history ends in the contract's status.
THEOREM UndoTakesBackItsOwn == Spec => []UndoneConsistently
<1>1. OfferInv => UndoneConsistently
  <2> SUFFICES ASSUME OfferInv PROVE UndoneConsistently
    OBVIOUS
  <2>1. HistoryTellsStatus
    BY DEF OfferInv, Dealings, Rules
  <2>2. UndoFindsItsOwnWork
    <3> SUFFICES ASSUME NEW p \in pending, ~Answered(p.send), ~Overtaken(p)
                 PROVE  /\ contract[p.contract].st = "PENDING_SEND"
                        /\ contract[p.contract].act = p.kind
                        /\ contract[p.contract].staff = p.staff
                        /\ p.moved => history[p.contract].by = p.send
      BY DEF UndoFindsItsOwnWork
    <3> QED
      BY UndoFinds DEF Waits, LinkOf
  <2> QED
    BY <2>1, <2>2 DEF UndoneConsistently
<1> QED
  BY <1>1, OfferInvariant, PTL

\* One contract in progress per number, whichever records hold them: replacement and
\* the guards of resending and rehiring leave no gap, undo makes none.
THEOREM OneContractPerPhone == Spec => []OneInProgressPerPhone
<1>1. OfferInv => OneInProgressPerPhone
  BY DEF OfferInv, Dealings, Rules
<1> QED
  BY <1>1, OfferInvariant, PTL

\* A contract waits for a signature only of somebody who can give it, with a deadline.
THEOREM SignaturesCanBeGiven == Spec => []SigningIsPossible
<1>1. OfferInv => SigningIsPossible
  BY DEF OfferInv, Dealings, Rules
<1> QED
  BY <1>1, OfferInvariant, PTL

\* Nothing that was under way when a retirement became final leaves the record a
\* contract in progress or a usable link.
THEOREM LeaversHoldNothing == Spec => []LeaverHoldsNothing
<1>1. OfferInv => LeaverHoldsNothing
  BY DEF OfferInv, Dealings, Rules
<1> QED
  BY <1>1, OfferInvariant, PTL

\* Two links of one number, accepted in any order, do not employ the person twice.
THEOREM NobodyEmployedTwice == Spec => []OneEmployedRecord
<1>1. OfferInv => OneEmployedRecord
  BY DEF OfferInv, Dealings, Rules
<1> QED
  BY <1>1, OfferInvariant, PTL

-----------------------------------------------------------------------------
(* Statuses follow the table                                               *)

\* A contract keeps its status, goes, or moves along TRANSITIONS.
Follows(c) ==
  Exists(c) /\ contract'[c].st \notin {"GONE", contract[c].st} =>
    CanTransition(contract[c].st, contract'[c].st)

LEMMA TableAt ==
  /\ \A from \in InProgress : CanTransition(from, "ENDED")
  /\ \A from \in {"DRAFT", "CORRECTION_REQUESTED"}, to \in {"PENDING_SEND", "PENDING_SIGNATURE"} :
       CanTransition(from, to)
  /\ CanTransition("DRAFT", "SIGNED") /\ CanTransition("SIGNED", "ENDED")
  /\ CanTransition("PENDING_SEND", "PENDING_SIGNATURE") /\ CanTransition("PENDING_SEND", "REJECTED")
  /\ \A to \in {"SIGNED", "REJECTED", "CORRECTION_REQUESTED", "EXPIRED"} :
       CanTransition("PENDING_SIGNATURE", to)
BY DEF CanTransition, Transitions, InProgress

\* A contract that a request replaces ends, and its own row moves as the request says.
LEMMA ReplaceFollows ==
  ASSUME IInv, NEW c \in Contracts, NEW R, \A d \in R : contract[d].st \in InProgress,
         NEW row, NEW log, NEW s, NEW rec, Replace(R, c, row, log, s, rec),
         Exists(c) /\ row.st # contract[c].st => CanTransition(contract[c].st, row.st)
  PROVE  \A d \in Contracts : Follows(d)
<1> SUFFICES ASSUME NEW d \in Contracts, Exists(d), contract'[d].st \notin {"GONE", contract[d].st}
             PROVE  CanTransition(contract[d].st, contract'[d].st)
  BY DEF Follows
<1>1. contract[d] \in ContractRow
  BY DEF IInv, TypeOK
<1>2. contract'[d] = IF d = c THEN row
                     ELSE IF d \notin R THEN contract[d]
                     ELSE IF contract[d].st = "DRAFT" THEN DeletedContract
                     ELSE [contract[d] EXCEPT !.st = "ENDED"]
  BY DEF Replace
<1>3. CASE d = c
  BY <1>2, <1>3
<1>4. CASE d # c
  <2>1. d \in R /\ contract[d].st # "DRAFT"
    BY <1>2, <1>4 DEF DeletedContract
  <2>2. contract'[d].st = "ENDED"
    BY <1>1, <1>2, <1>4, <2>1 DEF ContractRow
  <2> QED
    BY <2>1, <2>2, TableAt
<1> QED
  BY <1>3, <1>4

LEMMA SendsFollow ==
  ASSUME OfferInv, NEW c \in Contracts
  PROVE  /\ \A s \in Staff, ph \in Phones, target \in {"DRAFT", "PENDING_SEND", "SIGNED"} :
              Create(c, s, ph, target) => \A d \in Contracts : Follows(d)
         /\ \A ph \in Phones, target \in {"DRAFT", "PENDING_SEND", "SIGNED"} :
              Save(c, ph, target) => \A d \in Contracts : Follows(d)
         /\ \A ph \in Phones : UpdateWorker(c, ph) => \A d \in Contracts : Follows(d)
         /\ Resend(c) => \A d \in Contracts : Follows(d)
<1>1. \A ph \in Phones : \A d \in InProgressAt(ph, c) : contract[d].st \in InProgress
  BY DEF InProgressAt
<1>2. IInv /\ contract[c] \in ContractRow
  BY DEF OfferInv, IInv, TypeOK
<1>3. \A row \in ContractRow : \A st, act, channel : Sent(row, st, act, channel).st = st
  BY DEF Sent, ContractRow
<1>4. ASSUME NEW s \in Staff, NEW ph \in Phones, NEW target \in {"DRAFT", "PENDING_SEND", "SIGNED"},
             Create(c, s, ph, target)
      PROVE  \A d \in Contracts : Follows(d)
  <2>1. ~Exists(c)
    BY <1>4 DEF Create, Exists, Statuses
  <2>2. PICK row, log, rec : Replace(InProgressAt(ph, c), c, row, log, s, rec)
    BY <1>4 DEF Create
  <2> QED
    BY <1>1, <1>2, <2>1, <2>2, ReplaceFollows
<1>5. ASSUME NEW ph \in Phones, NEW target \in {"DRAFT", "PENDING_SEND", "SIGNED"}, Save(c, ph, target)
      PROVE  \A d \in Contracts : Follows(d)
  <2> DEFINE s == contract[c].staff
             joined == Joined(s)
             correction == contract[c].st = "CORRECTION_REQUESTED"
             R == InProgressAt(ph, c)
             keeps == target # "DRAFT" /\ (correction \/ (joined /\ contract[c].renews)) /\ ph = staff[s].phone
             act == IF target = "DRAFT" THEN "NONE" ELSE IF keeps THEN contract[c].act ELSE Judged(ph)
             cand == IF target = "DRAFT" THEN NoOne
                     ELSE IF keeps THEN staff[s].cand ELSE JudgedCandidate(ph)
             status == IF target = "PENDING_SEND" THEN DeliveredStatusOf(joined, act) ELSE target
             channel == ChannelOf(joined, act)
             rec == IF joined THEN staff[s] ELSE [staff[s] EXCEPT !.phone = ph, !.cand = cand]
             row == [contract[c] EXCEPT !.st = status, !.act = act]
             sent == [row EXCEPT !.st = status, !.act = act, !.sent = stamps + 1,
                                 !.due = IF channel = "AFFILIATION" THEN Never ELSE stamps + 1]
  <2>1. /\ contract[c].st \in {"DRAFT", "CORRECTION_REQUESTED"}
        /\ contract[c].st = "CORRECTION_REQUESTED" => target = "PENDING_SEND"
    BY <1>5 DEF Save
  <2>2. IF target = "PENDING_SEND"
        THEN \E log : Replace(R, c, Sent(row, status, act, channel), log, s,
                              Offered(rec, channel, staff[s].join))
        ELSE \E log : Replace(R, c, row, log, s, rec)
    BY <1>5 DEF Save
  <2>3. row.st = status /\ Sent(row, status, act, channel).st = status
    <3> HIDE DEF status, act, channel
    <3> QED
      BY <1>2 DEF ContractRow, Sent
  <2>4. status # contract[c].st => CanTransition(contract[c].st, status)
    <3>1. CASE target = "PENDING_SEND"
      <4>1. status \in {"PENDING_SEND", "PENDING_SIGNATURE"}
        BY <3>1 DEF DeliveredStatusOf
      <4> QED
        BY <2>1, <4>1, TableAt
    <3>2. CASE target # "PENDING_SEND"
      BY <2>1, <3>2, TableAt
    <3> QED
      BY <3>1, <3>2
  <2> HIDE DEF R, row, status, act, channel, rec, s
  <2> QED
    BY <1>1, <1>2, <2>2, <2>3, <2>4, ReplaceFollows DEF R
<1>6. ASSUME NEW ph \in Phones, UpdateWorker(c, ph)
      PROVE  \A d \in Contracts : Follows(d)
  <2> DEFINE s == contract[c].staff
             joined == Joined(s)
             phoneChanged == ph # staff[s].phone
             R == IF phoneChanged THEN InProgressAt(ph, c) ELSE {}
             act == IF joined THEN contract[c].act ELSE Judged(ph)
             status == DeliveredStatusOf(joined, act)
             channel == ChannelOf(joined, act)
  <2>1. \E log, rec : Replace(R, c, Sent(contract[c], status, act, channel), log, s, rec)
    BY <1>6 DEF UpdateWorker
  <2>2. status # contract[c].st => CanTransition(contract[c].st, status)
    BY <1>6 DEF UpdateWorker
  <2>3. \A d \in R : contract[d].st \in InProgress
    BY <1>1
  <2> HIDE DEF R, status, act, channel, s
  <2> QED
    BY <1>2, <1>3, <2>1, <2>2, <2>3, ReplaceFollows
<1>7. ASSUME Resend(c)
      PROVE  \A d \in Contracts : Follows(d)
  <2> DEFINE s == contract[c].staff
             joined == Joined(s)
             reopened == contract[c].st \in ReopenedStatuses
             act == IF joined THEN contract[c].act ELSE Judged(staff[s].phone)
             channel == ChannelOf(joined, act)
             status == IF joined \/ reopened \/ channel = "AFFILIATION"
                       THEN DeliveredStatusOf(joined, act) ELSE contract[c].st
  <2>1. \E log, rec : Replace({}, c, Sent(contract[c], status, act, channel), log, s, rec)
    BY <1>7 DEF Resend
  <2>2. status # contract[c].st => CanTransition(contract[c].st, status)
    BY <1>7 DEF Resend
  <2> HIDE DEF status, act, channel, s
  <2> QED
    BY <1>2, <1>3, <2>1, <2>2, ReplaceFollows
<1> QED
  BY <1>4, <1>5, <1>6, <1>7

\* Whom a final retirement or the nightly batch moves, it moves along the table.
LEMMA FinalizedFollows ==
  ASSUME OfferInv, NEW s, Finalized(s)
  PROVE  \A c \in Contracts : Follows(c)
<1> SUFFICES ASSUME NEW c \in Contracts, contract'[c] # contract[c]
             PROVE  CanTransition(contract[c].st, contract'[c].st)
  BY DEF Follows
<1>1. contract[c].st \in InProgress /\ contract'[c] = [contract[c] EXCEPT !.st = "ENDED"]
  BY DEF Finalized
<1>2. contract'[c].st = "ENDED"
  BY <1>1 DEF OfferInv, IInv, TypeOK, ContractRow
<1> QED
  BY <1>1, <1>2, TableAt

LEMMA AdminFollows ==
  ASSUME OfferInv, Admin
  PROVE  \A c \in Contracts : Follows(c)
<1>1. IInv /\ \A c \in Contracts : contract[c] \in ContractRow
  BY DEF OfferInv, IInv, TypeOK
<1>2. ASSUME NEW c \in Contracts, End(c)
      PROVE  \A d \in Contracts : Follows(d)
  BY <1>1, <1>2, TableAt DEF End, Follows, ContractRow, InProgress, IInv, TypeOK
<1>3. ASSUME NEW c \in Contracts, Remove(c)
      PROVE  \A d \in Contracts : Follows(d)
  BY <1>1, <1>3 DEF Remove, Follows, DeletedContract, IInv, TypeOK
<1>4. ASSUME NEW s \in Leavers, NEW past \in BOOLEAN, Retire(s, past)
      PROVE  \A d \in Contracts : Follows(d)
  BY <1>1, <1>4, FinalizedFollows DEF Retire, Follows
<1>5. ASSUME NEW s \in Staff, CancelRetirement(s)
      PROVE  \A d \in Contracts : Follows(d)
  BY <1>5 DEF CancelRetirement, Follows
<1> QED
  BY <1>2, <1>3, <1>4, <1>5, SendsFollow DEF Admin

LEMMA WorkerFollows ==
  ASSUME OfferInv, Worker
  PROVE  \A c \in Contracts : Follows(c)
<1>1. \A c \in Contracts : contract[c] \in ContractRow
  BY DEF OfferInv, IInv, TypeOK
<1>2. ASSUME NEW s, NEW to \in {"PENDING_SIGNATURE", "REJECTED"}, NEW due, MoveWaiting(s, to, due)
      PROVE  \A c \in Contracts : Follows(c)
  <2> SUFFICES ASSUME NEW c \in Contracts, contract'[c] # contract[c]
               PROVE  CanTransition(contract[c].st, contract'[c].st)
    BY DEF Follows
  <2>1. /\ contract[c].st = "PENDING_SEND"
        /\ contract'[c] = [contract[c] EXCEPT !.st = to, !.due = IF due = Never THEN @ ELSE due]
    BY <1>2 DEF MoveWaiting
  <2>2. contract'[c].st = to
    BY <1>1, <2>1 DEF ContractRow
  <2> QED
    BY <2>1, <2>2, TableAt
<1>3. ASSUME NEW c \in Contracts, NEW to \in {"SIGNED", "REJECTED", "CORRECTION_REQUESTED"}, Decide(c, to)
      PROVE  \A d \in Contracts : Follows(d)
  BY <1>1, <1>3, TableAt DEF Decide, Follows, ContractRow, OfferInv, IInv, TypeOK
<1>4. ASSUME UNCHANGED contract
      PROVE  \A d \in Contracts : Follows(d)
  BY <1>4 DEF Follows
<1> QED
  BY <1>2, <1>3, <1>4 DEF Worker, Signup, SignupUnderAge, AcceptForAccount, AcceptRequest, RejectRequest

LEMMA NightlyFollows ==
  ASSUME OfferInv, Nightly
  PROVE  \A c \in Contracts : Follows(c)
<1>1. ASSUME NEW over \in SUBSET SignedContracts, RunDaily(over)
      PROVE  \A c \in Contracts : Follows(c)
  <2> SUFFICES ASSUME NEW c \in Contracts, contract'[c] # contract[c]
               PROVE  CanTransition(contract[c].st, contract'[c].st)
    BY DEF Follows
  <2>1. \/ /\ contract[c].st = "PENDING_SIGNATURE"
           /\ contract'[c] = [contract[c] EXCEPT !.st = "EXPIRED"]
        \/ contract[c].st = "SIGNED" /\ contract'[c] = [contract[c] EXCEPT !.st = "ENDED"]
    BY <1>1 DEF RunDaily, SignedContracts
  <2>2. contract[c] \in ContractRow
    BY DEF OfferInv, IInv, TypeOK
  <2> QED
    BY <2>1, <2>2, TableAt DEF ContractRow
<1> QED
  BY <1>1, FinalizedFollows DEF Nightly, RetireDue

\* Undo turns back what waits, to a draft or to what its send found.
UndoneBy(p, c) ==
  /\ p \in pending \ pending' /\ p.contract = c /\ p.stage = "undoing"
  /\ contract[c].st = "PENDING_SEND" /\ contract'[c].st \in {"DRAFT", p.before.st}

LEMMA UndoFollows ==
  ASSUME OfferInv, NEW p \in pending, Undo(p), NEW c \in Contracts
  PROVE  Follows(c) \/ UndoneBy(p, c)
<1>1. CASE contract'[c] = contract[c]
  BY <1>1 DEF Follows
<1>2. CASE contract'[c] # contract[c]
  <2> DEFINE live == Revived(p) # {} \/ Live(p.staff) \ {p.send} # {}
             restored == RestoredStatusOf(p, live)
  <2>1. ~Answered(p.send) /\ ~Overtaken(p) /\ TurnBack(p) /\ p.stage = "undoing" /\ p \notin pending'
    BY <1>2 DEF Undo, Done
  <2>2. p.contract = c
    BY <1>2, <2>1 DEF TurnBack, OfferInv, IInv, TypeOK
  <2>3. contract[c].st = "PENDING_SEND"
    BY <2>1, <2>2, UndoFinds DEF Waits
  <2>4. contract'[c].st = restored
    <3>1. contract[c] \in ContractRow /\ contract \in [Contracts -> ContractRow]
      BY DEF OfferInv, IInv, TypeOK
    <3>2. contract' = [contract EXCEPT ![c] =
            [@ EXCEPT !.st = restored,
                      !.sent = IF restored = "DRAFT" THEN Never ELSE p.before.sent,
                      !.due = IF restored = "DRAFT" THEN Never ELSE p.before.due,
                      !.act = IF RejudgedOf(p) THEN p.kind ELSE p.before.act]]
      BY <2>1, <2>2 DEF TurnBack
    <3> HIDE DEF restored
    <3> QED
      BY <3>1, <3>2 DEF ContractRow
  <2>5. restored \in {"DRAFT", p.before.st}
    BY DEF RestoredStatusOf
  <2> QED
    BY <2>1, <2>2, <2>3, <2>4, <2>5 DEF UndoneBy
<1> QED
  BY <1>1, <1>2

LEMMA NextFollows ==
  ASSUME OfferInv, [Next]_vars, NEW c \in Contracts
  PROVE  Follows(c) \/ \E p \in pending \ pending' : UndoneBy(p, c)
<1>1. CASE UNCHANGED contract
  BY <1>1 DEF Follows
<1>2. CASE Delivery
  <2>1. ASSUME NEW p \in pending, Undo(p)
        PROVE  Follows(c) \/ \E q \in pending \ pending' : UndoneBy(q, c)
    BY <2>1, UndoFollows DEF UndoneBy
  <2> QED
    BY <1>1, <1>2, <2>1 DEF Delivery, DispatchReread, AlimtalkAccepted, AlimtalkFailed,
                            AlimtalkUnconfirmed, UndoError, Abandoned, rows
<1>3. CASE Environment
  BY <1>1, <1>3 DEF Environment, AccountElsewhere, Lapse
<1> QED
  BY <1>1, <1>2, <1>3, AdminFollows, WorkerFollows, NightlyFollows DEF Next, vars

\* A status changes along TRANSITIONS only, or back by the undo of the very send that
\* had moved it, whichever requests, answers and batches come in between.
THEOREM StatusesFollowTheTable == Spec => StatusFollowsTable
<1>1. ASSUME OfferInv, [Next]_vars
      PROVE  [\A c \in Contracts :
                Exists(c) /\ contract'[c].st \notin {"GONE", contract[c].st} =>
                  \/ CanTransition(contract[c].st, contract'[c].st)
                  \/ \E p \in pending \ pending' :
                       /\ p.contract = c /\ p.stage = "undoing"
                       /\ contract[c].st = "PENDING_SEND"
                       /\ contract'[c].st \in {"DRAFT", p.before.st}]_vars
  BY <1>1, NextFollows DEF Follows, UndoneBy
<1> QED
  BY <1>1, OfferInvariant, PTL DEF Spec, StatusFollowsTable
=============================================================================
