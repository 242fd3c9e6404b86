---------------------------- MODULE PayslipProofs ----------------------------
(***************************************************************************)
(* Theorems about Payslip, for any finite number of administrators whose   *)
(* requests overlap.                                                       *)
(***************************************************************************)
EXTENDS Payslip, FiniteSetTheorems, TLAPS

-----------------------------------------------------------------------------
(* A fresh moment                                                          *)

LEMMA LeastExists ==
  ASSUME NEW S \in SUBSET Nat, S # {}
  PROVE  Min(S) \in S
<1>1. PICK x \in S : \A y \in S : ~(<<y, x>> \in OpToRel(<, Nat))
  BY NatLessThanWellFounded, WFMin
<1>2. ASSUME NEW y \in S, ~(x <= y)
      PROVE  FALSE
  <2>1. y < x /\ <<y, x>> \in Nat \X Nat
    BY <1>2
  <2>2. <<y, x>> \in {ss \in Nat \X Nat : ss[1] < ss[2]}
    BY <2>1
  <2> QED
    BY <1>1, <2>2 DEF OpToRel
<1> QED
  BY <1>2 DEF Min

\* A set with fewer members than there are moments leaves one over.
LEMMA OneIsLeft ==
  ASSUME NEW n \in Nat, NEW H, IsFiniteSet(H), Cardinality(H) < n
  PROVE  (1..n) \ H # {}
<1>1. IsFiniteSet(1..n) /\ Cardinality(1..n) = n
  BY FS_Interval
<1>2. Cardinality(H \cap (1..n)) <= Cardinality(H)
  BY FS_Intersection
<1>3. /\ IsFiniteSet((1..n) \ H)
      /\ Cardinality((1..n) \ H) = n - Cardinality((1..n) \cap H)
  BY <1>1, FS_Difference
<1>4. (1..n) \cap H = H \cap (1..n)
  OBVIOUS
<1>5. Cardinality((1..n) \ H) # 0
  <2>1. Cardinality(H) \in Nat /\ Cardinality(H \cap (1..n)) \in Nat
    BY FS_CardinalityType, FS_Intersection
  <2> QED
    BY <1>2, <1>3, <1>4, <2>1
<1> QED
  BY <1>3, <1>5, FS_EmptySet

\* The image of a finite set under a function has no more members.
LEMMA ImageIsSmall ==
  ASSUME NEW S, IsFiniteSet(S), NEW f, DOMAIN f = S, f = [x \in S |-> f[x]]
  PROVE  /\ IsFiniteSet({f[x] : x \in S})
         /\ Cardinality({f[x] : x \in S}) <= Cardinality(S)
<1>1. f \in Surjection(S, {f[x] : x \in S})
  BY DEF Surjection
<1> QED
  BY <1>1, FS_Surjection

LEMMA UnionIsSmall ==
  ASSUME NEW A, NEW B, IsFiniteSet(A), IsFiniteSet(B)
  PROVE  /\ IsFiniteSet(A \cup B) /\ Cardinality(A \cup B) <= Cardinality(A) + Cardinality(B)
         /\ {Cardinality(A), Cardinality(B), Cardinality(A \cup B)} \subseteq Nat
<1>1. IsFiniteSet(A \cup B)
      /\ Cardinality(A \cup B) = Cardinality(A) + Cardinality(B) - Cardinality(A \cap B)
  BY FS_Union
<1>2. Cardinality(A \cap B) \in Nat /\ Cardinality(A \cup B) \in Nat
  BY <1>1, FS_Intersection, FS_CardinalityType
<1>3. Cardinality(A) \in Nat /\ Cardinality(B) \in Nat
  BY FS_CardinalityType
<1> QED
  BY <1>1, <1>2, <1>3

LEMMA OneIsSmall ==
  /\ Cardinality({}) <= 1
  /\ \A x : IsFiniteSet({x}) /\ Cardinality({x}) <= 1
<1>1. \A x : IsFiniteSet({x}) /\ Cardinality({x}) = 1
  BY FS_Singleton
<1>2. Cardinality({}) = 0
  BY FS_EmptySet
<1> QED
  BY <1>1, <1>2

LEMMA ExclusionsAreFew ==
  ASSUME NEW n \in Nat, NEW H, NEW x, NEW S, NEW C,
         IsFiniteSet(H), Cardinality(H) <= 1,
         IsFiniteSet(S), Cardinality(S) <= n - 1, IsFiniteSet(C), Cardinality(C) <= n - 1
  PROVE  IsFiniteSet(H \cup {x} \cup S \cup C) /\ Cardinality(H \cup {x} \cup S \cup C) < 2 * n + 2
<1>1. IsFiniteSet({x}) /\ Cardinality({x}) <= 1
  BY OneIsSmall
<1> DEFINE P == H \cup {x}
           Q == P \cup S
           R == Q \cup C
<1>2. /\ IsFiniteSet(P) /\ Cardinality(P) <= Cardinality(H) + Cardinality({x})
      /\ {Cardinality(H), Cardinality({x}), Cardinality(P)} \subseteq Nat
  BY <1>1, UnionIsSmall
<1> HIDE DEF P
<1>3. /\ IsFiniteSet(Q) /\ Cardinality(Q) <= Cardinality(P) + Cardinality(S)
      /\ {Cardinality(S), Cardinality(Q)} \subseteq Nat
  BY <1>2, UnionIsSmall
<1> HIDE DEF Q
<1>4. /\ IsFiniteSet(R) /\ Cardinality(R) <= Cardinality(Q) + Cardinality(C)
      /\ {Cardinality(C), Cardinality(R)} \subseteq Nat
  BY <1>3, UnionIsSmall
<1> HIDE DEF R
<1>5. Cardinality(R) < 2 * n + 2
  BY <1>1, <1>2, <1>3, <1>4
<1> QED
  BY <1>4, <1>5 DEF P, Q, R

\* The moment a request takes is new: the row and the requests of others have none like it.
LEMMA FreshIsNew ==
  ASSUME NEW c \in Editors, NEW held, held = {} \/ held = {slip.version}
  PROVE  /\ FreshBut(c, held) \in Moments \ held
         /\ FreshBut(c, held) # slip.sending
         /\ \A d \in Editors \ {c} :
               /\ request[d] # Idle => FreshBut(c, held) # request[d].seen
               /\ Mailing(d) => FreshBut(c, held) # request[d].claimed
<1> DEFINE others == Editors \ {c}
           busy == {e \in others : request[e] # Idle}
           mailing == {e \in others : Mailing(e)}
           seen == [d \in busy |-> request[d].seen]
           claimed == [d \in mailing |-> request[d].claimed]
           S == {request[d].seen : d \in busy}
           C == {request[d].claimed : d \in mailing}
           H == held \cup {slip.sending} \cup S \cup C
           N == Cardinality(Editors)
<1>1. N \in Nat /\ IsFiniteSet(others) /\ Cardinality(others) = N - 1
  BY EditorsAssumption, FS_CardinalityType, FS_RemoveElement
<1>2. IsFiniteSet(busy) /\ Cardinality(busy) <= N - 1 /\ Cardinality(busy) \in Nat
  BY <1>1, FS_Subset, FS_CardinalityType
<1>3. IsFiniteSet(mailing) /\ Cardinality(mailing) <= N - 1 /\ Cardinality(mailing) \in Nat
  BY <1>1, FS_Subset, FS_CardinalityType
<1>4. IsFiniteSet(S) /\ Cardinality(S) <= N - 1 /\ Cardinality(S) \in Nat
  <2>1. S = {seen[x] : x \in busy}
    OBVIOUS
  <2>2. IsFiniteSet({seen[x] : x \in busy}) /\ Cardinality({seen[x] : x \in busy}) <= Cardinality(busy)
    <3> HIDE DEF busy
    <3> QED
      BY <1>2, ImageIsSmall
  <2>3. IsFiniteSet(S) /\ Cardinality(S) <= Cardinality(busy)
    BY <2>1, <2>2
  <2> QED
    BY <1>1, <1>2, <2>3, FS_CardinalityType
<1>5. IsFiniteSet(C) /\ Cardinality(C) <= N - 1 /\ Cardinality(C) \in Nat
  <2>1. C = {claimed[x] : x \in mailing}
    OBVIOUS
  <2>2. /\ IsFiniteSet({claimed[x] : x \in mailing})
        /\ Cardinality({claimed[x] : x \in mailing}) <= Cardinality(mailing)
    <3> HIDE DEF mailing
    <3> QED
      BY <1>3, ImageIsSmall
  <2>3. IsFiniteSet(C) /\ Cardinality(C) <= Cardinality(mailing)
    BY <2>1, <2>2
  <2> QED
    BY <1>1, <1>3, <2>3, FS_CardinalityType
<1>6. IsFiniteSet(H) /\ Cardinality(H) < 2 * N + 2
  <2>1. IsFiniteSet(held) /\ Cardinality(held) <= 1
    BY FS_EmptySet, OneIsSmall, Zenon
  <2> HIDE DEF S, C, N
  <2> QED
    BY <1>1, <1>4, <1>5, <2>1, ExclusionsAreFew
<1>7. Moments \ H # {} /\ Moments \ H \subseteq Nat
  BY <1>1, <1>6, OneIsLeft DEF Moments
<1>8. Min(Moments \ H) \in Moments \ H
  BY <1>7, LeastExists
<1>9. FreshBut(c, held) = Min(Moments \ H)
  BY DEF FreshBut
<1> QED
  BY <1>8, <1>9

-----------------------------------------------------------------------------
(* The inductive invariant                                                 *)

SlipRow == [status : Editable \cup Closed, version : Moments,
            sending : Moments \cup {NoOne}, overdue : BOOLEAN]
\* A request that has read its screen, and a send that has claimed the payslip.
Reading == [op : Operations, step : {"read"}, seen : Moments, status : Editable \cup Closed,
            premium : BOOLEAN, withholding : BOOLEAN]
Sending == [op : {"send"}, step : {"mailing", "mailed", "failed"},
            seen : Moments, claimed : Moments, late : BOOLEAN, touched : BOOLEAN]

Typed ==
    /\ slip \in SlipRow \cup {[status |-> "none"]}
    /\ paper \in Paper /\ reasons \in {"none", "open", "seen"}
    /\ request \in [Editors -> {Idle} \cup Reading \cup Sending]

\* Before it is drafted nothing is entered and nobody is at it.
NothingBefore ==
    ~Exists => /\ paper.tax = "blank" /\ paper.withheld = "blank" /\ paper.deducted = 0
               /\ \A c \in Editors : request[c] = Idle

\* What a request read of the flags is so still, if it read the moment the row of
\* an open payslip carries.
FlagsAreCurrent ==
    \A c \in Editors : request[c] \in Reading =>
        LET r == request[c]
        IN  /\ r.status \in (IF r.op \in {"save", "recalculate", "confirm"} THEN Editable ELSE Closed)
            /\ slip.status \in Editable /\ slip.version = r.seen =>
                  /\ r.op \in {"save", "recalculate"} => r.premium = paper.premium
                  /\ r.op \in {"recalculate", "confirm"} => r.withholding = paper.withholding

\* A payslip that carries the moment of a send is closed and has not been written
\* since; nor has it been if that moment may come back, by the release of a later
\* send that nothing was written behind.
ClaimedIsUntouched ==
    \A c \in Editors : Mailing(c) =>
        /\ slip.version = request[c].claimed => slip.status \in Closed /\ ~request[c].touched
        /\ \A e \in Editors :
              Mailing(e) /\ request[e].seen = request[c].claimed /\ ~request[e].touched
                => ~request[c].touched

\* Sends under way have moments of their own, and the mark is that of the one that
\* is not late.
MarkIsOfTheLatest ==
    \A c \in Editors : Mailing(c) =>
        /\ \A e \in Editors \ {c} : Mailing(e) => request[e].claimed # request[c].claimed
        /\ ~request[c].late =>
              /\ slip.sending = request[c].claimed /\ ~slip.overdue
              /\ \A e \in Editors \ {c} : Mailing(e) => slip.version # request[e].claimed

SlipInv ==
    /\ Typed /\ NothingBefore /\ FlagsAreCurrent /\ ClaimedIsUntouched /\ MarkIsOfTheLatest
    /\ ConfirmedAddsUp /\ OneSenderAtATime

-----------------------------------------------------------------------------
(* What a request is doing, and who is mailing                             *)

LEMMA RequestTells ==
  ASSUME Typed, NEW c \in Editors
  PROVE  /\ Mailing(c) <=> request[c] \in Sending
         /\ Waiting(c) <=> request[c] \in Reading
         /\ request[c] # Idle <=> Mailing(c) \/ Waiting(c)
         /\ \A op \in Operations : Accepted(c, op) => request[c] \in Reading /\ slip \in SlipRow
<1>1. request[c] \in {Idle} \cup Reading \cup Sending
  BY DEF Typed
<1>2. Idle.op = "none" /\ Idle \notin Reading /\ Idle \notin Sending
  BY DEF Idle, Reading, Sending, Operations
<1>3. \A r \in Reading : r.step = "read" /\ r \notin Sending
  BY DEF Reading, Sending
<1>4. \A r \in Sending : r.op = "send" /\ r.step \in {"mailing", "mailed", "failed"}
  BY DEF Sending
<1>5. Mailing(c) <=> request[c] \in Sending
  BY <1>1, <1>2, <1>3, <1>4 DEF Mailing
<1>6. slip.status # "none" => slip \in SlipRow
  BY DEF Typed
<1> QED
  BY <1>1, <1>2, <1>3, <1>4, <1>5, <1>6 DEF Waiting, Accepted, Exists, Operations

\* Nobody is at a payslip that is not there.
LEMMA BusyMeansDrafted ==
  ASSUME SlipInv, NEW c \in Editors, request[c] # Idle
  PROVE  slip \in SlipRow /\ Exists
<1>1. Exists
  BY DEF SlipInv, NothingBefore
<1> QED
  BY <1>1 DEF SlipInv, Typed, Exists

\* What a finished transaction makes of the other requests.
LEMMA TouchingTells ==
  ASSUME Typed, NEW c \in Editors, request' = Touching(c), Waiting(c)
  PROVE  /\ request' \in [Editors -> {Idle} \cup Reading \cup Sending]
         /\ request'[c] = Idle
         /\ \A d \in Editors \ {c} :
               /\ Mailing(d) => request'[d] = [request[d] EXCEPT !.touched = TRUE]
               /\ ~Mailing(d) => request'[d] = request[d]
         /\ \A d \in Editors : Mailing(d)' => d # c /\ Mailing(d)
<1>1. /\ request'[c] = Idle
      /\ \A d \in Editors \ {c} :
            /\ Mailing(d) => request'[d] = [request[d] EXCEPT !.touched = TRUE]
            /\ ~Mailing(d) => request'[d] = request[d]
  BY DEF Touching
<1>2. \A r \in Sending : [r EXCEPT !.touched = TRUE] \in Sending
  BY DEF Sending
<1>3. request' \in [Editors -> {Idle} \cup Reading \cup Sending]
  <2>1. ASSUME NEW d \in Editors
        PROVE  request'[d] \in {Idle} \cup Reading \cup Sending
    <3>1. CASE d = c
      BY <1>1, <3>1
    <3>2. CASE d # c /\ Mailing(d)
      <4>1. request[d] \in Sending
        BY <3>2, RequestTells
      <4>2. request'[d] \in Sending
        BY <1>1, <1>2, <3>2, <4>1
      <4> QED
        BY <4>2
    <3>3. CASE d # c /\ ~Mailing(d)
      <4>1. request'[d] = request[d]
        BY <1>1, <3>3
      <4> QED
        BY <4>1 DEF Typed
    <3> QED
      BY <3>1, <3>2, <3>3
  <2> QED
    BY <2>1 DEF Touching
<1>4. ASSUME NEW d \in Editors, Mailing(d)'
      PROVE  d # c /\ Mailing(d)
  <2>1. Idle.op # "send"
    BY DEF Idle
  <2>2. request'[d].op = "send" /\ request'[d].step \in {"mailing", "mailed", "failed"}
    BY <1>4 DEF Mailing
  <2>3. d # c
    BY <1>1, <2>1, <2>2
  <2>4. CASE ~Mailing(d)
    <3>1. request'[d] = request[d]
      BY <1>1, <2>3, <2>4
    <3> QED
      BY <2>2, <2>4, <3>1 DEF Mailing
  <2> QED
    BY <2>3, <2>4
<1> QED
  BY <1>1, <1>3, <1>4

-----------------------------------------------------------------------------
(* Steps                                                                   *)

\* A transaction that writes the payslip gives it a new moment, so that nothing that
\* was read before, and no send that claimed it before, goes by it any more.
LEMMA WritingKeeps ==
  ASSUME SlipInv, NEW c \in Editors, Waiting(c), NEW status \in Editable \cup Closed,
         slip' = Stamped(c, status), request' = Touching(c),
         paper' \in Paper, reasons' \in {"none", "open", "seen"}, ConfirmedAddsUp'
  PROVE  SlipInv'
<1>0. Typed /\ slip \in SlipRow /\ Exists /\ request[c] # Idle
  BY BusyMeansDrafted DEF SlipInv, Waiting
<1>1. /\ Fresh(c) \in Moments
      /\ \A d \in Editors \ {c} : /\ request[d] # Idle => Fresh(c) # request[d].seen
                                  /\ Mailing(d) => Fresh(c) # request[d].claimed
  BY FreshIsNew DEF Fresh
<1>2. slip' = [slip EXCEPT !.status = status, !.version = Fresh(c)]
  BY DEF Stamped
<1>3. /\ slip' \in SlipRow /\ slip'.status = status /\ slip'.version = Fresh(c)
      /\ slip'.sending = slip.sending /\ slip'.overdue = slip.overdue
  BY <1>0, <1>1, <1>2 DEF SlipRow
<1>4. /\ request' \in [Editors -> {Idle} \cup Reading \cup Sending]
      /\ request'[c] = Idle
      /\ \A d \in Editors \ {c} :
            /\ Mailing(d) => request'[d] = [request[d] EXCEPT !.touched = TRUE]
            /\ ~Mailing(d) => request'[d] = request[d]
      /\ \A d \in Editors : Mailing(d)' => d # c /\ Mailing(d)
  BY <1>0, TouchingTells
<1>5. \A d \in Editors : Mailing(d)' =>
         /\ d # c /\ Mailing(d) /\ request'[d].touched
         /\ request'[d].claimed = request[d].claimed /\ request'[d].seen = request[d].seen
         /\ request'[d].late = request[d].late
  BY <1>0, <1>4, RequestTells DEF Sending
<1>6. Typed' /\ NothingBefore'
  BY <1>3, <1>4 DEF Typed, NothingBefore, Exists, SlipRow, Editable, Closed
<1>7. FlagsAreCurrent'
  <2>1. ASSUME NEW d \in Editors, request'[d] \in Reading
        PROVE  d # c /\ request'[d] = request[d] /\ slip'.version # request[d].seen
    <3>1. d # c /\ ~Mailing(d)
      BY <1>0, <1>4, <2>1, RequestTells DEF Reading, Sending, Idle, Operations
    <3>2. request[d] # Idle
      BY <1>4, <2>1, <3>1 DEF Reading, Idle, Operations
    <3> QED
      BY <1>1, <1>3, <1>4, <3>1, <3>2
  <2> QED
    BY <2>1 DEF SlipInv, FlagsAreCurrent
<1>8. ClaimedIsUntouched'
  BY <1>1, <1>3, <1>5 DEF SlipInv, ClaimedIsUntouched
<1>9. MarkIsOfTheLatest'
  BY <1>1, <1>3, <1>5 DEF SlipInv, MarkIsOfTheLatest
<1>10. OneSenderAtATime'
  BY <1>5 DEF SlipInv, OneSenderAtATime
<1> QED
  BY <1>6, <1>7, <1>8, <1>9, <1>10 DEF SlipInv

\* A request that ends or begins without touching the payslip.
LEMMA StartingKeeps ==
  ASSUME SlipInv, NEW c \in Editors, ~Mailing(c), Exists, NEW r \in {Idle} \cup Reading,
         request' = [request EXCEPT ![c] = r], UNCHANGED <<slip, paper, reasons>>,
         r \in Reading =>
           /\ r.status \in (IF r.op \in {"save", "recalculate", "confirm"} THEN Editable ELSE Closed)
           /\ r.op \in {"save", "recalculate"} => r.premium = paper.premium
           /\ r.op \in {"recalculate", "confirm"} => r.withholding = paper.withholding
  PROVE  SlipInv'
<1>1. /\ request' \in [Editors -> {Idle} \cup Reading \cup Sending]
      /\ request'[c] = r /\ \A d \in Editors \ {c} : request'[d] = request[d]
  BY DEF SlipInv, Typed
<1>2. Typed' /\ NothingBefore' /\ ConfirmedAddsUp'
  BY <1>1 DEF SlipInv, Typed, NothingBefore, ConfirmedAddsUp, Exists
<1>3. r.op # "send" \/ r.step = "read" \/ r = Idle
  BY DEF Reading
<1>4. \A d \in Editors : Mailing(d)' => d # c /\ Mailing(d) /\ request'[d] = request[d]
  BY <1>1, <1>3 DEF Mailing, Idle
<1>5. FlagsAreCurrent'
  BY <1>1 DEF SlipInv, FlagsAreCurrent, Idle, Reading, Operations
<1>6. ClaimedIsUntouched' /\ MarkIsOfTheLatest' /\ OneSenderAtATime'
  BY <1>4 DEF SlipInv, ClaimedIsUntouched, MarkIsOfTheLatest, OneSenderAtATime
<1> QED
  BY <1>2, <1>5, <1>6 DEF SlipInv

\* A send takes a moment of its own, and meets no other send that is not late.
LEMMA ClaimKeeps ==
  ASSUME SlipInv, NEW c \in Editors, Claim(c)
  PROVE  SlipInv'
<1> DEFINE claimedAt == FreshBut(c, {slip.version})
           r == request[c]
           n == [op |-> "send", step |-> "mailing", seen |-> r.seen, claimed |-> claimedAt,
                 late |-> FALSE, touched |-> FALSE]
<1>0. Typed /\ r \in Reading /\ slip \in SlipRow /\ Exists /\ slip.version = r.seen
      /\ r.op = "send" /\ slip.status = r.status
  BY RequestTells DEF SlipInv, Claim, Accepted, Operations
<1>1. /\ claimedAt \in Moments /\ claimedAt # slip.version
      /\ \A d \in Editors \ {c} : /\ request[d] # Idle => claimedAt # request[d].seen
                                  /\ Mailing(d) => claimedAt # request[d].claimed
  BY FreshIsNew
<1> HIDE DEF claimedAt
<1>2. slip' = [slip EXCEPT !.version = claimedAt, !.sending = claimedAt, !.overdue = FALSE]
      /\ request' = [request EXCEPT ![c] = n] /\ UNCHANGED <<paper, reasons>>
  BY DEF Claim, claimedAt
<1>3. slip.status \in Closed /\ slip' \in SlipRow /\ slip'.status = slip.status
      /\ slip'.version = claimedAt /\ slip'.sending = claimedAt /\ ~slip'.overdue
  BY <1>0, <1>1, <1>2 DEF SlipRow, SlipInv, FlagsAreCurrent
<1>4. n \in Sending /\ n.seen = slip.version /\ n.claimed = claimedAt /\ ~n.late /\ ~n.touched
  BY <1>0, <1>1 DEF Sending, Reading
<1> HIDE DEF n
<1>5. /\ request' \in [Editors -> {Idle} \cup Reading \cup Sending] /\ request'[c] = n
      /\ \A d \in Editors \ {c} : request'[d] = request[d]
  BY <1>0, <1>2, <1>4 DEF Typed
<1>6. \A d \in Editors \ {c} : Mailing(d)' <=> Mailing(d)
  BY <1>5 DEF Mailing
<1>7. \A d \in Editors \ {c} : Mailing(d) => request[d].late
  <2>1. NobodySends
    BY DEF Claim
  <2>2. \A m \in Moments : m # NoOne
    BY DEF Moments, NoOne
  <2> QED
    BY <1>0, <2>1, <2>2, RequestTells DEF NobodySends, SlipInv, MarkIsOfTheLatest, Sending
<1>8. Typed' /\ NothingBefore'
  BY <1>2, <1>3, <1>5 DEF SlipInv, Typed, NothingBefore, Exists, Closed
<1>9. FlagsAreCurrent'
  <2>1. n \notin Reading
    BY <1>4 DEF Reading, Sending
  <2> QED
    BY <1>2, <1>3, <1>5, <2>1 DEF SlipInv, FlagsAreCurrent, Editable, Closed
<1>10. ClaimedIsUntouched'
  <2> SUFFICES ASSUME NEW d \in Editors, Mailing(d)'
               PROVE  /\ slip'.version = request'[d].claimed =>
                            slip'.status \in Closed /\ ~request'[d].touched
                      /\ \A e \in Editors :
                            Mailing(e)' /\ request'[e].seen = request'[d].claimed
                               /\ ~request'[e].touched => ~request'[d].touched
    BY DEF ClaimedIsUntouched
  <2>1. CASE d = c
    BY <1>3, <1>4, <1>5, <2>1
  <2>2. CASE d # c
    <3>1. Mailing(d) /\ request'[d] = request[d] /\ slip'.version # request[d].claimed
      BY <1>1, <1>3, <1>5, <1>6, <2>2
    <3>2. ASSUME NEW e \in Editors, Mailing(e)', request'[e].seen = request[d].claimed,
                 ~request'[e].touched
          PROVE  ~request[d].touched
      <4>1. CASE e = c
        BY <1>4, <1>5, <3>1, <3>2, <4>1 DEF SlipInv, ClaimedIsUntouched
      <4>2. CASE e # c
        BY <1>5, <1>6, <3>1, <3>2, <4>2 DEF SlipInv, ClaimedIsUntouched
      <4> QED
        BY <4>1, <4>2
    <3> QED
      BY <3>1, <3>2
  <2> QED
    BY <2>1, <2>2
<1>11. MarkIsOfTheLatest'
  BY <1>1, <1>3, <1>4, <1>5, <1>6, <1>7 DEF SlipInv, MarkIsOfTheLatest
<1>12. OneSenderAtATime'
  BY <1>5, <1>6, <1>7 DEF SlipInv, OneSenderAtATime
<1>13. ConfirmedAddsUp'
  BY <1>0, <1>2, <1>3 DEF SlipInv, ConfirmedAddsUp, Exists, Editable, Closed
<1> QED
  BY <1>8, <1>9, <1>10, <1>11, <1>12, <1>13 DEF SlipInv

\* The mail server answers.
LEMMA MailKeeps ==
  ASSUME SlipInv, NEW c \in Editors, NEW answer \in {"mailed", "failed"}, Mail(c, answer)
  PROVE  SlipInv'
<1>1. request[c] \in Sending /\ Typed /\ Mailing(c)
  BY RequestTells DEF SlipInv, Mail
<1>2. request' = [request EXCEPT ![c] = [request[c] EXCEPT !.step = answer]]
      /\ UNCHANGED <<slip, paper, reasons>>
  BY DEF Mail
<1>3. [request[c] EXCEPT !.step = answer] \in Sending
  BY <1>1 DEF Sending
<1>4. /\ request' \in [Editors -> {Idle} \cup Reading \cup Sending]
      /\ \A d \in Editors \ {c} : request'[d] = request[d]
      /\ request'[c] \in Sending /\ request'[c].seen = request[c].seen
      /\ request'[c].claimed = request[c].claimed /\ request'[c].late = request[c].late
      /\ request'[c].touched = request[c].touched
  BY <1>1, <1>2, <1>3 DEF Typed, Sending
<1>5. \A d \in Editors :
         /\ Mailing(d)' <=> Mailing(d)
         /\ Mailing(d) => /\ request'[d].seen = request[d].seen
                          /\ request'[d].claimed = request[d].claimed
                          /\ request'[d].late = request[d].late
                          /\ request'[d].touched = request[d].touched
  BY <1>1, <1>4 DEF Mailing, Sending
<1>6. Typed' /\ NothingBefore' /\ ConfirmedAddsUp'
  BY <1>1, <1>2, <1>4, BusyMeansDrafted, RequestTells
     DEF SlipInv, Typed, NothingBefore, ConfirmedAddsUp, Exists
<1>7. FlagsAreCurrent'
  BY <1>2, <1>4 DEF SlipInv, FlagsAreCurrent, Sending, Reading
<1>8. ClaimedIsUntouched' /\ MarkIsOfTheLatest' /\ OneSenderAtATime'
  BY <1>2, <1>5 DEF SlipInv, ClaimedIsUntouched, MarkIsOfTheLatest, OneSenderAtATime
<1> QED
  BY <1>6, <1>7, <1>8 DEF SlipInv

\* Five minutes later a send that holds the mark is late.
LEMMA ExpireKeeps ==
  ASSUME SlipInv, Expire
  PROVE  SlipInv'
<1>1. Typed /\ slip \in SlipRow /\ UNCHANGED <<paper, reasons>>
      /\ slip' = [slip EXCEPT !.overdue = TRUE]
  BY DEF SlipInv, Typed, Expire, Exists
<1>2. /\ slip' \in SlipRow /\ slip'.status = slip.status /\ slip'.version = slip.version
      /\ slip'.sending = slip.sending /\ slip'.overdue
  BY <1>1 DEF SlipRow
<1>3. \A r \in Sending : [r EXCEPT !.late = TRUE] \in Sending
  BY DEF Sending
<1>4. ASSUME NEW d \in Editors
      PROVE  /\ Mailing(d) /\ request[d].claimed = slip.sending
                  => request'[d] = [request[d] EXCEPT !.late = TRUE]
             /\ ~(Mailing(d) /\ request[d].claimed = slip.sending) => request'[d] = request[d]
  BY DEF Expire
<1>5. \A d \in Editors : ~Mailing(d) => request'[d] = request[d]
  BY <1>4
<1>6. \A d \in Editors : Mailing(d) =>
         /\ request'[d] \in Sending /\ request[d] \in Sending
         /\ request'[d].seen = request[d].seen
         /\ request'[d].claimed = request[d].claimed /\ request'[d].touched = request[d].touched
         /\ ~request'[d].late => ~request[d].late /\ request[d].claimed # slip.sending
  <2> SUFFICES ASSUME NEW d \in Editors, Mailing(d)
               PROVE  /\ request'[d] \in Sending /\ request[d] \in Sending
                      /\ request'[d].seen = request[d].seen
                      /\ request'[d].claimed = request[d].claimed
                      /\ request'[d].touched = request[d].touched
                      /\ ~request'[d].late =>
                            ~request[d].late /\ request[d].claimed # slip.sending
    OBVIOUS
  <2>1. request[d] \in Sending
    BY <1>1, RequestTells
  <2>2. CASE request[d].claimed = slip.sending
    <3>1. request'[d] = [request[d] EXCEPT !.late = TRUE]
      BY <1>4, <2>2
    <3>2. \A r \in Sending : LET n == [r EXCEPT !.late = TRUE]
                            IN  n.seen = r.seen /\ n.claimed = r.claimed
                                /\ n.touched = r.touched /\ n.late
      BY DEF Sending
    <3> QED
      BY <1>3, <2>1, <3>1, <3>2
  <2>3. CASE request[d].claimed # slip.sending
    BY <1>4, <2>1, <2>3
  <2> QED
    BY <2>2, <2>3
<1>7. request' \in [Editors -> {Idle} \cup Reading \cup Sending]
  <2>1. \A d \in Editors : request'[d] \in {Idle} \cup Reading \cup Sending
    BY <1>1, <1>5, <1>6 DEF Typed
  <2> QED
    BY <2>1 DEF Expire
<1>8. \A d \in Editors : Mailing(d)' <=> Mailing(d)
  BY <1>5, <1>6 DEF Mailing, Sending
<1>9. \A d \in Editors : Mailing(d) => request'[d].late
  BY <1>6 DEF SlipInv, MarkIsOfTheLatest
<1>10. Typed' /\ NothingBefore' /\ ConfirmedAddsUp'
  BY <1>1, <1>2, <1>7 DEF SlipInv, Typed, NothingBefore, ConfirmedAddsUp, Exists, SlipRow,
                          Editable, Closed
<1>11. FlagsAreCurrent'
  <2>1. \A d \in Editors : request'[d] \in Reading => request'[d] = request[d]
    BY <1>5, <1>6 DEF Reading, Sending
  <2> QED
    BY <1>1, <1>2, <2>1 DEF SlipInv, FlagsAreCurrent
<1>12. ClaimedIsUntouched' /\ MarkIsOfTheLatest' /\ OneSenderAtATime'
  BY <1>2, <1>6, <1>8, <1>9 DEF SlipInv, ClaimedIsUntouched, MarkIsOfTheLatest, OneSenderAtATime
<1> QED
  BY <1>10, <1>11, <1>12 DEF SlipInv

\* A send that ends leaves the row alone, or finds its own mark or moment there.
LEMMA EndingKeeps ==
  ASSUME SlipInv, NEW c \in Editors, Mailing(c),
         request' = [request EXCEPT ![c] = Idle], UNCHANGED <<paper, reasons>>,
         \/ slip' = slip
         \/ /\ slip.sending = request[c].claimed \/ slip.version = request[c].claimed
            /\ slip' \in SlipRow
            /\ slip'.status = slip.status \/ (slip.status \in Closed /\ slip'.status = "SENT")
            /\ \/ slip'.version = Fresh(c)
               \/ slip.version = request[c].claimed /\ slip'.version = request[c].seen
  PROVE  SlipInv'
<1>0. Typed /\ request[c] \in Sending /\ slip \in SlipRow /\ Exists /\ request[c] # Idle
  BY RequestTells, BusyMeansDrafted DEF SlipInv
<1>1. \A d \in Editors \ {c} : /\ request[d] # Idle => Fresh(c) # request[d].seen
                               /\ Mailing(d) => Fresh(c) # request[d].claimed
  BY FreshIsNew DEF Fresh
<1>2. /\ request' \in [Editors -> {Idle} \cup Reading \cup Sending] /\ request'[c] = Idle
      /\ \A d \in Editors \ {c} : request'[d] = request[d]
  BY <1>0 DEF Typed
<1>3. \A d \in Editors : Mailing(d)' => d # c /\ Mailing(d) /\ request'[d] = request[d]
  <2>1. Idle.op # "send"
    BY DEF Idle
  <2> QED
    BY <1>2, <2>1 DEF Mailing
<1>4. slip' # slip => \A d \in Editors : Mailing(d)' => request[d].late
  BY <1>3 DEF SlipInv, MarkIsOfTheLatest
<1>5. slip' \in SlipRow /\ (slip'.status \in Closed <=> slip.status \in Closed)
  BY <1>0 DEF Closed
<1>6. Typed' /\ NothingBefore'
  BY <1>0, <1>2, <1>5 DEF Typed, NothingBefore, Exists, SlipRow, Editable, Closed
<1>7. ConfirmedAddsUp'
  <2>1. slip'.status \in Editable <=> slip.status \in Editable
    BY <1>0, <1>5 DEF SlipRow, Editable, Closed
  <2>2. Exists'
    BY <1>5 DEF Exists, SlipRow, Editable, Closed
  <2> QED
    BY <1>0, <1>5, <2>1, <2>2 DEF SlipInv, ConfirmedAddsUp
<1>8. FlagsAreCurrent'
  <2> SUFFICES ASSUME NEW d \in Editors, request'[d] \in Reading
               PROVE  LET r == request'[d]
                      IN  /\ r.status \in (IF r.op \in {"save", "recalculate", "confirm"}
                                           THEN Editable ELSE Closed)
                          /\ slip'.status \in Editable /\ slip'.version = r.seen =>
                                /\ r.op \in {"save", "recalculate"} => r.premium = paper'.premium
                                /\ r.op \in {"recalculate", "confirm"} =>
                                      r.withholding = paper'.withholding
    BY DEF FlagsAreCurrent
  <2>1. d # c /\ request'[d] = request[d] /\ request[d] # Idle
    BY <1>2 DEF Reading, Idle, Operations
  <2>2. CASE slip' = slip
    BY <2>1, <2>2 DEF SlipInv, FlagsAreCurrent
  <2>3. CASE slip' # slip /\ slip'.version = Fresh(c)
    BY <1>1, <2>1, <2>3 DEF SlipInv, FlagsAreCurrent
  <2>4. CASE slip' # slip /\ slip.version = request[c].claimed
    <3>1. slip'.status \notin Editable
      BY <1>5, <2>4 DEF SlipInv, ClaimedIsUntouched, Editable, Closed
    <3> QED
      BY <2>1, <3>1 DEF SlipInv, FlagsAreCurrent
  <2> QED
    BY <2>2, <2>3, <2>4
<1>9. ClaimedIsUntouched'
  <2>1. \A d \in Editors : Mailing(d)' =>
           \A e \in Editors : Mailing(e)' /\ request'[e].seen = request'[d].claimed
                                 /\ ~request'[e].touched => ~request'[d].touched
    BY <1>3 DEF SlipInv, ClaimedIsUntouched
  <2>2. ASSUME NEW d \in Editors, Mailing(d)', slip'.version = request'[d].claimed
        PROVE  slip'.status \in Closed /\ ~request'[d].touched
    <3>1. d # c /\ Mailing(d) /\ request'[d] = request[d]
      BY <1>3, <2>2
    <3>2. CASE slip' = slip
      BY <2>2, <3>1, <3>2 DEF SlipInv, ClaimedIsUntouched
    <3>3. CASE slip' # slip /\ slip'.version # Fresh(c)
      <4>1. slip.version = request[c].claimed /\ slip'.version = request[c].seen
        BY <3>3
      <4>2. slip.status \in Closed /\ ~request[c].touched
        BY <4>1 DEF SlipInv, ClaimedIsUntouched
      <4>3. ~request[d].touched
        BY <2>2, <3>1, <4>1, <4>2 DEF SlipInv, ClaimedIsUntouched
      <4> QED
        BY <1>5, <3>1, <4>2, <4>3
    <3> QED
      BY <1>1, <2>2, <3>1, <3>2, <3>3
  <2> QED
    BY <2>1, <2>2 DEF ClaimedIsUntouched
<1>10. MarkIsOfTheLatest'
  <2>1. CASE slip' = slip
    BY <1>3, <2>1 DEF SlipInv, MarkIsOfTheLatest
  <2>2. CASE slip' # slip
    BY <1>3, <1>4, <2>2 DEF SlipInv, MarkIsOfTheLatest
  <2> QED
    BY <2>1, <2>2
<1>11. OneSenderAtATime'
  BY <1>3 DEF SlipInv, OneSenderAtATime
<1> QED
  BY <1>6, <1>7, <1>8, <1>9, <1>10, <1>11 DEF SlipInv

\* Clearing the mark stamps the row.
LEMMA UnmarkedTells ==
  ASSUME SlipInv, NEW c \in Editors, Mailing(c)
  PROVE  \/ Unmarked(c) = slip
         \/ /\ slip.sending = request[c].claimed /\ Unmarked(c) \in SlipRow
            /\ Unmarked(c).status = slip.status /\ Unmarked(c).version = Fresh(c)
<1>1. slip \in SlipRow /\ Fresh(c) \in Moments
  BY RequestTells, BusyMeansDrafted, FreshIsNew DEF SlipInv, Fresh
<1> QED
  BY <1>1 DEF Unmarked, SlipRow

LEMMA RecordKeeps ==
  ASSUME SlipInv, NEW c \in Editors, Record(c)
  PROVE  SlipInv'
<1>1. Mailing(c) /\ request' = [request EXCEPT ![c] = Idle] /\ UNCHANGED <<paper, reasons>>
  BY DEF Record
<1>2. slip \in SlipRow /\ Fresh(c) \in Moments
  BY <1>1, RequestTells, BusyMeansDrafted, FreshIsNew DEF SlipInv, Fresh
<1>3. CASE StillAsClaimed(c)
  <2>1. slip' = [slip EXCEPT !.status = "SENT", !.sending = NoOne, !.overdue = FALSE,
                             !.version = Fresh(c)]
    BY <1>3 DEF Record
  <2>2. slip' \in SlipRow /\ slip'.status = "SENT" /\ slip'.version = Fresh(c)
    BY <1>2, <2>1 DEF SlipRow, Closed
  <2> QED
    BY <1>1, <1>3, <2>2, EndingKeeps DEF StillAsClaimed
<1>4. CASE ~StillAsClaimed(c)
  <2>1. slip' = Unmarked(c)
    BY <1>4 DEF Record
  <2> QED
    BY <1>1, <2>1, UnmarkedTells, EndingKeeps
<1> QED
  BY <1>3, <1>4

LEMMA ReleaseKeeps ==
  ASSUME SlipInv, NEW c \in Editors, Release(c)
  PROVE  SlipInv'
<1>1. Mailing(c) /\ request' = [request EXCEPT ![c] = Idle] /\ UNCHANGED <<paper, reasons>>
  BY DEF Release
<1>2. slip \in SlipRow /\ request[c] \in Sending
  BY <1>1, RequestTells, BusyMeansDrafted DEF SlipInv
<1>3. CASE slip.version = request[c].claimed
  <2>1. slip' = [slip EXCEPT !.version = request[c].seen, !.sending = NoOne, !.overdue = FALSE]
    BY <1>3 DEF Release
  <2>2. slip' \in SlipRow /\ slip'.status = slip.status /\ slip'.version = request[c].seen
    BY <1>2, <2>1 DEF SlipRow, Sending
  <2> QED
    BY <1>1, <1>3, <2>2, EndingKeeps
<1>4. CASE slip.version # request[c].claimed
  <2>1. slip' = Unmarked(c)
    BY <1>4 DEF Release
  <2> QED
    BY <1>1, <2>1, UnmarkedTells, EndingKeeps
<1> QED
  BY <1>3, <1>4

\* A request that was accepted and holds the row: its flags are those of the row.
LEMMA AcceptedTells ==
  ASSUME SlipInv, NEW c \in Editors, NEW op \in Operations, Accepted(c, op)
  PROVE  /\ Waiting(c) /\ slip \in SlipRow /\ Exists
         /\ slip.status \in (IF op \in {"save", "recalculate", "confirm"} THEN Editable ELSE Closed)
         /\ op \in {"save", "recalculate"} => request[c].premium = paper.premium
         /\ op \in {"recalculate", "confirm"} => request[c].withholding = paper.withholding
         /\ reasons \in {"none", "open", "seen"} /\ paper \in Paper
<1>1. request[c] \in Reading /\ slip \in SlipRow /\ Waiting(c) /\ Exists
      /\ request[c].op = op /\ slip.status = request[c].status /\ slip.version = request[c].seen
  BY RequestTells DEF SlipInv, Accepted
<1>2. slip.status \in (IF op \in {"save", "recalculate", "confirm"} THEN Editable ELSE Closed)
  BY <1>1 DEF SlipInv, FlagsAreCurrent
<1>3. op \in {"save", "recalculate", "confirm"} => slip.status \in Editable
  BY <1>2
<1> QED
  BY <1>1, <1>2, <1>3 DEF SlipInv, Typed, FlagsAreCurrent

LEMMA SaveKeeps ==
  ASSUME SlipInv, NEW c \in Editors, NEW premium \in BOOLEAN, NEW withholding \in BOOLEAN,
         NEW tax \in Amount, NEW withheld \in Amount,
         Save(c, premium, withholding, tax, withheld)
  PROVE  SlipInv'
<1>1. /\ Waiting(c) /\ slip \in SlipRow /\ Exists /\ slip.status \in Editable
      /\ request[c].premium = paper.premium /\ paper \in Paper
  BY AcceptedTells DEF Save, Operations
<1> DEFINE lines == [paper EXCEPT
              !.premium = premium, !.withholding = withholding,
              !.overtime = IF Recalculates(c, premium) THEN premium ELSE @,
              !.tax = tax, !.withheld = withheld]
<1>2. /\ paper' = [lines EXCEPT !.deducted = TotalsOf(lines)]
      /\ slip' = Stamped(c, slip.status) /\ request' = Touching(c) /\ reasons' = reasons
  BY DEF Save
<1>3. paper.overtime = paper.premium /\ reasons # "seen"
  BY <1>1 DEF SlipInv, ConfirmedAddsUp
<1>4. /\ lines \in Paper /\ lines.overtime = lines.premium
  BY <1>1, <1>3 DEF Paper, Recalculates
<1>5. TotalsOf(lines) \in 0..2
  BY DEF TotalsOf, Weight
<1> HIDE DEF lines
<1>6. /\ paper' \in Paper /\ paper'.overtime = paper'.premium
      /\ paper'.deducted = TotalsOf(lines) /\ TotalsOf(paper') = TotalsOf(lines)
  BY <1>2, <1>4, <1>5 DEF Paper, TotalsOf
<1>7. slip'.status \in Editable /\ slip'.status \notin Closed
  BY <1>1, <1>2 DEF Stamped, SlipRow, Editable, Closed
<1>8. ConfirmedAddsUp'
  BY <1>2, <1>3, <1>6, <1>7 DEF ConfirmedAddsUp
<1> QED
  BY <1>1, <1>2, <1>6, <1>8, WritingKeeps DEF SlipInv, Typed

LEMMA RecalculateKeeps ==
  ASSUME SlipInv, NEW c \in Editors, NEW found \in {"none", "open"}, Recalculate(c, found)
  PROVE  SlipInv'
<1>1. /\ Waiting(c) /\ slip \in SlipRow /\ Exists /\ slip.status \in Editable /\ paper \in Paper
      /\ request[c].premium = paper.premium /\ request[c].withholding = paper.withholding
  BY AcceptedTells DEF Recalculate, Operations
<1> DEFINE lines == [paper EXCEPT !.overtime = request[c].premium]
           shown == [lines EXCEPT !.withholding = request[c].withholding]
<1>2. /\ paper' = [lines EXCEPT !.deducted = TotalsOf(shown)]
      /\ slip' = Stamped(c, slip.status) /\ request' = Touching(c) /\ reasons' = found
  BY DEF Recalculate
<1>3. /\ lines \in Paper /\ lines.overtime = lines.premium /\ shown = lines
  BY <1>1 DEF Paper
<1>4. TotalsOf(lines) \in 0..2
  BY DEF TotalsOf, Weight
<1> HIDE DEF lines, shown
<1>5. /\ paper' \in Paper /\ paper'.overtime = paper'.premium
      /\ paper'.deducted = TotalsOf(lines) /\ TotalsOf(paper') = TotalsOf(lines)
  BY <1>2, <1>3, <1>4 DEF Paper, TotalsOf
<1>6. slip'.status \in Editable /\ slip'.status \notin Closed
  BY <1>1, <1>2 DEF Stamped, SlipRow, Editable, Closed
<1>7. ConfirmedAddsUp'
  BY <1>2, <1>5, <1>6 DEF ConfirmedAddsUp
<1> QED
  BY <1>1, <1>2, <1>5, <1>7, WritingKeeps

LEMMA ConfirmKeeps ==
  ASSUME SlipInv, NEW c \in Editors, Confirm(c)
  PROVE  SlipInv'
<1>1. /\ Waiting(c) /\ slip \in SlipRow /\ Exists /\ slip.status \in Editable /\ paper \in Paper
      /\ request[c].withholding = paper.withholding /\ reasons \in {"none", "open", "seen"}
  BY AcceptedTells DEF Confirm, Operations
<1>2. /\ paper' = paper /\ slip' = Stamped(c, "CONFIRMED") /\ request' = Touching(c)
      /\ reasons' = IF reasons = "open" THEN "seen" ELSE reasons
  BY DEF Confirm
<1>3. "blank" \notin ShownDeductions(paper)
  <2>1. [paper EXCEPT !.withholding = request[c].withholding] = paper
    BY <1>1 DEF Paper
  <2> QED
    BY <2>1 DEF Confirm
<1>4. slip'.status = "CONFIRMED"
  BY <1>1, <1>2 DEF Stamped, SlipRow
<1>5. ConfirmedAddsUp'
  BY <1>1, <1>2, <1>3, <1>4 DEF SlipInv, ConfirmedAddsUp, TotalsOf, ShownDeductions, Editable
<1> QED
  BY <1>1, <1>2, <1>5, WritingKeeps DEF Closed

LEMMA CancelConfirmationKeeps ==
  ASSUME SlipInv, NEW c \in Editors, CancelConfirmation(c)
  PROVE  SlipInv'
<1>1. /\ Waiting(c) /\ slip \in SlipRow /\ Exists /\ paper \in Paper
      /\ reasons \in {"none", "open", "seen"}
  BY AcceptedTells DEF CancelConfirmation, Operations
<1>2. /\ paper' = paper /\ slip' = Stamped(c, "REVIEWING") /\ request' = Touching(c)
      /\ reasons' = IF reasons = "seen" THEN "open" ELSE reasons
  BY DEF CancelConfirmation
<1>3. slip'.status = "REVIEWING"
  BY <1>1, <1>2 DEF Stamped, SlipRow
<1>4. ConfirmedAddsUp'
  BY <1>1, <1>2, <1>3 DEF SlipInv, ConfirmedAddsUp, TotalsOf, Closed
<1> QED
  BY <1>1, <1>2, <1>4, WritingKeeps DEF Editable

LEMMA DraftKeeps ==
  ASSUME SlipInv, NEW premium \in BOOLEAN, NEW withholding \in BOOLEAN,
         NEW found \in {"none", "open"}, Draft(premium, withholding, found)
  PROVE  SlipInv'
<1>1. /\ paper \in Paper /\ paper.tax = "blank" /\ paper.withheld = "blank" /\ paper.deducted = 0
      /\ \A c \in Editors : request[c] = Idle
  BY DEF Draft, SlipInv, Typed, NothingBefore
<1>2. /\ slip' = [status |-> "DRAFTING", version |-> 1, sending |-> NoOne, overdue |-> FALSE]
      /\ paper' = [paper EXCEPT !.premium = premium, !.overtime = premium,
                                !.withholding = withholding]
      /\ reasons' = found /\ request' = request
  BY DEF Draft
<1>3. 1 \in Moments
  BY EditorsAssumption, FS_CardinalityType DEF Moments
<1>4. slip' \in SlipRow /\ slip'.status = "DRAFTING"
  BY <1>2, <1>3 DEF SlipRow, Editable
<1>5. /\ paper' \in Paper /\ paper'.overtime = paper'.premium /\ paper'.tax = "blank"
      /\ paper'.withheld = "blank" /\ paper'.deducted = 0
  BY <1>1, <1>2 DEF Paper
<1>6. Typed' /\ NothingBefore'
  BY <1>2, <1>4, <1>5 DEF SlipInv, Typed, NothingBefore, Exists
<1>7. ConfirmedAddsUp'
  BY <1>2, <1>4, <1>5 DEF ConfirmedAddsUp, TotalsOf, Weight, Closed
<1>8. \A c \in Editors : request'[c] = Idle
  BY <1>1, <1>2
<1>9. FlagsAreCurrent' /\ ClaimedIsUntouched' /\ MarkIsOfTheLatest' /\ OneSenderAtATime'
  <2>1. Idle \notin Reading /\ Idle.op # "send"
    BY DEF Idle, Reading, Operations
  <2> QED
    BY <1>8, <2>1 DEF FlagsAreCurrent, ClaimedIsUntouched, MarkIsOfTheLatest, OneSenderAtATime,
                      Mailing
<1> QED
  BY <1>6, <1>7, <1>9 DEF SlipInv

\* Looking a payslip up, being refused and giving up leave it alone.
LEMMA WaitingKeeps ==
  ASSUME SlipInv, NEW c \in Editors,
         \/ \E op \in Operations, seen \in Moments : Locate(c, op, seen)
         \/ Refuse(c) \/ GiveUp(c)
  PROVE  SlipInv'
<1>1. CASE \E op \in Operations, seen \in Moments : Locate(c, op, seen)
  <2>1. PICK op \in Operations, seen \in Moments : Locate(c, op, seen)
    BY <1>1
  <2> DEFINE r == [op |-> op, step |-> "read", seen |-> seen, status |-> slip.status,
            premium |-> op \in {"save", "recalculate"} /\ paper.premium,
            withholding |-> op \in {"recalculate", "confirm"} /\ paper.withholding]
  <2>2. /\ Exists /\ request[c] = Idle /\ request' = [request EXCEPT ![c] = r]
        /\ slip.status \in (IF op \in {"save", "recalculate", "confirm"} THEN Editable ELSE Closed)
        /\ UNCHANGED <<slip, paper, reasons>>
    BY <2>1 DEF Locate
  <2>3. paper.premium \in BOOLEAN /\ paper.withholding \in BOOLEAN
    BY DEF SlipInv, Typed, Paper
  <2>4. r \in Reading
    BY <2>2, <2>3 DEF Reading
  <2>5. ~Mailing(c)
    BY <2>2 DEF Mailing, Idle
  <2> QED
    BY <2>2, <2>3, <2>4, <2>5, StartingKeeps
<1>2. CASE Refuse(c) \/ GiveUp(c)
  <2>1. /\ Waiting(c) /\ request' = [request EXCEPT ![c] = Idle]
        /\ UNCHANGED <<slip, paper, reasons>>
    BY <1>2 DEF Refuse, GiveUp
  <2>2. ~Mailing(c) /\ Exists /\ Idle \notin Reading
    BY <2>1, BusyMeansDrafted DEF Waiting, Idle, Reading, Operations
  <2> QED
    BY <2>1, <2>2, StartingKeeps
<1> QED
  BY <1>1, <1>2

LEMMA AbandonKeeps ==
  ASSUME SlipInv, NEW c \in Editors, Abandon(c)
  PROVE  SlipInv'
BY EndingKeeps DEF Abandon

-----------------------------------------------------------------------------
(* The theorems                                                            *)

LEMMA SlipInvInit == Init => SlipInv
<1> SUFFICES ASSUME Init PROVE SlipInv
  OBVIOUS
<1>1. ~Exists /\ \A c \in Editors : request[c] = Idle
  BY DEF Init, Exists
<1>2. Typed /\ NothingBefore
  BY DEF Init, Typed, NothingBefore, Paper, Amount
<1>3. Idle \notin Reading /\ Idle.op # "send"
  BY DEF Idle, Reading, Operations
<1> QED
  BY <1>1, <1>2, <1>3 DEF SlipInv, FlagsAreCurrent, ClaimedIsUntouched, MarkIsOfTheLatest,
                          OneSenderAtATime, ConfirmedAddsUp, Mailing

LEMMA SlipInvNext == SlipInv /\ [Next]_payslipVars => SlipInv'
<1> SUFFICES ASSUME SlipInv, [Next]_payslipVars PROVE SlipInv'
  OBVIOUS
<1>1. CASE UNCHANGED payslipVars
  BY <1>1 DEF payslipVars, SlipInv, Typed, NothingBefore, FlagsAreCurrent, ClaimedIsUntouched,
              MarkIsOfTheLatest, ConfirmedAddsUp, OneSenderAtATime, Exists, Mailing
<1>2. CASE \E premium, withholding \in BOOLEAN, found \in {"none", "open"} :
             Draft(premium, withholding, found)
  BY <1>2, DraftKeeps
<1>3. CASE \E c \in Editors, op \in Operations, seen \in Moments : Locate(c, op, seen)
  BY <1>3, WaitingKeeps
<1>4. CASE \E c \in Editors, premium, withholding \in BOOLEAN, tax, withheld \in Amount :
             Save(c, premium, withholding, tax, withheld)
  BY <1>4, SaveKeeps
<1>5. CASE \E c \in Editors : \E found \in {"none", "open"} : Recalculate(c, found)
  BY <1>5, RecalculateKeeps
<1>6. CASE \E c \in Editors : Refuse(c) \/ GiveUp(c)
  BY <1>6, WaitingKeeps
<1>7. CASE \E c \in Editors : Confirm(c)
  BY <1>7, ConfirmKeeps
<1>8. CASE \E c \in Editors : CancelConfirmation(c)
  BY <1>8, CancelConfirmationKeeps
<1>9. CASE \E c \in Editors : Claim(c)
  BY <1>9, ClaimKeeps
<1>10. CASE \E c \in Editors : Record(c)
  BY <1>10, RecordKeeps
<1>11. CASE \E c \in Editors : Release(c)
  BY <1>11, ReleaseKeeps
<1>12. CASE \E c \in Editors : Abandon(c)
  BY <1>12, AbandonKeeps
<1>13. CASE \E c \in Editors, answer \in {"mailed", "failed"} : Mail(c, answer)
  BY <1>13, MailKeeps
<1>14. CASE Expire
  BY <1>14, ExpireKeeps
<1> QED
  BY <1>1, <1>2, <1>3, <1>4, <1>5, <1>6, <1>7, <1>8, <1>9, <1>10, <1>11, <1>12, <1>13, <1>14
     DEF Next

\* Whatever the requests of any number of administrators do in between: the flags of a
\* request whose moment is still that of the row are those of the row, and a send that
\* finds its own moment there finds the payslip as it mailed it.
THEOREM SlipInvariant == Spec => []SlipInv
<1>1. Init => SlipInv
  BY SlipInvInit
<1>2. SlipInv /\ [Next]_payslipVars => SlipInv'
  BY SlipInvNext
<1> QED
  BY <1>1, <1>2, PTL DEF Spec

\* A confirmed or mailed payslip adds up: every deduction it shows is entered, the
\* totals and the overtime pay go by its own flags, and no reason is left open.
THEOREM ConfirmedSlipsAddUp == Spec => []ConfirmedAddsUp
<1>1. SlipInv => ConfirmedAddsUp
  BY DEF SlipInv
<1> QED
  BY <1>1, SlipInvariant, PTL

\* No two sends mail the payslip at once unless one of them is past its five minutes.
THEOREM OneSender == Spec => []OneSenderAtATime
<1>1. SlipInv => OneSenderAtATime
  BY DEF SlipInv
<1> QED
  BY <1>1, SlipInvariant, PTL

\* Only the record of a send makes a payslip SENT, and it does so only to a row that
\* still carries the moment of the claim.
LEMMA SentByRecord ==
  ASSUME SlipInv, [Next]_payslipVars, Exists, slip'.status = "SENT", slip.status # "SENT"
  PROVE  \E c \in Editors : Mailing(c) /\ request'[c] = Idle /\ ~request[c].touched
<1>1. slip \in SlipRow /\ slip.status \in Editable \cup Closed /\ slip' # slip
  BY DEF SlipInv, Typed, Exists, SlipRow
<1>2. \A c \in Editors, status \in Editable \cup Closed :
         Stamped(c, status).status = status
  BY <1>1 DEF Stamped, SlipRow
<1>3. \A c \in Editors : Unmarked(c).status = slip.status
  BY <1>1 DEF Unmarked, SlipRow
<1>4. ASSUME NEW c \in Editors, Record(c)
      PROVE  \E d \in Editors : Mailing(d) /\ request'[d] = Idle /\ ~request[d].touched
  <2>1. StillAsClaimed(c)
    BY <1>3, <1>4 DEF Record
  <2>2. Mailing(c) /\ ~request[c].touched
    BY <1>4, <2>1 DEF Record, SlipInv, ClaimedIsUntouched, StillAsClaimed
  <2>3. request'[c] = Idle
    BY <1>4 DEF Record, SlipInv, Typed
  <2> QED
    BY <2>2, <2>3
<1>5. ~UNCHANGED payslipVars
  BY <1>1 DEF payslipVars
<1>6. \A premium, withholding \in BOOLEAN, found \in {"none", "open"} :
         ~Draft(premium, withholding, found)
  BY DEF Draft
<1>7. \A c \in Editors :
         /\ \A op \in Operations, seen \in Moments : ~Locate(c, op, seen)
         /\ ~Refuse(c) /\ ~GiveUp(c) /\ ~Abandon(c)
         /\ \A answer \in {"mailed", "failed"} : ~Mail(c, answer)
  BY <1>1 DEF Locate, Refuse, GiveUp, Abandon, Mail
<1>8. \A c \in Editors :
         /\ \A premium, withholding \in BOOLEAN, tax, withheld \in Amount :
               ~Save(c, premium, withholding, tax, withheld)
         /\ \A found \in {"none", "open"} : ~Recalculate(c, found)
  BY <1>1, <1>2 DEF Save, Recalculate
<1>9. \A c \in Editors : ~Confirm(c) /\ ~CancelConfirmation(c)
  BY <1>2 DEF Confirm, CancelConfirmation, Editable, Closed
<1>10. \A c \in Editors : ~Claim(c)
  BY <1>1 DEF Claim, SlipRow
<1>11. \A c \in Editors : ~Release(c)
  BY <1>1, <1>3 DEF Release, SlipRow
<1>12. ~Expire
  BY <1>1 DEF Expire, SlipRow
<1>13. Next
  BY <1>5
<1> QED
  BY <1>4, <1>6, <1>7, <1>8, <1>9, <1>10, <1>11, <1>12, <1>13 DEF Next

\* A payslip becomes SENT by the send that mailed it and whose claim nobody wrote over,
\* and of the sends that overlap all but one are past their five minutes.
THEOREM MailedAsSent == Spec => SentOnceAsMailed
<1>1. SlipInv /\ [Next]_payslipVars =>
         [ Exists /\ slip'.status = "SENT" /\ slip.status # "SENT" =>
             \E c \in Editors : Mailing(c) /\ request'[c] = Idle /\ ~request[c].touched
         ]_payslipVars
  BY SentByRecord
<1>2. Spec => SentAsMailed
  BY <1>1, SlipInvariant, PTL DEF Spec, SentAsMailed
<1> QED
  BY <1>2, OneSender, PTL DEF SentOnceAsMailed
=============================================================================
