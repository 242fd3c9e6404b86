--------------------------- MODULE OperationsProofs ---------------------------
(***************************************************************************)
(* Proofs about MCOperations: what is recorded of a worker's hours counts  *)
(* once, for any number of staff records, devices, administrators and      *)
(* check-ins, up to the moment Attendance says.  And what requests check   *)
(* of the plan under their locks still holds when they write, for any      *)
(* records, requests, rows and weeks.                                      *)
(***************************************************************************)
EXTENDS MCOperations, Sequences, FiniteSetTheorems, NaturalsInduction,
        WellFoundedInduction, TLAPS
-----------------------------------------------------------------------------
(* The hours: the inductive invariant, up to the moment an account comes   *)
(* between the reading and the locking of an edit                          *)

ShiftRow == [member : Members, in : Nat, outs : Seq(Nat)]

\* Until when a row occupies its member at the time t.
Ends(r, t) == IF r.outs # <<>> THEN r.outs[1]
              ELSE IF r.in >= t - Window THEN t + 1 ELSE r.in + 1
RowFits(r, t) ==
    /\ r.in <= t /\ Len(r.outs) <= 1
    /\ r.outs # <<>> => r.in < r.outs[1] /\ r.outs[1] <= t
Apart(r, q, t) == Ends(r, t) <= q.in \/ Ends(q, t) <= r.in
Recorded ==
    /\ now \in Nat /\ linked \subseteq Members /\ employed \subseteq Members
    /\ shifts \in Seq(ShiftRow) /\ \A i \in Hours!Ids : RowFits(shifts[i], now)
    /\ \A i, j \in Hours!Ids : i # j /\ shifts[i].member = shifts[j].member =>
          Apart(shifts[i], shifts[j], now)

CheckIns == [op : {"in"}, member : Members]
CheckOuts == [op : {"out"}, member : Members, shift : Nat]
Proxies == [op : {"proxy"}, step : {"read", "locked"}, lock : {"account", "record"},
            member : Members, in : Nat, out : Nat]
Corrections == [op : {"correct"}, step : {"read", "locked"}, lock : {"account", "record"},
                member : Members, shift : Nat, seen : ShiftRow, in : Nat, out : Nat]
Entries == {Hours!None} \cup CheckIns \cup CheckOuts
Edits == {Hours!None} \cup Proxies \cup Corrections
Registering == entry \in [Devices -> Entries] /\ edit \in [Desks -> Edits]

\* Who has the account's row has it alone, and so with a staff record's.
Exclusive ==
    /\ \A v, w \in Devices : entry[v] # Hours!None /\ entry[w] # Hours!None => v = w
    /\ \A v \in Devices, d \in Desks :
          entry[v] # Hours!None /\ Hours!Locked(d) => edit[d].lock = "record"
    /\ \A d, e \in Desks :
          /\ Hours!Locked(d) /\ Hours!Locked(e) /\ edit[d].lock = edit[e].lock
          /\ edit[d].lock = "account" \/ edit[d].member = edit[e].member
          => d = e

\* What the app found under the lock still is so.
EntryFits(e) ==
    /\ e.member \in Hours!Usable
    /\ e.op = "in" => Hours!OpenAt(Hours!Usable) = {}
    /\ e.op = "out" => /\ e.shift \in Hours!Ids /\ shifts[e.shift].member = e.member
                       /\ Hours!IsOpen(e.shift) /\ Hours!Editable(shifts[e.shift].in)
EntriesFit == \A v \in Devices : entry[v] # Hours!None => EntryFits(entry[v])

\* What an edit found when it began, and what it found under its lock, still is so.
Mine(e) == IF e.op = "correct" THEN {e.shift} ELSE {}
LockedFits(e) ==
    /\ ~Hours!Clashes(e.member, e.in, e.out, Mine(e))
    /\ e.op = "correct" => shifts[e.shift] = e.seen
    /\ e.op = "proxy" /\ e.out = now + 1 /\ e.lock = "account" => Hours!OpenAt(Hours!Usable) = {}
EditFits(e) ==
    /\ e.lock = Hours!LockOf(e.member) /\ e.in < e.out /\ e.out <= now + 1 /\ Hours!Editable(e.in)
    /\ e.op = "correct" =>
          /\ e.out <= now \/ e.seen.outs = <<>>
          /\ e.shift \in Hours!Ids /\ shifts[e.shift].member = e.member
    /\ e.step = "locked" => LockedFits(e)
EditsFit == \A d \in Desks : edit[d] # Hours!None => EditFits(edit[d])

HoursOK == Recorded /\ Registering /\ Exclusive /\ EntriesFit /\ EditsFit
HoursInv == ~crossed => HoursOK

-----------------------------------------------------------------------------
(* Rows and requests                                                       *)

LEMMA EntryTells ==
  ASSUME NEW e \in Entries
  PROVE  /\ e = Hours!None \/ e.op \in {"in", "out"}
         /\ Hours!None.op = "none" /\ Hours!None \in Entries
         /\ e.op = "in" => e # Hours!None /\ e \in CheckIns
         /\ e.op = "out" => e # Hours!None /\ e \in CheckOuts
BY DEF Entries, CheckIns, CheckOuts, Hours!None

LEMMA EditTells ==
  ASSUME NEW e \in Edits
  PROVE  /\ e = Hours!None <=> e.op = "none"
         /\ Hours!None.op = "none" /\ Hours!None \in Edits
         /\ e # Hours!None => e.op \in {"proxy", "correct"}
         /\ e.op = "proxy" => e # Hours!None /\ e \in Proxies
         /\ e.op = "correct" => e # Hours!None /\ e \in Corrections
BY DEF Edits, Proxies, Corrections, Hours!None

LEMMA LockedTells ==
  ASSUME Registering, NEW d \in Desks
  PROVE  /\ edit[d] \in Edits
         /\ Hours!Locked(d) <=> edit[d] # Hours!None /\ edit[d].step = "locked"
BY EditTells DEF Registering, Hours!Locked

LEMMA UntilIsEnds ==
  ASSUME Recorded, NEW i \in Hours!Ids
  PROVE  /\ shifts[i] \in ShiftRow /\ shifts[i].member \in Members /\ shifts[i].in \in Nat
         /\ shifts[i].outs \in Seq(Nat) /\ i \in Nat /\ i \in 1..Len(shifts)
         /\ Hours!Until(i) = Ends(shifts[i], now) /\ Ends(shifts[i], now) \in Int
         /\ Hours!IsOpen(i) <=> shifts[i].outs = <<>>
<1>1. shifts[i] \in ShiftRow /\ i \in 1..Len(shifts) /\ i \in Nat
  BY DEF Recorded, Hours!Ids
<1>2. shifts[i].in \in Nat /\ shifts[i].outs \in Seq(Nat) /\ shifts[i].member \in Members
  BY <1>1 DEF ShiftRow
<1>3. shifts[i].outs # <<>> => shifts[i].outs[1] \in Nat
  BY <1>2
<1>4. Hours!Until(i) = Ends(shifts[i], now)
  BY DEF Hours!Until, Ends, Hours!IsOpen, Hours!Editable
<1>5. Ends(shifts[i], now) \in Int
  BY <1>2, <1>3, HoursConstants DEF Ends, Recorded
<1> QED
  BY <1>1, <1>2, <1>4, <1>5 DEF Hours!IsOpen

\* While nothing is written, what requests have found stays.
LEMMA FitsStill ==
  ASSUME UNCHANGED <<now, linked, employed, shifts>>
  PROVE  /\ Recorded => Recorded'
         /\ \A e : (EntryFits(e) => EntryFits(e)') /\ (EditFits(e) => EditFits(e)')
                   /\ (LockedFits(e) => LockedFits(e)')
<1>1. Recorded => Recorded'
  BY DEF Recorded, Hours!Ids
<1>2. ASSUME NEW e
      PROVE  /\ EntryFits(e) => EntryFits(e)'
             /\ LockedFits(e) => LockedFits(e)'
             /\ EditFits(e) => EditFits(e)'
  <2>1. EntryFits(e) => EntryFits(e)'
    BY DEF EntryFits, Hours!Usable, Hours!OpenAt, Hours!Ids, Hours!IsOpen, Hours!Editable
  <2>2. LockedFits(e) => LockedFits(e)'
    BY DEF LockedFits, Mine, Hours!Usable, Hours!OpenAt, Hours!Ids, Hours!IsOpen,
       Hours!Editable, Hours!Clashes, Hours!Until
  <2>3. EditFits(e) => EditFits(e)'
    BY <2>2 DEF EditFits, Hours!Ids, Hours!Editable, Hours!LockOf
  <2> QED
    BY <2>1, <2>2, <2>3
<1> QED
  BY <1>1, <1>2

-----------------------------------------------------------------------------
(* Requests that only read, lock or give up                                *)

LEMMA EntryMoves ==
  ASSUME HoursOK, NEW v \in Devices, NEW n \in Entries, entry' = [entry EXCEPT ![v] = n],
         n # Hours!None => Hours!AccountIsFree /\ EntryFits(n),
         Hours!Unmoved, UNCHANGED <<shifts, edit>>
  PROVE  HoursOK'
<1>1. Recorded' /\ \A e : (EntryFits(e) => EntryFits(e)') /\ (EditFits(e) => EditFits(e)')
  BY FitsStill DEF HoursOK, Hours!Unmoved
<1>2. \A w \in Devices : entry'[w] = IF w = v THEN n ELSE entry[w]
  BY DEF HoursOK, Registering
<1>3. Registering'
  BY DEF HoursOK, Registering
<1>4. EntriesFit' /\ EditsFit'
  BY <1>1, <1>2 DEF HoursOK, EntriesFit, EditsFit
<1>5. Exclusive'
  <2>1. CASE n = Hours!None
    BY <1>2, <2>1 DEF HoursOK, Exclusive, Hours!Locked
  <2>2. CASE n # Hours!None
    <3>1. \A w \in Devices : entry[w] = Hours!None
      BY <2>2 DEF Hours!AccountIsFree
    <3>2. \A d \in Desks : Hours!Locked(d) => edit[d].lock = "record"
      <4> SUFFICES ASSUME NEW d \in Desks, Hours!Locked(d) PROVE edit[d].lock = "record"
        OBVIOUS
      <4>1. edit[d].lock # "account"
        BY <2>2 DEF Hours!AccountIsFree
      <4>2. edit[d] \in Edits /\ edit[d] # Hours!None
        BY LockedTells DEF HoursOK
      <4>3. edit[d].lock \in {"account", "record"}
        BY <4>2 DEF Edits, Proxies, Corrections
      <4> QED
        BY <4>1, <4>3
    <3> QED
      BY <1>2, <3>1, <3>2 DEF HoursOK, Exclusive, Hours!Locked
  <2> QED
    BY <2>1, <2>2
<1> QED
  BY <1>1, <1>3, <1>4, <1>5 DEF HoursOK

LEMMA EditMoves ==
  ASSUME HoursOK, NEW d \in Desks, NEW n \in Edits, edit' = [edit EXCEPT ![d] = n],
         n # Hours!None => EditFits(n),
         n # Hours!None /\ n.step = "locked" =>
           /\ n.member = edit[d].member /\ n.lock = edit[d].lock /\ Hours!LockIsFree(d)
           /\ edit[d] # Hours!None /\ edit[d].step = "read",
         Hours!Unmoved, UNCHANGED <<shifts, entry>>
  PROVE  HoursOK'
<1>1. Recorded' /\ \A e : (EntryFits(e) => EntryFits(e)') /\ (EditFits(e) => EditFits(e)')
  BY FitsStill DEF HoursOK, Hours!Unmoved
<1>2. \A e \in Desks : edit'[e] = IF e = d THEN n ELSE edit[e]
  BY DEF HoursOK, Registering
<1>3. Registering'
  BY DEF HoursOK, Registering
<1>4. EntriesFit' /\ EditsFit'
  BY <1>1, <1>2 DEF HoursOK, EntriesFit, EditsFit
<1>5. Exclusive'
  <2>1. \A e \in Desks : Hours!Locked(e)' <=>
          IF e = d THEN n # Hours!None /\ n.step = "locked" ELSE Hours!Locked(e)
    BY <1>2, EditTells DEF Hours!Locked
  <2>2. CASE n # Hours!None /\ n.step = "locked"
    <3>1. n.lock \in {"account", "record"}
      BY <2>2 DEF Edits, Proxies, Corrections
    <3>2. CASE n.lock = "account"
      <4>1. Hours!AccountIsFree
        BY <2>2, <3>2 DEF Hours!LockIsFree
      <4>2. /\ \A v \in Devices : entry[v] = Hours!None
            /\ \A e \in Desks : Hours!Locked(e) => edit[e].lock # "account"
        BY <4>1 DEF Hours!AccountIsFree
      <4> QED
        BY <1>2, <2>1, <2>2, <3>2, <4>2 DEF HoursOK, Exclusive
    <3>3. CASE n.lock = "record"
      <4>1. Hours!RecordIsFree(n.member)
        BY <2>2, <3>3 DEF Hours!LockIsFree
      <4>2. \A e \in Desks : Hours!Locked(e) => ~(edit[e].lock = "record" /\ edit[e].member = n.member)
        BY <4>1 DEF Hours!RecordIsFree
      <4> QED
        BY <1>2, <2>1, <2>2, <3>3, <4>2 DEF HoursOK, Exclusive
    <3> QED
      BY <3>1, <3>2, <3>3
  <2>3. CASE ~(n # Hours!None /\ n.step = "locked")
    BY <1>2, <2>1, <2>3 DEF HoursOK, Exclusive
  <2> QED
    BY <2>2, <2>3
<1> QED
  BY <1>1, <1>3, <1>4, <1>5 DEF HoursOK

-----------------------------------------------------------------------------
(* The newest open check-in                                                *)

LEMMA SmallestExists ==
  ASSUME NEW S \in SUBSET Nat, S # {}
  PROVE  \E x \in S : \A y \in S : x <= y
<1>1. PICK x \in S : \A y \in S : ~(<<y, x>> \in OpToRel(<, Nat))
  BY NatLessThanWellFounded, WFMin
<1>2. ASSUME NEW y \in S, ~(x <= y)
      PROVE  FALSE
  <2>1. y < x /\ <<y, x>> \in Nat \X Nat
    BY <1>2
  <2>2. <<y, x>> \in {ss \in Nat \X Nat : ss[1] < ss[2]}
    BY <2>1
  <2> QED
    BY <1>1, <2>2 DEF OpToRel
<1> QED
  BY <1>2

LEMMA LatestIsOne ==
  ASSUME Recorded, NEW S \in SUBSET Hours!Ids, S # {}
  PROVE  Hours!Latest(S) \in S
<1>1. \A i \in S : i \in Nat /\ i <= Len(shifts) /\ shifts[i].in \in Nat /\ shifts[i].in <= now
  BY UntilIsEnds DEF Recorded, RowFits
<1>2. now \in Nat /\ Len(shifts) \in Nat
  BY DEF Recorded
<1>3. PICK x \in {now - shifts[i].in : i \in S} : \A y \in {now - shifts[i].in : i \in S} : x <= y
  <2>1. {now - shifts[i].in : i \in S} \in SUBSET Nat /\ {now - shifts[i].in : i \in S} # {}
    BY <1>1, <1>2
  <2> QED
    BY <2>1, SmallestExists
<1> DEFINE T == {i \in S : now - shifts[i].in = x}
<1>4. PICK z \in {Len(shifts) - i : i \in T} : \A y \in {Len(shifts) - i : i \in T} : z <= y
  <2>1. {Len(shifts) - i : i \in T} \in SUBSET Nat /\ {Len(shifts) - i : i \in T} # {}
    BY <1>1, <1>2, <1>3
  <2> QED
    BY <2>1, SmallestExists
<1>5. PICK i \in T : z = Len(shifts) - i
  BY <1>4
<1>6. \A j \in S : \/ shifts[j].in < shifts[i].in
                   \/ shifts[j].in = shifts[i].in /\ j <= i
  <2> SUFFICES ASSUME NEW j \in S
               PROVE  \/ shifts[j].in < shifts[i].in
                      \/ shifts[j].in = shifts[i].in /\ j <= i
    OBVIOUS
  <2>1. i \in S /\ now - shifts[i].in = x /\ x <= now - shifts[j].in
    BY <1>3
  <2>2. /\ i \in Nat /\ j \in Nat /\ Len(shifts) \in Nat /\ now \in Nat
        /\ shifts[i].in \in Nat /\ shifts[j].in \in Nat
    BY <1>1, <1>2, <2>1
  <2>3. now - shifts[j].in = x => Len(shifts) - i <= Len(shifts) - j
    BY <1>4, <1>5
  <2>4. \A n, l, a, b, p, q \in Nat :
          n - a <= n - b /\ (n - b = n - a => l - p <= l - q) => b < a \/ (b = a /\ q <= p)
    OBVIOUS
  <2> QED
    BY ONLY <2>1, <2>2, <2>3, <2>4
<1>7. \E k \in S : \A j \in S : \/ shifts[j].in < shifts[k].in
                                \/ shifts[j].in = shifts[k].in /\ j <= k
  BY <1>6
<1> QED
  BY <1>7 DEF Hours!Latest

-----------------------------------------------------------------------------
(* The app                                                                 *)

LEMMA CheckInKeepsHours ==
  ASSUME HoursOK, NEW v \in Devices, NEW m \in Members, Hours!CheckIn(v, m)
  PROVE  HoursOK'
<1> DEFINE n == [op |-> "in", member |-> m]
<1>1. n \in Entries /\ n # Hours!None
  BY DEF Entries, CheckIns, Hours!None
<1>2. EntryFits(n)
  BY DEF Hours!CheckIn, EntryFits
<1>3. /\ entry' = [entry EXCEPT ![v] = n] /\ Hours!AccountIsFree
      /\ Hours!Unmoved /\ UNCHANGED <<shifts, edit>>
  BY DEF Hours!CheckIn
<1> HIDE DEF n
<1> QED
  BY <1>1, <1>2, <1>3, EntryMoves

LEMMA CheckOutKeepsHours ==
  ASSUME HoursOK, NEW v \in Devices, NEW m \in Members, Hours!CheckOut(v, m)
  PROVE  HoursOK'
<1> DEFINE i == Hours!Latest(Hours!OpenAt(Hours!Usable))
           n == [op |-> "out", member |-> m, shift |-> i]
<1>1. i \in Hours!OpenAt(Hours!Usable)
  BY LatestIsOne DEF Hours!CheckOut, Hours!OpenAt, HoursOK
<1>2. /\ i \in Hours!Ids /\ Hours!IsOpen(i) /\ Hours!Editable(shifts[i].in)
      /\ shifts[i].member = m /\ m \in Hours!Usable
  BY <1>1 DEF Hours!OpenAt, Hours!CheckOut
<1>3. i \in Nat
  BY <1>2, UntilIsEnds DEF HoursOK
<1>4. /\ entry' = [entry EXCEPT ![v] = n] /\ Hours!AccountIsFree
      /\ Hours!Unmoved /\ UNCHANGED <<shifts, edit>>
  BY DEF Hours!CheckOut
<1> HIDE DEF i
<1>5. n \in Entries /\ n # Hours!None
  BY <1>3 DEF Entries, CheckOuts, Hours!None
<1>6. EntryFits(n)
  BY <1>2 DEF EntryFits
<1> HIDE DEF n
<1> QED
  BY <1>4, <1>5, <1>6, EntryMoves

LEMMA AbortKeepsHours ==
  ASSUME HoursOK, NEW v \in Devices, Hours!Abort(v)
  PROVE  HoursOK'
<1>1. Hours!None \in Entries
  BY DEF Entries
<1> QED
  BY <1>1, EntryMoves DEF Hours!Abort

-----------------------------------------------------------------------------
(* The administrators                                                      *)

LEMMA RefuseKeepsHours ==
  ASSUME HoursOK, NEW d \in Desks, Hours!Refuse(d)
  PROVE  HoursOK'
<1>1. Hours!None \in Edits
  BY DEF Edits
<1> QED
  BY <1>1, EditMoves DEF Hours!Refuse

LEMMA TimesAre ==
  ASSUME Recorded, NEW t \in Hours!Times
  PROVE  t[1] \in Nat /\ t[2] \in Nat /\ t[1] < t[2] /\ t[2] <= now + 1 /\ Hours!Editable(t[1])
BY DEF Hours!Times, Recorded

LEMMA BeginProxyKeepsHours ==
  ASSUME HoursOK, NEW d \in Desks, NEW m \in Members, Hours!BeginProxy(d, m)
  PROVE  HoursOK'
<1>1. PICK t \in Hours!Times :
        Hours!Begin(d, [op |-> "proxy", step |-> "read", lock |-> Hours!LockOf(m), member |-> m,
                  in |-> t[1], out |-> t[2]])
  BY DEF Hours!BeginProxy
<1> DEFINE n == [op |-> "proxy", step |-> "read", lock |-> Hours!LockOf(m), member |-> m,
                 in |-> t[1], out |-> t[2]]
<1>2. t[1] \in Nat /\ t[2] \in Nat /\ t[1] < t[2] /\ t[2] <= now + 1 /\ Hours!Editable(t[1])
  BY TimesAre DEF HoursOK
<1>3. Hours!LockOf(m) \in {"account", "record"}
  BY DEF Hours!LockOf
<1>4. n \in Edits /\ n # Hours!None /\ n.step = "read"
  BY <1>2, <1>3 DEF Edits, Proxies, Hours!None
<1>5. EditFits(n)
  BY <1>2 DEF EditFits
<1>6. edit' = [edit EXCEPT ![d] = n] /\ Hours!Unmoved /\ UNCHANGED <<shifts, entry>>
  BY <1>1 DEF Hours!Begin
<1> HIDE DEF n
<1> QED
  BY <1>4, <1>5, <1>6, EditMoves

LEMMA BeginCorrectionKeepsHours ==
  ASSUME HoursOK, NEW d \in Desks, NEW i \in Hours!Ids, Hours!BeginCorrection(d, i)
  PROVE  HoursOK'
<1> DEFINE m == shifts[i].member
<1>1. PICK t \in Hours!Times :
        /\ t[2] <= now \/ Hours!IsOpen(i)
        /\ Hours!Begin(d, [op |-> "correct", step |-> "read", lock |-> Hours!LockOf(shifts[i].member),
                     member |-> shifts[i].member, shift |-> i, seen |-> shifts[i],
                     in |-> t[1], out |-> t[2]])
  BY DEF Hours!BeginCorrection
<1> DEFINE n == [op |-> "correct", step |-> "read", lock |-> Hours!LockOf(m),
                 member |-> m, shift |-> i, seen |-> shifts[i], in |-> t[1], out |-> t[2]]
<1>2. t[1] \in Nat /\ t[2] \in Nat /\ t[1] < t[2] /\ t[2] <= now + 1 /\ Hours!Editable(t[1])
  BY TimesAre DEF HoursOK
<1>3. shifts[i] \in ShiftRow /\ m \in Members /\ i \in Nat
  BY UntilIsEnds DEF HoursOK
<1>4. Hours!LockOf(m) \in {"account", "record"}
  BY DEF Hours!LockOf
<1>5. n \in Edits /\ n # Hours!None /\ n.step = "read"
  <2> HIDE DEF m
  <2> QED
    BY <1>2, <1>3, <1>4 DEF Edits, Corrections, Hours!None
<1>6. EditFits(n)
  BY <1>1, <1>2 DEF EditFits, Hours!IsOpen
<1>7. edit' = [edit EXCEPT ![d] = n] /\ Hours!Unmoved /\ UNCHANGED <<shifts, entry>>
  BY <1>1 DEF Hours!Begin
<1> HIDE DEF n, m
<1> QED
  BY <1>5, <1>6, <1>7, EditMoves

LEMMA LockForProxyKeepsHours ==
  ASSUME HoursOK, NEW d \in Desks, Hours!LockForProxy(d)
  PROVE  HoursOK'
<1> DEFINE e == edit[d]
           n == [e EXCEPT !.step = "locked"]
<1>1. /\ e.op = "proxy" /\ e.step = "read" /\ Hours!LockIsFree(d)
      /\ ~Hours!Clashes(e.member, e.in, e.out, {})
      /\ (e.out = now + 1 /\ e.lock = "account" => Hours!OpenAt(Hours!Usable \cup {e.member}) = {})
      /\ Hours!Unmoved /\ UNCHANGED <<shifts, entry>>
  BY DEF Hours!LockForProxy
<1>2. e \in Edits /\ e \in Proxies /\ e # Hours!None
  BY <1>1, LockedTells, EditTells DEF HoursOK
<1>3. /\ n \in Proxies /\ n.op = "proxy" /\ n.step = "locked" /\ n.lock = e.lock
      /\ n.member = e.member /\ n.in = e.in /\ n.out = e.out
  BY <1>2 DEF Proxies
<1>4. edit' = [edit EXCEPT ![d] = n]
  BY DEF Hours!LockForProxy, HoursOK, Registering
<1>5. EditFits(e)
  BY <1>2 DEF HoursOK, EditsFit
<1>6. e.out = now + 1 /\ e.lock = "account" => Hours!OpenAt(Hours!Usable) = {}
  BY <1>1 DEF Hours!OpenAt
<1> HIDE DEF n, e
<1>7. LockedFits(n)
  BY <1>1, <1>3, <1>6 DEF LockedFits, Mine
<1>8. EditFits(n)
  BY <1>3, <1>5, <1>7 DEF EditFits
<1>9. n \in Edits /\ n # Hours!None
  BY <1>3 DEF Edits, Hours!None
<1> QED
  BY <1>1, <1>2, <1>3, <1>4, <1>8, <1>9, EditMoves DEF e

LEMMA LockForCorrectionKeepsHours ==
  ASSUME HoursOK, NEW d \in Desks, Hours!LockForCorrection(d)
  PROVE  HoursOK'
<1> DEFINE e == edit[d]
           n == [e EXCEPT !.step = "locked"]
<1>1. e.op = "correct" /\ e.step = "read" /\ Hours!LockIsFree(d) /\ shifts[e.shift] = e.seen
      /\ ~Hours!Clashes(e.member, e.in, e.out, {e.shift}) /\ Hours!Unmoved /\ UNCHANGED <<shifts, entry>>
  BY DEF Hours!LockForCorrection
<1>2. e \in Edits /\ e \in Corrections /\ e # Hours!None
  BY <1>1, LockedTells, EditTells DEF HoursOK
<1>3. /\ n \in Corrections /\ n.op = "correct" /\ n.step = "locked" /\ n.lock = e.lock
      /\ n.member = e.member /\ n.in = e.in /\ n.out = e.out /\ n.shift = e.shift /\ n.seen = e.seen
  BY <1>2 DEF Corrections
<1>4. edit' = [edit EXCEPT ![d] = n]
  BY DEF Hours!LockForCorrection, HoursOK, Registering
<1>5. EditFits(e)
  BY <1>2 DEF HoursOK, EditsFit
<1> HIDE DEF n, e
<1>6. LockedFits(n)
  BY <1>1, <1>3 DEF LockedFits, Mine
<1>7. EditFits(n)
  BY <1>1, <1>3, <1>5, <1>6 DEF EditFits
<1>8. n \in Edits /\ n # Hours!None
  BY <1>3 DEF Edits, Hours!None
<1> QED
  BY <1>1, <1>2, <1>3, <1>4, <1>7, <1>8, EditMoves DEF e

-----------------------------------------------------------------------------
(* A shift is written                                                      *)

\* Shift k becomes the row r, or is added as such.
Written(k, r) ==
    /\ shifts' \in Seq(ShiftRow) /\ DOMAIN shifts' = Hours!Ids \cup {k} /\ shifts'[k] = r
    /\ \A i \in Hours!Ids \ {k} : shifts'[i] = shifts[i]
    /\ k \in Hours!Ids => shifts[k].member = r.member
    /\ UNCHANGED <<now, linked, employed>>

LEMMA RowAdded ==
  ASSUME Recorded, NEW r \in ShiftRow, shifts' = Append(shifts, r), UNCHANGED <<now, linked, employed>>
  PROVE  Written(Len(shifts) + 1, r) /\ Len(shifts) + 1 \notin Hours!Ids
<1>1. shifts \in Seq(ShiftRow) /\ Hours!Ids = 1..Len(shifts) /\ Len(shifts) \in Nat
  BY DEF Recorded, Hours!Ids
<1> QED
  BY <1>1 DEF Written

LEMMA RowChanged ==
  ASSUME Recorded, NEW k \in Hours!Ids, NEW r \in ShiftRow, shifts' = [shifts EXCEPT ![k] = r],
         shifts[k].member = r.member, UNCHANGED <<now, linked, employed>>
  PROVE  Written(k, r)
<1>1. shifts \in Seq(ShiftRow) /\ Hours!Ids = 1..Len(shifts) /\ Len(shifts) \in Nat
  BY DEF Recorded, Hours!Ids
<1>2. shifts' \in Seq(ShiftRow) /\ DOMAIN shifts' = Hours!Ids
  BY <1>1
<1> QED
  BY <1>1, <1>2 DEF Written

LEMMA WrittenIsRecorded ==
  ASSUME Recorded, NEW k \in Nat, NEW r \in ShiftRow, Written(k, r), RowFits(r, now),
         \A i \in Hours!Ids \ {k} : shifts[i].member = r.member => Apart(shifts[i], r, now)
  PROVE  Recorded'
<1>1. \A i \in Hours!Ids' : RowFits(shifts'[i], now)
  BY DEF Recorded, Hours!Ids, Written
<1>2. ASSUME NEW i \in Hours!Ids', NEW j \in Hours!Ids', i # j, shifts'[i].member = shifts'[j].member
      PROVE  Apart(shifts'[i], shifts'[j], now)
  <2>1. CASE i # k /\ j # k
    BY <1>2, <2>1 DEF Recorded, Hours!Ids, Written
  <2>2. CASE i = k
    <3>1. shifts'[i] = r /\ shifts'[j] = shifts[j] /\ j \in Hours!Ids \ {k}
      BY <1>2, <2>2 DEF Hours!Ids, Written
    <3> QED
      BY <1>2, <3>1 DEF Apart
  <2>3. CASE j = k
    <3>1. shifts'[j] = r /\ shifts'[i] = shifts[i] /\ i \in Hours!Ids \ {k}
      BY <1>2, <2>3 DEF Hours!Ids, Written
    <3> QED
      BY <1>2, <3>1 DEF Apart
  <2> QED
    BY <2>1, <2>2, <2>3
<1>3. now' = now /\ shifts' \in Seq(ShiftRow) /\ UNCHANGED <<linked, employed>>
  BY DEF Written
<1> HIDE DEF Written
<1> QED
  BY <1>1, <1>2, <1>3 DEF Recorded

\* What others found does not change if theirs is another staff record, and one
\* without the account if they have the account's row.
LEMMA OthersFit ==
  ASSUME Recorded, NEW k \in Nat, NEW r \in ShiftRow, Written(k, r)
  PROVE  /\ \A e : EntryFits(e) /\ e.member # r.member /\ r.member \notin linked => EntryFits(e)'
         /\ \A e : /\ EditFits(e)
                   /\ e.step = "locked" => e.member # r.member
                   /\ e.step = "locked" /\ e.lock = "account" => r.member \notin linked
                   => EditFits(e)'
<1>1. /\ now' = now /\ linked' = linked /\ employed' = employed
      /\ Hours!Ids' = Hours!Ids \cup {k} /\ shifts'[k] = r
      /\ \A i \in Hours!Ids \ {k} : shifts'[i] = shifts[i]
      /\ k \in Hours!Ids => shifts[k].member = r.member
  BY DEF Written, Hours!Ids
<1>2. r.member \notin linked => Hours!OpenAt(Hours!Usable)' = Hours!OpenAt(Hours!Usable)
  BY <1>1 DEF Hours!OpenAt, Hours!Usable, Hours!IsOpen, Hours!Editable
<1>3. ASSUME NEW e, EntryFits(e), e.member # r.member, r.member \notin linked
      PROVE  EntryFits(e)'
  BY <1>1, <1>2, <1>3 DEF EntryFits, Hours!Usable, Hours!IsOpen, Hours!Editable
<1>4. ASSUME NEW e, EditFits(e), e.step = "locked" => e.member # r.member,
             e.step = "locked" /\ e.lock = "account" => r.member \notin linked
      PROVE  EditFits(e)'
  <2>1. e.op = "correct" => e.shift \in Hours!Ids' /\ shifts'[e.shift].member = e.member
    BY <1>1, <1>4 DEF EditFits
  <2>2. ASSUME e.step = "locked"
        PROVE  LockedFits(e)'
    <3>1. LockedFits(e) /\ e.member # r.member
      BY <1>4, <2>2 DEF EditFits
    <3>2. ~Hours!Clashes(e.member, e.in, e.out, Mine(e))'
      BY <1>1, <3>1 DEF LockedFits, Hours!Clashes, Hours!Until, Hours!IsOpen,
         Hours!Editable, Mine
    <3>3. e.op = "correct" => shifts'[e.shift] = e.seen
      BY <1>1, <1>4, <3>1 DEF EditFits, LockedFits
    <3> QED
      BY <1>1, <1>2, <1>4, <2>2, <3>1, <3>2, <3>3 DEF LockedFits
  <2> QED
    BY <1>1, <1>4, <2>1, <2>2 DEF EditFits, Hours!LockOf, Hours!Editable
<1> QED
  BY <1>3, <1>4

\* A request that wrote has ended, and those that go on are of other records.
\* Nothing else under way is about the member m, or about anybody the account of m
\* keeps apart from it.
OthersElsewhere(m) ==
  /\ Registering'
  /\ \A v \in Devices : entry'[v] # Hours!None =>
        entry'[v] = entry[v] /\ entry[v].member # m /\ m \notin linked
  /\ \A d \in Desks : edit'[d] # Hours!None =>
        /\ edit'[d] = edit[d]
        /\ edit[d].step = "locked" => edit[d].member # m
        /\ edit[d].step = "locked" /\ edit[d].lock = "account" => m \notin linked

LEMMA WritingKeepsHours ==
  ASSUME HoursOK, NEW k \in Nat, NEW r \in ShiftRow, Written(k, r), RowFits(r, now),
         \A i \in Hours!Ids \ {k} : shifts[i].member = r.member => Apart(shifts[i], r, now),
         OthersElsewhere(r.member)
  PROVE  HoursOK'
<1>1. Recorded'
  BY WrittenIsRecorded DEF HoursOK
<1>2. EntriesFit' /\ EditsFit'
  BY OthersFit DEF HoursOK, EntriesFit, EditsFit, OthersElsewhere
<1>3. Exclusive'
  <2>1. \A d \in Desks : Hours!Locked(d)' => Hours!Locked(d) /\ edit'[d] = edit[d]
    <3> SUFFICES ASSUME NEW d \in Desks, Hours!Locked(d)' PROVE Hours!Locked(d) /\ edit'[d] = edit[d]
      OBVIOUS
    <3>1. edit'[d] # Hours!None
      BY EditTells DEF Hours!Locked, Hours!None
    <3> QED
      BY <3>1 DEF Hours!Locked, OthersElsewhere
  <2> QED
    BY <2>1 DEF HoursOK, Exclusive, OthersElsewhere
<1> QED
  BY <1>1, <1>2, <1>3 DEF HoursOK, OthersElsewhere

LEMMA RecordKeepsHours ==
  ASSUME HoursOK, NEW v \in Devices, Hours!Record(v)
  PROVE  HoursOK'
<1> DEFINE e == entry[v]
           m == e.member
<1>1. e # Hours!None /\ entry' = [entry EXCEPT ![v] = Hours!None]
      /\ UNCHANGED edit /\ Hours!Unmoved
      /\ Hours!RecordIsFree(m)
  BY DEF Hours!Record
<1>2. e \in Entries /\ EntryFits(e)
  BY <1>1 DEF HoursOK, Registering, EntriesFit
<1>3. m \in Hours!Usable /\ m \in linked /\ m \in Members
  BY <1>2 DEF EntryFits, Hours!Usable, HoursOK, Recorded
<1>4. now \in Nat /\ Window \in Nat /\ UNCHANGED <<now, linked, employed>>
  BY <1>1, HoursConstants DEF HoursOK, Recorded, Hours!Unmoved
<1>5. \A w \in Devices : entry'[w] = Hours!None
  BY <1>1 DEF HoursOK, Registering, Exclusive
<1>6. Registering'
  BY <1>1, EntryTells DEF HoursOK, Registering, Entries
<1>7. ASSUME NEW d \in Desks, edit'[d] # Hours!None, edit[d].step = "locked"
      PROVE  edit[d].lock = "record" /\ edit[d].member # m
  <2>1. Hours!Locked(d)
    BY <1>1, <1>7, LockedTells DEF HoursOK
  <2>2. edit[d].lock = "record"
    BY <1>1, <2>1 DEF HoursOK, Exclusive
  <2> QED
    BY <1>1, <2>1, <2>2 DEF Hours!RecordIsFree
<1>10. OthersElsewhere(m)
  BY <1>1, <1>5, <1>6, <1>7 DEF OthersElsewhere
<1>8. CASE e.op = "in"
  <2> DEFINE r == [member |-> m, in |-> now, outs |-> <<>>]
             k == Len(shifts) + 1
  <2>1. r \in ShiftRow /\ r.member = m /\ r.in = now /\ r.outs = <<>>
    BY <1>3, <1>4 DEF ShiftRow
  <2>2. shifts' = Append(shifts, r)
    BY <1>8 DEF Hours!Record
  <2>3. RowFits(r, now) /\ Ends(r, now) = now + 1
    BY <1>4, <2>1 DEF RowFits, Ends
  <2> HIDE DEF r
  <2>4. Written(k, r) /\ k \notin Hours!Ids /\ k \in Nat
    BY <1>4, <2>1, <2>2, RowAdded DEF HoursOK, Recorded
  <2>5. ASSUME NEW i \in Hours!Ids, shifts[i].member = m
        PROVE  Ends(shifts[i], now) <= now
    <3>1. i \notin Hours!OpenAt(Hours!Usable)
      BY <1>2, <1>8 DEF EntryFits
    <3>2. ~(Hours!IsOpen(i) /\ Hours!Editable(shifts[i].in))
      BY <1>3, <2>5, <3>1 DEF Hours!OpenAt
    <3>3. shifts[i].in \in Nat /\ RowFits(shifts[i], now) /\ shifts[i].outs \in Seq(Nat)
      BY UntilIsEnds DEF HoursOK, Recorded
    <3> QED
      BY <1>4, <3>2, <3>3 DEF Ends, RowFits, Hours!IsOpen, Hours!Editable
  <2>6. \A i \in Hours!Ids \ {k} : shifts[i].member = r.member => Apart(shifts[i], r, now)
    BY <2>1, <2>5 DEF Apart
  <2> QED
    BY <1>10, <2>1, <2>3, <2>4, <2>6, WritingKeepsHours
<1>9. CASE e.op = "out"
  <2> DEFINE k == e.shift
             old == shifts[k]
             r == [old EXCEPT !.outs = Append(@, now)]
  <2>1. k \in Hours!Ids /\ old.member = m /\ Hours!IsOpen(k) /\ Hours!Editable(old.in) /\ old.in < now
        /\ shifts' = [shifts EXCEPT ![k].outs = Append(@, now)]
    BY <1>2, <1>9 DEF EntryFits, Hours!Record
  <2>2. old \in ShiftRow /\ old.outs = <<>> /\ old.in \in Nat /\ k \in Nat
    BY <2>1, UntilIsEnds DEF HoursOK
  <2>3. shifts' = [shifts EXCEPT ![k] = r]
    BY <2>1
  <2> HIDE DEF k, old
  <2>4. r \in ShiftRow /\ r.member = old.member /\ r.in = old.in /\ r.outs = <<now>>
    <3>1. <<now>> \in Seq(Nat) /\ Append(old.outs, now) = <<now>>
      BY <1>4, <2>2
    <3> QED
      BY <2>2, <3>1 DEF ShiftRow
  <2> HIDE DEF r
  <2>5. RowFits(r, now) /\ Ends(r, now) = now
    <3>1. r.outs # <<>> /\ r.outs[1] = now /\ Len(r.outs) = 1
      BY <2>4
    <3> QED
      BY <1>4, <2>1, <2>2, <2>4, <3>1 DEF RowFits, Ends
  <2>6. Written(k, r)
    BY <1>4, <2>1, <2>3, <2>4, RowChanged DEF HoursOK, old
  <2>7. Ends(old, now) = now + 1
    BY <1>4, <2>1, <2>2 DEF Ends, Hours!Editable
  <2>8. ASSUME NEW i \in Hours!Ids \ {k}, shifts[i].member = r.member
        PROVE  Apart(shifts[i], r, now)
    <3>1. Apart(shifts[i], old, now)
      BY <2>1, <2>4, <2>8 DEF HoursOK, Recorded, old
    <3>2. shifts[i].in \in Nat /\ shifts[i].in <= now
      BY UntilIsEnds DEF HoursOK, Recorded, RowFits
    <3>3. Ends(shifts[i], now) <= old.in
      BY <1>4, <2>7, <3>1, <3>2 DEF Apart
    <3> QED
      BY <2>4, <3>3 DEF Apart
  <2> QED
    BY <1>10, <2>1, <2>2, <2>4, <2>5, <2>6, <2>8, WritingKeepsHours
<1> QED
  BY <1>1, <1>2, <1>8, <1>9, EntryTells

\* Whoever holds a lock for an edit keeps all others from its record, and from all
\* records with an account if its own has one.
LEMMA OthersAreElsewhere ==
  ASSUME HoursOK, NEW d \in Desks, Hours!Locked(d), edit' = [edit EXCEPT ![d] = Hours!None],
         UNCHANGED entry
  PROVE  OthersElsewhere(edit[d].member)
<1> DEFINE m == edit[d].member
<1>1. edit[d] # Hours!None /\ edit[d] \in Edits
  BY LockedTells DEF HoursOK
<1>2. EditFits(edit[d])
  BY <1>1 DEF HoursOK, EditsFit
<1>3. edit[d].lock = IF m \in linked THEN "account" ELSE "record"
  BY <1>2 DEF EditFits, Hours!LockOf
<1>4. \A c \in Desks : edit'[c] = IF c = d THEN Hours!None ELSE edit[c]
  BY DEF HoursOK, Registering
<1>5. Registering'
  BY DEF HoursOK, Registering, Edits
<1>6. ASSUME NEW v \in Devices, entry[v] # Hours!None
      PROVE  entry[v].member # m /\ m \notin linked
  <2>1. edit[d].lock = "record"
    BY <1>6 DEF HoursOK, Exclusive
  <2>2. entry[v].member \in linked
    BY <1>6 DEF HoursOK, EntriesFit, EntryFits, Hours!Usable
  <2> QED
    BY <1>3, <2>1, <2>2
<1>7. ASSUME NEW c \in Desks, c # d, edit[c] # Hours!None, edit[c].step = "locked"
      PROVE  edit[c].member # m /\ (edit[c].lock = "account" => m \notin linked)
  <2>1. Hours!Locked(c)
    BY <1>7, LockedTells DEF HoursOK
  <2>2. edit[c].lock = IF edit[c].member \in linked THEN "account" ELSE "record"
    BY <1>7 DEF HoursOK, EditsFit, EditFits, Hours!LockOf
  <2> QED
    BY <1>3, <1>7, <2>1, <2>2 DEF HoursOK, Exclusive
<1> QED
  BY <1>4, <1>5, <1>6, <1>7 DEF OthersElsewhere

LEMMA EnterProxyKeepsHours ==
  ASSUME HoursOK, NEW d \in Desks, Hours!EnterProxy(d)
  PROVE  HoursOK'
<1> DEFINE e == edit[d]
           r == [member |-> e.member, in |-> e.in, outs |-> IF e.out > now THEN <<>> ELSE <<e.out>>]
           k == Len(shifts) + 1
<1>1. Hours!Locked(d) /\ e.op = "proxy" /\ shifts' = Append(shifts, r)
      /\ edit' = [edit EXCEPT ![d] = Hours!None] /\ Hours!Unmoved /\ UNCHANGED entry
  BY DEF Hours!EnterProxy
<1>2. e \in Proxies /\ e # Hours!None /\ e.step = "locked"
  BY <1>1, LockedTells, EditTells DEF HoursOK
<1>3. EditFits(e)
  BY <1>2 DEF HoursOK, EditsFit
<1>4. e.member \in Members /\ e.in \in Nat /\ e.out \in Nat /\ e.in < e.out /\ e.out <= now + 1
      /\ Hours!Editable(e.in) /\ ~Hours!Clashes(e.member, e.in, e.out, {}) /\ now \in Nat /\ Window \in Nat
  BY <1>1, <1>2, <1>3, HoursConstants DEF Proxies, EditFits, LockedFits, Mine, HoursOK,
     Recorded
<1>5. UNCHANGED <<now, linked, employed>>
  BY <1>1 DEF Hours!Unmoved
<1>6. r.member = e.member /\ r.in = e.in /\ r.outs = IF e.out > now THEN <<>> ELSE <<e.out>>
  OBVIOUS
<1> HIDE DEF e
<1>7. r \in ShiftRow
  BY <1>4 DEF ShiftRow
<1> HIDE DEF r
<1>8. RowFits(r, now) /\ Ends(r, now) = e.out
  <2>1. CASE e.out > now
    BY <1>4, <1>6, <2>1 DEF RowFits, Ends, Hours!Editable
  <2>2. CASE ~(e.out > now)
    BY <1>4, <1>6, <2>2 DEF RowFits, Ends
  <2> QED
    BY <2>1, <2>2
<1>9. Written(k, r) /\ k \notin Hours!Ids /\ k \in Nat
  BY <1>1, <1>5, <1>7, RowAdded DEF HoursOK, Recorded
<1>10. ASSUME NEW i \in Hours!Ids \ {k}, shifts[i].member = r.member
       PROVE  Apart(shifts[i], r, now)
  <2>1. ~(shifts[i].in < e.out /\ e.in < Hours!Until(i))
    BY <1>4, <1>6, <1>10 DEF Hours!Clashes
  <2>2. Hours!Until(i) = Ends(shifts[i], now) /\ Ends(shifts[i], now) \in Int /\ shifts[i].in \in Nat
    BY UntilIsEnds DEF HoursOK
  <2> QED
    BY <1>4, <1>6, <1>8, <2>1, <2>2 DEF Apart
<1> QED
  <2>1. OthersElsewhere(r.member)
    BY <1>1, <1>6, OthersAreElsewhere DEF e
  <2> QED
    BY ONLY HoursOK, <1>1, <1>7, <1>8, <1>9, <1>10, <2>1, WritingKeepsHours

LEMMA EnterCorrectionKeepsHours ==
  ASSUME HoursOK, NEW d \in Desks, Hours!EnterCorrection(d)
  PROVE  HoursOK'
<1> DEFINE e == edit[d]
           k == e.shift
           old == shifts[k]
           outs == IF e.out > now THEN old.outs
                   ELSE IF e.seen.outs = <<>> THEN Append(old.outs, e.out)
                                              ELSE [old.outs EXCEPT ![1] = e.out]
           put == IF e.out > now THEN <<>> ELSE <<e.out>>
           r == [old EXCEPT !.in = e.in, !.outs = outs]
<1>1. /\ Hours!Locked(d) /\ e.op = "correct" /\ edit' = [edit EXCEPT ![d] = Hours!None]
      /\ Hours!Unmoved /\ UNCHANGED entry
      /\ shifts' = [shifts EXCEPT ![k].in = e.in, ![k].outs = outs]
  BY DEF Hours!EnterCorrection
<1>2. e \in Corrections /\ e # Hours!None /\ e.step = "locked"
  BY <1>1, LockedTells, EditTells DEF HoursOK
<1>3. EditFits(e)
  BY <1>2 DEF HoursOK, EditsFit
<1>4. e.member \in Members /\ e.in \in Nat /\ e.out \in Nat /\ e.in < e.out /\ e.out <= now + 1
      /\ (e.out <= now \/ old.outs = <<>>) /\ Hours!Editable(e.in) /\ Window \in Nat
      /\ ~Hours!Clashes(e.member, e.in, e.out, {k}) /\ now \in Nat /\ old = e.seen
      /\ k \in Hours!Ids /\ old.member = e.member
  BY <1>1, <1>2, <1>3, HoursConstants DEF Corrections, EditFits, LockedFits, Mine, HoursOK,
     Recorded
<1>5. UNCHANGED <<now, linked, employed>>
  BY <1>1 DEF Hours!Unmoved
<1>6. old \in ShiftRow /\ old.outs \in Seq(Nat) /\ Len(old.outs) <= 1 /\ k \in Nat
  BY <1>4, UntilIsEnds DEF HoursOK, Recorded, RowFits
<1>7. shifts' = [shifts EXCEPT ![k] = r]
  <2>1. shifts \in Seq(ShiftRow) /\ k \in DOMAIN shifts
    BY <1>4 DEF HoursOK, Recorded, Hours!Ids
  <2> HIDE DEF outs, put, e
  <2> QED
    BY <1>1, <2>1
<1>8. outs = put
  <2>1. CASE e.out > now
    BY <1>4, <2>1
  <2>2. CASE ~(e.out > now) /\ old.outs = <<>>
    BY <1>4, <2>2
  <2>3. CASE ~(e.out > now) /\ old.outs # <<>>
    BY <1>4, <1>6, <2>3
  <2> QED
    BY <2>1, <2>2, <2>3
<1> HIDE DEF outs, old, k, e
<1>9. r \in ShiftRow /\ r.member = e.member /\ r.in = e.in /\ r.outs = put
  <2>1. put \in Seq(Nat)
    BY <1>4
  <2> QED
    BY <1>4, <1>6, <1>8, <2>1 DEF ShiftRow
<1> HIDE DEF r
<1>10. RowFits(r, now) /\ Ends(r, now) = e.out
  <2>1. CASE e.out > now
    BY <1>4, <1>9, <2>1 DEF RowFits, Ends, Hours!Editable
  <2>2. CASE ~(e.out > now)
    BY <1>4, <1>9, <2>2 DEF RowFits, Ends
  <2> QED
    BY <2>1, <2>2
<1>11. Written(k, r)
  BY <1>4, <1>5, <1>7, <1>9, RowChanged DEF HoursOK, old
<1>12. ASSUME NEW i \in Hours!Ids \ {k}, shifts[i].member = r.member
       PROVE  Apart(shifts[i], r, now)
  <2>1. ~(shifts[i].in < e.out /\ e.in < Hours!Until(i))
    BY <1>4, <1>9, <1>12 DEF Hours!Clashes
  <2>2. Hours!Until(i) = Ends(shifts[i], now) /\ Ends(shifts[i], now) \in Int /\ shifts[i].in \in Nat
    BY UntilIsEnds DEF HoursOK
  <2> QED
    BY <1>4, <1>9, <1>10, <2>1, <2>2 DEF Apart
<1> QED
  <2>1. OthersElsewhere(r.member)
    BY <1>1, <1>9, OthersAreElsewhere DEF e
  <2> QED
    BY ONLY HoursOK, <1>1, <1>6, <1>9, <1>10, <1>11, <1>12, <2>1, WritingKeepsHours

-----------------------------------------------------------------------------
(* Accounts, leaving, the next day                                         *)

LEMMA LinkKeepsHours ==
  ASSUME HoursOK, NEW m \in Members, Hours!Link(m), ~crossed'
  PROVE  HoursOK'
<1>1. /\ Hours!AccountIsFree /\ linked' = linked \cup {m}
      /\ \A d \in Desks : ~(edit[d].op # "none" /\ edit[d].member = m)
      /\ UNCHANGED <<now, employed, shifts, entry, edit>>
  BY DEF Hours!Link
<1>2. \A v \in Devices : entry[v] = Hours!None
  BY <1>1 DEF Hours!AccountIsFree
<1>3. Recorded'
  BY <1>1 DEF HoursOK, Recorded, Hours!Ids
<1>4. Registering' /\ Exclusive' /\ EntriesFit'
  BY <1>1, <1>2 DEF HoursOK, Registering, Exclusive, Hours!Locked, EntriesFit
<1>5. ASSUME NEW e, EditFits(e), e.member # m, e.step = "locked" => e.lock # "account"
      PROVE  EditFits(e)'
  <2>1. LockedFits(e) /\ e.step = "locked" => LockedFits(e)'
    BY <1>1, <1>5 DEF LockedFits, Hours!Clashes, Hours!Until, Hours!IsOpen, Hours!Editable,
       Mine, Hours!Ids
  <2> QED
    BY <1>1, <1>5, <2>1 DEF EditFits, Hours!LockOf, Hours!Editable, Hours!Ids
<1>6. EditsFit'
  <2> SUFFICES ASSUME NEW d \in Desks, edit[d] # Hours!None PROVE EditFits(edit[d])'
    BY <1>1 DEF EditsFit
  <2>1. EditFits(edit[d]) /\ edit[d].op # "none"
    BY LockedTells, EditTells DEF HoursOK, EditsFit
  <2>2. edit[d].step = "locked" => edit[d].lock # "account"
    BY <1>1, <2>1 DEF Hours!AccountIsFree, Hours!Locked
  <2>3. edit' = edit
    BY <1>1
  <2> QED
    BY <1>1, <1>5, <2>1, <2>2, <2>3
<1> QED
  BY <1>3, <1>4, <1>6 DEF HoursOK

LEMMA RetireKeepsHours ==
  ASSUME HoursOK, NEW m \in Members, Hours!Retire(m)
  PROVE  HoursOK'
<1>1. /\ m \in linked => Hours!AccountIsFree
      /\ employed' = employed \ {m} /\ UNCHANGED <<now, linked, shifts, entry, edit>>
  BY DEF Hours!Retire
<1>2. Recorded'
  BY <1>1 DEF HoursOK, Recorded, Hours!Ids
<1>3. Registering' /\ Exclusive'
  BY <1>1 DEF HoursOK, Registering, Exclusive, Hours!Locked
<1>4. Hours!OpenAt(Hours!Usable)' \subseteq Hours!OpenAt(Hours!Usable)
  BY <1>1 DEF Hours!OpenAt, Hours!Usable, Hours!Ids, Hours!IsOpen, Hours!Editable
<1>5. ASSUME NEW v \in Devices, entry[v] # Hours!None
      PROVE  EntryFits(entry[v])'
  <2>1. m \notin linked /\ EntryFits(entry[v])
    BY <1>1, <1>5 DEF Hours!AccountIsFree, HoursOK, EntriesFit
  <2> QED
    BY <1>1, <1>4, <2>1 DEF EntryFits, Hours!Usable, Hours!Ids, Hours!IsOpen, Hours!Editable
<1>6. ASSUME NEW d \in Desks, edit[d] # Hours!None
      PROVE  EditFits(edit[d])'
  <2>1. EditFits(edit[d])
    BY <1>6 DEF HoursOK, EditsFit
  <2>2. LockedFits(edit[d]) => LockedFits(edit[d])'
    BY <1>1, <1>4 DEF LockedFits, Hours!Clashes, Hours!Until, Hours!IsOpen, Hours!Editable,
       Mine, Hours!Ids
  <2> QED
    BY <1>1, <2>1, <2>2 DEF EditFits, Hours!LockOf, Hours!Editable, Hours!Ids
<1>7. EntriesFit' /\ EditsFit'
  BY <1>1, <1>5, <1>6 DEF EntriesFit, EditsFit
<1> QED
  BY <1>2, <1>3, <1>7 DEF HoursOK

LEMMA TickKeepsHours ==
  ASSUME HoursOK, Hours!Tick
  PROVE  HoursOK'
<1>1. /\ now \in Nat /\ now' = now + 1 /\ Window \in Nat /\ UNCHANGED <<linked, employed, shifts, entry, edit>>
      /\ \A v \in Devices : entry[v] = Hours!None
      /\ \A d \in Desks : edit[d] = Hours!None
  BY HoursConstants DEF Hours!Tick, HoursOK, Recorded
<1>2. \A i \in Hours!Ids : RowFits(shifts[i], now + 1)
  <2> SUFFICES ASSUME NEW i \in Hours!Ids PROVE RowFits(shifts[i], now + 1)
    OBVIOUS
  <2>1. RowFits(shifts[i], now) /\ shifts[i].in \in Nat /\ shifts[i].outs \in Seq(Nat)
    BY UntilIsEnds DEF HoursOK, Recorded
  <2> QED
    BY <1>1, <2>1 DEF RowFits
<1>3. ASSUME NEW i \in Hours!Ids, NEW j \in Hours!Ids, i # j, shifts[i].member = shifts[j].member
      PROVE  Apart(shifts[i], shifts[j], now + 1)
  <2>1. Apart(shifts[i], shifts[j], now)
    BY <1>3 DEF HoursOK, Recorded
  <2>2. ASSUME NEW x \in Hours!Ids
        PROVE  /\ shifts[x].in \in Nat /\ shifts[x].in <= now
               /\ Ends(shifts[x], now) \in Int /\ Ends(shifts[x], now + 1) \in Int
               /\ Ends(shifts[x], now) = now + 1 \/ Ends(shifts[x], now + 1) = Ends(shifts[x], now)
    <3>1. RowFits(shifts[x], now) /\ shifts[x].in \in Nat /\ shifts[x].outs \in Seq(Nat)
          /\ Ends(shifts[x], now) \in Int
      BY UntilIsEnds DEF HoursOK, Recorded
    <3>2. shifts[x].outs # <<>> => shifts[x].outs[1] \in Nat
      BY <3>1
    <3>3. CASE shifts[x].outs # <<>>
      BY <1>1, <3>1, <3>2, <3>3 DEF Ends, RowFits
    <3>4. CASE shifts[x].outs = <<>>
      BY <1>1, <3>1, <3>4 DEF Ends, RowFits
    <3> QED
      BY <3>3, <3>4
  <2>3. /\ shifts[i].in \in Nat /\ shifts[i].in <= now /\ shifts[j].in \in Nat /\ shifts[j].in <= now
        /\ Ends(shifts[i], now) = now + 1 \/ Ends(shifts[i], now + 1) = Ends(shifts[i], now)
        /\ Ends(shifts[j], now) = now + 1 \/ Ends(shifts[j], now + 1) = Ends(shifts[j], now)
    BY <2>2
  <2> QED
    BY <1>1, <2>1, <2>3 DEF Apart
<1>4. Recorded'
  BY <1>1, <1>2, <1>3 DEF HoursOK, Recorded, Hours!Ids
<1>5. Registering' /\ Exclusive' /\ EntriesFit' /\ EditsFit'
  BY <1>1, EditTells DEF HoursOK, Registering, Exclusive, Hours!Locked, EntriesFit,
     EditsFit, Hours!None
<1> QED
  BY <1>4, <1>5 DEF HoursOK

-----------------------------------------------------------------------------

LEMMA HoursInit == Hours!Init => HoursInv
<1> SUFFICES ASSUME Hours!Init PROVE HoursOK
  BY DEF HoursInv
<1>1. Recorded
  BY DEF Hours!Init, Recorded, Hours!Ids
<1>2. Registering
  BY DEF Hours!Init, Registering, Entries, Edits
<1>3. Exclusive /\ EntriesFit /\ EditsFit
  BY DEF Hours!Init, Exclusive, Hours!Locked, EntriesFit, EditsFit, Hours!None
<1> QED
  BY <1>1, <1>2, <1>3 DEF HoursOK

LEMMA HoursNext ==
  ASSUME HoursInv, [Hours!Next]_hoursSide
  PROVE  HoursInv'
<1> SUFFICES ASSUME ~crossed' PROVE HoursOK'
  BY DEF HoursInv
<1>1. ~crossed
  BY DEF Hours!Next, Hours!CheckIn, Hours!CheckOut, Hours!Record, Hours!Abort,
     Hours!BeginProxy, Hours!BeginCorrection, Hours!Begin, Hours!LockForProxy,
     Hours!EnterProxy, Hours!LockForCorrection, Hours!EnterCorrection, Hours!Refuse,
     Hours!Link, Hours!Retire, Hours!Tick, Hours!Unmoved, hoursSide
<1>2. HoursOK
  BY <1>1 DEF HoursInv
<1>3. CASE UNCHANGED hoursSide
  <2>1. UNCHANGED <<now, linked, employed, shifts, entry, edit>>
    BY <1>3 DEF hoursSide
  <2>2. Recorded' /\ \A e : (EntryFits(e) => EntryFits(e)') /\ (EditFits(e) => EditFits(e)')
    BY <1>2, <2>1, FitsStill DEF HoursOK
  <2> QED
    BY <1>2, <2>1, <2>2 DEF HoursOK, Registering, Exclusive, Hours!Locked, EntriesFit,
       EditsFit
<1>4. CASE Hours!Next
  BY <1>2, <1>4, CheckInKeepsHours, CheckOutKeepsHours, RecordKeepsHours, AbortKeepsHours,
     BeginProxyKeepsHours, BeginCorrectionKeepsHours, LockForProxyKeepsHours,
     EnterProxyKeepsHours, LockForCorrectionKeepsHours, EnterCorrectionKeepsHours,
     RefuseKeepsHours, LinkKeepsHours, RetireKeepsHours, TickKeepsHours DEF Hours!Next
<1> QED
  BY <1>3, <1>4

LEMMA HoursAreCountedOnce == HoursInv => Hours!HoursCountOnce
<1> SUFFICES ASSUME HoursInv, ~crossed PROVE Hours!OneCheckOut /\ Hours!NoOverlap
  BY DEF Hours!HoursCountOnce, Hours!OneCheckOut, Hours!NoOverlap
<1>1. HoursOK
  BY DEF HoursInv
<1>2. Hours!OneCheckOut
  BY <1>1 DEF Hours!OneCheckOut, HoursOK, Recorded, RowFits
<1>3. Hours!NoOverlap
  BY <1>1, UntilIsEnds DEF Hours!NoOverlap, HoursOK, Recorded, Apart
<1> QED
  BY <1>2, <1>3

\* The parts move one at a time.
THEOREM HoursInvariant == PartsSpec => []HoursInv
<1>1. PartsInit => HoursInv
  BY HoursInit DEF PartsInit
<1>2. HoursInv /\ [PartsNext]_<<payslipVars, hoursSide, plansSide, part>> => HoursInv'
  <2> SUFFICES ASSUME HoursInv, [PartsNext]_<<payslipVars, hoursSide, plansSide, part>>
               PROVE  HoursInv'
    OBVIOUS
  <2>1. [Hours!Next]_hoursSide
    BY DEF PartsNext
  <2> QED
    BY <2>1, HoursNext
<1> QED
  BY <1>1, <1>2, PTL DEF PartsSpec

\* No hour is counted twice, neither by two check-outs nor by two shifts of one staff
\* record, whatever the app, the administrators and the end of an employment interleave.
THEOREM HoursCountedOnce == PartsSpec => []HoursCountOnce
<1>1. HoursInv => HoursCountOnce
  BY HoursAreCountedOnce DEF HoursCountOnce
<1> QED
  BY <1>1, HoursInvariant, PTL
-----------------------------------------------------------------------------
(* One open check-in                                                       *)

LEMMA NewOneIsAlone ==
  ASSUME HoursInv, [Hours!Next]_hoursSide, ~crossed, NEW i \in Hours!Ids' \ Hours!Ids,
         Hours!IsOpen(i)', shifts'[i].member \in Hours!Usable
  PROVE  Hours!OpenAt(Hours!Usable) = {}
<1>1. HoursOK
  BY DEF HoursInv
<1>2. ASSUME NEW v \in Devices, Hours!Record(v)
      PROVE  Hours!OpenAt(Hours!Usable) = {}
  <2> DEFINE e == entry[v]
  <2>1. e # Hours!None /\ e \in Entries /\ EntryFits(e)
    BY <1>1, <1>2 DEF Hours!Record, HoursOK, Registering, EntriesFit
  <2>2. e.op # "out"
    <3> SUFFICES ASSUME e.op = "out" PROVE FALSE
      OBVIOUS
    <3>1. shifts' = [shifts EXCEPT ![e.shift].outs = Append(@, now)]
      BY <1>2 DEF Hours!Record
    <3> HIDE DEF e
    <3> QED
      BY <3>1 DEF Hours!Ids
  <2> QED
    BY <2>1, <2>2, EntryTells DEF EntryFits
<1>3. ASSUME NEW d \in Desks, Hours!EnterProxy(d)
      PROVE  Hours!OpenAt(Hours!Usable) = {}
  <2> DEFINE e == edit[d]
             r == [member |-> e.member, in |-> e.in,
                   outs |-> IF e.out > now THEN <<>> ELSE <<e.out>>]
  <2>1. Hours!Locked(d) /\ e.op = "proxy" /\ shifts' = Append(shifts, r)
    BY <1>3 DEF Hours!EnterProxy
  <2>2. e \in Proxies /\ EditFits(e) /\ e.step = "locked"
    BY <1>1, <2>1, LockedTells, EditTells DEF HoursOK, EditsFit
  <2>3. e.out \in Nat /\ now \in Nat /\ e.out <= now + 1
    BY <1>1, <2>2 DEF Proxies, EditFits, HoursOK, Recorded
  <2>4. shifts'[i] = r
    <3>1. shifts \in Seq(ShiftRow) /\ i = Len(shifts) + 1
      BY <1>1, <2>1 DEF HoursOK, Recorded, Hours!Ids
    <3> HIDE DEF r
    <3> QED
      BY <2>1, <3>1
  <2>5. e.out = now + 1
    <3>1. r.outs = <<>>
      BY <2>4 DEF Hours!IsOpen
    <3>2. e.out > now
      BY <3>1
    <3> QED
      BY <2>3, <3>2
  <2>6. e.lock = "account"
    BY <2>2, <2>4 DEF EditFits, Hours!LockOf, Hours!Usable
  <2> QED
    BY <2>1, <2>2, <2>5, <2>6 DEF EditFits, LockedFits
<1>4. ASSUME NEW d \in Desks, Hours!EnterCorrection(d)
      PROVE  FALSE
  BY <1>4 DEF Hours!EnterCorrection, Hours!Ids
<1>5. CASE UNCHANGED shifts
  BY <1>5 DEF Hours!Ids
<1> QED
  BY <1>2, <1>3, <1>4, <1>5
     DEF Hours!Next, hoursSide, Hours!CheckIn, Hours!CheckOut, Hours!Abort, Hours!BeginProxy,
         Hours!BeginCorrection, Hours!Begin, Hours!LockForProxy, Hours!LockForCorrection,
         Hours!Refuse, Hours!Link, Hours!Retire, Hours!Tick

\* A check-in is made only while the account has none that is open, by whichever device or
\* administrator and at whichever store.
THEOREM OneOpenAtATime == PartsSpec => Hours!OneOpenCheckIn
<1>1. ASSUME HoursInv, [PartsNext]_<<payslipVars, hoursSide, plansSide, part>>
      PROVE  [~crossed => \A i \in Hours!Ids' \ Hours!Ids :
                Hours!IsOpen(i)' /\ shifts[i].member' \in Hours!Usable =>
                  Hours!OpenAt(Hours!Usable) = {}]_hoursSide
  <2>1. [Hours!Next]_hoursSide
    BY <1>1 DEF PartsNext
  <2> QED
    BY <1>1, <2>1, NewOneIsAlone
<1> QED
  BY <1>1, HoursInvariant, PTL DEF PartsSpec, Hours!OneOpenCheckIn, Hours!attendanceVars, hoursSide

-----------------------------------------------------------------------------
(* Plans: rows, locks and what requests rely on                            *)

ShiftSet == [day : Nat, night : BOOLEAN]
PlanRows == [of : Nat, shift : ShiftSet, state : {"none", "live", "deleted", "purged"}]
CopySet == [of : Records, shift : ShiftSet]
PersonSet == [retire : Nat, retired : BOOLEAN, until : Nat]

PlanLocks ==
  [row : {Plans!Week(w) : w \in Int} \union {Plans!Staff(r) : r \in Records}
         \union {Plans!Row(i) : i \in Plans!Ids},
   mode : {"SHARED", "EXCLUSIVE", "NO KEY UPDATE", "UPDATE"}]
WeekLock(s, m) == Plans!Lock(Plans!Week(Plans!WeekOf(s.day)), m)
StaffLock(r) == Plans!Lock(Plans!Staff(r), "NO KEY UPDATE")
StaffLocks == {StaffLock(r) : r \in Records}
RowLock(i) == Plans!Lock(Plans!Row(i), "UPDATE")
PlanJobs == {"idle", "create", "update", "remove", "copy", "purge", "purgeRow"}
PlanRequests ==
  [job : PlanJobs, of : Nat, id : Nat, shift : ShiftSet, found : ShiftSet,
   copies : SUBSET CopySet, held : SUBSET PlanLocks, want : Seq(PlanLocks)]

PlansTyped ==
    /\ people \in [Records -> PersonSet] /\ closed \in BOOLEAN
    /\ plan \in [Plans!Ids -> PlanRows] /\ told \in [Plans!Ids -> ShiftSet]
    /\ tx \in [Requests -> PlanRequests]

\* Nobody is planned twice at a time or after leaving, and rows are taken in order.
KeptApart(s, t) == Plans!Busy(s) \cap Plans!Busy(t) = {}
RowsFit ==
    /\ \A i, j \in Plans!Ids : i # j /\ Plans!Live(i) /\ Plans!Live(j)
         /\ plan[i].of = plan[j].of =>
          KeptApart(plan[i].shift, plan[j].shift)
    /\ \A i \in Plans!Ids : Plans!Live(i) => plan[i].of \in Records
    /\ \A i \in Plans!Ids : Plans!Live(i) /\ people[plan[i].of].retired
                         => plan[i].shift.day <= people[plan[i].of].retire
    /\ \A r \in Records : people[r].retired => people[r].retire # 0
    /\ \A i, j \in Plans!Ids : i < j /\ plan[i].state = "none" => plan[j].state = "none"
\* The history of a row that lives ends with the row, unless the purge holds it.
HistoryFits ==
    \A i \in Plans!Ids : Plans!Live(i) =>
        told[i] = plan[i].shift \/ \E q \in Requests : tx[q].job = "purgeRow" /\ tx[q].id = i

\* No two requests hold locks that exclude each other.
LocksApart ==
    \A p, q \in Requests : p # q => \A l \in tx[p].held, m \in tx[q].held : ~Plans!Conflict(l, m)
\* A request takes the locks of its job one by one.
Takes1(t, x) == (t.held = {} /\ t.want = <<x>>) \/ (t.held = {x} /\ t.want = <<>>)
Takes2(t, x, y) ==
    \/ t.held = {} /\ t.want = <<x, y>>
    \/ t.held = {x} /\ t.want = <<y>>
    \/ t.held = {x, y} /\ t.want = <<>>
Takes3(t, x, y, z) ==
    \/ t.held = {} /\ t.want = <<x, y, z>>
    \/ t.held = {x} /\ t.want = <<y, z>>
    \/ t.held = {x, y} /\ t.want = <<z>>
    \/ t.held = {x, y, z} /\ t.want = <<>>
WantsLock(t, l) == \E k \in 1 .. Len(t.want) : t.want[k] = l
TakesCopies(t) ==
    \/ t.held = {} /\ t.want = <<WeekLock(t.shift, "EXCLUSIVE")>> /\ t.copies = {}
    \/ /\ WeekLock(t.shift, "EXCLUSIVE") \in t.held /\ t.want \in Seq(StaffLocks)
       /\ t.held \subseteq StaffLocks \union {WeekLock(t.shift, "EXCLUSIVE")}
       /\ \A c \in t.copies : StaffLock(c.of) \in t.held \/ WantsLock(t, StaffLock(c.of))
InTurn(t) ==
    /\ t.job = "idle" => t.held = {} /\ t.want = <<>>
    /\ t.job = "create" => Takes2(t, WeekLock(t.shift, "SHARED"), StaffLock(t.of))
    /\ t.job = "update" =>
         Takes3(t, WeekLock(t.shift, "SHARED"), StaffLock(t.of), RowLock(t.id))
    /\ t.job = "remove" => Takes2(t, StaffLock(t.of), RowLock(t.id))
    /\ t.job = "copy" => TakesCopies(t)
    /\ t.job = "purge" => Takes1(t, RowLock(t.id))
    /\ t.job = "purgeRow" => t.held = {RowLock(t.id)} /\ t.want = <<>>

\* What a request found under its locks still is so.
CreateFits(t) ==
    /\ t.of \in Records
    /\ t.want = <<>> => Plans!MayWork(t.of, t.shift.day) /\ ~Plans!Overlaps(t.of, t.shift, 0)
RowKnown(t) ==
    /\ t.of \in Records /\ t.id \in Plans!Ids /\ plan[t.id].state # "none"
    /\ Plans!Live(t.id) => plan[t.id].of = t.of
    /\ t.want = <<>> => Plans!Live(t.id) /\ t.found = plan[t.id].shift
UpdateFits(t) ==
    /\ RowKnown(t)
    /\ t.want = <<>> => Plans!MayWork(t.of, t.shift.day) /\ ~Plans!Overlaps(t.of, t.shift, t.id)
CopyFits(t) ==
    /\ IsFiniteSet(t.copies)
    /\ \A c \in t.copies : Plans!WeekOf(c.shift.day) = Plans!WeekOf(t.shift.day)
    /\ \A c, d \in t.copies : c # d /\ c.of = d.of => KeptApart(c.shift, d.shift)
    /\ t.held # {} => Plans!LiveIn(Plans!WeekOf(t.shift.day)) = {}
PurgeFits(t) == t.id \in Plans!Ids /\ plan[t.id].state # "none"
Relies(t) ==
    /\ t.job = "create" => CreateFits(t)
    /\ t.job = "update" => UpdateFits(t)
    /\ t.job = "remove" => RowKnown(t)
    /\ t.job = "copy" => CopyFits(t)
    /\ t.job \in {"purge", "purgeRow"} => PurgeFits(t)
    /\ t.job = "purgeRow" => told[t.id] = Plans!NoShift

PlansInv ==
    /\ PlansTyped /\ RowsFit /\ HistoryFits /\ LocksApart
    /\ \A q \in Requests : InTurn(tx[q]) /\ Relies(tx[q])

-----------------------------------------------------------------------------
(* Lemmas about locks and the order in which they are taken                *)

LEMMA PlanLocksTell ==
  /\ \A row, m : Plans!Lock(row, m).row = row /\ Plans!Lock(row, m).mode = m
  /\ \A w : Plans!Week(w)[1] = "week" /\ Plans!Week(w)[2] = w
  /\ \A r : Plans!Staff(r)[1] = "staff" /\ \A i : Plans!Row(i)[1] = "row"
  /\ \A v, w : Plans!Week(v) = Plans!Week(w) => v = w
  /\ \A r, t : Plans!Staff(r) = Plans!Staff(t) => r = t
  /\ \A i, j : Plans!Row(i) = Plans!Row(j) => i = j
  /\ \A w, r : Plans!Week(w) # Plans!Staff(r)
  /\ \A w, i : Plans!Week(w) # Plans!Row(i)
  /\ \A r, i : Plans!Staff(r) # Plans!Row(i)
BY DEF Plans!Week, Plans!Staff, Plans!Row, Plans!Lock

LEMMA WeeksAreNumbered == \A s \in ShiftSet : Plans!WeekOf(s.day) \in Int
BY PlansConstants DEF Plans!WeekOf, ShiftSet

LEMMA LocksOfPlans ==
  /\ \A s \in ShiftSet, m \in {"SHARED", "EXCLUSIVE"} : WeekLock(s, m) \in PlanLocks
  /\ \A r \in Records : StaffLock(r) \in PlanLocks
  /\ \A i \in Plans!Ids : RowLock(i) \in PlanLocks
  /\ StaffLocks \subseteq PlanLocks
<1>1. ASSUME NEW s \in ShiftSet, NEW m \in {"SHARED", "EXCLUSIVE"}
      PROVE  WeekLock(s, m) \in PlanLocks
  <2>1. Plans!Week(Plans!WeekOf(s.day)) \in {Plans!Week(w) : w \in Int}
    BY WeeksAreNumbered
  <2> QED
    BY <2>1 DEF PlanLocks, WeekLock, Plans!Lock
<1>2. \A r \in Records : StaffLock(r) \in PlanLocks
  BY DEF PlanLocks, StaffLock, Plans!Lock
<1>3. \A i \in Plans!Ids : RowLock(i) \in PlanLocks
  BY DEF PlanLocks, RowLock, Plans!Lock
<1> QED
  BY <1>1, <1>2, <1>3 DEF StaffLocks

LEMMA PlanConflicts ==
  /\ \A row : Plans!Conflict(Plans!Lock(row, "NO KEY UPDATE"), Plans!Lock(row, "NO KEY UPDATE"))
  /\ \A row : Plans!Conflict(Plans!Lock(row, "UPDATE"), Plans!Lock(row, "UPDATE"))
  /\ \A row : Plans!Conflict(Plans!Lock(row, "NO KEY UPDATE"), Plans!Lock(row, "UPDATE"))
  /\ \A row : Plans!Conflict(Plans!Lock(row, "EXCLUSIVE"), Plans!Lock(row, "EXCLUSIVE"))
  /\ \A row : Plans!Conflict(Plans!Lock(row, "EXCLUSIVE"), Plans!Lock(row, "SHARED"))
<1>1. \A row, a, b :
        Plans!Conflict(Plans!Lock(row, a), Plans!Lock(row, b)) <=> b \in Plans!Excludes(a)
  BY DEF Plans!Lock, Plans!Conflict
<1>2. /\ Plans!Excludes("NO KEY UPDATE") = {"SHARE", "NO KEY UPDATE", "UPDATE"}
      /\ Plans!Excludes("UPDATE") = {"KEY SHARE", "SHARE", "NO KEY UPDATE", "UPDATE"}
      /\ Plans!Excludes("EXCLUSIVE") = {"SHARED", "EXCLUSIVE"}
  BY DEF Plans!Excludes
<1> QED
  BY <1>1, <1>2

LEMMA PlanConflictsBothWays ==
  ASSUME NEW a \in PlanLocks, NEW b \in PlanLocks, Plans!Conflict(a, b)
  PROVE  Plans!Conflict(b, a)
<1>1. /\ a.mode \in {"SHARED", "EXCLUSIVE", "NO KEY UPDATE", "UPDATE"}
      /\ b.mode \in {"SHARED", "EXCLUSIVE", "NO KEY UPDATE", "UPDATE"}
  BY DEF PlanLocks
<1> QED
  BY <1>1 DEF Plans!Conflict, Plans!Excludes

LEMMA FewLocks ==
  /\ \A x : <<x>> # <<>> /\ Head(<<x>>) = x /\ Tail(<<x>>) = <<>> /\ Len(<<x>>) = 1
  /\ \A x, y : <<x, y>> # <<>> /\ Head(<<x, y>>) = x /\ Tail(<<x, y>>) = <<y>>
  /\ \A x, y, z : <<x, y, z>> # <<>> /\ Head(<<x, y, z>>) = x /\ Tail(<<x, y, z>>) = <<y, z>>
  /\ \A x, y, z : <<x>> \o <<y, z>> = <<x, y, z>>
<1>1. /\ \A x : <<x>> # <<>> /\ Head(<<x>>) = x /\ Tail(<<x>>) = <<>> /\ Len(<<x>>) = 1
      /\ \A x, y : <<x, y>> # <<>> /\ Head(<<x, y>>) = x /\ Tail(<<x, y>>) = <<y>>
  OBVIOUS
<1>2. ASSUME NEW x, NEW y, NEW z
      PROVE  <<x, y, z>> # <<>> /\ Head(<<x, y, z>>) = x /\ Tail(<<x, y, z>>) = <<y, z>>
  OBVIOUS
<1>3. ASSUME NEW x, NEW y, NEW z
      PROVE  <<x>> \o <<y, z>> = <<x, y, z>>
  <2>1. <<x>> \in Seq({x, y, z}) /\ <<y, z>> \in Seq({x, y, z}) /\ <<x, y, z>> \in Seq({x, y, z})
    OBVIOUS
  <2>2. Len(<<x>>) = 1 /\ Len(<<y, z>>) = 2 /\ Len(<<x, y, z>>) = 3
    OBVIOUS
  <2>3. PICK s : s = <<x>> \o <<y, z>>
    OBVIOUS
  <2>4. s \in Seq({x, y, z}) /\ Len(s) = 3 /\ s[1] = x /\ s[2] = y /\ s[3] = z
    BY <2>1, <2>2, <2>3
  <2>5. \A i \in 1 .. 3 : s[i] = <<x, y, z>>[i]
    BY <2>4
  <2>6. s \in [1 .. 3 -> {x, y, z}] /\ <<x, y, z>> \in [1 .. 3 -> {x, y, z}]
    BY <2>1, <2>2, <2>4
  <2>7. \A f, g \in [1 .. 3 -> {x, y, z}] : (\A i \in 1 .. 3 : f[i] = g[i]) => f = g
    OBVIOUS
  <2>8. s = <<x, y, z>>
    BY <2>5, <2>6, <2>7
  <2> QED
    BY <2>3, <2>8
<1> QED
  BY <1>1, <1>2, <1>3

LEMMA LockAndRest ==
  ASSUME NEW S, NEW s \in Seq(S), s # <<>>
  PROVE  /\ Head(s) \in S /\ Tail(s) \in Seq(S) /\ Tail(s) \o <<>> = Tail(s)
         /\ \A x : (\E i \in 1..Len(s) : s[i] = x) =>
                   (x = Head(s) \/ \E i \in 1..Len(Tail(s)) : Tail(s)[i] = x)
<1>1. Head(s) \in S /\ Tail(s) \in Seq(S) /\ Len(Tail(s)) = Len(s) - 1 /\ Len(s) \in Nat \ {0}
  OBVIOUS
<1>2. Head(s) = s[1] /\ \A i \in 1..Len(Tail(s)) : Tail(s)[i] = s[i + 1]
  OBVIOUS
<1>3. ASSUME NEW i \in 1..Len(s), s[i] # Head(s)
      PROVE  \E j \in 1..Len(Tail(s)) : Tail(s)[j] = s[i]
  <2>1. i # 1
    BY <1>2, <1>3
  <2>2. i - 1 \in 1..Len(Tail(s)) /\ (i - 1) + 1 = i
    BY <1>1, <2>1
  <2>3. Tail(s)[i - 1] = s[i]
    BY <1>2, <2>2
  <2> QED
    BY <2>2, <2>3
<1>4. Tail(s) \o <<>> = Tail(s)
  BY <1>1
<1> QED
  BY <1>1, <1>3, <1>4

LEMMA TakesTheOne ==
  ASSUME NEW t, NEW n, NEW x, Takes1(t, x), t.want # <<>>,
         n.held = t.held \union {Head(t.want)}, n.want = Tail(t.want)
  PROVE  Takes1(n, x) /\ Head(t.want) = x /\ n.want = <<>>
BY FewLocks DEF Takes1

LEMMA TakesTheNext ==
  ASSUME NEW t, NEW n, NEW x, NEW y, Takes2(t, x, y), t.want # <<>>,
         n.held = t.held \union {Head(t.want)}, n.want = Tail(t.want)
  PROVE  /\ Takes2(n, x, y) /\ Head(t.want) \in {x, y}
         /\ n.want = <<>> => Head(t.want) = y
<1>1. CASE t.held = {} /\ t.want = <<x, y>>
  <2>1. n.held = {x} /\ n.want = <<y>> /\ Head(t.want) = x /\ n.want # <<>>
    BY <1>1, FewLocks
  <2> QED
    BY <2>1 DEF Takes2
<1>2. CASE t.held = {x} /\ t.want = <<y>>
  <2>1. n.held = {x, y} /\ n.want = <<>> /\ Head(t.want) = y
    BY <1>2, FewLocks
  <2> QED
    BY <2>1 DEF Takes2
<1> QED
  BY <1>1, <1>2 DEF Takes2

LEMMA TakesTheThird ==
  ASSUME NEW t, NEW n, NEW x, NEW y, NEW z, Takes3(t, x, y, z), t.want # <<>>,
         n.held = t.held \union {Head(t.want)}, n.want = Tail(t.want)
  PROVE  /\ Takes3(n, x, y, z) /\ Head(t.want) \in {x, y, z}
         /\ n.want = <<>> => Head(t.want) = z
<1>1. CASE t.held = {} /\ t.want = <<x, y, z>>
  <2>1. n.held = {x} /\ n.want = <<y, z>> /\ Head(t.want) = x /\ n.want # <<>>
    BY <1>1, FewLocks
  <2> QED
    BY <2>1 DEF Takes3
<1>2. CASE t.held = {x} /\ t.want = <<y, z>>
  <2>1. n.held = {x, y} /\ n.want = <<z>> /\ Head(t.want) = y /\ n.want # <<>>
    BY <1>2, FewLocks
  <2> QED
    BY <2>1 DEF Takes3
<1>3. CASE t.held = {x, y} /\ t.want = <<z>>
  <2>1. n.held = {x, y, z} /\ n.want = <<>> /\ Head(t.want) = z
    BY <1>3, FewLocks
  <2> QED
    BY <2>1 DEF Takes3
<1> QED
  BY <1>1, <1>2, <1>3 DEF Takes3

\* What a request holds when it writes.
LEMMA HeldAtTheEnd ==
  ASSUME NEW t, InTurn(t), t.want = <<>>
  PROVE  /\ t.job = "create" => {WeekLock(t.shift, "SHARED"), StaffLock(t.of)} \subseteq t.held
         /\ t.job = "update" =>
              {WeekLock(t.shift, "SHARED"), StaffLock(t.of), RowLock(t.id)} \subseteq t.held
         /\ t.job = "remove" => {StaffLock(t.of), RowLock(t.id)} \subseteq t.held
         /\ t.job \in {"purge", "purgeRow"} => RowLock(t.id) \in t.held
         /\ t.job = "copy" => /\ WeekLock(t.shift, "EXCLUSIVE") \in t.held
                              /\ \A c \in t.copies : StaffLock(c.of) \in t.held
<1>1. CASE t.job = "create"
  BY <1>1, FewLocks DEF InTurn, Takes2
<1>2. CASE t.job = "update"
  BY <1>2, FewLocks DEF InTurn, Takes3
<1>3. CASE t.job = "remove"
  BY <1>3, FewLocks DEF InTurn, Takes2
<1>4. CASE t.job \in {"purge", "purgeRow"}
  BY <1>4, FewLocks DEF InTurn, Takes1
<1>5. CASE t.job = "copy"
  <2>1. TakesCopies(t) /\ t.want # <<WeekLock(t.shift, "EXCLUSIVE")>>
    BY <1>5, FewLocks DEF InTurn
  <2>2. ~\E k \in 1 .. Len(<<>>) : TRUE
    OBVIOUS
  <2> QED
    BY <1>5, <2>1, <2>2 DEF TakesCopies, WantsLock
<1> QED
  BY <1>1, <1>2, <1>3, <1>4, <1>5

\* A row is locked for one request at a time, and so is a record that is written to; who
\* copies into a week has it alone.
LEMMA HeldAlone ==
  ASSUME PlansInv, NEW p \in Requests, NEW q \in Requests, p # q
  PROVE  /\ \A r : StaffLock(r) \in tx[p].held => StaffLock(r) \notin tx[q].held
         /\ \A i : RowLock(i) \in tx[p].held => RowLock(i) \notin tx[q].held
         /\ \A w, m : Plans!Lock(Plans!Week(w), "EXCLUSIVE") \in tx[p].held
              /\ m \in {"SHARED", "EXCLUSIVE"} =>
              Plans!Lock(Plans!Week(w), m) \notin tx[q].held
BY PlanConflicts DEF PlansInv, LocksApart, StaffLock, RowLock

LEMMA FreeForAll ==
  ASSUME NEW q \in Requests
  PROVE  /\ \A r : Plans!Free(Plans!Staff(r), "NO KEY UPDATE") => StaffLock(r) \notin tx[q].held
         /\ \A i : Plans!Free(Plans!Row(i), "NO KEY UPDATE") => RowLock(i) \notin tx[q].held
BY PlanConflicts DEF Plans!Free, StaffLock, RowLock

LEMMA PlansTell ==
  ASSUME PlansInv
  PROVE  /\ people \in [Records -> PersonSet] /\ closed \in BOOLEAN
         /\ plan \in [Plans!Ids -> PlanRows] /\ told \in [Plans!Ids -> ShiftSet]
         /\ tx \in [Requests -> PlanRequests]
         /\ RowsFit /\ HistoryFits /\ LocksApart
         /\ \A q \in Requests : tx[q] \in PlanRequests /\ InTurn(tx[q]) /\ Relies(tx[q])
BY DEF PlansInv, PlansTyped

\* What a request is made of.
LEMMA RequestTells ==
  ASSUME NEW t \in PlanRequests
  PROVE  /\ t.job \in PlanJobs /\ t.of \in Nat /\ t.id \in Nat /\ t.shift \in ShiftSet
         /\ t.found \in ShiftSet /\ t.copies \in SUBSET CopySet /\ t.held \in SUBSET PlanLocks
         /\ t.want \in Seq(PlanLocks)
BY DEF PlanRequests

LEMMA IdleTells ==
  /\ Plans!Idle \in PlanRequests /\ Plans!Idle.job = "idle" /\ Plans!Idle.held = {}
       /\ Plans!Idle.want = <<>>
  /\ Plans!Idle.copies = {} /\ Plans!Idle.found = Plans!NoShift
       /\ Plans!Idle.shift = Plans!NoShift /\ Plans!Idle.of = 0 /\ Plans!Idle.id = 0
  /\ Plans!NoShift \in ShiftSet /\ InTurn(Plans!Idle) /\ Relies(Plans!Idle)
<1>1. /\ Plans!Idle.job = "idle" /\ Plans!Idle.held = {} /\ Plans!Idle.want = <<>>
      /\ Plans!Idle.copies = {} /\ Plans!Idle.found = Plans!NoShift
           /\ Plans!Idle.shift = Plans!NoShift /\ Plans!Idle.of = 0 /\ Plans!Idle.id = 0
  BY DEF Plans!Idle
<1>2. Plans!NoShift \in ShiftSet
  BY DEF Plans!NoShift, ShiftSet
<1>3. <<>> \in Seq(PlanLocks) /\ "idle" \in PlanJobs
  BY DEF PlanJobs
<1>4. Plans!Idle \in PlanRequests
  BY <1>2, <1>3 DEF Plans!Idle, PlanRequests
<1>5. InTurn(Plans!Idle) /\ Relies(Plans!Idle)
  BY <1>1 DEF InTurn, Relies
<1> QED
  BY <1>1, <1>2, <1>4, <1>5

-----------------------------------------------------------------------------
(* Requests begin and take their locks                                     *)

LEMMA RequestMoves ==
  ASSUME PlansInv, NEW q \in Requests, NEW n \in PlanRequests, tx' = [tx EXCEPT ![q] = n],
         UNCHANGED <<people, closed, plan, told>>, InTurn(n), Relies(n), tx[q].job # "purgeRow",
         \A p \in Requests \ {q} : \A l \in tx[p].held, m \in n.held : ~Plans!Conflict(l,
           m) /\ ~Plans!Conflict(m, l)
  PROVE  PlansInv'
<1>1. /\ tx' \in [Requests -> PlanRequests] /\ tx'[q] = n
      /\ \A p \in Requests \ {q} : tx'[p] = tx[p]
  BY PlansTell
<1>2. PlansTyped'
  BY <1>1, PlansTell DEF PlansTyped
<1>3. RowsFit'
  BY PlansTell DEF RowsFit, Plans!Live
<1>4. HistoryFits'
  <2> SUFFICES ASSUME NEW i \in Plans!Ids, Plans!Live(i), told[i] # plan[i].shift
               PROVE  \E p \in Requests : tx'[p].job = "purgeRow" /\ tx'[p].id = i
    BY DEF HistoryFits, Plans!Live
  <2>1. PICK p \in Requests : tx[p].job = "purgeRow" /\ tx[p].id = i
    BY PlansTell DEF HistoryFits
  <2>2. p # q
    BY <2>1
  <2> QED
    BY <1>1, <2>1, <2>2
<1>5. LocksApart'
  <2> SUFFICES ASSUME NEW p \in Requests, NEW o \in Requests, p # o,
                      NEW l \in tx'[p].held, NEW m \in tx'[o].held
               PROVE  ~Plans!Conflict(l, m)
    BY DEF LocksApart
  <2>1. CASE p = q
    BY <1>1, <2>1
  <2>2. CASE o = q
    BY <1>1, <2>2
  <2>3. CASE p # q /\ o # q
    BY <1>1, <2>3, PlansTell DEF LocksApart
  <2> QED
    BY <2>1, <2>2, <2>3
<1>6. ASSUME NEW p \in Requests
      PROVE  InTurn(tx'[p]) /\ Relies(tx'[p])
  BY <1>1, PlansTell
<1>7. ASSUME NEW t, Relies(t)
      PROVE  Relies(t)'
  BY <1>7 DEF Relies, CreateFits, UpdateFits, RowKnown, CopyFits, PurgeFits, Plans!MayWork,
     Plans!Overlaps, Plans!LiveIn, Plans!Live
<1>8. \A p \in Requests : InTurn(tx[p])' /\ Relies(tx[p])'
  <2> TAKE p \in Requests
  <2>1. PICK t : t = tx'[p]
    OBVIOUS
  <2>2. InTurn(t) /\ Relies(t)'
    BY <1>6, <1>7, <2>1
  <2> QED
    BY <2>1, <2>2 DEF Relies, CreateFits, UpdateFits, RowKnown, CopyFits, PurgeFits
<1> QED
  BY <1>2, <1>3, <1>4, <1>5, <1>8 DEF PlansInv

LEMMA ShiftsAreShifts ==
  \A s \in Plans!Shifts : s \in ShiftSet
BY PlansConstants DEF Plans!Shifts, ShiftSet, Plans!Calendar

LEMMA StartMoves ==
  ASSUME PlansInv, NEW q \in Requests, NEW n \in PlanRequests, Plans!Start(q, n), n.held = {},
         InTurn(n), Relies(n)
  PROVE  PlansInv'
<1>1. /\ tx' = [tx EXCEPT ![q] = n] /\ tx[q].job = "idle"
      /\ UNCHANGED <<people, closed, plan, told>>
  BY DEF Plans!Start, Plans!tables
<1> QED
  BY <1>1, RequestMoves

LEMMA StartSteps ==
  ASSUME PlansInv, NEW q \in Requests,
         \/ \E r \in Records, s \in Plans!Shifts : Plans!CreateShift(q, r, s)
         \/ \E i \in Plans!Ids : Plans!RemoveShift(q, i) \/ Plans!Purge(q, i)
              \/ \E s \in Plans!Shifts : Plans!UpdateShift(q, i, s)
         \/ \E w \in 1..Weeks : Plans!Copy(q, w)
  PROVE  PlansInv'
<1>0. /\ \A i \in Plans!Ids : i \in Nat /\ plan[i] \in PlanRows
      /\ \A r \in Records : r \in Nat
      /\ \A i \in Plans!Ids : Plans!Live(i) => /\ plan[i].of \in Records /\ plan[i].state # "none"
                                               /\ plan[i].shift \in ShiftSet
  BY PlansTell, PlansConstants DEF Plans!Ids, RowsFit, Plans!Live, PlanRows
<1>1. ASSUME NEW r \in Records, NEW s \in Plans!Shifts, Plans!CreateShift(q, r, s)
      PROVE  PlansInv'
  <2>1. PICK ls : ls = Plans!CreateLocks(r, s)
    OBVIOUS
  <2>2. ls = <<WeekLock(s, "SHARED"), StaffLock(r)>> /\ ls \in Seq(PlanLocks) /\ ls # <<>>
    <3>1. ls = <<WeekLock(s, "SHARED"), StaffLock(r)>>
      BY ONLY <2>1 DEF Plans!CreateLocks, WeekLock, StaffLock
    <3>2. WeekLock(s, "SHARED") \in PlanLocks /\ StaffLock(r) \in PlanLocks
      BY ShiftsAreShifts, LocksOfPlans
    <3> QED
      BY ONLY <3>1, <3>2, FewLocks
  <2>3. PICK n : n = [Plans!Idle EXCEPT !.job = "create", !.of = r, !.shift = s, !.want = ls]
    OBVIOUS
  <2>4. /\ n.job = "create" /\ n.of = r /\ n.shift = s /\ n.want = ls /\ n.held = {}
        /\ n \in PlanRequests
    BY <1>0, <2>2, <2>3, IdleTells, ShiftsAreShifts DEF PlanRequests, PlanJobs, Plans!Idle
  <2>5. InTurn(n) /\ Relies(n)
    BY <2>2, <2>4 DEF InTurn, Takes2, Relies, CreateFits
  <2> QED
    BY <1>1, <2>1, <2>3, <2>4, <2>5, StartMoves DEF Plans!CreateShift
<1>2. ASSUME NEW i \in Plans!Ids, NEW s \in Plans!Shifts, Plans!UpdateShift(q, i, s)
      PROVE  PlansInv'
  <2>1. PICK r, f, ls : r = plan[i].of /\ f = plan[i].shift /\ ls = Plans!UpdateLocks(r, i, s)
    OBVIOUS
  <2>2. Plans!Live(i) /\ r \in Records /\ f \in ShiftSet /\ plan[i].state # "none"
          /\ s \in ShiftSet
    BY <1>0, <1>2, <2>1, ShiftsAreShifts DEF Plans!UpdateShift
  <2>3. ls = <<WeekLock(s, "SHARED"), StaffLock(r), RowLock(i)>>
    BY <2>1, FewLocks DEF Plans!UpdateLocks, Plans!RemoveLocks, WeekLock, StaffLock, RowLock
  <2>4. ls \in Seq(PlanLocks) /\ ls # <<>>
    BY <2>2, <2>3, LocksOfPlans, FewLocks
  <2>5. PICK n : n = [Plans!Idle EXCEPT !.job = "update", !.of = r, !.id = i, !.shift = s,
                                  !.found = f, !.want = ls]
    OBVIOUS
  <2>6. /\ n.job = "update" /\ n.of = r /\ n.id = i /\ n.shift = s /\ n.want = ls /\ n.held = {}
        /\ n \in PlanRequests
    BY <1>0, <2>2, <2>4, <2>5, IdleTells DEF PlanRequests, PlanJobs, Plans!Idle
  <2>7. InTurn(n) /\ Relies(n)
    BY <2>1, <2>2, <2>3, <2>4, <2>6 DEF InTurn, Takes3, Relies, UpdateFits, RowKnown
  <2> QED
    BY <1>2, <2>1, <2>5, <2>6, <2>7, StartMoves DEF Plans!UpdateShift
<1>3. ASSUME NEW i \in Plans!Ids, Plans!RemoveShift(q, i)
      PROVE  PlansInv'
  <2>1. PICK r, f, ls : r = plan[i].of /\ f = plan[i].shift /\ ls = Plans!RemoveLocks(r, i)
    OBVIOUS
  <2>2. Plans!Live(i) /\ r \in Records /\ f \in ShiftSet /\ plan[i].state # "none"
    BY <1>0, <1>3, <2>1 DEF Plans!RemoveShift
  <2>3. ls = <<StaffLock(r), RowLock(i)>>
    BY <2>1 DEF Plans!RemoveLocks, StaffLock, RowLock
  <2>4. ls \in Seq(PlanLocks) /\ ls # <<>>
    BY <2>2, <2>3, LocksOfPlans, FewLocks
  <2>5. PICK n : n = [Plans!Idle EXCEPT !.job = "remove", !.of = r, !.id = i, !.found = f,
          !.want = ls]
    OBVIOUS
  <2>6. /\ n.job = "remove" /\ n.of = r /\ n.id = i /\ n.want = ls /\ n.held = {}
        /\ n \in PlanRequests
    BY <1>0, <2>2, <2>4, <2>5, IdleTells DEF PlanRequests, PlanJobs, Plans!Idle
  <2>7. InTurn(n) /\ Relies(n)
    BY <2>1, <2>2, <2>3, <2>4, <2>6 DEF InTurn, Takes2, Relies, RowKnown
  <2> QED
    BY <1>3, <2>1, <2>5, <2>6, <2>7, StartMoves DEF Plans!RemoveShift
<1>4. ASSUME NEW i \in Plans!Ids, Plans!Purge(q, i)
      PROVE  PlansInv'
  <2>1. PICK ls : ls = Plans!PurgeLocks(i)
    OBVIOUS
  <2>2. ls = <<RowLock(i)>> /\ ls \in Seq(PlanLocks) /\ plan[i].state # "none"
    <3>1. ls = <<RowLock(i)>>
      BY ONLY <2>1 DEF Plans!PurgeLocks, RowLock
    <3>2. RowLock(i) \in PlanLocks
      BY LocksOfPlans
    <3>3. plan[i].state # "none"
      BY <1>4 DEF Plans!Purge
    <3> QED
      BY ONLY <3>1, <3>2, <3>3
  <2>3. PICK n : n = [Plans!Idle EXCEPT !.job = "purge", !.id = i, !.want = ls]
    OBVIOUS
  <2>4. /\ n.job = "purge" /\ n.id = i /\ n.want = ls /\ n.held = {} /\ n \in PlanRequests
    BY <1>0, <2>2, <2>3, IdleTells DEF PlanRequests, PlanJobs, Plans!Idle
  <2>5. InTurn(n) /\ Relies(n)
    BY <2>2, <2>4 DEF InTurn, Takes1, Relies, PurgeFits
  <2> QED
    BY <1>4, <2>1, <2>3, <2>4, <2>5, StartMoves DEF Plans!Purge
<1>5. ASSUME NEW w \in 1 .. Weeks, Plans!Copy(q, w)
      PROVE  PlansInv'
  <2>1. w - 1 \in Nat /\ w \in Int
    <3>1. w \in Int
      OBVIOUS
    <3>2. w > 1
      BY ONLY <1>5 DEF Plans!Copy
    <3> QED
      BY ONLY <3>1, <3>2
  <2>2. PICK day : day = (w - 1) * WeekDays + 1
    OBVIOUS
  <2>3. day \in Nat /\ day - 1 = (w - 1) * WeekDays
    BY <2>1, <2>2, PlansConstants
  <2>4. Plans!WeekOf(day) = w
    <3>1. ((w - 1) * WeekDays) \div WeekDays = w - 1
      BY <2>1, PlansConstants
    <3> QED
      BY <2>1, <2>3, <3>1 DEF Plans!WeekOf
  <2>5. PICK ls : ls = Plans!CopyLocks(w)
    OBVIOUS
  <2>6. PICK s : s = [Plans!NoShift EXCEPT !.day = day]
    OBVIOUS
  <2>7. s \in ShiftSet /\ s.day = day
    BY <2>3, <2>6 DEF Plans!NoShift, ShiftSet
  <2>8. ls = <<WeekLock(s, "EXCLUSIVE")>> /\ ls \in Seq(PlanLocks)
    BY <2>4, <2>5, <2>7, LocksOfPlans DEF Plans!CopyLocks, WeekLock
  <2>9. PICK n : n = [Plans!Idle EXCEPT !.job = "copy", !.shift = s, !.want = ls]
    OBVIOUS
  <2>10. /\ n.job = "copy" /\ n.shift = s /\ n.want = ls /\ n.held = {} /\ n \in PlanRequests
         /\ n.copies = {}
    BY <2>7, <2>8, <2>9, IdleTells DEF PlanRequests, PlanJobs, Plans!Idle
  <2>11. InTurn(n) /\ Relies(n)
    BY <2>8, <2>10, FS_EmptySet DEF InTurn, TakesCopies, Relies, CopyFits
  <2>12. Plans!Start(q, n)
    <3>1. [Plans!Idle EXCEPT !.job = "copy", !.shift.day = (w - 1) * WeekDays + 1,
            !.want = Plans!CopyLocks(w)] = n
      BY <2>2, <2>5, <2>6, <2>9 DEF Plans!Idle
    <3> QED
      BY <1>5, <3>1 DEF Plans!Copy
  <2> QED
    BY <2>10, <2>11, <2>12, StartMoves
<1> QED
  BY <1>1, <1>2, <1>3, <1>4, <1>5

\* How many of rs come up to r: LocksOn takes them in this order.
Rank(rs, r) == Cardinality({x \in rs : x <= r})

LEMMA RanksAreHit ==
  ASSUME NEW rs \in SUBSET Nat, IsFiniteSet(rs)
  PROVE  /\ Cardinality(rs) \in Nat
         /\ \A i \in 1..Cardinality(rs) : \E r \in rs : Rank(rs, r) = i
         /\ \A r \in rs : Rank(rs, r) \in 1..Cardinality(rs)
         /\ \A r, t \in rs : Rank(rs, r) = Rank(rs, t) => r = t
<1> DEFINE f == [r \in rs |-> Rank(rs, r)]
           T == 1..Cardinality(rs)
<1>1. Cardinality(rs) \in Nat
  BY FS_CardinalityType
<1>2. ASSUME NEW r \in rs
      PROVE  Rank(rs, r) \in T
  <2> DEFINE S == {x \in rs : x <= r}
  <2>1. S \in SUBSET rs /\ r \in S
    OBVIOUS
  <2>2. IsFiniteSet(S) /\ Cardinality(S) <= Cardinality(rs)
    BY <2>1, FS_Subset
  <2>3. Cardinality(S) \in Nat /\ Cardinality(S) # 0
    BY <2>1, <2>2, FS_CardinalityType, FS_EmptySet
  <2> QED
    BY <1>1, <2>2, <2>3 DEF Rank
<1>3. ASSUME NEW r \in rs, NEW t \in rs, r < t
      PROVE  Rank(rs, r) # Rank(rs, t)
  <2> DEFINE R == {x \in rs : x <= r}
             S == {x \in rs : x <= t}
  <2>1. S \in SUBSET rs /\ R \in SUBSET S /\ t \in S /\ t \notin R
    <3>1. r \in Int /\ t \in Int /\ \A x \in rs : x \in Int
      OBVIOUS
    <3>2. \A x \in rs : x <= r => x <= t
      BY <1>3, <3>1
    <3>3. t <= t /\ ~(t <= r)
      BY <1>3, <3>1
    <3> QED
      BY <3>2, <3>3
  <2>2. IsFiniteSet(S)
    BY <2>1, FS_Subset
  <2>3. Cardinality(S) # Cardinality(R)
    BY <2>1, <2>2, FS_Subset
  <2> QED
    BY <2>3 DEF Rank
<1>4. \A r, t \in rs : Rank(rs, r) = Rank(rs, t) => r = t
  BY <1>3
<1>5. f \in Injection(rs, T)
  <2>1. f \in [rs -> T]
    BY <1>2
  <2> QED
    BY <1>4, <2>1 DEF Injection, IsInjective
<1>6. IsFiniteSet(T) /\ Cardinality(T) = Cardinality(rs)
  BY <1>1, FS_Interval
<1>7. f \in Surjection(rs, T)
  BY <1>5, <1>6, FS_Injection
<1>8. \A i \in T : \E r \in rs : Rank(rs, r) = i
  BY <1>7 DEF Surjection
<1> QED
  BY <1>1, <1>2, <1>4, <1>8

\* LocksOn lists the locks of all the records it is given, and no others.
LEMMA LocksOnRecords ==
  ASSUME NEW rs \in SUBSET Records
  PROVE  LET locks == Plans!LocksOn(rs, Plans!Staff, "NO KEY UPDATE")
         IN  /\ locks \in Seq(StaffLocks)
             /\ \A r \in rs : \E i \in 1..Len(locks) : locks[i] = StaffLock(r)
<1> DEFINE n == Cardinality(rs)
           who(i) == CHOOSE r \in rs : Rank(rs, r) = i
           locks == [i \in 1..n |-> Plans!Lock(Plans!Staff(who(i)), "NO KEY UPDATE")]
<1>1. rs \in SUBSET Nat /\ IsFiniteSet(rs)
  BY PlansConstants, FS_Subset
<1>2. locks = Plans!LocksOn(rs, Plans!Staff, "NO KEY UPDATE")
  BY DEF Plans!LocksOn, Rank, Plans!Cardinality, Cardinality
<1>3. n \in Nat /\ \A i \in 1..n : who(i) \in rs /\ Rank(rs, who(i)) = i
  BY <1>1, RanksAreHit
<1> HIDE DEF who
<1>4. locks \in Seq(StaffLocks) /\ Len(locks) = n /\ \A i \in 1..n : locks[i] = StaffLock(who(i))
  <2>1. \A i \in 1..n : locks[i] = StaffLock(who(i))
    BY DEF StaffLock
  <2>2. \A i \in 1..n : StaffLock(who(i)) \in StaffLocks
    BY <1>3 DEF StaffLocks
  <2>3. locks \in [1..n -> StaffLocks]
    BY <2>1, <2>2
  <2>4. \A g \in [1..n -> StaffLocks] : g \in Seq(StaffLocks) /\ Len(g) = n
    BY <1>3
  <2> HIDE DEF locks
  <2> QED
    BY <2>1, <2>3, <2>4
<1>5. ASSUME NEW r \in rs
      PROVE  Rank(rs, r) \in 1..n /\ who(Rank(rs, r)) = r
  <2>1. Rank(rs, r) \in 1..n
    BY <1>1, RanksAreHit
  <2>2. who(Rank(rs, r)) \in rs /\ Rank(rs, who(Rank(rs, r))) = Rank(rs, r)
    BY <1>3, <2>1
  <2>3. \A a, b \in rs : Rank(rs, a) = Rank(rs, b) => a = b
    BY <1>1, RanksAreHit
  <2> QED
    BY <2>1, <2>2, <2>3
<1> QED
  BY <1>2, <1>3, <1>4, <1>5

\* Shifts a week later stay apart.
LEMMA AWeekLater ==
  ASSUME NEW s \in ShiftSet
  PROVE  Plans!WeekOf(s.day + WeekDays) = Plans!WeekOf(s.day) + 1
<1>1. PICK d : d = s.day - 1
  OBVIOUS
<1>2. d \in Int /\ (s.day + WeekDays) - 1 = d + WeekDays /\ WeekDays \in Nat \ {0}
  BY <1>1, PlansConstants DEF ShiftSet
<1>3. (d + WeekDays) \div WeekDays = d \div WeekDays + 1
  BY ONLY <1>2
<1>4. d \div WeekDays \in Int
  BY <1>2
<1> QED
  BY <1>1, <1>2, <1>3, <1>4 DEF Plans!WeekOf

LEMMA ApartAWeekLater ==
  ASSUME NEW s \in ShiftSet, NEW t \in ShiftSet, KeptApart(s, t)
  PROVE  KeptApart([s EXCEPT !.day = s.day + WeekDays], [t EXCEPT !.day = t.day + WeekDays])
<1>1. PICK a, b : /\ a = [s EXCEPT !.day = s.day + WeekDays]
                  /\ b = [t EXCEPT !.day = t.day + WeekDays]
  OBVIOUS
<1>2. /\ s.day \in Nat /\ t.day \in Nat /\ s.night \in BOOLEAN /\ t.night \in BOOLEAN
      /\ WeekDays \in Nat \ {0}
  BY PlansConstants DEF ShiftSet
<1>3. /\ a.day = s.day + WeekDays /\ a.night = s.night
      /\ b.day = t.day + WeekDays /\ b.night = t.night
  BY <1>1 DEF ShiftSet
<1>4. KeptApart(a, b)
  <2> SUFFICES ASSUME NEW x \in Plans!Busy(a), x \in Plans!Busy(b)
               PROVE  FALSE
    BY DEF KeptApart
  <2>1. x \in Int /\ (x - WeekDays \in Plans!Busy(s)) /\ (x - WeekDays \in Plans!Busy(t))
    BY <1>2, <1>3 DEF Plans!Busy
  <2> QED
    BY <2>1 DEF KeptApart
<1> QED
  BY <1>1, <1>4

\* What there is to copy lies in the week, and no record is in two places.
LEMMA SourcesTell ==
  ASSUME PlansInv, NEW w \in Int
  PROVE  /\ Plans!Sources(w) \in SUBSET CopySet /\ IsFiniteSet(Plans!Sources(w))
         /\ \A c \in Plans!Sources(w) : Plans!WeekOf(c.shift.day) = w
         /\ \A c, d \in Plans!Sources(w) : c # d /\ c.of = d.of => KeptApart(c.shift, d.shift)
<1> DEFINE copy(i) == [of |-> plan[i].of,
                       shift |-> [plan[i].shift EXCEPT !.day = plan[i].shift.day + WeekDays]]
<1>1. Plans!Sources(w) = {copy(i) : i \in Plans!LiveIn(w - 1)}
  BY DEF Plans!Sources
<1>2. Plans!LiveIn(w - 1) \in SUBSET Plans!Ids /\ IsFiniteSet(Plans!LiveIn(w - 1))
  <2>1. IsFiniteSet(Plans!Ids)
    BY PlansConstants, FS_Interval DEF Plans!Ids
  <2> QED
    BY <2>1, FS_Subset DEF Plans!LiveIn
<1>3. IsFiniteSet(Plans!Sources(w))
  <2> HIDE DEF copy
  <2> DEFINE f == [i \in Plans!LiveIn(w - 1) |-> copy(i)]
  <2>1. f \in [Plans!LiveIn(w - 1) -> Plans!Sources(w)]
    BY <1>1
  <2>2. \A c \in Plans!Sources(w) : \E i \in Plans!LiveIn(w - 1) : f[i] = c
    BY <1>1
  <2>3. f \in Surjection(Plans!LiveIn(w - 1), Plans!Sources(w))
    BY <2>1, <2>2 DEF Surjection
  <2> HIDE DEF f
  <2> QED
    BY <2>3, <1>2, FS_Surjection
<1>4. \A i \in Plans!Ids : i \in Plans!LiveIn(w - 1) =>
        /\ plan[i].of \in Records /\ plan[i].shift \in ShiftSet /\ Plans!Live(i)
        /\ Plans!WeekOf(plan[i].shift.day) = w - 1
  BY PlansTell DEF Plans!LiveIn, RowsFit, PlanRows
<1>5. ASSUME NEW i \in Plans!LiveIn(w - 1)
      PROVE  /\ copy(i) \in CopySet /\ copy(i).of = plan[i].of
             /\ copy(i).shift = [plan[i].shift EXCEPT !.day = plan[i].shift.day + WeekDays]
             /\ Plans!WeekOf(copy(i).shift.day) = w
  <2>1. PICK s : s = plan[i].shift
    OBVIOUS
  <2>2. s \in ShiftSet /\ plan[i].of \in Records /\ Plans!WeekOf(s.day) = w - 1
    BY <1>2, <1>4, <2>1
  <2>3. PICK a : a = [s EXCEPT !.day = s.day + WeekDays]
    OBVIOUS
  <2>4. a.day = s.day + WeekDays /\ a \in ShiftSet
    BY <2>2, <2>3, PlansConstants DEF ShiftSet
  <2>5. Plans!WeekOf(s.day + WeekDays) = w
    <3>1. Plans!WeekOf(s.day + WeekDays) = Plans!WeekOf(s.day) + 1
      BY <2>2, AWeekLater
    <3>2. (w - 1) + 1 = w
      OBVIOUS
    <3> QED
      BY ONLY <3>1, <3>2, <2>2
  <2>6. copy(i).of = plan[i].of /\ copy(i).shift = a
    BY <2>1, <2>3
  <2>7. copy(i) \in CopySet
    BY <2>1, <2>2, <2>3, <2>4 DEF CopySet
  <2> QED
    BY <2>1, <2>3, <2>4, <2>5, <2>6, <2>7
<1>6. ASSUME NEW i \in Plans!LiveIn(w - 1), NEW j \in Plans!LiveIn(w - 1), copy(i) # copy(j),
             copy(i).of = copy(j).of
      PROVE  KeptApart(copy(i).shift, copy(j).shift)
  <2>1. i # j /\ plan[i].of = plan[j].of
    BY <1>5, <1>6
  <2>2. PICK s, t : s = plan[i].shift /\ t = plan[j].shift
    OBVIOUS
  <2>3. KeptApart(s, t)
    BY <1>2, <1>4, <2>1, <2>2, PlansTell DEF RowsFit
  <2>4. s \in ShiftSet /\ t \in ShiftSet
    BY <1>2, <1>4, <2>2
  <2>5. /\ copy(i).shift = [s EXCEPT !.day = s.day + WeekDays]
        /\ copy(j).shift = [t EXCEPT !.day = t.day + WeekDays]
    BY <2>2
  <2> QED
    BY ONLY <2>3, <2>4, <2>5, ApartAWeekLater
<1> HIDE DEF copy
<1>7. Plans!Sources(w) \in SUBSET CopySet
  BY <1>1, <1>5
<1>8. \A c \in Plans!Sources(w) : Plans!WeekOf(c.shift.day) = w
  BY <1>1, <1>5
<1>9. \A c, d \in Plans!Sources(w) : c # d /\ c.of = d.of => KeptApart(c.shift, d.shift)
  <2> SUFFICES ASSUME NEW c \in Plans!Sources(w), NEW d \in Plans!Sources(w), c # d, c.of = d.of
               PROVE  KeptApart(c.shift, d.shift)
    OBVIOUS
  <2>1. PICK i \in Plans!LiveIn(w - 1) : c = copy(i)
    BY <1>1
  <2>2. PICK j \in Plans!LiveIn(w - 1) : d = copy(j)
    BY <1>1
  <2> QED
    BY <2>1, <2>2, <1>6
<1> QED
  BY <1>3, <1>7, <1>8, <1>9

\* What is learnt with the lock l; w is the week of the request's day.
HasLearnt(t, l, w, n) ==
    /\ n.job = t.job /\ n.of = t.of /\ n.id = t.id /\ n.shift = t.shift
    /\ n.held = t.held \union {l}
    /\ n.found = IF t.job # "purge" /\ l.row = Plans!Row(t.id) THEN plan[t.id].shift ELSE t.found
    /\ ~(t.job = "copy" /\ l.row = Plans!Week(w)) =>
         n.want = Tail(t.want) \o <<>> /\ n.copies = t.copies
    /\ t.job = "copy" /\ l.row = Plans!Week(w) =>
         /\ n.copies = Plans!Sources(w)
         /\ n.want = Tail(t.want)
                      \o Plans!LocksOn({c.of : c \in Plans!Sources(w)}, Plans!Staff,
                                 "NO KEY UPDATE")
    /\ n = [t EXCEPT !.held = n.held, !.want = n.want, !.copies = n.copies, !.found = n.found]

LEMMA Learnt ==
  ASSUME PlansInv, NEW q \in Requests
  PROVE  HasLearnt(tx[q], Head(tx[q].want), Plans!WeekOf(tx[q].shift.day), Plans!Learns(q))
<1>0. PICK t, l, w, n : t = tx[q] /\ l = Head(t.want) /\ w = Plans!WeekOf(t.shift.day)
        /\ n = Plans!Learns(q)
  OBVIOUS
<1>1. t \in PlanRequests
  BY <1>0, PlansTell
<1>2. PICK h, f, c, m :
           /\ h = t.held \union {l}
           /\ f = IF t.job # "purge" /\ l.row = Plans!Row(t.id) THEN plan[t.id].shift ELSE t.found
           /\ c = IF t.job = "copy" /\ l.row = Plans!Week(w) THEN Plans!Sources(w) ELSE t.copies
           /\ m = IF t.job = "copy" /\ l.row = Plans!Week(w)
                  THEN Plans!LocksOn({x.of : x \in c}, Plans!Staff, "NO KEY UPDATE") ELSE <<>>
  OBVIOUS
<1>3. n = [t EXCEPT !.held = h, !.want = Tail(t.want) \o m, !.copies = c, !.found = f]
  BY <1>0, <1>2 DEF Plans!Learns, Plans!Granted, Plans!FoundLocked
<1>4. PICK want : want = Tail(t.want) \o m
  OBVIOUS
<1>5. /\ n.job = t.job /\ n.of = t.of /\ n.id = t.id /\ n.shift = t.shift
      /\ n.held = h /\ n.want = want /\ n.copies = c /\ n.found = f
  BY <1>1, <1>3, <1>4 DEF PlanRequests
<1>6. HasLearnt(t, l, w, n)
  BY ONLY <1>2, <1>3, <1>4, <1>5 DEF HasLearnt
<1> QED
  BY ONLY <1>0, <1>6

\* What a request knows with its next lock is in turn, and so.
LEMMA NextLockFits ==
  ASSUME PlansInv, NEW q \in Requests, tx[q].want # <<>>, Plans!StillGood(q), NEW n,
         n = Plans!Learns(q)
  PROVE  n \in PlanRequests /\ InTurn(n) /\ Relies(n)
<1>1. PICK t, l, w : t = tx[q] /\ l = Head(t.want) /\ w = Plans!WeekOf(t.shift.day)
  OBVIOUS
<1>2. t \in PlanRequests /\ InTurn(t) /\ Relies(t) /\ t.want # <<>>
  BY <1>1, PlansTell
<1>3. /\ t.job \in PlanJobs /\ t.of \in Nat /\ t.id \in Nat /\ t.shift \in ShiftSet
      /\ t.found \in ShiftSet /\ t.copies \in SUBSET CopySet /\ t.held \in SUBSET PlanLocks
      /\ t.want \in Seq(PlanLocks)
  BY ONLY <1>2, RequestTells
<1>4. l \in PlanLocks /\ Tail(t.want) \in Seq(PlanLocks) /\ Tail(t.want) \o <<>> = Tail(t.want)
  BY ONLY <1>1, <1>2, <1>3, LockAndRest
<1>0. HasLearnt(t, l, w, n)
  BY <1>1, Learnt
<1>5. /\ n.job = t.job /\ n.of = t.of /\ n.id = t.id /\ n.shift = t.shift
      /\ n.held = t.held \union {l}
      /\ n.found = IF t.job # "purge"
           /\ l.row = Plans!Row(t.id) THEN plan[t.id].shift ELSE t.found
      /\ ~(t.job = "copy" /\ l.row = Plans!Week(w)) =>
           n.want = Tail(t.want) \o <<>> /\ n.copies = t.copies
      /\ t.job = "copy" /\ l.row = Plans!Week(w) =>
           /\ n.copies = Plans!Sources(w)
           /\ n.want = Tail(t.want)
                        \o Plans!LocksOn({c.of : c \in Plans!Sources(w)}, Plans!Staff,
                                   "NO KEY UPDATE")
      /\ n = [t EXCEPT !.held = n.held, !.want = n.want, !.copies = n.copies, !.found = n.found]
  BY ONLY <1>0 DEF HasLearnt
<1>6. /\ t.job = "create" /\ l.row = Plans!Staff(t.of) =>
           Plans!MayWork(t.of, t.shift.day) /\ ~Plans!Overlaps(t.of, t.shift, 0)
      /\ t.job = "update" /\ l.row = Plans!Row(t.id) =>
           Plans!Live(t.id) /\ Plans!MayWork(t.of, t.shift.day)
             /\ ~Plans!Overlaps(t.of, t.shift, t.id)
      /\ t.job = "remove" /\ l.row = Plans!Row(t.id) => Plans!Live(t.id)
      /\ t.job = "copy" /\ l.row[1] = "week" => Plans!LiveIn(l.row[2]) = {}
  BY <1>1 DEF Plans!StillGood
<1>7. \A i \in Plans!Ids : plan[i].shift \in ShiftSet
  BY PlansTell DEF PlanRows
<1>8. n.held \in SUBSET PlanLocks
  BY ONLY <1>3, <1>4, <1>5
<1>9. ASSUME n.found \in ShiftSet, n.want \in Seq(PlanLocks), n.copies \in SUBSET CopySet
      PROVE  n \in PlanRequests
  BY ONLY <1>2, <1>5, <1>8, <1>9 DEF PlanRequests
<1>10. ASSUME t.job # "copy"
       PROVE  n.want = Tail(t.want) /\ n.copies = t.copies
  BY ONLY <1>4, <1>5, <1>10
<1>11. t.job \in PlanJobs \ {"idle", "purgeRow"}
  BY ONLY <1>2, <1>3 DEF InTurn
<1>12. CASE t.job = "create"
  <2>1. PICK x, y : x = WeekLock(t.shift, "SHARED") /\ y = StaffLock(t.of)
    OBVIOUS
  <2>2. Takes2(t, x, y)
    BY ONLY <1>2, <1>12, <2>1 DEF InTurn
  <2>3. Takes2(n, x, y) /\ l \in {x, y} /\ (n.want = <<>> => l = y)
    BY ONLY <1>1, <1>2, <1>5, <1>10, <1>12, <2>2, TakesTheNext
  <2>4. l.row # Plans!Row(t.id) /\ (n.want = <<>> => l.row = Plans!Staff(t.of))
    <3>1. x.row = Plans!Week(Plans!WeekOf(t.shift.day)) /\ y.row = Plans!Staff(t.of)
      BY ONLY <2>1, PlanLocksTell DEF WeekLock, StaffLock
    <3> QED
      BY ONLY <2>3, <3>1, PlanLocksTell
  <2>5. n \in PlanRequests
    BY <1>3, <1>4, <1>5, <1>9, <1>10, <1>12, <2>4
  <2>6. InTurn(n)
    BY ONLY <1>5, <1>12, <2>1, <2>3 DEF InTurn
  <2>7. t.of \in Records
    BY ONLY <1>2, <1>12 DEF Relies, CreateFits
  <2>8. Relies(n)
    BY ONLY <1>5, <1>6, <1>12, <2>4, <2>7 DEF Relies, CreateFits
  <2> QED
    BY ONLY <2>5, <2>6, <2>8
<1>13. CASE t.job = "update"
  <2>1. PICK x, y, z : x = WeekLock(t.shift, "SHARED") /\ y = StaffLock(t.of) /\ z = RowLock(t.id)
    OBVIOUS
  <2>2. Takes3(t, x, y, z)
    BY ONLY <1>2, <1>13, <2>1 DEF InTurn
  <2>3. Takes3(n, x, y, z) /\ (n.want = <<>> => l = z)
    BY ONLY <1>1, <1>2, <1>5, <1>10, <1>13, <2>2, TakesTheThird
  <2>4. n.want = <<>> => l.row = Plans!Row(t.id)
    BY ONLY <2>1, <2>3, PlanLocksTell DEF RowLock
  <2>5. /\ t.of \in Records /\ t.id \in Plans!Ids /\ plan[t.id].state # "none"
        /\ Plans!Live(t.id) => plan[t.id].of = t.of
    BY ONLY <1>2, <1>13 DEF Relies, UpdateFits, RowKnown
  <2>6. n \in PlanRequests
    BY <1>3, <1>4, <1>5, <1>7, <1>9, <1>10, <1>13, <2>5
  <2>7. InTurn(n)
    BY ONLY <1>5, <1>13, <2>1, <2>3 DEF InTurn
  <2>8. n.want = <<>> => n.found = plan[n.id].shift
    BY ONLY <1>5, <1>13, <2>4
  <2>9. Relies(n)
    BY ONLY <1>5, <1>6, <1>13, <2>4, <2>5, <2>8 DEF Relies, UpdateFits, RowKnown
  <2> QED
    BY ONLY <2>6, <2>7, <2>9
<1>14. CASE t.job = "remove"
  <2>1. PICK x, y : x = StaffLock(t.of) /\ y = RowLock(t.id)
    OBVIOUS
  <2>2. Takes2(t, x, y)
    BY ONLY <1>2, <1>14, <2>1 DEF InTurn
  <2>3. Takes2(n, x, y) /\ (n.want = <<>> => l = y)
    BY ONLY <1>1, <1>2, <1>5, <1>10, <1>14, <2>2, TakesTheNext
  <2>4. n.want = <<>> => l.row = Plans!Row(t.id)
    BY ONLY <2>1, <2>3, PlanLocksTell DEF RowLock
  <2>5. /\ t.of \in Records /\ t.id \in Plans!Ids /\ plan[t.id].state # "none"
        /\ Plans!Live(t.id) => plan[t.id].of = t.of
    BY ONLY <1>2, <1>14 DEF Relies, RowKnown
  <2>6. n \in PlanRequests
    BY <1>3, <1>4, <1>5, <1>7, <1>9, <1>10, <1>14, <2>5
  <2>7. InTurn(n)
    BY ONLY <1>5, <1>14, <2>1, <2>3 DEF InTurn
  <2>8. n.want = <<>> => n.found = plan[n.id].shift
    BY ONLY <1>5, <1>14, <2>4
  <2>9. Relies(n)
    BY ONLY <1>5, <1>6, <1>14, <2>4, <2>5, <2>8 DEF Relies, RowKnown
  <2> QED
    BY ONLY <2>6, <2>7, <2>9
<1>15. CASE t.job = "purge"
  <2>1. PICK x : x = RowLock(t.id)
    OBVIOUS
  <2>2. Takes1(t, x)
    BY ONLY <1>2, <1>15, <2>1 DEF InTurn
  <2>3. Takes1(n, x)
    BY ONLY <1>1, <1>2, <1>5, <1>10, <1>15, <2>2, TakesTheOne
  <2>4. n \in PlanRequests
    BY <1>3, <1>4, <1>5, <1>9, <1>10, <1>15
  <2>5. InTurn(n)
    BY ONLY <1>5, <1>15, <2>1, <2>3 DEF InTurn
  <2>6. Relies(n)
    BY ONLY <1>2, <1>5, <1>15 DEF Relies, PurgeFits
  <2> QED
    BY ONLY <2>4, <2>5, <2>6
<1>16. CASE t.job = "copy"
  <2>1. PICK x : x = WeekLock(t.shift, "EXCLUSIVE")
    OBVIOUS
  <2>2. x = Plans!Lock(Plans!Week(w), "EXCLUSIVE") /\ w \in Int
    BY ONLY <1>1, <1>3, <2>1, WeeksAreNumbered DEF WeekLock
  <2>3. TakesCopies(t) /\ CopyFits(t)
    BY ONLY <1>2, <1>16 DEF InTurn, Relies
  <2>4. CASE t.held = {} /\ t.want = <<x>> /\ t.copies = {}
    <3>1. l = x /\ Tail(t.want) = <<>>
      BY ONLY <1>1, <2>4, FewLocks
    <3>2. l.row = Plans!Week(w) /\ l.row[1] = "week" /\ l.row[2] = w
      BY ONLY <2>2, <3>1, PlanLocksTell
    <3>3. PICK rs : rs = {c.of : c \in Plans!Sources(w)}
      OBVIOUS
    <3>4. PICK s : s = Plans!LocksOn(rs, Plans!Staff, "NO KEY UPDATE")
      OBVIOUS
    <3>5. /\ Plans!Sources(w) \in SUBSET CopySet /\ IsFiniteSet(Plans!Sources(w))
          /\ \A c \in Plans!Sources(w) : Plans!WeekOf(c.shift.day) = w
          /\ \A c, d \in Plans!Sources(w) : c # d /\ c.of = d.of => KeptApart(c.shift, d.shift)
      BY <2>2, SourcesTell
    <3>6. rs \in SUBSET Records
      BY ONLY <3>3, <3>5 DEF CopySet
    <3>7. s \in Seq(StaffLocks) /\ \A r \in rs : \E i \in 1 .. Len(s) : s[i] = StaffLock(r)
      BY <3>4, <3>6, LocksOnRecords
    <3>8. <<>> \o s = s
      BY ONLY <3>7
    <3>9. n.copies = Plans!Sources(w) /\ n.want = s /\ n.found = t.found
      <4>1. l.row # Plans!Row(t.id)
        BY ONLY <3>2, PlanLocksTell
      <4> QED
        BY ONLY <1>5, <1>16, <3>1, <3>2, <3>3, <3>4, <3>8, <4>1
    <3>10. n \in PlanRequests
      <4>1. s \in Seq(PlanLocks)
        BY ONLY <3>7, LocksOfPlans
      <4> QED
        BY ONLY <1>3, <1>9, <3>5, <3>9, <4>1
    <3>11. x \in n.held /\ n.want \in Seq(StaffLocks) /\ n.held \subseteq StaffLocks \union {x}
      BY ONLY <1>5, <2>4, <3>1, <3>7, <3>9
    <3>12. \A c \in n.copies : WantsLock(n, StaffLock(c.of))
      BY ONLY <3>3, <3>7, <3>9 DEF WantsLock
    <3>13. InTurn(n)
      BY ONLY <1>5, <1>16, <2>1, <3>11, <3>12 DEF InTurn, TakesCopies
    <3>14. Plans!LiveIn(w) = {}
      BY ONLY <1>6, <1>16, <3>2
    <3>15. Relies(n)
      BY ONLY <1>1, <1>5, <1>16, <3>5, <3>9, <3>14 DEF Relies, CopyFits
    <3> QED
      BY ONLY <3>10, <3>13, <3>15
  <2>5. CASE /\ x \in t.held /\ t.want \in Seq(StaffLocks)
             /\ t.held \subseteq StaffLocks \union {x}
             /\ \A c \in t.copies : StaffLock(c.of) \in t.held \/ WantsLock(t, StaffLock(c.of))
    <3>1. /\ l \in StaffLocks /\ Tail(t.want) \in Seq(StaffLocks)
          /\ \A y : WantsLock(t, y) =>
               (y = l \/ \E i \in 1..Len(Tail(t.want)) : Tail(t.want)[i] = y)
      BY ONLY <1>1, <1>2, <2>5, LockAndRest DEF WantsLock
    <3>2. PICK r \in Records : l = StaffLock(r)
      BY ONLY <3>1 DEF StaffLocks
    <3>3. l.row # Plans!Week(w) /\ l.row # Plans!Row(t.id)
      <4>1. l.row = Plans!Staff(r)
        BY ONLY <3>2, PlanLocksTell DEF StaffLock
      <4> QED
        BY ONLY <4>1, PlanLocksTell
    <3>4. n.want = Tail(t.want) /\ n.copies = t.copies /\ n.found = t.found
      BY ONLY <1>4, <1>5, <3>3
    <3>5. n \in PlanRequests
      BY ONLY <1>3, <1>4, <1>9, <3>4
    <3>6. \A c \in n.copies : StaffLock(c.of) \in n.held \/ WantsLock(n, StaffLock(c.of))
      <4> SUFFICES ASSUME NEW c \in n.copies
                   PROVE  StaffLock(c.of) \in n.held \/ WantsLock(n, StaffLock(c.of))
        OBVIOUS
      <4>1. PICK y : y = StaffLock(c.of)
        OBVIOUS
      <4>2. CASE y \in t.held
        BY ONLY <1>5, <4>1, <4>2
      <4>3. CASE WantsLock(t, y)
        <5>1. y = l \/ \E i \in 1..Len(Tail(t.want)) : Tail(t.want)[i] = y
          BY ONLY <3>1, <4>3
        <5>2. y \in n.held \/ WantsLock(n, y)
          BY ONLY <1>5, <3>4, <5>1 DEF WantsLock
        <5> QED
          BY ONLY <4>1, <5>2
      <4> QED
        BY ONLY <2>5, <3>4, <4>1, <4>2, <4>3
    <3>7. x \in n.held /\ n.want \in Seq(StaffLocks) /\ n.held \subseteq StaffLocks \union {x}
      BY ONLY <1>5, <2>5, <3>1, <3>4
    <3>8. InTurn(n)
      BY ONLY <1>5, <1>16, <2>1, <3>6, <3>7 DEF InTurn, TakesCopies
    <3>9. Relies(n)
      BY ONLY <1>5, <1>16, <2>3, <2>5, <3>4 DEF Relies, CopyFits
    <3> QED
      BY ONLY <3>5, <3>8, <3>9
  <2> QED
    BY ONLY <2>1, <2>3, <2>4, <2>5 DEF TakesCopies
<1> QED
  BY ONLY <1>11, <1>12, <1>13, <1>14, <1>15, <1>16 DEF PlanJobs

\* Nobody holds a lock that excludes the one that is granted.
LEMMA GrantedApart ==
  ASSUME PlansInv, NEW q \in Requests, tx[q].want # <<>>, Plans!Blockers(q) = {},
         NEW p \in Requests \ {q}, NEW h \in tx[p].held,
         NEW m \in tx[q].held \union {Head(tx[q].want)}
  PROVE  ~Plans!Conflict(h, m) /\ ~Plans!Conflict(m, h)
<1>1. CASE m \in tx[q].held
  BY <1>1, PlansTell DEF LocksApart
<1>2. CASE m = Head(tx[q].want)
  <2>1. ~Plans!Conflict(m, h)
    BY <1>2 DEF Plans!Blockers
  <2>2. h \in PlanLocks
    BY PlansTell, RequestTells
  <2>3. tx[q].want \in Seq(PlanLocks)
    BY PlansTell, RequestTells
  <2>4. m \in PlanLocks
    BY ONLY <1>2, <2>3, tx[q].want # <<>>, LockAndRest
  <2> QED
    BY ONLY <2>1, <2>2, <2>4, PlanConflictsBothWays
<1> QED
  BY <1>1, <1>2

LEMMA AcquireKeeps ==
  ASSUME PlansInv, NEW q \in Requests, Plans!Acquire(q)
  PROVE  PlansInv'
<1>1. /\ tx[q].want # <<>> /\ Plans!Blockers(q) = {} /\ UNCHANGED <<people, closed, plan, told>>
      /\ tx' = [tx EXCEPT ![q] = IF Plans!StillGood(q) THEN Plans!Learns(q) ELSE Plans!Idle]
  BY DEF Plans!Acquire, Plans!tables
<1>2. tx[q].job # "purgeRow"
  BY <1>1, PlansTell DEF InTurn
<1>3. CASE ~Plans!StillGood(q)
  BY <1>1, <1>2, <1>3, IdleTells, RequestMoves
<1>4. CASE Plans!StillGood(q)
  <2>1. PICK n : n = Plans!Learns(q)
    OBVIOUS
  <2>2. n \in PlanRequests /\ InTurn(n) /\ Relies(n)
    BY <1>1, <1>4, <2>1, NextLockFits
  <2>3. n.held = tx[q].held \union {Head(tx[q].want)}
    BY <2>1, Learnt DEF HasLearnt
  <2>4. \A p \in Requests \ {q} : \A h \in tx[p].held, m \in n.held :
          ~Plans!Conflict(h, m) /\ ~Plans!Conflict(m, h)
    BY <1>1, <2>3, GrantedApart
  <2>5. tx' = [tx EXCEPT ![q] = n]
    BY <1>1, <1>4, <2>1
  <2> QED
    BY <1>1, <1>2, <2>2, <2>4, <2>5, RequestMoves
<1> QED
  BY <1>3, <1>4

-----------------------------------------------------------------------------
(* What others write leaves what a request relies on                       *)

\* Rows that are used stay used, and a row that lives was entered for its record.
RowsGoOn ==
    \A i \in Plans!Ids :
        /\ plan[i].state # "none" => plan'[i].state # "none"
        /\ plan'[i].state = "live" =>
             plan[i].state = "none" \/ (plan[i].state = "live" /\ plan'[i].of = plan[i].of)
\* Nothing is written that a lock on the record, the row or the week protects.
RecordKept(r) ==
    /\ people'[r] = people[r]
    /\ \A i \in Plans!Ids : plan'[i].state = "live" /\ plan'[i].of = r => plan'[i] = plan[i]
RowKept(i) == plan'[i] = plan[i] /\ told'[i] = told[i]
WeekKept(w) ==
    \A i \in Plans!Ids : plan'[i].state = "live" /\ Plans!WeekOf(plan'[i].shift.day) = w
                      => plan[i].state = "live" /\ Plans!WeekOf(plan[i].shift.day) = w
LeavesAlone(t) ==
    /\ \A r \in Records : StaffLock(r) \in t.held => RecordKept(r)
    /\ \A i \in Plans!Ids : RowLock(i) \in t.held => RowKept(i)
    /\ \A w : Plans!Lock(Plans!Week(w), "EXCLUSIVE") \in t.held => WeekKept(w)

LEMMA ReliesStill ==
  ASSUME PlansInv, RowsGoOn, NEW t, InTurn(t), Relies(t), LeavesAlone(t)
  PROVE  Relies(t)'
<1>1. ASSUME NEW r \in Records, NEW s, NEW x, RecordKept(r), Plans!MayWork(r, s.day),
             ~Plans!Overlaps(r, s, x)
      PROVE  (Plans!MayWork(r, s.day) /\ ~Plans!Overlaps(r, s, x))'
  <2>1. Plans!MayWork(r, s.day)'
    BY ONLY <1>1 DEF Plans!MayWork, RecordKept
  <2>2. ASSUME NEW i \in Plans!Ids \ {x}, plan'[i].state = "live", plan'[i].of = r
        PROVE  Plans!Busy(plan'[i].shift) \cap Plans!Busy(s) = {}
    <3>1. plan'[i] = plan[i]
      BY ONLY <1>1, <2>2 DEF RecordKept
    <3> QED
      BY ONLY <1>1, <2>2, <3>1 DEF Plans!Overlaps, Plans!Live
  <2> QED
    BY ONLY <2>1, <2>2 DEF Plans!Overlaps, Plans!Live, Plans!Busy
<1>2. ASSUME RowKnown(t), t.want = <<>> => RowLock(t.id) \in t.held
      PROVE  RowKnown(t)'
  <2>1. /\ t.of \in Records /\ t.id \in Plans!Ids /\ plan[t.id].state # "none"
        /\ Plans!Live(t.id) => plan[t.id].of = t.of
        /\ t.want = <<>> => Plans!Live(t.id) /\ t.found = plan[t.id].shift
    BY ONLY <1>2 DEF RowKnown
  <2>2. /\ plan'[t.id].state # "none"
        /\ plan'[t.id].state = "live" => plan'[t.id].of = t.of
    BY ONLY <2>1, RowsGoOn DEF RowsGoOn, Plans!Live
  <2>3. t.want = <<>> => plan'[t.id] = plan[t.id]
    BY ONLY <1>2, <2>1, LeavesAlone(t) DEF LeavesAlone, RowKept
  <2> QED
    BY ONLY <2>1, <2>2, <2>3 DEF RowKnown, Plans!Live
<1>3. CASE t.job = "create"
  <2>1. CreateFits(t) /\ (t.want = <<>> => StaffLock(t.of) \in t.held)
    BY <1>3, HeldAtTheEnd DEF Relies
  <2>2. t.want = <<>> => RecordKept(t.of)
    BY ONLY <2>1, LeavesAlone(t) DEF LeavesAlone, CreateFits
  <2>3. CreateFits(t)'
    BY ONLY <2>1, <2>2, <1>1 DEF CreateFits
  <2> QED
    BY ONLY <1>3, <2>3 DEF Relies
<1>4. CASE t.job = "update"
  <2>1. /\ UpdateFits(t) /\ t.of \in Records
        /\ t.want = <<>> => StaffLock(t.of) \in t.held /\ RowLock(t.id) \in t.held
    BY <1>4, HeldAtTheEnd DEF Relies, UpdateFits, RowKnown
  <2>2. t.want = <<>> => RecordKept(t.of)
    BY ONLY <2>1, LeavesAlone(t) DEF LeavesAlone
  <2>3. RowKnown(t)'
    BY ONLY <1>2, <2>1 DEF UpdateFits
  <2>4. UpdateFits(t)'
    BY ONLY <2>1, <2>2, <2>3, <1>1 DEF UpdateFits
  <2> QED
    BY ONLY <1>4, <2>4 DEF Relies
<1>5. CASE t.job = "remove"
  <2>1. RowKnown(t) /\ (t.want = <<>> => RowLock(t.id) \in t.held)
    BY <1>5, HeldAtTheEnd DEF Relies
  <2>2. RowKnown(t)'
    BY ONLY <1>2, <2>1
  <2> QED
    BY ONLY <1>5, <2>2 DEF Relies
<1>6. CASE t.job = "copy"
  <2>1. CopyFits(t) /\ TakesCopies(t)
    BY ONLY <1>6, InTurn(t), Relies(t) DEF InTurn, Relies
  <2>2. PICK w : w = Plans!WeekOf(t.shift.day)
    OBVIOUS
  <2>3. t.held # {} => Plans!Lock(Plans!Week(w), "EXCLUSIVE") \in t.held
    BY ONLY <2>1, <2>2 DEF TakesCopies, WeekLock
  <2>4. t.held # {} => WeekKept(w)
    BY ONLY <2>3, LeavesAlone(t) DEF LeavesAlone
  <2>5. t.held # {} => Plans!LiveIn(w) = {}
    BY ONLY <2>1, <2>2 DEF CopyFits
  <2>6. t.held # {} =>
          \A i \in Plans!Ids : ~(plan'[i].state = "live" /\ Plans!WeekOf(plan'[i].shift.day) = w)
    BY ONLY <2>4, <2>5 DEF WeekKept, Plans!LiveIn, Plans!Live
  <2>7. t.held # {} => Plans!LiveIn(w)'  = {}
    BY ONLY <2>6 DEF Plans!LiveIn, Plans!Live, Plans!WeekOf
  <2>8. CopyFits(t)'
    BY ONLY <2>1, <2>2, <2>7 DEF CopyFits
  <2> QED
    BY ONLY <1>6, <2>8 DEF Relies
<1>7. CASE t.job \in {"purge", "purgeRow"}
  <2>1. /\ t.id \in Plans!Ids /\ plan[t.id].state # "none"
        /\ t.job = "purgeRow" => told[t.id] = Plans!NoShift /\ RowLock(t.id) \in t.held
    BY ONLY <1>7, InTurn(t), Relies(t) DEF InTurn, Relies, PurgeFits
  <2>2. plan'[t.id].state # "none"
    BY ONLY <2>1, RowsGoOn DEF RowsGoOn
  <2>3. t.job = "purgeRow" => told'[t.id] = Plans!NoShift
    BY ONLY <2>1, LeavesAlone(t) DEF LeavesAlone, RowKept
  <2> QED
    BY ONLY <1>7, <2>1, <2>2, <2>3 DEF Relies, PurgeFits
<1>8. CASE t.job \notin {"create", "update", "remove", "copy", "purge", "purgeRow"}
  BY ONLY <1>8 DEF Relies
<1> QED
  BY ONLY <1>3, <1>4, <1>5, <1>6, <1>7, <1>8

\* What remains to be shown of a step that writes: the rows and the history fit, and
\* whoever is not at its end is left alone or is still right.
LEMMA WritesKeep ==
  ASSUME PlansInv, RowsGoOn, tx' \in [Requests -> PlanRequests],
         people' \in [Records -> PersonSet], closed' \in BOOLEAN,
         plan' \in [Plans!Ids -> PlanRows], told' \in [Plans!Ids -> ShiftSet], RowsFit',
         \A i \in Plans!Ids : plan'[i].state = "live" =>
           \/ told'[i] = plan'[i].shift
           \/ \E p \in Requests : tx'[p].job = "purgeRow" /\ tx'[p].id = i
           \/ RowKept(i) /\ \A p \in Requests : tx[p].job = "purgeRow" /\ tx[p].id = i =>
                tx'[p] = tx[p],
         \A p \in Requests :
           \/ tx'[p] = tx[p] /\ LeavesAlone(tx[p])
           \/ tx'[p] = Plans!Idle
           \/ \E n : tx'[p] = n /\ n.held \subseteq tx[p].held /\ InTurn(n) /\ Relies(n)'
  PROVE  PlansInv'
<1>1. PlansTyped'
  BY DEF PlansTyped
<1>2. HistoryFits'
  <2> SUFFICES ASSUME NEW i \in Plans!Ids, plan'[i].state = "live",
                      told'[i] # plan'[i].shift, RowKept(i),
                      \A p \in Requests : tx[p].job = "purgeRow" /\ tx[p].id = i => tx'[p] = tx[p]
               PROVE  \E p \in Requests : tx'[p].job = "purgeRow" /\ tx'[p].id = i
    BY DEF HistoryFits, Plans!Live
  <2>1. plan[i].state = "live" /\ told[i] # plan[i].shift
    BY DEF RowKept
  <2> QED
    BY <2>1, PlansTell DEF HistoryFits, Plans!Live
<1>3. ASSUME NEW p \in Requests
      PROVE  \E n : tx'[p] = n /\ n.held \subseteq tx[p].held /\ InTurn(n) /\ Relies(n)'
  <2>1. CASE tx'[p] = tx[p] /\ LeavesAlone(tx[p])
    <3>1. PICK n : n = tx[p]
      OBVIOUS
    <3>2. InTurn(n) /\ Relies(n) /\ LeavesAlone(n)
      BY <2>1, <3>1, PlansTell
    <3>3. Relies(n)'
      BY <3>2, ReliesStill
    <3> QED
      BY <2>1, <3>1, <3>2, <3>3
  <2>2. CASE tx'[p] = Plans!Idle
    <3>1. PICK n : n = Plans!Idle
      OBVIOUS
    <3>2. n.job = "idle" /\ n.held = {} /\ InTurn(n)
      BY <3>1, IdleTells
    <3>3. Relies(n)'
      BY ONLY <3>2 DEF Relies
    <3> QED
      BY <2>2, <3>1, <3>2, <3>3
  <2> QED
    BY <2>1, <2>2
<1>4. LocksApart'
  <2> SUFFICES ASSUME NEW p \in Requests, NEW q \in Requests, p # q,
                      NEW l \in tx'[p].held, NEW m \in tx'[q].held
               PROVE  ~Plans!Conflict(l, m)
    BY DEF LocksApart
  <2>1. l \in tx[p].held /\ m \in tx[q].held
    BY <1>3
  <2> QED
    BY <2>1, PlansTell DEF LocksApart
<1>5. \A p \in Requests : InTurn(tx[p])' /\ Relies(tx[p])'
  <2> TAKE p \in Requests
  <2>1. PICK n : tx'[p] = n /\ InTurn(n) /\ Relies(n)'
    BY <1>3
  <2>2. InTurn(tx[p])'
    BY <2>1
  <2>3. Relies(tx[p])'
    BY ONLY <2>1 DEF Relies, CreateFits, UpdateFits, RowKnown, CopyFits, PurgeFits
  <2> QED
    BY <2>2, <2>3
<1> QED
  BY <1>1, <1>2, <1>4, <1>5 DEF PlansInv

\* A request that is answered: what it wrote fits, and leaves the others alone.
LEMMA AnswerKeeps ==
  ASSUME PlansInv, RowsGoOn, NEW q \in Requests, Plans!Answer(q), UNCHANGED <<people, closed>>,
         plan' \in [Plans!Ids -> PlanRows], told' \in [Plans!Ids -> ShiftSet], RowsFit',
         \A i \in Plans!Ids : plan'[i].state = "live" =>
           \/ told'[i] = plan'[i].shift
           \/ RowKept(i) /\ (tx[q].job = "purgeRow" => tx[q].id # i),
         \A p \in Requests \ {q} : LeavesAlone(tx[p])
  PROVE  PlansInv'
<1>1. tx' \in [Requests -> PlanRequests] /\ tx'[q] = Plans!Idle
        /\ \A p \in Requests \ {q} : tx'[p] = tx[p]
  BY PlansTell, IdleTells DEF Plans!Answer
<1>2. \A i \in Plans!Ids : plan'[i].state = "live" =>
        \/ told'[i] = plan'[i].shift
        \/ RowKept(i) /\ \A p \in Requests : tx[p].job = "purgeRow" /\ tx[p].id = i =>
             tx'[p] = tx[p]
  BY <1>1
<1>3. people' \in [Records -> PersonSet] /\ closed' \in BOOLEAN
  BY PlansTell
<1> QED
  BY <1>1, <1>2, <1>3, WritesKeep

\* A statement that commits on its own.
LEMMA CommitKeeps ==
  ASSUME PlansInv, RowsGoOn, tx' = tx,
         people' \in [Records -> PersonSet], closed' \in BOOLEAN,
         plan' \in [Plans!Ids -> PlanRows], told' \in [Plans!Ids -> ShiftSet], RowsFit',
         \A i \in Plans!Ids : plan'[i].state = "live" => RowKept(i),
         \A p \in Requests : LeavesAlone(tx[p])
  PROVE  PlansInv'
<1>1. tx' \in [Requests -> PlanRequests]
  BY PlansTell
<1> QED
  BY <1>1, WritesKeep

LEMMA RowsTell ==
  ASSUME PlansInv
  PROVE  /\ \A i \in Plans!Ids : /\ i \in Nat /\ plan[i] \in PlanRows
              /\ plan[i].shift \in ShiftSet
                                 /\ told[i] \in ShiftSet
         /\ \A i \in Plans!Ids : plan[i].state = "live" =>
              /\ plan[i].of \in Records
              /\ people[plan[i].of].retired => plan[i].shift.day <= people[plan[i].of].retire
         /\ \A i, j \in Plans!Ids : /\ i # j /\ plan[i].state = "live" /\ plan[j].state = "live"
                                    /\ plan[i].of = plan[j].of
                                    => KeptApart(plan[i].shift, plan[j].shift)
         /\ \A r \in Records : people[r].retired => people[r].retire # 0
         /\ \A i, j \in Plans!Ids : i < j /\ plan[i].state = "none" => plan[j].state = "none"
         /\ \A r \in Records : people[r] \in PersonSet
BY PlansTell, PlansConstants DEF RowsFit, Plans!Live, PlanRows, Plans!Ids

\* The parts of RowsFit after a step that changes no record.
LEMMA RowsFitAgain ==
  ASSUME \A i \in Plans!Ids : plan'[i].state = "live" =>
           /\ plan'[i].of \in Records
           /\ people'[plan'[i].of].retired => plan'[i].shift.day <= people'[plan'[i].of].retire,
         \A i, j \in Plans!Ids : /\ i # j /\ plan'[i].state = "live" /\ plan'[j].state = "live"
                                 /\ plan'[i].of = plan'[j].of
                                 => KeptApart(plan'[i].shift, plan'[j].shift),
         \A r \in Records : people'[r].retired => people'[r].retire # 0,
         \A i, j \in Plans!Ids : i < j /\ plan'[i].state = "none" => plan'[j].state = "none"
  PROVE  RowsFit'
BY DEF RowsFit, Plans!Live, KeptApart, Plans!Busy

LEMMA RemoveKeeps ==
  ASSUME PlansInv, NEW q \in Requests, Plans!FinishRemove(q)
  PROVE  PlansInv'
<1>1. PICK t : t = tx[q]
  OBVIOUS
<1>2. /\ t.job = "remove" /\ t.want = <<>> /\ Plans!Answer(q) /\ UNCHANGED <<people, closed>>
      /\ plan' = [i \in Plans!Ids |-> IF i \in {t.id} THEN [Plans!NoRow EXCEPT !.state =
           "deleted"] ELSE plan[i]]
      /\ told' = [i \in Plans!Ids |-> IF i \in {t.id} THEN Plans!NoShift ELSE told[i]]
  BY <1>1 DEF Plans!FinishRemove, Plans!Finishing, Plans!Delete
<1>3. PICK gone : gone = [Plans!NoRow EXCEPT !.state = "deleted"]
  OBVIOUS
<1>4. gone \in PlanRows /\ gone.state = "deleted"
  BY <1>3, IdleTells DEF Plans!NoRow, PlanRows
<1>5. RowLock(t.id) \in t.held /\ t.id \in Plans!Ids /\ plan[t.id].state = "live"
  BY <1>1, <1>2, PlansTell, HeldAtTheEnd DEF Relies, RowKnown, Plans!Live
<1>6. /\ \A i \in Plans!Ids : plan'[i] = IF i = t.id THEN gone ELSE plan[i]
      /\ \A i \in Plans!Ids : told'[i] = IF i = t.id THEN Plans!NoShift ELSE told[i]
      /\ plan' \in [Plans!Ids -> PlanRows] /\ told' \in [Plans!Ids -> ShiftSet]
  BY <1>2, <1>3, <1>4, PlansTell, IdleTells
<1>7. /\ \A i \in Plans!Ids : plan'[i].state = "live" =>
           RowKept(i) /\ plan[i].state = "live" /\ i # t.id
      /\ \A i \in Plans!Ids : i # t.id => RowKept(i)
      /\ \A i \in Plans!Ids : plan'[i].state = "none" <=> plan[i].state = "none"
  BY ONLY <1>4, <1>5, <1>6 DEF RowKept
<1>8. RowsGoOn
  BY ONLY <1>7 DEF RowsGoOn, RowKept
<1>9. RowsFit'
  BY ONLY <1>2, <1>7, PlansInv, RowsTell, RowsFitAgain DEF RowKept
<1>10. ASSUME NEW p \in Requests \ {q}
       PROVE  LeavesAlone(tx[p])
  <2>1. RowLock(t.id) \notin tx[p].held
    BY <1>1, <1>5, HeldAlone
  <2>2. \A r \in Records : RecordKept(r)
    BY ONLY <1>2, <1>7 DEF RecordKept, RowKept
  <2>3. \A w : WeekKept(w)
    BY ONLY <1>7 DEF WeekKept, RowKept
  <2> QED
    BY ONLY <1>7, <2>1, <2>2, <2>3 DEF LeavesAlone
<1> QED
  BY <1>1, <1>2, <1>6, <1>7, <1>8, <1>9, <1>10, AnswerKeeps

LEMMA PurgeRowKeeps ==
  ASSUME PlansInv, NEW q \in Requests, Plans!PurgeRow(q)
  PROVE  PlansInv'
<1>1. PICK t : t = tx[q]
  OBVIOUS
<1>2. PICK gone : gone = [Plans!NoRow EXCEPT !.state = "purged"]
  OBVIOUS
<1>3. gone \in PlanRows /\ gone.state = "purged"
  BY <1>2, IdleTells DEF Plans!NoRow, PlanRows
<1>4. /\ t.job = "purgeRow" /\ t.want = <<>> /\ Plans!Answer(q)
           /\ UNCHANGED <<people, closed, told>>
      /\ plan' = [plan EXCEPT ![t.id] = gone]
  BY <1>1, <1>2 DEF Plans!PurgeRow, Plans!Finishing
<1>5. RowLock(t.id) \in t.held /\ t.id \in Plans!Ids /\ plan[t.id].state # "none"
  BY <1>1, <1>4, PlansTell, HeldAtTheEnd DEF Relies, PurgeFits
<1>6. /\ \A i \in Plans!Ids : plan'[i] = IF i = t.id THEN gone ELSE plan[i]
      /\ plan' \in [Plans!Ids -> PlanRows] /\ told' \in [Plans!Ids -> ShiftSet]
  BY <1>3, <1>4, <1>5, PlansTell
<1>7. /\ \A i \in Plans!Ids : plan'[i].state = "live" =>
           RowKept(i) /\ plan[i].state = "live" /\ i # t.id
      /\ \A i \in Plans!Ids : i # t.id => RowKept(i)
      /\ \A i \in Plans!Ids : plan'[i].state = "none" <=> plan[i].state = "none"
  BY ONLY <1>3, <1>4, <1>5, <1>6 DEF RowKept
<1>8. RowsGoOn
  BY ONLY <1>7 DEF RowsGoOn, RowKept
<1>9. RowsFit'
  BY ONLY <1>4, <1>7, PlansInv, RowsTell, RowsFitAgain DEF RowKept
<1>10. ASSUME NEW p \in Requests \ {q}
       PROVE  LeavesAlone(tx[p])
  <2>1. RowLock(t.id) \notin tx[p].held
    BY <1>1, <1>5, HeldAlone
  <2>2. \A r \in Records : RecordKept(r)
    BY ONLY <1>4, <1>7 DEF RecordKept, RowKept
  <2>3. \A w : WeekKept(w)
    BY ONLY <1>7 DEF WeekKept, RowKept
  <2> QED
    BY ONLY <1>7, <2>1, <2>2, <2>3 DEF LeavesAlone
<1> QED
  BY <1>1, <1>4, <1>6, <1>7, <1>8, <1>9, <1>10, AnswerKeeps

LEMMA PurgeHistoryKeeps ==
  ASSUME PlansInv, NEW q \in Requests, Plans!PurgeHistory(q)
  PROVE  PlansInv'
<1>1. PICK t, n : t = tx[q] /\ n = [t EXCEPT !.job = "purgeRow"]
  OBVIOUS
<1>2. /\ t.job = "purge" /\ t.want = <<>> /\ UNCHANGED <<people, closed, plan>>
      /\ told' = [told EXCEPT ![t.id] = Plans!NoShift]
      /\ tx' = [tx EXCEPT ![q].job = "purgeRow"] /\ tx' = [tx EXCEPT ![q] = n]
  BY <1>1, PlansTell DEF Plans!PurgeHistory, Plans!Finishing
<1>3. t \in PlanRequests /\ InTurn(t) /\ Relies(t)
  BY <1>1, PlansTell
<1>4. RowLock(t.id) \in t.held /\ t.id \in Plans!Ids /\ plan[t.id].state # "none"
  BY <1>2, <1>3, HeldAtTheEnd DEF Relies, PurgeFits
<1>5. /\ n \in PlanRequests /\ n.job = "purgeRow" /\ n.id = t.id /\ n.held = t.held
      /\ n.want = t.want
  BY <1>1, <1>3 DEF PlanRequests, PlanJobs
<1>6. /\ tx' \in [Requests -> PlanRequests] /\ tx'[q] = n
      /\ \A p \in Requests \ {q} : tx'[p] = tx[p]
  BY <1>2, <1>5, PlansTell
<1>7. /\ \A i \in Plans!Ids : told'[i] = IF i = t.id THEN Plans!NoShift ELSE told[i]
      /\ told' \in [Plans!Ids -> ShiftSet]
  BY <1>2, <1>4, PlansTell, IdleTells
<1>8. /\ people' \in [Records -> PersonSet] /\ closed' \in BOOLEAN
           /\ plan' \in [Plans!Ids -> PlanRows]
  BY <1>2, PlansTell
<1>9. RowsGoOn
  BY ONLY <1>2 DEF RowsGoOn
<1>10. RowsFit'
  BY ONLY <1>2, PlansInv, RowsTell, RowsFitAgain
<1>11. ASSUME NEW i \in Plans!Ids
       PROVE  \/ told'[i] = plan'[i].shift
              \/ \E p \in Requests : tx'[p].job = "purgeRow" /\ tx'[p].id = i
              \/ /\ RowKept(i)
                 /\ \A p \in Requests : tx[p].job = "purgeRow" /\ tx[p].id = i => tx'[p] = tx[p]
  <2>1. CASE i = t.id
    BY <1>5, <1>6, <2>1
  <2>2. CASE i # t.id
    BY <1>1, <1>2, <1>6, <1>7, <2>2 DEF RowKept
  <2> QED
    BY <2>1, <2>2
<1>12. ASSUME NEW p \in Requests \ {q}
       PROVE  LeavesAlone(tx[p])
  <2>1. RowLock(t.id) \notin tx[p].held
    BY <1>1, <1>4, HeldAlone
  <2>2. \A r \in Records : RecordKept(r)
    BY ONLY <1>2 DEF RecordKept
  <2>3. \A w : WeekKept(w)
    BY ONLY <1>2 DEF WeekKept
  <2>4. \A i \in Plans!Ids : i # t.id => RowKept(i)
    BY ONLY <1>2, <1>7 DEF RowKept
  <2> QED
    BY ONLY <2>1, <2>2, <2>3, <2>4 DEF LeavesAlone
<1>13. InTurn(n) /\ Relies(n)'
  <2>1. n.held = {RowLock(n.id)} /\ n.want = <<>>
    <3>1. Takes1(t, RowLock(t.id))
      BY ONLY <1>2, <1>3 DEF InTurn
    <3> QED
      BY ONLY <1>2, <1>5, <3>1, FewLocks DEF Takes1
  <2>2. InTurn(n)
    BY ONLY <1>5, <2>1 DEF InTurn
  <2>3. Relies(n)'
    BY ONLY <1>2, <1>4, <1>5, <1>7 DEF Relies, PurgeFits
  <2> QED
    BY ONLY <2>2, <2>3
<1>14. ASSUME NEW p \in Requests
       PROVE  \/ tx'[p] = tx[p] /\ LeavesAlone(tx[p])
              \/ \E m : tx'[p] = m /\ m.held \subseteq tx[p].held /\ InTurn(m) /\ Relies(m)'
  <2>1. CASE p = q
    <3>1. tx'[p] = n /\ n.held \subseteq tx[p].held
      BY <1>1, <1>5, <1>6, <2>1
    <3> QED
      BY <3>1, <1>13
  <2>2. CASE p # q
    BY <1>6, <1>12, <2>2
  <2> QED
    BY <2>1, <2>2
<1> QED
  BY <1>6, <1>7, <1>8, <1>9, <1>10, <1>11, <1>14, WritesKeep

LEMMA UpdateKeeps ==
  ASSUME PlansInv, NEW q \in Requests, Plans!FinishUpdate(q)
  PROVE  PlansInv'
<1>1. PICK t, s, old : t = tx[q] /\ s = t.shift /\ old = plan[t.id]
  OBVIOUS
<1>2. PICK row : row = [old EXCEPT !.shift = s]
  OBVIOUS
<1>3. /\ t.job = "update" /\ t.want = <<>> /\ Plans!Answer(q) /\ UNCHANGED <<people, closed>>
      /\ plan' = [plan EXCEPT ![t.id] = row]
      /\ told' = [told EXCEPT ![t.id] = s]
  BY <1>1, <1>2 DEF Plans!FinishUpdate, Plans!Finishing
<1>4. t \in PlanRequests /\ InTurn(t) /\ Relies(t)
  BY <1>1, PlansTell
<1>5. /\ {WeekLock(s, "SHARED"), StaffLock(t.of), RowLock(t.id)} \subseteq t.held
      /\ t.of \in Records /\ t.id \in Plans!Ids /\ old.state = "live" /\ old.of = t.of
      /\ Plans!MayWork(t.of, s.day) /\ ~Plans!Overlaps(t.of, s, t.id) /\ s \in ShiftSet
  <2>1. UpdateFits(t) /\ {WeekLock(t.shift, "SHARED"), StaffLock(t.of),
          RowLock(t.id)} \subseteq t.held
    BY <1>3, <1>4, HeldAtTheEnd DEF Relies
  <2>2. s \in ShiftSet
    BY ONLY <1>1, <1>4, RequestTells
  <2> QED
    BY ONLY <1>1, <1>3, <2>1, <2>2 DEF UpdateFits, RowKnown, Plans!Live
<1>6. row \in PlanRows /\ row.state = "live" /\ row.of = t.of /\ row.shift = s
  <2>1. old \in PlanRows
    BY <1>1, <1>5, PlansTell
  <2> QED
    BY ONLY <1>2, <1>5, <2>1 DEF PlanRows
<1>7. /\ \A i \in Plans!Ids : plan'[i] = IF i = t.id THEN row ELSE plan[i]
      /\ \A i \in Plans!Ids : told'[i] = IF i = t.id THEN s ELSE told[i]
      /\ plan' \in [Plans!Ids -> PlanRows] /\ told' \in [Plans!Ids -> ShiftSet]
  BY <1>3, <1>5, <1>6, PlansTell
<1>8. /\ \A i \in Plans!Ids : i # t.id => RowKept(i)
      /\ plan'[t.id] = row /\ told'[t.id] = s
  BY ONLY <1>5, <1>7 DEF RowKept
<1>9. RowsGoOn
  BY ONLY <1>1, <1>5, <1>6, <1>8 DEF RowsGoOn, RowKept
<1>10. /\ \A i \in Plans!Ids : plan[i].state = "live" =>
            /\ plan[i].of \in Records
            /\ people[plan[i].of].retired => plan[i].shift.day <= people[plan[i].of].retire
       /\ \A i, j \in Plans!Ids : /\ i # j /\ plan[i].state = "live" /\ plan[j].state = "live"
                                  /\ plan[i].of = plan[j].of
                                  => KeptApart(plan[i].shift, plan[j].shift)
       /\ \A r \in Records : people[r].retired => people[r].retire # 0
       /\ \A i, j \in Plans!Ids : i < j /\ plan[i].state = "none" => plan[j].state = "none"
  BY ONLY PlansInv, RowsTell
<1>11. \A i \in Plans!Ids : i # t.id /\ plan[i].state = "live" /\ plan[i].of = t.of =>
         KeptApart(plan[i].shift, s) /\ KeptApart(s, plan[i].shift)
  BY ONLY <1>5 DEF Plans!Overlaps, Plans!Live, KeptApart
<1>12. RowsFit'
  <2>1. \A i \in Plans!Ids : plan'[i].state = "live" =>
           /\ plan'[i].of \in Records
           /\ people'[plan'[i].of].retired => plan'[i].shift.day <= people'[plan'[i].of].retire
    <3> SUFFICES ASSUME NEW i \in Plans!Ids, plan'[i].state = "live"
                 PROVE  /\ plan'[i].of \in Records
                        /\ people'[plan'[i].of].retired =>
                             plan'[i].shift.day <= people'[plan'[i].of].retire
      OBVIOUS
    <3>1. CASE i = t.id
      BY ONLY <1>3, <1>5, <1>6, <1>8, <1>10, <3>1 DEF Plans!MayWork
    <3>2. CASE i # t.id
      BY ONLY <1>3, <1>8, <1>10, <3>2, plan'[i].state = "live" DEF RowKept
    <3> QED
      BY ONLY <3>1, <3>2
  <2>2. \A i, j \in Plans!Ids : /\ i # j /\ plan'[i].state = "live" /\ plan'[j].state = "live"
                                /\ plan'[i].of = plan'[j].of
                                => KeptApart(plan'[i].shift, plan'[j].shift)
    BY ONLY <1>6, <1>8, <1>10, <1>11 DEF RowKept
  <2>3. \A i, j \in Plans!Ids : i < j /\ plan'[i].state = "none" => plan'[j].state = "none"
    BY ONLY <1>1, <1>5, <1>6, <1>8, <1>10 DEF RowKept
  <2> QED
    BY ONLY <1>3, <1>10, <2>1, <2>2, <2>3, RowsFitAgain
<1>13. ASSUME NEW p \in Requests \ {q}
       PROVE  LeavesAlone(tx[p])
  <2>1. RowLock(t.id) \notin tx[p].held /\ StaffLock(t.of) \notin tx[p].held
    BY <1>1, <1>5, HeldAlone
  <2>2. Plans!Lock(Plans!Week(Plans!WeekOf(s.day)), "EXCLUSIVE") \notin tx[p].held
    <3>1. Plans!Lock(Plans!Week(Plans!WeekOf(s.day)), "SHARED") \in tx[q].held
      BY <1>1, <1>5 DEF WeekLock
    <3> QED
      BY <3>1, HeldAlone
  <2>3. \A r \in Records : r # t.of => RecordKept(r)
    BY ONLY <1>3, <1>6, <1>8 DEF RecordKept, RowKept
  <2>4. \A w : w # Plans!WeekOf(s.day) => WeekKept(w)
    BY ONLY <1>6, <1>8 DEF WeekKept, RowKept
  <2> QED
    BY ONLY <1>8, <2>1, <2>2, <2>3, <2>4 DEF LeavesAlone
<1>14. \A i \in Plans!Ids : plan'[i].state = "live" =>
           \/ told'[i] = plan'[i].shift
           \/ RowKept(i) /\ (tx[q].job = "purgeRow" => tx[q].id # i)
  BY ONLY <1>1, <1>3, <1>6, <1>8
<1> QED
  BY <1>3, <1>7, <1>9, <1>12, <1>13, <1>14, AnswerKeeps

-----------------------------------------------------------------------------
(* Leaving and closing                                                     *)

\* Nobody holds a record that is free, or a row of it that goes.
LEMMA LeavingLeavesAlone ==
  ASSUME NEW p \in Requests, NEW R \in SUBSET Records, NEW G \in SUBSET Plans!Ids,
         \A r \in R : StaffLock(r) \notin tx[p].held,
         \A i \in G : RowLock(i) \notin tx[p].held,
         \A r \in Records \ R : people'[r] = people[r],
         \A i \in Plans!Ids : i \notin G => RowKept(i),
         \A i \in G : plan'[i].state # "live"
  PROVE  LeavesAlone(tx[p])
<1>1. \A r \in Records \ R : RecordKept(r)
  BY DEF RecordKept, RowKept
<1>2. \A w : WeekKept(w)
  BY DEF WeekKept, RowKept
<1> QED
  BY ONLY <1>1, <1>2, \A r \in R : StaffLock(r) \notin tx[p].held, \A i \in G : RowLock(i)
     \notin tx[p].held, \A i \in Plans!Ids : i \notin G => RowKept(i) DEF LeavesAlone

LEMMA FinalizeKeeps ==
  ASSUME PlansInv, NEW r \in Records, NEW day \in Nat \ {0}, Plans!Finalize(r, day),
         Plans!Free(Plans!Staff(r), "NO KEY UPDATE"), UNCHANGED <<closed, tx>>
  PROVE  PlansInv'
<1>1. PICK G, gone, one : /\ G = Plans!After(r, day)
        /\ gone = [Plans!NoRow EXCEPT !.state = "deleted"]
                          /\ one = [people[r] EXCEPT !.retire = day, !.retired = TRUE]
  OBVIOUS
<1>2. gone \in PlanRows /\ gone.state = "deleted"
  BY <1>1, IdleTells DEF Plans!NoRow, PlanRows
<1>3. /\ \A i \in G : Plans!Free(Plans!Row(i), "NO KEY UPDATE")
      /\ people' = [people EXCEPT ![r] = one]
      /\ plan' = [i \in Plans!Ids |-> IF i \in G THEN gone ELSE plan[i]]
      /\ told' = [i \in Plans!Ids |-> IF i \in G THEN Plans!NoShift ELSE told[i]]
  BY <1>1 DEF Plans!Finalize, Plans!Delete
<1>4. one \in PersonSet /\ one.retire = day /\ one.retired = TRUE
  BY <1>1, PlansTell DEF PersonSet
<1>5. /\ people' \in [Records -> PersonSet] /\ people'[r] = one
      /\ \A x \in Records \ {r} : people'[x] = people[x]
  BY <1>3, <1>4, PlansTell
<1>6. /\ \A i \in G : plan'[i] = gone
      /\ \A i \in Plans!Ids : i \notin G => RowKept(i)
      /\ plan' \in [Plans!Ids -> PlanRows] /\ told' \in [Plans!Ids -> ShiftSet]
      /\ G \in SUBSET Plans!Ids
  BY <1>1, <1>2, <1>3, PlansTell, IdleTells DEF RowKept, Plans!After
<1>7. /\ \A i \in G : plan[i].state = "live"
      /\ \A i \in Plans!Ids : plan[i].state = "live" /\ plan[i].of = r /\ i \notin G =>
           ~(plan[i].shift.day > day)
  BY ONLY <1>1 DEF Plans!After, Plans!Live
<1>8. RowsGoOn
  BY ONLY <1>2, <1>6, <1>7 DEF RowsGoOn, RowKept
<1>9. /\ \A i \in Plans!Ids : plan[i].state = "live" =>
           /\ plan[i].of \in Records /\ plan[i].shift.day \in Nat
           /\ people[plan[i].of].retired => plan[i].shift.day <= people[plan[i].of].retire
      /\ \A i, j \in Plans!Ids : /\ i # j /\ plan[i].state = "live" /\ plan[j].state = "live"
                                 /\ plan[i].of = plan[j].of
                                 => KeptApart(plan[i].shift, plan[j].shift)
      /\ \A x \in Records : people[x].retired => people[x].retire # 0
      /\ \A i, j \in Plans!Ids : i < j /\ plan[i].state = "none" => plan[j].state = "none"
  BY ONLY PlansInv, RowsTell DEF ShiftSet
<1>14. \A i, j \in Plans!Ids : i < j /\ plan[i].state = "none" => plan[j].state = "none"
  BY ONLY PlansInv, RowsTell
<1>15. \A x \in Records : people[x].retired => people[x].retire # 0
  BY ONLY PlansInv, RowsTell
<1>10. RowsFit'
  <2>1. \A i \in Plans!Ids : plan'[i].state = "live" =>
           /\ plan'[i].of \in Records
           /\ people'[plan'[i].of].retired => plan'[i].shift.day <= people'[plan'[i].of].retire
    <3> SUFFICES ASSUME NEW i \in Plans!Ids, plan'[i].state = "live"
                 PROVE  /\ plan'[i].of \in Records
                        /\ people'[plan'[i].of].retired =>
                             plan'[i].shift.day <= people'[plan'[i].of].retire
      OBVIOUS
    <3>1. i \notin G /\ plan'[i] = plan[i] /\ plan[i].state = "live"
      BY ONLY <1>2, <1>6, plan'[i].state = "live", i \in Plans!Ids DEF RowKept
    <3>2. CASE plan[i].of = r
      <4>1. plan[i].shift.day <= day
        BY ONLY <1>7, <1>9, <3>1, <3>2
      <4> QED
        BY ONLY <1>4, <1>5, <1>9, <3>1, <3>2, <4>1
    <3>3. CASE plan[i].of # r
      BY ONLY <1>5, <1>9, <3>1, <3>3
    <3> QED
      BY ONLY <3>2, <3>3
  <2>2. \A i, j \in Plans!Ids : /\ i # j /\ plan'[i].state = "live" /\ plan'[j].state = "live"
                                /\ plan'[i].of = plan'[j].of
                                => KeptApart(plan'[i].shift, plan'[j].shift)
    BY ONLY <1>2, <1>6, <1>9 DEF RowKept
  <2>3. \A i, j \in Plans!Ids : i < j /\ plan'[i].state = "none" => plan'[j].state = "none"
    <3> SUFFICES ASSUME NEW i \in Plans!Ids, NEW j \in Plans!Ids, i < j, plan'[i].state = "none"
                 PROVE  plan'[j].state = "none"
      OBVIOUS
    <3>1. i \notin G
      BY ONLY <1>2, <1>6, plan'[i].state = "none"
    <3>2. plan[i].state = "none"
      BY ONLY <1>6, <3>1, plan'[i].state = "none", i \in Plans!Ids DEF RowKept
    <3>3. plan[j].state = "none"
      BY ONLY <1>14, <3>2, i < j, i \in Plans!Ids, j \in Plans!Ids, Zenon
    <3>4. j \notin G
      BY ONLY <1>7, <3>3
    <3> QED
      BY ONLY <1>6, <3>3, <3>4, j \in Plans!Ids DEF RowKept
  <2>4. ASSUME NEW x \in Records
        PROVE  people'[x].retired => people'[x].retire # 0
    <3>1. CASE x = r
      BY ONLY <1>4, <1>5, <3>1, day \in Nat \ {0}
    <3>2. CASE x # r
      BY ONLY <1>5, <1>15, <3>2, x \in Records
    <3> QED
      BY ONLY <3>1, <3>2
  <2> QED
    BY ONLY <2>1, <2>2, <2>3, <2>4, RowsFitAgain
<1>11. ASSUME NEW p \in Requests
       PROVE  LeavesAlone(tx[p])
  <2>1. \A x \in {r} : StaffLock(x) \notin tx[p].held
    BY FreeForAll
  <2>2. \A i \in G : RowLock(i) \notin tx[p].held
    BY <1>3, FreeForAll
  <2>3. \A i \in G : plan'[i].state # "live"
    BY ONLY <1>2, <1>6
  <2>4. {r} \in SUBSET Records
    OBVIOUS
  <2> QED
    BY <2>1, <2>2, <2>3, <2>4, <1>5, <1>6, LeavingLeavesAlone
<1>12. \A i \in Plans!Ids : plan'[i].state = "live" => RowKept(i)
  BY ONLY <1>2, <1>6
<1>13. closed' \in BOOLEAN /\ tx' = tx
  BY PlansTell
<1> QED
  BY <1>5, <1>6, <1>8, <1>10, <1>11, <1>12, <1>13, CommitKeeps

\* A day of leaving that is only noted, for a record nobody holds who has not left.
LEMMA NotedKeeps ==
  ASSUME PlansInv, NEW R \in SUBSET Records, people' \in [Records -> PersonSet],
         \A r \in R : ~people[r].retired /\ people'[r].retired = people[r].retired
                      /\ Plans!Free(Plans!Staff(r), "NO KEY UPDATE"),
         \A r \in Records \ R : people'[r] = people[r],
         UNCHANGED <<plan, told, tx>>, closed' \in BOOLEAN
  PROVE  PlansInv'
<1>1. \A i \in Plans!Ids : RowKept(i)
  BY DEF RowKept
<1>2. RowsGoOn
  BY DEF RowsGoOn
<1>3. /\ \A r \in Records : people'[r].retired <=> people[r].retired
      /\ \A r \in Records : people[r].retired => people'[r] = people[r]
  OBVIOUS
<1>4. RowsFit'
  BY ONLY <1>3, UNCHANGED <<plan, told, tx>>, PlansInv, RowsTell, RowsFitAgain
<1>5. ASSUME NEW p \in Requests
      PROVE  LeavesAlone(tx[p])
  <2>1. \A r \in R : StaffLock(r) \notin tx[p].held
    BY FreeForAll
  <2>2. PICK G : G = {}
    OBVIOUS
  <2>3. /\ G \in SUBSET Plans!Ids /\ \A i \in G : RowLock(i) \notin tx[p].held
        /\ \A i \in Plans!Ids : i \notin G => RowKept(i)
        /\ \A i \in G : plan'[i].state # "live"
    BY ONLY <1>1, <2>2
  <2> QED
    BY <2>1, <2>3, LeavingLeavesAlone
<1> QED
  BY <1>1, <1>2, <1>4, <1>5, PlansTell, CommitKeeps

LEMMA LeavingKeeps ==
  ASSUME PlansInv,
         \/ \E r \in Records : Plans!Settle(r)
         \/ \E r \in Records, day \in {0} \union Plans!Calendar : Plans!Retire(r, day)
         \/ \E day \in Plans!Calendar : Plans!Close(day)
  PROVE  PlansInv'
<1>0. \A day \in Plans!Calendar : day \in Nat \ {0}
  BY PlansConstants DEF Plans!Calendar
<1>1. ASSUME NEW r \in Records, Plans!Settle(r)
      PROVE  PlansInv'
  <2>1. people[r].retire \in Nat \ {0}
    BY <1>1, RowsTell DEF Plans!Settle, PersonSet
  <2> QED
    BY <1>1, <2>1, FinalizeKeeps DEF Plans!Settle
<1>2. ASSUME NEW r \in Records, NEW day \in {0} \union Plans!Calendar, Plans!Retire(r, day)
      PROVE  PlansInv'
  <2>1. /\ ~people[r].retired /\ Plans!Free(Plans!Staff(r), "NO KEY UPDATE")
             /\ UNCHANGED <<closed, tx>>
    BY ONLY <1>2 DEF Plans!Retire
  <2>4. day \in Nat
    BY <1>0
  <2>2. CASE people' = [people EXCEPT ![r].retire = day] /\ UNCHANGED <<plan, told>>
    <3>1. PICK one : one = [people[r] EXCEPT !.retire = day]
      OBVIOUS
    <3>2. one \in PersonSet /\ one.retired = people[r].retired
      BY <2>4, <3>1, RowsTell DEF PersonSet
    <3>3. people' = [people EXCEPT ![r] = one]
      BY <2>2, <3>1
    <3>4. /\ people' \in [Records -> PersonSet] /\ people'[r] = one
          /\ \A x \in Records \ {r} : people'[x] = people[x]
      BY <3>2, <3>3, PlansTell
    <3>5. PICK R : R = {r}
      OBVIOUS
    <3>6. /\ R \in SUBSET Records
          /\ \A x \in R : ~people[x].retired /\ people'[x].retired = people[x].retired
                          /\ Plans!Free(Plans!Staff(x), "NO KEY UPDATE")
          /\ \A x \in Records \ R : people'[x] = people[x]
      BY <2>1, <3>2, <3>4, <3>5
    <3> QED
      BY <2>1, <2>2, <3>4, <3>6, PlansTell, NotedKeeps
  <2>3. CASE day # 0 /\ Plans!Finalize(r, day)
    BY <2>1, <2>3, <2>4, FinalizeKeeps
  <2> QED
    BY <1>2, <2>2, <2>3 DEF Plans!Retire
<1>3. ASSUME NEW day \in Plans!Calendar, Plans!Close(day)
      PROVE  PlansInv'
  <2>1. PICK R : R = {r \in Records : ~people[r].retired}
    OBVIOUS
  <2>2. /\ \A r \in R : Plans!Free(Plans!Staff(r), "NO KEY UPDATE") /\ ~people[r].retired
        /\ UNCHANGED <<plan, told, tx>> /\ closed' = TRUE
        /\ people' = [r \in Records |-> IF ~people[r].retired /\ people[r].retire \notin 1..day
                                        THEN [people[r] EXCEPT !.retire = day] ELSE people[r]]
    BY <1>3, <2>1 DEF Plans!Close
  <2>3. ASSUME NEW r \in Records
        PROVE  /\ people'[r] \in PersonSet /\ people'[r].retired = people[r].retired
               /\ people[r].retired => people'[r] = people[r]
    <3>1. PICK one : one = [people[r] EXCEPT !.retire = day]
      OBVIOUS
    <3>2. one \in PersonSet /\ one.retired = people[r].retired
      BY <1>0, <3>1, RowsTell DEF PersonSet
    <3>3. people'[r] = IF ~people[r].retired
            /\ people[r].retire \notin 1..day THEN one ELSE people[r]
      BY <2>2, <3>1
    <3> QED
      BY <3>2, <3>3, RowsTell
  <2>4. people' \in [Records -> PersonSet]
    <3>1. DOMAIN people' = Records /\ people' = [r \in Records |-> people'[r]]
      BY <2>2
    <3> QED
      BY <3>1, <2>3
  <2> QED
    BY <2>1, <2>2, <2>3, <2>4, NotedKeeps
<1> QED
  BY <1>1, <1>2, <1>3

-----------------------------------------------------------------------------
(* Shifts that are entered                                                 *)

\* Rows are taken in order: what is unused are the rows from some number on.
LEMMA UnusedAreLast ==
  ASSUME PlansInv
  PROVE  /\ Cardinality(Plans!Unused) \in Nat /\ Cardinality(Plans!Unused) <= MaxRows
         /\ \A i \in Nat : i > MaxRows - Cardinality(Plans!Unused) /\ i <= MaxRows =>
              i \in Plans!Unused
         /\ \A i \in Plans!Unused : i > MaxRows - Cardinality(Plans!Unused)
<1>1. Plans!Ids \in SUBSET Nat /\ IsFiniteSet(Plans!Ids)
        /\ Cardinality(Plans!Ids) = MaxRows /\ MaxRows \in Nat
  BY PlansConstants, FS_Interval DEF Plans!Ids
<1>2. /\ Plans!Unused \in SUBSET Plans!Ids /\ IsFiniteSet(Plans!Unused)
           /\ Plans!Unused \in SUBSET Nat
      /\ Cardinality(Plans!Unused) \in Nat
  <2>1. Plans!Unused \in SUBSET Plans!Ids
    BY DEF Plans!Unused
  <2> QED
    BY <1>1, <2>1, FS_Subset, FS_CardinalityType
<1>3. CASE Plans!Unused = {}
  <2>1. Cardinality(Plans!Unused) = 0
    BY ONLY <1>3, FS_EmptySet
  <2> QED
    BY ONLY <1>1, <1>2, <1>3, <2>1
<1>4. CASE Plans!Unused # {}
  <2>1. Cardinality(Plans!Unused) # 0
    BY ONLY <1>2, <1>4, FS_EmptySet
  <2>2. PICK r \in Plans!Unused : Rank(Plans!Unused, r) = 1
    BY ONLY <1>2, <2>1, RanksAreHit
  <2>3. \A x \in Plans!Unused : r <= x
    <3> SUFFICES ASSUME NEW x \in Plans!Unused, x < r
                 PROVE  FALSE
      <4>1. r \in Int /\ \A x \in Plans!Unused : x \in Int
        BY ONLY <1>2, r \in Plans!Unused
      <4>2. \A x \in Plans!Unused : x < r \/ r <= x
        BY ONLY <4>1
      <4> QED
        BY <4>2
    <3>1. PICK A, B : A = {y \in Plans!Unused : y <= x} /\ B = {y \in Plans!Unused : y <= r}
      OBVIOUS
    <3>2. x \in Int /\ r \in Int /\ \A y \in Plans!Unused : y \in Int
      BY ONLY <1>2, r \in Plans!Unused, x \in Plans!Unused
    <3>3. A \in SUBSET B /\ B \in SUBSET Plans!Unused
      <4>1. \A y \in Plans!Unused : y <= x => y <= r
        BY ONLY <3>2, x < r
      <4> QED
        BY ONLY <3>1, <4>1
    <3>4. IsFiniteSet(B) /\ Cardinality(A) <= Cardinality(B)
      BY ONLY <1>2, <3>3, FS_Subset
    <3>5. Rank(Plans!Unused, x) <= 1
      BY ONLY <2>2, <3>1, <3>4 DEF Rank
    <3>6. Rank(Plans!Unused, x) \in 1 .. Cardinality(Plans!Unused)
      BY ONLY <1>2, RanksAreHit, x \in Plans!Unused
    <3>7. Rank(Plans!Unused, x) = 1
      BY ONLY <1>2, <3>5, <3>6
    <3>8. x = r
      BY ONLY <1>2, <2>2, <3>7, RanksAreHit, x \in Plans!Unused
    <3> QED
      BY ONLY <3>2, <3>8, x < r
  <2>4. r \in Int /\ 1 <= r /\ r <= MaxRows
    BY <1>1, <1>2 DEF Plans!Ids
  <2>5. \A i \in Plans!Ids : r <= i => i \in Plans!Unused
    <3> SUFFICES ASSUME NEW i \in Plans!Ids, r < i
                 PROVE  i \in Plans!Unused
      <4>1. \A i \in Plans!Ids : i \in Int
        BY ONLY <1>1
      <4>2. \A i \in Plans!Ids : r <= i => r < i \/ i = r
        BY ONLY <2>4, <4>1
      <4> QED
        BY <4>2
    <3>1. r \in Plans!Ids /\ plan[r].state = "none"
      BY DEF Plans!Unused
    <3>2. \A a, b \in Plans!Ids : a < b /\ plan[a].state = "none" => plan[b].state = "none"
      BY ONLY PlansInv, RowsTell
    <3>3. plan[i].state = "none"
      BY ONLY <3>1, <3>2, r < i, i \in Plans!Ids, Zenon
    <3> QED
      BY ONLY <3>3, i \in Plans!Ids DEF Plans!Unused
  <2>6. Plans!Unused = r .. MaxRows
    <3>1. ASSUME NEW i \in Plans!Unused
          PROVE  i \in r .. MaxRows
      <4>1. i \in Plans!Ids /\ r <= i
        BY ONLY <1>2, <2>3, i \in Plans!Unused
      <4> QED
        BY ONLY <1>1, <2>4, <4>1 DEF Plans!Ids
    <3>2. ASSUME NEW i \in r .. MaxRows
          PROVE  i \in Plans!Unused
      <4>1. i \in Plans!Ids /\ r <= i
        BY ONLY <1>1, <2>4, i \in r .. MaxRows DEF Plans!Ids
      <4> QED
        BY ONLY <2>5, <4>1
    <3> QED
      BY ONLY <3>1, <3>2
  <2>7. Cardinality(Plans!Unused) = MaxRows - r + 1
    BY ONLY <1>1, <2>4, <2>6, FS_Interval
  <2> QED
    BY ONLY <1>1, <1>2, <2>4, <2>6, <2>7
<1> QED
  BY ONLY <1>3, <1>4

\* A finite set is listed without repetition.
LEMMA ListedOnce ==
  ASSUME NEW S, IsFiniteSet(S)
  PROVE  /\ Cardinality(S) \in Nat
         /\ Plans!SetToSeq(S) \in [1 .. Cardinality(S) -> S]
         /\ \A a, b \in 1 .. Cardinality(S) : Plans!SetToSeq(S)[a] = Plans!SetToSeq(S)[b] => a = b
         /\ \A c \in S : \E a \in 1 .. Cardinality(S) : Plans!SetToSeq(S)[a] = c
<1>1. Cardinality(S) \in Nat /\ ExistsBijection(1 .. Cardinality(S), S)
  BY FS_CardinalityType
<1>2. \E f \in [1 .. Cardinality(S) -> S] : Plans!IsInjective(f)
  BY <1>1 DEF ExistsBijection, Bijection, Injection, IsInjective, Plans!IsInjective
<1>3. Plans!SetToSeq(S) \in [1 .. Cardinality(S) -> S] /\ Plans!IsInjective(Plans!SetToSeq(S))
  BY <1>2 DEF Plans!SetToSeq, Plans!Cardinality, Cardinality
<1>4. \A a, b \in 1 .. Cardinality(S) : Plans!SetToSeq(S)[a] = Plans!SetToSeq(S)[b] => a = b
  BY <1>3 DEF Plans!IsInjective
<1>5. Plans!SetToSeq(S) \in Injection(1 .. Cardinality(S), S)
  BY <1>3 DEF Injection, IsInjective, Plans!IsInjective
<1>6. Cardinality(1 .. Cardinality(S)) = Cardinality(S)
  BY <1>1, FS_Interval
<1>7. Plans!SetToSeq(S) \in Surjection(1 .. Cardinality(S), S)
  BY <1>5, <1>6, FS_Injection
<1> QED
  BY <1>1, <1>3, <1>4, <1>7 DEF Surjection

\* What Enter writes.
LEMMA EnterTells ==
  ASSUME NEW S, NEW n, NEW first, NEW order, Plans!Enter(S), n = Cardinality(S),
         first = MaxRows - Cardinality(Plans!Unused), order = Plans!SetToSeq(S), Len(order) = n
  PROVE  /\ n <= Cardinality(Plans!Unused)
         /\ plan' = [i \in Plans!Ids |-> IF i \in first + 1 .. first + n
                                         THEN [of |-> order[i - first].of,
                                           shift |-> order[i - first].shift,
                                               state |-> "live"]
                                         ELSE plan[i]]
         /\ told' = [i \in Plans!Ids |-> IF i \in first + 1 .. first + n
                                         THEN order[i - first].shift
                                         ELSE told[i]]
<1> DEFINE N == first + 1 .. first + n
           new == [i \in N |-> order[i - first]]
<1>1. DOMAIN new = N /\ \A i \in N : new[i] = order[i - first]
  OBVIOUS
<1>2. /\ n <= Cardinality(Plans!Unused)
      /\ plan' = [i \in Plans!Ids |-> IF i \in DOMAIN new
                                      THEN [of |-> new[i].of, shift |-> new[i].shift,
                                        state |-> "live"]
                                      ELSE plan[i]]
      /\ told' = [i \in Plans!Ids |-> IF i \in DOMAIN new THEN new[i].shift ELSE told[i]]
  BY DEF Plans!Enter, Plans!Cardinality, Cardinality
<1> HIDE DEF new, N
<1>3. plan' = [i \in Plans!Ids |-> IF i \in N
                                   THEN [of |-> order[i - first].of,
                                     shift |-> order[i - first].shift,
                                         state |-> "live"]
                                   ELSE plan[i]]
  BY ONLY <1>1, <1>2
<1>4. told' = [i \in Plans!Ids |-> IF i \in N THEN order[i - first].shift ELSE told[i]]
  BY ONLY <1>1, <1>2
<1> QED
  BY ONLY <1>2, <1>3, <1>4 DEF N

\* The rows N are new, each for another one of the shifts; N begins where rows are unused.
LEMMA EnteredRows ==
  ASSUME PlansInv, NEW S \in SUBSET CopySet, IsFiniteSet(S), Plans!Enter(S)
  PROVE  \E N \in SUBSET Plans!Ids : \E g :
           /\ \A i \in N : /\ g[i] \in S /\ plan[i].state = "none" /\ told'[i] = g[i].shift
                           /\ plan'[i] = [of |-> g[i].of, shift |-> g[i].shift, state |-> "live"]
           /\ \A i, j \in N : g[i] = g[j] => i = j
           /\ \A i \in Plans!Ids \ N : RowKept(i)
           /\ \A i, j \in Plans!Ids : i < j /\ plan'[i].state = "none" => plan'[j].state = "none"
           /\ plan' \in [Plans!Ids -> PlanRows] /\ told' \in [Plans!Ids -> ShiftSet]
<1>1. PICK n, u, first, order :
         n = Cardinality(S) /\ u = Cardinality(Plans!Unused) /\ first = MaxRows - u
           /\ order = Plans!SetToSeq(S)
  OBVIOUS
<1>2. /\ n \in Nat /\ order \in [1 .. n -> S] /\ Len(order) = n
      /\ \A a, b \in 1 .. n : order[a] = order[b] => a = b
  BY <1>1, ListedOnce
<1>3. /\ u \in Nat /\ u <= MaxRows
      /\ \A i \in Nat : i > first /\ i <= MaxRows => i \in Plans!Unused
      /\ \A i \in Plans!Unused : i > first
  BY <1>1, UnusedAreLast
<1>4. PICK N : N = first + 1 .. first + n
  OBVIOUS
<1>5. /\ n <= u
      /\ plan' = [i \in Plans!Ids |-> IF i \in N
                                      THEN [of |-> order[i - first].of,
                                        shift |-> order[i - first].shift,
                                            state |-> "live"]
                                      ELSE plan[i]]
      /\ told' = [i \in Plans!Ids |-> IF i \in N THEN order[i - first].shift ELSE told[i]]
  <2>1. Len(order) = n
    BY <1>2
  <2> QED
    BY <1>1, <1>4, <2>1, EnterTells
<1>6. MaxRows \in Nat /\ first \in Int
  BY <1>1, <1>3, PlansConstants
<1>7. ASSUME NEW i \in N
      PROVE  i \in Plans!Ids /\ i \in Plans!Unused /\ i - first \in 1 .. n
  <2>1. i \in Int /\ i > first /\ i <= MaxRows /\ i >= 1 /\ i - first \in 1 .. n
    <3>1. i \in Int /\ first + 1 <= i /\ i <= first + n
      BY ONLY <1>2, <1>4, <1>6, i \in N
    <3>2. n <= u /\ first = MaxRows - u /\ u <= MaxRows /\ u \in Nat /\ n \in Nat
      BY ONLY <1>1, <1>2, <1>3, <1>5
    <3> QED
      BY ONLY <3>1, <3>2, <1>6
  <2>2. i \in Plans!Unused
    BY ONLY <1>3, <2>1
  <2> QED
    BY ONLY <2>1, <2>2, <1>6 DEF Plans!Ids
<1>8. PICK g : g = [i \in N |-> order[i - first]]
  OBVIOUS
<1>9. /\ N \in SUBSET Plans!Ids
      /\ \A i \in N : /\ g[i] \in S /\ plan[i].state = "none" /\ told'[i] = g[i].shift
                      /\ plan'[i] = [of |-> g[i].of, shift |-> g[i].shift, state |-> "live"]
  <2>1. N \in SUBSET Plans!Ids
    BY ONLY <1>7
  <2>5. ASSUME NEW i \in N
        PROVE  /\ g[i] \in S /\ plan[i].state = "none" /\ told'[i] = g[i].shift
               /\ plan'[i] = [of |-> g[i].of, shift |-> g[i].shift, state |-> "live"]
    <3>2. g[i] = order[i - first] /\ i - first \in 1 .. n /\ i \in Plans!Ids /\ i \in Plans!Unused
      BY ONLY <1>7, <1>8, i \in N
    <3>3. g[i] \in S
      BY ONLY <1>2, <3>2
    <3>4. plan[i].state = "none"
      BY ONLY <3>2 DEF Plans!Unused
    <3> QED
      BY ONLY <1>5, <3>2, <3>3, <3>4, i \in N
  <2> QED
    BY ONLY <2>1, <2>5
<1>10. \A i, j \in N : g[i] = g[j] => i = j
  <2> SUFFICES ASSUME NEW i \in N, NEW j \in N, g[i] = g[j]
               PROVE  i = j
    OBVIOUS
  <2>1. i - first \in 1 .. n /\ j - first \in 1 .. n /\ i \in Int /\ j \in Int
    BY ONLY <1>4, <1>6, <1>7, i \in N, j \in N
  <2>2. i - first = j - first
    BY ONLY <1>2, <1>8, <2>1, g[i] = g[j], i \in N, j \in N
  <2> QED
    BY ONLY <1>6, <2>1, <2>2
<1>11. \A i \in Plans!Ids \ N : RowKept(i)
  BY ONLY <1>5 DEF RowKept
<1>12. \A i, j \in Plans!Ids : i < j /\ plan'[i].state = "none" => plan'[j].state = "none"
  <2> SUFFICES ASSUME NEW i \in Plans!Ids, NEW j \in Plans!Ids, i < j, plan'[i].state = "none"
               PROVE  plan'[j].state = "none"
    OBVIOUS
  <2>1. i \notin N
    <3>1. \A a \in N : plan'[a].state = "live"
      <4> SUFFICES ASSUME NEW a \in N
                   PROVE  plan'[a].state = "live"
        OBVIOUS
      <4>1. plan'[a] = [of |-> g[a].of, shift |-> g[a].shift, state |-> "live"]
        BY ONLY <1>9, a \in N
      <4> QED
        BY ONLY <4>1
    <3> QED
      BY ONLY <3>1, plan'[i].state = "none"
  <2>2. plan[i].state = "none"
    BY ONLY <1>11, <2>1, plan'[i].state = "none", i \in Plans!Ids DEF RowKept
  <2>3. \A a, b \in Plans!Ids : a < b /\ plan[a].state = "none" => plan[b].state = "none"
    BY ONLY PlansInv, RowsTell
  <2>4. plan[j].state = "none"
    BY ONLY <2>2, <2>3, i < j, i \in Plans!Ids, j \in Plans!Ids, Zenon
  <2>5. j \notin N
    <3>1. i \in Plans!Unused /\ i \in Int /\ j \in Int
      BY ONLY <2>2, <1>6, i \in Plans!Ids, j \in Plans!Ids DEF Plans!Unused, Plans!Ids
    <3>2. i > first
      BY ONLY <1>3, <3>1
    <3>3. ~(i <= first + n)
      BY ONLY <1>2, <1>4, <1>6, <2>1, <3>1, <3>2
    <3> QED
      BY ONLY <1>2, <1>4, <1>6, <3>1, <3>3, i < j
  <2> QED
    BY ONLY <1>11, <2>4, <2>5, j \in Plans!Ids DEF RowKept
<1>13. plan' \in [Plans!Ids -> PlanRows] /\ told' \in [Plans!Ids -> ShiftSet]
  <2>1. \A i \in Plans!Ids : plan'[i] \in PlanRows /\ told'[i] \in ShiftSet
    <3> SUFFICES ASSUME NEW i \in Plans!Ids
                 PROVE  plan'[i] \in PlanRows /\ told'[i] \in ShiftSet
      OBVIOUS
    <3>1. CASE i \in N
      <4>1. PICK c \in CopySet : c = g[i]
        BY ONLY <1>9, <3>1, S \in SUBSET CopySet
      <4>2. c.of \in Nat /\ c.shift \in ShiftSet
        BY ONLY <4>1, PlansConstants DEF CopySet
      <4> QED
        <5>1. /\ plan'[i] = [of |-> c.of, shift |-> c.shift, state |-> "live"]
              /\ told'[i] = c.shift
          BY ONLY <1>9, <3>1, <4>1
        <5> QED
          BY ONLY <4>2, <5>1 DEF PlanRows
    <3>2. CASE i \notin N
      BY ONLY <1>11, <3>2, i \in Plans!Ids, PlansInv, RowsTell DEF RowKept
    <3> QED
      BY ONLY <3>1, <3>2
  <2>2. DOMAIN plan' = Plans!Ids /\ DOMAIN told' = Plans!Ids
    BY ONLY <1>5
  <2>3. plan' = [i \in Plans!Ids |-> plan'[i]] /\ told' = [i \in Plans!Ids |-> told'[i]]
    BY ONLY <1>5, <2>2
  <2> QED
    BY ONLY <2>1, <2>3
<1> QED
  BY ONLY <1>9, <1>10, <1>11, <1>12, <1>13

\* A row that is locked is used.
LEMMA LockedRowsAreUsed ==
  ASSUME PlansInv, NEW p \in Requests, NEW i \in Plans!Ids, RowLock(i) \in tx[p].held
  PROVE  plan[i].state # "none"
<1>1. PICK t : t = tx[p]
  OBVIOUS
<1>2. t \in PlanRequests /\ InTurn(t) /\ Relies(t) /\ RowLock(i) \in t.held
  BY <1>1, PlansTell
<1>3. /\ \A s, m : RowLock(i) # WeekLock(s, m)
      /\ \A r : RowLock(i) # StaffLock(r)
      /\ \A j : RowLock(i) = RowLock(j) => i = j
  <2>1. /\ \A j : RowLock(j).row = Plans!Row(j)
        /\ \A s, m : WeekLock(s, m).row = Plans!Week(Plans!WeekOf(s.day))
        /\ \A r : StaffLock(r).row = Plans!Staff(r)
    BY ONLY PlanLocksTell DEF RowLock, WeekLock, StaffLock
  <2> QED
    BY ONLY <2>1, PlanLocksTell
<1>4. t.job \in PlanJobs
  BY ONLY <1>2, RequestTells
<1>5. CASE t.job = "create"
  <2>1. PICK x, y : x = WeekLock(t.shift, "SHARED") /\ y = StaffLock(t.of)
    OBVIOUS
  <2>2. Takes2(t, x, y)
    BY ONLY <1>2, <1>5, <2>1 DEF InTurn
  <2> QED
    BY ONLY <1>2, <1>3, <2>1, <2>2 DEF Takes2
<1>6. CASE t.job \in {"update", "remove"}
  <2>1. PICK x, y, z : x = WeekLock(t.shift, "SHARED") /\ y = StaffLock(t.of) /\ z = RowLock(t.id)
    OBVIOUS
  <2>2. Takes3(t, x, y, z) \/ Takes2(t, y, z)
    BY ONLY <1>2, <1>6, <2>1 DEF InTurn
  <2>3. RowLock(i) = z
    BY ONLY <1>2, <1>3, <2>1, <2>2 DEF Takes3, Takes2
  <2> QED
    BY ONLY <1>2, <1>3, <1>6, <2>1, <2>3 DEF Relies, UpdateFits, RowKnown
<1>7. CASE t.job \in {"purge", "purgeRow"}
  <2>1. PICK z : z = RowLock(t.id)
    OBVIOUS
  <2>2. t.held = {} \/ t.held = {z}
    BY ONLY <1>2, <1>7, <2>1 DEF InTurn, Takes1
  <2> QED
    BY ONLY <1>2, <1>3, <1>7, <2>1, <2>2 DEF Relies, PurgeFits
<1>8. CASE t.job = "idle"
  BY ONLY <1>2, <1>8 DEF InTurn
<1>9. CASE t.job = "copy"
  <2>1. PICK x : x = WeekLock(t.shift, "EXCLUSIVE")
    OBVIOUS
  <2>2. t.held \subseteq StaffLocks \union {x}
    BY ONLY <1>2, <1>9, <2>1 DEF InTurn, TakesCopies
  <2> QED
    BY ONLY <1>2, <1>3, <2>1, <2>2 DEF StaffLocks
<1> QED
  BY ONLY <1>4, <1>5, <1>6, <1>7, <1>8, <1>9 DEF PlanJobs

\* Shifts entered by whoever holds the records and the week, and checked them.
LEMMA EnterKeeps ==
  ASSUME PlansInv, NEW q \in Requests, tx[q].job # "purgeRow", Plans!Answer(q),
         UNCHANGED <<people, closed>>,
         NEW S \in SUBSET CopySet, IsFiniteSet(S), Plans!Enter(S),
         \A c \in S : /\ Plans!MayWork(c.of, c.shift.day) /\ ~Plans!Overlaps(c.of, c.shift, 0)
                      /\ StaffLock(c.of) \in tx[q].held
                      /\ \E m \in {"SHARED", "EXCLUSIVE"} : WeekLock(c.shift, m) \in tx[q].held,
         \A c, d \in S : c # d /\ c.of = d.of => KeptApart(c.shift, d.shift)
  PROVE  PlansInv'
<1>1. PICK N \in SUBSET Plans!Ids : \E g :
           /\ \A i \in N : /\ g[i] \in S /\ plan[i].state = "none" /\ told'[i] = g[i].shift
                           /\ plan'[i] = [of |-> g[i].of, shift |-> g[i].shift, state |-> "live"]
           /\ \A i, j \in N : g[i] = g[j] => i = j
           /\ \A i \in Plans!Ids \ N : RowKept(i)
           /\ \A i, j \in Plans!Ids : i < j /\ plan'[i].state = "none" => plan'[j].state = "none"
           /\ plan' \in [Plans!Ids -> PlanRows] /\ told' \in [Plans!Ids -> ShiftSet]
  BY EnteredRows
<1>0. PICK g :
           /\ \A i \in N : /\ g[i] \in S /\ plan[i].state = "none" /\ told'[i] = g[i].shift
                           /\ plan'[i] = [of |-> g[i].of, shift |-> g[i].shift, state |-> "live"]
           /\ \A i, j \in N : g[i] = g[j] => i = j
           /\ \A i \in Plans!Ids \ N : RowKept(i)
           /\ \A i, j \in Plans!Ids : i < j /\ plan'[i].state = "none" => plan'[j].state = "none"
           /\ plan' \in [Plans!Ids -> PlanRows] /\ told' \in [Plans!Ids -> ShiftSet]
  BY ONLY <1>1
<1>2. /\ \A i \in N : plan'[i].of = g[i].of /\ plan'[i].shift = g[i].shift
           /\ plan'[i].state = "live"
      /\ \A i \in Plans!Ids \ N : plan'[i] = plan[i]
  <2>1. ASSUME NEW i \in N
        PROVE  plan'[i].of = g[i].of /\ plan'[i].shift = g[i].shift /\ plan'[i].state = "live"
    <3>1. plan'[i] = [of |-> g[i].of, shift |-> g[i].shift, state |-> "live"]
      BY ONLY <1>0, i \in N
    <3> QED
      BY ONLY <3>1
  <2>2. \A i \in Plans!Ids \ N : plan'[i] = plan[i]
    BY ONLY <1>0 DEF RowKept
  <2> QED
    BY ONLY <2>1, <2>2
<1>12. \A i \in N : g[i] \in S /\ plan[i].state = "none"
  BY ONLY <1>0
<1>3. \A c \in S : /\ c.of \in Records /\ c.shift \in ShiftSet
                   /\ people[c.of].retire # 0 => c.shift.day <= people[c.of].retire
  BY DEF CopySet, Plans!MayWork
<1>4. /\ \A i \in Plans!Ids : plan[i].state = "live" =>
           /\ plan[i].of \in Records
           /\ people[plan[i].of].retired => plan[i].shift.day <= people[plan[i].of].retire
      /\ \A i, j \in Plans!Ids : /\ i # j /\ plan[i].state = "live" /\ plan[j].state = "live"
                                 /\ plan[i].of = plan[j].of
                                 => KeptApart(plan[i].shift, plan[j].shift)
      /\ \A r \in Records : people[r].retired => people[r].retire # 0
  BY ONLY PlansInv, RowsTell
<1>5. \A c \in S, i \in Plans!Ids : plan[i].state = "live" /\ plan[i].of = c.of =>
         KeptApart(plan[i].shift, c.shift) /\ KeptApart(c.shift, plan[i].shift)
  <2> SUFFICES ASSUME NEW c \in S, NEW i \in Plans!Ids, plan[i].state = "live", plan[i].of = c.of
               PROVE  Plans!Busy(plan[i].shift) \cap Plans!Busy(c.shift) = {}
    BY DEF KeptApart
  <2>1. i \in Plans!Ids \ {0}
    BY PlansConstants DEF Plans!Ids
  <2>2. ~Plans!Overlaps(c.of, c.shift, 0)
    OBVIOUS
  <2> QED
    BY ONLY <2>1, <2>2, plan[i].state = "live", plan[i].of = c.of DEF Plans!Overlaps,
       Plans!Live
<1>6. RowsGoOn
  BY ONLY <1>0, <1>2 DEF RowsGoOn
<1>7. \A i \in Plans!Ids : plan'[i].state = "live" =>
           /\ plan'[i].of \in Records
           /\ people'[plan'[i].of].retired => plan'[i].shift.day <= people'[plan'[i].of].retire
  <2> SUFFICES ASSUME NEW i \in Plans!Ids, plan'[i].state = "live"
               PROVE  /\ plan'[i].of \in Records
                      /\ people'[plan'[i].of].retired =>
                           plan'[i].shift.day <= people'[plan'[i].of].retire
    OBVIOUS
  <2>1. people' = people
    OBVIOUS
  <2>2. CASE i \in N
    <3>1. PICK c \in S : c = g[i]
      BY ONLY <1>12, <2>2
    <3>2. plan'[i].of = c.of /\ plan'[i].shift = c.shift
      BY ONLY <1>2, <2>2, <3>1
    <3>3. c.of \in Records /\ (people[c.of].retired => c.shift.day <= people[c.of].retire)
      BY ONLY <1>3, <1>4, c \in S
    <3> QED
      BY ONLY <2>1, <3>2, <3>3
  <2>3. CASE i \notin N
    BY ONLY <1>2, <1>4, <2>1, <2>3, i \in Plans!Ids, plan'[i].state = "live"
  <2> QED
    BY ONLY <2>2, <2>3
<1>8. \A i, j \in Plans!Ids : /\ i # j /\ plan'[i].state = "live" /\ plan'[j].state = "live"
                              /\ plan'[i].of = plan'[j].of
                              => KeptApart(plan'[i].shift, plan'[j].shift)
  <2> SUFFICES ASSUME NEW i \in Plans!Ids, NEW j \in Plans!Ids, i # j, plan'[i].state = "live",
                      plan'[j].state = "live", plan'[i].of = plan'[j].of
               PROVE  KeptApart(plan'[i].shift, plan'[j].shift)
    OBVIOUS
  <2>1. CASE i \in N /\ j \in N
    <3>1. g[i] # g[j] /\ g[i].of = g[j].of /\ g[i] \in S /\ g[j] \in S
      BY ONLY <1>0, <1>2, <2>1, i # j, plan'[i].of = plan'[j].of
    <3>2. KeptApart(g[i].shift, g[j].shift)
      BY ONLY <3>1, \A c, d \in S : c # d /\ c.of = d.of => KeptApart(c.shift, d.shift)
    <3> QED
      BY ONLY <1>2, <2>1, <3>2
  <2>2. CASE i \in N /\ j \notin N
    <3>1. PICK c \in S : c = g[i]
      BY ONLY <1>12, <2>2
    <3>2. plan'[i].of = c.of /\ plan'[i].shift = c.shift /\ plan'[j] = plan[j]
      BY ONLY <1>2, <2>2, <3>1, j \in Plans!Ids
    <3> QED
      BY ONLY <1>5, <3>2, c \in S, j \in Plans!Ids, plan'[j].state = "live", plan'[i].of =
         plan'[j].of
  <2>3. CASE i \notin N /\ j \in N
    <3>1. PICK c \in S : c = g[j]
      BY ONLY <1>12, <2>3
    <3>2. plan'[j].of = c.of /\ plan'[j].shift = c.shift /\ plan'[i] = plan[i]
      BY ONLY <1>2, <2>3, <3>1, i \in Plans!Ids
    <3> QED
      BY ONLY <1>5, <3>2, c \in S, i \in Plans!Ids, plan'[i].state = "live", plan'[i].of =
         plan'[j].of
  <2>4. CASE i \notin N /\ j \notin N
    BY ONLY <1>2, <1>4, <2>4, i \in Plans!Ids, j \in Plans!Ids, i # j, plan'[i].state =
       "live", plan'[j].state = "live", plan'[i].of = plan'[j].of
  <2> QED
    BY ONLY <2>1, <2>2, <2>3, <2>4
<1>9. RowsFit'
  <2>1. \A r \in Records : people'[r].retired => people'[r].retire # 0
    BY <1>4
  <2> QED
    BY ONLY <1>0, <1>7, <1>8, <2>1, RowsFitAgain
<1>10. ASSUME NEW p \in Requests \ {q}
       PROVE  LeavesAlone(tx[p])
  <2>1. ASSUME NEW r \in Records, StaffLock(r) \in tx[p].held
        PROVE  RecordKept(r)
    <3>1. \A c \in S : c.of # r
      BY <2>1, HeldAlone
    <3>2. \A i \in Plans!Ids : plan'[i].state = "live" /\ plan'[i].of = r => plan'[i] = plan[i]
      <4> SUFFICES ASSUME NEW i \in Plans!Ids, plan'[i].of = r
                   PROVE  plan'[i] = plan[i]
        OBVIOUS
      <4>1. i \notin N
        BY ONLY <1>2, <1>12, <3>1, plan'[i].of = r
      <4> QED
        BY ONLY <1>2, <4>1, i \in Plans!Ids
    <3> QED
      BY <3>2 DEF RecordKept
  <2>2. ASSUME NEW i \in Plans!Ids, RowLock(i) \in tx[p].held
        PROVE  RowKept(i)
    <3>1. i \notin N
      <4>1. plan[i].state # "none"
        BY <2>2, LockedRowsAreUsed
      <4> QED
        BY ONLY <1>0, <4>1
    <3> QED
      BY ONLY <1>0, <3>1, i \in Plans!Ids
  <2>3. ASSUME NEW w, Plans!Lock(Plans!Week(w), "EXCLUSIVE") \in tx[p].held
        PROVE  WeekKept(w)
    <3>1. \A c \in S : Plans!WeekOf(c.shift.day) # w
      <4> SUFFICES ASSUME NEW c \in S, Plans!WeekOf(c.shift.day) = w
                   PROVE  FALSE
        OBVIOUS
      <4>1. PICK m \in {"SHARED", "EXCLUSIVE"} : Plans!Lock(Plans!Week(w), m) \in tx[q].held
        BY DEF WeekLock
      <4> QED
        BY <2>3, <4>1, HeldAlone
    <3> QED
      <4> SUFFICES ASSUME NEW i \in Plans!Ids, plan'[i].state = "live",
                          Plans!WeekOf(plan'[i].shift.day) = w
                   PROVE  plan[i].state = "live" /\ Plans!WeekOf(plan[i].shift.day) = w
        BY DEF WeekKept
      <4>1. i \notin N
        BY ONLY <1>2, <1>12, <3>1, Plans!WeekOf(plan'[i].shift.day) = w
      <4>2. plan'[i] = plan[i]
        BY ONLY <1>2, <4>1, i \in Plans!Ids
      <4> QED
        BY ONLY <4>2, plan'[i].state = "live", Plans!WeekOf(plan'[i].shift.day) = w
  <2> QED
    BY ONLY <2>1, <2>2, <2>3 DEF LeavesAlone
<1>11. \A i \in Plans!Ids : plan'[i].state = "live" =>
           \/ told'[i] = plan'[i].shift
           \/ RowKept(i) /\ (tx[q].job = "purgeRow" => tx[q].id # i)
  <2> SUFFICES ASSUME NEW i \in Plans!Ids
               PROVE  told'[i] = plan'[i].shift \/ RowKept(i)
    OBVIOUS
  <2> QED
    BY ONLY <1>0, <1>2, i \in Plans!Ids
<1> QED
  BY <1>0, <1>6, <1>9, <1>10, <1>11, AnswerKeeps

LEMMA CreateKeeps ==
  ASSUME PlansInv, NEW q \in Requests, Plans!FinishCreate(q)
  PROVE  PlansInv'
<1>1. PICK t, c : t = tx[q] /\ c = [of |-> t.of, shift |-> t.shift]
  OBVIOUS
<1>2. PICK S : S = {c}
  OBVIOUS
<1>3. /\ t.job = "create" /\ t.want = <<>> /\ Plans!Enter(S) /\ Plans!Answer(q)
           /\ UNCHANGED <<people, closed>>
  BY <1>1, <1>2 DEF Plans!FinishCreate, Plans!Finishing
<1>4. t \in PlanRequests /\ InTurn(t) /\ Relies(t)
  BY <1>1, PlansTell
<1>5. CreateFits(t) /\ {WeekLock(t.shift, "SHARED"), StaffLock(t.of)} \subseteq t.held
  BY <1>3, <1>4, HeldAtTheEnd DEF Relies
<1>6. t.of \in Records /\ t.shift \in ShiftSet /\ Plans!MayWork(t.of, t.shift.day)
      /\ ~Plans!Overlaps(t.of, t.shift, 0)
  <2>1. t.shift \in ShiftSet
    BY ONLY <1>4, RequestTells
  <2> QED
    BY ONLY <1>3, <1>5, <2>1 DEF CreateFits
<1>7. c \in CopySet /\ c.of = t.of /\ c.shift = t.shift
  BY ONLY <1>1, <1>6 DEF CopySet
<1>8. S \in SUBSET CopySet /\ IsFiniteSet(S)
  BY <1>2, <1>7, FS_Singleton
<1>9. ASSUME NEW d \in S
      PROVE  /\ Plans!MayWork(d.of, d.shift.day) /\ ~Plans!Overlaps(d.of, d.shift, 0)
             /\ StaffLock(d.of) \in tx[q].held
             /\ \E m \in {"SHARED", "EXCLUSIVE"} : WeekLock(d.shift, m) \in tx[q].held
  BY ONLY <1>1, <1>2, <1>5, <1>6, <1>7, d \in S
<1>10. \A d, e \in S : d # e /\ d.of = e.of => KeptApart(d.shift, e.shift)
  BY ONLY <1>2
<1> QED
  BY <1>1, <1>3, <1>8, <1>9, <1>10, EnterKeeps

LEMMA CopyKeeps ==
  ASSUME PlansInv, NEW q \in Requests, Plans!FinishCopy(q)
  PROVE  PlansInv'
<1>1. PICK t, S : t = tx[q] /\ S = Plans!Copied(q)
  OBVIOUS
<1>2. /\ t.job = "copy" /\ t.want = <<>> /\ Plans!Enter(S) /\ Plans!Answer(q)
           /\ UNCHANGED <<people, closed>>
  BY <1>1 DEF Plans!FinishCopy, Plans!Finishing
<1>3. t \in PlanRequests /\ InTurn(t) /\ Relies(t)
  BY <1>1, PlansTell
<1>4. /\ CopyFits(t) /\ WeekLock(t.shift, "EXCLUSIVE") \in t.held
      /\ \A c \in t.copies : StaffLock(c.of) \in t.held
  BY <1>2, <1>3, HeldAtTheEnd DEF Relies
<1>5. /\ S \in SUBSET t.copies
      /\ \A c \in S : Plans!MayWork(c.of, c.shift.day) /\ ~Plans!Overlaps(c.of, c.shift, 0)
  BY <1>1 DEF Plans!Copied
<1>6. t.copies \in SUBSET CopySet
  BY ONLY <1>3, RequestTells
<1>7. S \in SUBSET CopySet /\ IsFiniteSet(S)
  BY ONLY <1>4, <1>5, <1>6, FS_Subset DEF CopyFits
<1>8. ASSUME NEW c \in S
      PROVE  /\ Plans!MayWork(c.of, c.shift.day) /\ ~Plans!Overlaps(c.of, c.shift, 0)
             /\ StaffLock(c.of) \in tx[q].held
             /\ \E m \in {"SHARED", "EXCLUSIVE"} : WeekLock(c.shift, m) \in tx[q].held
  <2>1. Plans!WeekOf(c.shift.day) = Plans!WeekOf(t.shift.day)
    BY ONLY <1>4, <1>5, c \in S DEF CopyFits
  <2>2. WeekLock(c.shift, "EXCLUSIVE") \in t.held
    BY ONLY <1>4, <2>1 DEF WeekLock
  <2> QED
    BY ONLY <1>1, <1>4, <1>5, <2>2, c \in S
<1>9. \A c, d \in S : c # d /\ c.of = d.of => KeptApart(c.shift, d.shift)
  BY ONLY <1>4, <1>5 DEF CopyFits
<1> QED
  BY <1>1, <1>2, <1>7, <1>8, <1>9, EnterKeeps

-----------------------------------------------------------------------------
LEMMA PlansInit ==
  ASSUME Plans!Init
  PROVE  PlansInv
<1>1. /\ tx = [q \in Requests |-> Plans!Idle] /\ closed = FALSE
      /\ plan = [i \in Plans!Ids |-> Plans!NoRow] /\ told = [i \in Plans!Ids |-> Plans!NoShift]
      /\ people \in [Records -> [retire : {0}, retired : {FALSE}, until : {WeekDays,
           Weeks * WeekDays}]]
  BY DEF Plans!Init
<1>2. Plans!NoRow \in PlanRows /\ Plans!NoRow.state = "none" /\ Plans!NoShift \in ShiftSet
  BY IdleTells DEF Plans!NoRow, PlanRows
<1>3. \A i \in Plans!Ids : plan[i] = Plans!NoRow /\ told[i] = Plans!NoShift
        /\ plan[i].state = "none"
  BY <1>1, <1>2
<1>4. \A r \in Records : people[r] \in PersonSet /\ people[r].retired = FALSE
  <2>1. /\ 0 \in Nat /\ WeekDays \in Nat /\ Weeks * WeekDays \in Nat
    BY PlansConstants
  <2> SUFFICES ASSUME NEW r \in Records
               PROVE  people[r] \in PersonSet /\ people[r].retired = FALSE
    OBVIOUS
  <2>2. people[r] \in [retire : {0}, retired : {FALSE}, until : {WeekDays, Weeks * WeekDays}]
    BY <1>1
  <2> QED
    BY ONLY <2>1, <2>2 DEF PersonSet
<1>5. PlansTyped
  <2>1. people \in [Records -> PersonSet]
    BY ONLY <1>1, <1>4
  <2> QED
    BY ONLY <1>1, <1>2, <2>1, IdleTells DEF PlansTyped
<1>6. RowsFit
  BY <1>3, <1>4 DEF RowsFit, Plans!Live
<1>7. HistoryFits
  BY <1>3 DEF HistoryFits, Plans!Live
<1>8. \A q \in Requests : tx[q] = Plans!Idle
  BY <1>1
<1>9. LocksApart
  BY ONLY <1>8, IdleTells DEF LocksApart
<1>10. \A q \in Requests : InTurn(tx[q]) /\ Relies(tx[q])
  BY ONLY <1>8, IdleTells
<1> QED
  BY ONLY <1>5, <1>6, <1>7, <1>9, <1>10 DEF PlansInv

LEMMA PlansNext ==
  ASSUME PlansInv, [Plans!Next]_plansSide
  PROVE  PlansInv'
<1>1. CASE UNCHANGED plansSide
  <2>1. UNCHANGED <<people, closed, plan, told, tx>>
    BY <1>1 DEF plansSide, Plans!tables
  <2>2. people' \in [Records -> PersonSet] /\ closed' \in BOOLEAN
    BY <2>1, PlansTell
  <2>3. PICK R : R = {}
    OBVIOUS
  <2>4. /\ R \in SUBSET Records /\ UNCHANGED <<plan, told, tx>>
        /\ \A r \in R : ~people[r].retired /\ people'[r].retired = people[r].retired
                        /\ Plans!Free(Plans!Staff(r), "NO KEY UPDATE")
        /\ \A r \in Records \ R : people'[r] = people[r]
    BY ONLY <2>1, <2>3
  <2> QED
    BY <2>2, <2>4, NotedKeeps
<1>2. ASSUME NEW q \in Requests, Plans!Steps(q)
      PROVE  PlansInv'
  BY <1>2, StartSteps, AcquireKeeps, CreateKeeps, UpdateKeeps, RemoveKeeps, CopyKeeps,
     PurgeHistoryKeeps, PurgeRowKeeps DEF Plans!Steps
<1>3. CASE \/ \E r \in Records : Plans!Settle(r)
           \/ \E r \in Records, day \in {0} \union Plans!Calendar : Plans!Retire(r, day)
           \/ \E day \in Plans!Calendar : Plans!Close(day)
  BY <1>3, LeavingKeeps
<1> QED
  BY <1>1, <1>2, <1>3 DEF Plans!Next

\* The plan holds and the history is a chain.
LEMMA PlansPromise ==
  ASSUME PlansInv
  PROVE  Plans!PlansHold /\ Plans!HistoryIsAChain
<1>1. /\ \A i, j \in Plans!Ids : /\ i # j /\ plan[i].state = "live" /\ plan[j].state = "live"
                                 /\ plan[i].of = plan[j].of
                                 => KeptApart(plan[i].shift, plan[j].shift)
      /\ \A i \in Plans!Ids : plan[i].state = "live" /\ people[plan[i].of].retired
                         => plan[i].shift.day <= people[plan[i].of].retire
  BY RowsTell
<1>2. Plans!PlanHolds
  BY ONLY <1>1 DEF Plans!PlanHolds, Plans!Live, Plans!Overlaps, KeptApart
<1>3. Plans!CopiesIntoEmptyWeeks
  BY PlansTell DEF Plans!CopiesIntoEmptyWeeks, Relies, CopyFits
<1>4. ASSUME NEW q \in Requests, tx[q].job \in {"update", "remove"}, tx[q].want = <<>>
      PROVE  tx[q].found = plan[tx[q].id].shift /\ tx[q].found = told[tx[q].id]
  <2>1. PICK t : t = tx[q]
    OBVIOUS
  <2>2. InTurn(t) /\ RowKnown(t) /\ t.want = <<>> /\ t.job \in {"update", "remove"}
    BY <1>4, <2>1, PlansTell DEF Relies, UpdateFits
  <2>3. RowLock(t.id) \in t.held /\ Plans!Live(t.id) /\ t.found = plan[t.id].shift
          /\ t.id \in Plans!Ids
    BY <2>2, HeldAtTheEnd DEF RowKnown
  <2>4. ASSUME NEW p \in Requests, tx[p].job = "purgeRow", tx[p].id = t.id
        PROVE  FALSE
    <3>1. RowLock(t.id) \in tx[p].held
      BY <2>4, PlansTell DEF InTurn
    <3>2. p # q
      BY <2>1, <2>2, <2>4
    <3> QED
      BY <2>1, <2>3, <3>1, <3>2, HeldAlone
  <2>5. told[t.id] = plan[t.id].shift
    BY <2>3, <2>4, PlansTell DEF HistoryFits
  <2> QED
    BY <2>1, <2>3, <2>5
<1>5. ASSUME NEW q \in Requests, tx[q].job = "purgeRow"
      PROVE  told[tx[q].id] = Plans!NoShift
  BY <1>5, PlansTell DEF Relies
<1> QED
  BY <1>2, <1>3, <1>4, <1>5 DEF Plans!PlansHold, Plans!HistoryIsAChain

\* PlansInv holds at every step of entering, moving, removing and copying shifts, of
\* leaving, of closing and of the purge.
THEOREM PlansInvariant == PartsSpec => []PlansInv
<1>1. PartsInit => PlansInv
  BY PlansInit DEF PartsInit
<1>2. PlansInv /\ [PartsNext]_<<payslipVars, hoursSide, plansSide, part>> => PlansInv'
  <2> SUFFICES ASSUME PlansInv, [PartsNext]_<<payslipVars, hoursSide, plansSide, part>>
               PROVE  PlansInv'
    OBVIOUS
  <2>1. [Plans!Next]_plansSide
    BY DEF PartsNext
  <2> QED
    BY <2>1, PlansNext
<1> QED
  BY <1>1, <1>2, PTL DEF PartsSpec

\* Nobody is planned twice at a time or after they left, and a copy only fills an empty
\* week: what overlapping requests checked under their locks still holds when they write.
THEOREM PlansStayWhole == PartsSpec => []PlansHold
<1>1. PlansInv => PlansHold
  BY PlansPromise DEF PlansHold
<1> QED
  BY <1>1, PlansInvariant, PTL

\* What an entry of the history gives as the value before is what the row says and what
\* the entry before it left; and the purge leaves no entry without its row.
THEOREM HistoryStaysAChain == PartsSpec => []HistoryIsAChain
<1>1. PlansInv => HistoryIsAChain
  BY PlansPromise DEF HistoryIsAChain
<1> QED
  BY <1>1, PlansInvariant, PTL
=============================================================================
