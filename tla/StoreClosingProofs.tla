------------------------- MODULE StoreClosingProofs -------------------------
(***************************************************************************)
(* Theorems about StoreClosing: what a closed store keeps, and which       *)
(* requests can wait for each other in a circle, for any number of         *)
(* requests and staff records; and about the files made in the background  *)
(* (ExportJobs), for any number of instances, requests and rows.           *)
(***************************************************************************)
EXTENDS MCClosingsAndExports, FiniteSetTheorems, SequenceTheorems, NaturalsInduction,
        WellFoundedInduction, TLAPS

-----------------------------------------------------------------------------
(* The locks                                                               *)

Modes == {"KEY SHARE", "SHARE", "NO KEY UPDATE", "UPDATE"}
Rows == {Store} \union {Staff(r) : r \in Records} \union {Account(r) : r \in Records}
Locks == [row : Rows, mode : Modes]
StoreLock == Lock(Store, "NO KEY UPDATE")
RecordLock(r) == Lock(Staff(r), "NO KEY UPDATE")
AccountLock(r) == Lock(Account(r), "UPDATE")
RecordLocks == {RecordLock(r) : r \in Records}
AccountLocks == {AccountLock(r) : r \in Records}

Jobs == StoreJobs \union StaffJobs \union {"idle"}
Targets == {"none", "NOT_OPERATING", "OPERATING", "CLOSED", "DRAFT", "PENDING_SEND",
            "SIGNED", "REJECTED", "ACCEPTED"}
RequestSet ==
  [job : Jobs, of : Records \union {None}, to : Targets, seen : Nat, again : BOOLEAN,
   held : SUBSET Locks, want : Seq(Locks)]

\* How far a request t has come that takes these locks in this order; the third
\* form learns of its second and third lock when it gets the first.
Taking1(t, x) ==
  \/ t.held = {} /\ t.want = <<x>>
  \/ t.held = {x} /\ t.want = <<>>
Taking2(t, x, y) ==
  \/ t.held = {} /\ t.want = <<x, y>>
  \/ t.held = {x} /\ t.want = <<y>>
  \/ t.held = {x, y} /\ t.want = <<>>
Taking3(t, x, y, z) ==
  \/ t.held = {} /\ t.want = <<x>>
  \/ t.held = {x} /\ t.want = <<y, z>>
  \/ t.held = {x, y} /\ t.want = <<z>>
  \/ t.held = {x, y, z} /\ t.want = <<>>

\* Every request but a closing takes the locks of its job, one after the other.
Orderly(t) ==
  /\ t.job \in StaffJobs => t.of \in Records
  /\ t.job \in StoreJobs \union StaffJobs => t.to \in Aims(t.job)
  /\ t.job = "idle" => t.held = {} /\ t.want = <<>> /\ t.to = "none"
  /\ t.job = "update" /\ t.to # "CLOSED" => Taking1(t, StoreLock)
  /\ t.job = "remove" => Taking1(t, Lock(Store, "UPDATE"))
  /\ t.job = "clockIn" =>
       Taking3(t, AccountLock(t.of), Lock(Staff(t.of), "KEY SHARE"), Lock(Store, "KEY SHARE"))
  /\ t.job \in {"retire", "move", "cancel"} =>
       \/ Taking1(t, RecordLock(t.of))
       \/ t.held # {} /\ Taking2(t, RecordLock(t.of), AccountLock(t.of))
  /\ t.job \in {"send", "sign"} => Taking1(t, RecordLock(t.of))
  /\ t.job = "resend" => Taking2(t, RecordLock(t.of), Lock(Store, "SHARE"))
  /\ t.job = "answer" => Taking2(t, AccountLock(t.of), Lock(Staff(t.of), "UPDATE"))
  /\ t.job = "write" =>
       \/ Taking1(t, Lock(Store, "KEY SHARE"))
       \/ Taking2(t, RecordLock(t.of), Lock(Store, "KEY SHARE"))

\* A closing takes the store's row, then records, then accounts of records it holds.
Wants(t, l) == \E i \in 1..Len(t.want) : t.want[i] = l
Knows(t, l) == l \in t.held \/ Wants(t, l)
InOrder(t) ==
  \/ t.held = {} /\ t.want = <<StoreLock>>
  \/ /\ StoreLock \in t.held
     /\ t.held \subseteq {StoreLock} \union RecordLocks \union AccountLocks
     /\ t.want \in Seq(RecordLocks) \union Seq(AccountLocks)
     /\ \A r \in Records : Knows(t, AccountLock(r)) => RecordLock(r) \in t.held

\* No two requests hold locks that exclude each other.
Compatible ==
  \A p, q \in Requests : p # q =>
    \A l \in tx[p].held, m \in tx[q].held : ~Conflict(l, m)

LocksInOrder ==
  /\ tx \in [Requests -> RequestSet] /\ Compatible
  /\ \A q \in Requests : Orderly(tx[q]) /\ (tx[q].to = "CLOSED" => InOrder(tx[q]))

-----------------------------------------------------------------------------
(* The rows                                                                *)

\* An update has read the row as it is, or is found out when it gets the lock.
UpdatesAreCurrent ==
  \A q \in Requests : tx[q].job = "update" =>
    /\ tx[q].seen <= changes /\ tx[q].seen < MaxChanges
    /\ tx[q].seen = changes => status \notin {"CLOSED", "deleted"}
    /\ tx[q].held # {} => tx[q].seen = changes

\* A closing that has the store's row knows the record of everyone employed, but for
\* those written to meanwhile, and then, of those, the account of whoever has one.
ClosingKnowsAll ==
  \A q \in Requests : tx[q].to = "CLOSED" /\ tx[q].held # {} =>
    \A r \in Records :
      /\ r \in Employed \ late => Knows(tx[q], RecordLock(r))
      /\ Knows(tx[q], RecordLock(r)) => staff[r].employment # "none"
      /\ RecordLock(r) \in tx[q].held /\ r \in Employed /\ staff[r].linked =>
           Knows(tx[q], AccountLock(r)) \/ \E t \in Records : Wants(tx[q], RecordLock(t))

\* Who is clocking in when the store has closed had left, or was written meanwhile.
ClockInsAreJudged ==
  \A q \in Requests : tx[q].job = "clockIn" /\ tx[q].held # {} =>
    /\ staff[tx[q].of].linked /\ staff[tx[q].of].employment # "none"
    /\ status = "CLOSED" => tx[q].of \notin Employed \/ tx[q].of \in late

RowsOK ==
  /\ TypeOK /\ closedOn <= day /\ (There => changes <= MaxChanges)
  /\ UpdatesAreCurrent /\ ClosingKnowsAll /\ ClockInsAreJudged
  /\ GoneStoreHoldsNobody
StoreInv == LocksInOrder /\ RowsOK

-----------------------------------------------------------------------------
(* Lemmas about rows, locks and sequences                                  *)

LEMMA RowsDiffer ==
  /\ Store[1] = "store"
  /\ \A r \in Records : /\ Staff(r)[1] = "staff" /\ Account(r)[1] = "account"
                        /\ Store # Staff(r) /\ Store # Account(r)
  /\ \A r, t \in Records : /\ Staff(r) # Account(t)
                           /\ Staff(r) = Staff(t) => r = t
                           /\ Account(r) = Account(t) => r = t
BY DEF Store, Staff, Account

LEMMA LocksAreTyped ==
  /\ \A m \in Modes : Lock(Store, m) \in Locks
  /\ \A r \in Records, m \in Modes : Lock(Staff(r), m) \in Locks /\ Lock(Account(r), m) \in Locks
  /\ StoreLock \in Locks
  /\ \A r \in Records : RecordLock(r) \in Locks /\ AccountLock(r) \in Locks
  /\ \A row, m : Lock(row, m).row = row /\ Lock(row, m).mode = m
<1>1. Store \in Rows /\ \A r \in Records : Staff(r) \in Rows /\ Account(r) \in Rows
  BY DEF Rows
<1>2. \A row \in Rows, m \in Modes : Lock(row, m) \in Locks
  BY DEF Locks, Lock
<1>3. "NO KEY UPDATE" \in Modes /\ "UPDATE" \in Modes
  BY DEF Modes
<1>4. \A row, m : Lock(row, m).row = row /\ Lock(row, m).mode = m
  BY DEF Lock
<1> QED
  BY <1>1, <1>2, <1>3, <1>4 DEF StoreLock, RecordLock, AccountLock

LEMMA RowsOfLocks ==
  /\ StoreLock.row = Store /\ StoreLock.mode = "NO KEY UPDATE"
  /\ \A r \in Records : /\ RecordLock(r).row = Staff(r) /\ RecordLock(r).mode = "NO KEY UPDATE"
                        /\ AccountLock(r).row = Account(r) /\ AccountLock(r).mode = "UPDATE"
BY DEF StoreLock, RecordLock, AccountLock, Lock

\* Two of the locks are different when their rows or their modes are.
LEMMA LocksDiffer ==
  \A r, t \in Records :
    /\ StoreLock # RecordLock(r) /\ StoreLock # AccountLock(r)
    /\ RecordLock(r) # AccountLock(t)
    /\ RecordLock(r) = RecordLock(t) => r = t
    /\ AccountLock(r) = AccountLock(t) => r = t
<1>1. \A r \in Records : /\ StoreLock.row = Store /\ RecordLock(r).row = Staff(r)
                         /\ AccountLock(r).row = Account(r)
  BY LocksAreTyped DEF StoreLock, RecordLock, AccountLock
<1> QED
  BY <1>1, RowsDiffer

LEMMA ConflictIsSymmetric ==
  ASSUME NEW a \in Locks, NEW b \in Locks, Conflict(a, b)
  PROVE  Conflict(b, a)
<1>1. a.mode \in Modes /\ b.mode \in Modes
  BY DEF Locks
<1> QED
  BY <1>1 DEF Conflict, Excludes, Modes

\* Which of the locks the jobs take exclude each other on one row.
LEMMA WhatConflicts ==
  ASSUME NEW row
  PROVE  /\ \A m \in Modes : Conflict(Lock(row, "UPDATE"), Lock(row, m))
         /\ \A m \in {"SHARE", "NO KEY UPDATE", "UPDATE"} : Conflict(Lock(row, "NO KEY UPDATE"), Lock(row, m))
         /\ \A m \in {"KEY SHARE", "SHARE", "NO KEY UPDATE"} : ~Conflict(Lock(row, "KEY SHARE"), Lock(row, m))
         /\ \A m \in {"KEY SHARE", "SHARE"} : ~Conflict(Lock(row, "SHARE"), Lock(row, m))
         /\ \A m \in {"KEY SHARE"} : ~Conflict(Lock(row, "NO KEY UPDATE"), Lock(row, m))
<1>1. \A a, b : Conflict(Lock(row, a), Lock(row, b)) <=> b \in Excludes(a)
  BY DEF Lock, Conflict
<1>2. /\ Excludes("KEY SHARE") = {"UPDATE"}
      /\ Excludes("SHARE") = {"NO KEY UPDATE", "UPDATE"}
      /\ Excludes("NO KEY UPDATE") = {"SHARE", "NO KEY UPDATE", "UPDATE"}
      /\ Excludes("UPDATE") = Modes
  BY DEF Excludes, Modes
<1>3. \A m \in Modes : Conflict(Lock(row, "UPDATE"), Lock(row, m))
  BY <1>1, <1>2
<1>4. \A m \in {"SHARE", "NO KEY UPDATE", "UPDATE"} : Conflict(Lock(row, "NO KEY UPDATE"), Lock(row, m))
  BY <1>1, <1>2
<1>5. \A m \in {"KEY SHARE", "SHARE", "NO KEY UPDATE"} : ~Conflict(Lock(row, "KEY SHARE"), Lock(row, m))
  BY <1>1, <1>2
<1>6. /\ \A m \in {"KEY SHARE", "SHARE"} : ~Conflict(Lock(row, "SHARE"), Lock(row, m))
      /\ \A m \in {"KEY SHARE"} : ~Conflict(Lock(row, "NO KEY UPDATE"), Lock(row, m))
  BY <1>1, <1>2
<1> QED
  BY <1>3, <1>4, <1>5, <1>6

\* Short sequences, as Head, Tail and \o see them.
LEMMA ShortSequences ==
  /\ \A x : <<x>> # <<>> /\ Head(<<x>>) = x /\ Tail(<<x>>) = <<>> /\ Len(<<x>>) = 1
  /\ \A x, y : <<x, y>> # <<>> /\ Head(<<x, y>>) = x /\ Tail(<<x, y>>) = <<y>> /\ Len(<<x, y>>) = 2
  /\ \A x : <<>> \o <<x>> = <<x>> /\ <<x>> \o <<>> = <<x>>
  /\ \A x, y : <<>> \o <<x, y>> = <<x, y>>
  /\ <<>> \o <<>> = <<>>
OBVIOUS

LEMMA HeadAndTail ==
  ASSUME NEW S, NEW s \in Seq(S), s # <<>>
  PROVE  /\ Head(s) \in S /\ Tail(s) \in Seq(S) /\ Len(Tail(s)) = Len(s) - 1 /\ Len(s) \in Nat \ {0}
         /\ Len(s) = 1 <=> Tail(s) = <<>>
         /\ \A x : (\E i \in 1..Len(s) : s[i] = x) <=>
                   (x = Head(s) \/ \E i \in 1..Len(Tail(s)) : Tail(s)[i] = x)
         /\ Tail(s) \o <<>> = Tail(s)
<1>1. Head(s) \in S /\ Tail(s) \in Seq(S) /\ Len(Tail(s)) = Len(s) - 1 /\ Len(s) \in Nat \ {0}
  OBVIOUS
<1>2. Head(s) = s[1] /\ \A i \in 1..Len(Tail(s)) : Tail(s)[i] = s[i + 1]
  OBVIOUS
<1>3. ASSUME NEW x
      PROVE  (\E i \in 1..Len(s) : s[i] = x) <=>
                (x = Head(s) \/ \E i \in 1..Len(Tail(s)) : Tail(s)[i] = x)
  <2>1. ASSUME NEW i \in 1..Len(s), s[i] = x, i # 1
        PROVE  \E j \in 1..Len(Tail(s)) : Tail(s)[j] = x
    <3>1. i - 1 \in 1..Len(Tail(s)) /\ (i - 1) + 1 = i
      BY <1>1, <2>1
    <3>2. Tail(s)[i - 1] = x
      BY <1>2, <2>1, <3>1
    <3> QED
      BY <3>1, <3>2
  <2>2. ASSUME NEW j \in 1..Len(Tail(s)), Tail(s)[j] = x
        PROVE  \E i \in 1..Len(s) : s[i] = x
    <3>1. j + 1 \in 1..Len(s)
      BY <1>1, <2>2
    <3> QED
      BY <1>2, <2>2, <3>1
  <2>3. 1 \in 1..Len(s)
    BY <1>1
  <2> QED
    BY <1>2, <2>1, <2>2, <2>3
<1>4. Len(s) = 1 <=> Tail(s) = <<>>
  <2>1. \A t \in Seq(S) : Len(t) = 0 <=> t = <<>>
    OBVIOUS
  <2>2. Len(Tail(s)) = 0 <=> Tail(s) = <<>>
    BY <1>1, <2>1
  <2> QED
    BY <1>1, <2>2
<1>5. Tail(s) \o <<>> = Tail(s)
  BY <1>1
<1> QED
  BY <1>1, <1>3, <1>4, <1>5

\* How many of rs come up to r: LocksOn takes them in this order.
Rank(rs, r) == Cardinality({x \in rs : x <= r})

LEMMA RanksAreHit ==
  ASSUME NEW rs \in SUBSET Nat, IsFiniteSet(rs)
  PROVE  /\ Cardinality(rs) \in Nat
         /\ \A i \in 1..Cardinality(rs) : \E r \in rs : Rank(rs, r) = i
         /\ \A r \in rs : Rank(rs, r) \in 1..Cardinality(rs)
         /\ \A r, t \in rs : Rank(rs, r) = Rank(rs, t) => r = t
<1> DEFINE f == [r \in rs |-> Rank(rs, r)]
           T == 1..Cardinality(rs)
<1>1. Cardinality(rs) \in Nat
  BY FS_CardinalityType
<1>2. ASSUME NEW r \in rs
      PROVE  Rank(rs, r) \in T
  <2> DEFINE S == {x \in rs : x <= r}
  <2>1. S \in SUBSET rs /\ r \in S
    OBVIOUS
  <2>2. IsFiniteSet(S) /\ Cardinality(S) <= Cardinality(rs)
    BY <2>1, FS_Subset
  <2>3. Cardinality(S) \in Nat /\ Cardinality(S) # 0
    BY <2>1, <2>2, FS_CardinalityType, FS_EmptySet
  <2> QED
    BY <1>1, <2>2, <2>3 DEF Rank
<1>3. ASSUME NEW r \in rs, NEW t \in rs, r < t
      PROVE  Rank(rs, r) # Rank(rs, t)
  <2> DEFINE R == {x \in rs : x <= r}
             S == {x \in rs : x <= t}
  <2>1. S \in SUBSET rs /\ R \in SUBSET S /\ t \in S /\ t \notin R
    <3>1. r \in Int /\ t \in Int /\ \A x \in rs : x \in Int
      OBVIOUS
    <3>2. \A x \in rs : x <= r => x <= t
      BY <1>3, <3>1
    <3>3. t <= t /\ ~(t <= r)
      BY <1>3, <3>1
    <3> QED
      BY <3>2, <3>3
  <2>2. IsFiniteSet(S)
    BY <2>1, FS_Subset
  <2>3. Cardinality(S) # Cardinality(R)
    BY <2>1, <2>2, FS_Subset
  <2> QED
    BY <2>3 DEF Rank
<1>4. \A r, t \in rs : Rank(rs, r) = Rank(rs, t) => r = t
  BY <1>3
<1>5. f \in Injection(rs, T)
  <2>1. f \in [rs -> T]
    BY <1>2
  <2> QED
    BY <1>4, <2>1 DEF Injection, IsInjective
<1>6. IsFiniteSet(T) /\ Cardinality(T) = Cardinality(rs)
  BY <1>1, FS_Interval
<1>7. f \in Surjection(rs, T)
  BY <1>5, <1>6, FS_Injection
<1>8. \A i \in T : \E r \in rs : Rank(rs, r) = i
  BY <1>7 DEF Surjection
<1> QED
  BY <1>1, <1>2, <1>4, <1>8

LEMMA FunctionsAreSequences ==
  ASSUME NEW S, NEW n \in Nat, NEW f \in [1..n -> S]
  PROVE  f \in Seq(S) /\ Len(f) = n
OBVIOUS

\* LocksOn lists the locks of all the records it is given, and no others.
LEMMA LocksOnStaff ==
  ASSUME NEW rs \in SUBSET Records
  PROVE  LET locks == LocksOn(rs, Staff, "NO KEY UPDATE")
         IN  /\ locks \in Seq(RecordLocks)
             /\ \A i \in 1..Len(locks) : \E r \in rs : locks[i] = RecordLock(r)
             /\ \A r \in rs : \E i \in 1..Len(locks) : locks[i] = RecordLock(r)
<1> DEFINE n == Cardinality(rs)
           who(i) == CHOOSE r \in rs : Rank(rs, r) = i
           locks == [i \in 1..n |-> Lock(Staff(who(i)), "NO KEY UPDATE")]
<1>1. rs \in SUBSET Nat /\ IsFiniteSet(rs)
  BY StoreAssumption, FS_Subset
<1>2. locks = LocksOn(rs, Staff, "NO KEY UPDATE")
  BY DEF LocksOn, Rank
<1>3. n \in Nat /\ \A i \in 1..n : who(i) \in rs /\ Rank(rs, who(i)) = i
  BY <1>1, RanksAreHit
<1> HIDE DEF who
<1>4. /\ locks \in Seq(RecordLocks) /\ Len(locks) = n
      /\ \A i \in 1..n : locks[i] = RecordLock(who(i))
  <2>1. \A i \in 1..n : locks[i] = RecordLock(who(i))
    BY DEF RecordLock
  <2>2. \A i \in 1..n : RecordLock(who(i)) \in RecordLocks
    BY <1>3 DEF RecordLocks
  <2>3. locks \in [1..n -> RecordLocks]
    BY <2>1, <2>2
  <2> QED
    BY <1>3, <2>1, <2>3, FunctionsAreSequences
<1>5. ASSUME NEW r \in rs
      PROVE  Rank(rs, r) \in 1..n /\ who(Rank(rs, r)) = r
  <2>1. Rank(rs, r) \in 1..n
    BY <1>1, RanksAreHit
  <2>2. who(Rank(rs, r)) \in rs /\ Rank(rs, who(Rank(rs, r))) = Rank(rs, r)
    BY <1>3, <2>1
  <2>3. \A a, b \in rs : Rank(rs, a) = Rank(rs, b) => a = b
    BY <1>1, RanksAreHit
  <2> QED
    BY <2>1, <2>2, <2>3
<1> QED
  BY <1>2, <1>3, <1>4, <1>5

LEMMA LocksOnAccounts ==
  ASSUME NEW rs \in SUBSET Records
  PROVE  LET locks == LocksOn(rs, Account, "UPDATE")
         IN  /\ locks \in Seq(AccountLocks)
             /\ \A i \in 1..Len(locks) : \E r \in rs : locks[i] = AccountLock(r)
             /\ \A r \in rs : \E i \in 1..Len(locks) : locks[i] = AccountLock(r)
<1> DEFINE n == Cardinality(rs)
           who(i) == CHOOSE r \in rs : Rank(rs, r) = i
           locks == [i \in 1..n |-> Lock(Account(who(i)), "UPDATE")]
<1>1. rs \in SUBSET Nat /\ IsFiniteSet(rs)
  BY StoreAssumption, FS_Subset
<1>2. locks = LocksOn(rs, Account, "UPDATE")
  BY DEF LocksOn, Rank
<1>3. n \in Nat /\ \A i \in 1..n : who(i) \in rs /\ Rank(rs, who(i)) = i
  BY <1>1, RanksAreHit
<1> HIDE DEF who
<1>4. /\ locks \in Seq(AccountLocks) /\ Len(locks) = n
      /\ \A i \in 1..n : locks[i] = AccountLock(who(i))
  <2>1. \A i \in 1..n : locks[i] = AccountLock(who(i))
    BY DEF AccountLock
  <2>2. \A i \in 1..n : AccountLock(who(i)) \in AccountLocks
    BY <1>3 DEF AccountLocks
  <2>3. locks \in [1..n -> AccountLocks]
    BY <2>1, <2>2
  <2> QED
    BY <1>3, <2>1, <2>3, FunctionsAreSequences
<1>5. ASSUME NEW r \in rs
      PROVE  Rank(rs, r) \in 1..n /\ who(Rank(rs, r)) = r
  <2>1. Rank(rs, r) \in 1..n
    BY <1>1, RanksAreHit
  <2>2. who(Rank(rs, r)) \in rs /\ Rank(rs, who(Rank(rs, r))) = Rank(rs, r)
    BY <1>3, <2>1
  <2>3. \A a, b \in rs : Rank(rs, a) = Rank(rs, b) => a = b
    BY <1>1, RanksAreHit
  <2> QED
    BY <2>1, <2>2, <2>3
<1> QED
  BY <1>2, <1>3, <1>4, <1>5


-----------------------------------------------------------------------------
(* How a request moves along its locks                                     *)

LEMMA NextRequest ==
  ASSUME NEW t \in RequestSet, NEW h \in SUBSET Locks, NEW w \in Seq(Locks)
  PROVE  LET n == [t EXCEPT !.held = h, !.want = w]
         IN  /\ n \in RequestSet /\ n.job = t.job /\ n.of = t.of /\ n.to = t.to
             /\ n.seen = t.seen /\ n.held = h /\ n.want = w
BY DEF RequestSet

LEMMA IdleRequest ==
  /\ Idle \in RequestSet /\ Idle.job = "idle" /\ Idle.held = {} /\ Idle.want = <<>>
  /\ Idle.to = "none" /\ Orderly(Idle)
<1>1. /\ Idle.job = "idle" /\ Idle.held = {} /\ Idle.want = <<>> /\ Idle.to = "none"
  BY DEF Idle
<1>2. <<>> \in Seq(Locks)
  OBVIOUS
<1>3. Idle \in RequestSet
  BY <1>2 DEF Idle, RequestSet, Jobs, Targets, None
<1>4. "idle" \notin StoreJobs \union StaffJobs
  BY DEF StoreJobs, StaffJobs
<1>5. Idle.job \notin {"retire", "move", "cancel", "send", "sign"}
  BY <1>1
<1> QED
  BY <1>1, <1>3, <1>4, <1>5 DEF Orderly

LEMMA TakesTheFirst ==
  ASSUME NEW t, NEW n, NEW x, Taking1(t, x), t.want # <<>>,
         n.held = t.held \union {Head(t.want)}
  PROVE  /\ t.held = {} /\ Head(t.want) = x /\ n.held = {x}
         /\ n.want = Tail(t.want) \o <<>> => Taking1(n, x)
         /\ \A y : n.want = Tail(t.want) \o <<y>> => Taking2(n, x, y)
BY ShortSequences DEF Taking1, Taking2

LEMMA TakesOneOfTwo ==
  ASSUME NEW t, NEW n, NEW x, NEW y, Taking2(t, x, y), t.want # <<>>,
         n.held = t.held \union {Head(t.want)}, n.want = Tail(t.want) \o <<>>
  PROVE  /\ Taking2(n, x, y) /\ n.held # {}
         /\ t.held = {} => Head(t.want) = x
         /\ t.held # {} => t.held = {x} /\ Head(t.want) = y
<1>1. CASE t.held = {} /\ t.want = <<x, y>>
  <2>1. n.held = {x} /\ n.want = <<y>> /\ Head(t.want) = x
    BY <1>1, ShortSequences
  <2> QED
    BY <1>1, <2>1 DEF Taking2
<1>2. CASE t.held = {x} /\ t.want = <<y>>
  <2>1. n.held = {x, y} /\ n.want = <<>> /\ Head(t.want) = y
    BY <1>2, ShortSequences
  <2> QED
    BY <1>2, <2>1 DEF Taking2
<1> QED
  BY <1>1, <1>2 DEF Taking2

LEMMA TakesOneOfThree ==
  ASSUME NEW t, NEW n, NEW x, NEW y, NEW z, Taking3(t, x, y, z), t.want # <<>>,
         n.held = t.held \union {Head(t.want)}
  PROVE  /\ t.held = {} => /\ Head(t.want) = x
                           /\ n.want = Tail(t.want) \o <<y, z>> => Taking3(n, x, y, z)
         /\ t.held # {} => /\ Head(t.want) \in {y, z} /\ x \in t.held
                           /\ n.want = Tail(t.want) \o <<>> => Taking3(n, x, y, z)
<1>1. CASE t.held = {} /\ t.want = <<x>>
  <2>1. n.held = {x} /\ Head(t.want) = x /\ Tail(t.want) \o <<y, z>> = <<y, z>>
    BY <1>1, ShortSequences
  <2> QED
    BY <1>1, <2>1 DEF Taking3
<1>2. CASE t.held = {x} /\ t.want = <<y, z>>
  <2>1. n.held = {x, y} /\ Head(t.want) = y /\ Tail(t.want) \o <<>> = <<z>>
    BY <1>2, ShortSequences
  <2> QED
    BY <1>2, <2>1 DEF Taking3
<1>3. CASE t.held = {x, y} /\ t.want = <<z>>
  <2>1. n.held = {x, y, z} /\ Head(t.want) = z /\ Tail(t.want) \o <<>> = <<>>
    BY <1>3, ShortSequences
  <2> QED
    BY <1>3, <2>1 DEF Taking3
<1> QED
  BY <1>1, <1>2, <1>3 DEF Taking3

\* The locks a request learns of, for each job but a closing.
LEMMA WhatIsLearnt ==
  ASSUME NEW q \in Requests, tx[q].to # "CLOSED"
  PROVE  LET job == tx[q].job
             row == Head(tx[q].want).row
             r == tx[q].of
         IN  /\ job \in {"retire", "move", "cancel"} /\ row = Staff(r) =>
                  More(q) = IF staff[r].linked THEN <<AccountLock(r)>> ELSE <<>>
             /\ job \in {"retire", "move", "cancel"} /\ row # Staff(r) => More(q) = <<>>
             /\ job = "clockIn" /\ row = Account(r) =>
                  More(q) = <<Lock(Staff(r), "KEY SHARE"), Lock(Store, "KEY SHARE")>>
             /\ job = "clockIn" /\ row # Account(r) => More(q) = <<>>
             /\ job \in {"remove", "send", "sign", "resend", "answer", "write"} => More(q) = <<>>
             /\ job = "update" /\ row[1] # "staff" => More(q) = <<>>
<1>1. ASSUME tx[q].job \in {"retire", "move", "cancel"}
      PROVE  More(q) = IF Head(tx[q].want).row = Staff(tx[q].of) /\ staff[tx[q].of].linked
                       THEN <<AccountLock(tx[q].of)>> ELSE <<>>
  <2>1. tx[q].job # "update" /\ tx[q].job # "clockIn"
    BY <1>1
  <2> QED
    BY <1>1, <2>1 DEF More, AccountLock
<1>2. ASSUME tx[q].job = "clockIn"
      PROVE  More(q) = IF Head(tx[q].want).row = Account(tx[q].of)
                       THEN <<Lock(Staff(tx[q].of), "KEY SHARE"), Lock(Store, "KEY SHARE")>> ELSE <<>>
  BY <1>2 DEF More
<1>3. ASSUME tx[q].job \in {"remove", "send", "sign", "resend", "answer", "write"}
      PROVE  More(q) = <<>>
  <2>1. tx[q].job \notin {"update", "clockIn", "retire", "move", "cancel"}
    BY <1>3
  <2> QED
    BY <2>1 DEF More
<1>4. ASSUME tx[q].job = "update", Head(tx[q].want).row[1] # "staff"
      PROVE  More(q) = <<>>
  BY <1>4 DEF More
<1> QED
  BY <1>1, <1>2, <1>3, <1>4

LEMMA RecordsAreLearnt ==
  /\ ClosingRecordLocks \in Seq(RecordLocks)
  /\ \A r \in Records : (\E i \in 1..Len(ClosingRecordLocks) : ClosingRecordLocks[i] = RecordLock(r)) <=>
                        r \in Employed
<1> DEFINE locks == LocksOn(Employed, Staff, "NO KEY UPDATE")
<1>1. Employed \in SUBSET Records
  BY DEF Employed
<1>2. /\ locks \in Seq(RecordLocks)
      /\ \A i \in 1..Len(locks) : \E r \in Employed : locks[i] = RecordLock(r)
      /\ \A r \in Employed : \E i \in 1..Len(locks) : locks[i] = RecordLock(r)
  BY <1>1, LocksOnStaff
<1>3. ClosingRecordLocks = locks
  BY DEF ClosingRecordLocks
<1>4. \A r, x \in Records : RecordLock(r) = RecordLock(x) => r = x
  BY LocksDiffer
<1> HIDE DEF locks
<1> QED
  BY <1>1, <1>2, <1>3, <1>4

\* What a closing learns when it is granted its next lock: the locks of the records
\* after the store's, those of the accounts after the last record's.
LEMMA ClosingLearns ==
  ASSUME NEW q \in Requests, tx[q] \in RequestSet, tx[q].job = "update", tx[q].to = "CLOSED",
         InOrder(tx[q]), tx[q].want # <<>>
  PROVE  LET t == tx[q]
             w == Tail(t.want) \o More(q)
         IN  \/ /\ t.held = {} /\ t.want = <<StoreLock>> /\ Granted(q) = {StoreLock}
                /\ w = ClosingRecordLocks
             \/ /\ StoreLock \in t.held /\ t.want \in Seq(RecordLocks) /\ Len(t.want) = 1
                /\ Head(t.want).row[1] = "staff"
                /\ w = ClosingAccountLocks(Granted(q))
             \/ /\ StoreLock \in t.held /\ t.want \in Seq(RecordLocks) /\ Tail(t.want) # <<>>
                /\ Head(t.want).row[1] = "staff"
                /\ w = Tail(t.want)
             \/ /\ StoreLock \in t.held /\ t.want \in Seq(AccountLocks)
                /\ Head(t.want).row[1] = "account"
                /\ w = Tail(t.want)
<1> DEFINE t == tx[q]
           row == Head(t.want).row
<1>1. CASE t.held = {} /\ t.want = <<StoreLock>>
  <2>1. Head(t.want) = StoreLock /\ Tail(t.want) = <<>> /\ row = Store
    BY <1>1, ShortSequences, RowsOfLocks
  <2>2. More(q) = ClosingRecordLocks
    <3>1. row[1] # "staff" /\ t.job = "update"
      BY <2>1, RowsDiffer
    <3> QED
      BY <2>1, <3>1 DEF More
  <2>4. ClosingRecordLocks \in Seq(RecordLocks)
    BY RecordsAreLearnt
  <2>5. \A s \in Seq(RecordLocks) : <<>> \o s = s
    OBVIOUS
  <2> QED
    BY <1>1, <2>1, <2>2, <2>4, <2>5 DEF Granted
<1>2. CASE StoreLock \in t.held /\ t.want \in Seq(RecordLocks)
  <2>1. Head(t.want) \in RecordLocks /\ (Len(t.want) = 1 <=> Tail(t.want) = <<>>)
        /\ Tail(t.want) \o <<>> = Tail(t.want)
    BY <1>2, HeadAndTail
  <2>2. row[1] = "staff" /\ row # Store
    <3>1. PICK r \in Records : Head(t.want) = RecordLock(r)
      BY <2>1 DEF RecordLocks
    <3> QED
      BY <3>1, RowsDiffer, RowsOfLocks
  <2>3. CASE Len(t.want) = 1
    <3>1. More(q) = ClosingAccountLocks(Granted(q))
      BY <2>2, <2>3 DEF More
    <3>2. ClosingAccountLocks(Granted(q)) \in Seq(AccountLocks)
      <4>1. \A h : {x \in Employed : staff[x].linked /\ \E l \in h : l.row = Staff(x)} \in SUBSET Records
        BY DEF Employed
      <4> QED
        BY <4>1, LocksOnAccounts DEF ClosingAccountLocks
    <3>3. \A s \in Seq(AccountLocks) : <<>> \o s = s
      OBVIOUS
    <3> QED
      BY <1>2, <2>1, <2>2, <2>3, <3>1, <3>2, <3>3
  <2>4. CASE Len(t.want) # 1
    <3>1. More(q) = <<>>
      BY <2>2, <2>4 DEF More
    <3> QED
      BY <1>2, <2>1, <2>2, <2>4, <3>1
  <2> QED
    BY <2>3, <2>4
<1>3. CASE StoreLock \in t.held /\ t.want \in Seq(AccountLocks)
  <2>1. Head(t.want) \in AccountLocks /\ Tail(t.want) \o <<>> = Tail(t.want)
    BY <1>3, HeadAndTail
  <2>2. row[1] = "account" /\ row # Store
    <3>1. PICK r \in Records : Head(t.want) = AccountLock(r)
      BY <2>1 DEF AccountLocks
    <3> QED
      BY <3>1, RowsDiffer, RowsOfLocks
  <2>3. More(q) = <<>>
    BY <2>2 DEF More
  <2> QED
    BY <1>3, <2>1, <2>2, <2>3
<1> QED
  BY <1>1, <1>2, <1>3 DEF InOrder

LEMMA AccountsAreLearnt ==
  ASSUME NEW h, h \subseteq {StoreLock} \union RecordLocks \union AccountLocks
  PROVE  /\ ClosingAccountLocks(h) \in Seq(AccountLocks)
         /\ \A r \in Records : (\E i \in 1..Len(ClosingAccountLocks(h)) :
                                  ClosingAccountLocks(h)[i] = AccountLock(r)) <=>
                               r \in Employed /\ staff[r].linked /\ RecordLock(r) \in h
<1> DEFINE rs == {x \in Employed : staff[x].linked /\ \E l \in h : l.row = Staff(x)}
           locks == LocksOn(rs, Account, "UPDATE")
<1>1. rs \in SUBSET Records
  BY DEF Employed
<1>2. /\ locks \in Seq(AccountLocks)
      /\ \A i \in 1..Len(locks) : \E r \in rs : locks[i] = AccountLock(r)
      /\ \A r \in rs : \E i \in 1..Len(locks) : locks[i] = AccountLock(r)
  BY <1>1, LocksOnAccounts
<1>3. ASSUME NEW r \in Records
      PROVE  (\E l \in h : l.row = Staff(r)) <=> RecordLock(r) \in h
  <2>1. RecordLock(r).row = Staff(r)
    BY RowsOfLocks
  <2>2. ASSUME NEW l \in h, l.row = Staff(r)
        PROVE  l = RecordLock(r)
    <3>1. l # StoreLock
      BY <2>2, RowsDiffer, RowsOfLocks
    <3>2. l \notin AccountLocks
      <4>1. \A x \in Records : AccountLock(x).row # Staff(r)
        BY RowsDiffer, RowsOfLocks
      <4> QED
        BY <2>2, <4>1 DEF AccountLocks
    <3>3. PICK x \in Records : l = RecordLock(x)
      BY <3>1, <3>2 DEF RecordLocks
    <3>4. x = r
      BY <2>2, <3>3, RowsDiffer, RowsOfLocks
    <3> QED
      BY <3>3, <3>4
  <2> QED
    BY <2>1, <2>2
<1>4. \A r \in Records : r \in rs <=> r \in Employed /\ staff[r].linked /\ RecordLock(r) \in h
  BY <1>3
<1>5. \A r \in Records : (\E i \in 1..Len(locks) : locks[i] = AccountLock(r)) <=> r \in rs
  <2>1. \A r, x \in Records : AccountLock(r) = AccountLock(x) => r = x
    BY LocksDiffer
  <2> HIDE DEF locks, rs
  <2> QED
    BY <1>1, <1>2, <2>1
<1>6. ClosingAccountLocks(h) = locks
  BY DEF ClosingAccountLocks
<1> HIDE DEF locks, rs
<1> QED
  BY <1>2, <1>4, <1>5, <1>6

\* Granted its next lock, a request still goes through its locks in order.
LEMMA GrantKeepsOrder ==
  ASSUME NEW q \in Requests, tx[q] \in RequestSet, Orderly(tx[q]), tx[q].want # <<>>,
         tx[q].to = "CLOSED" => InOrder(tx[q])
  PROVE  LET n == [tx[q] EXCEPT !.held = Granted(q), !.want = Tail(tx[q].want) \o More(q)]
         IN  n \in RequestSet /\ Orderly(n) /\ (n.to = "CLOSED" => InOrder(n))
<1> DEFINE t == tx[q]
           n == [t EXCEPT !.held = Granted(q), !.want = Tail(t.want) \o More(q)]
           r == t.of
           row == Head(t.want).row
<1>1. /\ t.job \in Jobs /\ t.held \in SUBSET Locks /\ t.want \in Seq(Locks)
      /\ Head(t.want) \in Locks /\ Tail(t.want) \in Seq(Locks)
  BY HeadAndTail DEF RequestSet
<1>2. Granted(q) \in SUBSET Locks /\ Granted(q) = t.held \union {Head(t.want)}
  BY <1>1 DEF Granted
<1>3. t.job # "idle"
  BY DEF Orderly
<1>4. RecordLocks \in SUBSET Locks /\ AccountLocks \in SUBSET Locks
  BY LocksAreTyped DEF RecordLocks, AccountLocks
<1>7. ASSUME NEW w \in Seq(Locks), w = Tail(t.want) \o More(q)
      PROVE  /\ n \in RequestSet /\ n.held = Granted(q) /\ n.want = w
             /\ n.job = t.job /\ n.to = t.to /\ n.of = t.of
  <2> DEFINE m == [t EXCEPT !.held = Granted(q), !.want = w]
  <2>1. n = m
    BY <1>7
  <2>2. /\ m \in RequestSet /\ m.held = Granted(q) /\ m.want = w
        /\ m.job = t.job /\ m.to = t.to /\ m.of = t.of
    BY <1>2 DEF RequestSet
  <2> HIDE DEF m, n
  <2> QED
    BY <2>1, <2>2
<1> SUFFICES n \in RequestSet /\ Orderly(n) /\ (n.to = "CLOSED" => InOrder(n))
  OBVIOUS
<1> HIDE DEF n
<1>5. CASE t.to = "CLOSED"
  <2>1. t.job = "update"
    BY <1>1, <1>3, <1>5 DEF Orderly, Jobs, Aims, StoreJobs, StaffJobs
  <2> DEFINE w == Tail(t.want) \o More(q)
  <2>2. CASE t.held = {} /\ t.want = <<StoreLock>> /\ Granted(q) = {StoreLock}
             /\ w = ClosingRecordLocks
    <3>1. w \in Seq(RecordLocks) /\ w \in Seq(Locks)
      BY <1>4, <2>2, RecordsAreLearnt
    <3>2. n \in RequestSet /\ n.held = {StoreLock} /\ n.want = w /\ n.job = t.job /\ n.to = t.to /\ n.of = t.of
      BY <1>7, <2>2, <3>1
    <3>3. ASSUME NEW x \in Records
          PROVE  ~Knows(n, AccountLock(x))
      <4>1. \A i \in 1..Len(w) : w[i] \in RecordLocks
        BY <3>1
      <4>2. AccountLock(x) \notin RecordLocks /\ AccountLock(x) # StoreLock
        BY LocksDiffer DEF RecordLocks
      <4> QED
        BY <3>2, <4>1, <4>2 DEF Knows, Wants
    <3>4. InOrder(n)
      BY <3>1, <3>2, <3>3 DEF InOrder
    <3> QED
      BY <1>5, <2>1, <3>2, <3>4 DEF Orderly, StaffJobs
  <2>3. CASE StoreLock \in t.held /\ t.want \in Seq(RecordLocks)
             /\ w = ClosingAccountLocks(Granted(q))
    <3>1. /\ t.held \subseteq {StoreLock} \union RecordLocks \union AccountLocks
          /\ \A x \in Records : Knows(t, AccountLock(x)) => RecordLock(x) \in t.held
      BY <1>5, <2>3 DEF InOrder
    <3>2. Head(t.want) \in RecordLocks
      BY <2>3, HeadAndTail
    <3>3. Granted(q) \subseteq {StoreLock} \union RecordLocks \union AccountLocks
      BY <1>2, <3>1, <3>2
    <3>4. /\ w \in Seq(AccountLocks) /\ w \in Seq(Locks)
          /\ \A x \in Records : (\E i \in 1..Len(w) : w[i] = AccountLock(x)) => RecordLock(x) \in Granted(q)
      <4> DEFINE a == ClosingAccountLocks(Granted(q))
      <4>1. /\ a \in Seq(AccountLocks)
            /\ \A x \in Records : (\E i \in 1..Len(a) : a[i] = AccountLock(x)) <=>
                                  x \in Employed /\ staff[x].linked /\ RecordLock(x) \in Granted(q)
        BY <3>3, AccountsAreLearnt
      <4>2. w = a
        BY <2>3
      <4> HIDE DEF a, w
      <4> QED
        BY <1>4, <4>1, <4>2
    <3>5. n \in RequestSet /\ n.held = Granted(q) /\ n.want = w /\ n.job = t.job /\ n.to = t.to /\ n.of = t.of
      BY <1>7, <3>4
    <3>6. ASSUME NEW x \in Records, Knows(n, AccountLock(x))
          PROVE  RecordLock(x) \in n.held
      <4>1. AccountLock(x) \notin RecordLocks
        BY LocksDiffer DEF RecordLocks
      <4>2. CASE AccountLock(x) \in n.held
        <5>1. AccountLock(x) \in t.held
          BY <1>2, <3>2, <3>5, <4>1, <4>2
        <5> QED
          BY <1>2, <3>1, <3>5, <5>1 DEF Knows
      <4>3. CASE \E i \in 1..Len(w) : w[i] = AccountLock(x)
        BY <3>4, <3>5, <4>3
      <4> QED
        BY <3>5, <3>6, <4>2, <4>3 DEF Knows, Wants
    <3>7. InOrder(n)
      BY <1>2, <2>3, <3>3, <3>4, <3>5, <3>6 DEF InOrder
    <3> QED
      BY <1>5, <2>1, <3>5, <3>7 DEF Orderly, StaffJobs
  <2>4. CASE StoreLock \in t.held /\ t.want \in Seq(RecordLocks) \union Seq(AccountLocks)
             /\ w = Tail(t.want)
    <3>1. /\ t.held \subseteq {StoreLock} \union RecordLocks \union AccountLocks
          /\ \A x \in Records : Knows(t, AccountLock(x)) => RecordLock(x) \in t.held
      BY <1>5, <2>4 DEF InOrder
    <3>2. /\ Head(t.want) \in RecordLocks \union AccountLocks
          /\ w \in Seq(RecordLocks) \union Seq(AccountLocks)
          /\ \A x : (\E i \in 1..Len(t.want) : t.want[i] = x) <=>
                    (x = Head(t.want) \/ \E i \in 1..Len(w) : w[i] = x)
      <4>1. w = Tail(t.want)
        BY <2>4
      <4> HIDE DEF w
      <4>2. ASSUME NEW S, t.want \in Seq(S)
            PROVE  /\ Head(t.want) \in S /\ Tail(t.want) \in Seq(S)
                   /\ \A x : (\E i \in 1..Len(t.want) : t.want[i] = x) <=>
                             (x = Head(t.want) \/ \E i \in 1..Len(Tail(t.want)) : Tail(t.want)[i] = x)
        BY <4>2, HeadAndTail
      <4>3. CASE t.want \in Seq(RecordLocks)
        BY <4>1, <4>2, <4>3
      <4>4. CASE t.want \in Seq(AccountLocks)
        BY <4>1, <4>2, <4>4
      <4> QED
        BY <2>4, <4>3, <4>4
    <3>3. w \in Seq(Locks)
      BY <1>1, <2>4
    <3>4. n \in RequestSet /\ n.held = Granted(q) /\ n.want = w /\ n.job = t.job /\ n.to = t.to /\ n.of = t.of
      BY <1>7, <3>3
    <3>5. ASSUME NEW x \in Records, Knows(n, AccountLock(x))
          PROVE  RecordLock(x) \in n.held
      <4>1. Knows(t, AccountLock(x))
        BY <1>2, <3>2, <3>4, <3>5 DEF Knows, Wants
      <4> QED
        BY <1>2, <3>1, <3>4, <4>1
    <3>6. InOrder(n)
      BY <1>2, <2>4, <3>1, <3>2, <3>4, <3>5 DEF InOrder
    <3> QED
      BY <1>5, <2>1, <3>4, <3>6 DEF Orderly, StaffJobs
  <2> HIDE DEF w
  <2> QED
    BY <1>5, <2>1, <2>2, <2>3, <2>4, ClosingLearns DEF w
<1>6. CASE t.to # "CLOSED"
  <2>1. ASSUME More(q) \in Seq(Locks)
        PROVE  /\ n \in RequestSet /\ n.held = t.held \union {Head(t.want)}
               /\ n.want = Tail(t.want) \o More(q)
               /\ n.job = t.job /\ n.to = t.to /\ n.of = t.of
    <3>1. Tail(t.want) \o More(q) \in Seq(Locks)
      BY <1>1, <2>1
    <3> QED
      BY <1>2, <1>7, <3>1
  <2>2. <<>> \in Seq(Locks)
    OBVIOUS
  <2>3. CASE t.job = "update"
    <3>1. Taking1(t, StoreLock)
      BY <1>6, <2>3 DEF Orderly
    <3>2. t.want = <<StoreLock>> /\ Head(t.want) = StoreLock
      BY <3>1, ShortSequences DEF Taking1
    <3>3. More(q) = <<>>
      BY <1>6, <2>3, <3>2, WhatIsLearnt, RowsDiffer, RowsOfLocks
    <3>4. Taking1(n, StoreLock)
      BY <2>1, <2>2, <3>1, <3>3, TakesTheFirst
    <3> QED
      BY <1>6, <2>1, <2>2, <2>3, <3>3, <3>4 DEF Orderly, StaffJobs
  <2>4. CASE t.job = "remove"
    <3>1. Taking1(t, Lock(Store, "UPDATE"))
      BY <2>4 DEF Orderly
    <3>2. More(q) = <<>>
      BY <1>6, <2>4, WhatIsLearnt
    <3>3. Taking1(n, Lock(Store, "UPDATE"))
      BY <2>1, <2>2, <3>1, <3>2, TakesTheFirst
    <3> QED
      BY <1>6, <2>1, <2>2, <2>4, <3>2, <3>3 DEF Orderly, StaffJobs
  <2>5. CASE t.job = "clockIn"
    <3> DEFINE x == AccountLock(r)
               y == Lock(Staff(r), "KEY SHARE")
               z == Lock(Store, "KEY SHARE")
    <3>1. Taking3(t, x, y, z) /\ r \in Records
      BY <2>5 DEF Orderly, StaffJobs
    <3>2. "KEY SHARE" \in Modes
      BY DEF Modes
    <3>3. /\ y \in Locks /\ z \in Locks
          /\ x.row = Account(r) /\ y.row # Account(r) /\ z.row # Account(r)
      <4>1. y \in Locks /\ z \in Locks
        BY <3>1, <3>2, LocksAreTyped
      <4>2. x.row = Account(r) /\ y.row = Staff(r) /\ z.row = Store
        BY <3>1, RowsOfLocks DEF Lock
      <4> QED
        BY <3>1, <4>1, <4>2, RowsDiffer
    <3> HIDE DEF x, y, z
    <3>4. <<y, z>> \in Seq(Locks)
      BY <3>3
    <3>5. More(q) = IF t.held = {} THEN <<y, z>> ELSE <<>>
      <4>1. /\ t.held = {} => Head(t.want) = x
            /\ t.held # {} => Head(t.want) \in {y, z}
        BY <3>1, ShortSequences DEF Taking3
      <4> QED
        BY <1>6, <2>5, <3>3, <4>1, WhatIsLearnt DEF y, z
    <3>6. Taking3(n, x, y, z)
      <4>1. n.held = t.held \union {Head(t.want)} /\ n.want = Tail(t.want) \o More(q)
        BY <2>1, <2>2, <3>4, <3>5
      <4>2. CASE t.held = {}
        BY <3>1, <3>5, <4>1, <4>2, TakesOneOfThree
      <4>3. CASE t.held # {}
        BY <3>1, <3>5, <4>1, <4>3, TakesOneOfThree
      <4> QED
        BY <4>2, <4>3
    <3>7. n.job = t.job /\ n.to = t.to /\ n.of = t.of /\ n \in RequestSet
      BY <2>1, <2>2, <3>4, <3>5
    <3> QED
      BY <1>6, <2>5, <3>6, <3>7 DEF Orderly, x, y, z
  <2>6. CASE t.job \in {"retire", "move", "cancel"}
    <3> DEFINE x == RecordLock(r)
               y == AccountLock(r)
    <3>1. r \in Records /\ (Taking1(t, x) \/ (t.held # {} /\ Taking2(t, x, y)))
      BY <2>6 DEF Orderly, StaffJobs
    <3>2. x \in Locks /\ y \in Locks /\ x.row = Staff(r) /\ y.row # Staff(r)
      BY <3>1, LocksAreTyped, RowsDiffer, RowsOfLocks
    <3>3. <<y>> \in Seq(Locks)
      BY <3>2
    <3>4. CASE Taking1(t, x)
      <4>1. t.held = {} /\ t.want = <<x>> /\ Head(t.want) = x
        BY <3>4, ShortSequences DEF Taking1
      <4>2. More(q) = IF staff[r].linked THEN <<y>> ELSE <<>>
        BY <1>6, <2>6, <3>2, <4>1, WhatIsLearnt
      <4>3. More(q) \in Seq(Locks)
        BY <2>2, <3>3, <4>2
      <4>4. Taking1(n, x) \/ (n.held # {} /\ Taking2(n, x, y))
        <5>1. CASE staff[r].linked
          BY <2>1, <3>4, <4>2, <4>3, <5>1, TakesTheFirst
        <5>2. CASE ~staff[r].linked
          BY <2>1, <3>4, <4>2, <4>3, <5>2, TakesTheFirst
        <5> QED
          BY <5>1, <5>2
      <4> QED
        BY <1>6, <2>1, <2>6, <4>3, <4>4 DEF Orderly
    <3>5. CASE t.held # {} /\ Taking2(t, x, y)
      <4>1. Head(t.want) = y
        BY <3>5, TakesOneOfTwo, ShortSequences DEF Taking2
      <4>2. More(q) = <<>>
        BY <1>6, <2>6, <3>2, <4>1, WhatIsLearnt
      <4>3. n.held # {} /\ Taking2(n, x, y)
        BY <2>1, <2>2, <3>5, <4>2, TakesOneOfTwo
      <4> QED
        BY <1>6, <2>1, <2>2, <2>6, <4>2, <4>3 DEF Orderly
    <3> QED
      BY <3>1, <3>4, <3>5
  <2>7. CASE t.job \in {"send", "sign", "resend", "answer", "write"}
    <3>1. More(q) = <<>>
      BY <1>6, <2>7, WhatIsLearnt
    <3>2. /\ n \in RequestSet /\ n.held = t.held \union {Head(t.want)} /\ n.want = Tail(t.want) \o <<>>
          /\ n.job = t.job /\ n.to = t.to /\ n.of = t.of
      BY <2>1, <2>2, <3>1
    <3>3. \A x : Taking1(t, x) => Taking1(n, x)
      BY <3>2, TakesTheFirst
    <3>4. \A x, y : Taking2(t, x, y) => Taking2(n, x, y)
      BY <3>2, TakesOneOfTwo
    <3>5. CASE t.job \in {"send", "sign"}
      BY <1>6, <3>2, <3>3, <3>5 DEF Orderly
    <3>6. CASE t.job = "resend"
      BY <1>6, <3>2, <3>4, <3>6 DEF Orderly
    <3>7. CASE t.job = "answer"
      BY <1>6, <3>2, <3>4, <3>7 DEF Orderly
    <3>8. CASE t.job = "write"
      BY <1>6, <3>2, <3>3, <3>4, <3>8 DEF Orderly
    <3> QED
      BY <2>7, <3>5, <3>6, <3>7, <3>8
  <2> QED
    BY <1>1, <1>3, <2>3, <2>4, <2>5, <2>6, <2>7 DEF Jobs, StoreJobs, StaffJobs
<1> QED
  BY <1>5, <1>6


-----------------------------------------------------------------------------
(* Every step keeps the locks in order                                     *)

LEMMA OneRequestMoves ==
  ASSUME LocksInOrder, NEW q \in Requests, NEW n \in RequestSet, tx' = [tx EXCEPT ![q] = n],
         Orderly(n), n.to = "CLOSED" => InOrder(n),
         \A p \in Requests \ {q} : \A l \in n.held, m \in tx[p].held : ~Conflict(l, m)
  PROVE  LocksInOrder'
<1>1. /\ tx' \in [Requests -> RequestSet] /\ tx'[q] = n
      /\ \A p \in Requests : p # q => tx'[p] = tx[p]
  BY DEF LocksInOrder
<1>2. \A p \in Requests : Orderly(tx'[p]) /\ (tx'[p].to = "CLOSED" => InOrder(tx'[p]))
  BY <1>1 DEF LocksInOrder
<1>3. ASSUME NEW p \in Requests, NEW o \in Requests, p # o,
             NEW l \in tx'[p].held, NEW m \in tx'[o].held
      PROVE  ~Conflict(l, m)
  <2>1. l \in Locks /\ m \in Locks
    BY <1>1, <1>3 DEF RequestSet
  <2>2. CASE p = q
    BY <1>1, <1>3, <2>2
  <2>3. CASE o = q
    <3>1. ~Conflict(m, l)
      BY <1>1, <1>3, <2>3
    <3> QED
      BY <2>1, <3>1, ConflictIsSymmetric
  <2>4. CASE p # q /\ o # q
    BY <1>1, <1>3, <2>4 DEF LocksInOrder, Compatible
  <2> QED
    BY <2>2, <2>3, <2>4
<1>4. Compatible'
  BY <1>3 DEF Compatible
<1>5. (\A p \in Requests : Orderly(tx[p]) /\ (tx[p].to = "CLOSED" => InOrder(tx[p])))'
  BY <1>2
<1> QED
  BY <1>1, <1>4, <1>5 DEF LocksInOrder

LEMMA AnswerKeepsLocks ==
  ASSUME LocksInOrder, NEW q \in Requests, Answer(q)
  PROVE  LocksInOrder'
<1>1. tx' = [tx EXCEPT ![q] = Idle]
  BY DEF Answer
<1>2. /\ Idle \in RequestSet /\ Orderly(Idle) /\ Idle.to # "CLOSED"
      /\ \A p \in Requests \ {q} : \A l \in Idle.held, m \in tx[p].held : ~Conflict(l, m)
  BY IdleRequest
<1> HIDE DEF Idle
<1> QED
  BY ONLY LocksInOrder, <1>1, <1>2, OneRequestMoves, q \in Requests

LEMMA BeginKeepsLocks ==
  ASSUME LocksInOrder, TypeOK, NEW q \in Requests, NEW job \in StoreJobs \union StaffJobs, NEW r,
         job \in StoreJobs => r = None, job \in StaffJobs => r \in Records,
         NEW to \in Aims(job), Begin(q, job, r, to)
  PROVE  LocksInOrder'
<1> DEFINE n == [Idle EXCEPT !.job = job, !.of = r, !.to = to, !.seen = changes,
                             !.want = FirstLocks(job, r)]
<1>1. tx' = [tx EXCEPT ![q] = n]
  BY DEF Begin
<1>2. job \in Jobs /\ to \in Targets /\ r \in Records \union {None} /\ changes \in Nat
  BY DEF Jobs, Targets, Aims, StoreJobs, StaffJobs, TypeOK
<1>3. FirstLocks(job, r) \in Seq(Locks)
  <2>1. /\ StoreLock \in Locks /\ Lock(Store, "NO KEY UPDATE") \in Locks
        /\ Lock(Store, "UPDATE") \in Locks /\ Lock(Store, "SHARE") \in Locks
        /\ Lock(Store, "KEY SHARE") \in Locks
    BY LocksAreTyped DEF Modes
  <2>2. r \in Records => /\ Lock(Staff(r), "NO KEY UPDATE") \in Locks /\ Lock(Staff(r), "UPDATE") \in Locks
                         /\ Lock(Account(r), "UPDATE") \in Locks
    BY LocksAreTyped DEF Modes
  <2>3. \A x, y \in Locks : <<x>> \in Seq(Locks) /\ <<x, y>> \in Seq(Locks) /\ <<x>> \o <<y>> \in Seq(Locks)
                            /\ <<>> \o <<y>> \in Seq(Locks)
    OBVIOUS
  <2>4. CASE job = "update"
    BY <2>1, <2>3, <2>4 DEF FirstLocks
  <2>5. CASE job = "remove"
    BY <2>1, <2>3, <2>5 DEF FirstLocks
  <2>6. CASE job = "clockIn"
    BY <2>2, <2>3, <2>6 DEF FirstLocks, StaffJobs
  <2>7. CASE job \in {"retire", "move", "cancel", "send", "sign"}
    <3>1. FirstLocks(job, r) = <<Lock(Staff(r), "NO KEY UPDATE")>>
      BY <2>7 DEF FirstLocks
    <3> QED
      BY <2>2, <2>3, <2>7, <3>1 DEF StaffJobs
  <2>8. CASE job = "resend"
    BY <2>1, <2>2, <2>3, <2>8 DEF FirstLocks, StaffJobs
  <2>9. CASE job = "answer"
    BY <2>1, <2>2, <2>3, <2>9 DEF FirstLocks, StaffJobs
  <2>10. CASE job = "write"
    BY <2>1, <2>2, <2>3, <2>10 DEF FirstLocks, StaffJobs
  <2> QED
    BY <2>4, <2>5, <2>6, <2>7, <2>8, <2>9, <2>10 DEF StoreJobs, StaffJobs
<1>4. /\ n \in RequestSet /\ n.job = job /\ n.of = r /\ n.to = to /\ n.held = {}
      /\ n.want = FirstLocks(job, r)
  BY <1>2, <1>3 DEF Idle, RequestSet
<1> HIDE DEF n
<1>5. Orderly(n)
  <2>1. job \in StaffJobs => n.of \in Records
    BY <1>4
  <2>2. n.job # "idle"
    BY <1>4 DEF StoreJobs, StaffJobs
  <2>4. CASE job = "update"
    BY <1>4, <2>1, <2>2, <2>4 DEF Orderly, FirstLocks, Taking1, StoreLock
  <2>5. CASE job = "remove"
    BY <1>4, <2>1, <2>2, <2>5 DEF Orderly, FirstLocks, Taking1
  <2>6. CASE job = "clockIn"
    BY <1>4, <2>1, <2>2, <2>6 DEF Orderly, FirstLocks, Taking3, AccountLock
  <2>7. CASE job \in {"retire", "move", "cancel", "send", "sign"}
    <3>1. FirstLocks(job, r) = <<RecordLock(r)>>
      BY <2>7 DEF FirstLocks, RecordLock
    <3>2. Taking1(n, RecordLock(r))
      BY <1>4, <3>1 DEF Taking1
    <3> QED
      BY <1>4, <2>1, <2>2, <2>7, <3>2 DEF Orderly
  <2>8. CASE job = "resend"
    BY <1>4, <2>1, <2>2, <2>8 DEF Orderly, FirstLocks, Taking2, RecordLock
  <2>9. CASE job = "answer"
    BY <1>4, <2>1, <2>2, <2>9 DEF Orderly, FirstLocks, Taking2, AccountLock
  <2>10. CASE job = "write"
    <3>1. FirstLocks(job, r) \in {<<Lock(Store, "KEY SHARE")>>, <<RecordLock(r), Lock(Store, "KEY SHARE")>>}
      <4>1. FirstLocks(job, r) = (IF r \in Employed THEN <<RecordLock(r)>> ELSE <<>>)
                                 \o <<Lock(Store, "KEY SHARE")>>
        BY <2>10 DEF FirstLocks, RecordLock
      <4>2. r \in Employed => <<RecordLock(r)>> \o <<Lock(Store, "KEY SHARE")>>
                               = <<RecordLock(r), Lock(Store, "KEY SHARE")>>
        <5>1. ASSUME NEW x \in Locks, NEW y \in Locks
              PROVE  <<x>> \o <<y>> = <<x, y>>
          <6> DEFINE s == <<x>> \o <<y>>
          <6>1. s \in Seq(Locks) /\ Len(s) = 2 /\ s[1] = x /\ s[2] = y
            OBVIOUS
          <6>2. <<x, y>> \in Seq(Locks) /\ Len(<<x, y>>) = 2 /\ <<x, y>>[1] = x /\ <<x, y>>[2] = y
            OBVIOUS
          <6> HIDE DEF s
          <6>3. s = <<x, y>>
            BY <6>1, <6>2, SeqEqual
          <6> QED
            BY <6>3 DEF s
        <5> QED
          BY <5>1, LocksAreTyped DEF Employed, Modes
      <4> QED
        BY <4>1, <4>2, ShortSequences
    <3>2. Taking1(n, Lock(Store, "KEY SHARE")) \/ Taking2(n, RecordLock(r), Lock(Store, "KEY SHARE"))
      BY <1>4, <3>1 DEF Taking1, Taking2
    <3> QED
      BY <1>4, <2>1, <2>2, <2>10, <3>2 DEF Orderly
  <2> QED
    BY <2>4, <2>5, <2>6, <2>7, <2>8, <2>9, <2>10 DEF StoreJobs, StaffJobs
<1>6. n.to = "CLOSED" => InOrder(n)
  <2>1. n.to = "CLOSED" => job = "update"
    BY <1>4 DEF Aims, StoreJobs, StaffJobs
  <2> QED
    BY <1>4, <2>1 DEF InOrder, FirstLocks, StoreLock
<1>7. \A p \in Requests \ {q} : \A l \in n.held, m \in tx[p].held : ~Conflict(l, m)
  BY <1>4
<1> QED
  BY ONLY LocksInOrder, <1>1, <1>4, <1>5, <1>6, <1>7, OneRequestMoves, q \in Requests

LEMMA AcquireKeepsLocks ==
  ASSUME LocksInOrder, NEW q \in Requests, Acquire(q)
  PROVE  LocksInOrder'
<1>1. CASE ~StillGood(q)
  <2>1. Answer(q)
    BY <1>1 DEF Acquire, Answer
  <2> QED
    BY <2>1, AnswerKeepsLocks
<1>2. CASE StillGood(q)
  <2> DEFINE n == [tx[q] EXCEPT !.held = Granted(q), !.want = Tail(tx[q].want) \o More(q)]
  <2>1. /\ tx \in [Requests -> RequestSet] /\ tx[q] \in RequestSet /\ Orderly(tx[q])
        /\ tx[q].want # <<>> /\ (tx[q].to = "CLOSED" => InOrder(tx[q]))
    BY DEF LocksInOrder, Acquire
  <2>2. tx' = [tx EXCEPT ![q] = n]
    BY <1>2 DEF Acquire
  <2>3. n \in RequestSet /\ Orderly(n) /\ (n.to = "CLOSED" => InOrder(n))
    BY <2>1, GrantKeepsOrder
  <2>4. n.held = tx[q].held \union {Head(tx[q].want)}
    BY <2>1 DEF RequestSet, Granted
  <2>5. ASSUME NEW p \in Requests \ {q}, NEW m \in tx[p].held
        PROVE  /\ ~Conflict(Head(tx[q].want), m)
               /\ \A l \in tx[q].held : ~Conflict(l, m)
    BY <2>1, <2>5 DEF Acquire, Blockers, LocksInOrder, Compatible
  <2> HIDE DEF n
  <2>6. \A p \in Requests \ {q} : \A l \in n.held, m \in tx[p].held : ~Conflict(l, m)
    BY <2>4, <2>5
  <2> QED
    BY ONLY LocksInOrder, <2>2, <2>3, <2>6, OneRequestMoves, q \in Requests
<1> QED
  BY <1>1, <1>2

LEMMA AbortKeepsLocks ==
  ASSUME LocksInOrder, NEW q \in Requests, Abort(q)
  PROVE  LocksInOrder'
<1>1. CASE ~(tx[q].to = "CLOSED" /\ ~tx[q].again)
  <2>1. Answer(q)
    BY <1>1 DEF Abort, Answer
  <2> QED
    BY <2>1, AnswerKeepsLocks
<1>2. CASE tx[q].to = "CLOSED" /\ ~tx[q].again
  <2> DEFINE n == [tx[q] EXCEPT !.held = {}, !.again = TRUE, !.want = FirstLocks("update", None)]
  <2>1. tx \in [Requests -> RequestSet] /\ tx[q] \in RequestSet /\ Orderly(tx[q])
    BY DEF LocksInOrder
  <2>2. tx' = [tx EXCEPT ![q] = n]
    BY <1>2 DEF Abort
  <2>3. tx[q].job = "update"
    BY <1>2, <2>1 DEF Orderly, RequestSet, Jobs, Aims, StoreJobs, StaffJobs
  <2>4. FirstLocks("update", None) = <<StoreLock>> /\ <<StoreLock>> \in Seq(Locks)
    <3>1. FirstLocks("update", None) = <<StoreLock>>
      BY DEF FirstLocks, StoreLock
    <3> QED
      BY <3>1, LocksAreTyped
  <2>5. /\ n \in RequestSet /\ n.held = {} /\ n.want = <<StoreLock>>
        /\ n.job = "update" /\ n.to = "CLOSED"
    BY <1>2, <2>1, <2>3, <2>4 DEF RequestSet
  <2> HIDE DEF n
  <2>6. Orderly(n) /\ InOrder(n)
    BY <2>5 DEF Orderly, InOrder, StaffJobs, Aims
  <2>7. \A p \in Requests \ {q} : \A l \in n.held, m \in tx[p].held : ~Conflict(l, m)
    BY <2>5
  <2> QED
    BY ONLY LocksInOrder, <2>2, <2>5, <2>6, <2>7, OneRequestMoves, q \in Requests
<1> QED
  BY <1>1, <1>2

\* What a step of the module does to the requests, whatever it does to the rows.
LEMMA StepsOfRequests ==
  ASSUME [Next]_vars
  PROVE  \/ tx' = tx
         \/ \E q \in Requests : Answer(q) \/ Acquire(q) \/ Abort(q)
         \/ \E q \in Requests, job \in StoreJobs : \E to \in Aims(job) : Begin(q, job, None, to)
         \/ \E q \in Requests, job \in StaffJobs, r \in Records : \E to \in Aims(job) : Begin(q, job, r, to)
<1>1. ASSUME NEW q \in Requests,
             Update(q) \/ Close(q) \/ CloseRefused(q) \/ RemoveStore(q) \/ ClockIn(q)
      PROVE  Answer(q)
  BY <1>1 DEF Update, Close, CloseRefused, RemoveStore, ClockIn
<1>2. ASSUME NEW q \in Requests,
             Retire(q) \/ RetireRefused(q) \/ Write(q) \/ WriteRefused(q)
      PROVE  Answer(q)
  BY <1>2 DEF Retire, RetireRefused, Write, WriteRefused
<1>3. ASSUME NEW q \in Requests,
             Send(q) \/ SendRefused(q) \/ Accept(q) \/ AnswerRefused(q) \/ Sign(q)
      PROVE  Answer(q)
  BY <1>3 DEF Send, SendRefused, Accept, AnswerRefused, Sign
<1>4. ASSUME NEW r \in Records, ClockOut(r) \/ RetireDue(r)
      PROVE  tx' = tx
  BY <1>4 DEF ClockOut, RetireDue
<1>5. NextDay \/ UNCHANGED vars => tx' = tx
  BY DEF NextDay, vars
<1> QED
  BY <1>1, <1>2, <1>3, <1>4, <1>5 DEF Next, Steps

LEMMA LocksStayInOrder ==
  ASSUME LocksInOrder, TypeOK, [Next]_vars
  PROVE  LocksInOrder'
<1>1. ASSUME tx' = tx
      PROVE  LocksInOrder'
  BY <1>1 DEF LocksInOrder, Compatible
<1>2. ASSUME NEW q \in Requests, Answer(q) \/ Acquire(q) \/ Abort(q)
      PROVE  LocksInOrder'
  BY <1>2, AnswerKeepsLocks, AcquireKeepsLocks, AbortKeepsLocks
<1>3. ASSUME NEW q \in Requests, NEW job \in StoreJobs, NEW to \in Aims(job), Begin(q, job, None, to)
      PROVE  LocksInOrder'
  <2>1. job \notin StaffJobs
    BY DEF StoreJobs, StaffJobs
  <2> QED
    BY <1>3, <2>1, BeginKeepsLocks
<1>4. ASSUME NEW q \in Requests, NEW job \in StaffJobs, NEW r \in Records, NEW to \in Aims(job),
             Begin(q, job, r, to)
      PROVE  LocksInOrder'
  <2>1. job \notin StoreJobs
    BY DEF StoreJobs, StaffJobs
  <2> QED
    BY <1>4, <2>1, BeginKeepsLocks
<1> QED
  BY <1>1, <1>2, <1>3, <1>4, StepsOfRequests


-----------------------------------------------------------------------------
(* What the locks exclude                                                  *)

LEMMA WhatIsHeld ==
  ASSUME LocksInOrder, NEW q \in Requests
  PROVE  /\ tx[q].job = "update" /\ tx[q].held # {} => StoreLock \in tx[q].held
         /\ tx[q].job = "remove" /\ tx[q].held # {} => Lock(Store, "UPDATE") \in tx[q].held
         /\ tx[q].job = "clockIn" /\ tx[q].held # {} => AccountLock(tx[q].of) \in tx[q].held
         /\ tx[q].job = "answer" /\ tx[q].want = <<>> => Lock(Staff(tx[q].of), "UPDATE") \in tx[q].held
         /\ tx[q].job \in StoreJobs /\ tx[q].want = <<>> => tx[q].held # {}
         /\ tx[q].job = "clockIn" /\ tx[q].want = <<>> => tx[q].held # {}
         /\ tx[q].job \in StaffJobs => tx[q].of \in Records
         /\ tx[q].to = "CLOSED" => tx[q].job = "update"
         /\ tx[q].job = "update" => tx[q].to \in {"NOT_OPERATING", "OPERATING", "CLOSED"}
         /\ tx[q].job = "write" => tx[q].to \in {"DRAFT", "PENDING_SEND"}
         /\ tx[q].job = "sign" => tx[q].to \in {"SIGNED", "REJECTED"}
         /\ tx[q].job = "answer" => tx[q].to \in {"ACCEPTED", "REJECTED"}
         /\ tx[q].job \in Jobs
<1> DEFINE t == tx[q]
<1>1. t \in RequestSet /\ Orderly(t) /\ (t.to = "CLOSED" => InOrder(t))
  BY DEF LocksInOrder
<1>2. t.job \in Jobs
  BY <1>1 DEF RequestSet
<1>3. ASSUME t.job \in StoreJobs \union StaffJobs
      PROVE  t.to \in Aims(t.job)
  BY <1>1, <1>3 DEF Orderly
<1>4. /\ t.to = "CLOSED" => t.job = "update"
      /\ t.job = "update" => t.to \in {"NOT_OPERATING", "OPERATING", "CLOSED"}
      /\ t.job = "write" => t.to \in {"DRAFT", "PENDING_SEND"}
      /\ t.job = "sign" => t.to \in {"SIGNED", "REJECTED"}
      /\ t.job = "answer" => t.to \in {"ACCEPTED", "REJECTED"}
  <2>1. t.job = "idle" => t.to = "none"
    BY <1>1 DEF Orderly
  <2> HIDE DEF t
  <2> QED
    BY <1>2, <1>3, <2>1 DEF Aims, Jobs, StoreJobs, StaffJobs
<1>5. \A x, y, z : <<x>> # <<>> /\ <<x, y>> # <<>>
  BY ShortSequences
<1>6. t.job = "update" => \/ t.held = {} /\ t.want # <<>>
                          \/ StoreLock \in t.held
  <2>1. CASE t.to = "CLOSED"
    BY <1>1, <1>5, <2>1 DEF InOrder
  <2>2. CASE t.to # "CLOSED"
    BY <1>1, <1>5, <2>2 DEF Orderly, Taking1
  <2> QED
    BY <2>1, <2>2
<1>7. t.job = "remove" => \/ t.held = {} /\ t.want # <<>>
                          \/ Lock(Store, "UPDATE") \in t.held
  BY <1>1, <1>5 DEF Orderly, Taking1
<1>8. t.job = "clockIn" => \/ t.held = {} /\ t.want # <<>>
                           \/ AccountLock(t.of) \in t.held
  BY <1>1, <1>5 DEF Orderly, Taking3
<1>9. t.job = "answer" /\ t.want = <<>> => Lock(Staff(t.of), "UPDATE") \in t.held
  BY <1>1, <1>5 DEF Orderly, Taking2
<1>10. t.job \in StaffJobs => t.of \in Records
  BY <1>1 DEF Orderly
<1> HIDE DEF t
<1>11. t.job \in StoreJobs => t.job \in {"update", "remove"}
  BY DEF StoreJobs
<1>12. t.job \in StoreJobs /\ t.want = <<>> => t.held # {}
  BY <1>6, <1>7, <1>11
<1> QED
  BY <1>2, <1>4, <1>6, <1>7, <1>8, <1>9, <1>10, <1>12 DEF t

\* One update, closing or removal of the store at a time.
LEMMA OneHasTheStore ==
  ASSUME LocksInOrder, NEW p \in Requests, NEW q \in Requests, p # q,
         tx[p].job \in StoreJobs, tx[q].job \in StoreJobs, tx[q].held # {}
  PROVE  tx[p].held = {}
<1> SUFFICES ASSUME tx[p].held # {}
             PROVE  FALSE
  OBVIOUS
<1>1. ASSUME NEW o \in Requests, tx[o].job \in StoreJobs, tx[o].held # {}
      PROVE  \E m \in {"NO KEY UPDATE", "UPDATE"} : Lock(Store, m) \in tx[o].held
  BY <1>1, WhatIsHeld DEF StoreJobs, StoreLock
<1>2. PICK m \in {"NO KEY UPDATE", "UPDATE"} : Lock(Store, m) \in tx[p].held
  BY <1>1
<1>3. PICK k \in {"NO KEY UPDATE", "UPDATE"} : Lock(Store, k) \in tx[q].held
  BY <1>1
<1>4. Conflict(Lock(Store, m), Lock(Store, k))
  BY WhatConflicts DEF Modes
<1> QED
  BY <1>2, <1>3, <1>4 DEF LocksInOrder, Compatible

\* Nobody answers for a record a closing has locked, or clocks in with an account it has.
LEMMA ClosingExcludes ==
  ASSUME LocksInOrder, NEW p \in Requests, NEW q \in Requests, p # q, NEW r \in Records
  PROVE  /\ RecordLock(r) \in tx[q].held =>
              ~(tx[p].job = "answer" /\ tx[p].of = r /\ tx[p].want = <<>>)
         /\ AccountLock(r) \in tx[q].held =>
              ~(tx[p].job = "clockIn" /\ tx[p].of = r /\ tx[p].held # {})
<1>1. Conflict(RecordLock(r), Lock(Staff(r), "UPDATE")) /\ Conflict(AccountLock(r), AccountLock(r))
  BY WhatConflicts DEF RecordLock, AccountLock, Modes
<1> QED
  BY <1>1, WhatIsHeld DEF LocksInOrder, Compatible

-----------------------------------------------------------------------------
(* The steps, and the requests after them                                  *)

Refuse(q) == Answer(q) /\ UNCHANGED rows
Retry(q) ==
  /\ tx[q].to = "CLOSED"
  /\ tx' = [tx EXCEPT ![q] = [@ EXCEPT !.held = {}, !.again = TRUE,
                                       !.want = FirstLocks("update", None)]]
  /\ UNCHANGED rows
Starts(q) ==
  \/ \E job \in StoreJobs : \E to \in Aims(job) : Begin(q, job, None, to)
  \/ \E job \in StaffJobs, r \in Records : \E to \in Aims(job) : Begin(q, job, r, to)

LEMMA AllSteps ==
  ASSUME [Next]_vars
  PROVE  \/ tx' = tx /\ UNCHANGED rows
         \/ \E q \in Requests : Refuse(q) \/ Starts(q) \/ (Acquire(q) /\ StillGood(q)) \/ Retry(q)
         \/ \E q \in Requests : Update(q) \/ Close(q) \/ RemoveStore(q) \/ ClockIn(q) \/ Retire(q)
         \/ \E q \in Requests : Write(q) \/ Send(q) \/ Accept(q) \/ Sign(q)
         \/ \E r \in Records : ClockOut(r) \/ RetireDue(r)
         \/ NextDay
<1>1. ASSUME NEW q \in Requests, Acquire(q), ~StillGood(q)
      PROVE  Refuse(q)
  BY <1>1 DEF Acquire, Refuse, Answer
<1>2. ASSUME NEW q \in Requests, Abort(q)
      PROVE  Refuse(q) \/ Retry(q)
  BY <1>2 DEF Abort, Refuse, Answer, Retry
<1>3. ASSUME NEW q \in Requests, CloseRefused(q) \/ RetireRefused(q) \/ WriteRefused(q)
                                 \/ SendRefused(q) \/ AnswerRefused(q)
      PROVE  Refuse(q)
  BY <1>3 DEF CloseRefused, RetireRefused, WriteRefused, SendRefused, AnswerRefused, Refuse
<1>4. UNCHANGED vars => tx' = tx /\ UNCHANGED rows
  BY DEF vars
<1>5. ASSUME NEW q \in Requests, Steps(q)
      PROVE  \/ Refuse(q) \/ Starts(q) \/ (Acquire(q) /\ StillGood(q)) \/ Retry(q)
             \/ Update(q) \/ Close(q) \/ RemoveStore(q) \/ ClockIn(q) \/ Retire(q)
             \/ Write(q) \/ Send(q) \/ Accept(q) \/ Sign(q)
  BY <1>1, <1>2, <1>3, <1>5 DEF Steps, Starts
<1> QED
  BY <1>4, <1>5 DEF Next

LEMMA AfterAnswer ==
  ASSUME LocksInOrder, NEW q \in Requests, Answer(q), NEW p \in Requests
  PROVE  /\ p # q => tx'[p] = tx[p]
         /\ p = q => tx'[p].held = {} /\ tx'[p].job = "idle" /\ tx'[p].to = "none"
BY IdleRequest DEF LocksInOrder, Answer

LEMMA AfterStart ==
  ASSUME LocksInOrder, NEW q \in Requests, Starts(q), NEW p \in Requests
  PROVE  /\ UNCHANGED rows
         /\ p # q => tx'[p] = tx[p]
         /\ p = q => tx'[p].held = {} /\ tx'[p].seen = changes
         /\ tx'[p].job = "update" /\ p = q => changes < MaxChanges /\ status \notin {"CLOSED", "deleted"}
<1>1. ASSUME NEW job, NEW r, NEW to, Begin(q, job, r, to)
      PROVE  /\ UNCHANGED rows
             /\ p # q => tx'[p] = tx[p]
             /\ p = q => tx'[p].held = {} /\ tx'[p].seen = changes /\ tx'[p].job = job
             /\ job = "update" => changes < MaxChanges /\ status \notin {"CLOSED", "deleted"}
  BY <1>1 DEF LocksInOrder, Begin, Idle, Admitted, There
<1> QED
  BY <1>1 DEF Starts

LEMMA AfterGrant ==
  ASSUME LocksInOrder, NEW q \in Requests, Acquire(q), StillGood(q), NEW p \in Requests
  PROVE  /\ UNCHANGED rows /\ tx[q].want # <<>>
         /\ p # q => tx'[p] = tx[p]
         /\ p = q => /\ tx'[p].held = Granted(q) /\ tx'[p].want = Tail(tx[q].want) \o More(q)
                     /\ tx'[p].job = tx[p].job /\ tx'[p].of = tx[p].of /\ tx'[p].to = tx[p].to
                     /\ tx'[p].seen = tx[p].seen
<1>1. /\ UNCHANGED rows /\ tx[q].want # <<>>
      /\ tx' = [tx EXCEPT ![q] = [tx[q] EXCEPT !.held = Granted(q), !.want = Tail(tx[q].want) \o More(q)]]
  BY DEF Acquire
<1>2. tx \in [Requests -> RequestSet] /\ tx[q] \in RequestSet
  BY DEF LocksInOrder
<1> QED
  BY <1>1, <1>2 DEF RequestSet

LEMMA AfterRetry ==
  ASSUME LocksInOrder, NEW q \in Requests, Retry(q), NEW p \in Requests
  PROVE  /\ UNCHANGED rows
         /\ p # q => tx'[p] = tx[p]
         /\ p = q => /\ tx'[p].held = {} /\ tx'[p].job = tx[p].job /\ tx'[p].to = tx[p].to
                     /\ tx'[p].seen = tx[p].seen
<1>1. tx \in [Requests -> RequestSet] /\ tx[q] \in RequestSet
  BY DEF LocksInOrder
<1> QED
  BY <1>1 DEF RequestSet, Retry


-----------------------------------------------------------------------------
(* The rows keep their types                                               *)

RowTypes ==
  /\ day \in 1..Days /\ closedOn \in 0..Days /\ closedOn <= day
  /\ changes \in 0..(MaxChanges + 1) /\ (There => changes <= MaxChanges)
  /\ status \in {"NOT_OPERATING", "OPERATING", "CLOSED", "deleted"}
  /\ staff \in [Records -> [employment : {"none", "EMPLOYED", "RETIRED"},
                            retire : 0..Days, linked : BOOLEAN]]
  /\ contract \in [Records -> Pending \cup {"none", "SIGNED", "REJECTED", "ENDED"}]
  /\ invited \in [Records -> {"none", "SENT", "ACCEPTED", "REJECTED", "EXPIRED"}]
  /\ atWork \subseteq Records /\ late \subseteq Records

LEMMA TypesOfRows ==
  ASSUME LocksInOrder
  PROVE  TypeOK /\ closedOn <= day /\ (There => changes <= MaxChanges) <=> RowTypes
BY WhatIsHeld DEF TypeOK, RowTypes, Jobs

LEMMA EndingKeepsTypes ==
  /\ \A c \in Pending \cup {"none", "SIGNED", "REJECTED", "ENDED"} :
       Ended(c) \in Pending \cup {"none", "SIGNED", "REJECTED", "ENDED"} /\ Ended(c) \notin Pending
  /\ \A i \in {"none", "SENT", "ACCEPTED", "REJECTED", "EXPIRED"} :
       Expired(i) \in {"none", "SENT", "ACCEPTED", "REJECTED", "EXPIRED"} /\ Expired(i) # "SENT"
BY DEF Ended, Expired, Pending

\* The records, contracts and invitations after a retirement, settled or scheduled.
LEMMA AfterRetirement ==
  ASSUME RowTypes, NEW r \in Records, NEW date \in 0..Days,
         staff[r].employment # "none", Finalized(r, date) \/ Scheduled(r, date)
  PROVE  /\ staff' \in [Records -> [employment : {"none", "EMPLOYED", "RETIRED"},
                                    retire : 0..Days, linked : BOOLEAN]]
         /\ contract' \in [Records -> Pending \cup {"none", "SIGNED", "REJECTED", "ENDED"}]
         /\ invited' \in [Records -> {"none", "SENT", "ACCEPTED", "REJECTED", "EXPIRED"}]
         /\ \A x \in Records :
              /\ staff'[x].linked = staff[x].linked
              /\ staff'[x].employment = "none" <=> staff[x].employment = "none"
              /\ staff'[x].employment = "EMPLOYED" => staff[x].employment = "EMPLOYED"
              /\ x # r => staff'[x] = staff[x]
              /\ contract'[x] \in {contract[x], Ended(contract[x])}
              /\ invited'[x] \in {invited[x], Expired(invited[x])}
<1> DEFINE Types == /\ staff' \in [Records -> [employment : {"none", "EMPLOYED", "RETIRED"},
                                             retire : 0..Days, linked : BOOLEAN]]
                    /\ contract' \in [Records -> Pending \cup {"none", "SIGNED", "REJECTED", "ENDED"}]
                    /\ invited' \in [Records -> {"none", "SENT", "ACCEPTED", "REJECTED", "EXPIRED"}]
           Kept(x) == /\ staff'[x].linked = staff[x].linked
                      /\ staff'[x].employment = "none" <=> staff[x].employment = "none"
                      /\ staff'[x].employment = "EMPLOYED" => staff[x].employment = "EMPLOYED"
                      /\ x # r => staff'[x] = staff[x]
                      /\ contract'[x] \in {contract[x], Ended(contract[x])}
                      /\ invited'[x] \in {invited[x], Expired(invited[x])}
<1>1. CASE Finalized(r, date) /\ staff[r].employment # "none"
  <2>1. /\ staff' = [staff EXCEPT ![r] = [staff[r] EXCEPT !.retire = date, !.employment = "RETIRED"]]
        /\ contract' = [contract EXCEPT ![r] = Ended(contract[r])]
        /\ invited' = [invited EXCEPT ![r] = Expired(invited[r])]
    BY <1>1 DEF Finalized, RowTypes
  <2>2. [staff[r] EXCEPT !.retire = date, !.employment = "RETIRED"]
           \in [employment : {"none", "EMPLOYED", "RETIRED"}, retire : 0..Days, linked : BOOLEAN]
    BY DEF RowTypes
  <2>3. Types
    BY <2>1, <2>2, EndingKeepsTypes DEF RowTypes
  <2>4. ASSUME NEW x \in Records
        PROVE  Kept(x)
    <3>1. CASE x = r
      BY <1>1, <2>1, <3>1 DEF RowTypes
    <3>2. CASE x # r
      BY <2>1, <3>2 DEF RowTypes
    <3> QED
      BY <3>1, <3>2
  <2> QED
    BY <2>3, <2>4
<1>2. CASE staff' = [staff EXCEPT ![r].retire = date] /\ UNCHANGED <<contract, invited>>
  <2>1. staff' = [staff EXCEPT ![r] = [staff[r] EXCEPT !.retire = date]]
    BY <1>2 DEF RowTypes
  <2>2. [staff[r] EXCEPT !.retire = date]
           \in [employment : {"none", "EMPLOYED", "RETIRED"}, retire : 0..Days, linked : BOOLEAN]
    BY DEF RowTypes
  <2>3. Types
    BY <1>2, <2>1, <2>2 DEF RowTypes
  <2>4. ASSUME NEW x \in Records
        PROVE  Kept(x)
    BY <1>2, <2>1 DEF RowTypes
  <2> QED
    BY <2>3, <2>4
<1> QED
  BY <1>1, <1>2 DEF Scheduled

LEMMA RetireSchedules ==
  ASSUME RowTypes, NEW q, Retire(q)
  PROVE  /\ \E date \in 0..Days : Scheduled(tx[q].of, date)
         /\ tx[q].of \in Employed /\ (staff[tx[q].of].retire = 0 \/ staff[tx[q].of].retire > day)
BY StoreAssumption DEF Retire, RowTypes, MayRetire, MayMove

LEMMA TypesStay ==
  ASSUME StoreInv, [Next]_vars
  PROVE  (TypeOK /\ closedOn <= day /\ (There => changes <= MaxChanges))'
<1>1. LocksInOrder /\ RowTypes /\ LocksInOrder'
  BY TypesOfRows, LocksStayInOrder DEF StoreInv, RowsOK
<1>2. Days \in Nat /\ MaxChanges \in Nat
  BY StoreAssumption
<1>3. ASSUME UNCHANGED rows
      PROVE  RowTypes'
  BY <1>1, <1>3 DEF rows, RowTypes, There
<1>4. ASSUME NEW q \in Requests, Refuse(q) \/ Starts(q) \/ (Acquire(q) /\ StillGood(q)) \/ Retry(q)
      PROVE  RowTypes'
  BY <1>1, <1>3, <1>4, AfterStart, AfterGrant DEF Refuse, Retry
<1>5. ASSUME NEW q \in Requests, tx[q].job = "update", tx[q].want = <<>>
      PROVE  changes < MaxChanges /\ There /\ tx[q].to \in {"NOT_OPERATING", "OPERATING", "CLOSED"}
  <2>1. tx[q].held # {}
    BY <1>1, <1>5, WhatIsHeld DEF StoreJobs
  <2>2. tx[q].seen < MaxChanges /\ tx[q].seen = changes /\ status \notin {"CLOSED", "deleted"}
    BY <1>5, <2>1 DEF StoreInv, RowsOK, UpdatesAreCurrent
  <2> QED
    BY <1>1, <1>5, <2>2, WhatIsHeld DEF There
<1>6. ASSUME NEW q \in Requests, Update(q)
      PROVE  RowTypes'
  BY <1>1, <1>2, <1>5, <1>6 DEF Update, Finishing, RowTypes, There
<1>7. ASSUME NEW q \in Requests, Close(q)
      PROVE  RowTypes'
  <2>1. changes < MaxChanges
    BY <1>5, <1>7 DEF Close, Finishing
  <2>2. /\ status' = "CLOSED" /\ changes' = changes + 1 /\ closedOn' = day
        /\ UNCHANGED <<day, atWork, late>>
        /\ contract' = [r \in Records |-> Ended(contract[r])]
        /\ invited' = [r \in Records |-> Expired(invited[r])]
    BY <1>7 DEF Close
  <2>3. staff' \in [Records -> [employment : {"none", "EMPLOYED", "RETIRED"},
                                retire : 0..Days, linked : BOOLEAN]]
    <3>1. \A r \in Records : day \in 0..Days /\ [staff[r] EXCEPT !.retire = day] \in
                               [employment : {"none", "EMPLOYED", "RETIRED"},
                                retire : 0..Days, linked : BOOLEAN]
      BY <1>1, <1>2 DEF RowTypes
    <3> QED
      BY <1>1, <1>7, <3>1 DEF Close, RowTypes
  <2>4. /\ contract' \in [Records -> Pending \cup {"none", "SIGNED", "REJECTED", "ENDED"}]
        /\ invited' \in [Records -> {"none", "SENT", "ACCEPTED", "REJECTED", "EXPIRED"}]
    BY <1>1, <2>2, EndingKeepsTypes DEF RowTypes
  <2> QED
    BY <1>1, <1>2, <2>1, <2>2, <2>3, <2>4 DEF RowTypes, There
<1>8. ASSUME NEW q \in Requests, RemoveStore(q)
      PROVE  RowTypes'
  BY <1>1, <1>2, <1>8 DEF RemoveStore, RowTypes, There
<1>9. ASSUME NEW q \in Requests, ClockIn(q)
      PROVE  RowTypes'
  <2>1. tx[q].of \in Records
    BY <1>1, <1>9, WhatIsHeld DEF ClockIn, Finishing, StaffJobs
  <2> QED
    BY <1>1, <1>9, <2>1 DEF ClockIn, RowTypes, There
<1>10. ASSUME NEW q \in Requests, Retire(q)
       PROVE  RowTypes'
  <2>1. PICK date \in 0..Days : Scheduled(tx[q].of, date)
    BY <1>1, <1>10, RetireSchedules
  <2>2. tx[q].of \in Records /\ staff[tx[q].of].employment # "none"
    BY <1>1, <1>10, RetireSchedules DEF Employed
  <2>3. UNCHANGED <<day, status, changes, closedOn, atWork, late>>
    BY <1>10 DEF Retire
  <2> QED
    BY <1>1, <2>1, <2>2, <2>3, AfterRetirement DEF RowTypes, There
<1>11. ASSUME NEW r \in Records, RetireDue(r)
       PROVE  RowTypes'
  <2>1. /\ staff[r].retire \in 0..Days /\ Finalized(r, staff[r].retire)
        /\ staff[r].employment # "none"
    BY <1>1, <1>11 DEF RetireDue, RowTypes, Employed
  <2>2. UNCHANGED <<day, status, changes, closedOn, atWork, late>>
    BY <1>11 DEF RetireDue
  <2> QED
    BY <1>1, <2>1, <2>2, AfterRetirement DEF RowTypes, There
<1>12. ASSUME NEW q \in Requests, Write(q)
       PROVE  RowTypes'
  <2>1. tx[q].of \in Records /\ tx[q].to \in Pending
    BY <1>1, <1>12, WhatIsHeld DEF Write, Finishing, StaffJobs, Pending
  <2>2. \A i \in {"none", "SENT", "ACCEPTED", "REJECTED", "EXPIRED"} :
           Expired(i) \in {"none", "SENT", "ACCEPTED", "REJECTED", "EXPIRED"}
    BY EndingKeepsTypes
  <2> QED
    BY <1>1, <1>12, <2>1, <2>2 DEF Write, RowTypes, There
<1>13. ASSUME NEW q \in Requests, Send(q)
       PROVE  RowTypes'
  <2>1. "PENDING_SIGNATURE" \in Pending /\ "PENDING_SEND" \in Pending
    BY DEF Pending
  <2>2. /\ contract' \in [Records -> Pending \cup {"none", "SIGNED", "REJECTED", "ENDED"}]
        /\ invited' \in [Records -> {"none", "SENT", "ACCEPTED", "REJECTED", "EXPIRED"}]
    <3> DEFINE r == tx[q].of
    <3>1. \/ contract' = contract
          \/ contract' = [contract EXCEPT ![r] = "PENDING_SIGNATURE"]
          \/ contract' = [contract EXCEPT ![r] = "PENDING_SEND"]
      <4>1. CASE staff[r].linked
        BY <1>13, <4>1 DEF Send
      <4>2. CASE ~staff[r].linked
        BY <1>13, <4>2 DEF Send
      <4> QED
        BY <4>1, <4>2
    <3>2. invited' = invited \/ invited' = [invited EXCEPT ![r] = "SENT"]
      BY <1>13 DEF Send
    <3> HIDE DEF r
    <3> QED
      BY <1>1, <2>1, <3>1, <3>2 DEF RowTypes
  <2>3. UNCHANGED <<day, status, changes, closedOn, staff, atWork, late>>
    BY <1>13 DEF Send
  <2> QED
    BY <1>1, <2>2, <2>3 DEF RowTypes, There
<1>14. ASSUME NEW q \in Requests, Accept(q)
       PROVE  RowTypes'
  <2>1. "PENDING_SIGNATURE" \in Pending /\ tx[q].of \in Records /\ tx[q].to \in {"ACCEPTED", "REJECTED"}
    BY <1>1, <1>14, WhatIsHeld DEF Pending, Accept, Finishing, StaffJobs
  <2> QED
    BY <1>1, <1>14, <2>1 DEF Accept, RowTypes, There
<1>15. ASSUME NEW q \in Requests, Sign(q)
       PROVE  RowTypes'
  <2>1. tx[q].of \in Records /\ tx[q].to \in {"SIGNED", "REJECTED"}
    BY <1>1, <1>15, WhatIsHeld DEF Sign, Finishing, StaffJobs
  <2> QED
    BY <1>1, <1>15, <2>1 DEF Sign, RowTypes, There
<1>16. ASSUME NEW r \in Records, ClockOut(r)
       PROVE  RowTypes'
  BY <1>1, <1>16 DEF ClockOut, RowTypes, There
<1>17. ASSUME NextDay
       PROVE  RowTypes'
  BY <1>1, <1>2, <1>17 DEF NextDay, RowTypes, There
<1>18. RowTypes'
  BY <1>3, <1>4, <1>6, <1>7, <1>8, <1>9, <1>10, <1>11, <1>12, <1>13, <1>14, <1>15, <1>16, <1>17, AllSteps
<1>19. (\A q \in Requests : tx[q].job \in Jobs)'
  BY <1>1 DEF LocksInOrder, RequestSet
<1> QED
  BY <1>18, <1>19 DEF TypeOK, RowTypes, Jobs, There


-----------------------------------------------------------------------------
(* Updates read the row as it is                                           *)

LEMMA UpdatesStayCurrent ==
  ASSUME StoreInv, [Next]_vars
  PROVE  UpdatesAreCurrent'
<1>1. LocksInOrder /\ RowTypes /\ UpdatesAreCurrent
  BY TypesOfRows DEF StoreInv, RowsOK
<1>2. changes \in Nat /\ MaxChanges \in Nat
  BY <1>1, StoreAssumption DEF RowTypes
<1> DEFINE Current(p) == tx'[p].job = "update" =>
                           /\ tx'[p].seen <= changes' /\ tx'[p].seen < MaxChanges
                           /\ tx'[p].seen = changes' => status' \notin {"CLOSED", "deleted"}
                           /\ tx'[p].held # {} => tx'[p].seen = changes'
<1> SUFFICES ASSUME NEW p \in Requests PROVE Current(p)
  BY DEF UpdatesAreCurrent
<1>3. tx[p].seen \in Nat
  BY <1>1 DEF LocksInOrder, RequestSet
<1>4. tx[p].job = "update" =>
        /\ tx[p].seen <= changes /\ tx[p].seen < MaxChanges
        /\ tx[p].seen = changes => status \notin {"CLOSED", "deleted"}
        /\ tx[p].held # {} => tx[p].seen = changes
  BY <1>1 DEF UpdatesAreCurrent
<1>5. ASSUME tx'[p] = tx[p] \/ tx'[p].job = "idle", UNCHANGED <<status, changes>>
      PROVE  Current(p)
  BY <1>4, <1>5
<1>6. ASSUME NEW q \in Requests, Answer(q), UNCHANGED <<status, changes>>
      PROVE  Current(p)
  BY <1>1, <1>5, <1>6, AfterAnswer
<1>7. ASSUME NEW q \in Requests, tx[q].job \in StoreJobs, tx[q].want = <<>>, Answer(q),
             changes' = changes + 1
      PROVE  Current(p)
  <2>1. tx[q].held # {}
    BY <1>1, <1>7, WhatIsHeld
  <2>2. CASE p = q
    BY <1>1, <1>7, <2>2, AfterAnswer
  <2>3. CASE p # q
    <3>1. tx'[p] = tx[p] /\ (tx[p].job = "update" => tx[p].held = {})
      BY <1>1, <1>7, <2>1, <2>3, AfterAnswer, OneHasTheStore DEF StoreJobs
    <3> QED
      BY <1>2, <1>3, <1>4, <1>7, <3>1
  <2> QED
    BY <2>2, <2>3
<1>8. CASE tx' = tx /\ UNCHANGED rows
  BY <1>5, <1>8 DEF rows
<1>9. ASSUME NEW q \in Requests, Refuse(q)
      PROVE  Current(p)
  BY <1>6, <1>9 DEF Refuse, rows
<1>10. ASSUME NEW q \in Requests, Starts(q)
       PROVE  Current(p)
  <2>1. UNCHANGED <<status, changes>>
    BY <1>1, <1>10, AfterStart DEF rows
  <2>2. CASE p = q
    BY <1>1, <1>2, <1>10, <2>1, <2>2, AfterStart
  <2>3. CASE p # q
    BY <1>1, <1>5, <1>10, <2>1, <2>3, AfterStart
  <2> QED
    BY <2>2, <2>3
<1>11. ASSUME NEW q \in Requests, Acquire(q), StillGood(q)
       PROVE  Current(p)
  <2>1. UNCHANGED <<status, changes>> /\ tx[q].want # <<>>
    BY <1>1, <1>11, AfterGrant DEF rows
  <2>2. CASE p # q
    BY <1>1, <1>5, <1>11, <2>1, <2>2, AfterGrant
  <2>3. CASE p = q /\ tx[q].job = "update"
    <3>1. tx'[p].job = "update" /\ tx'[p].seen = tx[p].seen
      BY <1>1, <1>11, <2>3, AfterGrant
    <3>2. tx[p].held # {} \/ Head(tx[p].want).row = Store
      <4>1. Orderly(tx[p]) /\ (tx[p].to = "CLOSED" => InOrder(tx[p]))
        BY <1>1 DEF LocksInOrder
      <4>2. tx[p].held # {} \/ Head(tx[p].want) = StoreLock
        BY <2>3, <4>1, ShortSequences DEF Orderly, InOrder, Taking1
      <4> QED
        BY <4>2, RowsOfLocks
    <3>3. tx[p].seen = changes
      BY <1>4, <1>11, <2>3, <3>2 DEF StillGood
    <3> QED
      BY <1>2, <1>4, <2>1, <2>3, <3>1, <3>3
  <2>4. CASE p = q /\ tx[q].job # "update"
    BY <1>1, <1>11, <2>4, AfterGrant
  <2> QED
    BY <2>2, <2>3, <2>4
<1>12. ASSUME NEW q \in Requests, Retry(q)
       PROVE  Current(p)
  <2>1. UNCHANGED <<status, changes>>
    BY <1>1, <1>12, AfterRetry DEF rows
  <2>2. CASE p = q
    BY <1>1, <1>4, <1>12, <2>1, <2>2, AfterRetry
  <2>3. CASE p # q
    BY <1>1, <1>5, <1>12, <2>1, <2>3, AfterRetry
  <2> QED
    BY <2>2, <2>3
<1>13. ASSUME NEW q \in Requests, Update(q) \/ Close(q)
       PROVE  Current(p)
  <2>1. tx[q].job = "update" /\ tx[q].want = <<>> /\ Answer(q) /\ changes' = changes + 1
    BY <1>13 DEF Update, Close, Finishing
  <2> QED
    BY <1>7, <2>1 DEF StoreJobs
<1>14. ASSUME NEW q \in Requests, RemoveStore(q)
       PROVE  Current(p)
  <2>1. /\ tx[q].job = "remove" /\ tx[q].want = <<>> /\ Answer(q)
        /\ changes' = changes + 1 \/ UNCHANGED <<status, changes>>
    BY <1>14 DEF RemoveStore, Finishing
  <2> QED
    BY <1>6, <1>7, <2>1 DEF StoreJobs
<1>15. ASSUME NEW q \in Requests, ClockIn(q) \/ Retire(q) \/ Write(q) \/ Send(q) \/ Accept(q) \/ Sign(q)
       PROVE  Current(p)
  <2>1. Answer(q) /\ UNCHANGED <<status, changes>>
    BY <1>15 DEF ClockIn, Retire, Write, Send, Accept, Sign
  <2> QED
    BY <1>6, <2>1
<1>16. ASSUME NEW r \in Records, ClockOut(r) \/ RetireDue(r)
       PROVE  Current(p)
  BY <1>5, <1>16 DEF ClockOut, RetireDue
<1>17. ASSUME NextDay
       PROVE  Current(p)
  BY <1>5, <1>17 DEF NextDay
<1> HIDE DEF Current
<1> QED
  BY <1>8, <1>9, <1>10, <1>11, <1>12, <1>13, <1>14, <1>15, <1>16, <1>17, AllSteps


-----------------------------------------------------------------------------
(* A closing knows whom it has to retire                                   *)

\* Granted a lock, a request knows what it knew and what it learns.
LEMMA KnowledgeGrows ==
  ASSUME NEW t, NEW n, NEW S, t.want \in Seq(S), t.want # <<>>,
         n.held = t.held \union {Head(t.want)}, NEW l
  PROVE  /\ n.want = Tail(t.want) => (Knows(n, l) <=> Knows(t, l))
         /\ Knows(t, l) /\ Len(t.want) = 1 => l \in n.held
<1>0. PICK s : s = t.want
  OBVIOUS
<1>5. s \in Seq(S) /\ s # <<>>
  BY <1>0
<1>6. /\ Len(s) = 1 <=> Tail(s) = <<>>
      /\ \A x : (\E i \in 1..Len(s) : s[i] = x) <=>
                (x = Head(s) \/ \E i \in 1..Len(Tail(s)) : Tail(s)[i] = x)
  BY ONLY <1>5, HeadAndTail
<1>1. /\ Len(t.want) = 1 <=> Tail(t.want) = <<>>
      /\ \A x : (\E i \in 1..Len(t.want) : t.want[i] = x) <=>
                (x = Head(t.want) \/ \E i \in 1..Len(Tail(t.want)) : Tail(t.want)[i] = x)
  BY ONLY <1>0, <1>6
<1>2. n.want = Tail(t.want) => (Knows(n, l) <=> Knows(t, l))
  BY <1>1 DEF Knows, Wants
<1>3. Len(t.want) = 1 => ~\E i \in 1..Len(Tail(t.want)) : Tail(t.want)[i] = l
  BY <1>1
<1>4. Knows(t, l) /\ Len(t.want) = 1 => l \in n.held
  BY <1>1, <1>3 DEF Knows, Wants
<1> QED
  BY <1>2, <1>4

LEMMA ClosingsKnowAll ==
  ASSUME StoreInv, [Next]_vars
  PROVE  ClosingKnowsAll'
<1>1. LocksInOrder /\ RowTypes /\ ClosingKnowsAll /\ LocksInOrder'
  BY TypesOfRows, LocksStayInOrder DEF StoreInv, RowsOK
<1> DEFINE KnowsAll(p) ==
             tx'[p].to = "CLOSED" /\ tx'[p].held # {} =>
               \A r \in Records :
                 /\ r \in Employed' \ late' => Knows(tx'[p], RecordLock(r))
                 /\ Knows(tx'[p], RecordLock(r)) => staff'[r].employment # "none"
                 /\ RecordLock(r) \in tx'[p].held /\ r \in Employed' /\ staff'[r].linked =>
                      Knows(tx'[p], AccountLock(r)) \/ \E t \in Records : Wants(tx'[p], RecordLock(t))
<1> SUFFICES ASSUME NEW p \in Requests PROVE KnowsAll(p)
  BY DEF ClosingKnowsAll
<1>2. tx[p].to = "CLOSED" /\ tx[p].held # {} =>
        \A r \in Records :
          /\ r \in Employed \ late => Knows(tx[p], RecordLock(r))
          /\ Knows(tx[p], RecordLock(r)) => staff[r].employment # "none"
          /\ RecordLock(r) \in tx[p].held /\ r \in Employed /\ staff[r].linked =>
               Knows(tx[p], AccountLock(r)) \/ \E t \in Records : Wants(tx[p], RecordLock(t))
  BY <1>1 DEF ClosingKnowsAll
<1>3. ASSUME tx'[p] = tx[p],
             tx[p].to = "CLOSED" /\ tx[p].held # {} =>
               \A r \in Records :
                 /\ r \in Employed' \ late' => r \in Employed \ late
                 /\ staff[r].employment # "none" => staff'[r].employment # "none"
                 /\ RecordLock(r) \in tx[p].held /\ r \in Employed' /\ staff'[r].linked =>
                      r \in Employed /\ staff[r].linked
      PROVE  KnowsAll(p)
  BY <1>2, <1>3
<1>4. ASSUME tx'[p].held = {} \/ tx'[p].to # "CLOSED"
      PROVE  KnowsAll(p)
  BY <1>4
<1>5. ASSUME tx'[p] = tx[p], UNCHANGED <<staff, late>>
      PROVE  KnowsAll(p)
  <2>1. Employed' = Employed
    BY <1>5 DEF Employed
  <2> QED
    BY <1>3, <1>5, <2>1
<1>6. ASSUME NEW q \in Requests, Answer(q)
      PROVE  KnowsAll(p) \/ (p # q /\ tx'[p] = tx[p])
  BY <1>1, <1>4, <1>6, AfterAnswer
<1> HIDE DEF KnowsAll
<1>7. CASE tx' = tx /\ UNCHANGED rows
  BY <1>5, <1>7 DEF rows
<1>8. ASSUME NEW q \in Requests, Refuse(q)
      PROVE  KnowsAll(p)
  BY <1>5, <1>6, <1>8 DEF Refuse, rows
<1>9. ASSUME NEW q \in Requests, Starts(q)
      PROVE  KnowsAll(p)
  BY <1>1, <1>4, <1>5, <1>9, AfterStart DEF rows
<1>10. ASSUME NEW q \in Requests, Retry(q)
       PROVE  KnowsAll(p)
  BY <1>1, <1>4, <1>5, <1>10, AfterRetry DEF rows
<1>11. ASSUME NEW q \in Requests, Acquire(q), StillGood(q)
       PROVE  KnowsAll(p)
  <2>1. UNCHANGED <<staff, late>> /\ Employed' = Employed /\ tx[q].want # <<>>
    BY <1>1, <1>11, AfterGrant DEF rows, Employed
  <2>2. CASE p # q
    BY <1>1, <1>5, <1>11, <2>1, <2>2, AfterGrant
  <2>3. CASE p = q /\ tx[q].to # "CLOSED"
    BY <1>1, <1>4, <1>11, <2>3, AfterGrant
  <2>4. CASE p = q /\ tx[q].to = "CLOSED"
    <3> DEFINE t == tx[p]
               n == tx'[p]
               w == Tail(t.want) \o More(p)
    <3>1. /\ t \in RequestSet /\ InOrder(t) /\ t.want # <<>> /\ t.job = "update" /\ t.to = "CLOSED"
          /\ n.held = Granted(p) /\ n.want = w /\ n.to = t.to
      BY <1>1, <1>11, <2>4, AfterGrant, WhatIsHeld DEF LocksInOrder
    <3>2. Granted(p) = t.held \union {Head(t.want)}
      BY DEF Granted
    <3>3. \A S, l : t.want \in Seq(S) /\ w = Tail(t.want) => (Knows(n, l) <=> Knows(t, l))
      BY <3>1, <3>2, KnowledgeGrows
    <3>4. CASE t.held = {} /\ t.want = <<StoreLock>> /\ Granted(p) = {StoreLock} /\ w = ClosingRecordLocks
      <4>1. \A r \in Records : Wants(n, RecordLock(r)) <=> r \in Employed
        BY <3>1, <3>4, RecordsAreLearnt DEF Wants
      <4>2. \A r \in Records : RecordLock(r) \notin n.held
        BY <3>1, <3>4, LocksDiffer
      <4>3. \A r \in Employed : staff[r].employment # "none"
        BY DEF Employed
      <4> HIDE DEF t, n, w
      <4> QED
        BY <2>1, <4>1, <4>2, <4>3 DEF Knows, KnowsAll, n
    <3>5. CASE StoreLock \in t.held /\ t.want \in Seq(RecordLocks) /\ Len(t.want) = 1
               /\ w = ClosingAccountLocks(Granted(p))
      <4>1. \A r \in Records : Knows(t, RecordLock(r)) => RecordLock(r) \in n.held
        BY <3>1, <3>2, <3>5, KnowledgeGrows
      <4>2. Granted(p) \subseteq {StoreLock} \union RecordLocks \union AccountLocks
        <5>1. Head(t.want) \in RecordLocks
          BY <3>1, <3>5, HeadAndTail
        <5>2. t.held \subseteq {StoreLock} \union RecordLocks \union AccountLocks
          BY <3>1, <3>5 DEF InOrder
        <5> QED
          BY <3>2, <5>1, <5>2
      <4>3. \A r \in Records : Wants(n, AccountLock(r)) <=>
                               r \in Employed /\ staff[r].linked /\ RecordLock(r) \in Granted(p)
        <5> DEFINE a == ClosingAccountLocks(Granted(p))
        <5>1. \A r \in Records : (\E i \in 1..Len(a) : a[i] = AccountLock(r)) <=>
                                 r \in Employed /\ staff[r].linked /\ RecordLock(r) \in Granted(p)
          BY <4>2, AccountsAreLearnt
        <5>2. n.want = a
          BY <3>1, <3>5
        <5> HIDE DEF a
        <5> QED
          BY <5>1, <5>2 DEF Wants
      <4>4. \A r \in Records : Knows(n, RecordLock(r)) => RecordLock(r) \in n.held
        <5>1. w \in Seq(AccountLocks)
          BY <3>5, <4>2, AccountsAreLearnt
        <5>2. \A i \in 1..Len(n.want) : n.want[i] \in AccountLocks
          BY <3>1, <5>1
        <5>3. \A r \in Records : RecordLock(r) \notin AccountLocks
          BY LocksDiffer DEF AccountLocks
        <5> QED
          BY <5>2, <5>3 DEF Knows, Wants
      <4>5. \A r \in Records : RecordLock(r) \in n.held => Knows(t, RecordLock(r))
        <5>1. Wants(t, Head(t.want))
          BY <3>1, <3>5, HeadAndTail DEF Wants
        <5> QED
          BY <3>1, <3>2, <5>1 DEF Knows
      <4>6. t.held # {}
        BY <3>5
      <4>7. \A r \in Records : RecordLock(r) \in n.held => Knows(n, RecordLock(r))
        BY DEF Knows
      <4>8. \A r \in Records : Wants(n, AccountLock(r)) => Knows(n, AccountLock(r))
        BY DEF Knows
      <4>9. n.held = Granted(p) /\ t.to = "CLOSED"
        BY <3>1
      <4> HIDE DEF w
      <4> QED
        BY <1>2, <2>1, <4>1, <4>3, <4>4, <4>5, <4>6, <4>7, <4>8, <4>9 DEF KnowsAll
    <3>6. CASE StoreLock \in t.held /\ t.want \in Seq(RecordLocks) /\ Tail(t.want) # <<>>
               /\ w = Tail(t.want)
      <4>1. \A l : Knows(n, l) <=> Knows(t, l)
        BY <3>3, <3>6
      <4>2. \E r \in Records : Wants(n, RecordLock(r))
        <5>1. Tail(t.want) \in Seq(RecordLocks)
          BY <3>1, <3>6, HeadAndTail
        <5>2. Tail(t.want)[1] \in RecordLocks /\ 1 \in 1..Len(Tail(t.want))
          BY <3>6, <5>1
        <5>3. n.want = Tail(t.want)
          BY <3>1, <3>6
        <5>4. PICK r \in Records : Tail(t.want)[1] = RecordLock(r)
          BY <5>2 DEF RecordLocks
        <5> QED
          BY <5>2, <5>3, <5>4 DEF Wants
      <4>3. t.held # {} /\ t.to = "CLOSED"
        BY <3>1, <3>6
      <4> HIDE DEF w
      <4> QED
        BY <1>2, <2>1, <4>1, <4>2, <4>3 DEF KnowsAll
    <3>7. CASE StoreLock \in t.held /\ t.want \in Seq(AccountLocks) /\ w = Tail(t.want)
      <4>1. \A l : Knows(n, l) <=> Knows(t, l)
        BY <3>3, <3>7
      <4>2. \A r \in Records : ~Wants(t, RecordLock(r)) /\ Head(t.want) # RecordLock(r)
        <5>1. \A i \in 1..Len(t.want) : t.want[i] \in AccountLocks
          BY <3>7
        <5>2. \A r \in Records : RecordLock(r) \notin AccountLocks
          BY LocksDiffer DEF AccountLocks
        <5>3. Head(t.want) \in AccountLocks
          BY <3>1, <3>7, HeadAndTail
        <5> QED
          BY <5>1, <5>2, <5>3 DEF Wants
      <4>3. \A r \in Records : RecordLock(r) \in n.held => RecordLock(r) \in t.held
        BY <3>1, <3>2, <4>2
      <4>4. t.held # {} /\ t.to = "CLOSED"
        BY <3>1, <3>7
      <4> HIDE DEF w
      <4> QED
        BY <1>2, <2>1, <4>1, <4>2, <4>3, <4>4 DEF KnowsAll
    <3>8. \/ t.held = {} /\ t.want = <<StoreLock>> /\ Granted(p) = {StoreLock} /\ w = ClosingRecordLocks
          \/ StoreLock \in t.held /\ t.want \in Seq(RecordLocks) /\ Len(t.want) = 1
             /\ w = ClosingAccountLocks(Granted(p))
          \/ StoreLock \in t.held /\ t.want \in Seq(RecordLocks) /\ Tail(t.want) # <<>> /\ w = Tail(t.want)
          \/ StoreLock \in t.held /\ t.want \in Seq(AccountLocks) /\ w = Tail(t.want)
      BY <3>1, ClosingLearns
    <3> HIDE DEF t, n, w
    <3> QED
      BY <3>4, <3>5, <3>6, <3>7, <3>8
  <2> QED
    BY <2>2, <2>3, <2>4
<1>12. ASSUME NEW q \in Requests, Close(q)
       PROVE  KnowsAll(p)
  <2>1. Answer(q) /\ tx[q].job = "update" /\ tx[q].want = <<>>
    BY <1>12 DEF Close, Finishing
  <2>2. CASE p # q /\ tx'[p] = tx[p]
    <3>1. tx[q].held # {}
      BY <1>1, <2>1, WhatIsHeld DEF StoreJobs
    <3>2. tx[p].to = "CLOSED" => tx[p].held = {}
      BY <1>1, <2>1, <2>2, <3>1, OneHasTheStore, WhatIsHeld DEF StoreJobs
    <3> QED
      BY <1>4, <2>2, <3>2
  <2> QED
    BY <1>6, <2>1, <2>2
<1>13. ASSUME NEW q \in Requests, Update(q) \/ RemoveStore(q) \/ ClockIn(q) \/ Send(q) \/ Sign(q)
       PROVE  KnowsAll(p)
  <2>1. Answer(q) /\ UNCHANGED <<staff, late>>
    BY <1>13 DEF Update, RemoveStore, ClockIn, Send, Sign
  <2> QED
    BY <1>5, <1>6, <2>1
<1>14. ASSUME NEW q \in Requests, Retire(q)
       PROVE  KnowsAll(p)
  <2>1. Answer(q) /\ UNCHANGED late
    BY <1>14 DEF Retire
  <2>2. PICK date \in 0..Days : Scheduled(tx[q].of, date)
    BY <1>1, <1>14, RetireSchedules
  <2>3. tx[q].of \in Records /\ staff[tx[q].of].employment # "none"
    BY <1>1, <1>14, RetireSchedules DEF Employed
  <2>4. \A r \in Records :
          /\ staff'[r].linked = staff[r].linked
          /\ staff'[r].employment = "none" <=> staff[r].employment = "none"
          /\ r \in Employed' => r \in Employed
    BY <1>1, <2>2, <2>3, AfterRetirement DEF Employed
  <2> QED
    BY <1>3, <1>6, <2>1, <2>4
<1>15. ASSUME NEW q \in Requests, Write(q)
       PROVE  KnowsAll(p)
  <2> DEFINE x == tx[q].of
             fresh == staff[x].employment = "none"
             closing == \E o \in Requests : tx[o].to = "CLOSED" /\ tx[o].held # {}
  <2>1. /\ Answer(q) /\ x \in Records /\ (fresh \/ x \in Employed)
        /\ staff' = [staff EXCEPT ![x].employment = "EMPLOYED"]
        /\ late \subseteq late' /\ (fresh /\ closing => x \in late')
    BY <1>1, <1>15, WhatIsHeld DEF Write, Finishing, StaffJobs
  <2>2. /\ \A r \in Records : r # x => staff'[r] = staff[r]
        /\ staff'[x].employment = "EMPLOYED" /\ staff'[x].linked = staff[x].linked
    BY <1>1, <2>1 DEF RowTypes
  <2>3. ASSUME tx[p].to = "CLOSED", tx[p].held # {}, NEW r \in Records
        PROVE  /\ r \in Employed' \ late' => r \in Employed \ late
               /\ staff[r].employment # "none" => staff'[r].employment # "none"
               /\ RecordLock(r) \in tx[p].held /\ r \in Employed' /\ staff'[r].linked =>
                    r \in Employed /\ staff[r].linked
    <3>1. closing
      BY <2>3
    <3>2. r # x => (r \in Employed' <=> r \in Employed)
      BY <2>2 DEF Employed
    <3>3. fresh => RecordLock(x) \notin tx[p].held
      BY <1>2, <2>1, <2>3 DEF Knows
    <3> HIDE DEF x, closing
    <3> QED
      BY <2>1, <2>2, <3>1, <3>2, <3>3
  <2> QED
    BY <1>3, <1>6, <2>1, <2>3
<1>16. ASSUME NEW q \in Requests, Accept(q)
       PROVE  KnowsAll(p)
  <2> DEFINE x == tx[q].of
  <2>1. /\ Answer(q) /\ x \in Records /\ tx[q].job = "answer" /\ tx[q].want = <<>>
        /\ staff' = [staff EXCEPT ![x].linked = (tx[q].to = "ACCEPTED")] /\ late' = late
    BY <1>1, <1>16, WhatIsHeld DEF Accept, Finishing, StaffJobs
  <2>2. /\ \A r \in Records : r # x => staff'[r] = staff[r]
        /\ staff'[x].employment = staff[x].employment
    BY <1>1, <2>1 DEF RowTypes
  <2>3. \A r \in Records : r \in Employed' <=> r \in Employed
    BY <2>2 DEF Employed
  <2>4. CASE p # q /\ tx'[p] = tx[p]
    <3>1. RecordLock(x) \notin tx[p].held
      BY <1>1, <2>1, <2>4, ClosingExcludes
    <3> HIDE DEF x
    <3> QED
      BY <1>3, <2>1, <2>2, <2>3, <2>4, <3>1
  <2> QED
    BY <1>6, <2>1, <2>4
<1>17. ASSUME NEW r \in Records, ClockOut(r)
       PROVE  KnowsAll(p)
  BY <1>5, <1>17 DEF ClockOut
<1>18. ASSUME NEW r \in Records, RetireDue(r)
       PROVE  KnowsAll(p)
  <2>1. tx' = tx /\ late' = late /\ staff[r].retire \in 0..Days /\ Finalized(r, staff[r].retire)
        /\ staff[r].employment # "none"
    BY <1>1, <1>18 DEF RetireDue, RowTypes, Employed
  <2>2. \A x \in Records :
          /\ staff'[x].linked = staff[x].linked
          /\ staff'[x].employment = "none" <=> staff[x].employment = "none"
          /\ x \in Employed' => x \in Employed
    BY <1>1, <2>1, AfterRetirement DEF Employed
  <2> QED
    BY <1>3, <2>1, <2>2
<1>19. ASSUME NextDay
       PROVE  KnowsAll(p)
  BY <1>5, <1>19 DEF NextDay
<1> QED
  BY <1>7, <1>8, <1>9, <1>10, <1>11, <1>12, <1>13, <1>14, <1>15, <1>16, <1>17, <1>18, <1>19, AllSteps


-----------------------------------------------------------------------------
(* Clocking in is judged with the account locked                           *)

\* Whoever a closing, ready to write, has to retire is locked, and clocks in nowhere.
LEMMA WhomAClosingFinds ==
  ASSUME StoreInv, NEW q \in Requests, tx[q].job = "update", tx[q].to = "CLOSED", tx[q].want = <<>>,
         NEW r \in Employed \ late
  PROVE  /\ r \in Locked(q)
         /\ \A p \in Requests : ~(tx[p].job = "clockIn" /\ tx[p].held # {} /\ tx[p].of = r)
<1>1. LocksInOrder /\ RowTypes /\ r \in Records
  BY TypesOfRows DEF StoreInv, RowsOK, Employed
<1>2. tx[q].held # {}
  BY <1>1, WhatIsHeld DEF StoreJobs
<1>3. \A l : ~Wants(tx[q], l)
  BY DEF Wants
<1>4. RecordLock(r) \in tx[q].held
  BY <1>1, <1>2, <1>3 DEF StoreInv, RowsOK, ClosingKnowsAll, Knows
<1>5. staff[r].linked => AccountLock(r) \in tx[q].held
  BY <1>1, <1>2, <1>3, <1>4 DEF StoreInv, RowsOK, ClosingKnowsAll, Knows
<1>6. r \in Locked(q)
  BY <1>4, RowsOfLocks, <1>1 DEF Locked, Holds
<1>7. ASSUME NEW p \in Requests, tx[p].job = "clockIn", tx[p].held # {}, tx[p].of = r
      PROVE  FALSE
  <2>1. staff[r].linked /\ p # q
    BY <1>7 DEF StoreInv, RowsOK, ClockInsAreJudged
  <2> QED
    BY <1>1, <1>5, <1>7, <2>1, ClosingExcludes
<1> QED
  BY <1>6, <1>7

LEMMA ClockInsStayJudged ==
  ASSUME StoreInv, [Next]_vars
  PROVE  ClockInsAreJudged'
<1>1. LocksInOrder /\ RowTypes /\ ClockInsAreJudged /\ LocksInOrder'
  BY TypesOfRows, LocksStayInOrder DEF StoreInv, RowsOK
<1> DEFINE Judged(p) == tx'[p].job = "clockIn" /\ tx'[p].held # {} =>
               /\ staff'[tx'[p].of].linked /\ staff'[tx'[p].of].employment # "none"
               /\ status' = "CLOSED" => tx'[p].of \notin Employed' \/ tx'[p].of \in late'
<1> SUFFICES ASSUME NEW p \in Requests PROVE Judged(p)
  BY DEF ClockInsAreJudged
<1>2. tx[p].job = "clockIn" /\ tx[p].held # {} =>
        /\ tx[p].of \in Records
        /\ staff[tx[p].of].linked /\ staff[tx[p].of].employment # "none"
        /\ status = "CLOSED" => tx[p].of \notin Employed \/ tx[p].of \in late
  BY <1>1, WhatIsHeld DEF ClockInsAreJudged, StaffJobs
<1>3. ASSUME tx'[p] = tx[p],
             tx[p].job = "clockIn" /\ tx[p].held # {} =>
               /\ staff'[tx[p].of].linked /\ staff'[tx[p].of].employment # "none"
               /\ tx[p].of \in Employed' => tx[p].of \in Employed
               /\ late \subseteq late' /\ (status' = "CLOSED" => status = "CLOSED")
      PROVE  Judged(p)
  BY <1>2, <1>3
<1>4. ASSUME tx'[p].held = {} \/ tx'[p].job # "clockIn"
      PROVE  Judged(p)
  BY <1>4
<1>5. ASSUME tx'[p] = tx[p], UNCHANGED <<staff, late>>, status' = "CLOSED" => status = "CLOSED"
      PROVE  Judged(p)
  <2>1. Employed' = Employed
    BY <1>5 DEF Employed
  <2> QED
    BY <1>2, <1>3, <1>5, <2>1
<1>6. ASSUME NEW q \in Requests, Answer(q)
      PROVE  Judged(p) \/ (p # q /\ tx'[p] = tx[p])
  BY <1>1, <1>4, <1>6, AfterAnswer
<1> HIDE DEF Judged
<1>7. CASE tx' = tx /\ UNCHANGED rows
  BY <1>5, <1>7 DEF rows
<1>8. ASSUME NEW q \in Requests, Refuse(q)
      PROVE  Judged(p)
  BY <1>5, <1>6, <1>8 DEF Refuse, rows
<1>9. ASSUME NEW q \in Requests, Starts(q)
      PROVE  Judged(p)
  BY <1>1, <1>4, <1>5, <1>9, AfterStart DEF rows
<1>10. ASSUME NEW q \in Requests, Retry(q)
       PROVE  Judged(p)
  BY <1>1, <1>4, <1>5, <1>10, AfterRetry DEF rows
<1>11. ASSUME NEW q \in Requests, Acquire(q), StillGood(q)
       PROVE  Judged(p)
  <2>1. UNCHANGED <<staff, late, status>> /\ Employed' = Employed
    BY <1>1, <1>11, AfterGrant DEF rows, Employed
  <2>2. CASE p # q
    BY <1>1, <1>5, <1>11, <2>1, <2>2, AfterGrant
  <2>3. CASE p = q /\ tx[q].job # "clockIn"
    BY <1>1, <1>4, <1>11, <2>3, AfterGrant
  <2>4. CASE p = q /\ tx[q].job = "clockIn" /\ tx[q].held # {}
    BY <1>1, <1>2, <1>11, <2>1, <2>4, AfterGrant DEF Judged
  <2>5. CASE p = q /\ tx[q].job = "clockIn" /\ tx[q].held = {}
    <3>1. Taking3(tx[q], AccountLock(tx[q].of), Lock(Staff(tx[q].of), "KEY SHARE"), Lock(Store, "KEY SHARE"))
          /\ tx[q].of \in Records
      BY <1>1, <2>5 DEF LocksInOrder, Orderly, StaffJobs
    <3>2. Head(tx[q].want) = AccountLock(tx[q].of)
      BY <2>5, <3>1, ShortSequences DEF Taking3
    <3>3. Head(tx[q].want).row[1] = "account"
      <4>1. Head(tx[q].want).row = Account(tx[q].of)
        BY <3>1, <3>2, RowsOfLocks
      <4> QED
        BY <3>1, <4>1, RowsDiffer
    <3>4. MayClockIn(tx[q].of)
      BY <1>11, <2>5, <3>3 DEF StillGood
    <3> QED
      BY <1>1, <1>11, <2>1, <2>5, <3>4, AfterGrant DEF Judged, MayClockIn
  <2> QED
    BY <2>2, <2>3, <2>4, <2>5
<1>12. ASSUME NEW q \in Requests, Close(q)
       PROVE  Judged(p)
  <2>1. /\ Answer(q) /\ tx[q].job = "update" /\ tx[q].to = "CLOSED" /\ tx[q].want = <<>>
        /\ late' = late /\ status' = "CLOSED"
        /\ staff' = [r \in Records |->
                       IF r \in Locked(q) /\ (staff[r].retire = 0 \/ staff[r].retire > day)
                       THEN [staff[r] EXCEPT !.retire = day] ELSE staff[r]]
    BY <1>12 DEF Close, Finishing
  <2>2. \A r \in Records : staff'[r].linked = staff[r].linked /\ staff'[r].employment = staff[r].employment
    BY <1>1, <2>1 DEF RowTypes
  <2>3. Employed' = Employed
    BY <2>2 DEF Employed
  <2>4. ASSUME tx[p].job = "clockIn", tx[p].held # {}
        PROVE  tx[p].of \notin Employed \/ tx[p].of \in late
    BY <2>1, <2>4, WhomAClosingFinds
  <2>5. CASE tx'[p] = tx[p]
    BY <1>2, <2>1, <2>2, <2>3, <2>4, <2>5 DEF Judged
  <2> QED
    BY <1>6, <2>1, <2>5
<1>13. ASSUME NEW q \in Requests, Update(q) \/ RemoveStore(q) \/ ClockIn(q) \/ Send(q) \/ Sign(q)
       PROVE  Judged(p)
  <2>1. Answer(q) /\ UNCHANGED <<staff, late>>
    BY <1>13 DEF Update, RemoveStore, ClockIn, Send, Sign
  <2>2. status' = "CLOSED" => status = "CLOSED"
    BY <1>13 DEF Update, RemoveStore, ClockIn, Send, Sign
  <2> QED
    BY <1>5, <1>6, <2>1, <2>2
<1>14. ASSUME NEW q \in Requests, Retire(q)
       PROVE  Judged(p)
  <2>1. Answer(q) /\ UNCHANGED <<late, status>>
    BY <1>14 DEF Retire
  <2>2. PICK date \in 0..Days : Scheduled(tx[q].of, date)
    BY <1>1, <1>14, RetireSchedules
  <2>3. tx[q].of \in Records /\ staff[tx[q].of].employment # "none"
    BY <1>1, <1>14, RetireSchedules DEF Employed
  <2>4. \A r \in Records :
          /\ staff'[r].linked = staff[r].linked
          /\ staff'[r].employment = "none" <=> staff[r].employment = "none"
          /\ r \in Employed' => r \in Employed
    BY <1>1, <2>2, <2>3, AfterRetirement DEF Employed
  <2> QED
    BY <1>2, <1>3, <1>6, <2>1, <2>4
<1>15. ASSUME NEW q \in Requests, Write(q)
       PROVE  Judged(p)
  <2> DEFINE y == tx[q].of
  <2>1. /\ Answer(q) /\ y \in Records /\ (staff[y].employment = "none" \/ y \in Employed)
        /\ staff' = [staff EXCEPT ![y].employment = "EMPLOYED"]
        /\ late \subseteq late' /\ status' = status
    BY <1>1, <1>15, WhatIsHeld DEF Write, Finishing, StaffJobs
  <2>2. /\ \A r \in Records : r # y => staff'[r] = staff[r]
        /\ staff'[y].employment = "EMPLOYED" /\ staff'[y].linked = staff[y].linked
    BY <1>1, <2>1 DEF RowTypes
  <2>3. \A r \in Records : r \in Employed' => r \in Employed \/ staff[r].employment = "none"
    BY <2>1, <2>2 DEF Employed
  <2>4. \A r \in Records : staff'[r].linked = staff[r].linked
                           /\ (staff[r].employment # "none" => staff'[r].employment # "none")
    BY <2>2
  <2> HIDE DEF y
  <2> QED
    BY <1>2, <1>3, <1>6, <2>1, <2>3, <2>4
<1>16. ASSUME NEW q \in Requests, Accept(q)
       PROVE  Judged(p)
  <2> DEFINE y == tx[q].of
  <2>1. /\ Answer(q) /\ y \in Records /\ ~staff[y].linked
        /\ staff' = [staff EXCEPT ![y].linked = (tx[q].to = "ACCEPTED")]
        /\ late' = late /\ status' = status
    BY <1>1, <1>16, WhatIsHeld DEF Accept, Finishing, StaffJobs, MayAnswer
  <2>2. /\ \A r \in Records : r # y => staff'[r] = staff[r]
        /\ staff'[y].employment = staff[y].employment
    BY <1>1, <2>1 DEF RowTypes
  <2>3. \A r \in Records : r \in Employed' <=> r \in Employed
    BY <2>2 DEF Employed
  <2> HIDE DEF y
  <2> QED
    BY <1>2, <1>3, <1>6, <2>1, <2>2, <2>3
<1>17. ASSUME NEW r \in Records, ClockOut(r)
       PROVE  Judged(p)
  BY <1>5, <1>17 DEF ClockOut
<1>18. ASSUME NEW r \in Records, RetireDue(r)
       PROVE  Judged(p)
  <2>1. tx' = tx /\ late' = late /\ status' = status
        /\ staff[r].retire \in 0..Days /\ Finalized(r, staff[r].retire) /\ staff[r].employment # "none"
    BY <1>1, <1>18 DEF RetireDue, RowTypes, Employed
  <2>2. \A y \in Records :
          /\ staff'[y].linked = staff[y].linked
          /\ staff'[y].employment = "none" <=> staff[y].employment = "none"
          /\ y \in Employed' => y \in Employed
    BY <1>1, <2>1, AfterRetirement DEF Employed
  <2> QED
    BY <1>2, <1>3, <2>1, <2>2
<1>19. ASSUME NextDay
       PROVE  Judged(p)
  BY <1>5, <1>19 DEF NextDay
<1> QED
  BY <1>7, <1>8, <1>9, <1>10, <1>11, <1>12, <1>13, <1>14, <1>15, <1>16, <1>17, <1>18, <1>19, AllSteps


-----------------------------------------------------------------------------
(* A closed store keeps nobody, a removed one no contract in progress      *)

\* What GoneStoreHoldsNobody says of one record.
Gone(r) ==
  /\ status = "CLOSED" =>
         /\ r \in Employed => staff[r].retire \in 1..closedOn /\ r \notin atWork
         /\ contract[r] \notin Pending /\ invited[r] # "SENT"
  /\ status = "deleted" => ~InProgress(r)

LEMMA NobodyComesBack ==
  ASSUME StoreInv, [Next]_vars
  PROVE  GoneStoreHoldsNobody'
<1>1. LocksInOrder /\ RowTypes /\ ClockInsAreJudged /\ GoneStoreHoldsNobody
  BY TypesOfRows DEF StoreInv, RowsOK
<1>2. \A r \in Records \ late : Gone(r)
  BY <1>1 DEF GoneStoreHoldsNobody, Gone
<1> SUFFICES ASSUME NEW r \in Records, r \notin late' PROVE Gone(r)'
  BY DEF GoneStoreHoldsNobody, Gone
<1>3. ASSUME r \notin late, UNCHANGED <<status, closedOn>>,
             /\ r \in Employed' => r \in Employed /\ (staff'[r].retire = staff[r].retire \/ status # "CLOSED")
             /\ r \in atWork' => r \in atWork \/ r \notin Employed \/ status # "CLOSED"
             /\ contract'[r] = contract[r] \/ contract'[r] = Ended(contract[r])
                \/ (status # "CLOSED" /\ status # "deleted")
             /\ invited'[r] = invited[r] \/ invited'[r] = Expired(invited[r]) \/ invited'[r] # "SENT"
                \/ status # "CLOSED"
      PROVE  Gone(r)'
  <2>1. Gone(r)
    BY <1>2, <1>3
  <2>2. /\ contract[r] \in Pending \cup {"none", "SIGNED", "REJECTED", "ENDED"}
        /\ invited[r] \in {"none", "SENT", "ACCEPTED", "REJECTED", "EXPIRED"}
    BY <1>1 DEF RowTypes
  <2>3. /\ Ended(contract[r]) \notin Pending /\ (Ended(contract[r]) = "SIGNED" => contract[r] = "SIGNED")
        /\ Expired(invited[r]) # "SENT"
    BY <2>2 DEF Ended, Expired, Pending
  <2>4. ~InProgress(r) /\ (contract'[r] = contract[r] \/ contract'[r] = Ended(contract[r])) => ~InProgress(r)'
    BY <2>2, <2>3 DEF InProgress
  <2> QED
    BY <1>3, <2>1, <2>2, <2>3, <2>4 DEF Gone
<1>4. ASSUME r \notin late, UNCHANGED <<status, closedOn, staff, contract, invited>>, atWork' \subseteq atWork
      PROVE  Gone(r)'
  <2>1. Employed' = Employed
    BY <1>4 DEF Employed
  <2> QED
    BY <1>3, <1>4, <2>1
<1>5. ASSUME UNCHANGED rows
      PROVE  Gone(r)'
  BY <1>4, <1>5 DEF rows
<1>6. ASSUME NEW q \in Requests, Refuse(q) \/ Starts(q) \/ (Acquire(q) /\ StillGood(q)) \/ Retry(q)
      PROVE  Gone(r)'
  BY <1>1, <1>5, <1>6, AfterStart, AfterGrant DEF Refuse, Retry
<1>7. ASSUME NEW q \in Requests, Update(q)
      PROVE  Gone(r)'
  <2>1. status' = tx[q].to /\ tx[q].to \notin {"CLOSED", "deleted"}
    BY <1>1, <1>7, WhatIsHeld DEF Update, Finishing
  <2> QED
    BY <2>1 DEF Gone
<1>8. ASSUME NEW q \in Requests, Close(q)
      PROVE  Gone(r)'
  <2>1. /\ status' = "CLOSED" /\ closedOn' = day /\ late' = late /\ atWork' = atWork
        /\ tx[q].job = "update" /\ tx[q].to = "CLOSED" /\ tx[q].want = <<>>
        /\ Locked(q) \cap atWork = {}
        /\ contract'[r] = Ended(contract[r]) /\ invited'[r] = Expired(invited[r])
    BY <1>8 DEF Close, Finishing
  <2>2. staff'[r] = IF r \in Locked(q) /\ (staff[r].retire = 0 \/ staff[r].retire > day)
                    THEN [staff[r] EXCEPT !.retire = day] ELSE staff[r]
    BY <1>8 DEF Close
  <2>3. /\ staff[r] \in [employment : {"none", "EMPLOYED", "RETIRED"}, retire : 0..Days, linked : BOOLEAN]
        /\ day \in 1..Days /\ Days \in Nat
    BY <1>1, StoreAssumption DEF RowTypes
  <2>4. staff'[r].employment = staff[r].employment
    BY <2>2, <2>3
  <2>5. ASSUME r \in Employed'
        PROVE  staff'[r].retire \in 1..day /\ r \notin atWork
    <3>1. r \in Employed
      BY <2>4, <2>5 DEF Employed
    <3>2. r \in Locked(q)
      BY <2>1, <3>1, WhomAClosingFinds
    <3>3. CASE staff[r].retire = 0 \/ staff[r].retire > day
      <4>1. staff'[r].retire = day
        BY <2>2, <2>3, <3>2, <3>3
      <4> QED
        BY <2>1, <2>3, <3>2, <4>1
    <3>4. CASE ~(staff[r].retire = 0 \/ staff[r].retire > day)
      BY <2>1, <2>2, <2>3, <3>2, <3>4
    <3> QED
      BY <3>3, <3>4
  <2>6. contract'[r] \notin Pending /\ invited'[r] # "SENT"
    BY <1>1, <2>1, EndingKeepsTypes DEF RowTypes
  <2> QED
    BY <2>1, <2>5, <2>6 DEF Gone
<1>9. ASSUME NEW q \in Requests, RemoveStore(q)
      PROVE  Gone(r)'
  <2>1. UNCHANGED <<closedOn, staff, contract, invited, atWork, late>>
    BY <1>9 DEF RemoveStore
  <2>2. CASE status = "NOT_OPERATING" /\ ~\E x \in Records : InProgress(x)
    <3>1. status' = "deleted" /\ ~InProgress(r)'
      BY <1>9, <2>1, <2>2 DEF RemoveStore, InProgress
    <3> QED
      BY <3>1 DEF Gone
  <2>3. CASE ~(status = "NOT_OPERATING" /\ ~\E x \in Records : InProgress(x))
    <3>1. status' = status
      BY <1>9, <2>3 DEF RemoveStore
    <3> QED
      BY <1>4, <2>1, <3>1
  <2> QED
    BY <2>2, <2>3
<1>10. ASSUME NEW q \in Requests, ClockIn(q)
       PROVE  Gone(r)'
  <2>1. /\ UNCHANGED <<status, closedOn, staff, contract, invited, late>>
        /\ atWork' = atWork \union {tx[q].of} /\ tx[q].job = "clockIn" /\ tx[q].want = <<>>
    BY <1>10 DEF ClockIn, Finishing
  <2>2. Employed' = Employed
    BY <2>1 DEF Employed
  <2>3. tx[q].held # {}
    BY <1>1, <2>1, WhatIsHeld
  <2>4. status = "CLOSED" => tx[q].of \notin Employed \/ tx[q].of \in late
    BY <1>1, <2>1, <2>3 DEF ClockInsAreJudged
  <2> QED
    BY <1>3, <2>1, <2>2, <2>4
<1>11. ASSUME NEW q \in Requests, Retire(q)
       PROVE  Gone(r)'
  <2> DEFINE x == tx[q].of
  <2>1. UNCHANGED <<day, status, changes, closedOn, atWork, late>>
    BY <1>11 DEF Retire
  <2>2. PICK date \in 0..Days : Scheduled(x, date)
    BY <1>1, <1>11, RetireSchedules
  <2>3. x \in Employed /\ x \in Records /\ staff[x].employment # "none"
        /\ (staff[x].retire = 0 \/ staff[x].retire > day)
    BY <1>1, <1>11, RetireSchedules DEF Employed
  <2>4. /\ r \in Employed' => r \in Employed
        /\ r # x => staff'[r] = staff[r]
        /\ contract'[r] \in {contract[r], Ended(contract[r])}
        /\ invited'[r] \in {invited[r], Expired(invited[r])}
    BY <1>1, <2>2, <2>3, AfterRetirement DEF Employed
  <2>5. r = x /\ r \notin late => status # "CLOSED"
    <3>1. day \in Nat /\ closedOn \in Nat /\ closedOn <= day /\ staff[x].retire \in Nat
      <4> HIDE DEF x
      <4>1. staff[x] \in [employment : {"none", "EMPLOYED", "RETIRED"}, retire : 0..Days, linked : BOOLEAN]
        BY <1>1, <2>3 DEF RowTypes
      <4> QED
        BY <1>1, <4>1, StoreAssumption DEF RowTypes
    <3> HIDE DEF x
    <3> QED
      BY <1>2, <2>3, <3>1 DEF Gone
  <2> HIDE DEF x
  <2> QED
    BY <1>3, <2>1, <2>4, <2>5
<1>12. ASSUME NEW x \in Records, RetireDue(x)
       PROVE  Gone(r)'
  <2>1. /\ staff[x].retire \in 0..Days /\ Finalized(x, staff[x].retire)
        /\ staff[x].employment = "EMPLOYED"
        /\ UNCHANGED <<day, status, changes, closedOn, atWork, late>>
        /\ staff' = [staff EXCEPT ![x].retire = staff[x].retire, ![x].employment = "RETIRED"]
    BY <1>1, <1>12 DEF RetireDue, RowTypes, Employed, Finalized
  <2>2. /\ r \in Employed' => r \in Employed
        /\ r # x => staff'[r] = staff[r]
        /\ contract'[r] \in {contract[r], Ended(contract[r])}
        /\ invited'[r] \in {invited[r], Expired(invited[r])}
    BY <1>1, <2>1, AfterRetirement DEF Employed
  <2>3. x \notin Employed'
    BY <1>1, <2>1 DEF RowTypes, Employed
  <2> QED
    BY <1>3, <2>1, <2>2, <2>3
<1>13. ASSUME NEW q \in Requests, Write(q)
       PROVE  Gone(r)'
  <2> DEFINE x == tx[q].of
  <2>1. /\ x \in Records /\ UNCHANGED <<status, closedOn, atWork>>
        /\ contract' = [contract EXCEPT ![x] = tx[q].to]
        /\ staff' = [staff EXCEPT ![x].employment = "EMPLOYED"]
        /\ \E i : invited' = [invited EXCEPT ![x] = i]
        /\ late \subseteq late'
        /\ status \in {"CLOSED", "deleted"} => x \in late'
    BY <1>1, <1>13, WhatIsHeld DEF Write, Finishing, StaffJobs
  <2>2. r # x => staff'[r] = staff[r] /\ contract'[r] = contract[r] /\ invited'[r] = invited[r]
    BY <1>1, <2>1 DEF RowTypes
  <2>3. r # x => (r \in Employed' <=> r \in Employed)
    BY <2>2 DEF Employed
  <2> HIDE DEF x
  <2>4. CASE r = x
    <3>1. status' \notin {"CLOSED", "deleted"}
      BY <2>1, <2>4
    <3> QED
      BY <3>1 DEF Gone
  <2>5. CASE r # x
    BY <1>3, <2>1, <2>2, <2>3, <2>5
  <2> QED
    BY <2>4, <2>5
<1>14. ASSUME NEW q \in Requests, Send(q)
       PROVE  Gone(r)'
  <2> DEFINE x == tx[q].of
  <2>1. /\ UNCHANGED <<status, closedOn, staff, atWork, late>>
        /\ MaySend(x) \/ MayReopen(x)
    BY <1>14 DEF Send
  <2>2. /\ contract' = contract \/ (\E c : contract' = [contract EXCEPT ![x] = c])
        /\ invited' = invited \/ (\E i : invited' = [invited EXCEPT ![x] = i])
    <3>1. CASE staff[x].linked
      BY <1>14, <3>1 DEF Send
    <3>2. CASE ~staff[x].linked
      BY <1>14, <3>2 DEF Send
    <3> QED
      BY <3>1, <3>2
  <2>3. r # x => contract'[r] = contract[r] /\ invited'[r] = invited[r]
    BY <1>1, <2>2 DEF RowTypes
  <2>4. r = x => status \notin {"CLOSED", "deleted"}
    <3>1. ASSUME r = x, MaySend(x), status \in {"CLOSED", "deleted"}
          PROVE  FALSE
      BY <1>2, <2>1, <3>1 DEF MaySend, Gone, InProgress, Pending
    <3>2. MayReopen(x) => status \notin {"CLOSED", "deleted"}
      BY DEF MayReopen, There
    <3> QED
      BY <2>1, <3>1, <3>2
  <2>5. Employed' = Employed
    BY <2>1 DEF Employed
  <2> HIDE DEF x
  <2>6. CASE r = x
    BY <2>1, <2>4, <2>6 DEF Gone
  <2>7. CASE r # x
    BY <1>3, <2>1, <2>3, <2>5, <2>7
  <2> QED
    BY <2>6, <2>7
<1>15. ASSUME NEW q \in Requests, Accept(q)
       PROVE  Gone(r)'
  <2> DEFINE x == tx[q].of
  <2>1. /\ x \in Records /\ UNCHANGED <<status, closedOn, atWork, late>>
        /\ invited[x] = "SENT" /\ invited' = [invited EXCEPT ![x] = tx[q].to]
        /\ tx[q].to \in {"ACCEPTED", "REJECTED"}
        /\ staff' = [staff EXCEPT ![x].linked = (tx[q].to = "ACCEPTED")]
    BY <1>1, <1>15, WhatIsHeld DEF Accept, Finishing, StaffJobs, MayAnswer
  <2>2. /\ r # x => contract'[r] = contract[r]
        /\ contract[x] # "PENDING_SEND" => contract'[x] = contract[x]
    BY <1>1, <1>15, <2>1 DEF Accept, RowTypes
  <2>3. /\ r # x => staff'[r] = staff[r] /\ invited'[r] = invited[r]
        /\ invited'[x] # "SENT"
        /\ staff'[r].employment = staff[r].employment /\ staff'[r].retire = staff[r].retire
    BY <1>1, <2>1 DEF RowTypes
  <2>4. r \in Employed' <=> r \in Employed
    BY <2>3 DEF Employed
  <2>5. r = x => status # "CLOSED" /\ (status = "deleted" => contract[x] # "PENDING_SEND")
    BY <1>2, <2>1 DEF Gone, InProgress, Pending
  <2> HIDE DEF x
  <2> QED
    BY <1>3, <2>1, <2>2, <2>3, <2>4, <2>5
<1>16. ASSUME NEW q \in Requests, Sign(q)
       PROVE  Gone(r)'
  <2> DEFINE x == tx[q].of
  <2>1. /\ UNCHANGED <<status, closedOn, staff, invited, atWork, late>>
        /\ contract' = contract
           \/ (contract[x] = "PENDING_SIGNATURE" /\ contract' = [contract EXCEPT ![x] = tx[q].to])
    BY <1>16 DEF Sign
  <2>2. contract'[r] = contract[r] \/ (r = x /\ contract[r] = "PENDING_SIGNATURE")
    BY <1>1, <2>1 DEF RowTypes
  <2>3. contract[r] = "PENDING_SIGNATURE" => status \notin {"CLOSED", "deleted"}
    BY <1>2, <2>1 DEF Gone, InProgress, Pending
  <2>4. Employed' = Employed
    BY <2>1 DEF Employed
  <2> HIDE DEF x
  <2> QED
    BY <1>3, <2>1, <2>2, <2>3, <2>4
<1>17. ASSUME NEW x \in Records, ClockOut(x)
       PROVE  Gone(r)'
  BY <1>4, <1>17 DEF ClockOut
<1>18. ASSUME NextDay
       PROVE  Gone(r)'
  BY <1>4, <1>18 DEF NextDay
<1> QED
  BY <1>5, <1>6, <1>7, <1>8, <1>9, <1>10, <1>11, <1>12, <1>13, <1>14, <1>15, <1>16, <1>17, <1>18, AllSteps


-----------------------------------------------------------------------------
(* Circles                                                                 *)

\* In a circle everybody holds a lock and waits for another.
LEMMA CirclesHoldAndWait ==
  ASSUME NEW C \in Circles, NEW q \in C
  PROVE  /\ q \in Requests /\ tx[q].held # {} /\ tx[q].want # <<>>
         /\ \E p \in C \ {q} : p \in Requests /\ \E l \in tx[p].held : Conflict(Head(tx[q].want), l)
<1>1. C \in SUBSET Requests /\ Stuck(C) /\ \A D \in SUBSET C : Stuck(D) => D = C
  BY DEF Circles
<1>2. \A o \in C : /\ tx[o].want # <<>>
                   /\ \E p \in C \ {o} : p \in Requests /\ \E l \in tx[p].held : Conflict(Head(tx[o].want), l)
  BY <1>1 DEF Stuck, Blockers
<1>3. ASSUME tx[q].held = {}
      PROVE  FALSE
  <2> DEFINE D == C \ {q}
  <2>1. D # {}
    BY <1>2
  <2>2. ASSUME NEW o \in D
        PROVE  Blockers(o) \cap D # {}
    <3>1. PICK p \in C \ {o} : p \in Requests /\ \E l \in tx[p].held : Conflict(Head(tx[o].want), l)
      BY <1>2
    <3>2. p # q /\ tx[o].want # <<>>
      BY <1>2, <1>3, <3>1
    <3>3. p \in Blockers(o)
      BY <3>1, <3>2 DEF Blockers
    <3> QED
      BY <3>1, <3>2, <3>3
  <2>3. Stuck(D) /\ D \in SUBSET C /\ D # C
    BY <2>1, <2>2 DEF Stuck
  <2> QED
    BY <1>1, <2>3
<1> QED
  BY <1>1, <1>2, <1>3

\* How far each job is when it holds a lock and waits for another.
LEMMA WhoHoldsAndWaits ==
  ASSUME LocksInOrder, NEW q \in Requests, tx[q].held # {}, tx[q].want # <<>>
  PROVE  LET r == tx[q].of
         IN  \/ /\ tx[q].to = "CLOSED" /\ StoreLock \in tx[q].held
                /\ tx[q].held \subseteq {StoreLock} \union RecordLocks \union AccountLocks
                /\ \A x \in Records : AccountLock(x) \in tx[q].held => RecordLock(x) \in tx[q].held
             \/ /\ tx[q].job \in {"retire", "move", "cancel"} /\ r \in Records
                /\ tx[q].held = {RecordLock(r)} /\ Head(tx[q].want) = AccountLock(r)
             \/ /\ tx[q].job = "resend" /\ r \in Records
                /\ tx[q].held = {RecordLock(r)} /\ Head(tx[q].want) = Lock(Store, "SHARE")
             \/ /\ tx[q].job = "answer" /\ r \in Records
                /\ tx[q].held = {AccountLock(r)} /\ Head(tx[q].want) = Lock(Staff(r), "UPDATE")
             \/ /\ tx[q].job = "write" /\ r \in Records
                /\ tx[q].held = {RecordLock(r)} /\ Head(tx[q].want) = Lock(Store, "KEY SHARE")
             \/ /\ tx[q].job = "clockIn" /\ r \in Records
                /\ tx[q].held \subseteq {AccountLock(r), Lock(Staff(r), "KEY SHARE")}
                /\ Head(tx[q].want) \in {Lock(Staff(r), "KEY SHARE"), Lock(Store, "KEY SHARE")}
<1> DEFINE t == tx[q]
           r == t.of
<1>1. Orderly(t) /\ (t.to = "CLOSED" => InOrder(t)) /\ t.job \in Jobs
  BY WhatIsHeld DEF LocksInOrder
<1>2. t.job \in StaffJobs => r \in Records
  BY <1>1 DEF Orderly
<1>3. \A x : Taking1(t, x) => FALSE
  BY DEF Taking1
<1>4. \A x, y : Taking2(t, x, y) => t.held = {x} /\ Head(t.want) = y
  BY ShortSequences DEF Taking2
<1>5. \A x, y, z : Taking3(t, x, y, z) => t.held \subseteq {x, y} /\ Head(t.want) \in {y, z}
  BY ShortSequences DEF Taking3
<1>6. CASE t.to = "CLOSED"
  BY <1>1, <1>6 DEF InOrder, Knows
<1>7. CASE t.job \in {"retire", "move", "cancel"}
  BY <1>1, <1>2, <1>3, <1>4, <1>7 DEF Orderly, StaffJobs
<1>8. CASE t.job = "resend"
  BY <1>1, <1>2, <1>4, <1>8 DEF Orderly, StaffJobs
<1>9. CASE t.job = "answer"
  BY <1>1, <1>2, <1>4, <1>9 DEF Orderly, StaffJobs
<1>10. CASE t.job = "write"
  BY <1>1, <1>2, <1>3, <1>4, <1>10 DEF Orderly, StaffJobs
<1>11. CASE t.job = "clockIn"
  <2>1. Taking3(t, AccountLock(r), Lock(Staff(r), "KEY SHARE"), Lock(Store, "KEY SHARE")) /\ r \in Records
    BY <1>1, <1>2, <1>11 DEF Orderly, StaffJobs
  <2>2. /\ t.held \subseteq {AccountLock(r), Lock(Staff(r), "KEY SHARE")}
        /\ Head(t.want) \in {Lock(Staff(r), "KEY SHARE"), Lock(Store, "KEY SHARE")}
    <3> DEFINE x == AccountLock(r)
               y == Lock(Staff(r), "KEY SHARE")
               z == Lock(Store, "KEY SHARE")
    <3>1. Taking3(t, x, y, z)
      BY <2>1
    <3> HIDE DEF x, y, z, t
    <3>2. t.held \subseteq {x, y} /\ Head(t.want) \in {y, z}
      BY <1>5, <3>1
    <3> QED
      BY <3>2 DEF x, y, z
  <2> QED
    BY <1>11, <2>1, <2>2
<1>12. CASE t.to # "CLOSED" /\ t.job \in {"update", "remove", "send", "sign", "idle"}
  BY <1>1, <1>3, <1>12 DEF Orderly
<1> QED
  BY <1>1, <1>6, <1>7, <1>8, <1>9, <1>10, <1>11, <1>12 DEF Jobs, StoreJobs, StaffJobs

\* A key-share lock of the store or of a record is never waited for in a circle: only
\* a removal or an answer that has all its locks excludes it.
LEMMA NobodyWaitsForAKey ==
  ASSUME LocksInOrder, NEW C \in Circles, NEW q \in C
  PROVE  Head(tx[q].want) \notin {Lock(Staff(r), "KEY SHARE") : r \in Records} \union {Lock(Store, "KEY SHARE")}
<1> SUFFICES ASSUME NEW row \in {Store} \union {Staff(r) : r \in Records},
                    Head(tx[q].want) = Lock(row, "KEY SHARE")
             PROVE  FALSE
  OBVIOUS
<1>0. \E p \in C \ {q} : p \in Requests /\ \E l \in tx[p].held : Conflict(Head(tx[q].want), l)
  BY CirclesHoldAndWait
<1>1. PICK p \in C \ {q} : p \in Requests /\ \E l \in tx[p].held : Conflict(Lock(row, "KEY SHARE"), l)
  BY <1>0
<1>2. PICK l \in tx[p].held : Conflict(Lock(row, "KEY SHARE"), l)
  BY <1>1
<1>3. l.row = row /\ l.mode = "UPDATE"
  BY <1>2 DEF Conflict, Excludes, Lock
<1>4. tx[p].held # {} /\ tx[p].want # <<>>
  BY <1>1, CirclesHoldAndWait
<1>5. l \in {StoreLock} \union RecordLocks \union AccountLocks \union {Lock(Staff(r), "KEY SHARE") : r \in Records}
  BY <1>1, <1>2, <1>4, WhoHoldsAndWaits DEF RecordLocks, AccountLocks
<1>6. l \in AccountLocks
  <2>1. \A r \in Records : RecordLock(r).mode = "NO KEY UPDATE" /\ Lock(Staff(r), "KEY SHARE").mode = "KEY SHARE"
    BY RowsOfLocks DEF Lock
  <2>2. StoreLock.mode = "NO KEY UPDATE"
    BY RowsOfLocks
  <2> QED
    BY <1>3, <1>5, <2>1, <2>2 DEF RecordLocks
<1>7. PICK r \in Records : l.row = Account(r)
  BY <1>6, RowsOfLocks DEF AccountLocks
<1> QED
  BY <1>3, <1>7, RowsDiffer

LEMMA CirclesFollowFromOrder ==
  ASSUME LocksInOrder
  PROVE  CirclesAreKnown
<1> SUFFICES ASSUME NEW C \in Circles
             PROVE  /\ \E q \in C : tx[q].job \in {"resend", "answer"}
                    /\ \A q \in C : \/ tx[q].to = "CLOSED"
                                    \/ tx[q].job \in {"resend", "answer", "retire", "move", "cancel"}
  BY DEF CirclesAreKnown
<1>1. ASSUME NEW q \in C
      PROVE  /\ q \in Requests /\ tx[q].held # {}
             /\ \/ /\ tx[q].to = "CLOSED" /\ StoreLock \in tx[q].held
                   /\ tx[q].held \subseteq {StoreLock} \union RecordLocks \union AccountLocks
                   /\ \A x \in Records : AccountLock(x) \in tx[q].held => RecordLock(x) \in tx[q].held
                \/ /\ tx[q].job \in {"retire", "move", "cancel"} /\ tx[q].of \in Records
                   /\ tx[q].held = {RecordLock(tx[q].of)} /\ Head(tx[q].want) = AccountLock(tx[q].of)
                \/ tx[q].job \in {"resend", "answer"}
  <2>1. q \in Requests /\ tx[q].held # {} /\ tx[q].want # <<>>
    BY CirclesHoldAndWait
  <2>2. Head(tx[q].want) \notin {Lock(Staff(r), "KEY SHARE") : r \in Records} \union {Lock(Store, "KEY SHARE")}
    BY NobodyWaitsForAKey
  <2> QED
    BY <2>1, <2>2, WhoHoldsAndWaits
<1>2. ASSUME \A q \in C : tx[q].job \notin {"resend", "answer"}
      PROVE  FALSE
  <2>1. ASSUME NEW q \in C, tx[q].job \in {"retire", "move", "cancel"}, tx[q].of \in Records,
               tx[q].held = {RecordLock(tx[q].of)}, Head(tx[q].want) = AccountLock(tx[q].of)
        PROVE  FALSE
    <3> DEFINE r == tx[q].of
    <3>1. PICK p \in C \ {q} : p \in Requests /\ \E l \in tx[p].held : Conflict(Head(tx[q].want), l)
      BY CirclesHoldAndWait
    <3>2. PICK l \in tx[p].held : l.row = Account(r)
      BY <2>1, <3>1, RowsOfLocks DEF Conflict
    <3>3. \A x \in Records : RecordLock(x) # l
      <4>1. \A x \in Records : RecordLock(x).row # Account(r)
        BY <2>1, RowsOfLocks, RowsDiffer
      <4> QED
        BY <3>2, <4>1
    <3>4. l # StoreLock
      BY <2>1, <3>2, RowsOfLocks, RowsDiffer
    <3>5. RecordLock(r) \in tx[p].held
      <4>1. /\ tx[p].held \subseteq {StoreLock} \union RecordLocks \union AccountLocks
            /\ \A x \in Records : AccountLock(x) \in tx[p].held => RecordLock(x) \in tx[p].held
        BY <1>1, <1>2, <3>1, <3>2, <3>3
      <4>2. PICK x \in Records : l = AccountLock(x)
        BY <3>2, <3>3, <3>4, <4>1 DEF RecordLocks, AccountLocks
      <4>3. x = r
        BY <2>1, <3>2, <4>2, RowsOfLocks, RowsDiffer
      <4> QED
        BY <3>2, <4>1, <4>2, <4>3
    <3>6. Conflict(RecordLock(r), RecordLock(r))
      BY WhatConflicts DEF RecordLock
    <3> QED
      BY <1>1, <2>1, <3>1, <3>5, <3>6 DEF LocksInOrder, Compatible
  <2>2. \A q \in C : q \in Requests /\ StoreLock \in tx[q].held
    BY <1>1, <1>2, <2>1
  <2>3. PICK q \in C : TRUE
    BY DEF Circles, Stuck
  <2>4. PICK p \in C : p # q
    BY <2>3, CirclesHoldAndWait
  <2>5. Conflict(StoreLock, StoreLock)
    BY WhatConflicts DEF StoreLock
  <2> QED
    BY <2>2, <2>4, <2>5 DEF LocksInOrder, Compatible
<1> QED
  BY <1>1, <1>2

-----------------------------------------------------------------------------
(* The theorems                                                            *)

LEMMA StoreInit ==
  ASSUME Init
  PROVE  StoreInv
<1>1. tx = [q \in Requests |-> Idle] /\ \A q \in Requests : tx[q] = Idle
  BY DEF Init
<1>2. LocksInOrder
  BY <1>1, IdleRequest DEF LocksInOrder, Compatible
<1>3. RowTypes
  BY StoreAssumption DEF Init, RowTypes, Pending, There
<1>4. UpdatesAreCurrent /\ ClosingKnowsAll /\ ClockInsAreJudged
  BY <1>1, IdleRequest DEF UpdatesAreCurrent, ClosingKnowsAll, ClockInsAreJudged
<1>5. GoneStoreHoldsNobody
  BY DEF Init, GoneStoreHoldsNobody
<1> QED
  BY <1>2, <1>3, <1>4, <1>5, TypesOfRows DEF StoreInv, RowsOK

\* Requests take their locks in order, updates and closings know the rows they read,
\* and the store's rows keep their types.
THEOREM StoreInvariant == Spec => []StoreInv
<1>1. StoreInv /\ [Next]_vars => StoreInv'
  <2> SUFFICES ASSUME StoreInv, [Next]_vars
               PROVE  StoreInv'
    OBVIOUS
  <2>1. LocksInOrder /\ TypeOK
    BY DEF StoreInv, RowsOK
  <2>2. LocksInOrder'
    BY <2>1, LocksStayInOrder
  <2>3. (TypeOK /\ closedOn <= day /\ (There => changes <= MaxChanges))'
    BY TypesStay
  <2>4. UpdatesAreCurrent' /\ ClosingKnowsAll' /\ ClockInsAreJudged' /\ GoneStoreHoldsNobody'
    BY UpdatesStayCurrent, ClosingsKnowAll, ClockInsStayJudged, NobodyComesBack
  <2> QED
    BY <2>2, <2>3, <2>4 DEF StoreInv, RowsOK
<1> QED
  BY <1>1, StoreInit, PTL DEF Spec

\* Whatever was under way when the store closed, it keeps nobody but whom somebody
\* wrote to meanwhile, and a removed store has no contract in progress: for any number
\* of requests and records (close, retireStores and the guards after them).
THEOREM ClosedForEverybody == Spec => []GoneStoreHoldsNobody
<1>1. StoreInv => GoneStoreHoldsNobody
  BY DEF StoreInv, RowsOK
<1> QED
  BY <1>1, StoreInvariant, PTL

\* A circle of any length has a contract sent again or an answer in it, and nobody
\* else than closings and retirements besides (retryOnDeadlock).
THEOREM CirclesNeedAReversal == Spec => []CirclesAreKnown
<1>1. StoreInv => CirclesAreKnown
  BY CirclesFollowFromOrder DEF StoreInv
<1> QED
  BY <1>1, StoreInvariant, PTL

\* The rows and requests keep their types.
THEOREM StoreTypes == Spec => []TypeOK
<1>1. StoreInv => TypeOK
  BY DEF StoreInv, RowsOK
<1> QED
  BY <1>1, StoreInvariant, PTL

-----------------------------------------------------------------------------
(* Files made in the background                                            *)

FileKinds == {"bulk", "excel"}
JobStatuses == {"none", "PENDING", "PROCESSING", "SUCCEEDED", "FAILED"}
JobRow == [kind: FileKinds \cup {"direct", "none"}, status: JobStatuses, attempt: Nat, at: Nat,
           began: Nat, key: Nat, expires: Nat, scope: SUBSET Stores, shows: SUBSET Stores,
           moved: BOOLEAN]
\* What the object storage may have under a key: {stores the file shows}, or nothing.
FileSets == SUBSET SUBSET Stores
\* The steps of a run that has an attempt in hand: while it may still succeed, when it
\* has failed, and when another run has taken the row.
Trying == {"check", "build", "note", "put", "settle"}
Failing == {"drop", "fail", "refuse"}
InHand == Trying \cup Failing \cup {"dropLost"}
Mailing == {"mail", "mailStuck"}
RunSteps == {"idle", "recover", "sweep", "claim"} \cup InHand \cup Mailing
RunRow == [step: RunSteps, since: Nat, stuck: SUBSET [id: Files!Ids, attempt: Nat, key: Nat],
           handled: SUBSET Files!Ids, id: Files!Ids \cup {0}, attempt: Nat, key: Nat,
           scope: SUBSET Stores, made: SUBSET Stores, moved: BOOLEAN]
DeskRow == [step: {"idle", "asked", "making"}, kind: Kinds \cup {"none"}, stores: SUBSET Stores,
            at: Nat, id: Files!Ids \cup {0}]
ExportTyped ==
    /\ now \in Nat /\ scope \in SUBSET Stores
    /\ jobs \in [Files!Ids -> JobRow] /\ content \in [Files!Keys -> FileSets]
         /\ mails \in [Files!Ids -> Nat]
    /\ desk \in [Callers -> DeskRow] /\ worker \in [Workers -> RunRow]

\* Rows are numbered as they come.
Filled(J) == \E n \in 0 .. MaxJobs : \A i \in Files!Ids : J[i].kind = "none" <=> n < i

\* A file shows what is put down with it: of an archive whom it shows, of a workbook the
\* stores that were noted, unless they changed while it was made.
ShowsNoted(shown, j) == IF j.kind = "bulk" THEN shown = j.shows ELSE j.moved \/ shown = j.scope

\* A row j, the file of its latest attempt and its mails m: attempts are counted, the key is
\* the attempt's, a finished file is there while it may be downloaded, a mail comes last.
RowFits(j, file, m, t) ==
    /\ j.kind = "none" => j.status = "none" /\ j.attempt = 0
    /\ j.kind = "direct" => j.status \in {"PROCESSING", "SUCCEEDED", "FAILED"}
    /\ j.kind \in FileKinds =>
         /\ j.status # "none" /\ j.attempt \in 0 .. Files!MaxAttempts
         /\ j.status = "PENDING" => j.attempt < Files!MaxAttempts
         /\ j.status \in {"PROCESSING", "SUCCEEDED"} => j.attempt >= 1
         /\ j.kind = "bulk" /\ j.status = "PENDING" => j.key = 0
         /\ j.kind = "bulk" /\ j.status = "PROCESSING" => j.key \in {0, j.attempt}
         /\ j.status = "SUCCEEDED" =>
              /\ j.key \in {0, j.attempt}
              /\ \A shown \in file : ShowsNoted(shown, j)
              /\ j.kind = "bulk" => j.shows \subseteq j.scope
              /\ t < j.expires => j.key # 0 /\ (~LoseAnswers => file # {})
    /\ m = 0 \/ (m = 1 /\ j.kind = "excel" /\ j.status \in {"SUCCEEDED", "FAILED"})

\* Attempt a of a row ended without a file.
Over(j, a) == a < j.attempt \/ (a = j.attempt /\ j.status \in {"PENDING", "FAILED"})
\* What a run r relies on.
HandFits(r, j, file, s) ==
    /\ j.kind \in FileKinds /\ 1 <= r.attempt /\ r.attempt <= j.attempt
    /\ r.step \in Trying \cup {"refuse"} \/ (r.step \in Failing /\ ~LoseAnswers) =>
         ~(j.status = "SUCCEEDED" /\ j.attempt = r.attempt)
    /\ r.step \in {"settle", "drop", "dropLost"} => r.key = r.attempt
    /\ r.step = "dropLost" => Over(j, r.attempt)
    /\ r.step = "build" /\ j.kind # "bulk" => r.moved \/ r.scope = s
    /\ r.step \in {"note", "put", "settle"} =>
         IF j.kind = "bulk" THEN r.made \subseteq j.scope ELSE r.moved \/ r.made = r.scope
    /\ r.step = "settle" /\ j.status = "PROCESSING" /\ j.attempt = r.attempt => file = {r.made}
StuckFits(S, J) ==
    \A e \in S : /\ J[e.id].kind \in FileKinds /\ e.attempt <= J[e.id].attempt
                 /\ J[e.id].kind = "bulk" => e.key \in {0, e.attempt}
RunFits(r, J, C, M, s) ==
    /\ r.step \in InHand => /\ r.id \in Files!Ids
                            /\ HandFits(r, J[r.id], C[<<r.id, r.attempt>>], s)
    /\ r.step = "sweep" => r.id \in Files!Ids /\ J[r.id].kind = "bulk" /\ Over(J[r.id], r.key)
    /\ r.step \in Mailing => /\ r.id \in Files!Ids /\ J[r.id].kind = "excel" /\ M[r.id] = 0
                             /\ J[r.id].status \in {"SUCCEEDED", "FAILED"}
    /\ StuckFits(r.stuck, J)
\* Two runs have no attempt and no mail in common.
RunsApart(r, q) ==
    /\ r.step \in InHand /\ q.step \in InHand /\ r.id = q.id => r.attempt # q.attempt
    /\ r.step \in Mailing /\ q.step \in Mailing => r.id # q.id

RowsFit(J, C, M, t) ==
    Filled(J) /\ \A i \in Files!Ids : RowFits(J[i], C[<<i, J[i].attempt>>], M[i], t)
RunsFit(W, J, C, M, s) ==
    /\ \A w \in Workers : RunFits(W[w], J, C, M, s)
    /\ \A w, v \in Workers : w # v => RunsApart(W[w], W[v])
DesksFit(D, J) ==
    \A c \in Callers : /\ D[c].step = "asked" => D[c].kind \in Kinds
                       /\ D[c].step = "making" =>
                            D[c].id \in Files!Ids /\ J[D[c].id].kind = "direct"
ExportInv ==
    /\ ExportTyped /\ RowsFit(jobs, content, mails, now)
    /\ RunsFit(worker, jobs, content, mails, scope) /\ DesksFit(desk, jobs)

\* What the constants are taken to be, and what an action may use.
LEMMA ExportTells ==
  ASSUME ExportInv
  PROVE  /\ now \in Nat /\ scope \in SUBSET Stores
         /\ jobs \in [Files!Ids -> JobRow] /\ content \in [Files!Keys -> FileSets]
              /\ mails \in [Files!Ids -> Nat]
         /\ desk \in [Callers -> DeskRow] /\ worker \in [Workers -> RunRow]
         /\ \A i \in Files!Ids : jobs[i] \in JobRow
         /\ \A w \in Workers : worker[w] \in RunRow
         /\ Filled(jobs) /\ DesksFit(desk, jobs)
         /\ \A i \in Files!Ids :
              RowFits(jobs[i], content[<<i, jobs[i].attempt>>], mails[i], now)
         /\ \A w \in Workers : RunFits(worker[w], jobs, content, mails, scope)
         /\ \A w, v \in Workers : w # v => RunsApart(worker[w], worker[v])
BY DEF ExportInv, ExportTyped, RowsFit, RunsFit

\* What a row may become while other runs have attempts at it.
RowStep(j, n) ==
    /\ n.kind = j.kind /\ n.kind \in FileKinds /\ j.attempt <= n.attempt
    /\ j.kind = "bulk" => n.scope = j.scope
    /\ j.status \in {"FAILED", "SUCCEEDED"} => n.status = j.status /\ n.attempt = j.attempt
    /\ j.status = "PENDING" => n.attempt > j.attempt \/ n.status = "PENDING"
    /\ n.status = "PROCESSING" =>
         n.attempt > j.attempt \/ (j.status = "PROCESSING" /\ j.attempt = n.attempt)

LEMMA OverStays ==
  ASSUME NEW j, NEW n, RowStep(j, n), NEW a \in Nat, j.attempt \in Nat, n.attempt \in Nat,
         Over(j, a),
         n.status = "SUCCEEDED" /\ j.status # "SUCCEEDED" => j.status = "PROCESSING"
  PROVE  Over(n, a)
BY DEF RowStep, Over

\* One row changes: what another run q relies on.
LEMMA RowsLeaveRuns ==
  ASSUME NEW J \in [Files!Ids -> JobRow], NEW K \in [Files!Ids -> JobRow], NEW C, NEW M, NEW s,
         NEW i \in Files!Ids, NEW n \in JobRow, NEW q \in RunRow,
         K[i] = n, \A k \in Files!Ids \ {i} : K[k] = J[k], RowStep(J[i], n), RunFits(q, J, C,
           M, s),
         n.status = "SUCCEEDED" /\ J[i].status # "SUCCEEDED" =>
            /\ J[i].status = "PROCESSING" /\ J[i].attempt = n.attempt
            /\ q.step \in InHand /\ q.id = i => q.attempt # n.attempt
  PROVE  RunFits(q, K, C, M, s)
<1>1. /\ q.attempt \in Nat /\ q.key \in Nat /\ \A e \in q.stuck : e.id \in Files!Ids
           /\ e.attempt \in Nat
      /\ \A k \in Files!Ids : J[k].attempt \in Nat /\ K[k].attempt \in Nat
  BY DEF RunRow, JobRow
<1>2. /\ \A k \in Files!Ids \ {i} : K[k] = J[k]
      /\ K[i] = n
  OBVIOUS
<1>3. ASSUME q.step \in InHand
      PROVE  q.id \in Files!Ids /\ HandFits(q, K[q.id], C[<<q.id, q.attempt>>], s)
  <2>1. q.id \in Files!Ids /\ HandFits(q, J[q.id], C[<<q.id, q.attempt>>], s)
    BY <1>3 DEF RunFits
  <2>2. CASE q.id # i
    BY <1>2, <2>1, <2>2
  <2>3. CASE q.id = i
    <3>1. q.step = "dropLost" => Over(n, q.attempt)
      BY <1>1, <1>2, <2>1, <2>3, OverStays DEF HandFits
    <3>2. n.kind \in FileKinds /\ q.attempt <= n.attempt
      BY <1>1, <1>2, <2>1, <2>3 DEF HandFits, RowStep
    <3>3. n.status = "SUCCEEDED" /\ n.attempt = q.attempt
            => J[i].status = "SUCCEEDED" /\ J[i].attempt = q.attempt
      BY <1>3, <2>3 DEF RowStep
    <3>4. n.status = "PROCESSING" /\ n.attempt = q.attempt
            => J[i].status = "PROCESSING" /\ J[i].attempt = q.attempt
      BY <1>1, <2>1, <2>3 DEF RowStep, HandFits
    <3>5. n.kind = J[i].kind /\ (n.kind = "bulk" => n.scope = J[i].scope)
      BY DEF RowStep
    <3> QED
      BY <1>2, <2>1, <2>3, <3>1, <3>2, <3>3, <3>4, <3>5 DEF HandFits
  <2> QED
    BY <2>2, <2>3
<1>4. ASSUME q.step = "sweep"
      PROVE  q.id \in Files!Ids /\ K[q.id].kind = "bulk" /\ Over(K[q.id], q.key)
  <2>1. q.id \in Files!Ids /\ J[q.id].kind = "bulk" /\ Over(J[q.id], q.key)
    BY <1>4 DEF RunFits
  <2> QED
    BY <1>1, <1>2, <2>1, OverStays DEF RowStep
<1>5. q.step \in Mailing => /\ q.id \in Files!Ids /\ K[q.id].kind = "excel" /\ M[q.id] = 0
                            /\ K[q.id].status \in {"SUCCEEDED", "FAILED"}
  BY <1>2 DEF RunFits, RowStep
<1>6. StuckFits(q.stuck, K)
  BY <1>1, <1>2 DEF RunFits, RowStep, StuckFits
<1> QED
  BY <1>3, <1>4, <1>5, <1>6 DEF RunFits

\* The row of one file is written and the run w goes on.
LEMMA RowAndRun ==
  ASSUME ExportInv, NEW w \in Workers, NEW r \in RunRow, worker' = [worker EXCEPT ![w] = r],
         NEW i \in Files!Ids, NEW n \in JobRow, jobs' = [jobs EXCEPT ![i] = n],
           RowStep(jobs[i], n),
         UNCHANGED <<now, scope, content, mails, desk>>,
         RowFits(n, content[<<i, n.attempt>>], mails[i], now),
         n.status = "SUCCEEDED" /\ jobs[i].status # "SUCCEEDED" =>
            /\ jobs[i].status = "PROCESSING" /\ jobs[i].attempt = n.attempt
            /\ worker[w].step \in InHand /\ worker[w].id = i /\ worker[w].attempt = n.attempt,
         RunFits(r, [jobs EXCEPT ![i] = n], content, mails, scope),
         \A v \in Workers \ {w} : RunsApart(r, worker[v]) /\ RunsApart(worker[v], r)
  PROVE  ExportInv'
<1>1. PICK K : K = [jobs EXCEPT ![i] = n]
  OBVIOUS
<1>2. K \in [Files!Ids -> JobRow] /\ K[i] = n /\ \A k \in Files!Ids \ {i} : K[k] = jobs[k]
  BY <1>1, ExportTells
<1>3. PICK W : W = [worker EXCEPT ![w] = r]
  OBVIOUS
<1>4. W \in [Workers -> RunRow] /\ W[w] = r /\ \A v \in Workers \ {w} : W[v] = worker[v]
  BY <1>3, ExportTells
<1>5. ASSUME NEW v \in Workers
      PROVE  RunFits(W[v], K, content, mails, scope)
  <2>1. CASE v = w
    BY <1>1, <1>4, <2>1
  <2>2. CASE v # w
    <3>1. worker[v] \in RunRow /\ RunFits(worker[v], jobs, content, mails, scope)
          /\ RunsApart(worker[v], worker[w]) /\ jobs \in [Files!Ids -> JobRow]
      BY <2>2, ExportTells
    <3>2. n.status = "SUCCEEDED" /\ jobs[i].status # "SUCCEEDED" =>
             /\ jobs[i].status = "PROCESSING" /\ jobs[i].attempt = n.attempt
             /\ worker[v].step \in InHand /\ worker[v].id = i => worker[v].attempt # n.attempt
      BY <3>1 DEF RunsApart
    <3>3. PICK J, q : J = jobs /\ q = worker[v]
      OBVIOUS
    <3>4. /\ J \in [Files!Ids -> JobRow] /\ RowStep(J[i], n) /\ q \in RunRow
          /\ RunFits(q, J, content, mails, scope) /\ K \in [Files!Ids -> JobRow]
          /\ K[i] = n /\ \A k \in Files!Ids \ {i} : K[k] = J[k]
          /\ n.status = "SUCCEEDED" /\ J[i].status # "SUCCEEDED" =>
               /\ J[i].status = "PROCESSING" /\ J[i].attempt = n.attempt
               /\ q.step \in InHand /\ q.id = i => q.attempt # n.attempt
      BY <1>1, <1>2, <3>1, <3>2, <3>3
    <3>5. RunFits(q, K, content, mails, scope)
      BY ONLY <3>4, i \in Files!Ids, n \in JobRow, RowsLeaveRuns
    <3> QED
      BY <1>4, <2>2, <3>3, <3>5
  <2> QED
    BY <2>1, <2>2
<1>6. RunsFit(W, K, content, mails, scope)
  <2>1. \A a, b \in Workers : a # b => RunsApart(W[a], W[b])
    BY <1>4, ExportTells
  <2> QED
    BY <1>5, <2>1 DEF RunsFit
<1>7. RowsFit(K, content, mails, now)
  <2>1. Filled(K)
    BY <1>2, ExportTells DEF Filled, RowStep, FileKinds
  <2>2. \A k \in Files!Ids : RowFits(K[k], content[<<k, K[k].attempt>>], mails[k], now)
    BY <1>2, ExportTells
  <2> QED
    BY <2>1, <2>2 DEF RowsFit
<1>8. DesksFit(desk, K)
  BY <1>2, ExportTells DEF DesksFit, RowStep, FileKinds
<1>9. jobs' = K /\ worker' = W
  BY <1>1, <1>3
<1> QED
  BY <1>2, <1>4, <1>6, <1>7, <1>8, <1>9 DEF ExportInv, ExportTyped

\* Only a run goes on.
LEMMA RunOnly ==
  ASSUME ExportInv, NEW w \in Workers, NEW r \in RunRow, worker' = [worker EXCEPT ![w] = r],
         UNCHANGED <<now, scope, jobs, content, mails, desk>>,
         RunFits(r, jobs, content, mails, scope),
         \A v \in Workers \ {w} : RunsApart(r, worker[v]) /\ RunsApart(worker[v], r)
  PROVE  ExportInv'
<1>3. PICK W : W = [worker EXCEPT ![w] = r]
  OBVIOUS
<1>4. W \in [Workers -> RunRow] /\ W[w] = r /\ \A v \in Workers \ {w} : W[v] = worker[v]
  BY <1>3, ExportTells
<1>5. RunsFit(W, jobs, content, mails, scope)
  BY <1>4, ExportTells DEF RunsFit
<1> QED
  BY <1>3, <1>4, <1>5 DEF ExportInv, ExportTyped

\* A run that has nothing in hand, or what it had, meets no other.
LEMMA ApartAs ==
  ASSUME NEW r, NEW p, NEW q, RunsApart(p, q), RunsApart(q, p),
         r.step \in InHand => p.step \in InHand /\ r.id = p.id /\ r.attempt = p.attempt,
         r.step \in Mailing => p.step \in Mailing /\ r.id = p.id
  PROVE  RunsApart(r, q) /\ RunsApart(q, r)
BY DEF RunsApart

LEMMA GoesTells ==
  ASSUME ExportInv, NEW w \in Workers, NEW step \in RunSteps, Files!Goes(w, step)
  PROVE  \E n \in RunRow :
           /\ worker' = [worker EXCEPT ![w] = n] /\ n.step = step /\ n.stuck = worker[w].stuck
           /\ step \notin {"recover", "claim"} =>
                n.id = worker[w].id /\ n.attempt = worker[w].attempt /\ n.key = worker[w].key
           /\ step = "put" => /\ n.scope = worker[w].scope /\ n.made = worker[w].made
                              /\ n.moved = worker[w].moved
<1>1. worker[w] \in RunRow
  BY ExportTells
<1>2. PICK kept : kept = IF step = "put" THEN worker[w]
                         ELSE [worker[w] EXCEPT !.scope = {}, !.made = {}, !.moved = FALSE]
  OBVIOUS
<1>3. /\ kept \in RunRow /\ kept.stuck = worker[w].stuck /\ kept.id = worker[w].id
      /\ kept.attempt = worker[w].attempt /\ kept.key = worker[w].key
      /\ step = "put" => kept = worker[w]
  BY <1>1, <1>2 DEF RunRow
<1>4. worker' = [worker EXCEPT ![w] =
         IF step \in {"recover", "claim"}
         THEN [kept EXCEPT !.step = step, !.id = 0, !.attempt = 0, !.key = 0]
         ELSE [kept EXCEPT !.step = step]]
  BY <1>2 DEF Files!Goes
<1>5. CASE step \in {"recover", "claim"}
  <2>1. PICK n : n = [kept EXCEPT !.step = step, !.id = 0, !.attempt = 0, !.key = 0]
    OBVIOUS
  <2>2. n \in RunRow /\ n.step = step /\ n.stuck = worker[w].stuck
    BY <1>3, <2>1 DEF RunRow
  <2> QED
    BY <1>4, <1>5, <2>1, <2>2
<1>6. CASE step \notin {"recover", "claim"}
  <2>1. PICK n : n = [kept EXCEPT !.step = step]
    OBVIOUS
  <2>2. /\ n \in RunRow /\ n.step = step /\ n.stuck = kept.stuck
        /\ n.id = kept.id /\ n.attempt = kept.attempt /\ n.key = kept.key
        /\ n.scope = kept.scope /\ n.made = kept.made /\ n.moved = kept.moved
    BY <1>3, <2>1 DEF RunRow
  <2> QED
    BY <1>3, <1>4, <1>6, <2>1, <2>2
<1> QED
  BY <1>5, <1>6

\* The file of one attempt is put or deleted, and the run w goes on.
LEMMA FileAndRun ==
  ASSUME ExportInv, NEW w \in Workers, NEW r \in RunRow, worker' = [worker EXCEPT ![w] = r],
         NEW i \in Files!Ids, NEW k \in Nat, NEW f \in FileSets,
         content' = [content EXCEPT ![<<i, k>>] = f],
         UNCHANGED <<now, scope, jobs, mails, desk>>,
         ~(jobs[i].kind \in FileKinds /\ jobs[i].status = "SUCCEEDED" /\ jobs[i].attempt = k)
           \/ (f = {} /\ LoseAnswers),
         \A v \in Workers \ {w} :
            worker[v].step = "settle" /\ worker[v].id = i /\ worker[v].attempt = k
              => jobs[i].attempt # k \/ jobs[i].status # "PROCESSING",
         RunFits(r, jobs, [content EXCEPT ![<<i, k>>] = f], mails, scope),
         \A v \in Workers \ {w} : RunsApart(r, worker[v]) /\ RunsApart(worker[v], r)
  PROVE  ExportInv'
<1>1. PICK C : C = [content EXCEPT ![<<i, k>>] = f]
  OBVIOUS
<1>2. C \in [Files!Keys -> FileSets]
      /\ \A a \in Files!Ids : \A b \in 1 .. Files!MaxAttempts : a # i \/ b # k =>
           C[<<a, b>>] = content[<<a, b>>]
  BY <1>1, ExportTells DEF Files!Keys
<1>a. k \in 1 .. Files!MaxAttempts => C[<<i, k>>] = f
  BY <1>1, ExportTells DEF Files!Keys
<1>3. PICK W : W = [worker EXCEPT ![w] = r]
  OBVIOUS
<1>4. W \in [Workers -> RunRow] /\ W[w] = r /\ \A v \in Workers \ {w} : W[v] = worker[v]
  BY <1>3, ExportTells
<1>5. ASSUME NEW v \in Workers
      PROVE  RunFits(W[v], jobs, C, mails, scope)
  <2>1. CASE v = w
    BY <1>1, <1>4, <2>1
  <2>2. CASE v # w
    <3>1. worker[v] \in RunRow /\ RunFits(worker[v], jobs, content, mails, scope)
      BY ExportTells
    <3>2. ASSUME worker[v].step \in InHand
          PROVE  HandFits(worker[v], jobs[worker[v].id], C[<<worker[v].id,
                   worker[v].attempt>>], scope)
      <4>1. worker[v].id \in Files!Ids /\ worker[v].attempt \in 1 .. Files!MaxAttempts
        <5>1. PICK d : d = worker[v].id
          OBVIOUS
        <5>2. d \in Files!Ids /\ 1 <= worker[v].attempt /\ worker[v].attempt <= jobs[d].attempt
              /\ jobs[d].kind \in FileKinds /\ worker[v].attempt \in Nat
          BY <3>1, <3>2, <5>1 DEF RunFits, RunRow, HandFits
        <5>3. jobs[d].attempt \in 0 .. Files!MaxAttempts
          BY <5>2, ExportTells DEF RowFits
        <5> QED
          BY <5>1, <5>2, <5>3 DEF Files!MaxAttempts
      <4>2. HandFits(worker[v], jobs[worker[v].id],
                     content[<<worker[v].id, worker[v].attempt>>], scope)
        BY <3>1, <3>2 DEF RunFits
      <4>3. CASE worker[v].id = i /\ worker[v].attempt = k
        BY <2>2, <4>2, <4>3 DEF HandFits
      <4>4. CASE worker[v].id # i \/ worker[v].attempt # k
        BY <1>2, <4>1, <4>2, <4>4
      <4> QED
        BY <4>3, <4>4
    <3> QED
      BY <1>4, <2>2, <3>1, <3>2 DEF RunFits
  <2> QED
    BY <2>1, <2>2
<1>6. RunsFit(W, jobs, C, mails, scope)
  <2>1. \A a, b \in Workers : a # b => RunsApart(W[a], W[b])
    BY <1>4, ExportTells
  <2> QED
    BY <1>5, <2>1 DEF RunsFit
<1>7. RowsFit(jobs, C, mails, now)
  <2>1. Filled(jobs)
    BY ExportTells
  <2>2. ASSUME NEW a \in Files!Ids
        PROVE  RowFits(jobs[a], C[<<a, jobs[a].attempt>>], mails[a], now)
    <3>1. jobs[a] \in JobRow /\ RowFits(jobs[a], content[<<a, jobs[a].attempt>>], mails[a], now)
      BY ExportTells
    <3>2. jobs[a].attempt \in Nat
      BY <3>1 DEF JobRow
    <3>3. CASE a # i \/ jobs[a].attempt # k
      <4>1. CASE jobs[a].attempt \in 1 .. Files!MaxAttempts
        BY <1>2, <3>1, <3>3, <4>1
      <4>2. CASE jobs[a].attempt \notin 1 .. Files!MaxAttempts
        BY <3>1, <3>2, <4>2 DEF RowFits, Files!MaxAttempts
      <4> QED
        BY <4>1, <4>2
    <3>4. CASE a = i /\ jobs[a].attempt = k
      <4>1. CASE jobs[i].kind \in FileKinds /\ jobs[i].status = "SUCCEEDED"
        <5>1. k \in 1 .. Files!MaxAttempts
          BY <3>1, <3>4, <4>1 DEF RowFits, Files!MaxAttempts
        <5> QED
          BY <1>a, <3>1, <3>4, <4>1, <5>1 DEF RowFits
      <4>2. CASE ~(jobs[i].kind \in FileKinds /\ jobs[i].status = "SUCCEEDED")
        BY <3>1, <3>4, <4>2 DEF RowFits
      <4> QED
        BY <4>1, <4>2
    <3> QED
      BY <3>3, <3>4
  <2> QED
    BY <2>1, <2>2 DEF RowsFit
<1>9. content' = C /\ worker' = W
  BY <1>1, <1>3
<1> QED
  BY <1>2, <1>4, <1>6, <1>7, <1>9, ExportTells DEF ExportInv, ExportTyped

-----------------------------------------------------------------------------
(* Each step of a run                                                      *)

LEMMA ResettingFits ==
  ASSUME ExportInv, NEW w \in Workers
  PROVE  /\ Files!Resting \in RunRow /\ RunFits(Files!Resting, jobs, content, mails, scope)
         /\ \A v \in Workers \ {w} : RunsApart(Files!Resting, worker[v])
              /\ RunsApart(worker[v], Files!Resting)
BY DEF Files!Resting, RunRow, RunFits, StuckFits, RunsApart, RunSteps, InHand, Trying,
   Failing, Mailing

LEMMA DieKeeps ==
  ASSUME ExportInv, NEW w \in Workers, Files!Die(w)
  PROVE  ExportInv'
BY ResettingFits, RunOnly DEF Files!Die, Files!visible

\* The run takes up a step at which it holds nothing.
LEMMA RestingFits ==
  ASSUME ExportInv, NEW w \in Workers, NEW n, n.stuck = worker[w].stuck,
         n.step \in {"recover", "claim"}
  PROVE  /\ RunFits(n, jobs, content, mails, scope)
         /\ \A v \in Workers \ {w} : RunsApart(n, worker[v]) /\ RunsApart(worker[v], n)
<1>1. n.step \notin InHand /\ n.step \notin Mailing /\ n.step # "sweep"
  BY DEF InHand, Trying, Failing, Mailing
<1> QED
  BY <1>1, ExportTells DEF RunFits, RunsApart

LEMMA RecoveredKeeps ==
  ASSUME ExportInv, NEW w \in Workers, Files!Recovered(w)
  PROVE  ExportInv'
<1>1. PICK n \in RunRow : worker' = [worker EXCEPT ![w] = n] /\ n.step = "claim"
                          /\ n.stuck = worker[w].stuck
  BY GoesTells DEF Files!Recovered, RunSteps
<1> QED
  BY <1>1, RestingFits, RunOnly DEF Files!Recovered, Files!visible

\* A run stays apart while it has the same attempt in hand.
LEMMA SameHand ==
  ASSUME ExportInv, NEW w \in Workers, NEW n, worker[w].step \in InHand,
         n.step \in InHand => n.id = worker[w].id /\ n.attempt = worker[w].attempt,
         n.step \in Mailing => \A v \in Workers \ {w} : worker[v].step \in Mailing =>
           worker[v].id # n.id
  PROVE  \A v \in Workers \ {w} : RunsApart(n, worker[v]) /\ RunsApart(worker[v], n)
BY ExportTells DEF RunsApart

\* What a run knows of the attempt it has in hand.
LEMMA HandTells ==
  ASSUME ExportInv, NEW w \in Workers, worker[w].step \in InHand
  PROVE  /\ worker[w].id \in Files!Ids /\ worker[w].attempt \in Nat
              /\ jobs[worker[w].id] \in JobRow
         /\ HandFits(worker[w], jobs[worker[w].id], content[<<worker[w].id,
              worker[w].attempt>>], scope)
         /\ StuckFits(worker[w].stuck, jobs)
         /\ worker[w] \in RunRow
BY ExportTells DEF RunFits, RunRow

LEMMA CheckKeeps ==
  ASSUME ExportInv, NEW w \in Workers, Files!Check(w)
  PROVE  ExportInv'
<1>1. PICK i, read, step :
         /\ i = worker[w].id /\ read = (IF jobs[i].kind = "bulk" THEN jobs[i].scope \ hidden ELSE scope)
         /\ step = (IF Files!StoresKept(i) THEN "build" ELSE "refuse")
  OBVIOUS
<1>2. PICK n : n = [worker[w] EXCEPT !.scope = read, !.step = step]
  OBVIOUS
<1>3. worker[w].step = "check" /\ worker' = [worker EXCEPT ![w] = n]
      /\ UNCHANGED <<now, scope, jobs, content, mails, desk>>
  BY <1>1, <1>2, ExportTells DEF Files!Check, Files!At, Files!visible
<1>4. worker[w].step \in InHand
  BY <1>3 DEF InHand, Trying
<1>5. read \in SUBSET Stores /\ (jobs[i].kind # "bulk" => read = scope)
  <2>1. jobs[i].scope \in SUBSET Stores
    BY <1>1, <1>4, HandTells DEF JobRow
  <2>2. scope \in SUBSET Stores
    BY ExportTells
  <2> QED
    BY <1>1, <2>1, <2>2
<1>6. n \in RunRow /\ n.step \in {"build", "refuse"} /\ n.id = i
      /\ n.attempt = worker[w].attempt /\ n.scope = read /\ n.stuck = worker[w].stuck
  <2>1. worker[w] \in RunRow
    BY ExportTells
  <2>2. step \in {"build", "refuse"}
    BY <1>1
  <2>3. step \in RunSteps
    BY <2>2 DEF RunSteps, InHand, Trying, Failing
  <2> QED
    BY <1>1, <1>2, <1>5, <2>1, <2>2, <2>3 DEF RunRow
<1>7. HandFits(n, jobs[i], content[<<i, n.attempt>>], scope) /\ i \in Files!Ids
  BY <1>1, <1>3, <1>4, <1>5, <1>6, HandTells DEF HandFits, Trying, Failing
<1>8. RunFits(n, jobs, content, mails, scope)
  BY <1>4, <1>6, <1>7, HandTells DEF RunFits, Mailing
<1>9. \A v \in Workers \ {w} : RunsApart(n, worker[v]) /\ RunsApart(worker[v], n)
  BY <1>1, <1>4, <1>6, SameHand DEF Mailing
<1> QED
  BY <1>3, <1>6, <1>8, <1>9, RunOnly

LEMMA BuildKeeps ==
  ASSUME ExportInv, NEW w \in Workers, Files!Build(w)
  PROVE  ExportInv'
<1>1. worker[w].step = "build" /\ UNCHANGED <<now, scope, jobs, content, mails, desk>>
  BY DEF Files!Build, Files!At, Files!visible
<1>2. worker[w].step \in InHand
  BY <1>1 DEF InHand, Trying
<1>3. PICK i : i = worker[w].id
  OBVIOUS
<1>4. /\ i \in Files!Ids /\ jobs[i] \in JobRow /\ worker[w] \in RunRow
      /\ HandFits(worker[w], jobs[i], content[<<i, worker[w].attempt>>], scope)
  BY <1>2, <1>3, HandTells
<1>5. ASSUME NEW n \in RunRow, worker' = [worker EXCEPT ![w] = n],
             n.step \in {"fail", "refuse", "note", "put"},
             n.id = i, n.attempt = worker[w].attempt, n.stuck = worker[w].stuck,
             n.step \in {"note", "put"} =>
                IF jobs[i].kind = "bulk" THEN n.made \subseteq jobs[i].scope
                ELSE n.moved \/ n.made = n.scope
      PROVE  ExportInv'
  <2>1. HandFits(n, jobs[i], content[<<i, n.attempt>>], scope)
    BY <1>1, <1>4, <1>5 DEF HandFits, Trying, Failing
  <2>2. RunFits(n, jobs, content, mails, scope)
    BY <1>2, <1>4, <1>5, <2>1, HandTells DEF RunFits, Mailing
  <2>3. \A v \in Workers \ {w} : RunsApart(n, worker[v]) /\ RunsApart(worker[v], n)
    BY <1>2, <1>3, <1>5, SameHand DEF Mailing
  <2> QED
    BY <1>1, <1>5, <2>2, <2>3, RunOnly
\* The attempt fails.
<1>6. ASSUME NEW step \in {"fail", "refuse"}, Files!Goes(w, step)
      PROVE  ExportInv'
  <2>1. step \in RunSteps /\ step \notin {"recover", "claim"}
    BY <1>6 DEF RunSteps, InHand, Failing
  <2>2. PICK n \in RunRow : /\ worker' = [worker EXCEPT ![w] = n] /\ n.step = step
                            /\ n.stuck = worker[w].stuck /\ n.id = worker[w].id
                            /\ n.attempt = worker[w].attempt
    BY <1>6, <2>1, GoesTells
  <2> QED
    BY <1>3, <1>5, <1>6, <2>2
\* The file is made: of the stores of the row, or of those managed by now.
<1>7. ASSUME NEW made, NEW step \in {"note", "put"},
             made \in IF jobs[i].kind = "bulk" THEN Files!Shown(i, worker[w].scope) ELSE {scope},
             worker' = [worker EXCEPT ![w].made = made, ![w].step = step]
      PROVE  ExportInv'
  <2>1. made \in SUBSET Stores /\ (jobs[i].kind = "bulk" => made \subseteq jobs[i].scope)
        /\ (jobs[i].kind # "bulk" => made = scope)
    BY <1>4, <1>7, ExportTells DEF Files!Shown, JobRow
  <2>2. PICK n : n = [worker[w] EXCEPT !.made = made, !.step = step]
    OBVIOUS
  <2>3. worker' = [worker EXCEPT ![w] = n]
    BY <1>7, <2>2, ExportTells
  <2>4. /\ n \in RunRow /\ n.step = step /\ n.id = i /\ n.attempt = worker[w].attempt
        /\ n.scope = worker[w].scope /\ n.stuck = worker[w].stuck /\ n.made = made
        /\ n.moved = worker[w].moved
    BY <1>3, <1>4, <1>7, <2>1, <2>2 DEF RunRow, RunSteps, InHand, Trying
  <2>5. jobs[i].kind # "bulk" => worker[w].moved \/ worker[w].scope = scope
    BY <1>1, <1>4 DEF HandFits
  <2> QED
    BY <1>5, <1>7, <2>1, <2>3, <2>4, <2>5
<1>8. \/ Files!Goes(w, "fail")
      \/ Files!Goes(w, "refuse")
      \/ \E made \in IF jobs[i].kind = "bulk" THEN Files!Shown(i, worker[w].scope) ELSE {scope} :
           worker' = [worker EXCEPT ![w].made = made,
                                    ![w].step = IF jobs[i].kind = "bulk" THEN "note" ELSE "put"]
  BY <1>3 DEF Files!Build
<1> QED
  BY <1>6, <1>7, <1>8

\* The row of an attempt in progress after that attempt has failed.
LEMMA FailedRow ==
  ASSUME ExportInv, NEW i \in Files!Ids, NEW attempt, NEW final \in BOOLEAN,
         jobs[i].kind \in FileKinds, Files!Own(i, attempt), Files!Failed(i, attempt, final)
  PROVE  \E n \in JobRow :
           /\ jobs' = [jobs EXCEPT ![i] = n] /\ RowStep(jobs[i], n)
           /\ RowFits(n, content[<<i, n.attempt>>], mails[i], now)
           /\ n.kind = jobs[i].kind /\ n.attempt = attempt
           /\ n.status = Files!AfterFailure(attempt, final) /\ n.status \in {"PENDING", "FAILED"}
           /\ mails[i] = 0
<1>1. PICK J : J = [jobs EXCEPT ![i].status = Files!AfterFailure(attempt, final)]
  OBVIOUS
<1>2. PICK n : n = [jobs[i] EXCEPT !.status = Files!AfterFailure(attempt, final),
                                   !.key = IF jobs[i].kind = "bulk" THEN 0 ELSE @]
  OBVIOUS
<1>3. jobs' = [jobs EXCEPT ![i] = n]
  BY <1>2, ExportTells DEF Files!Failed, JobRow
<1>4. /\ jobs[i] \in JobRow /\ jobs[i].status = "PROCESSING" /\ jobs[i].attempt = attempt
      /\ RowFits(jobs[i], content[<<i, jobs[i].attempt>>], mails[i], now)
  BY ExportTells DEF Files!Own
<1>5. Files!AfterFailure(attempt, final) \in {"PENDING", "FAILED"}
      /\ (Files!AfterFailure(attempt, final) = "PENDING" => ~(attempt >= Files!MaxAttempts))
  BY DEF Files!AfterFailure
<1>6. /\ n \in JobRow /\ n.kind = jobs[i].kind /\ n.attempt = attempt
      /\ n.status = Files!AfterFailure(attempt, final) /\ (n.kind = "bulk" => n.key = 0)
      /\ n.key \in {0, jobs[i].key} /\ n.scope = jobs[i].scope
  BY <1>2, <1>4, <1>5 DEF JobRow, JobStatuses
<1>7. mails[i] = 0
  BY <1>4 DEF RowFits
<1>8. attempt \in Nat /\ attempt \in 0 .. Files!MaxAttempts
  BY <1>4 DEF JobRow, RowFits
<1>9. RowStep(jobs[i], n)
  BY <1>4, <1>5, <1>6, <1>8 DEF RowStep
<1>10. RowFits(n, content[<<i, n.attempt>>], mails[i], now)
  BY <1>4, <1>5, <1>6, <1>7, <1>8 DEF RowFits, Files!MaxAttempts, FileKinds
<1> QED
  BY <1>3, <1>5, <1>6, <1>7, <1>9, <1>10

\* What a run knows of an attempt that seems stuck.
LEMMA StuckTells ==
  ASSUME ExportInv, NEW w \in Workers, NEW s \in worker[w].stuck
  PROVE  /\ s.id \in Files!Ids /\ s.attempt \in Nat /\ s.key \in Nat
              /\ jobs[s.id].kind \in FileKinds
         /\ jobs[s.id].kind = "bulk" => s.key \in {0, s.attempt}
<1>1. worker[w].stuck \subseteq [id: Files!Ids, attempt: Nat, key: Nat]
  BY ExportTells DEF RunRow
<1>2. RunFits(worker[w], jobs, content, mails, scope)
  BY ExportTells
<1> QED
  BY <1>1, <1>2 DEF RunFits, StuckFits

\* The attempts that seemed stuck were begun, when one row moves on.
LEMMA StuckKeeps ==
  ASSUME ExportInv, NEW w \in Workers, NEW S, S \subseteq worker[w].stuck,
         NEW i \in Files!Ids, NEW n, NEW K, K[i] = n, \A k \in Files!Ids \ {i} : K[k] = jobs[k],
         n.kind = jobs[i].kind, n.attempt \in Nat, jobs[i].attempt <= n.attempt
  PROVE  StuckFits(S, K)
<1>1. \A e \in worker[w].stuck :
         /\ e.id \in Files!Ids /\ e.attempt \in Nat /\ jobs[e.id].kind \in FileKinds
         /\ jobs[e.id].kind = "bulk" => e.key \in {0, e.attempt}
  BY StuckTells
<1>2. \A e \in worker[w].stuck : e.attempt <= jobs[e.id].attempt
  BY ExportTells DEF RunFits, StuckFits
<1>3. \A k \in Files!Ids : jobs[k].attempt \in Nat
  BY ExportTells DEF JobRow
<1>4. ASSUME NEW e \in S
      PROVE  /\ K[e.id].kind \in FileKinds /\ e.attempt <= K[e.id].attempt
             /\ K[e.id].kind = "bulk" => e.key \in {0, e.attempt}
  <2>1. CASE e.id = i
    BY <1>1, <1>2, <1>3, <1>4, <2>1
  <2>2. CASE e.id # i
    BY <1>1, <1>2, <1>4, <2>2
  <2> QED
    BY <2>1, <2>2
<1> QED
  BY <1>4 DEF StuckFits

LEMMA RecoverKeeps ==
  ASSUME ExportInv, NEW w \in Workers, Files!Recover(w)
  PROVE  ExportInv'
<1>1. worker[w].step = "recover" /\ UNCHANGED <<now, scope, content, mails, desk>>
      /\ worker[w] \in RunRow
  BY ExportTells DEF Files!Recover, Files!At, Files!visible
<1>2. PICK s \in worker[w].stuck :
        /\ IF Files!Own(s.id, s.attempt) THEN Files!Failed(s.id, s.attempt, FALSE)
           ELSE UNCHANGED jobs
        /\ LET rest == [worker[w] EXCEPT !.stuck = @ \ {s}] IN
           worker' = [worker EXCEPT ![w] =
              IF Files!Sweeps(s) THEN [rest EXCEPT !.step = "sweep", !.id = s.id, !.key = s.key]
              ELSE IF Files!MailsFailure(s.id, s.attempt, FALSE)
              THEN [rest EXCEPT !.step = "mailStuck", !.id = s.id] ELSE rest]
  BY DEF Files!Recover
<1>3. /\ s.id \in Files!Ids /\ s.attempt \in Nat /\ s.key \in Nat /\ jobs[s.id].kind \in FileKinds
      /\ jobs[s.id].kind = "bulk" => s.key \in {0, s.attempt}
  BY StuckTells
<1>4. PICK rest : rest = [worker[w] EXCEPT !.stuck = @ \ {s}]
  OBVIOUS
<1>5. PICK r : r = IF Files!Sweeps(s) THEN [rest EXCEPT !.step = "sweep", !.id = s.id,
        !.key = s.key]
                   ELSE IF Files!MailsFailure(s.id, s.attempt, FALSE)
                   THEN [rest EXCEPT !.step = "mailStuck", !.id = s.id] ELSE rest
  OBVIOUS
<1>6. worker' = [worker EXCEPT ![w] = r]
  BY <1>2, <1>4, <1>5
<1>7. rest \in RunRow /\ rest.step = "recover" /\ rest.stuck \subseteq worker[w].stuck
  BY <1>1, <1>4 DEF RunRow
<1>8. /\ r \in RunRow /\ r.stuck \subseteq worker[w].stuck
      /\ \/ r.step = "sweep" /\ r.id = s.id /\ r.key = s.key /\ Files!Sweeps(s)
         \/ r.step = "mailStuck" /\ r.id = s.id /\ Files!MailsFailure(s.id, s.attempt, FALSE)
         \/ r.step = "recover"
  BY <1>3, <1>5, <1>7 DEF RunRow, RunSteps, Mailing
<1>9. r.step \notin InHand
  BY <1>8 DEF InHand, Trying, Failing
<1>10. CASE ~Files!Own(s.id, s.attempt)
  <2>1. r.step = "recover" /\ UNCHANGED jobs
    BY <1>2, <1>8, <1>10 DEF Files!Sweeps, Files!MailsFailure
  <2>2. RunFits(r, jobs, content, mails, scope)
    BY <1>8, <1>9, <2>1, ExportTells DEF RunFits, StuckFits, Mailing
  <2>3. \A v \in Workers \ {w} : RunsApart(r, worker[v]) /\ RunsApart(worker[v], r)
    BY <1>9, <2>1 DEF RunsApart, Mailing
  <2> QED
    BY <1>1, <1>6, <1>8, <2>1, <2>2, <2>3, RunOnly
<1>11. CASE Files!Own(s.id, s.attempt)
  <2>1. PICK n \in JobRow :
           /\ jobs' = [jobs EXCEPT ![s.id] = n] /\ RowStep(jobs[s.id], n)
           /\ RowFits(n, content[<<s.id, n.attempt>>], mails[s.id], now)
           /\ n.kind = jobs[s.id].kind /\ n.attempt = s.attempt
           /\ n.status = Files!AfterFailure(s.attempt, FALSE)
                /\ n.status \in {"PENDING", "FAILED"}
           /\ mails[s.id] = 0
    BY <1>2, <1>3, <1>11, FailedRow
  <2>2. PICK K : K = [jobs EXCEPT ![s.id] = n]
    OBVIOUS
  <2>3. K[s.id] = n /\ \A k \in Files!Ids \ {s.id} : K[k] = jobs[k]
    BY <1>3, <2>2, ExportTells
  <2>4. r.step = "sweep" => r.id \in Files!Ids /\ K[r.id].kind = "bulk" /\ Over(K[r.id], r.key)
    BY <1>3, <1>8, <2>1, <2>3 DEF Files!Sweeps, Over
  <2>5. r.step \in Mailing => /\ r.id \in Files!Ids /\ K[r.id].kind = "excel" /\ mails[r.id] = 0
                              /\ K[r.id].status \in {"SUCCEEDED", "FAILED"}
    BY <1>3, <1>8, <2>1, <2>3 DEF Files!MailsFailure, Mailing
  <2>6. StuckFits(r.stuck, K)
    <3>1. jobs[s.id].attempt = s.attempt
      BY <1>11 DEF Files!Own
    <3> QED
      BY <1>3, <1>8, <2>1, <2>3, <3>1, StuckKeeps
  <2>7. RunFits(r, K, content, mails, scope)
    BY <1>9, <2>4, <2>5, <2>6 DEF RunFits
  <2>8. \A v \in Workers \ {w} : RunsApart(r, worker[v]) /\ RunsApart(worker[v], r)
    <3>1. jobs[s.id].status = "PROCESSING"
      BY <1>11 DEF Files!Own
    <3>2. \A v \in Workers : worker[v].step \in Mailing => worker[v].id # s.id
      BY <3>1, ExportTells DEF RunFits
    <3> QED
      BY <1>8, <1>9, <3>2 DEF RunsApart, Mailing
  <2>9. ~(n.status = "SUCCEEDED")
    BY <2>1
  <2> QED
    BY <1>1, <1>3, <1>6, <1>8, <2>1, <2>2, <2>7, <2>8, <2>9, RowAndRun
<1> QED
  BY <1>10, <1>11

\* An object is deleted, or not: of a row that needs no file of that attempt.
LEMMA DeleteKeeps ==
  ASSUME ExportInv, NEW w \in Workers, NEW step, NEW next \in {"recover", "claim", "fail"},
         Files!Delete(w, step, next), worker[w].id \in Files!Ids, worker[w].key \in Nat,
         jobs[worker[w].id].kind \in FileKinds,
         ~(jobs[worker[w].id].status = "SUCCEEDED" /\ jobs[worker[w].id].attempt = worker[w].key)
           \/ LoseAnswers,
         \A v \in Workers \ {w} :
            worker[v].step = "settle" /\ worker[v].id = worker[w].id
              /\ worker[v].attempt = worker[w].key
              => jobs[worker[w].id].attempt # worker[w].key
                 \/ jobs[worker[w].id].status # "PROCESSING",
         next = "fail" => step = "drop"
  PROVE  ExportInv'
<1>1. worker[w].step = step /\ UNCHANGED <<now, scope, jobs, mails, desk>>
      /\ Files!Goes(w, next) /\ worker[w] \in RunRow
  BY ExportTells DEF Files!Delete, Files!At, Files!visible
<1>2. PICK n \in RunRow : /\ worker' = [worker EXCEPT ![w] = n] /\ n.step = next
                          /\ n.stuck = worker[w].stuck
                          /\ next = "fail" => /\ n.id = worker[w].id /\ n.key = worker[w].key
                                              /\ n.attempt = worker[w].attempt
  <2>1. next \in RunSteps
    BY DEF RunSteps, InHand, Failing
  <2> QED
    BY <1>1, <2>1, GoesTells
<1>3. \A v \in Workers \ {w} : RunsApart(n, worker[v]) /\ RunsApart(worker[v], n)
  <2>1. CASE next = "fail"
    <3>1. worker[w].step \in InHand
      BY <1>1, <2>1 DEF InHand, Failing
    <3> QED
      BY <1>2, <2>1, <3>1, SameHand DEF Mailing
  <2>2. CASE next # "fail"
    BY <1>2, <2>2, RestingFits
  <2> QED
    BY <2>1, <2>2
<1>4. ASSUME NEW C, C \in {content, [content EXCEPT ![<<worker[w].id, worker[w].key>>] = {}]}
      PROVE  RunFits(n, jobs, C, mails, scope)
  <2>1. CASE next = "fail"
    <3>1. worker[w].step \in InHand /\ worker[w].step = "drop"
      BY <1>1, <2>1 DEF InHand, Failing
    <3>2. HandFits(n, jobs[n.id], C[<<n.id, n.attempt>>], scope) /\ n.id \in Files!Ids
      BY <1>2, <2>1, <3>1, HandTells DEF HandFits, Trying, Failing
    <3> QED
      BY <1>2, <2>1, <3>1, <3>2, HandTells DEF RunFits, Mailing
  <2>2. CASE next # "fail"
    <3>1. n.step \notin InHand /\ n.step \notin Mailing /\ n.step # "sweep"
      BY <1>2, <2>2 DEF InHand, Trying, Failing, Mailing
    <3> QED
      BY <1>2, <3>1, ExportTells DEF RunFits
  <2> QED
    BY <2>1, <2>2
<1>5. CASE content' = content
  <2>1. RunFits(n, jobs, content, mails, scope)
    BY <1>4
  <2> QED
    BY <1>1, <1>2, <1>3, <1>5, <2>1, RunOnly
<1>6. CASE content' = [content EXCEPT ![<<worker[w].id, worker[w].key>>] = {}]
  <2>1. RunFits(n, jobs, [content EXCEPT ![<<worker[w].id, worker[w].key>>] = {}], mails, scope)
    BY <1>4
  <2>2. PICK i, k : i = worker[w].id /\ k = worker[w].key
    OBVIOUS
  <2>3. i \in Files!Ids /\ k \in Nat /\ {} \in FileSets /\ content' = [content EXCEPT ![<<i, k>>] = {}]
        /\ RunFits(n, jobs, [content EXCEPT ![<<i, k>>] = {}], mails, scope)
        /\ (~(jobs[i].kind \in FileKinds /\ jobs[i].status = "SUCCEEDED" /\ jobs[i].attempt = k)
             \/ ({} = {} /\ LoseAnswers))
        /\ \A v \in Workers \ {w} :
             worker[v].step = "settle" /\ worker[v].id = i /\ worker[v].attempt = k
              => jobs[i].attempt # k \/ jobs[i].status # "PROCESSING"
    BY <1>6, <2>1, <2>2 DEF FileSets
  <2> QED
    BY <1>1, <1>2, <1>3, <2>3, FileAndRun
<1> QED
  BY <1>5, <1>6 DEF Files!Delete

LEMMA SweepKeeps ==
  ASSUME ExportInv, NEW w \in Workers, Files!Sweep(w)
  PROVE  ExportInv'
<1>1. worker[w].step = "sweep" /\ worker[w].key \in Nat
  BY ExportTells DEF Files!Sweep, Files!Delete, Files!At, RunRow
<1>2. worker[w].id \in Files!Ids /\ jobs[worker[w].id].kind = "bulk"
      /\ Over(jobs[worker[w].id], worker[w].key)
  BY <1>1, ExportTells DEF RunFits
<1>3. jobs[worker[w].id].attempt \in Nat
  BY <1>2, ExportTells DEF JobRow
<1> QED
  BY <1>1, <1>2, <1>3, DeleteKeeps DEF Files!Sweep, Over, FileKinds

LEMMA DropLostKeeps ==
  ASSUME ExportInv, NEW w \in Workers, Files!DropLost(w)
  PROVE  ExportInv'
<1>1. worker[w].step = "dropLost" /\ worker[w].step \in InHand
  BY DEF Files!DropLost, Files!Delete, Files!At, InHand
<1>2. worker[w].id \in Files!Ids /\ jobs[worker[w].id].kind \in FileKinds
      /\ worker[w].key = worker[w].attempt /\ Over(jobs[worker[w].id], worker[w].key)
      /\ worker[w].key \in Nat /\ jobs[worker[w].id].attempt \in Nat
  BY <1>1, HandTells DEF HandFits, JobRow
<1> QED
  BY <1>1, <1>2, DeleteKeeps DEF Files!DropLost, Over

LEMMA DropKeeps ==
  ASSUME ExportInv, NEW w \in Workers, Files!Drop(w)
  PROVE  ExportInv'
<1>1. worker[w].step = "drop" /\ worker[w].step \in InHand
  BY DEF Files!Drop, Files!Delete, Files!At, InHand, Failing
<1>2. /\ worker[w].id \in Files!Ids /\ jobs[worker[w].id].kind \in FileKinds
      /\ worker[w].key = worker[w].attempt /\ worker[w].key \in Nat
      /\ ~LoseAnswers => ~(jobs[worker[w].id].status = "SUCCEEDED"
                           /\ jobs[worker[w].id].attempt = worker[w].attempt)
  BY <1>1, HandTells DEF HandFits, Failing
<1>3. \A v \in Workers \ {w} :
         worker[v].step = "settle" /\ worker[v].id = worker[w].id =>
           worker[v].attempt # worker[w].attempt
  BY <1>1, ExportTells DEF RunsApart, InHand, Trying
<1> QED
  BY <1>1, <1>2, <1>3, DeleteKeeps DEF Files!Drop

LEMMA SmallestWaits ==
  ASSUME NEW S, S \subseteq Files!Ids, S # {}
  PROVE  \E i \in S : \A j \in S : i <= j
<1>1. S \subseteq Nat
  BY DEF Files!Ids
<1>2. PICK i \in S : \A j \in S : ~(<<j, i>> \in OpToRel(<, Nat))
  BY <1>1, NatLessThanWellFounded, WFMin
<1>3. ASSUME NEW j \in S, ~(i <= j)
      PROVE  FALSE
  <2>1. j < i /\ <<j, i>> \in Nat \X Nat
    BY <1>1, <1>3
  <2>2. <<j, i>> \in {ss \in Nat \X Nat : ss[1] < ss[2]}
    BY <2>1
  <2> QED
    BY <1>2, <2>2 DEF OpToRel
<1> QED
  BY <1>3

LEMMA ClaimKeeps ==
  ASSUME ExportInv, NEW w \in Workers, Files!Claim(w)
  PROVE  ExportInv'
<1>1. worker[w].step = "claim" /\ UNCHANGED <<now, scope, content, mails, desk>>
      /\ worker[w] \in RunRow
  BY ExportTells DEF Files!Claim, Files!At, Files!visible
<1>2. CASE Files!Waiting(w) = {}
  BY <1>1, <1>2, ResettingFits, RunOnly DEF Files!Claim, Files!visible
<1>3. CASE Files!Waiting(w) # {}
  <2>1. PICK i : i = CHOOSE k \in Files!Waiting(w) : \A j \in Files!Waiting(w) : k <= j
    OBVIOUS
  <2>2. i \in Files!Waiting(w)
    BY <1>3, <2>1, SmallestWaits DEF Files!Waiting
  <2>3. PICK since : since = IF jobs[i].kind = "bulk" THEN worker[w].since ELSE now
    OBVIOUS
  <2>4. /\ jobs' = [jobs EXCEPT ![i].status = "PROCESSING", ![i].attempt = @ + 1,
             ![i].began = since]
        /\ worker' = [worker EXCEPT ![w].step = "check", ![w].handled = @ \cup {i}, ![w].id = i,
                                    ![w].attempt = jobs[i].attempt + 1, ![w].key = 0]
    BY <1>3, <2>1, <2>3 DEF Files!Claim
  <2>5. /\ i \in Files!Ids /\ jobs[i] \in JobRow /\ jobs[i].status = "PENDING" /\ since \in Nat
        /\ RowFits(jobs[i], content[<<i, jobs[i].attempt>>], mails[i], now)
    BY <1>1, <2>2, <2>3, ExportTells DEF Files!Waiting, RunRow
  <2>6. /\ jobs[i].kind \in FileKinds /\ jobs[i].attempt \in Nat
             /\ jobs[i].attempt < Files!MaxAttempts
        /\ mails[i] = 0 /\ (jobs[i].kind = "bulk" => jobs[i].key = 0)
    <3>1. jobs[i].kind \in FileKinds \cup {"direct", "none"} /\ jobs[i].attempt \in Nat
      BY <2>5 DEF JobRow
    <3> QED
      BY <2>5, <3>1 DEF RowFits
  <2>7. PICK n : n = [jobs[i] EXCEPT !.status = "PROCESSING", !.attempt = @ + 1, !.began = since]
    OBVIOUS
  <2>8. jobs' = [jobs EXCEPT ![i] = n]
    BY <2>4, <2>5, <2>7, ExportTells DEF JobRow
  <2>9. /\ n \in JobRow /\ n.kind = jobs[i].kind /\ n.attempt = jobs[i].attempt + 1
        /\ n.status = "PROCESSING" /\ n.key = jobs[i].key /\ n.scope = jobs[i].scope
    <3>1. PICK a : a = jobs[i].attempt + 1
      OBVIOUS
    <3>2. a \in Nat
      BY <2>6, <3>1
    <3>3. n = [jobs[i] EXCEPT !.status = "PROCESSING", !.attempt = a, !.began = since]
      BY <2>7, <3>1
    <3>4. n \in JobRow /\ n.kind = jobs[i].kind /\ n.attempt = a
          /\ n.status = "PROCESSING" /\ n.key = jobs[i].key /\ n.scope = jobs[i].scope
      BY <2>5, <3>2, <3>3 DEF JobRow, JobStatuses
    <3> QED
      BY <3>1, <3>4
  <2>10. RowStep(jobs[i], n)
    BY <2>5, <2>6, <2>9 DEF RowStep
  <2>11. RowFits(n, content[<<i, n.attempt>>], mails[i], now)
    BY <2>5, <2>6, <2>9 DEF RowFits, Files!MaxAttempts, FileKinds
  <2>12. PICK r : r = [worker[w] EXCEPT !.step = "check", !.handled = @ \cup {i}, !.id = i,
                                        !.attempt = jobs[i].attempt + 1, !.key = 0]
    OBVIOUS
  <2>13. worker' = [worker EXCEPT ![w] = r]
    BY <2>4, <2>12, ExportTells
  <2>14. /\ r \in RunRow /\ r.step = "check" /\ r.id = i /\ r.attempt = n.attempt
         /\ r.stuck = worker[w].stuck
    <3>1. r = [worker[w] EXCEPT !.step = "check", !.handled = @ \cup {i}, !.id = i,
                                !.attempt = n.attempt, !.key = 0]
      BY <2>9, <2>12
    <3>2. n.attempt \in Nat
      BY <2>9 DEF JobRow
    <3> QED
      BY <1>1, <2>5, <3>1, <3>2 DEF RunRow, RunSteps, InHand, Trying
  <2>15. PICK K : K = [jobs EXCEPT ![i] = n]
    OBVIOUS
  <2>16. K[i] = n /\ \A k \in Files!Ids \ {i} : K[k] = jobs[k]
    BY <2>5, <2>15, ExportTells
  <2>17. HandFits(r, K[i], content[<<i, r.attempt>>], scope)
    BY <2>6, <2>9, <2>14, <2>16 DEF HandFits, Trying, Failing
  <2>18. StuckFits(r.stuck, K)
    <3>1. r.stuck \subseteq worker[w].stuck /\ n.attempt \in Nat /\ jobs[i].attempt <= n.attempt
      BY <2>6, <2>9, <2>14
    <3> QED
      BY <2>5, <2>9, <2>16, <3>1, StuckKeeps
  <2>19. RunFits(r, K, content, mails, scope)
    BY <2>5, <2>14, <2>17, <2>18 DEF RunFits, InHand, Mailing
  <2>20. \A v \in Workers \ {w} : RunsApart(r, worker[v]) /\ RunsApart(worker[v], r)
    <3>1. ASSUME NEW v \in Workers, worker[v].step \in InHand, worker[v].id = i
          PROVE  worker[v].attempt # r.attempt
      <4>1. worker[v].attempt <= jobs[i].attempt /\ worker[v].attempt \in Nat
        BY <3>1, HandTells DEF HandFits
      <4> QED
        BY <2>6, <2>9, <2>14, <4>1
    <3> QED
      BY <2>14, <3>1 DEF RunsApart, Mailing
  <2>21. n.status # "SUCCEEDED"
    BY <2>9
  <2> QED
    BY <1>1, <2>5, <2>8, <2>9, <2>10, <2>11, <2>13, <2>14, <2>15, <2>19, <2>20, <2>21,
       RowAndRun
<1> QED
  BY <1>2, <1>3

LEMMA NoteKeyKeeps ==
  ASSUME ExportInv, NEW w \in Workers, Files!NoteKey(w)
  PROVE  ExportInv'
<1>1. worker[w].step = "note" /\ worker[w].step \in InHand
      /\ UNCHANGED <<now, scope, content, mails, desk>>
  BY DEF Files!NoteKey, Files!At, InHand, Trying, Files!visible
<1>2. PICK i, a : i = worker[w].id /\ a = worker[w].attempt
  OBVIOUS
<1>3. /\ i \in Files!Ids /\ a \in Nat /\ jobs[i] \in JobRow /\ worker[w] \in RunRow
      /\ HandFits(worker[w], jobs[i], content[<<i, a>>], scope)
      /\ RowFits(jobs[i], content[<<i, jobs[i].attempt>>], mails[i], now)
  BY <1>1, <1>2, HandTells, ExportTells
<1>4. CASE Files!Own(i, a)
  <2>1. jobs' = [jobs EXCEPT ![i].key = a] /\ Files!Goes(w, "put")
    BY <1>2, <1>4 DEF Files!NoteKey
  <2>2. PICK r \in RunRow :
           /\ worker' = [worker EXCEPT ![w] = r] /\ r.step = "put" /\ r.stuck = worker[w].stuck
           /\ r.id = i /\ r.attempt = a /\ r.key = worker[w].key
           /\ r.scope = worker[w].scope /\ r.made = worker[w].made /\ r.moved = worker[w].moved
    BY <1>2, <2>1, GoesTells DEF RunSteps, InHand, Trying
  <2>3. PICK n : n = [jobs[i] EXCEPT !.key = a]
    OBVIOUS
  <2>4. jobs' = [jobs EXCEPT ![i] = n]
    BY <2>1, <2>3
  <2>5. /\ n \in JobRow /\ n.kind = jobs[i].kind /\ n.attempt = jobs[i].attempt
        /\ n.status = jobs[i].status /\ n.key = a /\ n.scope = jobs[i].scope
    BY <1>3, <2>3 DEF JobRow
  <2>6. jobs[i].kind \in FileKinds /\ jobs[i].status = "PROCESSING" /\ jobs[i].attempt = a
        /\ jobs[i].attempt \in Nat
    BY <1>3, <1>4 DEF Files!Own, HandFits
  <2>7. RowStep(jobs[i], n)
    BY <2>5, <2>6 DEF RowStep
  <2>8. RowFits(n, content[<<i, n.attempt>>], mails[i], now)
    BY <1>3, <2>5, <2>6 DEF RowFits, FileKinds
  <2>9. PICK K : K = [jobs EXCEPT ![i] = n]
    OBVIOUS
  <2>10. K[i] = n /\ \A k \in Files!Ids \ {i} : K[k] = jobs[k]
    BY <1>3, <2>9, ExportTells
  <2>11. HandFits(r, K[i], content[<<i, a>>], scope)
    BY <1>1, <1>2, <1>3, <2>2, <2>5, <2>6, <2>10 DEF HandFits, Trying, Failing
  <2>12. StuckFits(r.stuck, K)
    BY <1>3, <2>2, <2>5, <2>6, <2>10, StuckKeeps
  <2>13. RunFits(r, K, content, mails, scope)
    BY <1>3, <2>2, <2>11, <2>12 DEF RunFits, Mailing
  <2>14. \A v \in Workers \ {w} : RunsApart(r, worker[v]) /\ RunsApart(worker[v], r)
    BY <1>1, <1>2, <2>2, SameHand DEF Mailing
  <2>15. n.status # "SUCCEEDED"
    BY <2>5, <2>6
  <2> QED
    BY <1>1, <1>3, <2>2, <2>4, <2>5, <2>7, <2>8, <2>9, <2>13, <2>14, <2>15, RowAndRun
<1>5. CASE ~Files!Own(i, a)
  <2>1. UNCHANGED jobs /\ Files!Goes(w, "claim")
    BY <1>2, <1>5 DEF Files!NoteKey, Files!visible
  <2>2. PICK r \in RunRow : worker' = [worker EXCEPT ![w] = r] /\ r.step = "claim"
                            /\ r.stuck = worker[w].stuck
    BY <2>1, GoesTells DEF RunSteps
  <2> QED
    BY <1>1, <2>1, <2>2, RestingFits, RunOnly
<1> QED
  BY <1>4, <1>5

LEMMA PutKeeps ==
  ASSUME ExportInv, NEW w \in Workers, Files!Put(w)
  PROVE  ExportInv'
<1>1. worker[w].step = "put" /\ worker[w].step \in InHand
      /\ UNCHANGED <<now, scope, jobs, mails, desk>>
  BY DEF Files!Put, Files!At, InHand, Trying, Files!visible
<1>2. PICK i, a : i = worker[w].id /\ a = worker[w].attempt
  OBVIOUS
<1>3. /\ i \in Files!Ids /\ a \in Nat /\ jobs[i] \in JobRow /\ worker[w] \in RunRow
      /\ HandFits(worker[w], jobs[i], content[<<i, a>>], scope)
      /\ RowFits(jobs[i], content[<<i, jobs[i].attempt>>], mails[i], now)
  BY <1>1, <1>2, HandTells, ExportTells
<1>4. PICK there \in BOOLEAN, failed \in BOOLEAN :
        /\ there \/ failed
        /\ content' = [content EXCEPT ![<<i, a>>] = IF there THEN {worker[w].made} ELSE @]
        /\ worker' = [worker EXCEPT ![w].key = worker[w].attempt,
                                    ![w].step = IF failed THEN "drop" ELSE "settle"]
  BY <1>2 DEF Files!Put
<1>5. a \in 1 .. Files!MaxAttempts /\ <<i, a>> \in Files!Keys
  BY <1>2, <1>3 DEF HandFits, RowFits, Files!Keys, Files!MaxAttempts, JobRow
<1>6. PICK f : f = IF there THEN {worker[w].made} ELSE content[<<i, a>>]
  OBVIOUS
<1>7. f \in FileSets /\ content' = [content EXCEPT ![<<i, a>>] = f]
  BY <1>3, <1>4, <1>5, <1>6, ExportTells DEF RunRow, FileSets
<1>8. PICK r : r = [worker[w] EXCEPT !.key = worker[w].attempt,
                                     !.step = IF failed THEN "drop" ELSE "settle"]
  OBVIOUS
<1>9. worker' = [worker EXCEPT ![w] = r]
  BY <1>4, <1>8, ExportTells
<1>10. /\ r \in RunRow /\ r.step \in {"drop", "settle"} /\ r.id = i /\ r.attempt = a /\ r.key = a
       /\ r.stuck = worker[w].stuck /\ r.scope = worker[w].scope /\ r.made = worker[w].made
       /\ r.moved = worker[w].moved
       /\ r.step = "settle" => there
  BY <1>2, <1>3, <1>4, <1>8 DEF RunRow, RunSteps, InHand, Trying, Failing
<1>11. PICK C : C = [content EXCEPT ![<<i, a>>] = f]
  OBVIOUS
<1>12. C[<<i, a>>] = f
  BY <1>5, <1>11, ExportTells
<1>13. HandFits(r, jobs[i], C[<<i, a>>], scope)
  BY <1>1, <1>2, <1>3, <1>6, <1>10, <1>12 DEF HandFits, Trying, Failing
<1>14. RunFits(r, jobs, C, mails, scope)
  BY <1>1, <1>3, <1>10, <1>13, HandTells DEF RunFits, Mailing
<1>15. \A v \in Workers \ {w} : RunsApart(r, worker[v]) /\ RunsApart(worker[v], r)
  BY <1>1, <1>2, <1>10, SameHand DEF Mailing
<1>16. ~(jobs[i].kind \in FileKinds /\ jobs[i].status = "SUCCEEDED" /\ jobs[i].attempt = a)
         \/ (f = {} /\ LoseAnswers)
  BY <1>1, <1>2, <1>3 DEF HandFits, Trying
<1>17. \A v \in Workers \ {w} :
         worker[v].step = "settle" /\ worker[v].id = i /\ worker[v].attempt = a
           => jobs[i].attempt # a \/ jobs[i].status # "PROCESSING"
  BY <1>1, <1>2, ExportTells DEF RunsApart, InHand, Trying
<1>18. RunFits(r, jobs, [content EXCEPT ![<<i, a>>] = f], mails, scope)
  BY <1>11, <1>14
<1>19. i \in Files!Ids /\ a \in Nat /\ f \in FileSets /\ r \in RunRow
       /\ UNCHANGED <<now, scope, jobs, mails, desk>>
  BY <1>1, <1>3, <1>7, <1>10
<1> QED
  BY ONLY ExportInv, w \in Workers, <1>7, <1>9, <1>15, <1>16, <1>17, <1>18, <1>19, FileAndRun

LEMMA SettleKeeps ==
  ASSUME ExportInv, NEW w \in Workers, Files!Settle(w)
  PROVE  ExportInv'
<1>1. worker[w].step = "settle" /\ worker[w].step \in InHand
      /\ UNCHANGED <<now, scope, content, mails, desk>>
  BY DEF Files!Settle, Files!At, InHand, Trying, Files!visible
<1>2. PICK i, a : i = worker[w].id /\ a = worker[w].attempt
  OBVIOUS
<1>3. /\ i \in Files!Ids /\ a \in Nat /\ jobs[i] \in JobRow /\ worker[w] \in RunRow
      /\ HandFits(worker[w], jobs[i], content[<<i, a>>], scope)
      /\ RowFits(jobs[i], content[<<i, jobs[i].attempt>>], mails[i], now)
      /\ StuckFits(worker[w].stuck, jobs)
  BY <1>1, <1>2, HandTells, ExportTells
<1>4. /\ jobs[i].kind \in FileKinds /\ 1 <= a /\ a <= jobs[i].attempt /\ jobs[i].attempt \in Nat
      /\ ~(jobs[i].status = "SUCCEEDED" /\ jobs[i].attempt = a) /\ worker[w].key = a
      /\ IF jobs[i].kind = "bulk" THEN worker[w].made \subseteq jobs[i].scope
         ELSE worker[w].moved \/ worker[w].made = worker[w].scope
      /\ jobs[i].status = "PROCESSING" /\ jobs[i].attempt = a =>
           content[<<i, a>>] = {worker[w].made}
      /\ worker[w].made \in SUBSET Stores /\ worker[w].scope \in SUBSET Stores
      /\ worker[w].moved \in BOOLEAN
  BY <1>1, <1>2, <1>3 DEF HandFits, Trying, JobRow, RunRow
\* The job is written as done, and the run goes on with the step given.
<1>b. PICK shows, noted :
         /\ shows = IF jobs[i].kind = "bulk" THEN worker[w].made ELSE jobs[i].shows
         /\ noted = IF jobs[i].kind = "bulk" THEN jobs[i].scope ELSE worker[w].scope
  OBVIOUS
<1>c. shows \in SUBSET Stores /\ noted \in SUBSET Stores
  BY <1>3, <1>4, <1>b DEF JobRow
<1>5. ASSUME Files!Own(i, a), NEW step,
             jobs' = [jobs EXCEPT ![i].status = "SUCCEEDED", ![i].key = worker[w].attempt,
                                  ![i].expires = now + 1, ![i].shows = shows,
                                  ![i].scope = noted, ![i].moved = worker[w].moved],
             Files!Goes(w, step),
             \/ step = "claim"
             \/ step = "mail" /\ jobs[i].kind = "excel"
             \/ step = "drop" /\ LoseAnswers
      PROVE  ExportInv'
  <2>1. jobs[i].status = "PROCESSING" /\ jobs[i].attempt = a
    BY <1>5 DEF Files!Own
  <2>2. PICK t : t = now + 1
    OBVIOUS
  <2>3. t \in Nat
    BY <2>2, ExportTells
  <2>4. PICK n : n = [jobs[i] EXCEPT !.status = "SUCCEEDED", !.key = a, !.expires = t,
                                     !.shows = shows, !.scope = noted, !.moved = worker[w].moved]
    OBVIOUS
  <2>5. jobs' = [jobs EXCEPT ![i] = n]
    BY <1>2, <1>3, <1>5, <2>2, <2>4, ExportTells DEF JobRow
  <2>6. /\ n \in JobRow /\ n.kind = jobs[i].kind /\ n.attempt = a /\ n.status = "SUCCEEDED"
        /\ n.key = a /\ n.shows = shows /\ n.scope = noted /\ n.moved = worker[w].moved
    BY <1>3, <1>4, <1>c, <2>1, <2>3, <2>4 DEF JobRow, JobStatuses
  <2>7. RowStep(jobs[i], n)
    BY <1>4, <1>b, <2>1, <2>6 DEF RowStep
  <2>8. RowFits(n, content[<<i, n.attempt>>], mails[i], now)
    <3>1. mails[i] = 0 /\ a \in 0 .. Files!MaxAttempts
      BY <1>3, <1>4, <2>1 DEF RowFits
    <3>2. content[<<i, n.attempt>>] = {worker[w].made}
      BY <1>4, <2>1, <2>6
    <3>3. /\ ShowsNoted(worker[w].made, n)
          /\ n.kind = "bulk" => n.shows \subseteq n.scope
      BY <1>4, <1>b, <2>6 DEF ShowsNoted, FileKinds
    <3> QED
      BY <1>3, <1>4, <2>6, <3>1, <3>2, <3>3 DEF RowFits, FileKinds
  <2>9. step \in RunSteps
    BY <1>5 DEF RunSteps, InHand, Failing, Mailing
  <2>10. PICK r \in RunRow :
           /\ worker' = [worker EXCEPT ![w] = r] /\ r.step = step /\ r.stuck = worker[w].stuck
           /\ step \notin {"recover", "claim"} =>
                r.id = worker[w].id /\ r.attempt = worker[w].attempt /\ r.key = worker[w].key
    BY <1>5, <2>9, GoesTells
  <2>11. PICK K : K = [jobs EXCEPT ![i] = n]
    OBVIOUS
  <2>12. K[i] = n /\ \A k \in Files!Ids \ {i} : K[k] = jobs[k]
    BY <1>3, <2>11, ExportTells
  <2>13. r.step \in InHand => r.id \in Files!Ids
           /\ HandFits(r, K[r.id], content[<<r.id, r.attempt>>], scope)
    <3>1. r.step \in InHand => r.step = "drop" /\ LoseAnswers
      BY <1>5, <2>10 DEF InHand, Trying, Failing
    <3> QED
      BY <1>2, <1>3, <1>4, <2>1, <2>6, <2>10, <2>12, <3>1 DEF HandFits, Trying, Failing
  <2>14. r.step \in Mailing => /\ r.id \in Files!Ids /\ K[r.id].kind = "excel" /\ mails[r.id] = 0
                               /\ K[r.id].status \in {"SUCCEEDED", "FAILED"}
    <3>1. mails[i] = 0
      BY <1>3, <2>1 DEF RowFits
    <3> QED
      BY <1>2, <1>3, <1>5, <2>6, <2>10, <2>12, <3>1 DEF Mailing
  <2>15. StuckFits(r.stuck, K)
    BY <1>3, <1>4, <2>1, <2>6, <2>10, <2>12, StuckKeeps
  <2>16. RunFits(r, K, content, mails, scope)
    BY <1>5, <2>10, <2>13, <2>14, <2>15 DEF RunFits
  <2>17. \A v \in Workers \ {w} : RunsApart(r, worker[v]) /\ RunsApart(worker[v], r)
    <3>1. \A v \in Workers : worker[v].step \in Mailing => worker[v].id # i
      BY <2>1, ExportTells DEF RunFits
    <3>2. r.step \in InHand => r.id = worker[w].id /\ r.attempt = worker[w].attempt
      BY <2>10 DEF InHand, Trying, Failing
    <3>3. r.step \in Mailing => r.id = i
      BY <1>2, <2>10 DEF Mailing
    <3> QED
      BY <1>1, <3>1, <3>2, <3>3, SameHand
  <2>18. n.status = "SUCCEEDED" /\ jobs[i].status # "SUCCEEDED" =>
            /\ jobs[i].status = "PROCESSING" /\ jobs[i].attempt = n.attempt
            /\ worker[w].step \in InHand /\ worker[w].id = i /\ worker[w].attempt = n.attempt
    BY <1>1, <1>2, <2>1, <2>6
  <2>19. RunFits(r, [jobs EXCEPT ![i] = n], content, mails, scope)
    BY <2>11, <2>16
  <2>20. UNCHANGED <<now, scope, content, mails, desk>> /\ worker' = [worker EXCEPT ![w] = r]
    BY <1>1, <2>10
  <2>21. i \in Files!Ids /\ n \in JobRow
    BY <1>3, <2>6
  <2> QED
    BY ONLY ExportInv, w \in Workers, r \in RunRow, <2>5, <2>7, <2>8, <2>17, <2>18,
            <2>19, <2>20, <2>21, RowAndRun
\* The row stays, and the file is to be thrown away.
<1>6. ASSUME UNCHANGED jobs, NEW step \in {"drop", "dropLost"}, Files!Goes(w, step),
             step = "dropLost" => ~Files!Own(i, a)
      PROVE  ExportInv'
  <2>1. PICK r \in RunRow :
           /\ worker' = [worker EXCEPT ![w] = r] /\ r.step = step /\ r.stuck = worker[w].stuck
           /\ r.id = i /\ r.attempt = a /\ r.key = a
    <3>1. step \in RunSteps /\ step \notin {"recover", "claim"}
      BY <1>6 DEF RunSteps, InHand, Failing
    <3> QED
      BY <1>2, <1>4, <1>6, <3>1, GoesTells
  <2>2. step = "dropLost" => Over(jobs[i], a)
    <3>1. jobs[i].status \in {"PENDING", "PROCESSING", "SUCCEEDED", "FAILED"}
      BY <1>3, <1>4 DEF JobRow, JobStatuses, RowFits
    <3> QED
      BY <1>3, <1>4, <1>6, <3>1 DEF Over, Files!Own
  <2>3. HandFits(r, jobs[i], content[<<i, a>>], scope)
    BY <1>4, <1>6, <2>1, <2>2 DEF HandFits, Trying, Failing
  <2>4. RunFits(r, jobs, content, mails, scope)
    BY <1>3, <1>6, <2>1, <2>3 DEF RunFits, Mailing
  <2>5. \A v \in Workers \ {w} : RunsApart(r, worker[v]) /\ RunsApart(worker[v], r)
    BY <1>1, <1>2, <1>6, <2>1, SameHand DEF Mailing
  <2> QED
    BY <1>1, <1>6, <2>1, <2>4, <2>5, RunOnly
<1>7. PICK done, own : /\ own = Files!Own(i, a)
                       /\ done = (jobs' = [jobs EXCEPT ![i].status = "SUCCEEDED",
                            ![i].key = worker[w].attempt, ![i].expires = now + 1,
                            ![i].shows = shows, ![i].scope = noted, ![i].moved = worker[w].moved])
  OBVIOUS
<1>8. \/ own /\ done /\ Files!Goes(w, IF jobs[i].kind = "excel" THEN "mail" ELSE "claim")
      \/ ~own /\ UNCHANGED jobs /\ Files!Goes(w, "dropLost")
      \/ UNCHANGED jobs /\ Files!Goes(w, "drop")
      \/ LoseAnswers /\ own /\ done /\ Files!Goes(w, "drop")
  BY <1>2, <1>3, <1>7, <1>b, ExportTells DEF Files!Settle, Files!NoteOf, JobRow, Files!visible
<1>9. CASE own /\ done /\ Files!Goes(w, IF jobs[i].kind = "excel" THEN "mail" ELSE "claim")
  <2>1. CASE jobs[i].kind = "excel"
    BY <1>5, <1>7, <1>9, <2>1
  <2>2. CASE jobs[i].kind # "excel"
    <3>1. own /\ done /\ Files!Goes(w, "claim")
      BY <1>9, <2>2
    <3> QED
      BY <1>5, <1>7, <3>1
  <2> QED
    BY <2>1, <2>2
<1>10. CASE ~own /\ UNCHANGED jobs /\ Files!Goes(w, "dropLost")
  BY <1>6, <1>7, <1>10
<1>11. CASE UNCHANGED jobs /\ Files!Goes(w, "drop")
  BY <1>6, <1>11
<1>12. CASE LoseAnswers /\ own /\ done /\ Files!Goes(w, "drop")
  BY <1>5, <1>7, <1>12
<1> QED
  BY <1>8, <1>9, <1>10, <1>11, <1>12

LEMMA FailKeeps ==
  ASSUME ExportInv, NEW w \in Workers, Files!Fail(w)
  PROVE  ExportInv'
<1>1. worker[w].step \in {"refuse", "fail"} /\ worker[w].step \in InHand
      /\ UNCHANGED <<now, scope, content, mails, desk>>
  BY DEF Files!Fail, Files!At, InHand, Failing, Files!visible
<1>2. PICK i, a, final :
         i = worker[w].id /\ a = worker[w].attempt /\ final = (worker[w].step = "refuse")
  OBVIOUS
<1>a. final \in BOOLEAN
  BY <1>2
<1>3. /\ i \in Files!Ids /\ a \in Nat /\ jobs[i] \in JobRow /\ worker[w] \in RunRow
      /\ jobs[i].kind \in FileKinds /\ jobs[i].attempt \in Nat
  BY <1>1, <1>2, HandTells, ExportTells DEF HandFits, JobRow
<1>4. /\ IF Files!Own(i, a) THEN Files!Failed(i, a, final) ELSE UNCHANGED jobs
      /\ Files!Goes(w, IF Files!MailsFailure(i, a, final) THEN "mail" ELSE "claim")
  <2>1. Files!At(w, "refuse") = final
    BY <1>2 DEF Files!At
  <2> QED
    BY <1>2, <2>1 DEF Files!Fail, Files!visible
<1>5. CASE ~Files!Own(i, a)
  <2>1. UNCHANGED jobs /\ Files!Goes(w, "claim")
    BY <1>4, <1>5 DEF Files!MailsFailure
  <2>2. PICK r \in RunRow : worker' = [worker EXCEPT ![w] = r] /\ r.step = "claim"
                            /\ r.stuck = worker[w].stuck
    BY <2>1, GoesTells DEF RunSteps
  <2> QED
    BY <1>1, <2>1, <2>2, RestingFits, RunOnly
<1>6. CASE Files!Own(i, a)
  <2>1. PICK n \in JobRow :
           /\ jobs' = [jobs EXCEPT ![i] = n] /\ RowStep(jobs[i], n)
           /\ RowFits(n, content[<<i, n.attempt>>], mails[i], now)
           /\ n.kind = jobs[i].kind /\ n.attempt = a
           /\ n.status = Files!AfterFailure(a, final) /\ n.status \in {"PENDING", "FAILED"}
           /\ mails[i] = 0
    BY <1>3, <1>4, <1>6, <1>a, FailedRow
  <2>2. PICK step : step = IF Files!MailsFailure(i, a, final) THEN "mail" ELSE "claim"
    OBVIOUS
  <2>3. step \in {"mail", "claim"} /\ step \in RunSteps /\ Files!Goes(w, step)
    BY <1>4, <2>2 DEF RunSteps, Mailing
  <2>4. PICK r \in RunRow :
           /\ worker' = [worker EXCEPT ![w] = r] /\ r.step = step /\ r.stuck = worker[w].stuck
           /\ step # "claim" => r.id = i
    BY <1>2, <2>3, GoesTells
  <2>5. PICK K : K = [jobs EXCEPT ![i] = n]
    OBVIOUS
  <2>6. K[i] = n /\ \A k \in Files!Ids \ {i} : K[k] = jobs[k]
    BY <1>3, <2>5, ExportTells
  <2>7. r.step \in Mailing => /\ r.id \in Files!Ids /\ K[r.id].kind = "excel" /\ mails[r.id] = 0
                              /\ K[r.id].status \in {"SUCCEEDED", "FAILED"}
    BY <1>3, <2>1, <2>2, <2>3, <2>4, <2>6 DEF Files!MailsFailure, Mailing
  <2>8. StuckFits(r.stuck, K)
    <3>1. jobs[i].attempt = a
      BY <1>6 DEF Files!Own
    <3> QED
      BY <1>3, <2>1, <2>4, <2>6, <3>1, StuckKeeps
  <2>9. r.step \notin InHand /\ r.step # "sweep"
    BY <2>3, <2>4 DEF InHand, Trying, Failing
  <2>10. RunFits(r, K, content, mails, scope)
    BY <2>7, <2>8, <2>9 DEF RunFits
  <2>11. \A v \in Workers \ {w} : RunsApart(r, worker[v]) /\ RunsApart(worker[v], r)
    <3>1. jobs[i].status = "PROCESSING"
      BY <1>6 DEF Files!Own
    <3>2. \A v \in Workers : worker[v].step \in Mailing => worker[v].id # i
      BY <3>1, ExportTells DEF RunFits
    <3> QED
      BY <2>3, <2>4, <2>9, <3>2 DEF RunsApart, Mailing
  <2>12. n.status # "SUCCEEDED"
    BY <2>1
  <2>13. RunFits(r, [jobs EXCEPT ![i] = n], content, mails, scope)
    BY <2>5, <2>10
  <2> QED
    BY <1>1, <1>3, <2>1, <2>4, <2>11, <2>12, <2>13, RowAndRun
<1> QED
  BY <1>5, <1>6

LEMMA MailKeeps ==
  ASSUME ExportInv, NEW w \in Workers, Files!Mail(w)
  PROVE  ExportInv'
<1>1. worker[w].step \in Mailing /\ UNCHANGED <<now, scope, jobs, content, desk>>
  BY DEF Files!Mail, Files!At, Mailing, Files!visible
<1>2. PICK i : i = worker[w].id
  OBVIOUS
<1>3. /\ i \in Files!Ids /\ jobs[i].kind = "excel" /\ mails[i] = 0
      /\ jobs[i].status \in {"SUCCEEDED", "FAILED"}
  BY <1>1, <1>2, ExportTells DEF RunFits
<1>4. mails' = mails \/ mails' = [mails EXCEPT ![i] = @ + 1]
  BY <1>2 DEF Files!Mail
<1>5. PICK r \in RunRow : worker' = [worker EXCEPT ![w] = r] /\ r.step \in {"recover", "claim"}
                          /\ r.stuck = worker[w].stuck
  BY GoesTells DEF Files!Mail, RunSteps
<1>6. CASE mails' = mails
  BY <1>1, <1>5, <1>6, RestingFits, RunOnly
<1>7. CASE mails' = [mails EXCEPT ![i] = @ + 1]
  <2>1. PICK M : M = [mails EXCEPT ![i] = 1]
    OBVIOUS
  <2>2. M \in [Files!Ids -> Nat] /\ M[i] = 1
          /\ (\A k \in Files!Ids \ {i} : M[k] = mails[k]) /\ mails' = M
    BY <1>3, <1>7, <2>1, ExportTells
  <2>3. PICK W : W = [worker EXCEPT ![w] = r]
    OBVIOUS
  <2>4. W \in [Workers -> RunRow] /\ W[w] = r /\ \A v \in Workers \ {w} : W[v] = worker[v]
    BY <2>3, ExportTells
  <2>5. ASSUME NEW v \in Workers
        PROVE  RunFits(W[v], jobs, content, M, scope)
    <3>1. CASE v = w
      <4>1. r.step \notin Mailing
        BY <1>5 DEF Mailing
      <4>2. RunFits(r, jobs, content, mails, scope)
        BY <1>5, RestingFits
      <4> QED
        BY <2>4, <3>1, <4>1, <4>2 DEF RunFits
    <3>2. CASE v # w
      <4>1. worker[v].step \in Mailing => worker[v].id # i
        BY <1>1, <1>2, <3>2, ExportTells DEF RunsApart
      <4>2. RunFits(worker[v], jobs, content, mails, scope)
        BY ExportTells
      <4> QED
        BY <2>2, <2>4, <3>2, <4>1, <4>2 DEF RunFits
    <3> QED
      BY <3>1, <3>2
  <2>6. \A a, b \in Workers : a # b => RunsApart(W[a], W[b])
    BY <1>5, <2>4, RestingFits, ExportTells
  <2>7. RunsFit(W, jobs, content, M, scope)
    BY <2>5, <2>6 DEF RunsFit
  <2>8. RowsFit(jobs, content, M, now)
    <3>1. RowFits(jobs[i], content[<<i, jobs[i].attempt>>], M[i], now)
      BY <1>3, <2>2, ExportTells DEF RowFits
    <3> QED
      BY <2>2, <3>1, ExportTells DEF RowsFit
  <2> QED
    BY <1>1, <1>5, <2>2, <2>3, <2>4, <2>7, <2>8, ExportTells DEF ExportInv, ExportTyped
<1> QED
  BY <1>4, <1>6, <1>7

-----------------------------------------------------------------------------
(* The nightly deletion, the requests and the clock                        *)

LEMMA PurgeKeeps ==
  ASSUME ExportInv, NEW i \in Files!Ids, Files!Purge(i)
  PROVE  ExportInv'
<1>1. /\ jobs[i].status = "SUCCEEDED" /\ jobs[i].key # 0 /\ ~Files!Live(i)
      /\ content' = [content EXCEPT ![<<i, jobs[i].key>>] = {}]
      /\ jobs' = [jobs EXCEPT ![i].key = IF jobs[i].kind = "bulk" THEN 0 ELSE @]
      /\ UNCHANGED <<now, scope, mails, desk, worker>>
  BY DEF Files!Purge, Files!visible
<1>2. jobs[i] \in JobRow /\ RowFits(jobs[i], content[<<i, jobs[i].attempt>>], mails[i], now)
  BY ExportTells
<1>3. PICK n : n = [jobs[i] EXCEPT !.key = IF jobs[i].kind = "bulk" THEN 0 ELSE @]
  OBVIOUS
<1>4. PICK K : K = [jobs EXCEPT ![i] = n]
  OBVIOUS
<1>5. jobs' = K
  BY <1>1, <1>3, <1>4
<1>6. /\ n \in JobRow /\ n.kind = jobs[i].kind /\ n.attempt = jobs[i].attempt
      /\ n.status = "SUCCEEDED" /\ n.key \in {0, jobs[i].key} /\ n.scope = jobs[i].scope
      /\ n.expires = jobs[i].expires /\ n.shows = jobs[i].shows /\ n.moved = jobs[i].moved
  BY <1>1, <1>2, <1>3 DEF JobRow, JobStatuses
<1>7. K \in [Files!Ids -> JobRow] /\ K[i] = n /\ \A k \in Files!Ids \ {i} : K[k] = jobs[k]
  BY <1>4, <1>6, ExportTells
<1>8. jobs[i].kind \in FileKinds \cup {"direct"}
  BY <1>1, <1>2 DEF RowFits, JobRow
<1>9. PICK b : b = jobs[i].key
  OBVIOUS
<1>10. PICK C : C = [content EXCEPT ![<<i, b>>] = {}]
  OBVIOUS
<1>11. /\ C \in [Files!Keys -> FileSets] /\ content' = C
       /\ \A k \in Files!Keys : C[k] \in {{}, content[k]}
       /\ \A k \in Files!Keys : k # <<i, b>> => C[k] = content[k]
  BY <1>1, <1>9, <1>10, ExportTells DEF FileSets
\* No file of an attempt that is not the row's is deleted.
<1>12. ASSUME NEW v \in Workers
       PROVE  RunFits(worker[v], K, C, mails, scope)
  <2>1. /\ worker[v] \in RunRow /\ RunFits(worker[v], jobs, content, mails, scope)
        /\ StuckFits(worker[v].stuck, jobs)
    BY ExportTells DEF RunFits
  <2>2. \A k \in Files!Ids : /\ K[k].kind = jobs[k].kind /\ K[k].attempt = jobs[k].attempt
                             /\ K[k].status = jobs[k].status /\ K[k].scope = jobs[k].scope
    BY <1>1, <1>6, <1>7
  <2>3. ASSUME worker[v].step \in InHand
        PROVE  worker[v].id \in Files!Ids
               /\ HandFits(worker[v], K[worker[v].id], C[<<worker[v].id,
                    worker[v].attempt>>], scope)
    <3>1. PICK d, a : d = worker[v].id /\ a = worker[v].attempt
      OBVIOUS
    <3>2. /\ d \in Files!Ids /\ a \in Nat
               /\ HandFits(worker[v], jobs[d], content[<<d, a>>], scope)
          /\ RowFits(jobs[d], content[<<d, jobs[d].attempt>>], mails[d], now)
          /\ jobs[d].attempt \in Nat
      BY <2>3, <3>1, HandTells, ExportTells DEF JobRow
    <3>3. <<d, a>> \in Files!Keys
      BY <3>1, <3>2 DEF HandFits, RowFits, Files!Keys, Files!MaxAttempts
    <3>4. d = i => jobs[d].status # "PROCESSING"
      BY <1>1
    <3>5. d # i => C[<<d, a>>] = content[<<d, a>>]
      BY <1>11, <3>3
    <3>6. HandFits(worker[v], K[d], C[<<d, a>>], scope)
      BY <2>2, <3>1, <3>2, <3>4, <3>5 DEF HandFits, Over
    <3> QED
      BY <3>1, <3>2, <3>6
  <2>4. worker[v].step = "sweep" => worker[v].id \in Files!Ids /\ K[worker[v].id].kind = "bulk"
                                    /\ Over(K[worker[v].id], worker[v].key)
    BY <2>1, <2>2 DEF RunFits, Over
  <2>5. worker[v].step \in Mailing =>
           /\ worker[v].id \in Files!Ids /\ K[worker[v].id].kind = "excel"
                /\ mails[worker[v].id] = 0
           /\ K[worker[v].id].status \in {"SUCCEEDED", "FAILED"}
    BY <2>1, <2>2 DEF RunFits
  <2>6. StuckFits(worker[v].stuck, K)
    <3>1. \A e \in worker[v].stuck : e.id \in Files!Ids
      BY StuckTells
    <3> QED
      BY <2>1, <2>2, <3>1 DEF StuckFits
  <2> QED
    BY <2>3, <2>4, <2>5, <2>6 DEF RunFits
<1>13. RunsFit(worker, K, C, mails, scope)
  BY <1>12, ExportTells DEF RunsFit
<1>14. RowsFit(K, C, mails, now)
  <2>1. Filled(K)
    BY <1>6, <1>7, ExportTells DEF Filled
  <2>2. ASSUME NEW k \in Files!Ids \ {i}
        PROVE  RowFits(K[k], C[<<k, K[k].attempt>>], mails[k], now)
    <3>1. RowFits(jobs[k], content[<<k, jobs[k].attempt>>], mails[k], now)
          /\ jobs[k].attempt \in Nat
      BY ExportTells DEF JobRow
    <3>2. CASE <<k, jobs[k].attempt>> \in Files!Keys
      <4>1. C[<<k, jobs[k].attempt>>] = content[<<k, jobs[k].attempt>>]
        BY <1>11, <3>2
      <4> QED
        BY <1>7, <3>1, <4>1
    <3>3. CASE <<k, jobs[k].attempt>> \notin Files!Keys
      <4>1. ~(jobs[k].kind \in FileKinds /\ jobs[k].status = "SUCCEEDED")
        BY <3>1, <3>3 DEF RowFits, Files!Keys, Files!MaxAttempts
      <4> QED
        BY <1>7, <3>1, <4>1 DEF RowFits
    <3> QED
      BY <3>2, <3>3
  <2>3. RowFits(n, C[<<i, n.attempt>>], mails[i], now)
    <3>1. CASE jobs[i].kind = "direct"
      BY <1>2, <1>6, <3>1 DEF RowFits, FileKinds
    <3>2. CASE jobs[i].kind \in FileKinds
      <4>1. jobs[i].attempt \in 1 .. Files!MaxAttempts /\ <<i, n.attempt>> \in Files!Keys
        BY <1>1, <1>2, <1>6, <3>2 DEF RowFits, Files!Keys, Files!MaxAttempts
      <4>2. C[<<i, n.attempt>>] \in {{}, content[<<i, jobs[i].attempt>>]}
        BY <1>6, <1>11, <4>1
      <4>3. ~(now < jobs[i].expires)
        BY <1>1, <3>2 DEF Files!Live, FileKinds
      <4> QED
        BY <1>1, <1>2, <1>6, <3>2, <4>1, <4>2, <4>3 DEF RowFits, FileKinds, ShowsNoted
    <3> QED
      BY <1>8, <3>1, <3>2
  <2> QED
    BY <1>7, <2>1, <2>2, <2>3 DEF RowsFit
<1>15. DesksFit(desk, K)
  BY <1>6, <1>7, ExportTells DEF DesksFit
<1> QED
  BY <1>1, <1>5, <1>7, <1>11, <1>13, <1>14, <1>15, ExportTells DEF ExportInv, ExportTyped

LEMMA TickKeeps ==
  ASSUME ExportInv, Files!Tick
  PROVE  ExportInv'
<1>1. now' = now + 1 /\ UNCHANGED <<scope, jobs, content, mails, desk, worker>>
  BY DEF Files!Tick, Files!visible
<1>2. PICK t : t = now + 1
  OBVIOUS
<1>3. t \in Nat /\ now < t /\ now' = t
  BY <1>1, <1>2, ExportTells
<1>4. \A i \in Files!Ids : RowFits(jobs[i], content[<<i, jobs[i].attempt>>], mails[i], t)
  <2>1. ASSUME NEW i \in Files!Ids
        PROVE  RowFits(jobs[i], content[<<i, jobs[i].attempt>>], mails[i], t)
    <3>1. RowFits(jobs[i], content[<<i, jobs[i].attempt>>], mails[i], now)
          /\ jobs[i].expires \in Nat /\ now \in Nat
      BY ExportTells DEF JobRow
    <3>2. t < jobs[i].expires => now < jobs[i].expires
      BY <1>3, <3>1
    <3> QED
      BY <3>1, <3>2 DEF RowFits
  <2> QED
    BY <2>1
<1> QED
  BY <1>1, <1>3, <1>4, ExportTells DEF ExportInv, ExportTyped, RowsFit

\* The stores change under the runs: one that is making a workbook is told so.
LEMMA ChangeScopeKeeps ==
  ASSUME ExportInv, Files!ChangeScope
  PROVE  ExportInv'
<1>1. scope' \in SUBSET Stores /\ UNCHANGED <<now, jobs, content, mails, desk>>
  BY DEF Files!ChangeScope
<1>2. PICK s, W : s = scope' /\ W = worker'
  OBVIOUS
<1>3. W = [v \in Workers |-> IF Files!Making(v) THEN [worker[v] EXCEPT !.moved = TRUE] ELSE worker[v]]
  BY <1>2 DEF Files!ChangeScope
<1>4. ASSUME NEW v \in Workers
      PROVE  /\ W[v] \in RunRow /\ W[v].step = worker[v].step /\ W[v].id = worker[v].id
             /\ W[v].attempt = worker[v].attempt /\ W[v].key = worker[v].key
             /\ W[v].stuck = worker[v].stuck /\ W[v].made = worker[v].made
             /\ W[v].scope = worker[v].scope
             /\ IF Files!Making(v) THEN W[v].moved = TRUE ELSE W[v] = worker[v]
  <2>1. worker[v] \in RunRow
    BY ExportTells
  <2>2. CASE Files!Making(v)
    <3>1. W[v] = [worker[v] EXCEPT !.moved = TRUE]
      BY <1>3, <2>2
    <3> QED
      BY <2>1, <2>2, <3>1 DEF RunRow
  <2>3. CASE ~Files!Making(v)
    BY <1>3, <2>1, <2>3
  <2> QED
    BY <2>2, <2>3
<1>5. ASSUME NEW v \in Workers
      PROVE  RunFits(W[v], jobs, content, mails, s)
  <2>1. RunFits(worker[v], jobs, content, mails, scope)
    BY ExportTells
  <2>2. ASSUME worker[v].step \in InHand
        PROVE  HandFits(W[v], jobs[W[v].id], content[<<W[v].id, W[v].attempt>>], s)
    <3>1. PICK i, file : i = worker[v].id /\ file = content[<<i, worker[v].attempt>>]
      OBVIOUS
    <3>2. HandFits(worker[v], jobs[i], file, scope)
      BY <2>1, <2>2, <3>1 DEF RunFits
    <3>3. Files!Making(v) => worker[v].step = "build"
      BY DEF Files!Making, Files!At
    <3>4. worker[v].step = "build" /\ jobs[i].kind # "bulk" => Files!Making(v)
      BY <3>1, <3>2 DEF Files!Making, Files!At, HandFits, FileKinds
    <3>5. HandFits(W[v], jobs[i], file, s)
      <4>1. CASE Files!Making(v)
        <5>1. PICK q : q = W[v]
          OBVIOUS
        <5>2. q.step = "build" /\ q.attempt = worker[v].attempt /\ q.moved = TRUE
          BY <1>4, <3>3, <4>1, <5>1
        <5>3. HandFits(q, jobs[i], file, s)
          BY <3>2, <3>3, <4>1, <5>2 DEF HandFits, Trying
        <5> QED
          BY <5>1, <5>3
      <4>2. CASE ~Files!Making(v)
        BY <1>4, <3>2, <3>4, <4>2 DEF HandFits
      <4> QED
        BY <4>1, <4>2
    <3> QED
      BY <1>4, <3>1, <3>5
  <2> QED
    BY <1>4, <2>1, <2>2 DEF RunFits
<1>6. RunsFit(W, jobs, content, mails, s)
  <2>1. \A v \in Workers : /\ W[v].step = worker[v].step /\ W[v].id = worker[v].id
                            /\ W[v].attempt = worker[v].attempt
    BY <1>4
  <2>2. \A v, q \in Workers : v # q => RunsApart(W[v], W[q])
    <3>1. \A v, q \in Workers : v # q => RunsApart(worker[v], worker[q])
      BY ExportTells
    <3> QED
      BY <2>1, <3>1 DEF RunsApart
  <2> QED
    BY <1>5, <2>2 DEF RunsFit
<1>7. W \in [Workers -> RunRow]
  BY <1>3, <1>4
<1> QED
  BY <1>1, <1>2, <1>6, <1>7, ExportTells DEF ExportInv, ExportTyped, RowsFit

\* Only rows of files made at once change, of which no run has any in hand.
LEMMA DirectsKeep ==
  ASSUME ExportInv, NEW K \in [Files!Ids -> JobRow],
         \A k \in Files!Ids : K[k] = jobs[k]
            \/ /\ jobs[k].kind = "direct" /\ K[k].kind = "direct"
               /\ K[k].status \in {"PROCESSING", "SUCCEEDED", "FAILED"}
  PROVE  /\ RowsFit(K, content, mails, now)
         /\ \A v \in Workers : RunFits(worker[v], K, content, mails, scope)
         /\ DesksFit(desk, K)
<1>1. \A k \in Files!Ids : K[k].kind = jobs[k].kind /\ (jobs[k].kind # "direct" => K[k] = jobs[k])
  OBVIOUS
<1>2. RowsFit(K, content, mails, now)
  <2>1. Filled(K)
    BY <1>1, ExportTells DEF Filled
  <2>2. ASSUME NEW k \in Files!Ids
        PROVE  RowFits(K[k], content[<<k, K[k].attempt>>], mails[k], now)
    <3>1. RowFits(jobs[k], content[<<k, jobs[k].attempt>>], mails[k], now)
      BY ExportTells
    <3>2. CASE K[k] = jobs[k]
      BY <3>1, <3>2
    <3>3. CASE /\ jobs[k].kind = "direct" /\ K[k].kind = "direct"
               /\ K[k].status \in {"PROCESSING", "SUCCEEDED", "FAILED"}
      BY <3>1, <3>3 DEF RowFits, FileKinds
    <3> QED
      BY <3>2, <3>3
  <2> QED
    BY <2>1, <2>2 DEF RowsFit
<1>3. ASSUME NEW v \in Workers
      PROVE  RunFits(worker[v], K, content, mails, scope)
  <2>1. RunFits(worker[v], jobs, content, mails, scope)
    BY ExportTells
  <2>2. \A k \in Files!Ids : jobs[k].kind \in FileKinds => K[k] = jobs[k]
    BY <1>1 DEF FileKinds
  <2>3. worker[v].step \in InHand => K[worker[v].id] = jobs[worker[v].id]
    BY <2>1, <2>2 DEF RunFits, HandFits
  <2>4. worker[v].step = "sweep" \/ worker[v].step \in Mailing =>
          K[worker[v].id] = jobs[worker[v].id]
    BY <2>1, <2>2 DEF RunFits, FileKinds
  <2>5. StuckFits(worker[v].stuck, K)
    <3>1. \A e \in worker[v].stuck : e.id \in Files!Ids /\ jobs[e.id].kind \in FileKinds
      BY StuckTells
    <3> QED
      BY <2>1, <2>2, <3>1 DEF RunFits, StuckFits
  <2> QED
    BY <2>1, <2>3, <2>4, <2>5 DEF RunFits
<1>4. DesksFit(desk, K)
  BY <1>1, ExportTells DEF DesksFit
<1> QED
  BY <1>2, <1>3, <1>4

LEMMA StartRunKeeps ==
  ASSUME ExportInv, NEW w \in Workers, Files!StartRun(w)
  PROVE  ExportInv'
<1>1. UNCHANGED <<now, scope, content, mails, desk>>
  BY DEF Files!StartRun, Files!visible
<1>2. PICK K : K = [i \in Files!Ids |-> IF Files!TakesTooLong(i) /\ jobs[i].kind = "direct"
                                        THEN [jobs[i] EXCEPT !.status = "FAILED"] ELSE jobs[i]]
  OBVIOUS
<1>3. jobs' = K
  BY <1>2 DEF Files!StartRun
<1>4. \A k \in Files!Ids :
         /\ K[k] \in JobRow
         /\ \/ K[k] = jobs[k]
            \/ jobs[k].kind = "direct" /\ K[k].kind = "direct" /\ K[k].status = "FAILED"
  <2>1. ASSUME NEW k \in Files!Ids
        PROVE  /\ K[k] \in JobRow
               /\ \/ K[k] = jobs[k]
                  \/ jobs[k].kind = "direct" /\ K[k].kind = "direct" /\ K[k].status = "FAILED"
    <3>1. jobs[k] \in JobRow
      BY ExportTells
    <3>2. CASE Files!TakesTooLong(k) /\ jobs[k].kind = "direct"
      <4>1. K[k] = [jobs[k] EXCEPT !.status = "FAILED"]
        BY <1>2, <3>2
      <4> QED
        BY <3>1, <3>2, <4>1 DEF JobRow, JobStatuses
    <3>3. CASE ~(Files!TakesTooLong(k) /\ jobs[k].kind = "direct")
      BY <1>2, <3>1, <3>3
    <3> QED
      BY <3>2, <3>3
  <2> QED
    BY <2>1
<1>5. K \in [Files!Ids -> JobRow]
  BY <1>2, <1>4
<1>6. /\ RowsFit(K, content, mails, now) /\ DesksFit(desk, K)
      /\ \A v \in Workers : RunFits(worker[v], K, content, mails, scope)
  BY <1>4, <1>5, DirectsKeep
<1>7. PICK S : S = {[id |-> i, attempt |-> jobs[i].attempt, key |-> jobs[i].key] :
                    i \in {j \in Files!Ids : Files!TakesTooLong(j) /\ jobs[j].kind # "direct"}}
  OBVIOUS
<1>8. PICK r : r = [Files!Resting EXCEPT !.step = "recover", !.since = now, !.stuck = S]
  OBVIOUS
<1>9. worker' = [worker EXCEPT ![w] = r]
  BY <1>7, <1>8 DEF Files!StartRun
<1>10. ASSUME NEW j \in Files!Ids, Files!TakesTooLong(j), jobs[j].kind # "direct"
       PROVE  /\ jobs[j].kind \in FileKinds /\ jobs[j].attempt \in Nat /\ jobs[j].key \in Nat
              /\ K[j] = jobs[j]
              /\ jobs[j].kind = "bulk" => jobs[j].key \in {0, jobs[j].attempt}
  <2>1. /\ jobs[j] \in JobRow /\ jobs[j].status = "PROCESSING"
        /\ RowFits(jobs[j], content[<<j, jobs[j].attempt>>], mails[j], now)
    BY <1>10, ExportTells DEF Files!TakesTooLong
  <2>2. jobs[j].kind \in FileKinds /\ K[j] = jobs[j]
    BY <1>4, <1>10, <2>1 DEF JobRow, RowFits
  <2> QED
    BY <2>1, <2>2 DEF JobRow, RowFits
<1>11. S \subseteq [id: Files!Ids, attempt: Nat, key: Nat]
  BY <1>7, <1>10
<1>12. StuckFits(S, K)
  <2>1. ASSUME NEW e \in S
        PROVE  /\ K[e.id].kind \in FileKinds /\ e.attempt <= K[e.id].attempt
               /\ K[e.id].kind = "bulk" => e.key \in {0, e.attempt}
    <3>1. PICK j \in Files!Ids : /\ Files!TakesTooLong(j) /\ jobs[j].kind # "direct"
                                 /\ e = [id |-> j, attempt |-> jobs[j].attempt,
                                      key |-> jobs[j].key]
      BY <1>7
    <3>2. e.id = j /\ e.attempt = jobs[j].attempt /\ e.key = jobs[j].key
      BY <3>1
    <3>3. /\ jobs[j].kind \in FileKinds /\ jobs[j].attempt \in Nat /\ K[j] = jobs[j]
          /\ jobs[j].kind = "bulk" => jobs[j].key \in {0, jobs[j].attempt}
      BY <1>10, <3>1
    <3> QED
      BY <3>2, <3>3
  <2> QED
    BY <2>1 DEF StuckFits
<1>13. r \in RunRow /\ r.step = "recover" /\ r.stuck = S
  BY <1>8, <1>11, ExportTells DEF RunRow, Files!Resting, RunSteps
<1>14. RunFits(r, K, content, mails, scope)
       /\ \A v \in Workers \ {w} : RunsApart(r, worker[v]) /\ RunsApart(worker[v], r)
  BY <1>12, <1>13 DEF RunFits, RunsApart, InHand, Trying, Failing, Mailing
<1>15. PICK W : W = [worker EXCEPT ![w] = r]
  OBVIOUS
<1>16. W \in [Workers -> RunRow] /\ W[w] = r /\ \A v \in Workers \ {w} : W[v] = worker[v]
  BY <1>13, <1>15, ExportTells
<1>17. RunsFit(W, K, content, mails, scope)
  BY <1>6, <1>14, <1>16, ExportTells DEF RunsFit
<1> QED
  BY <1>1, <1>3, <1>5, <1>6, <1>9, <1>15, <1>16, <1>17, ExportTells DEF ExportInv, ExportTyped

LEMMA AskKeeps ==
  ASSUME ExportInv, NEW c \in Callers, NEW kind \in Kinds, Files!Ask(c, kind)
  PROVE  ExportInv'
<1>1. UNCHANGED <<now, scope, jobs, content, mails, worker>>
  BY DEF Files!Ask, Files!visible
<1>2. PICK stores \in SUBSET scope :
         desk' = [desk EXCEPT ![c] = [step |-> "asked", kind |-> kind, stores |-> stores,
                                      at |-> now, id |-> 0]]
  BY DEF Files!Ask, Files!visible
<1>3. PICK d : d = [step |-> "asked", kind |-> kind, stores |-> stores, at |-> now, id |-> 0]
               /\ desk' = [desk EXCEPT ![c] = d]
  BY <1>2
<1>4. PICK D : D = [desk EXCEPT ![c] = d]
  OBVIOUS
<1>5. d \in DeskRow /\ d.step = "asked" /\ d.kind \in Kinds
  BY <1>3, ExportTells DEF DeskRow
<1>6. D \in [Callers -> DeskRow] /\ DesksFit(D, jobs)
  BY <1>4, <1>5, ExportTells DEF DesksFit
<1> QED
  BY <1>1, <1>3, <1>4, <1>6, ExportTells DEF ExportInv, ExportTyped

LEMMA AwayFits ==
  ASSUME ExportInv, NEW c \in Callers, NEW K, DesksFit(desk, K)
  PROVE  [desk EXCEPT ![c] = Files!Away] \in [Callers -> DeskRow]
           /\ DesksFit([desk EXCEPT ![c] = Files!Away], K)
<1>1. Files!Away \in DeskRow /\ Files!Away.step = "idle"
  BY DEF Files!Away, DeskRow
<1>2. PICK D : D = [desk EXCEPT ![c] = Files!Away]
  OBVIOUS
<1>3. D \in [Callers -> DeskRow] /\ D[c] = Files!Away /\ \A b \in Callers \ {c} : D[b] = desk[b]
  BY <1>1, <1>2, ExportTells
<1>4. DesksFit(D, K)
  BY <1>1, <1>3 DEF DesksFit
<1> QED
  BY <1>2, <1>3, <1>4

LEMMA FinishDirectKeeps ==
  ASSUME ExportInv, NEW c \in Callers, Files!FinishDirect(c)
  PROVE  ExportInv'
<1>1. /\ desk[c].step = "making" /\ UNCHANGED <<now, scope, content, mails, worker>>
      /\ desk' = [desk EXCEPT ![c] = Files!Away]
  BY DEF Files!FinishDirect, Files!visible
<1>2. PICK i : i = desk[c].id
  OBVIOUS
<1>3. i \in Files!Ids /\ jobs[i].kind = "direct" /\ jobs[i] \in JobRow
  BY <1>1, <1>2, ExportTells DEF DesksFit
<1>4. PICK K : K = jobs'
  OBVIOUS
<1>5. /\ K \in [Files!Ids -> JobRow]
      /\ \A k \in Files!Ids : K[k] = jobs[k]
            \/ /\ jobs[k].kind = "direct" /\ K[k].kind = "direct"
               /\ K[k].status \in {"PROCESSING", "SUCCEEDED", "FAILED"}
  <2>1. CASE UNCHANGED jobs
    BY <1>4, <2>1, ExportTells
  <2>2. ASSUME NEW s \in {"SUCCEEDED", "FAILED"}, jobs' = [jobs EXCEPT ![i].status = s]
        PROVE  /\ K \in [Files!Ids -> JobRow]
               /\ \A k \in Files!Ids : K[k] = jobs[k]
                    \/ /\ jobs[k].kind = "direct" /\ K[k].kind = "direct"
                       /\ K[k].status \in {"PROCESSING", "SUCCEEDED", "FAILED"}
    <3>1. PICK n : n = [jobs[i] EXCEPT !.status = s]
      OBVIOUS
    <3>2. n \in JobRow /\ n.kind = "direct" /\ n.status = s
      BY <1>3, <2>2, <3>1 DEF JobRow, JobStatuses
    <3>3. K = [jobs EXCEPT ![i] = n]
      BY <1>4, <2>2, <3>1
    <3> QED
      BY <1>3, <2>2, <3>2, <3>3, ExportTells
  <2> QED
    BY <1>2, <2>1, <2>2 DEF Files!FinishDirect
<1>6. /\ RowsFit(K, content, mails, now) /\ DesksFit(desk, K)
      /\ \A v \in Workers : RunFits(worker[v], K, content, mails, scope)
  BY <1>5, DirectsKeep
<1>7. RunsFit(worker, K, content, mails, scope)
  BY <1>6, ExportTells DEF RunsFit
<1>8. PICK D : D = [desk EXCEPT ![c] = Files!Away]
  OBVIOUS
<1>9. D \in [Callers -> DeskRow] /\ DesksFit(D, K)
  BY <1>6, <1>8, AwayFits
<1> QED
  BY <1>1, <1>4, <1>5, <1>6, <1>7, <1>8, <1>9, ExportTells DEF ExportInv, ExportTyped

\* Rows are numbered from 1, so the next row is the first that is free.
LEMMA NextRow ==
  ASSUME NEW J, NEW n \in 0 .. MaxJobs, \A i \in Files!Ids : J[i].kind = "none" <=> n < i
  PROVE  Files!Cardinality({j \in Files!Ids : J[j].kind # "none"}) = n
<1>1. MaxJobs \in Nat /\ n \in Nat /\ n <= MaxJobs
  BY ExportConstants
<1>2. \A j : j \in {k \in Files!Ids : J[k].kind # "none"} <=> j \in 1 .. n
  BY <1>1 DEF Files!Ids
<1>3. {j \in Files!Ids : J[j].kind # "none"} = 1 .. n
  BY <1>2
<1>4. Files!Cardinality(1 .. n) = Cardinality(1 .. n)
  BY DEF Files!Cardinality, Cardinality
<1>5. Cardinality(1 .. n) = n
  BY <1>1, FS_Interval
<1> QED
  BY <1>3, <1>4, <1>5

LEMMA InsertKeeps ==
  ASSUME ExportInv, NEW c \in Callers, Files!Insert(c)
  PROVE  ExportInv'
<1>1. /\ desk[c].step = "asked" /\ desk[c].kind \in Kinds /\ desk[c].at \in Nat
      /\ desk[c].stores \in SUBSET Stores
      /\ UNCHANGED <<now, scope, content, mails, worker>>
  BY ExportTells DEF Files!Insert, DesksFit, DeskRow, Files!visible
<1>2. PICK n \in 0 .. MaxJobs : \A i \in Files!Ids : jobs[i].kind = "none" <=> n < i
  BY ExportTells DEF Filled
<1>3. PICK i, kind, at, stores :
         i = n + 1 /\ kind = desk[c].kind /\ at = desk[c].at /\ stores = desk[c].stores
  OBVIOUS
<1>4. Files!Cardinality({j \in Files!Ids : jobs[j].kind # "none"}) + 1 = i
  BY <1>2, <1>3, NextRow
<1>5. PICK job : job =
         [Files!NoJob EXCEPT !.kind = kind, !.at = at,
           !.began = IF kind = "direct" THEN at ELSE 0,
                       !.status = IF kind = "direct" THEN "PROCESSING" ELSE "PENDING",
                       !.scope = stores]
  OBVIOUS
<1>6. \/ /\ i \in Files!Ids /\ jobs' = [jobs EXCEPT ![i] = job]
         /\ desk' = [desk EXCEPT ![c] =
              IF kind = "direct" THEN [@ EXCEPT !.step = "making", !.id = i] ELSE Files!Away]
      \/ desk' = [desk EXCEPT ![c] = Files!Away] /\ UNCHANGED jobs
  BY <1>3, <1>4, <1>5 DEF Files!Insert, Files!visible
<1>7. CASE desk' = [desk EXCEPT ![c] = Files!Away] /\ UNCHANGED jobs
  <2>1. PICK D : D = [desk EXCEPT ![c] = Files!Away]
    OBVIOUS
  <2>2. D \in [Callers -> DeskRow] /\ DesksFit(D, jobs)
    BY <2>1, AwayFits, ExportTells
  <2> QED
    BY <1>1, <1>7, <2>1, <2>2, ExportTells DEF ExportInv, ExportTyped
<1>8. CASE /\ i \in Files!Ids /\ jobs' = [jobs EXCEPT ![i] = job]
           /\ desk' = [desk EXCEPT ![c] =
                IF kind = "direct" THEN [@ EXCEPT !.step = "making", !.id = i] ELSE Files!Away]
  <2>1. kind \in {"bulk", "excel", "direct"} /\ at \in Nat /\ stores \in SUBSET Stores
    BY <1>1, <1>3, ExportConstants
  <2>2. /\ job \in JobRow /\ job.kind = kind /\ job.attempt = 0 /\ job.key = 0
        /\ job.status = IF kind = "direct" THEN "PROCESSING" ELSE "PENDING"
    BY <1>5, <2>1 DEF Files!NoJob, JobRow, JobStatuses, FileKinds
  <2>3. /\ jobs[i] \in JobRow /\ jobs[i].kind = "none"
        /\ RowFits(jobs[i], content[<<i, jobs[i].attempt>>], mails[i], now)
    BY <1>2, <1>3, <1>8, ExportTells DEF Files!Ids
  <2>4. PICK K : K = [jobs EXCEPT ![i] = job]
    OBVIOUS
  <2>5. K \in [Files!Ids -> JobRow] /\ K[i] = job /\ \A k \in Files!Ids \ {i} : K[k] = jobs[k]
    BY <1>8, <2>2, <2>4, ExportTells
  <2>6. Filled(K)
    <3>1. n + 1 \in 0 .. MaxJobs
      BY <1>2, <1>3, <1>8, ExportConstants DEF Files!Ids
    <3>2. \A k \in Files!Ids : K[k].kind = "none" <=> n + 1 < k
      BY <1>2, <1>3, <2>1, <2>2, <2>5 DEF Files!Ids
    <3> QED
      BY <3>1, <3>2 DEF Filled
  <2>7. RowFits(job, content[<<i, job.attempt>>], mails[i], now)
    <3>1. mails[i] = 0
      BY <2>3 DEF RowFits
    <3> QED
      BY <2>1, <2>2, <3>1 DEF RowFits, FileKinds, Files!MaxAttempts
  <2>8. RowsFit(K, content, mails, now)
    BY <2>5, <2>6, <2>7, ExportTells DEF RowsFit
  <2>9. ASSUME NEW v \in Workers
        PROVE  RunFits(worker[v], K, content, mails, scope)
    <3>1. RunFits(worker[v], jobs, content, mails, scope)
      BY ExportTells
    <3>2. \A k \in Files!Ids : jobs[k].kind \in FileKinds => K[k] = jobs[k]
      BY <2>3, <2>5 DEF FileKinds
    <3>3. worker[v].step \in InHand => K[worker[v].id] = jobs[worker[v].id]
      BY <3>1, <3>2 DEF RunFits, HandFits
    <3>4. worker[v].step = "sweep" \/ worker[v].step \in Mailing
             => K[worker[v].id] = jobs[worker[v].id]
      BY <3>1, <3>2 DEF RunFits, FileKinds
    <3>5. StuckFits(worker[v].stuck, K)
      <4>1. \A e \in worker[v].stuck : e.id \in Files!Ids /\ jobs[e.id].kind \in FileKinds
        BY StuckTells
      <4> QED
        BY <3>1, <3>2, <4>1 DEF RunFits, StuckFits
    <3> QED
      BY <3>1, <3>3, <3>4, <3>5 DEF RunFits
  <2>10. RunsFit(worker, K, content, mails, scope)
    BY <2>9, ExportTells DEF RunsFit
  <2>11. DesksFit(desk, K)
    BY <2>3, <2>5, ExportTells DEF DesksFit
  <2>12. desk' \in [Callers -> DeskRow] /\ DesksFit(desk', K)
    <3>1. CASE kind # "direct"
      BY <1>8, <2>11, <3>1, AwayFits
    <3>2. CASE kind = "direct"
      <4>1. PICK d : d = [desk[c] EXCEPT !.step = "making", !.id = i]
        OBVIOUS
      <4>2. desk' = [desk EXCEPT ![c] = d]
        BY <1>8, <3>2, <4>1
      <4>3. d \in DeskRow /\ d.step = "making" /\ d.id = i
        BY <1>8, <4>1, ExportTells DEF DeskRow
      <4>4. PICK D : D = [desk EXCEPT ![c] = d]
        OBVIOUS
      <4>5. D \in [Callers -> DeskRow] /\ D[c] = d /\ \A b \in Callers \ {c} : D[b] = desk[b]
        BY <4>3, <4>4, ExportTells
      <4>6. DesksFit(D, K)
        BY <1>8, <2>2, <2>5, <2>11, <3>2, <4>3, <4>5 DEF DesksFit
      <4> QED
        BY <4>2, <4>4, <4>5, <4>6
    <3> QED
      BY <3>1, <3>2
  <2> QED
    BY <1>1, <1>8, <2>4, <2>5, <2>8, <2>10, <2>12, ExportTells DEF ExportInv, ExportTyped
<1> QED
  BY <1>6, <1>7, <1>8

-----------------------------------------------------------------------------
(* What holds at every step                                                *)

LEMMA ExportInit ==
  ASSUME Files!Init
  PROVE  ExportInv
<1>1. Files!NoJob \in JobRow /\ Files!NoJob.kind = "none" /\ Files!NoJob.status = "none"
        /\ Files!NoJob.attempt = 0
  BY DEF Files!NoJob, JobRow, JobStatuses
<1>2. Files!Away \in DeskRow /\ Files!Away.step = "idle"
  BY DEF Files!Away, DeskRow
<1>3. Files!Resting \in RunRow /\ Files!Resting.step = "idle" /\ Files!Resting.stuck = {}
  BY DEF Files!Resting, RunRow, RunSteps
<1>4. ExportTyped
  BY <1>1, <1>2, <1>3 DEF Files!Init, ExportTyped, FileSets
<1>5. RowsFit(jobs, content, mails, now)
  <2>1. Filled(jobs)
    <3>1. 0 \in 0 .. MaxJobs /\ \A i \in Files!Ids : jobs[i].kind = "none" <=> 0 < i
      BY <1>1, ExportConstants DEF Files!Init, Files!Ids
    <3> QED
      BY <3>1 DEF Filled
  <2>2. \A i \in Files!Ids : RowFits(jobs[i], content[<<i, jobs[i].attempt>>], mails[i], now)
    BY <1>1 DEF Files!Init, RowFits, FileKinds
  <2> QED
    BY <2>1, <2>2 DEF RowsFit
<1>6. RunsFit(worker, jobs, content, mails, scope)
  BY <1>3 DEF Files!Init, RunsFit, RunFits, StuckFits, RunsApart, InHand, Trying, Failing,
     Mailing
<1>7. DesksFit(desk, jobs)
  BY <1>2 DEF Files!Init, DesksFit
<1> QED
  BY <1>4, <1>5, <1>6, <1>7 DEF ExportInv

LEMMA ExportNext ==
  ASSUME ExportInv, [Files!Next]_filesSide
  PROVE  ExportInv'
<1>1. ASSUME NEW c \in Callers, Files!Insert(c) \/ Files!FinishDirect(c)
             \/ \E kind \in Kinds : Files!Ask(c, kind)
      PROVE  ExportInv'
  BY <1>1, InsertKeeps, FinishDirectKeeps, AskKeeps
<1>2. ASSUME NEW w \in Workers, Files!Batch(w)
      PROVE  ExportInv'
  BY <1>2, StartRunKeeps, RecoverKeeps, RecoveredKeeps, SweepKeeps, ClaimKeeps, CheckKeeps,
     BuildKeeps, NoteKeyKeeps, PutKeeps, SettleKeeps, DropLostKeeps, DropKeeps, FailKeeps,
     MailKeeps, DieKeeps DEF Files!Batch
<1>3. CASE \E i \in Files!Ids : Files!Purge(i)
  BY <1>3, PurgeKeeps
<1>4. CASE Files!Tick \/ Files!ChangeScope
  BY <1>4, TickKeeps, ChangeScopeKeeps
<1>5. CASE \E t \in Stores : Files!ChangeConsent(t)
  BY <1>5 DEF Files!ChangeConsent, ExportInv, ExportTyped
<1>6. CASE UNCHANGED filesSide
  BY <1>6 DEF filesSide, ExportInv, ExportTyped
<1> QED
  BY <1>1, <1>2, <1>3, <1>4, <1>5, <1>6 DEF Files!Next

LEMMA ExportOutcome ==
  ASSUME ExportInv
  PROVE  Files!HandedOutWithinScope /\ (~LoseAnswers => Files!FinishedOnce)
<1>1. ASSUME NEW i \in Files!Ids
      PROVE  /\ \A shown \in Files!HandsOut(i) :
                  /\ jobs[i].kind = "bulk" => shown \subseteq scope \ hidden
                  /\ jobs[i].kind = "excel" /\ ~jobs[i].moved => shown = scope
             /\ mails[i] <= 1
             /\ ~LoseAnswers /\ Files!Live(i) =>
                  jobs[i].key # 0 /\ content[<<i, jobs[i].key>>] # {}
  <2>1. /\ jobs[i] \in JobRow /\ now \in Nat
        /\ RowFits(jobs[i], content[<<i, jobs[i].attempt>>], mails[i], now)
    BY ExportTells
  <2>2. Files!Live(i) => /\ jobs[i].kind \in FileKinds /\ jobs[i].status = "SUCCEEDED"
                         /\ now < jobs[i].expires
    BY <2>1 DEF Files!Live, RowFits, JobRow
  <2>3. Files!Live(i) => jobs[i].key = jobs[i].attempt
    BY <2>1, <2>2 DEF RowFits
  <2>4. ASSUME NEW shown \in Files!HandsOut(i)
        PROVE  /\ jobs[i].kind = "bulk" => shown \subseteq scope \ hidden
               /\ jobs[i].kind = "excel" /\ ~jobs[i].moved => shown = scope
    <3>1. Files!MayDownload(i)
      BY <2>4 DEF Files!HandsOut
    <3>2. Files!Live(i) /\ shown \in content[<<i, jobs[i].attempt>>]
      BY <2>3, <2>4, <3>1 DEF Files!HandsOut, Files!MayDownload
    <3>3. ShowsNoted(shown, jobs[i]) /\ (jobs[i].kind = "bulk" => jobs[i].shows \subseteq jobs[i].scope)
      BY <2>1, <2>2, <3>2 DEF RowFits
    <3> QED
      BY <3>1, <3>3 DEF ShowsNoted, Files!MayDownload
  <2> QED
    BY <2>1, <2>2, <2>3, <2>4 DEF RowFits
<1> QED
  BY <1>1 DEF Files!HandedOutWithinScope, Files!ArchivesWithinScope, Files!WorkbooksWithinScope,
     Files!FinishedOnce, Files!FinishedHasItsFile, Files!ToldOnce

\* ExportInv holds at every step of the files.
THEOREM ExportInvariant == BothSpec => []ExportInv
<1>1. BothInit => ExportInv
  BY ExportInit DEF BothInit
<1>2. ExportInv /\ [BothNext]_<<vars, filesSide, part>> => ExportInv'
  <2> SUFFICES ASSUME ExportInv, [BothNext]_<<vars, filesSide, part>> PROVE ExportInv'
    OBVIOUS
  <2>1. [Files!Next]_filesSide
    BY DEF BothNext
  <2> QED
    BY <2>1, ExportNext
<1> QED
  BY <1>1, <1>2, PTL DEF BothSpec

\* Attempts of one workbook or archive that overlap, are given up as stuck or die end as
\* one: the file of a finished row is there until it expires, and the requester is told
\* once (as long as no commit's answer is lost, which the code does not provide for).
THEOREM FinishedFilesStay == ASSUME ~LoseAnswers PROVE BothSpec => []FinishedOnce
<1>1. ExportInv => FinishedOnce
  BY ExportOutcome DEF FinishedOnce
<1> QED
  BY <1>1, ExportInvariant, PTL

\* An archive that is handed out shows nobody of a store the requester does not manage
\* now, of one that closed, or without consent, whatever changed and changed back since it
\* was asked for.  A workbook that is handed out shows the stores managed now, unless they
\* changed between the reading of the fingerprint and the making of the file: the code
\* then hands out the file of other stores once the stores are changed back.
THEOREM DownloadsStayInScope == BothSpec => []HandedOutWithinScope
<1>1. ExportInv => HandedOutWithinScope
  BY ExportOutcome DEF HandedOutWithinScope
<1> QED
  BY <1>1, ExportInvariant, PTL
=============================================================================
