------------------------------ MODULE RowLocks ------------------------------
(***************************************************************************)
(* The locks PostgreSQL grants to transactions in progress: row locks in   *)
(* their four modes and advisory locks, held until the transaction ends.   *)
(* Modules that model requests lock by lock extend this one and keep in tx *)
(* what each request holds and what it still wants, in order.              *)
(***************************************************************************)
EXTENDS Integers, FiniteSetsExt, SequencesExt

CONSTANT Requests   \* requests in progress at the same time
VARIABLE tx         \* request -> at least the locks it holds (held) and wants (want)

Lock(row, mode) == [row |-> row, mode |-> mode]
\* One lock for each of the records rs, in the order of their ids.
LocksOn(rs, row(_), mode) ==
    [i \in 1..Cardinality(rs) |->
        Lock(row(CHOOSE r \in rs : Cardinality({x \in rs : x <= r}) = i), mode)]

\* The modes each mode excludes; the last two are those of advisory locks.
Excludes(mode) ==
    CASE mode = "KEY SHARE"     -> {"UPDATE"}
      [] mode = "SHARE"         -> {"NO KEY UPDATE", "UPDATE"}
      [] mode = "NO KEY UPDATE" -> {"SHARE", "NO KEY UPDATE", "UPDATE"}
      [] mode = "UPDATE"        -> {"KEY SHARE", "SHARE", "NO KEY UPDATE", "UPDATE"}
      [] mode = "SHARED"        -> {"EXCLUSIVE"}
      [] mode = "EXCLUSIVE"     -> {"SHARED", "EXCLUSIVE"}
Conflict(a, b) == a.row = b.row /\ b.mode \in Excludes(a.mode)

\* Whoever holds what request q wants next.
Blockers(q) ==
    IF tx[q].want = <<>> THEN {}
    ELSE {p \in Requests \ {q} : \E l \in tx[p].held : Conflict(Head(tx[q].want), l)}
\* A statement that commits on its own only waits for the locks of others.
Free(row, mode) == \A p \in Requests : \A l \in tx[p].held : ~Conflict(Lock(row, mode), l)
Granted(q) == tx[q].held \cup {Head(tx[q].want)}
Holds(q, row) == \E l \in tx[q].held : l.row = row

(* Circles: requests each of which waits for another one of them. *)
Stuck(C) == C # {} /\ \A q \in C : Blockers(q) \cap C # {}
Circles == {C \in SUBSET Requests : Stuck(C) /\ \A D \in SUBSET C : Stuck(D) => D = C}
=============================================================================
