------------------------------ MODULE MenuTree ------------------------------
(***************************************************************************)
(* What the menu administration promises of the order of menus: every menu *)
(* stands at one place under a service or another menu, a new one comes    *)
(* last, and moving one takes what is below it along and leaves the order  *)
(* of all others as it was.                                                *)
(***************************************************************************)
EXTENDS Naturals, Sequences, SequencesExt

CONSTANTS Menus, Services, MaxDepth

VARIABLE below   \* the menus directly under a service or a menu, in order

Places == Menus \cup Services
Shown == UNION {ToSet(below[p]) : p \in Places}
Above(m) == CHOOSE p \in Places : m \in ToSet(below[p])

\* The menus of each level under a place, itself excluded.
Under[p \in Places] == ToSet(below[p]) \cup UNION {Under[m] : m \in ToSet(below[p])}
Level[p \in Places] == IF p \in Services THEN 0 ELSE 1 + Level[Above(p)]
ServiceOf[p \in Places] == IF p \in Services THEN p ELSE ServiceOf[Above(p)]

Add(m, p) ==
    /\ below' = [below EXCEPT ![p] = Append(@, m)]
    /\ m \notin Shown /\ p \in Services \cup Shown /\ Level[p] < MaxDepth

Without(m) == [p \in Places |-> SelectSeq(below[p], LAMBDA n : n # m)]
MayMove(m, p) ==
    /\ m \in Shown /\ p \in Services \cup Shown
    /\ ServiceOf[p] = ServiceOf[m] /\ p \notin Under[m] \cup {m}
    /\ \A n \in Under[m] \cup {m} : Level[n] - Level[m] + Level[p] + 1 <= MaxDepth
Move(m, p) ==
    LET others == Without(m) IN
    /\ \E i \in 1..(Len(others[p]) + 1) :
          below' = [others EXCEPT ![p] = InsertAt(@, i, m)]
    /\ MayMove(m, p)

\* Every menu at one place, and reached from a service.
Init ==
    /\ below \in [Places -> UNION {[1..n -> Menus] : n \in 0..3}]
    /\ \A p \in Places : IsInjective(below[p])
    /\ \A p, q \in Places : p # q => ToSet(below[p]) \cap ToSet(below[q]) = {}
    /\ UNION {Under[s] : s \in Services} = Shown
    /\ \A m \in Shown : Level[m] <= MaxDepth

\* What is edited stays where it is.
Edit == UNCHANGED below

\* m is the menu that stands under p afterwards.
Next == Edit \/ \E p \in Places : \E m \in ToSet(below'[p]) : Add(m, p) \/ Move(m, p)
Spec == Init /\ [][Next]_below
=============================================================================
