------------------------ MODULE MCClosingsAndExports ------------------------
(***************************************************************************)
(* A store that closes, or the files made in the background, side by side: *)
(* part says which of them a behaviour is about.                           *)
(***************************************************************************)
EXTENDS StoreClosing, TLC

CONSTANTS Workers, Callers, Kinds, Stores, MaxJobs, MaxTime, LoseAnswers
VARIABLES now, scope, hidden, jobs, content, mails, desk, worker, part

Files == INSTANCE ExportJobs
filesSide == <<now, scope, hidden, jobs, content, mails, desk, worker>>

\* What the proofs use of the values.
ASSUME ExportConstants == MaxJobs \in Nat /\ Kinds \subseteq {"bulk", "excel", "direct"}

\* Bound: PartsShown, the components whose behaviours are enumerated.
CONSTANT PartsShown
BothInit ==
    /\ part \in PartsShown /\ Init /\ Files!Init
    /\ IF part = "files" THEN status = "OPERATING" ELSE scope = {} /\ hidden = {}
BothNext ==
    /\ UNCHANGED part
    /\ \/ part = "closing" /\ Next /\ UNCHANGED filesSide
       \/ part = "files" /\ Files!Next /\ UNCHANGED vars
BothSpec == BothInit /\ [][BothNext]_<<vars, filesSide, part>>

\* ExportJobs's properties, under names of this module.
FinishedHasItsFile == Files!FinishedHasItsFile
FinishedOnce == Files!FinishedOnce
HandedOutWithinScope == Files!HandedOutWithinScope

Symmetry == Permutations(Requests) \cup Permutations(Workers)
=============================================================================
