-------------------------- MODULE MCSendsAndCodes --------------------------
(***************************************************************************)
(* The sends of one contract to two phone numbers (ContractDelivery), the  *)
(* codes entered for one number (InvitationCode) and the files of one      *)
(* contract (ContractPapers), side by side: part says which of them a      *)
(* behaviour is about, the others stand still.                             *)
(***************************************************************************)
EXTENDS MCContractDelivery

CONSTANTS Records, MaxFailed, LockTime, MaxRows, MaxSends, MaxTime,
          Makers, MaxStore, MaxKeys
VARIABLES attempts, lastId, sends, sendsIssued, link, now,
          agreement, before, store, late, docs, files, maker, signing, paper, purge, part

Code == INSTANCE InvitationCode WITH issued <- sendsIssued
codeSide == <<attempts, lastId, sends, sendsIssued, link, now>>

Papers == INSTANCE ContractPapers WITH contract <- agreement
papersSide ==
  <<agreement, before, store, late, docs, files, maker, signing, paper, purge>>

PartsInit ==
  /\ part \in {"delivery", "code", "papers"} /\ Init /\ Code!Init /\ Papers!Init
  /\ part # "papers" => agreement.st = "DRAFT"
PartsNext ==
  /\ UNCHANGED part
  /\ \/ part = "delivery" /\ Next /\ UNCHANGED <<codeSide, papersSide>>
     \/ part = "code" /\ Code!Next /\ UNCHANGED <<vars, papersSide>>
     \/ part = "papers" /\ Papers!Next /\ UNCHANGED <<vars, codeSide>>
PartsSpec == PartsInit /\ [][PartsNext]_<<vars, codeSide, papersSide, part>>

\* InvitationCode's properties, under names of this module.
ReceivedCodeWorks == Code!ReceivedCodeWorks
ImplementsThrottle == Code!ImplementsThrottle
RowsAndFiles == Papers!RowsAndFiles
PapersTellWhatWasAgreed == Papers!PapersTellWhatWasAgreed

\* What the proofs use of the values.
ASSUME CodeConstants ==
  MaxRows \in Nat /\ MaxSends \in Nat /\ MaxFailed \in Nat /\ LockTime \in Nat

ASSUME PapersConstants == MaxKeys \in Nat /\ MaxSends \in Nat

\* Bound: the store changes while papers are made, and two papers are made at a time,
\* of a contract that is signed and was sent once; else one or the other.  The purge
\* meets papers in the making, but no signing: that was three years ago.
Busy == Cardinality({m \in Makers : maker[m].stage # "idle"})
PapersBound ==
  /\ Busy + store <= 2 \/ (agreement.st = "SIGNED" /\ agreement.terms = 1)
  /\ purge.stage # "idle" => signing.stage \in {"idle", "done"}

\* Phones, records and makers of different parts are the same model values.
Alike == Permutations(Phones)
=============================================================================
