------------------------- MODULE MCOffersAndPapers -------------------------
(***************************************************************************)
(* What has to happen in the end, of the offers of a contract              *)
(* (ContractDelivery) and of the copy of a signed one (ContractPapers):    *)
(* part says which of them a behaviour is about, the other stands still.   *)
(***************************************************************************)
EXTENDS MCContractDelivery

CONSTANTS Makers, MaxSends, MaxStore, MaxKeys
VARIABLES agreement, before, store, late, docs, files, maker, signing, paper, purge, part

Papers == INSTANCE ContractPapers WITH contract <- agreement
papersSide ==
  <<agreement, before, store, late, docs, files, maker, signing, paper, purge>>

PartsInit ==
  /\ part \in {"delivery", "papers"} /\ Init /\ Papers!Init
  /\ part # "papers" => agreement.st = "DRAFT"
PartsNext ==
  /\ UNCHANGED part
  /\ \/ part = "delivery" /\ Next /\ UNCHANGED papersSide
     \/ part = "papers" /\ Papers!Next /\ UNCHANGED vars
\* Nothing that is fair is enabled in the part that stands still.
PartsSpec ==
  PartsInit /\ [][PartsNext]_<<vars, papersSide, part>> /\ Fairness /\ Papers!Fairness

\* ContractPapers's property, under a name of this module.
SignedGetsItsCopy == Papers!SignedGetsItsCopy
=============================================================================
