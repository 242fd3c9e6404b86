------------------------- MODULE MCContractDelivery -------------------------
(* Small instances of ContractDelivery for TLC. *)
EXTENDS ContractDelivery, TLC

Interchangeable ==
  Permutations(Staff) \union Permutations(Phones) \union Permutations(Contracts)

\* Bound of the people run: who leaves has one phone number to be written under, who
\* writes under two numbers keeps everybody.
UsedPhones == {ph \in Phones : account[ph] \/ \E s \in Staff : staff[s].phone = ph}
TwoPeopleOrLeavers ==
  \/ \A s \in Staff : staff[s].leave = "STAYS"
  \/ Cardinality(UsedPhones) <= 1
\* The third send of the people run is one that follows two settled ones, with
\* somebody on the way out: the one that hires them again.
OneSendAtATime == Cardinality(pending) <= 1 /\ lost = {} /\ lapsed = Never
RehireUnderOneNumber ==
  /\ Cardinality(UsedPhones) <= 1 /\ OneSendAtATime
  /\ \E s \in Staff : Joined(s) /\ staff[s].leave # "STAYS"
PeopleBound == (stamps <= 2 /\ TwoPeopleOrLeavers) \/ RehireUnderOneNumber
=============================================================================
