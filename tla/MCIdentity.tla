----------------------------- MODULE MCIdentity -----------------------------
(***************************************************************************)
(* The two kinds of account, worker and administrator, side by side: part  *)
(* says which of them a behaviour is about, the other one stands still.    *)
(***************************************************************************)
EXTENDS AccountSignIn, TLC

CONSTANTS Callers, MaxPerHour, MaxTemps, MaxOwn, MaxEmail, MaxOpened
VARIABLES own, required, unsent, barred, status, address, temps, opened, token, call, part

Admin == INSTANCE AdminSignIn
adminSide == <<own, required, unsent, barred, status, address, temps, opened, token, call>>

BothInit ==
    /\ part \in {"account", "admin"} /\ Init /\ Admin!Init
    /\ part = "account" => own = 1 /\ token /\ status = "ACTIVE"
BothNext ==
    /\ UNCHANGED part
    /\ \/ part = "account" /\ Next /\ UNCHANGED adminSide
       \/ part = "admin" /\ Admin!Next /\ UNCHANGED vars
BothSpec == BothInit /\ [][BothNext]_<<vars, adminSide, part>>

\* AdminSignIn's property, under a name of this module.
TemporariesMatchTheirMail == Admin!TemporariesMatchTheirMail

Symmetry == Permutations(Clients) \cup Permutations(Callers)

\* Bound: at most MaxEvents secrets, sessions, changes and expiries of an account.
MaxEvents == 3
Expired == {i \in DOMAIN issued : issued[i].age = "expired"}
Bound ==
    /\ Len(issued) + Len(sessions) + password + email + (IF withdrawn THEN 1 ELSE 0)
          + Cardinality(Expired) <= MaxEvents
    /\ \A i \in DOMAIN issued : issued[i].age # "old"
    /\ Len(temps) + Len(opened) + address + (own \div 2) + (IF status = "gone" THEN 1 ELSE 0) <= MaxEvents
=============================================================================
