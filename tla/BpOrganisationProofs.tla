------------------------- MODULE BpOrganisationProofs -------------------------
(***************************************************************************)
(* Theorems about MCOrganisation: about the administrators of a business   *)
(* partner (BpOrganisation), for any number of masters, franchise admins,  *)
(* stores, role groups and requests under way, and about those of the      *)
(* platform (PlatformAdmins), for any number of accounts, role groups and  *)
(* requests, about what role groups may do (MenuRights), for any number of *)
(* them and of menus, and about the menu tree (PlatformMenus), for any     *)
(* menus and any number of screens that edit it.                           *)
(***************************************************************************)
EXTENDS MCOrganisation, FiniteSetTheorems, NaturalsInduction, WellFoundedInduction, TLAPS

-----------------------------------------------------------------------------
(* The inductive invariant: the safety properties, and what a request that *)
(* is under way may rely on because of the locks it holds.                 *)

\* An account that was never saved holds nothing.
UnknownIsBlank ==
    \A a \in Accounts : ~Known(a) => account[a].stores = {} /\ account[a].group = NoGroup

\* Whoever saves an account as active holds the row of an active BP.
ActiveSavesFit ==
    \A c \in Savers : HoldsBp(c) /\ save[c].state = "ACTIVE" => bp = "ACTIVE"

\* A franchise admin that nobody wrote since it was read is of the saver's team.
AdminSavesFit ==
    \A c \in Savers : save[c].op = "admin" =>
        /\ ManagerOf[save[c].group] = save[c].master
        /\ save[c].current /\ Known(save[c].who) => MasterOf(save[c].who) = save[c].master

\* The groups a removal has locked, and who it read in the one that goes.
RemovalFits(r) ==
    /\ r.who \in groups
    /\ r.into = NoGroup => r.members = {}
    /\ r.into # NoGroup => /\ r.into \in groups /\ r.into # r.who
                           /\ ManagerOf[r.into] = ManagerOf[r.who]
    /\ \A f \in r.members : Known(f) /\ MasterOf(f) = ManagerOf[r.who]
    /\ \A f \in Admins : account[f].group = r.who => f \in r.members
Apart(r, q) == r.who # q.who /\ r.who # q.into /\ r.into # q.who
               /\ (r.into = q.into => r.into = NoGroup)
RemovalsFit ==
    \A c \in Savers : save[c].op = "group" =>
        /\ RemovalFits(save[c])
        /\ \A d \in Savers : d # c /\ save[d].op = "group" => Apart(save[c], save[d])

OrgInv ==
    /\ TypeOK /\ OneMasterPerStore /\ TeamWithinMaster /\ GroupsAlive /\ ActiveOnlyInActiveBp
    /\ UnknownIsBlank /\ ActiveSavesFit /\ AdminSavesFit /\ RemovalsFit

-----------------------------------------------------------------------------
(* Requests                                                                *)

\* What a request is about is told by its op.
LEMMA OpTells ==
  ASSUME NEW r \in Saves
  PROVE  /\ r.op = "master" => r \in MasterSave
         /\ r.op = "admin" => r \in AdminSave
         /\ r.op = "group" => r \in GroupRemoval
         /\ r.op = "bp" => r \in BpEdit
         /\ r.op = "store" => r \in StoreEdit
BY DEF Saves, Idle, MasterSave, AdminSave, GroupRemoval, BpEdit, StoreEdit

\* n is what has become of the request r: it has ended, or is out of date.
Descends(r, n) ==
    \/ n.op = "idle"
    \/ /\ n.op = r.op
       /\ r.op \in {"master", "admin"} =>
             n.who = r.who /\ n.state = r.state /\ (n.current => r.current)
       /\ r.op = "admin" => n.master = r.master /\ n.group = r.group
       /\ r.op = "group" => n = r

\* Taking a request out of date changes nothing but its mark.
LEMMA OutdatedOne ==
  ASSUME TypeOK, NEW some, NEW c \in Savers
  PROVE  /\ Outdated(some)[c] \in Saves
         /\ Descends(save[c], Outdated(some)[c])
         /\ save[c].op \in {"master", "admin"} /\ save[c].who \in some
               => ~Outdated(some)[c].current
<1> DEFINE r == save[c]
           n == Outdated(some)[c]
<1>1. r \in Saves
  BY DEF TypeOK
<1>2. n = IF r.op \in {"master", "admin"} /\ r.who \in some
          THEN [r EXCEPT !.current = FALSE] ELSE r
  BY DEF Outdated
<1>3. CASE r.op = "master"
  <2>1. r \in MasterSave
    BY <1>1, <1>3, OpTells
  <2>2. [r EXCEPT !.current = FALSE] \in MasterSave
    BY <2>1 DEF MasterSave
  <2> QED
    BY <1>2, <1>3, <2>1, <2>2 DEF MasterSave, Saves, Descends
<1>4. CASE r.op = "admin"
  <2>1. r \in AdminSave
    BY <1>1, <1>4, OpTells
  <2>2. [r EXCEPT !.current = FALSE] \in AdminSave
    BY <2>1 DEF AdminSave
  <2> QED
    BY <1>2, <1>4, <2>1, <2>2 DEF AdminSave, Saves, Descends
<1>5. CASE r.op \notin {"master", "admin"}
  BY <1>1, <1>2, <1>5 DEF Descends
<1> QED
  BY <1>3, <1>4, <1>5

\* What the requests have become, and which accounts were written.
Continues(some) ==
    /\ save' \in [Savers -> Saves]
    /\ \A c \in Savers :
          /\ Descends(save[c], save'[c])
          /\ save'[c].op \in {"master", "admin"} /\ save'[c].current => save'[c].who \notin some

LEMMA OutdateContinues ==
  ASSUME TypeOK, NEW some, Outdate(some)
  PROVE  Continues(some)
<1>1. save' = Outdated(some) /\ Outdated(some) = [c \in Savers |-> Outdated(some)[c]]
  BY DEF Outdate, Outdated
<1>2. \A c \in Savers : save'[c].op \in {"master", "admin"} =>
          save[c].op \in {"master", "admin"} /\ save'[c].who = save[c].who
  BY <1>1, OutdatedOne DEF Descends
<1> QED
  BY <1>1, <1>2, OutdatedOne DEF Continues

LEMMA FinishContinues ==
  ASSUME TypeOK, NEW c \in Savers, NEW some, Finish(c, some)
  PROVE  Continues(some) /\ save'[c] = Idle
<1>1. save' = [Outdated(some) EXCEPT ![c] = Idle]
      /\ Outdated(some) = [d \in Savers |-> Outdated(some)[d]]
  BY DEF Finish, Outdated
<1>2. Idle \in Saves /\ Idle.op = "idle"
  BY DEF Saves, Idle
<1>3. save'[c] = Idle /\ \A d \in Savers \ {c} : save'[d] = Outdated(some)[d]
  BY <1>1
<1>4. save' \in [Savers -> Saves]
  BY <1>1, <1>2, OutdatedOne
<1>5. ASSUME NEW d \in Savers
      PROVE  /\ Descends(save[d], save'[d])
             /\ save'[d].op \in {"master", "admin"} /\ save'[d].current
                   => save'[d].who \notin some
  <2>1. CASE d = c
    BY <1>2, <1>3, <2>1 DEF Descends
  <2>2. CASE d # c
    <3>1. save'[d] = Outdated(some)[d]
      BY <1>3, <2>2
    <3>2. Descends(save[d], save'[d])
      BY <3>1, OutdatedOne
    <3>3. save'[d].op \in {"master", "admin"} =>
              save[d].op \in {"master", "admin"} /\ save'[d].who = save[d].who
      BY <3>2 DEF Descends
    <3> QED
      BY <3>1, <3>2, <3>3, OutdatedOne
  <2> QED
    BY <2>1, <2>2
<1> QED
  BY <1>3, <1>4, <1>5 DEF Continues

\* A request that has just begun, and fits, takes nothing from the others.
LEMMA BeginKeeps ==
  ASSUME OrgInv, NEW c \in Savers, NEW r \in Saves, Begin(c, r),
         UNCHANGED <<bp, account, store, groups, personal>>,
         r.op \in {"master", "admin"} /\ r.state = "ACTIVE" => bp = "ACTIVE",
         r.op = "admin" => /\ ManagerOf[r.group] = r.master
                           /\ Known(r.who) => MasterOf(r.who) = r.master,
         r.op = "group" => /\ RemovalFits(r)
                           /\ \A d \in Savers : save[d].op = "group" => Apart(r, save[d])
  PROVE  OrgInv'
<1>1. save' \in [Savers -> Saves] /\ save'[c] = r /\ \A d \in Savers \ {c} : save'[d] = save[d]
  BY DEF OrgInv, TypeOK, Begin
<1>2. TypeOK'
  BY <1>1 DEF OrgInv, TypeOK
<1>3. /\ OneMasterPerStore' /\ TeamWithinMaster' /\ GroupsAlive' /\ ActiveOnlyInActiveBp'
      /\ UnknownIsBlank'
  BY DEF OrgInv, OneMasterPerStore, TeamWithinMaster, GroupsAlive, ActiveOnlyInActiveBp,
         UnknownIsBlank, Known, Active, MasterOf
<1>4. ActiveSavesFit'
  BY <1>1 DEF OrgInv, ActiveSavesFit, HoldsBp
<1>5. AdminSavesFit'
  BY <1>1 DEF OrgInv, AdminSavesFit, Known, MasterOf
<1>6. RemovalsFit'
  <2> SUFFICES ASSUME NEW d \in Savers, save'[d].op = "group"
               PROVE  /\ RemovalFits(save[d])'
                      /\ \A e \in Savers : e # d /\ save'[e].op = "group" => Apart(save'[d], save'[e])
    BY DEF RemovalsFit
  <2>1. RemovalFits(save'[d])
    BY <1>1 DEF OrgInv, RemovalsFit
  <2>2. RemovalFits(save[d])'
    BY <2>1 DEF RemovalFits, Known, MasterOf
  <2>3. ASSUME NEW e \in Savers, e # d, save'[e].op = "group"
        PROVE  Apart(save'[d], save'[e])
    BY <1>1, <2>3 DEF OrgInv, RemovalsFit, Apart
  <2> QED
    BY <2>2, <2>3
<1> QED
  BY <1>2, <1>3, <1>4, <1>5, <1>6 DEF OrgInv

\* Requests that go on fit still when who is in which group stays as it is.
LEMMA SameTeams ==
  ASSUME OrgInv, NEW some, Continues(some), groups' = groups, bp' = bp \/ BpIsFree,
         \A f \in Admins : account'[f].group = account[f].group /\ (Known(f)' <=> Known(f))
  PROVE  GroupsAlive' /\ ActiveSavesFit' /\ AdminSavesFit' /\ RemovalsFit'
<1>1. GroupsAlive'
  BY DEF OrgInv, GroupsAlive
<1>2. ActiveSavesFit'
  BY DEF OrgInv, ActiveSavesFit, HoldsBp, BpIsFree, Continues, Descends
<1>3. AdminSavesFit'
  <2> SUFFICES ASSUME NEW c \in Savers, save'[c].op = "admin"
               PROVE  /\ ManagerOf[save'[c].group] = save'[c].master
                      /\ save'[c].current /\ Known(save[c].who)' =>
                            MasterOf(save[c].who)' = save'[c].master
    BY DEF AdminSavesFit
  <2>1. /\ save[c].op = "admin" /\ save'[c].who = save[c].who
        /\ save'[c].master = save[c].master /\ save'[c].group = save[c].group
        /\ save'[c].current => save[c].current
    BY DEF Continues, Descends
  <2>2. save[c].who \in Admins
    BY <2>1, OpTells DEF OrgInv, TypeOK, AdminSave
  <2>3. Known(save[c].who)' => Known(save[c].who)
    BY <2>1, <2>2 DEF Known
  <2>4. MasterOf(save[c].who)' = MasterOf(save[c].who)
    BY <2>1, <2>2 DEF MasterOf
  <2> QED
    BY <2>1, <2>3, <2>4 DEF OrgInv, AdminSavesFit
<1>4. RemovalsFit'
  <2> SUFFICES ASSUME NEW c \in Savers, save'[c].op = "group"
               PROVE  /\ RemovalFits(save[c])'
                      /\ \A d \in Savers : d # c /\ save'[d].op = "group" => Apart(save'[c], save'[d])
    BY DEF RemovalsFit
  <2>1. \A d \in Savers : save'[d].op = "group" => save[d].op = "group" /\ save'[d] = save[d]
    BY DEF Continues, Descends
  <2>2. RemovalFits(save'[c])
    BY <2>1 DEF OrgInv, RemovalsFit
  <2>3. save'[c].members \subseteq Admins
    BY <2>1, OpTells DEF OrgInv, TypeOK, GroupRemoval
  <2>4. RemovalFits(save[c])'
    BY <2>2, <2>3 DEF RemovalFits, MasterOf
  <2>5. ASSUME NEW d \in Savers, d # c, save'[d].op = "group"
        PROVE  Apart(save'[c], save'[d])
    BY <2>1, <2>5 DEF OrgInv, RemovalsFit
  <2> QED
    BY <2>4, <2>5
<1> QED
  BY <1>1, <1>2, <1>3, <1>4

\* What does not touch the accounts keeps everything that is said about them.
LEMMA SameAccounts ==
  ASSUME OrgInv, NEW some, Continues(some), account' = account, groups' = groups,
         bp' = bp \/ (BpIsFree /\ \A a \in Accounts : ~Active(a)),
         TypeOK'
  PROVE  OrgInv'
<1>1. /\ OneMasterPerStore' /\ TeamWithinMaster' /\ ActiveOnlyInActiveBp' /\ UnknownIsBlank'
  BY DEF OrgInv, OneMasterPerStore, TeamWithinMaster, ActiveOnlyInActiveBp, UnknownIsBlank,
         Known, Active, MasterOf
<1>2. GroupsAlive' /\ ActiveSavesFit' /\ AdminSavesFit' /\ RemovalsFit'
  BY SameTeams DEF Known
<1> QED
  BY <1>1, <1>2 DEF OrgInv

\* Taking accounts out of use, all that are in use, is always safe.
LEMMA AllDown ==
  ASSUME OrgInv, NEW some, Continues(some), BpIsFree, groups' = groups,
         account' = [a \in Accounts |-> Down(a)], TypeOK'
  PROVE  OrgInv'
<1>1. \A a \in Accounts : /\ ~Active(a)' /\ (Known(a)' <=> Known(a))
                          /\ account'[a].stores = account[a].stores
                          /\ account'[a].group = account[a].group
  <2> SUFFICES ASSUME NEW a \in Accounts
               PROVE  /\ ~Active(a)' /\ (Known(a)' <=> Known(a))
                      /\ account'[a].stores = account[a].stores
                      /\ account'[a].group = account[a].group
    OBVIOUS
  <2>1. account[a] \in Account /\ account'[a] = Down(a)
    BY DEF OrgInv, TypeOK
  <2> QED
    BY <2>1 DEF Down, Active, Known, Account
<1>2. \A m \in Masters : m \in Accounts
  BY DEF Accounts
<1>3. OneMasterPerStore' /\ ActiveOnlyInActiveBp' /\ UnknownIsBlank'
  BY <1>1, <1>2 DEF OrgInv, OneMasterPerStore, ActiveOnlyInActiveBp, UnknownIsBlank
<1>4. TeamWithinMaster'
  <2> SUFFICES ASSUME NEW f \in Admins, Known(f)'
               PROVE  /\ account'[f].stores \subseteq account'[MasterOf(f)'].stores
                      /\ Active(f)' => Active(MasterOf(f))'
    BY DEF TeamWithinMaster
  <2>1. f \in Accounts /\ Known(f) /\ MasterOf(f)' = MasterOf(f)
    BY <1>1 DEF Accounts, MasterOf
  <2>2. MasterOf(f) \in Accounts
    BY <2>1, OrganisationConstants DEF OrgInv, GroupsAlive, TypeOK, MasterOf, Accounts
  <2> QED
    BY <1>1, <2>1, <2>2 DEF OrgInv, TeamWithinMaster
<1>5. GroupsAlive' /\ ActiveSavesFit' /\ AdminSavesFit' /\ RemovalsFit'
  BY <1>1, SameTeams DEF Accounts
<1> QED
  BY <1>3, <1>4, <1>5 DEF OrgInv

-----------------------------------------------------------------------------
(* Saves of accounts                                                       *)

LEMMA BeginMasterKeeps ==
  ASSUME OrgInv, NEW c \in Savers, NEW m \in Masters, BeginMaster(c, m)
  PROVE  OrgInv'
<1>1. PICK state \in States, asked \in SUBSET Stores :
        /\ MaySave(state)
        /\ Begin(c, [op |-> "master", who |-> m, state |-> state, current |-> TRUE,
                     stores |-> Plan(account[m].stores, asked, AllStores)])
        /\ UNCHANGED <<bp, account, store, groups, personal>>
  BY DEF BeginMaster, States
<1> DEFINE r == [op |-> "master", who |-> m, state |-> state, current |-> TRUE,
                 stores |-> Plan(account[m].stores, asked, AllStores)]
<1>2. account[m].stores \subseteq Stores
  BY DEF OrgInv, TypeOK, Accounts, Account
<1>3. r \in Saves
  BY <1>2 DEF Saves, MasterSave, Plan
<1>4. r.state = "ACTIVE" => bp = "ACTIVE"
  BY <1>1 DEF MaySave
<1> QED
  BY <1>1, <1>3, <1>4, BeginKeeps

LEMMA BeginAdminKeeps ==
  ASSUME OrgInv, NEW c \in Savers, NEW f \in Admins, BeginAdmin(c, f)
  PROVE  OrgInv'
<1>1. PICK m \in Masters, g \in groups, state \in States, asked \in SUBSET Stores :
        /\ ManagerOf[g] = m /\ MaySave(state)
        /\ Known(f) => MasterOf(f) = m
        /\ Begin(c, [op |-> "admin", who |-> f, master |-> m, group |-> g, state |-> state,
                     asked |-> asked, current |-> TRUE])
        /\ UNCHANGED <<bp, account, store, groups, personal>>
  BY DEF BeginAdmin, States
<1> DEFINE r == [op |-> "admin", who |-> f, master |-> m, group |-> g, state |-> state,
                 asked |-> asked, current |-> TRUE]
<1>2. g \in Groups
  BY DEF OrgInv, TypeOK
<1>3. r \in Saves
  BY <1>2 DEF Saves, AdminSave
<1>4. r.state = "ACTIVE" => bp = "ACTIVE"
  BY <1>1 DEF MaySave
<1> QED
  BY <1>1, <1>3, <1>4, BeginKeeps

LEMMA SaveMasterKeeps ==
  ASSUME OrgInv, NEW c \in Savers, SaveMaster(c)
  PROVE  OrgInv'
<1>0. PICK r \in MasterSave : r = save[c]
  BY OpTells DEF OrgInv, TypeOK, SaveMaster, Doing
<1> DEFINE m == r.who
           lost == account[m].stores \ r.stores
<1>1. r \in MasterSave /\ m \in Masters /\ m \in Accounts /\ m \notin Admins
  BY OrganisationConstants DEF MasterSave, Accounts
<1>2. /\ account' = [a \in Accounts |->
             IF a = m THEN [account[m] EXCEPT !.state = r.state, !.stores = r.stores]
             ELSE IF a \in Admins THEN Cascade(m, r, a) ELSE account[a]]
      /\ personal' = personal \cup {m} /\ UNCHANGED <<bp, store, groups>>
      /\ r.state = "ACTIVE" => HeldElsewhere(m, r) = {}
  BY <1>0 DEF SaveMaster
<1>3. PICK some : Finish(c, some)
  BY DEF SaveMaster
<1>4. Continues(some)
  BY <1>3, FinishContinues DEF OrgInv
<1>5. \A a \in Accounts : account[a] \in Account
  BY DEF OrgInv, TypeOK
<1>6. /\ account'[m] \in Account /\ account'[m].state = r.state
      /\ account'[m].stores = r.stores /\ account'[m].group = account[m].group
  BY <1>1, <1>2, <1>5 DEF Account, MasterSave, States
<1>7. \A o \in Masters \ {m} : account'[o] = account[o]
  BY <1>2, OrganisationConstants DEF Accounts
<1>8. ASSUME NEW f \in Admins
      PROVE  /\ account'[f] \in Account /\ account'[f].group = account[f].group
             /\ Known(f)' <=> Known(f)
             /\ Active(f)' => Active(f)
             /\ account'[f].stores \subseteq account[f].stores
             /\ f \in Team(m) => account'[f].stores \cap lost = {}
             /\ f \in Team(m) /\ r.state = "INACTIVE" /\ Active(m) => ~Active(f)'
  <2>1. account[f] \in Account /\ account'[f] = Cascade(m, r, f)
    BY <1>1, <1>2, <1>5 DEF Accounts
  <2>2. CASE f \notin Team(m)
    <3>1. account'[f] = account[f]
      BY <2>1, <2>2 DEF Cascade
    <3> QED
      BY <2>1, <2>2, <3>1 DEF Known, Active
  <2>3. CASE f \in Team(m)
    <3>1. account'[f] = [account[f] EXCEPT
             !.stores = @ \ lost,
             !.state = IF r.state = "INACTIVE" /\ Active(m) THEN "INACTIVE" ELSE @]
      BY <2>1, <2>3 DEF Cascade
    <3>2. Known(f)
      BY <2>3 DEF Team
    <3> QED
      BY <2>1, <3>1, <3>2 DEF Account, Known, Active
  <2> QED
    BY <2>2, <2>3
<1>9. TypeOK'
  <2>1. account' \in [Accounts -> Account]
    BY <1>2, <1>5, <1>6, <1>7, <1>8 DEF Accounts
  <2> QED
    BY <1>1, <1>2, <1>4, <2>1 DEF OrgInv, TypeOK, Continues
<1>10. OneMasterPerStore'
  <2>1. ASSUME NEW o \in Masters \ {m}, Active(m)', Active(o)'
        PROVE  account'[m].stores \cap account'[o].stores = {}
    <3>1. r.state = "ACTIVE" /\ Active(o) /\ account'[o] = account[o]
      BY <1>6, <1>7, <2>1 DEF Active
    <3>2. HeldElsewhere(m, r) = {}
      BY <1>2, <3>1
    <3>3. CASE ~Active(m)
      BY <1>6, <3>1, <3>2, <3>3 DEF HeldElsewhere
    <3>4. CASE Active(m)
      <4>1. account[m].stores \cap account[o].stores = {}
        BY <1>1, <3>1, <3>4 DEF OrgInv, OneMasterPerStore
      <4> QED
        BY <1>6, <3>1, <3>2, <3>4, <4>1 DEF HeldElsewhere
    <3> QED
      BY <3>3, <3>4
  <2> QED
    BY <1>7, <2>1 DEF OrgInv, OneMasterPerStore, Active
<1>11. TeamWithinMaster'
  <2> SUFFICES ASSUME NEW f \in Admins, Known(f)'
               PROVE  /\ account'[f].stores \subseteq account'[MasterOf(f)'].stores
                      /\ Active(f)' => Active(MasterOf(f))'
    BY DEF TeamWithinMaster
  <2>1. Known(f) /\ MasterOf(f)' = MasterOf(f) /\ MasterOf(f) \in Masters
    BY <1>8, OrganisationConstants DEF OrgInv, GroupsAlive, TypeOK, MasterOf
  <2>2. /\ account[f].stores \subseteq account[MasterOf(f)].stores
        /\ Active(f) => Active(MasterOf(f))
    BY <2>1 DEF OrgInv, TeamWithinMaster
  <2>3. CASE MasterOf(f) = m
    <3>1. f \in Team(m)
      BY <2>1, <2>3 DEF Team
    <3>2. account'[f].stores \subseteq r.stores
      BY <1>8, <2>2, <2>3, <3>1
    <3>3. Active(f)' => r.state = "ACTIVE"
      BY <1>1, <1>8, <2>2, <2>3, <3>1 DEF MasterSave, States
    <3> QED
      BY <1>6, <2>1, <2>3, <3>2, <3>3 DEF Active
  <2>4. CASE MasterOf(f) # m
    BY <1>7, <1>8, <2>1, <2>2, <2>4 DEF Active
  <2> QED
    BY <2>3, <2>4
<1>12. ActiveOnlyInActiveBp'
  <2>1. r.state = "ACTIVE" => bp = "ACTIVE"
    BY <1>0 DEF OrgInv, ActiveSavesFit, HoldsBp, SaveMaster, Doing
  <2> QED
    BY <1>2, <1>6, <1>7, <1>8, <2>1 DEF OrgInv, ActiveOnlyInActiveBp, Active, Accounts
<1>13. UnknownIsBlank'
  <2>1. Known(m)'
    BY <1>1, <1>6 DEF Known, MasterSave, States
  <2>2. \A o \in Masters \ {m} : ~Known(o)' => ~Known(o)
    BY <1>7 DEF Known
  <2> QED
    BY <1>7, <1>8, <2>1, <2>2 DEF OrgInv, UnknownIsBlank, Accounts
<1>14. GroupsAlive' /\ ActiveSavesFit' /\ AdminSavesFit' /\ RemovalsFit'
  BY <1>2, <1>4, <1>8, SameTeams
<1> QED
  BY <1>9, <1>10, <1>11, <1>12, <1>13, <1>14 DEF OrgInv

LEMMA SaveAdminKeeps ==
  ASSUME OrgInv, NEW c \in Savers, SaveAdmin(c)
  PROVE  OrgInv'
<1>0. PICK r \in AdminSave : r = save[c]
  BY OpTells DEF OrgInv, TypeOK, SaveAdmin, Doing
<1> DEFINE f == r.who
           m == r.master
           held == account[m].stores
           before == account[f].stores
           saved == [state |-> r.state, group |-> r.group, stores |-> Plan(before, r.asked, held)]
<1>1. /\ f \in Admins /\ f \in Accounts /\ m \in Masters /\ m \in Accounts /\ f \notin Masters
      /\ r.group \in Groups /\ r.state \in States /\ r.asked \subseteq Stores
  BY OrganisationConstants DEF AdminSave, Accounts
<1>2. /\ r.current /\ Active(m) /\ MayGive(before, r.asked, held)
      /\ r.group # account[f].group => GroupStays(r.group)
      /\ account' = [account EXCEPT ![f] = saved]
      /\ personal' = personal \cup {f} /\ UNCHANGED <<bp, store, groups>>
      /\ Finish(c, {f})
  BY <1>0 DEF SaveAdmin
<1>3. Continues({f})
  BY <1>2, FinishContinues DEF OrgInv
<1>4. \A a \in Accounts : account[a] \in Account
  BY DEF OrgInv, TypeOK
<1>5. account'[f] = saved /\ \A a \in Accounts \ {f} : account'[a] = account[a]
  BY <1>1, <1>2 DEF OrgInv, TypeOK
<1>6. ManagerOf[r.group] = m /\ (Known(f) => MasterOf(f) = m)
  BY <1>0, <1>2 DEF OrgInv, AdminSavesFit, SaveAdmin, Doing
<1>7. saved.stores \subseteq held /\ saved.stores \subseteq Stores
  <2>1. before \subseteq held
    <3>1. CASE Known(f)
      BY <1>1, <1>6, <3>1 DEF OrgInv, TeamWithinMaster
    <3>2. CASE ~Known(f)
      BY <1>1, <3>2 DEF OrgInv, UnknownIsBlank
    <3> QED
      BY <3>1, <3>2
  <2>2. r.asked \subseteq held /\ held \subseteq Stores
    BY <1>1, <1>2, <1>4 DEF MayGive, Account
  <2> QED
    BY <2>1, <2>2 DEF Plan
<1>8. r.group \in groups
  <2>1. CASE r.group # account[f].group
    BY <1>2, <2>1 DEF GroupStays
  <2>2. CASE r.group = account[f].group
    <3>1. Known(f)
      BY <1>1, <2>2, OrganisationConstants DEF OrgInv, UnknownIsBlank, NoGroup
    <3> QED
      BY <1>1, <2>2, <3>1 DEF OrgInv, GroupsAlive
  <2> QED
    BY <2>1, <2>2
<1>9. TypeOK'
  <2>1. saved \in Account
    BY <1>1, <1>7 DEF Account, States
  <2>2. account' \in [Accounts -> Account]
    BY <1>2, <1>4, <2>1 DEF OrgInv, TypeOK
  <2> QED
    BY <1>1, <1>2, <1>3, <2>2 DEF OrgInv, TypeOK, Continues
<1>10. OneMasterPerStore'
  BY <1>1, <1>5 DEF OrgInv, OneMasterPerStore, Active, Accounts
<1>11. MasterOf(f)' = m /\ \A a \in Admins \ {f} : MasterOf(a)' = MasterOf(a)
  BY <1>1, <1>5, <1>6 DEF MasterOf, Accounts
<1>12. TeamWithinMaster'
  <2> SUFFICES ASSUME NEW a \in Admins, Known(a)'
               PROVE  /\ account'[a].stores \subseteq account'[MasterOf(a)'].stores
                      /\ Active(a)' => Active(MasterOf(a))'
    BY DEF TeamWithinMaster
  <2>1. CASE a = f
    BY <1>1, <1>2, <1>5, <1>7, <1>11, <2>1 DEF Active
  <2>2. CASE a # f
    <3>1. Known(a) /\ account'[a] = account[a] /\ MasterOf(a)' = MasterOf(a)
      BY <1>5, <1>11, <2>2 DEF Known, Accounts
    <3>2. MasterOf(a) \in Masters
      BY <3>1, OrganisationConstants DEF OrgInv, GroupsAlive, TypeOK, MasterOf
    <3>3. account'[MasterOf(a)] = account[MasterOf(a)]
      BY <1>1, <1>5, <3>2 DEF Accounts
    <3> QED
      BY <3>1, <3>3 DEF OrgInv, TeamWithinMaster, Active
  <2> QED
    BY <2>1, <2>2
<1>13. GroupsAlive'
  BY <1>2, <1>5, <1>8 DEF OrgInv, GroupsAlive, Known, Accounts
<1>14. ActiveOnlyInActiveBp'
  <2>1. r.state = "ACTIVE" => bp = "ACTIVE"
    BY <1>0 DEF OrgInv, ActiveSavesFit, HoldsBp, SaveAdmin, Doing
  <2> QED
    BY <1>2, <1>5, <2>1 DEF OrgInv, ActiveOnlyInActiveBp, Active
<1>15. Known(f)' /\ \A a \in Accounts \ {f} : Known(a)' <=> Known(a)
  BY <1>1, <1>5 DEF Known, States
<1>16. UnknownIsBlank'
  BY <1>5, <1>15 DEF OrgInv, UnknownIsBlank
<1>17. ActiveSavesFit'
  BY <1>2, <1>3 DEF OrgInv, ActiveSavesFit, HoldsBp, Continues, Descends
<1>18. AdminSavesFit'
  <2> SUFFICES ASSUME NEW d \in Savers, save'[d].op = "admin"
               PROVE  /\ ManagerOf[save'[d].group] = save'[d].master
                      /\ save'[d].current /\ Known(save[d].who)' =>
                            MasterOf(save[d].who)' = save'[d].master
    BY <1>3 DEF AdminSavesFit, Continues, Descends
  <2>1. /\ save[d].op = "admin" /\ save'[d].who = save[d].who
        /\ save'[d].master = save[d].master /\ save'[d].group = save[d].group
        /\ save'[d].current => save[d].current /\ save[d].who # f
    BY <1>3 DEF Continues, Descends
  <2> SUFFICES ASSUME save'[d].current, Known(save[d].who)'
               PROVE  MasterOf(save[d].who)' = save'[d].master
    BY <2>1 DEF OrgInv, AdminSavesFit
  <2>2. PICK a \in Admins : a = save[d].who
    BY <2>1, OpTells DEF OrgInv, TypeOK, AdminSave
  <2>3. Known(a) /\ account'[a] = account[a]
    BY <1>5, <2>1, <2>2 DEF Known, Accounts
  <2>4. MasterOf(a) = save[d].master
    BY <2>1, <2>2, <2>3 DEF OrgInv, AdminSavesFit
  <2>5. account'[save[d].who] = account[save[d].who]
    BY <2>2, <2>3
  <2> QED
    BY <2>1, <2>2, <2>4, <2>5 DEF MasterOf
<1>19. RemovalsFit'
  <2> SUFFICES ASSUME NEW d \in Savers, save'[d].op = "group"
               PROVE  /\ RemovalFits(save[d])'
                      /\ \A e \in Savers : e # d /\ save'[e].op = "group" => Apart(save'[d], save'[e])
    BY <1>3 DEF RemovalsFit, Continues, Descends
  <2>1. \A e \in Savers : save'[e].op = "group" => save[e].op = "group" /\ save'[e] = save[e]
    BY <1>3 DEF Continues, Descends
  <2>2. PICK q \in GroupRemoval : q = save[d]
    BY <2>1, OpTells DEF OrgInv, TypeOK
  <2>3. RemovalFits(q) /\ q.members \subseteq Admins
    BY <2>1, <2>2 DEF OrgInv, RemovalsFit, GroupRemoval
  <2>4. ASSUME NEW a \in q.members
        PROVE  Known(a)' /\ MasterOf(a)' = ManagerOf[q.who]
    BY <1>6, <1>11, <1>15, <2>3, <2>4 DEF RemovalFits, Accounts
  <2>5. ASSUME NEW a \in Admins, account'[a].group = q.who
        PROVE  a \in q.members
    <3>1. account[a].group = q.who
      <4>1. CASE a # f
        BY <1>5, <2>5, <4>1 DEF Accounts
      <4>2. CASE a = f
        <5>1. r.group = q.who
          BY <1>5, <2>5, <4>2
        <5>2. ~GroupStays(r.group)
          BY <2>1, <2>2, <5>1 DEF GroupStays, Doing
        <5> QED
          BY <1>2, <4>2, <5>1, <5>2
      <4> QED
        BY <4>1, <4>2
    <3> QED
      BY <2>3, <3>1 DEF RemovalFits
  <2>6. save'[d] = q
    BY <2>1, <2>2
  <2>7. RemovalFits(save[d])'
    BY <1>2, <2>3, <2>4, <2>5, <2>6 DEF RemovalFits
  <2>8. ASSUME NEW e \in Savers, e # d, save'[e].op = "group"
        PROVE  Apart(save'[d], save'[e])
    BY <2>1, <2>8 DEF OrgInv, RemovalsFit
  <2> QED
    BY <2>7, <2>8
<1> QED
  BY <1>9, <1>10, <1>12, <1>13, <1>14, <1>16, <1>17, <1>18, <1>19 DEF OrgInv

-----------------------------------------------------------------------------
(* The removal of a role group                                             *)

LEMMA BeginRemoveGroupKeeps ==
  ASSUME OrgInv, NEW c \in Savers, BeginRemoveGroup(c)
  PROVE  OrgInv'
<1>1. PICK g \in groups, into \in Groups \cup {NoGroup} :
        /\ IF into = NoGroup THEN {f \in Admins : account[f].group = g} = {}
           ELSE into \in groups \ {g} /\ ManagerOf[into] = ManagerOf[g]
        /\ \A d \in Savers : save[d].op = "group" =>
              {save[d].who, save[d].into} \cap {g, into} \subseteq {NoGroup}
        /\ Begin(c, [op |-> "group", who |-> g, into |-> into,
                     members |-> {f \in Admins : account[f].group = g}])
        /\ UNCHANGED <<bp, account, store, groups, personal>>
  BY DEF BeginRemoveGroup
<1> DEFINE members == {f \in Admins : account[f].group = g}
           r == [op |-> "group", who |-> g, into |-> into, members |-> members]
<1>2. g \in Groups /\ g # NoGroup
  BY OrganisationConstants DEF OrgInv, TypeOK, NoGroup
<1>3. r \in Saves
  BY <1>2 DEF Saves, GroupRemoval
<1>4. \A f \in members : Known(f) /\ MasterOf(f) = ManagerOf[g]
  BY <1>2 DEF OrgInv, UnknownIsBlank, MasterOf, Accounts
<1>5. RemovalFits(r)
  BY <1>1, <1>4 DEF RemovalFits
<1>6. ASSUME NEW d \in Savers, save[d].op = "group"
      PROVE  Apart(r, save[d])
  <2>1. save[d].who # NoGroup
    BY <1>6, OpTells, OrganisationConstants DEF OrgInv, TypeOK, GroupRemoval, NoGroup
  <2>2. {save[d].who, save[d].into} \cap {g, into} \subseteq {NoGroup}
    BY <1>1, <1>6
  <2> QED
    BY <1>2, <2>1, <2>2 DEF Apart
<1>7. Begin(c, r) /\ UNCHANGED <<bp, account, store, groups, personal>> /\ r.op = "group"
  BY <1>1
<1> HIDE DEF r
<1> QED
  BY <1>3, <1>5, <1>6, <1>7, BeginKeeps

LEMMA RemoveGroupKeeps ==
  ASSUME OrgInv, NEW c \in Savers, RemoveGroup(c)
  PROVE  OrgInv'
<1>0. PICK r \in GroupRemoval : r = save[c]
  BY OpTells DEF OrgInv, TypeOK, RemoveGroup, Doing
<1>1. /\ account' = [a \in Accounts |-> IF a \in r.members
                        THEN [account[a] EXCEPT !.group = r.into] ELSE account[a]]
      /\ groups' = groups \ {r.who} /\ UNCHANGED <<bp, store, personal>>
      /\ Finish(c, r.members)
  BY <1>0 DEF RemoveGroup
<1>2. RemovalFits(r) /\ r.members \subseteq Admins /\ r.members \subseteq Accounts
      /\ r.into \in Groups \cup {NoGroup} /\ r.who \in Groups
  BY <1>0 DEF OrgInv, RemovalsFit, RemoveGroup, Doing, GroupRemoval, Accounts
<1>3. Continues(r.members) /\ save'[c] = Idle
  BY <1>1, FinishContinues DEF OrgInv
<1>4. ASSUME NEW a \in Accounts
      PROVE  /\ account'[a] \in Account
             /\ account'[a].stores = account[a].stores /\ account'[a].state = account[a].state
             /\ account'[a].group = IF a \in r.members THEN r.into ELSE account[a].group
  <2>1. account[a] \in Account
    BY DEF OrgInv, TypeOK
  <2>2. account'[a] = IF a \in r.members
                      THEN [account[a] EXCEPT !.group = r.into] ELSE account[a]
    BY <1>1
  <2> QED
    BY <1>2, <2>1, <2>2 DEF Account
<1>5. \A a \in Accounts : (Known(a)' <=> Known(a)) /\ (Active(a)' <=> Active(a))
  BY <1>4 DEF Known, Active
<1>6. ASSUME NEW f \in Admins
      PROVE  MasterOf(f)' = MasterOf(f)
  <2>1. CASE f \in r.members
    <3>1. r.into # NoGroup /\ ManagerOf[r.into] = ManagerOf[r.who]
      BY <1>2, <2>1 DEF RemovalFits
    <3>2. MasterOf(f) = ManagerOf[r.who]
      BY <1>2, <2>1 DEF RemovalFits
    <3> QED
      BY <1>4, <2>1, <3>1, <3>2 DEF MasterOf, Accounts
  <2>2. CASE f \notin r.members
    BY <1>4, <2>2 DEF MasterOf, Accounts
  <2> QED
    BY <2>1, <2>2
<1>7. TypeOK'
  <2>1. account' \in [Accounts -> Account]
    BY <1>1, <1>4
  <2> QED
    BY <1>1, <1>3, <2>1 DEF OrgInv, TypeOK, Continues
<1>8. OneMasterPerStore' /\ ActiveOnlyInActiveBp'
  BY <1>1, <1>4, <1>5 DEF OrgInv, OneMasterPerStore, ActiveOnlyInActiveBp, Accounts
<1>9. TeamWithinMaster'
  <2> SUFFICES ASSUME NEW f \in Admins, Known(f)'
               PROVE  /\ account'[f].stores \subseteq account'[MasterOf(f)'].stores
                      /\ Active(f)' => Active(MasterOf(f))'
    BY DEF TeamWithinMaster
  <2>1. f \in Accounts /\ Known(f) /\ MasterOf(f)' = MasterOf(f)
    BY <1>5, <1>6 DEF Accounts
  <2>2. MasterOf(f) \in Accounts
    BY <2>1, OrganisationConstants DEF OrgInv, GroupsAlive, TypeOK, MasterOf, Accounts
  <2>3. /\ account'[MasterOf(f)].stores = account[MasterOf(f)].stores
        /\ Active(f)' => Active(f) /\ (Active(MasterOf(f)) => account'[MasterOf(f)].state = "ACTIVE")
    BY <1>4, <1>5, <2>1, <2>2 DEF Active
  <2> QED
    BY <1>4, <2>1, <2>3 DEF OrgInv, TeamWithinMaster, Active
<1>10. GroupsAlive'
  <2> SUFFICES ASSUME NEW f \in Admins, Known(f)'
               PROVE  account'[f].group \in groups'
    BY DEF GroupsAlive
  <2>1. Known(f) /\ account[f].group \in groups
    BY <1>5 DEF OrgInv, GroupsAlive, Accounts
  <2>2. CASE f \in r.members
    BY <1>1, <1>2, <1>4, <2>2 DEF RemovalFits
  <2>3. CASE f \notin r.members
    <3>1. account[f].group # r.who
      BY <1>2, <2>3 DEF RemovalFits
    <3> QED
      BY <1>1, <1>4, <2>1, <2>3, <3>1 DEF Accounts
  <2> QED
    BY <2>2, <2>3
<1>11. UnknownIsBlank'
  BY <1>2, <1>4, <1>5 DEF OrgInv, UnknownIsBlank, RemovalFits
<1>12. ActiveSavesFit'
  BY <1>1, <1>3 DEF OrgInv, ActiveSavesFit, HoldsBp, Continues, Descends
<1>13. AdminSavesFit'
  <2> SUFFICES ASSUME NEW d \in Savers, save'[d].op = "admin"
               PROVE  /\ ManagerOf[save'[d].group] = save'[d].master
                      /\ save'[d].current /\ Known(save[d].who)' =>
                            MasterOf(save[d].who)' = save'[d].master
    BY <1>3 DEF AdminSavesFit, Continues, Descends
  <2>1. /\ save[d].op = "admin" /\ save'[d].who = save[d].who
        /\ save'[d].master = save[d].master /\ save'[d].group = save[d].group
        /\ save'[d].current => save[d].current
    BY <1>3 DEF Continues, Descends
  <2>2. PICK a \in Admins : a = save[d].who
    BY <2>1, OpTells DEF OrgInv, TypeOK, AdminSave
  <2>3. (Known(a)' => Known(a)) /\ MasterOf(a)' = MasterOf(a)
    BY <1>5, <1>6 DEF Accounts
  <2>4. /\ account'[save[d].who] = account'[a] /\ account[save[d].who] = account[a]
    BY <2>2
  <2> QED
    BY <2>1, <2>2, <2>3, <2>4 DEF OrgInv, AdminSavesFit, Known, MasterOf
<1>14. RemovalsFit'
  <2> SUFFICES ASSUME NEW d \in Savers, save'[d].op = "group"
               PROVE  /\ RemovalFits(save[d])'
                      /\ \A e \in Savers : e # d /\ save'[e].op = "group" => Apart(save'[d], save'[e])
    BY <1>3 DEF RemovalsFit, Continues, Descends
  <2>1. \A e \in Savers : save'[e].op = "group" => save[e].op = "group" /\ save'[e] = save[e]
    BY <1>3 DEF Continues, Descends
  <2>2. d # c
    BY <1>3 DEF Idle
  <2>3. PICK q \in GroupRemoval : q = save[d]
    BY <2>1, OpTells DEF OrgInv, TypeOK
  <2>4. RemovalFits(q) /\ q.members \subseteq Admins /\ Apart(r, q)
    BY <1>0, <2>1, <2>2, <2>3 DEF OrgInv, RemovalsFit, GroupRemoval, RemoveGroup, Doing
  <2>5. ASSUME NEW a \in q.members
        PROVE  Known(a)' /\ MasterOf(a)' = ManagerOf[q.who]
    BY <1>5, <1>6, <2>4, <2>5 DEF RemovalFits, Accounts
  <2>6. ASSUME NEW a \in Admins, account'[a].group = q.who
        PROVE  a \in q.members
    <3>1. a \notin r.members
      BY <1>4, <2>4, <2>6 DEF Apart, Accounts
    <3>2. account[a].group = q.who
      BY <1>4, <2>6, <3>1 DEF Accounts
    <3> QED
      BY <2>4, <3>2 DEF RemovalFits
  <2>7. q.who \in groups' /\ (q.into # NoGroup => q.into \in groups')
    BY <1>1, <2>4 DEF RemovalFits, Apart
  <2>8. save'[d] = q
    BY <2>1, <2>3
  <2>9. RemovalFits(save[d])'
    BY <2>4, <2>5, <2>6, <2>7, <2>8 DEF RemovalFits
  <2>10. ASSUME NEW e \in Savers, e # d, save'[e].op = "group"
         PROVE  Apart(save'[d], save'[e])
    BY <2>1, <2>10 DEF OrgInv, RemovalsFit
  <2> QED
    BY <2>9, <2>10
<1> QED
  BY <1>7, <1>8, <1>9, <1>10, <1>11, <1>12, <1>13, <1>14 DEF OrgInv

-----------------------------------------------------------------------------
(* The BP, its stores, and requests that end without a write               *)

LEMMA GiveUpKeeps ==
  ASSUME OrgInv, NEW c \in Savers, GiveUp(c)
  PROVE  OrgInv'
<1>1. Continues({}) /\ UNCHANGED <<bp, account, store, groups, personal>>
  BY FinishContinues DEF GiveUp, OrgInv
<1>2. TypeOK'
  BY <1>1 DEF OrgInv, TypeOK, Continues
<1> QED
  BY <1>1, <1>2, SameAccounts

LEMMA BpEditKeeps ==
  ASSUME OrgInv, NEW c \in Savers, ReadBp(c) \/ UpdateBp(c)
  PROVE  OrgInv'
<1>1. CASE ReadBp(c)
  <2>1. [op |-> "bp", who |-> Owner] \in Saves
    BY DEF Saves, BpEdit
  <2> QED
    BY <1>1, <2>1, BeginKeeps DEF ReadBp
<1>2. CASE UpdateBp(c)
  <2>1. Continues({}) /\ UNCHANGED <<bp, account, store, groups>>
        /\ personal' = personal \cup {Owner}
    BY <1>2, FinishContinues DEF UpdateBp, OrgInv
  <2>2. TypeOK'
    BY <2>1 DEF OrgInv, TypeOK, Continues
  <2> QED
    BY <2>1, <2>2, SameAccounts
<1> QED
  BY <1>1, <1>2

LEMMA StoreEditKeeps ==
  ASSUME OrgInv, NEW c \in Savers, ReadForStore(c) \/ SaveStore(c)
  PROVE  OrgInv'
<1>1. CASE ReadForStore(c)
  <2>1. PICK s \in Stores : Begin(c, [op |-> "store", who |-> s, was |-> store[s]])
    BY <1>1 DEF ReadForStore
  <2>2. [op |-> "store", who |-> s, was |-> store[s]] \in Saves
    BY DEF OrgInv, TypeOK, Saves, StoreEdit
  <2> QED
    BY <1>1, <2>1, <2>2, BeginKeeps DEF ReadForStore
<1>2. CASE SaveStore(c)
  <2>1. Continues({}) /\ UNCHANGED <<bp, account, groups, personal>>
    BY <1>2, FinishContinues DEF SaveStore, OrgInv
  <2>2. store' \in [Stores -> {"none", "open", "CLOSED"}]
    BY <1>2 DEF SaveStore, OrgInv, TypeOK
  <2>3. TypeOK'
    BY <2>1, <2>2 DEF OrgInv, TypeOK, Continues
  <2> QED
    BY <2>1, <2>3, SameAccounts
<1> QED
  BY <1>1, <1>2

\* Nothing has become of any request.
LEMMA NothingContinues ==
  ASSUME TypeOK, save' = save
  PROVE  Continues({})
BY DEF TypeOK, Continues, Descends

\* All accounts after those in use were taken out of it.
LEMMA DownTyped ==
  ASSUME TypeOK
  PROVE  [a \in Accounts |-> Down(a)] \in [Accounts -> Account]
<1>1. ASSUME NEW a \in Accounts
      PROVE  Down(a) \in Account
  <2>1. account[a] \in Account
    BY DEF TypeOK
  <2> QED
    BY <2>1 DEF Down, Account
<1> QED
  BY <1>1

LEMMA ChangeBpStatusKeeps ==
  ASSUME OrgInv, ChangeBpStatus
  PROVE  OrgInv'
<1>1. BpIsFree /\ UNCHANGED <<store, groups, personal>>
  BY DEF ChangeBpStatus
<1>2. CASE bp' = "INACTIVE" /\ account' = [a \in Accounts |-> Down(a)]
           /\ Outdate({a \in Accounts : Active(a)})
  <2>1. Continues({a \in Accounts : Active(a)})
    BY <1>2, OutdateContinues DEF OrgInv
  <2>2. TypeOK'
    BY <1>1, <1>2, <2>1, DownTyped DEF OrgInv, TypeOK, Continues
  <2> QED
    BY <1>1, <1>2, <2>1, <2>2, AllDown
<1>3. CASE bp = "INACTIVE" /\ bp' = "ACTIVE" /\ UNCHANGED <<account, save>>
  <2>1. Continues({})
    BY <1>3, NothingContinues DEF OrgInv
  <2>2. TypeOK'
    BY <1>1, <1>3 DEF OrgInv, TypeOK
  <2>3. \A a \in Accounts : ~Active(a)
    BY <1>3 DEF OrgInv, ActiveOnlyInActiveBp
  <2> QED
    BY <1>1, <1>3, <2>1, <2>2, <2>3, SameAccounts
<1> QED
  BY <1>2, <1>3 DEF ChangeBpStatus

LEMMA WithdrawKeeps ==
  ASSUME OrgInv, Withdraw
  PROVE  OrgInv'
<1>1. /\ BpIsFree /\ bp' = "WITHDRAWN" /\ groups' = groups /\ personal' = {}
      /\ account' = [a \in Accounts |-> Down(a)]
      /\ store' = [s \in Stores |-> IF store[s] = "open" THEN "CLOSED" ELSE store[s]]
  BY DEF Withdraw
<1>2. Continues(Accounts)
  BY OutdateContinues DEF Withdraw, OrgInv
<1>3. store' \in [Stores -> {"none", "open", "CLOSED"}]
  BY <1>1 DEF OrgInv, TypeOK
<1>4. TypeOK'
  BY <1>1, <1>2, <1>3, DownTyped DEF OrgInv, TypeOK, Continues
<1> QED
  BY <1>1, <1>2, <1>4, AllDown

LEMMA RemoveBpKeeps ==
  ASSUME OrgInv, RemoveBp
  PROVE  OrgInv'
<1>1. /\ BpIsFree /\ bp' = "DELETED" /\ UNCHANGED <<account, store, groups, personal, save>>
      /\ \A a \in Accounts : ~Known(a)
  BY DEF RemoveBp
<1>2. Continues({}) /\ TypeOK'
  BY <1>1, NothingContinues DEF OrgInv, TypeOK
<1>3. \A a \in Accounts : ~Active(a)
  BY <1>1 DEF Known, Active
<1> QED
  BY <1>1, <1>2, <1>3, SameAccounts

-----------------------------------------------------------------------------
(* The invariant and what follows from it                                  *)

LEMMA InitOrgInv == Init => OrgInv
<1> SUFFICES ASSUME Init PROVE OrgInv
  OBVIOUS
<1>1. \A a \in Accounts : account[a] = Unregistered
  BY DEF Init
<1>2. \A c \in Savers : save[c] = Idle
  BY DEF Init
<1>3. TypeOK
  BY DEF Init, TypeOK, Unregistered, Account, Saves
<1>4. \A a \in Accounts : ~Known(a) /\ ~Active(a)
                          /\ account[a].stores = {} /\ account[a].group = NoGroup
  BY <1>1 DEF Unregistered, Known, Active
<1> QED
  BY <1>2, <1>3, <1>4 DEF OrgInv, OneMasterPerStore, TeamWithinMaster, GroupsAlive,
     ActiveOnlyInActiveBp, UnknownIsBlank, ActiveSavesFit, AdminSavesFit, RemovalsFit,
     HoldsBp, Idle, Accounts

LEMMA NextOrgInv == OrgInv /\ [Next]_orgVars => OrgInv'
<1> SUFFICES ASSUME OrgInv, [Next]_orgVars PROVE OrgInv'
  OBVIOUS
<1>1. ASSUME NEW c \in Savers, NEW m \in Masters, BeginMaster(c, m)
      PROVE  OrgInv'
  BY <1>1, BeginMasterKeeps
<1>2. ASSUME NEW c \in Savers, NEW f \in Admins, BeginAdmin(c, f)
      PROVE  OrgInv'
  BY <1>2, BeginAdminKeeps
<1>3. ASSUME NEW c \in Savers, SaveMaster(c) \/ SaveAdmin(c)
      PROVE  OrgInv'
  BY <1>3, SaveMasterKeeps, SaveAdminKeeps
<1>4. ASSUME NEW c \in Savers, BeginRemoveGroup(c) \/ RemoveGroup(c)
      PROVE  OrgInv'
  BY <1>4, BeginRemoveGroupKeeps, RemoveGroupKeeps
<1>5. ASSUME NEW c \in Savers, GiveUp(c)
      PROVE  OrgInv'
  BY <1>5, GiveUpKeeps
<1>6. ASSUME NEW c \in Savers, ReadBp(c) \/ UpdateBp(c)
      PROVE  OrgInv'
  BY <1>6, BpEditKeeps
<1>7. ASSUME NEW c \in Savers, ReadForStore(c) \/ SaveStore(c)
      PROVE  OrgInv'
  BY <1>7, StoreEditKeeps
<1>8. CASE ChangeBpStatus \/ Withdraw \/ RemoveBp
  BY <1>8, ChangeBpStatusKeeps, WithdrawKeeps, RemoveBpKeeps
<1>9. CASE UNCHANGED orgVars
  <2>1. Continues({}) /\ TypeOK' /\ UNCHANGED <<bp, account, groups>>
    BY <1>9, NothingContinues DEF orgVars, OrgInv, TypeOK
  <2> QED
    BY <2>1, SameAccounts
<1> QED
  BY <1>1, <1>2, <1>3, <1>4, <1>5, <1>6, <1>7, <1>8, <1>9 DEF Next

\* The inductive invariant: the promises below, together with what the row
\* locks of the requests under way guarantee until they end.
THEOREM OrganisationInvariant == Spec => []OrgInv
BY InitOrgInv, NextOrgInv, PTL DEF Spec

\* Rows and requests keep to their types (bp_codes, admin_accounts,
\* admin_store_mappings, stores, roles).
THEOREM OrganisationTypes == Spec => []TypeOK
<1>1. OrgInv => TypeOK
  BY DEF OrgInv
<1> QED
  BY <1>1, OrganisationInvariant, PTL

\* assertStoresFree, with its advisory lock: however saves overlap, no store is
\* held by two active franchise masters.
THEOREM MastersShareNoStore == Spec => []OneMasterPerStore
<1>1. OrgInv => OneMasterPerStore
  BY DEF OrgInv
<1> QED
  BY <1>1, OrganisationInvariant, PTL

\* cascadeFromMaster and the second read under the master's row lock: a
\* franchise admin never holds more than its master.
THEOREM TeamsWithinMasters == Spec => []TeamWithinMaster
<1>1. OrgInv => TeamWithinMaster
  BY DEF OrgInv
<1> QED
  BY <1>1, OrganisationInvariant, PTL

\* lockBp: a BP that goes out of use takes along also the accounts that are
\* being saved meanwhile.
THEOREM NobodyActiveOutsideActiveBp == Spec => []ActiveOnlyInActiveBp
<1>1. OrgInv => ActiveOnlyInActiveBp
  BY DEF OrgInv
<1> QED
  BY <1>1, OrganisationInvariant, PTL

\* lockRoleGroup: whoever reads the members of a role group that goes has read
\* all of them, and where they move stays.
THEOREM AdminsAreInLiveGroups == Spec => []GroupsAlive
<1>1. OrgInv => GroupsAlive
  BY DEF OrgInv
<1> QED
  BY <1>1, OrganisationInvariant, PTL
-----------------------------------------------------------------------------
(* The administrators of the platform: what a request may rely on because  *)
(* of the rows and the role groups it has locked                           *)

PlatformAccounts == [state : Platform!States, group : Platform!AllGroups]
Changes == [op : {"change"}, step : {"group", "masters", "locking", "write"},
            who : People, was : PlatformAccounts,
            next : [state : {"ACTIVE", "INACTIVE", "deleted"}, group : Platform!AllGroups],
            current : BOOLEAN, leaves : BOOLEAN, left : SUBSET People,
            held : SUBSET ({"row"} \X People), shared : SUBSET Platform!AllGroups]
Removals == [op : {"group"}, step : {"groups", "members"}, who : RoleGroups, into : RoleGroups,
             left : SUBSET (People \cup RoleGroups),
             held : SUBSET ({"row"} \X People \cup {"group"} \X RoleGroups), shared : {{}}]

PlatformTyped ==
    /\ admin \in [People -> PlatformAccounts]
    /\ platformGroups \subseteq Platform!AllGroups /\ MasterGroup \in platformGroups
    /\ request \in [Requests -> {Platform!NoRequest} \cup Changes \cup Removals]

\* A row, or a role group to be deleted, is locked once; a role group that accounts are
\* moved to is not deleted.
LocksApart ==
    \A r, q \in Requests : r # q =>
        /\ request[r].held \cap request[q].held = {}
        /\ \A g \in request[r].shared : <<"group", g>> \notin request[q].held

Regroups(e) == e.was.state \notin {"ACTIVE", "INACTIVE"} \/ e.next.group # e.was.group

\* The rows a request holds come before those it has yet to lock.
InOrder(e) == \A p \in People, x \in e.left : <<"row", p>> \in e.held => p < x

ChangeFits(e) ==
    /\ e.current => admin[e.who] = e.was
    /\ e.leaves <=> /\ e.was.state = "ACTIVE" /\ e.was.group = MasterGroup
                    /\ e.next.state # "ACTIVE" \/ e.next.group # MasterGroup
    /\ IF e.was.state \in {"ACTIVE", "INACTIVE"}
       THEN e.next.state = "deleted" => e.next.group = e.was.group
       ELSE e.next.state = "ACTIVE"
    /\ e.shared \subseteq platformGroups
    /\ e.shared = IF e.step # "group" /\ Regroups(e) THEN {e.next.group} ELSE {}
    /\ e.held # {} \/ e.left # {} => e.leaves /\ e.step \in {"locking", "write"}
    /\ e.step = "group" => Regroups(e)
    /\ e.step = "locking" => e.leaves
    /\ e.step = "write" => e.left = {}
    /\ e.step = "write" /\ e.leaves => \E p \in People \ {e.who} : <<"row", p>> \in e.held
    /\ e.step \in {"locking", "write"} /\ e.leaves /\ e.current =>
          e.who \in e.left \/ <<"row", e.who>> \in e.held
    /\ \A p \in People : <<"row", p>> \in e.held => Platform!ActiveMaster(p)

GroupsOrdered(e) ==
    /\ e.held \subseteq {"group"} \X RoleGroups /\ e.left \subseteq {e.who, e.into}
    /\ \A g \in {e.who, e.into} : g \in e.left \/ <<"group", g>> \in e.held
    /\ \A g \in RoleGroups, x \in e.left : <<"group", g>> \in e.held => g < x
MembersKnown(e) ==
    /\ e.left \subseteq People /\ {e.who, e.into} \subseteq platformGroups
    /\ <<"group", e.who>> \in e.held /\ <<"group", e.into>> \in e.held
    /\ \A p \in People : <<"row", p>> \in e.held => Platform!Known(p) /\ admin[p].group = e.who
    /\ \A p \in People : Platform!Known(p) /\ admin[p].group = e.who =>
      p \in e.left \/ <<"row", p>> \in e.held
DeletionFits(e) ==
    /\ e.step = "groups" => GroupsOrdered(e)
    /\ e.step = "members" => MembersKnown(e)

RequestFits(e) ==
    /\ e.op = "change" => ChangeFits(e) /\ InOrder(e)
    /\ e.op = "group" => DeletionFits(e) /\ InOrder(e)
RequestsFit == \A r \in Requests : RequestFits(request[r])

PlatformInv ==
    PlatformTyped /\ LocksApart /\ RequestsFit /\ Platform!AlwaysAMaster /\ Platform!GroupsAlive

-----------------------------------------------------------------------------
(* Requests and the first of several                                       *)

LEMMA RequestTells ==
  ASSUME NEW e \in {Platform!NoRequest} \cup Changes \cup Removals
  PROVE  /\ e.op = "none" <=> e = Platform!NoRequest
         /\ e.op \in {"none", "change", "group"}
         /\ e.op = "change" <=> e \in Changes
         /\ e.op = "group" <=> e \in Removals
         /\ Platform!NoRequest.op = "none" /\ Platform!NoRequest.held = {}
           /\ Platform!NoRequest.shared = {}
         /\ Platform!NoRequest.left = {}
BY DEF Platform!NoRequest, Changes, Removals

LEMMA OneRequest ==
  ASSUME PlatformInv, NEW r \in Requests
  PROVE  /\ request[r] \in {Platform!NoRequest} \cup Changes \cup Removals
         /\ RequestFits(request[r])
BY DEF PlatformInv, PlatformTyped, RequestsFit

LEMMA FirstIsSmallest ==
  ASSUME NEW S \in SUBSET Nat, S # {}
  PROVE  Platform!First(S) \in S /\ \A y \in S : Platform!First(S) <= y
<1>1. PICK x \in S : \A y \in S : ~(<<y, x>> \in OpToRel(<, Nat))
  BY NatLessThanWellFounded, WFMin
<1>2. ASSUME NEW y \in S, ~(x <= y)
      PROVE  FALSE
  <2>1. y < x /\ <<y, x>> \in Nat \X Nat
    BY <1>2
  <2>2. <<y, x>> \in {ss \in Nat \X Nat : ss[1] < ss[2]}
    BY <2>1
  <2> QED
    BY <1>1, <2>2 DEF OpToRel
<1> QED
  BY <1>2 DEF Platform!First

\* What is left to lock is locked in order.
LEMMA TheFirstLeft ==
  ASSUME NEW S \in SUBSET (People \cup RoleGroups), S # {}
  PROVE  Platform!First(S) \in S /\ Platform!First(S) \in Nat
           /\ \A y \in S \ {Platform!First(S)} : Platform!First(S) < y
<1>1. S \in SUBSET Nat
  BY PlatformConstants DEF Platform!AllGroups
<1> DEFINE f == Platform!First(S)
<1>2. f \in S /\ \A y \in S : f <= y
  BY <1>1, FirstIsSmallest
<1> HIDE DEF f
<1>3. f \in Nat /\ \A y \in S : y \in Nat /\ f <= y
  BY <1>1, <1>2
<1>4. \A y \in S \ {f} : f < y
  BY <1>3
<1> QED
  BY <1>2, <1>3, <1>4 DEF f

-----------------------------------------------------------------------------
(* Requests that read and lock                                             *)

LEMMA FitsWhileStill ==
  ASSUME UNCHANGED <<admin, platformGroups>>
  PROVE  \A e : RequestFits(e) => RequestFits(e)'
BY DEF RequestFits, ChangeFits, DeletionFits, GroupsOrdered, MembersKnown, InOrder, Regroups,
       Platform!ActiveMaster, Platform!Master, Platform!Known

\* The locks of n are free of those of all requests but r.
FreeBut(r, n) ==
    \A q \in Requests \ {r} :
        /\ n.held \cap request[q].held = {}
        /\ \A g \in n.shared : <<"group", g>> \notin request[q].held
        /\ \A g \in request[q].shared : <<"group", g>> \notin n.held

LEMMA OnlyMoves ==
  ASSUME PlatformInv, NEW r \in Requests,
         NEW n \in {Platform!NoRequest} \cup Changes \cup Removals,
         Platform!Put(r, n), Platform!Stay, RequestFits(n), FreeBut(r, n)
  PROVE  PlatformInv'
<1>1. \A q \in Requests : request'[q] = IF q = r THEN n ELSE request[q]
  BY DEF Platform!Put, PlatformInv, PlatformTyped
<1>2. PlatformTyped'
  BY DEF Platform!Put, Platform!Stay, PlatformInv, PlatformTyped
<1>3. LocksApart'
  BY <1>1 DEF PlatformInv, LocksApart, FreeBut
<1>4. RequestsFit'
  BY <1>1, FitsWhileStill DEF PlatformInv, RequestsFit, Platform!Stay
<1>5. Platform!AlwaysAMaster' /\ Platform!GroupsAlive'
  BY DEF PlatformInv, Platform!Stay, Platform!AlwaysAMaster, Platform!GroupsAlive,
     Platform!ActiveMaster, Platform!Master, Platform!Known
<1> QED
  BY <1>2, <1>3, <1>4, <1>5 DEF PlatformInv

LEMMA GiveUpKeepsPlatform ==
  ASSUME PlatformInv, NEW r \in Requests, Platform!GiveUp(r)
  PROVE  PlatformInv'
<1>1. Platform!NoRequest.op = "none" /\ Platform!NoRequest.held = {}
        /\ Platform!NoRequest.shared = {}
  BY DEF Platform!NoRequest
<1>2. RequestFits(Platform!NoRequest) /\ FreeBut(r, Platform!NoRequest)
  BY <1>1 DEF RequestFits, FreeBut
<1> QED
  BY <1>2, OnlyMoves DEF Platform!GiveUp

LEMMA BeginChangeKeeps ==
  ASSUME PlatformInv, NEW r \in Requests, NEW p \in People, Platform!BeginChange(r, p)
  PROVE  PlatformInv'
<1>1. PICK next \in [state : {"ACTIVE", "INACTIVE", "deleted"}, group : platformGroups] :
        LET before == admin[p]
            regroups == ~Platform!Known(p) \/ next.group # before.group
        IN  /\ IF Platform!Known(p) THEN next.state = "deleted" => next.group = before.group
                           ELSE next.state = "ACTIVE"
            /\ Platform!Put(r, [op |-> "change", who |-> p, was |-> before, next |-> next,
              current |-> TRUE,
                       left |-> {},
                       step |-> IF regroups THEN "group" ELSE "masters", held |-> {},
                         shared |-> {},
                       leaves |-> Platform!ActiveMaster(p)
                                  /\ (next.state # "ACTIVE" \/ next.group # MasterGroup)])
            /\ Platform!Stay
  BY DEF Platform!BeginChange
<1> DEFINE before == admin[p]
           regroups == ~Platform!Known(p) \/ next.group # before.group
           n == [op |-> "change", who |-> p, was |-> before, next |-> next, current |-> TRUE,
                 left |-> {},
                 step |-> IF regroups THEN "group" ELSE "masters", held |-> {}, shared |-> {},
                 leaves |-> Platform!ActiveMaster(p)
                   /\ (next.state # "ACTIVE" \/ next.group # MasterGroup)]
<1>2. before \in PlatformAccounts
      /\ next \in [state : {"ACTIVE", "INACTIVE", "deleted"}, group : Platform!AllGroups]
  BY DEF PlatformInv, PlatformTyped
<1>3. n \in Changes
  <2>1. n.leaves \in BOOLEAN /\ n.step \in {"group", "masters", "locking", "write"}
    BY DEF Platform!ActiveMaster
  <2> HIDE DEF before, regroups
  <2> QED
    BY <1>2, <2>1 DEF Changes, Platform!ActiveMaster
<1>4. Regroups(n) <=> regroups
  BY DEF Regroups, Platform!Known
<1>5. ChangeFits(n) /\ InOrder(n) /\ n.op = "change"
  BY <1>1, <1>4 DEF ChangeFits, InOrder, Platform!Known, Platform!ActiveMaster,
     Platform!Master
<1>6. FreeBut(r, n)
  BY DEF FreeBut
<1>7. Platform!Put(r, n) /\ Platform!Stay
  BY <1>1
<1> HIDE DEF n
<1> QED
  BY <1>3, <1>5, <1>6, <1>7, OnlyMoves DEF RequestFits

LEMMA TakeGroupKeeps ==
  ASSUME PlatformInv, NEW r \in Requests, Platform!TakeGroup(r)
  PROVE  PlatformInv'
<1> DEFINE e == request[r]
           g == e.next.group
           n == [e EXCEPT !.step = "masters", !.shared = {g}]
<1>1. /\ e.op = "change" /\ e.step = "group" /\ g \in platformGroups
        /\ Platform!GroupHolder(r, g, FALSE) = {}
      /\ Platform!Put(r, n) /\ Platform!Stay
  BY DEF Platform!TakeGroup, Platform!At
<1>2. e \in Changes /\ ChangeFits(e) /\ InOrder(e)
  BY <1>1, OneRequest, RequestTells DEF RequestFits
<1>3. /\ n \in Changes /\ n.op = "change" /\ n.step = "masters" /\ n.shared = {g}
        /\ n.held = e.held
      /\ n.left = e.left /\ n.who = e.who /\ n.was = e.was /\ n.next = e.next
      /\ n.current = e.current /\ n.leaves = e.leaves
  BY <1>2 DEF Changes
<1>4. e.held = {} /\ e.left = {} /\ Regroups(e)
  BY <1>1, <1>2 DEF ChangeFits
<1>5. Regroups(n)
  BY <1>3, <1>4 DEF Regroups
<1>6. ChangeFits(n) /\ InOrder(n)
  <2> HIDE DEF n
  <2> QED
    BY <1>1, <1>2, <1>3, <1>4, <1>5 DEF ChangeFits, InOrder
<1>7. FreeBut(r, n)
  BY <1>1, <1>3, <1>4 DEF FreeBut, Platform!GroupHolder
<1> HIDE DEF n, e
<1> QED
  BY <1>1, <1>3, <1>6, <1>7, OnlyMoves DEF RequestFits

LEMMA ReadMastersKeeps ==
  ASSUME PlatformInv, NEW r \in Requests, Platform!ReadMasters(r)
  PROVE  PlatformInv'
<1> DEFINE e == request[r]
           n == [e EXCEPT !.left =
             IF e.leaves THEN {p \in People : Platform!ActiveMaster(p)} ELSE {},
                          !.step = IF e.leaves THEN "locking" ELSE "write"]
<1>1. e.op = "change" /\ e.step = "masters" /\ Platform!Put(r, n) /\ Platform!Stay
  BY DEF Platform!ReadMasters, Platform!At
<1>2. e \in Changes /\ ChangeFits(e) /\ InOrder(e)
  BY <1>1, OneRequest, RequestTells DEF RequestFits
<1>3. /\ n \in Changes /\ n.op = "change" /\ n.step = (IF e.leaves THEN "locking" ELSE "write")
      /\ n.shared = e.shared /\ n.held = e.held /\ n.who = e.who /\ n.was = e.was
      /\ n.left = (IF e.leaves THEN {p \in People : Platform!ActiveMaster(p)} ELSE {})
      /\ n.next = e.next /\ n.current = e.current /\ n.leaves = e.leaves
  BY <1>2 DEF Changes
<1>4. e.held = {} /\ (e.shared = IF Regroups(e) THEN {e.next.group} ELSE {})
  BY <1>1, <1>2 DEF ChangeFits
<1>5. (Regroups(n) <=> Regroups(e)) /\ e.who \in People
  BY <1>2, <1>3 DEF Regroups, Changes
<1>6. e.leaves /\ e.current => Platform!ActiveMaster(e.who)
  BY <1>2 DEF ChangeFits, Platform!ActiveMaster, Platform!Master
<1>7. ChangeFits(n) /\ InOrder(n)
  <2> HIDE DEF n
  <2> QED
    BY <1>1, <1>2, <1>3, <1>4, <1>5, <1>6 DEF ChangeFits, InOrder
<1>8. FreeBut(r, n)
  BY <1>3, <1>4 DEF FreeBut, PlatformInv, LocksApart
<1> HIDE DEF n, e
<1> QED
  BY <1>1, <1>3, <1>7, <1>8, OnlyMoves DEF RequestFits

LEMMA RowIsFree ==
  ASSUME PlatformInv, NEW r \in Requests, NEW p, Platform!RowHolder(r, p) = {}
  PROVE  \A q \in Requests \ {r} : <<"row", p>> \notin request[q].held
<1> SUFFICES ASSUME NEW q \in Requests \ {r}, <<"row", p>> \in request[q].held
             PROVE  FALSE
  OBVIOUS
<1>1. request[q].op \in {"change", "group"}
  BY OneRequest, RequestTells
<1> QED
  BY <1>1 DEF Platform!RowHolder

LEMMA LockMasterKeeps ==
  ASSUME PlatformInv, NEW r \in Requests, Platform!LockMaster(r)
  PROVE  PlatformInv'
<1> DEFINE e == request[r]
           p == Platform!First(e.left)
           rest == e.left \ {p}
           held == IF Platform!ActiveMaster(p) THEN e.held \cup {<<"row", p>>} ELSE e.held
           n == [e EXCEPT !.left = rest, !.held = held]
<1>1. e.op = "change" /\ e.step = "locking" /\ e.left # {}
        /\ Platform!RowHolder(r, p) = {} /\ Platform!Put(r, n) /\ Platform!Stay
  BY DEF Platform!LockMaster, Platform!At
<1>2. e \in Changes /\ ChangeFits(e) /\ InOrder(e)
  BY <1>1, OneRequest, RequestTells DEF RequestFits
<1>3. p \in e.left /\ p \in People /\ \A y \in e.left \ {p} : p < y
  BY <1>1, <1>2, TheFirstLeft DEF Changes
<1>4. \A q \in Requests \ {r} : <<"row", p>> \notin request[q].held
  BY <1>1, RowIsFree
<1> HIDE DEF p
<1>5. /\ n \in Changes /\ n.op = "change" /\ n.step = "locking" /\ n.left = rest
      /\ n.shared = e.shared /\ n.who = e.who /\ n.was = e.was /\ n.held = held
      /\ n.next = e.next /\ n.current = e.current /\ n.leaves = e.leaves
  <2>1. rest \in SUBSET People /\ held \in SUBSET ({"row"} \X People)
    BY <1>2, <1>3 DEF Changes
  <2> HIDE DEF rest, held
  <2> QED
    BY <1>1, <1>2, <2>1 DEF Changes
<1>6. (Regroups(n) <=> Regroups(e)) /\ e.who \in People
  BY <1>2, <1>5 DEF Regroups, Changes
<1>7. e.leaves /\ e.current => Platform!ActiveMaster(e.who)
  BY <1>2 DEF ChangeFits, Platform!ActiveMaster, Platform!Master
<1> HIDE DEF n
<1>8. ChangeFits(n)
  BY <1>1, <1>2, <1>3, <1>5, <1>6, <1>7 DEF ChangeFits
<1>9. InOrder(n)
  BY <1>2, <1>3, <1>5 DEF InOrder
<1>10. FreeBut(r, n)
  BY <1>4, <1>5 DEF FreeBut, PlatformInv, LocksApart
<1> HIDE DEF e
<1> QED
  BY <1>1, <1>5, <1>8, <1>9, <1>10, OnlyMoves DEF RequestFits

LEMMA AnotherMasterKeeps ==
  ASSUME PlatformInv, NEW r \in Requests, Platform!AnotherMaster(r)
  PROVE  PlatformInv'
<1> DEFINE e == request[r]
           n == [e EXCEPT !.step = "write"]
<1>1. /\ e.op = "change" /\ e.step = "locking" /\ e.left = {} /\ Platform!Put(r, n)
        /\ Platform!Stay
      /\ \E p \in People \ {e.who} : <<"row", p>> \in e.held
  BY DEF Platform!AnotherMaster, Platform!At
<1>2. e \in Changes /\ ChangeFits(e) /\ InOrder(e)
  BY <1>1, OneRequest, RequestTells DEF RequestFits
<1>3. /\ n \in Changes /\ n.op = "change" /\ n.step = "write" /\ n.left = e.left
      /\ n.shared = e.shared /\ n.who = e.who /\ n.was = e.was /\ n.held = e.held
      /\ n.next = e.next /\ n.current = e.current /\ n.leaves = e.leaves
  BY <1>2 DEF Changes
<1>4. Regroups(n) <=> Regroups(e)
  BY <1>3 DEF Regroups
<1> HIDE DEF n
<1>5. ChangeFits(n) /\ InOrder(n)
  BY <1>1, <1>2, <1>3, <1>4 DEF ChangeFits, InOrder
<1>6. FreeBut(r, n)
  BY <1>3 DEF FreeBut, PlatformInv, LocksApart
<1> HIDE DEF e
<1> QED
  BY <1>1, <1>3, <1>5, <1>6, OnlyMoves DEF RequestFits

LEMMA BeginRemovalKeeps ==
  ASSUME PlatformInv, NEW r \in Requests, Platform!BeginRemoval(r)
  PROVE  PlatformInv'
<1>1. PICK g \in platformGroups \cap RoleGroups, into \in RoleGroups :
        /\ Platform!Put(r, [op |-> "group", who |-> g, into |-> into, left |-> {g, into},
                   step |-> "groups", held |-> {}, shared |-> {}])
        /\ Platform!Stay
  BY DEF Platform!BeginRemoval
<1> DEFINE n == [op |-> "group", who |-> g, into |-> into, left |-> {g, into},
                 step |-> "groups", held |-> {}, shared |-> {}]
<1>2. n \in Removals /\ n.op = "group"
  BY DEF Removals
<1>3. DeletionFits(n) /\ InOrder(n) /\ FreeBut(r, n)
  BY DEF DeletionFits, GroupsOrdered, InOrder, FreeBut
<1>4. Platform!Put(r, n) /\ Platform!Stay
  BY <1>1
<1> HIDE DEF n
<1> QED
  BY <1>2, <1>3, <1>4, OnlyMoves DEF RequestFits

LEMMA LockGroupKeeps ==
  ASSUME PlatformInv, NEW r \in Requests, Platform!LockGroup(r)
  PROVE  PlatformInv'
<1> DEFINE e == request[r]
           g == Platform!First(e.left)
           rest == e.left \ {g}
           held == e.held \cup {<<"group", g>>}
           n == [e EXCEPT !.left = rest, !.held = held]
<1>1. /\ e.op = "group" /\ e.step = "groups" /\ e.left # {}
        /\ Platform!GroupHolder(r, g, TRUE) = {}
      /\ Platform!Put(r, n) /\ Platform!Stay
  BY DEF Platform!LockGroup, Platform!At
<1>2. e \in Removals /\ GroupsOrdered(e)
  BY <1>1, OneRequest, RequestTells DEF RequestFits, DeletionFits
<1>3. g \in e.left /\ g \in RoleGroups /\ \A y \in e.left \ {g} : g < y
  <2>1. e.left \in SUBSET (People \cup RoleGroups) /\ e.left \subseteq RoleGroups
    BY <1>2 DEF Removals, GroupsOrdered
  <2> QED
    BY <1>1, <2>1, TheFirstLeft
<1>4. \A q \in Requests \ {r} :
         <<"group", g>> \notin request[q].held /\ g \notin request[q].shared
  BY <1>1 DEF Platform!GroupHolder
<1> HIDE DEF g
<1>5. /\ n \in Removals /\ n.op = "group" /\ n.step = "groups" /\ n.left = rest
      /\ n.held = held /\ n.who = e.who /\ n.into = e.into /\ n.shared = {}
  <2>1. /\ rest \in SUBSET (People \cup RoleGroups)
        /\ held \in SUBSET ({"row"} \X People \cup {"group"} \X RoleGroups)
    BY <1>2, <1>3 DEF Removals
  <2> HIDE DEF rest, held
  <2> QED
    BY <1>1, <1>2, <2>1 DEF Removals
<1> HIDE DEF n
<1>6. GroupsOrdered(n)
  BY <1>2, <1>3, <1>5 DEF GroupsOrdered
<1>7. DeletionFits(n) /\ InOrder(n)
  BY <1>5, <1>6 DEF DeletionFits, InOrder, GroupsOrdered
<1>8. FreeBut(r, n)
  <2>1. e.shared = {}
    BY <1>2 DEF Removals
  <2> QED
    BY <1>4, <1>5 DEF FreeBut, PlatformInv, LocksApart
<1> HIDE DEF e
<1> QED
  BY <1>1, <1>5, <1>7, <1>8, OnlyMoves DEF RequestFits

LEMMA ReadMembersKeeps ==
  ASSUME PlatformInv, NEW r \in Requests, Platform!ReadMembers(r)
  PROVE  PlatformInv'
<1> DEFINE e == request[r]
           members == {p \in People : Platform!Known(p) /\ admin[p].group = e.who}
           n == [e EXCEPT !.step = "members", !.left = members]
<1>1. /\ e.op = "group" /\ e.step = "groups" /\ e.left = {}
        /\ {e.who, e.into} \subseteq platformGroups
      /\ Platform!Put(r, n) /\ Platform!Stay
  BY DEF Platform!ReadMembers, Platform!At
<1>2. e \in Removals /\ GroupsOrdered(e)
  BY <1>1, OneRequest, RequestTells DEF RequestFits, DeletionFits
<1>3. /\ n \in Removals /\ n.op = "group" /\ n.step = "members" /\ n.left = members
      /\ n.held = e.held /\ n.who = e.who /\ n.into = e.into /\ n.shared = {}
  BY <1>2 DEF Removals
<1> HIDE DEF n
<1>4. \A p : <<"row", p>> \notin e.held
  BY <1>2 DEF GroupsOrdered
<1>5. DeletionFits(n) /\ InOrder(n)
  BY <1>1, <1>2, <1>3, <1>4 DEF DeletionFits, InOrder, GroupsOrdered, MembersKnown
<1>6. FreeBut(r, n)
  BY <1>3 DEF FreeBut, PlatformInv, LocksApart
<1> HIDE DEF e
<1> QED
  BY <1>1, <1>3, <1>5, <1>6, OnlyMoves DEF RequestFits

LEMMA LockMemberKeeps ==
  ASSUME PlatformInv, NEW r \in Requests, Platform!LockMember(r)
  PROVE  PlatformInv'
<1> DEFINE e == request[r]
           p == Platform!First(e.left)
           rest == e.left \ {p}
           held == IF Platform!Known(p) /\ admin[p].group = e.who
                   THEN e.held \cup {<<"row", p>>} ELSE e.held
           n == [e EXCEPT !.left = rest, !.held = held]
<1>1. e.op = "group" /\ e.step = "members" /\ e.left # {} /\ Platform!RowHolder(r, p) = {}
        /\ Platform!Put(r, n) /\ Platform!Stay
  BY DEF Platform!LockMember, Platform!At
<1>2. e \in Removals /\ MembersKnown(e) /\ InOrder(e)
  BY <1>1, OneRequest, RequestTells DEF RequestFits, DeletionFits
<1>3. p \in e.left /\ p \in People /\ \A y \in e.left \ {p} : p < y
  BY <1>1, <1>2, TheFirstLeft DEF Removals, MembersKnown
<1>4. \A q \in Requests \ {r} : <<"row", p>> \notin request[q].held
  BY <1>1, RowIsFree
<1> HIDE DEF p
<1>5. /\ n \in Removals /\ n.op = "group" /\ n.step = "members" /\ n.left = rest
      /\ n.shared = {} /\ n.who = e.who /\ n.into = e.into /\ n.held = held
  <2>1. /\ rest \in SUBSET (People \cup RoleGroups)
        /\ held \in SUBSET ({"row"} \X People \cup {"group"} \X RoleGroups)
    BY <1>2, <1>3 DEF Removals
  <2> HIDE DEF rest, held
  <2> QED
    BY <1>1, <1>2, <2>1 DEF Removals
<1> HIDE DEF n
<1>6. MembersKnown(n)
  BY <1>2, <1>3, <1>5 DEF MembersKnown
<1>7. InOrder(n)
  BY <1>2, <1>3, <1>5 DEF InOrder
<1>8. FreeBut(r, n)
  BY <1>4, <1>5 DEF FreeBut, PlatformInv, LocksApart
<1> HIDE DEF e
<1> QED
  BY <1>1, <1>5, <1>6, <1>7, <1>8, OnlyMoves DEF RequestFits, DeletionFits

-----------------------------------------------------------------------------
(* The writes                                                              *)

\* A write takes the changes of what it writes out of date, and leaves the locks.
LEMMA AfterWrite ==
  ASSUME PlatformInv, NEW r \in Requests, NEW some, Platform!Written(r, some)
  PROVE  /\ request' \in [Requests -> {Platform!NoRequest} \cup Changes \cup Removals]
         /\ LocksApart'
         /\ request'[r] = Platform!NoRequest
         /\ \A q \in Requests \ {r} :
              \/ request'[q] = request[q]
                /\ (request[q].op = "change" => request[q].who \notin some)
              \/ /\ request[q].op = "change" /\ request[q].who \in some
                 /\ request'[q] = [request[q] EXCEPT !.current = FALSE]
<1>1. \A q \in Requests :
        request'[q] = IF q = r THEN Platform!NoRequest
                      ELSE IF request[q].op = "change" /\ request[q].who \in some
                           THEN [request[q] EXCEPT !.current = FALSE] ELSE request[q]
  BY DEF Platform!Written
<1>2. ASSUME NEW q \in Requests
      PROVE  /\ request'[q] \in {Platform!NoRequest} \cup Changes \cup Removals
             /\ request'[q].held \subseteq request[q].held
             /\ request'[q].shared \subseteq request[q].shared
  <2>1. CASE q = r
    <3>1. request'[q] = Platform!NoRequest
      BY <1>1, <2>1
    <3>2. Platform!NoRequest.held = {} /\ Platform!NoRequest.shared = {}
      BY DEF Platform!NoRequest
    <3> QED
      BY <3>1, <3>2
  <2>2. CASE q # r /\ request[q].op = "change" /\ request[q].who \in some
    <3>1. request[q] \in Changes
      BY <2>2, OneRequest, RequestTells
    <3>2. request'[q] = [request[q] EXCEPT !.current = FALSE]
      BY <1>1, <2>2
    <3> QED
      BY <3>1, <3>2 DEF Changes
  <2>3. CASE q # r /\ ~(request[q].op = "change" /\ request[q].who \in some)
    BY <1>1, <2>3, OneRequest
  <2> QED
    BY <2>1, <2>2, <2>3
<1>3. DOMAIN request' = Requests /\ request' = [q \in Requests |-> request'[q]]
  BY DEF Platform!Written
<1>4. LocksApart'
  BY <1>2 DEF PlatformInv, LocksApart
<1> QED
  BY <1>1, <1>2, <1>3, <1>4

\* What a change relies on, an account written by somebody else does not touch.
LEMMA ChangeStillFits ==
  ASSUME NEW e \in Changes, ChangeFits(e), InOrder(e), e.shared \subseteq platformGroups',
         \A p \in People : <<"row", p>> \in e.held => Platform!ActiveMaster(p)',
         NEW d, \/ d = e /\ admin'[e.who] = admin[e.who]
                \/ d = [e EXCEPT !.current = FALSE]
  PROVE  RequestFits(d)'
<1>1. /\ d.op = "change" /\ d.step = e.step /\ d.left = e.left /\ d.who = e.who
      /\ d.was = e.was /\ d.next = e.next /\ d.leaves = e.leaves
      /\ d.held = e.held /\ d.shared = e.shared /\ d.op # "group"
      /\ d.current => e.current /\ admin'[e.who] = admin[e.who]
  BY DEF Changes
<1>2. Regroups(d) <=> Regroups(e)
  BY <1>1 DEF Regroups
<1>3. ChangeFits(d)'
  <2>1. d.current => admin'[d.who] = d.was
    BY <1>1 DEF ChangeFits
  <2>2. \A p \in People : <<"row", p>> \in d.held => Platform!ActiveMaster(p)'
    BY <1>1
  <2>3. /\ d.shared \subseteq platformGroups'
        /\ d.shared = IF d.step # "group" /\ Regroups(d) THEN {d.next.group} ELSE {}
        /\ d.step = "group" => Regroups(d)
    BY <1>1, <1>2 DEF ChangeFits
  <2>4. /\ d.leaves <=> /\ d.was.state = "ACTIVE" /\ d.was.group = MasterGroup
                        /\ d.next.state # "ACTIVE" \/ d.next.group # MasterGroup
        /\ IF d.was.state \in {"ACTIVE", "INACTIVE"}
           THEN d.next.state = "deleted" => d.next.group = d.was.group
           ELSE d.next.state = "ACTIVE"
        /\ d.held # {} \/ d.left # {} => d.leaves /\ d.step \in {"locking", "write"}
        /\ d.step = "locking" => d.leaves
        /\ d.step = "write" => d.left = {}
        /\ d.step = "write" /\ d.leaves => \E p \in People \ {d.who} : <<"row", p>> \in d.held
    BY <1>1 DEF ChangeFits
  <2>5. d.step \in {"locking", "write"} /\ d.leaves /\ d.current =>
          d.who \in d.left \/ <<"row", d.who>> \in d.held
    BY <1>1 DEF ChangeFits
  <2> QED
    BY ONLY <2>1, <2>2, <2>3, <2>4, <2>5 DEF ChangeFits, Regroups
<1>4. InOrder(d)'
  BY <1>1 DEF InOrder
<1> QED
  BY <1>1, <1>3, <1>4 DEF RequestFits

\* What a deletion relies on, while the accounts of its role group are as they were.
LEMMA RemovalStillFits ==
  ASSUME NEW e \in Removals, DeletionFits(e), InOrder(e),
         ASSUME MembersKnown(e)
         PROVE  /\ {e.who, e.into} \subseteq platformGroups'
                /\ \A x \in People : <<"row", x>> \in e.held =>
                  Platform!Known(x)' /\ admin'[x].group = e.who
                /\ \A x \in People : Platform!Known(x)' /\ admin'[x].group = e.who =>
                      x \in e.left \/ <<"row", x>> \in e.held
  PROVE  RequestFits(e)'
<1>1. e.op = "group" /\ e.op # "change"
  BY DEF Removals
<1>2. e.step = "members" => MembersKnown(e)'
  BY DEF DeletionFits, MembersKnown
<1>3. e.step = "groups" => GroupsOrdered(e)'
  BY DEF DeletionFits, GroupsOrdered
<1>4. InOrder(e)'
  BY DEF InOrder
<1> QED
  BY <1>1, <1>2, <1>3, <1>4 DEF RequestFits, DeletionFits

LEMMA ChangeKeepsPlatform ==
  ASSUME PlatformInv, NEW r \in Requests, Platform!Change(r)
  PROVE  PlatformInv'
<1>1. PICK e : e = request[r]
  OBVIOUS
<1>2. PICK p : p = e.who
  OBVIOUS
<1>3. /\ e.op = "change" /\ e.step = "write" /\ Platform!Matches(r)
        /\ Platform!RowHolder(r, p) = {}
      /\ Platform!Written(r, {p}) /\ platformGroups' = platformGroups
      /\ admin' = [admin EXCEPT ![p].state = e.next.state,
                                ![p].group = IF e.next.state = "deleted" THEN @ ELSE e.next.group]
  BY <1>1, <1>2 DEF Platform!Change, Platform!At
<1>4. e \in Changes /\ ChangeFits(e) /\ InOrder(e)
  BY <1>1, <1>3, OneRequest, RequestTells DEF RequestFits
<1>5. p \in People /\ admin \in [People -> PlatformAccounts] /\ admin[p] \in PlatformAccounts
      /\ e.next \in [state : {"ACTIVE", "INACTIVE", "deleted"}, group : Platform!AllGroups]
      /\ e.was \in PlatformAccounts
  BY <1>2, <1>4 DEF Changes, PlatformInv, PlatformTyped
<1>6. PICK n : n = [state |-> e.next.state,
                    group |-> IF e.next.state = "deleted" THEN admin[p].group ELSE e.next.group]
  OBVIOUS
<1>7. admin' = [admin EXCEPT ![p] = n]
  <2>1. PICK first : first = [admin[p] EXCEPT !.state = e.next.state]
    OBVIOUS
  <2>2. PICK a : a = [admin EXCEPT ![p] = first]
    OBVIOUS
  <2>3. PICK g : g = IF e.next.state = "deleted" THEN admin[p].group ELSE e.next.group
    OBVIOUS
  <2>4. admin' = [a EXCEPT ![p] = [a[p] EXCEPT !.group = g]]
    BY <1>3, <2>1, <2>2, <2>3
  <2>5. a[p] = first
    BY <1>5, <2>2
  <2>6. first = [state |-> e.next.state, group |-> admin[p].group]
    BY <1>5, <2>1 DEF PlatformAccounts
  <2>7. [first EXCEPT !.group = g] = n
    BY <1>6, <2>3, <2>6
  <2>8. [a EXCEPT ![p] = n] = [admin EXCEPT ![p] = n]
    BY <1>5, <2>2
  <2> QED
    BY <2>4, <2>5, <2>7, <2>8
<1>8. n \in PlatformAccounts
  BY <1>5, <1>6 DEF PlatformAccounts, Platform!States
<1>9. n.state = e.next.state /\ (e.next.state # "deleted" => n = e.next)
      /\ (e.next.state = "deleted" => n.group = admin[p].group)
  BY <1>5, <1>6
<1>10. \A x \in People : admin'[x] = IF x = p THEN n ELSE admin[x]
  BY <1>5, <1>7
<1>11. admin' \in [People -> PlatformAccounts]
  BY <1>5, <1>7, <1>8
<1>12. \A q \in Requests \ {r} : <<"row", p>> \notin request[q].held
  BY <1>3, RowIsFree
<1>13. e.next.state # "deleted" => e.current /\ admin[p] = e.was
  BY <1>1, <1>2, <1>3, <1>4 DEF Platform!Matches, ChangeFits
<1>14. e.next.state = "deleted" =>
         admin[p].state = e.was.state /\ (Platform!Master(p) <=> e.was.group = MasterGroup)
  BY <1>1, <1>2, <1>3 DEF Platform!Matches
<1>15. Platform!AlwaysAMaster'
  <2>1. CASE e.leaves
    <3>1. PICK x \in People \ {p} : <<"row", x>> \in e.held
      BY <1>2, <1>3, <1>4, <2>1 DEF ChangeFits
    <3>2. Platform!ActiveMaster(x)
      BY <1>4, <3>1 DEF ChangeFits
    <3>3. Platform!ActiveMaster(x)'
      BY <1>10, <3>1, <3>2 DEF Platform!ActiveMaster, Platform!Master
    <3> QED
      BY <3>1, <3>3 DEF Platform!AlwaysAMaster
  <2>2. CASE ~e.leaves
    <3>1. PICK x \in People : Platform!ActiveMaster(x)
      BY DEF PlatformInv, Platform!AlwaysAMaster
    <3>2. CASE x # p
      <4>1. Platform!ActiveMaster(x)'
        BY <1>10, <3>1, <3>2 DEF Platform!ActiveMaster, Platform!Master
      <4> QED
        BY <4>1 DEF Platform!AlwaysAMaster
    <3>3. CASE x = p
      <4>1. e.was.state = "ACTIVE" /\ e.was.group = MasterGroup
        BY <1>13, <1>14, <3>1, <3>3 DEF Platform!ActiveMaster, Platform!Master
      <4>2. e.next.state = "ACTIVE" /\ e.next.group = MasterGroup
        BY <1>4, <2>2, <4>1 DEF ChangeFits
      <4>3. Platform!ActiveMaster(p)'
        BY <1>5, <1>9, <1>10, <4>2 DEF Platform!ActiveMaster, Platform!Master
      <4> QED
        BY <1>5, <4>3 DEF Platform!AlwaysAMaster
    <3> QED
      BY <3>2, <3>3
  <2> QED
    BY <2>1, <2>2
<1>16. n.state \in {"ACTIVE", "INACTIVE"} =>
         \/ e.shared = {n.group}
         \/ admin[p] = e.was /\ Platform!Known(p) /\ n.group = admin[p].group
  BY <1>3, <1>4, <1>9, <1>13 DEF ChangeFits, Regroups, Platform!Known
<1>17. Platform!GroupsAlive'
  <2>1. n.state \in {"ACTIVE", "INACTIVE"} => n.group \in platformGroups
    BY <1>4, <1>5, <1>16 DEF ChangeFits, PlatformInv, Platform!GroupsAlive
  <2> SUFFICES ASSUME NEW x \in People, Platform!Known(x)'
               PROVE  admin'[x].group \in platformGroups'
    BY DEF Platform!GroupsAlive
  <2>2. CASE x = p
    <3>1. admin'[x] = n /\ n.state \in {"ACTIVE", "INACTIVE"} /\ platformGroups' = platformGroups
      BY <1>3, <1>10, <2>2 DEF Platform!Known
    <3> QED
      BY <2>1, <3>1
  <2>3. CASE x # p
    <3>1. admin'[x] = admin[x] /\ Platform!Known(x) /\ platformGroups' = platformGroups
      BY <1>3, <1>10, <2>3 DEF Platform!Known
    <3>2. admin[x].group \in platformGroups
      BY <3>1 DEF PlatformInv, Platform!GroupsAlive
    <3> QED
      BY <3>1, <3>2
  <2> QED
    BY <2>2, <2>3
<1>18. ASSUME NEW q \in Requests, NEW f, f = request'[q]
       PROVE  RequestFits(f)'
  <2>1. PICK d : d = request[q]
    OBVIOUS
  <2>2. CASE q = r \/ d.op = "none"
    <3>0. q # r => request[q] = Platform!NoRequest
      BY <2>1, <2>2, OneRequest, RequestTells
    <3>1. f = Platform!NoRequest
      BY <1>3, <1>18, <3>0 DEF Platform!Written, Platform!NoRequest
    <3> QED
      BY <3>1 DEF RequestFits, Platform!NoRequest
  <2>3. CASE q # r /\ d.op = "change"
    <3>1. d \in Changes /\ ChangeFits(d) /\ InOrder(d)
      BY <2>1, <2>3, OneRequest, RequestTells DEF RequestFits
    <3>2. d.shared \subseteq platformGroups' /\ d.who \in People
      BY <1>3, <3>1 DEF ChangeFits, Changes
    <3>3. \A x \in People : <<"row", x>> \in d.held => Platform!ActiveMaster(x)'
      <4> SUFFICES ASSUME NEW x \in People, <<"row", x>> \in d.held
                   PROVE  Platform!ActiveMaster(x)'
        OBVIOUS
      <4>1. Platform!ActiveMaster(x) /\ x # p
        BY <1>12, <2>1, <2>3, <3>1 DEF ChangeFits
      <4> QED
        BY <1>10, <4>1 DEF Platform!ActiveMaster, Platform!Master
    <3>4. \/ f = d /\ d.who # p
          \/ f = [d EXCEPT !.current = FALSE]
      BY <1>3, <1>18, <2>1, <2>3, AfterWrite
    <3>5. \/ f = d /\ admin'[d.who] = admin[d.who]
          \/ f = [d EXCEPT !.current = FALSE]
      BY <1>10, <3>2, <3>4
    <3> QED
      BY <3>1, <3>2, <3>3, <3>5, ChangeStillFits
  <2>4. CASE q # r /\ d.op = "group"
    <3>1. d \in Removals /\ DeletionFits(d) /\ InOrder(d) /\ d.op # "change"
      BY <2>1, <2>4, OneRequest, RequestTells DEF RequestFits
    <3>2. f = d
      BY <1>3, <1>18, <2>1, <2>4, AfterWrite
    <3>3. ASSUME MembersKnown(d)
          PROVE  /\ {d.who, d.into} \subseteq platformGroups'
                 /\ \A x \in People : <<"row", x>> \in d.held =>
                   Platform!Known(x)' /\ admin'[x].group = d.who
                 /\ \A x \in People : Platform!Known(x)' /\ admin'[x].group = d.who =>
                       x \in d.left \/ <<"row", x>> \in d.held
      <4>1. \A x \in People : <<"row", x>> \in d.held =>
              Platform!Known(x)' /\ admin'[x].group = d.who
        BY <1>10, <1>12, <2>1, <2>4, <3>3 DEF MembersKnown, Platform!Known
      <4>2. ASSUME NEW x \in People, Platform!Known(x)', admin'[x].group = d.who
            PROVE  x \in d.left \/ <<"row", x>> \in d.held
        <5>1. CASE x # p
          BY <1>10, <3>3, <4>2, <5>1 DEF MembersKnown, Platform!Known
        <5>2. CASE x = p
          <6>1. n.state \in {"ACTIVE", "INACTIVE"} /\ n.group = d.who
            BY <1>10, <4>2, <5>2 DEF Platform!Known
          <6>2. e.shared # {n.group}
            BY <1>1, <2>1, <2>4, <3>3, <6>1 DEF MembersKnown, PlatformInv, LocksApart
          <6> QED
            BY <1>16, <3>3, <5>2, <6>1, <6>2 DEF MembersKnown
        <5> QED
          BY <5>1, <5>2
      <4> QED
        BY <1>3, <3>3, <4>1, <4>2 DEF MembersKnown
    <3> QED
      BY <3>1, <3>2, <3>3, RemovalStillFits
  <2> QED
    BY <2>1, <2>2, <2>3, <2>4, OneRequest, RequestTells
<1>19. RequestsFit'
  BY <1>18 DEF RequestsFit
<1>20. PlatformTyped' /\ LocksApart'
  BY <1>3, <1>11, AfterWrite DEF PlatformInv, PlatformTyped
<1> QED
  BY <1>15, <1>17, <1>19, <1>20 DEF PlatformInv

LEMMA RemovePlatformGroupKeeps ==
  ASSUME PlatformInv, NEW r \in Requests, Platform!RemoveGroup(r)
  PROVE  PlatformInv'
<1>1. PICK e : e = request[r]
  OBVIOUS
<1>2. PICK members : members = {p \in People : <<"row", p>> \in e.held}
  OBVIOUS
<1>3. /\ e.op = "group" /\ e.step = "members" /\ e.left = {}
      /\ members # {} => e.into # e.who
      /\ admin' = [p \in People |-> IF p \in members
                      THEN [admin[p] EXCEPT !.group = e.into] ELSE admin[p]]
      /\ platformGroups' = platformGroups \ {e.who}
      /\ Platform!Written(r, members)
  BY <1>1, <1>2 DEF Platform!RemoveGroup, Platform!At
<1>4. e \in Removals /\ MembersKnown(e) /\ e.who \in RoleGroups /\ e.into \in RoleGroups
  BY <1>1, <1>3, OneRequest, RequestTells DEF RequestFits, DeletionFits, Removals
<1>5. /\ members \subseteq People
      /\ \A p \in members : Platform!Known(p) /\ admin[p].group = e.who
      /\ \A p \in People : Platform!Known(p) /\ admin[p].group = e.who => p \in members
      /\ {e.who, e.into} \subseteq platformGroups
  BY <1>2, <1>3, <1>4 DEF MembersKnown
<1>6. admin \in [People -> PlatformAccounts] /\ MasterGroup \in platformGroups
        /\ platformGroups \subseteq Platform!AllGroups
  BY DEF PlatformInv, PlatformTyped
<1>7. ASSUME NEW x \in People
      PROVE  /\ x \notin members => admin'[x] = admin[x]
             /\ x \in members => admin'[x].state = admin[x].state /\ admin'[x].group = e.into
             /\ admin'[x] \in PlatformAccounts
  <2>1. admin[x] \in PlatformAccounts /\ e.into \in Platform!AllGroups
    BY <1>4, <1>6 DEF Platform!AllGroups
  <2> QED
    BY <1>3, <2>1 DEF PlatformAccounts
<1>8. admin' \in [People -> PlatformAccounts]
  BY <1>3, <1>7
<1>9. e.who # MasterGroup
  BY <1>4, PlatformConstants
<1>10. ASSUME NEW x \in People, Platform!ActiveMaster(x)
       PROVE  x \notin members /\ Platform!ActiveMaster(x)'
  BY <1>5, <1>7, <1>9, <1>10 DEF Platform!ActiveMaster, Platform!Master
<1>11. Platform!AlwaysAMaster'
  BY <1>10 DEF PlatformInv, Platform!AlwaysAMaster
<1>12. Platform!GroupsAlive'
  <2> SUFFICES ASSUME NEW x \in People, Platform!Known(x)'
               PROVE  admin'[x].group \in platformGroups'
    BY DEF Platform!GroupsAlive
  <2>1. CASE x \in members
    <3>1. admin'[x].group = e.into /\ e.into \in platformGroups /\ e.into # e.who
      BY <1>3, <1>5, <1>7, <2>1
    <3>2. platformGroups' = platformGroups \ {e.who}
      BY <1>3
    <3> QED
      BY <3>1, <3>2
  <2>2. CASE x \notin members
    <3>1. Platform!Known(x) /\ admin[x].group # e.who /\ admin'[x] = admin[x]
      BY <1>5, <1>7, <2>2 DEF Platform!Known
    <3>2. platformGroups' = platformGroups \ {e.who} /\ admin[x].group \in platformGroups
      BY <1>3, <3>1 DEF PlatformInv, Platform!GroupsAlive
    <3> QED
      BY <3>1, <3>2
  <2> QED
    BY <2>1, <2>2
\* The groups of this deletion are locked against everybody else.
<1>13. ASSUME NEW q \in Requests \ {r}, NEW d, d = request[q]
       PROVE  /\ e.who \notin d.shared
              /\ <<"group", e.who>> \notin d.held /\ <<"group", e.into>> \notin d.held
              /\ \A x \in members : <<"row", x>> \notin d.held
  BY <1>1, <1>2, <1>4, <1>13 DEF MembersKnown, PlatformInv, LocksApart
<1>14. ASSUME NEW q \in Requests, NEW f, f = request'[q]
       PROVE  RequestFits(f)'
  <2>1. PICK d : d = request[q]
    OBVIOUS
  <2>2. CASE q = r \/ d.op = "none"
    <3>0. q # r => request[q] = Platform!NoRequest
      BY <2>1, <2>2, OneRequest, RequestTells
    <3>1. f = Platform!NoRequest
      BY <1>3, <1>14, <3>0 DEF Platform!Written, Platform!NoRequest
    <3> QED
      BY <3>1 DEF RequestFits, Platform!NoRequest
  <2>3. CASE q # r /\ d.op = "change"
    <3>1. d \in Changes /\ ChangeFits(d) /\ InOrder(d)
      BY <2>1, <2>3, OneRequest, RequestTells DEF RequestFits
    <3>2. d.shared \subseteq platformGroups' /\ d.who \in People
      BY <1>3, <1>13, <2>1, <2>3, <3>1 DEF ChangeFits, Changes
    <3>3. \A x \in People : <<"row", x>> \in d.held => Platform!ActiveMaster(x)'
      BY <1>10, <3>1 DEF ChangeFits
    <3>4. \/ f = d /\ d.who \notin members
          \/ f = [d EXCEPT !.current = FALSE]
      BY <1>3, <1>14, <2>1, <2>3, AfterWrite
    <3>5. \/ f = d /\ admin'[d.who] = admin[d.who]
          \/ f = [d EXCEPT !.current = FALSE]
      BY <1>7, <3>2, <3>4
    <3> QED
      BY <3>1, <3>2, <3>3, <3>5, ChangeStillFits
  <2>4. CASE q # r /\ d.op = "group"
    <3>1. d \in Removals /\ DeletionFits(d) /\ InOrder(d) /\ d.op # "change"
      BY <2>1, <2>4, OneRequest, RequestTells DEF RequestFits
    <3>2. f = d
      BY <1>3, <1>14, <2>1, <2>4, AfterWrite
    <3>3. ASSUME MembersKnown(d)
          PROVE  /\ {d.who, d.into} \subseteq platformGroups'
                 /\ \A x \in People : <<"row", x>> \in d.held =>
                   Platform!Known(x)' /\ admin'[x].group = d.who
                 /\ \A x \in People : Platform!Known(x)' /\ admin'[x].group = d.who =>
                       x \in d.left \/ <<"row", x>> \in d.held
      <4>1. e.who # d.who /\ e.who # d.into /\ e.into # d.who
        BY <1>13, <2>1, <2>4, <3>3 DEF MembersKnown
      <4>2. \A x \in People : <<"row", x>> \in d.held =>
              Platform!Known(x)' /\ admin'[x].group = d.who
        BY <1>7, <1>13, <2>1, <2>4, <3>3 DEF MembersKnown, Platform!Known
      <4>3. \A x \in People : Platform!Known(x)' /\ admin'[x].group = d.who =>
                       x \in d.left \/ <<"row", x>> \in d.held
        BY <1>7, <3>3, <4>1 DEF MembersKnown, Platform!Known
      <4> QED
        BY <1>3, <3>3, <4>1, <4>2, <4>3 DEF MembersKnown
    <3> QED
      BY <3>1, <3>2, <3>3, RemovalStillFits
  <2> QED
    BY <2>1, <2>2, <2>3, <2>4, OneRequest, RequestTells
<1>15. RequestsFit'
  BY <1>14 DEF RequestsFit
<1>16. PlatformTyped' /\ LocksApart'
  BY <1>3, <1>6, <1>8, <1>9, AfterWrite DEF PlatformInv, PlatformTyped
<1> QED
  BY <1>11, <1>12, <1>15, <1>16 DEF PlatformInv

LEMMA PlatformInit ==
  Platform!Init => PlatformInv
<1> SUFFICES ASSUME Platform!Init PROVE PlatformInv
  OBVIOUS
<1>1. PICK p \in People :
        admin = [q \in People |-> IF q = p THEN [state |-> "ACTIVE", group |-> MasterGroup]
                                  ELSE [state |-> "none", group |-> MasterGroup]]
  BY DEF Platform!Init
<1>2. Platform!NoRequest.op = "none" /\ Platform!NoRequest.held = {}
        /\ Platform!NoRequest.shared = {}
  BY DEF Platform!NoRequest
<1>3. \A q \in Requests : request[q] = Platform!NoRequest
  BY DEF Platform!Init
<1>4. PlatformTyped
  BY <1>1 DEF Platform!Init, PlatformTyped, PlatformAccounts, Platform!States,
     Platform!AllGroups
<1>5. LocksApart /\ RequestsFit
  BY <1>2, <1>3 DEF LocksApart, RequestsFit, RequestFits
<1>6. Platform!ActiveMaster(p)
  BY <1>1 DEF Platform!ActiveMaster, Platform!Master
<1>7. Platform!GroupsAlive
  BY <1>1 DEF Platform!Init, Platform!GroupsAlive, Platform!Known, Platform!AllGroups
<1> QED
  BY <1>4, <1>5, <1>6, <1>7 DEF PlatformInv, Platform!AlwaysAMaster

LEMMA PlatformNext ==
  PlatformInv /\ [Platform!Next]_platformSide => PlatformInv'
<1> SUFFICES ASSUME PlatformInv, [Platform!Next]_platformSide PROVE PlatformInv'
  OBVIOUS
<1>1. CASE UNCHANGED platformSide
  <2>1. UNCHANGED <<admin, platformGroups>> /\ request' = request
    BY <1>1 DEF platformSide
  <2>2. RequestsFit'
    BY <2>1, FitsWhileStill DEF PlatformInv, RequestsFit
  <2> QED
    BY <2>1, <2>2 DEF PlatformInv, PlatformTyped, LocksApart, Platform!AlwaysAMaster,
       Platform!GroupsAlive, Platform!ActiveMaster, Platform!Master, Platform!Known
<1>2. CASE Platform!Next
  <2>1. PICK r \in Requests :
          \/ \E p \in People : Platform!BeginChange(r, p)
          \/ Platform!TakeGroup(r) \/ Platform!ReadMasters(r) \/ Platform!LockMaster(r)
            \/ Platform!AnotherMaster(r) \/ Platform!Change(r)
          \/ Platform!BeginRemoval(r) \/ Platform!LockGroup(r) \/ Platform!ReadMembers(r)
            \/ Platform!LockMember(r) \/ Platform!RemoveGroup(r)
          \/ Platform!GiveUp(r)
    BY <1>2 DEF Platform!Next
  <2> QED
    BY <2>1, BeginChangeKeeps, TakeGroupKeeps, ReadMastersKeeps, LockMasterKeeps,
       AnotherMasterKeeps, ChangeKeepsPlatform, BeginRemovalKeeps, LockGroupKeeps,
       ReadMembersKeeps, LockMemberKeeps, RemovePlatformGroupKeeps, GiveUpKeepsPlatform
<1> QED
  BY <1>1, <1>2

-----------------------------------------------------------------------------
(* No circles                                                              *)

\* What a request that waits is waiting for, in the order of locking: role groups by
\* their numbers, which b bounds, then rows by their ids.
Awaited(e, b) ==
    IF e.step = "group" THEN e.next.group
    ELSE IF e.step = "groups" THEN Platform!First(e.left)
    ELSE b + 1 + (IF e.step = "write" THEN e.who ELSE Platform!First(e.left))

NumbersTo(b) == b \in Nat /\ \A x \in People \cup Platform!AllGroups : x \in 0 .. b

\* The four ways in which request r, which reads e, waits.
WaitsAt(r, e) ==
    \/ /\ e \in Changes /\ e.op = "change" /\ e.step = "group" /\ e.held = {}
       /\ Platform!WaitsFor(r) = Platform!GroupHolder(r, e.next.group, FALSE)
    \/ /\ e \in Removals /\ e.op = "group" /\ e.step = "groups" /\ e.left # {}
       /\ Platform!WaitsFor(r) = Platform!GroupHolder(r, Platform!First(e.left), TRUE)
    \/ /\ e \in Changes \cup Removals /\ e.step \in {"locking", "members"} /\ e.left # {}
       /\ Platform!WaitsFor(r) = Platform!RowHolder(r, Platform!First(e.left))
    \/ /\ e \in Changes /\ e.op = "change" /\ e.step = "write" /\ e.held = {}
       /\ Platform!WaitsFor(r) = Platform!RowHolder(r, e.who)

LEMMA WaitingTells ==
  ASSUME PlatformInv, NEW r \in Requests, Platform!WaitsFor(r) # {},
         ~(Platform!At(r, "change", "write") /\ ~request[r].current),
         NEW e, e = request[r]
  PROVE  WaitsAt(r, e)
<1>1. e \in {Platform!NoRequest} \cup Changes \cup Removals /\ RequestFits(e)
  BY OneRequest
<1>2. CASE e.op = "change"
  <2>1. e \in Changes /\ ChangeFits(e) /\ e.op # "group" /\ e.op # "none"
    BY <1>1, <1>2, RequestTells DEF RequestFits
  <2>2. e.step \in {"group", "masters", "locking", "write"}
    BY <2>1 DEF Changes
  <2>3. CASE e.step = "group"
    <3>1. e.held = {}
      BY <2>1, <2>3 DEF ChangeFits
    <3>2. Platform!WaitsFor(r) = Platform!GroupHolder(r, e.next.group, FALSE)
      BY <1>2, <2>1, <2>3 DEF Platform!WaitsFor, Platform!At
    <3> QED
      BY <1>2, <2>1, <2>3, <3>1, <3>2 DEF WaitsAt
  <2>4. CASE e.step = "write"
    <3>1. Platform!WaitsFor(r) = Platform!RowHolder(r, e.who) /\ e.current
      BY <1>2, <2>1, <2>4 DEF Platform!WaitsFor, Platform!At
    \* One that can take the last master away holds its own row by now.
    <3>2. e.held = {}
      <4> SUFFICES ASSUME e.held # {} PROVE FALSE
        OBVIOUS
      <4>1. <<"row", e.who>> \in e.held
        BY <2>1, <2>4, <3>1 DEF ChangeFits
      <4>2. \A q \in Requests \ {r} : <<"row", e.who>> \notin request[q].held
        BY <4>1 DEF PlatformInv, LocksApart
      <4> QED
        BY <3>1, <4>2 DEF Platform!RowHolder
    <3> QED
      BY <1>2, <2>1, <2>4, <3>1, <3>2 DEF WaitsAt
  <2>5. CASE e.step = "locking" \/ e.step = "masters"
    <3>1. e.step = "locking" /\ e.left # {}
            /\ Platform!WaitsFor(r) = Platform!RowHolder(r, Platform!First(e.left))
      BY <1>2, <2>1, <2>5 DEF Platform!WaitsFor, Platform!At
    <3> QED
      BY <2>1, <3>1 DEF WaitsAt
  <2> QED
    BY <2>2, <2>3, <2>4, <2>5
<1>3. CASE e.op = "group"
  <2>1. e \in Removals /\ e.op # "change" /\ e.op # "none"
    BY <1>1, <1>3, RequestTells
  <2>2. e.step \in {"groups", "members"}
    BY <2>1 DEF Removals
  <2>3. CASE e.step = "groups"
    BY <1>3, <2>1, <2>3 DEF Platform!WaitsFor, Platform!At, WaitsAt
  <2>4. CASE e.step = "members"
    BY <1>3, <2>1, <2>4 DEF Platform!WaitsFor, Platform!At, WaitsAt
  <2> QED
    BY <2>2, <2>3, <2>4
<1>4. CASE e.op = "none"
  BY <1>4 DEF Platform!WaitsFor, Platform!At
<1> QED
  BY <1>1, <1>2, <1>3, <1>4, RequestTells

\* Whoever is waited for waits, if at all, for something later in the order of locking.
LEMMA LaterInOrder ==
  ASSUME PlatformInv, NEW b, NumbersTo(b), NEW r \in Requests, NEW q \in Platform!WaitsFor(r),
         ~(Platform!At(r, "change", "write") /\ ~request[r].current),
         ~(Platform!At(q, "change", "write") /\ ~request[q].current),
         Platform!WaitsFor(q) # {}
  PROVE  /\ Awaited(request[r], b) \in 0 .. 2 * b + 1
         /\ Awaited(request[q], b) \in 0 .. 2 * b + 1
         /\ Awaited(request[r], b) < Awaited(request[q], b)
<1>1. PICK e : e = request[r]
  OBVIOUS
<1>2. PICK d : d = request[q]
  OBVIOUS
<1>3. Platform!WaitsFor(r) # {}
  OBVIOUS
<1>4. WaitsAt(r, e)
  BY ONLY PlatformInv, r \in Requests, <1>1, <1>3, WaitingTells,
     ~(Platform!At(r, "change", "write") /\ ~request[r].current)
<1>5. q \in Requests
  BY <1>4 DEF WaitsAt, Platform!GroupHolder, Platform!RowHolder
<1>6. WaitsAt(q, d)
  BY ONLY PlatformInv, <1>5, <1>2, Platform!WaitsFor(q) # {}, WaitingTells,
     ~(Platform!At(q, "change", "write") /\ ~request[q].current)
<1>7. b \in Nat /\ PlatformTyped /\ \A x \in People \cup Platform!AllGroups : x \in Nat /\ x <= b
  BY DEF NumbersTo, PlatformInv
<1>8. /\ e \in Changes => e.next.group \in Platform!AllGroups /\ e.who \in People
      /\ d \in Changes => d.next.group \in Platform!AllGroups /\ d.who \in People
  BY DEF Changes
<1>9. ASSUME NEW f \in Changes \cup Removals, RequestFits(f), f.left # {}
      PROVE  /\ Platform!First(f.left) \in f.left
             /\ f.step = "groups" => f.op = "group" /\ Platform!First(f.left) \in RoleGroups
             /\ f.step \in {"locking", "members"} => Platform!First(f.left) \in People
             /\ InOrder(f)
             /\ f.step = "groups" => GroupsOrdered(f)
  <2>1. CASE f \in Changes
    <3>1. f.left \in SUBSET (People \cup RoleGroups) /\ f.left \subseteq People /\ f.op = "change"
          /\ f.step # "groups"
      BY <2>1 DEF Changes
    <3> QED
      BY <1>9, <3>1, TheFirstLeft DEF RequestFits
  <2>2. CASE f \in Removals
    <3>1. f.left \in SUBSET (People \cup RoleGroups) /\ f.op = "group" /\ f.op # "change"
          /\ f.step \in {"groups", "members"} /\ f.who \in RoleGroups /\ f.into \in RoleGroups
      BY <2>2 DEF Removals
    <3>2. Platform!First(f.left) \in f.left /\ DeletionFits(f) /\ InOrder(f)
      BY <1>9, <3>1, TheFirstLeft DEF RequestFits
    <3>3. f.step = "groups" => f.left \subseteq RoleGroups
      BY <3>1, <3>2 DEF DeletionFits, GroupsOrdered
    <3>4. f.step = "members" => f.left \subseteq People
      BY <3>2 DEF DeletionFits, MembersKnown
    <3> QED
      BY <3>1, <3>2, <3>3, <3>4 DEF DeletionFits
  <2> QED
    BY <2>1, <2>2
<1>10. RequestFits(e) /\ RequestFits(d)
  BY <1>1, <1>2, <1>5, OneRequest
<1>11. RoleGroups \subseteq Platform!AllGroups
  BY DEF Platform!AllGroups
\* What is awaited at each step.
<1>12. ASSUME NEW f \in Changes \cup Removals, RequestFits(f),
              f \in Changes => f.next.group \in Platform!AllGroups /\ f.who \in People,
              \/ f \in Changes /\ f.step \in {"group", "write"}
              \/ f.left # {} /\ f.step \in {"groups", "locking", "members"}
       PROVE  /\ f.step \in {"group", "groups"} => Awaited(f, b) \in 0 .. b
              /\ f.step \in {"locking", "members", "write"} =>
                Awaited(f, b) \in b + 1 .. 2 * b + 1
  <2>1. CASE f.step = "group"
    BY <1>7, <1>12, <2>1 DEF Awaited
  <2>2. CASE f.step = "groups"
    <3>1. Platform!First(f.left) \in Platform!AllGroups
      BY <1>9, <1>11, <1>12, <2>2
    <3> QED
      BY <1>7, <2>2, <3>1 DEF Awaited
  <2>3. CASE f.step = "write"
    <3>1. f.who \in People
      BY <1>12, <2>3
    <3> QED
      BY <1>7, <2>3, <3>1 DEF Awaited
  <2>4. CASE f.step \in {"locking", "members"}
    <3>1. Platform!First(f.left) \in People
      BY <1>9, <1>12, <2>4
    <3> QED
      BY <1>7, <2>4, <3>1 DEF Awaited
  <2> QED
    BY <1>12, <2>1, <2>2, <2>3, <2>4
<1>13. /\ e.step \in {"group", "groups"} => Awaited(e, b) \in 0 .. b
       /\ e.step \in {"locking", "members", "write"} => Awaited(e, b) \in b + 1 .. 2 * b + 1
  BY <1>4, <1>8, <1>10, <1>12 DEF WaitsAt
<1>14. /\ d.step \in {"group", "groups"} => Awaited(d, b) \in 0 .. b
       /\ d.step \in {"locking", "members", "write"} => Awaited(d, b) \in b + 1 .. 2 * b + 1
  BY <1>6, <1>8, <1>10, <1>12 DEF WaitsAt
<1>15. Awaited(e, b) < Awaited(d, b)
  <2>1. CASE e.step \in {"group", "groups"} /\ d.step \in {"locking", "members", "write"}
    BY <1>7, <1>13, <1>14, <2>1
  <2>2. ASSUME e.step \in {"group", "groups"}, d.step \in {"group", "groups"}
        PROVE  FALSE \/ Awaited(e, b) < Awaited(d, b)
    <3>1. PICK g : /\ g = Awaited(e, b) /\ g \in Platform!AllGroups
                   /\ <<"group", g>> \in d.held \/ g \in d.shared
      <4>1. CASE e.step = "group"
        BY <1>2, <1>4, <1>8, <4>1 DEF WaitsAt, Awaited, Platform!GroupHolder
      <4>2. CASE e.step = "groups"
        BY <1>2, <1>4, <1>9, <1>10, <1>11, <4>2 DEF WaitsAt, Awaited, Platform!GroupHolder
      <4> QED
        BY <2>2, <4>1, <4>2
    <3>2. CASE d.step = "group"
      <4>1. d \in Changes /\ d.held = {} /\ d.op = "change"
        BY <1>6, <3>2 DEF WaitsAt
      <4>2. d.shared = {}
        BY <1>10, <3>2, <4>1 DEF RequestFits, ChangeFits
      <4> QED
        BY <3>1, <4>1, <4>2
    <3>3. CASE d.step = "groups"
      <4>1. d \in Removals /\ d.left # {}
        BY <1>6, <3>3 DEF WaitsAt
      <4>2. d.shared = {} /\ d.held \subseteq {"group"} \X RoleGroups
        BY <1>9, <1>10, <3>3, <4>1 DEF Removals, GroupsOrdered
      <4>3. g \in RoleGroups /\ <<"group", g>> \in d.held
        BY <3>1, <4>2
      <4>4. g < Platform!First(d.left)
        BY <1>9, <1>10, <3>3, <4>1, <4>3 DEF GroupsOrdered
      <4> QED
        BY <3>1, <3>3, <4>4 DEF Awaited
    <3> QED
      BY <2>2, <3>2, <3>3
  <2>3. ASSUME e.step \in {"locking", "members", "write"}
        PROVE  Awaited(e, b) < Awaited(d, b)
    <3>1. PICK p : p \in People /\ Awaited(e, b) = b + 1 + p /\ <<"row", p>> \in d.held
      <4>1. CASE e.step = "write"
        BY <1>2, <1>4, <1>8, <4>1 DEF WaitsAt, Awaited, Platform!RowHolder
      <4>2. CASE e.step \in {"locking", "members"}
        BY <1>2, <1>4, <1>9, <1>10, <4>2 DEF WaitsAt, Awaited, Platform!RowHolder
      <4> QED
        BY <2>3, <4>1, <4>2
    <3>2. d.step # "groups"
      <4> SUFFICES ASSUME d.step = "groups" PROVE FALSE
        OBVIOUS
      <4>1. d.held \subseteq {"group"} \X RoleGroups
        BY <1>6, <1>9, <1>10 DEF WaitsAt, GroupsOrdered
      <4> QED
        BY <3>1, <4>1
    <3>3. d \in Changes \cup Removals /\ d.step \in {"locking", "members"} /\ d.left # {}
      BY <1>6, <3>1, <3>2 DEF WaitsAt
    <3>4. Platform!First(d.left) \in People /\ p < Platform!First(d.left)
      BY <1>9, <1>10, <3>1, <3>3 DEF InOrder
    <3>5. Awaited(d, b) = b + 1 + Platform!First(d.left)
      BY <3>3 DEF Awaited
    <3>6. Platform!First(d.left) \in Nat /\ p \in Nat
      BY <1>7, <3>1, <3>4
    <3> QED
      BY <1>7, <3>1, <3>4, <3>5, <3>6
  <2> QED
    BY <1>4, <1>6, <2>1, <2>2, <2>3 DEF WaitsAt
<1>16. Awaited(e, b) \in 0 .. 2 * b + 1 /\ Awaited(d, b) \in 0 .. 2 * b + 1
  <2>1. 0 .. b \subseteq 0 .. 2 * b + 1 /\ b + 1 .. 2 * b + 1 \subseteq 0 .. 2 * b + 1
    BY <1>7
  <2> QED
    BY <1>4, <1>6, <1>13, <1>14, <2>1 DEF WaitsAt
<1> QED
  BY <1>1, <1>2, <1>15, <1>16

\* Finitely many numbers have a bound.
LEMMA FiniteHasBound ==
  ASSUME NEW S \in SUBSET Nat, IsFiniteSet(S)
  PROVE  \E b \in Nat : \A x \in S : x <= b
<1> DEFINE Bounded(T) == \E b \in Nat : \A x \in T : x <= b
           U == {T \in SUBSET S : ~Bounded(T)}
           C == {Cardinality(T) : T \in U}
<1> SUFFICES ASSUME ~Bounded(S) PROVE FALSE
  OBVIOUS
<1>1. \A T \in U : IsFiniteSet(T) /\ Cardinality(T) \in Nat
  BY FS_Subset, FS_CardinalityType
<1>2. C \in SUBSET Nat /\ C # {}
  BY <1>1
<1>3. PICK c : c \in C /\ \A k \in C : c <= k
  <2> HIDE DEF C
  <2> QED
    BY <1>2, FirstIsSmallest
<1>4. PICK T \in U : c = Cardinality(T)
  BY <1>3
<1>5. \A V \in U : c <= Cardinality(V)
  BY <1>3
<1>6. T \subseteq S /\ IsFiniteSet(T) /\ c \in Nat /\ ~Bounded(T)
  BY <1>1, <1>4
<1>7. PICK x \in T : TRUE
  <2>1. Bounded({})
    OBVIOUS
  <2> HIDE DEF Bounded
  <2> QED
    BY <1>6, <2>1
<1>8. Cardinality(T \ {x}) = c - 1
  BY <1>4, <1>6, <1>7, FS_RemoveElement
<1>9. T \ {x} \notin U
  <2> HIDE DEF U
  <2> QED
    BY <1>5, <1>6, <1>8
<1>10. PICK b \in Nat : \A y \in T \ {x} : y <= b
  BY <1>6, <1>9
<1>11. T \subseteq Nat /\ x \in Nat /\ b + x \in Nat
  BY <1>6, <1>7
<1>12. \A y \in T : y <= b + x
  BY <1>10, <1>11
<1> QED
  BY <1>6, <1>11, <1>12

LEMMA NoCircles ==
  PlatformInv => Platform!NobodyWaitsInACircle
<1> SUFFICES ASSUME PlatformInv, NEW circle \in SUBSET Requests, circle # {},
                    \A r \in circle : ~(Platform!At(r, "change", "write") /\ ~request[r].current),
                    \A r \in circle : Platform!WaitsFor(r) \cap circle # {}
             PROVE  FALSE
  BY DEF Platform!NobodyWaitsInACircle
<1>1. PICK b : NumbersTo(b)
  <2>0. People \cup Platform!AllGroups = People \cup RoleGroups \cup {MasterGroup}
    BY DEF Platform!AllGroups
  <2>1. People \cup Platform!AllGroups \in SUBSET Nat
          /\ IsFiniteSet(People \cup Platform!AllGroups)
    BY <2>0, PlatformConstants
  <2>2. PICK b \in Nat : \A x \in People \cup Platform!AllGroups : x <= b
    BY <2>1, FiniteHasBound
  <2>3. \A x \in People \cup Platform!AllGroups : x \in 0 .. b
    BY <2>1, <2>2
  <2> QED
    BY <2>2, <2>3 DEF NumbersTo
<1>2. b \in Nat
  BY <1>1 DEF NumbersTo
<1>3. ASSUME NEW r \in circle
      PROVE  /\ Awaited(request[r], b) \in 0 .. 2 * b + 1
             /\ \E q \in circle : Awaited(request[r], b) < Awaited(request[q], b)
  <2>1. PICK q : q \in Platform!WaitsFor(r) /\ q \in circle
    BY <1>3
  <2>2. Platform!WaitsFor(q) # {} /\ r \in Requests
    BY <2>1
  <2> QED
    BY ONLY PlatformInv, <1>1, <1>3, <2>1, <2>2, LaterInOrder,
            \A s \in circle : ~(Platform!At(s, "change", "write") /\ ~request[s].current)
<1> DEFINE Left(r) == 2 * b + 1 - Awaited(request[r], b)
           L == {Left(r) : r \in circle}
<1>4. \A r \in circle : Left(r) \in Nat
  BY <1>2, <1>3
<1> HIDE DEF Left
<1>5. L \in SUBSET Nat /\ L # {}
  <2>1. PICK s \in circle : TRUE
    OBVIOUS
  <2>2. Left(s) \in L
    BY <2>1
  <2> QED
    BY <1>4, <2>2
<1>6. PICK k : k \in L /\ \A l \in L : k <= l
  <2> HIDE DEF L
  <2> QED
    BY <1>5, FirstIsSmallest
<1>7. PICK r \in circle : k = Left(r)
  BY <1>6
<1>8. PICK q \in circle : Awaited(request[r], b) < Awaited(request[q], b)
  BY <1>3
<1>9. Left(r) <= Left(q)
  BY <1>6, <1>7
<1>10. Awaited(request[r], b) \in 0 .. 2 * b + 1 /\ Awaited(request[q], b) \in 0 .. 2 * b + 1
  BY <1>3
<1> QED
  BY <1>2, <1>8, <1>9, <1>10 DEF Left

\* The parts move one at a time.
THEOREM PlatformInvariant == PartsSpec => []PlatformInv
<1>1. PartsInit => PlatformInv
  BY PlatformInit DEF PartsInit
<1>2. PlatformInv /\ [PartsNext]_<<orgVars, platformSide, rightsSide, treeSide, part>> => PlatformInv'
  <2> SUFFICES ASSUME PlatformInv,
                      [PartsNext]_<<orgVars, platformSide, rightsSide, treeSide, part>>
               PROVE  PlatformInv'
    OBVIOUS
  <2>1. [Platform!Next]_platformSide
    BY DEF PartsNext
  <2> QED
    BY <2>1, PlatformNext
<1> QED
  BY <1>1, <1>2, PTL DEF PartsSpec

\* assertAnotherActiveMaster: however the masters demote and delete one another, one stays
\* in use.
THEOREM AMasterRemains == PartsSpec => []AlwaysAMaster
<1>1. PlatformInv => AlwaysAMaster
  BY DEF PlatformInv, AlwaysAMaster
<1> QED
  BY <1>1, PlatformInvariant, PTL

\* Rows are locked in the order of their ids, after the role groups: the transactions of
\* any number of requests never wait for one another in a circle, but for a deletion of an
\* account that was changed, and changed back, since it was read.
THEOREM PlatformHasNoCircle == PartsSpec => []NobodyWaitsInACircle
<1>1. PlatformInv => NobodyWaitsInACircle
  BY NoCircles DEF NobodyWaitsInACircle
<1> QED
  BY <1>1, PlatformInvariant, PTL

\* The locks on role groups, at a BP and at the platform: nobody is left in one that is
\* deleted.
THEOREM AllAreInLiveGroups == PartsSpec => []AllGroupsAlive
<1>1. PartsInit => OrgInv
  BY InitOrgInv DEF PartsInit
<1>2. OrgInv /\ [PartsNext]_<<orgVars, platformSide, rightsSide, treeSide, part>> => OrgInv'
  <2> SUFFICES ASSUME OrgInv,
                      [PartsNext]_<<orgVars, platformSide, rightsSide, treeSide, part>>
               PROVE  OrgInv'
    OBVIOUS
  <2>1. [Next]_orgVars
    BY DEF PartsNext
  <2> QED
    BY <2>1, NextOrgInv
<1>3. OrgInv /\ PlatformInv => AllGroupsAlive
  BY DEF OrgInv, PlatformInv, AllGroupsAlive
<1> QED
  BY <1>1, <1>2, <1>3, PlatformInvariant, PTL DEF PartsSpec
-----------------------------------------------------------------------------
(* What role groups may do in menus                                        *)

RoleSaves == {Cells!Idle} \cup [op : {"menus"}, tree : Shapes]
             \cup [op : {"save"}, tree : Shapes, ceiling : [Menus -> SUBSET Cells!Ops]]

RightsTyped ==
    /\ tree \in Shapes /\ rights \in [Teams \cup {Base} -> [Menus -> SUBSET Cells!Ops]]
    /\ menuSave \in [Teams \cup {Base} -> RoleSaves]
    /\ overtaken \in BOOLEAN

\* Whatever was a group of menus when somebody read the menus is known as one.
GroupsKnown ==
    /\ Cells!GroupMenus(tree) \subseteq grouped
    /\ \A g \in Teams \cup {Base} : menuSave[g].op # "idle" =>
         Cells!GroupMenus(menuSave[g].tree) \subseteq grouped

\* In use or not, a menu that was never a group is never open to a team alone.
CellsWithin ==
    ~overtaken => \A g \in Teams, m \in Menus \ grouped : rights[g][m] \subseteq rights[Base][m]

RightsInv == RightsTyped /\ GroupsKnown /\ CellsWithin

LEMMA SaveTells ==
  ASSUME NEW s \in RoleSaves
  PROVE  /\ s.op = "menus" \/ s.op = "save" \/ s = Cells!Idle
         /\ Cells!Idle.op = "idle"
         /\ s.op = "menus" => s.tree \in Shapes
         /\ s.op = "save" => s.tree \in Shapes /\ s.ceiling \in [Menus -> SUBSET Cells!Ops]
BY DEF RoleSaves, Cells!Idle

\* A save changes only what the screen shows, and group menus.
LEMMA OnlyLeavesArePlanned ==
  ASSUME NEW t, NEW before \in [Menus -> SUBSET Cells!Ops], NEW rows \in Cells!Rows(t)
  PROVE  /\ Cells!Planned(t, before, rows) \in [Menus -> SUBSET Cells!Ops]
         /\ \A m \in Menus \ Cells!GroupMenus(t) :
              m \notin Cells!Visible(t) => Cells!Planned(t, before, rows)[m] = before[m]
<1> DEFINE cells == [m \in Menus |-> IF m \in DOMAIN rows THEN rows[m] ELSE before[m]]
<1>1. DOMAIN rows = Cells!Leaves(t) /\ \A m \in Cells!Leaves(t) : rows[m] \in SUBSET Cells!Ops
  BY DEF Cells!Rows
<1>2. cells \in [Menus -> SUBSET Cells!Ops]
        /\ \A m \in Menus \ Cells!Leaves(t) : cells[m] = before[m]
  BY <1>1
<1> HIDE DEF cells
<1>3. \A m \in Menus : Cells!Normalized(t,
        cells)[m] = IF m \notin Cells!GroupMenus(t) THEN cells[m]
                          ELSE IF Cells!ReadBelow(t, cells, m) THEN {"read"} ELSE {}
  BY DEF Cells!Normalized
<1>4. Cells!Normalized(t, cells) \in [Menus -> SUBSET Cells!Ops]
  BY <1>2 DEF Cells!Normalized, Cells!Ops
<1>5. \A m \in Menus \ Cells!GroupMenus(t) : m \notin Cells!Visible(t) =>
        Cells!Normalized(t, cells)[m] = before[m]
  BY <1>2, <1>3 DEF Cells!Leaves
<1> QED
  BY <1>4, <1>5 DEF Cells!Planned, cells

\* Menus are read, moved, and taken out of use.
LEMMA ReshapeKeepsRights ==
  ASSUME RightsInv, NEW t \in Shapes, Cells!Reshape(t)
  PROVE  RightsInv'
<1>1. /\ tree' = t /\ grouped' = grouped \cup Cells!GroupMenus(t)
      /\ rights' = rights /\ menuSave' = menuSave /\ overtaken' = overtaken
  BY DEF Cells!Reshape
<1>2. Cells!GroupMenus(tree)' = Cells!GroupMenus(t)
  BY <1>1 DEF Cells!GroupMenus, Cells!Visible, Cells!Ancestors, Cells!Above
<1>3. \A x : Cells!GroupMenus(x)' = Cells!GroupMenus(x)
  BY DEF Cells!GroupMenus, Cells!Visible, Cells!Ancestors, Cells!Above
<1>4. ASSUME NEW g \in Teams \cup {Base}, menuSave'[g].op # "idle"
      PROVE  Cells!GroupMenus(menuSave[g].tree) \subseteq grouped'
  BY <1>1, <1>4 DEF RightsInv, GroupsKnown
<1>5. GroupsKnown'
  BY <1>1, <1>2, <1>4 DEF GroupsKnown
<1>6. RightsTyped' /\ CellsWithin'
  BY <1>1 DEF RightsInv, RightsTyped, CellsWithin
<1> QED
  BY <1>5, <1>6 DEF RightsInv

LEMMA ReadKeepsRights ==
  ASSUME RightsInv, NEW g \in Teams \cup {Base}, NEW n \in RoleSaves,
         menuSave' = [menuSave EXCEPT ![g] = n], UNCHANGED <<tree, rights, grouped, overtaken>>,
         n.op # "idle" => n.tree = tree \/ (menuSave[g].op # "idle" /\ n.tree = menuSave[g].tree)
  PROVE  RightsInv'
<1>1. \A h \in Teams \cup {Base} : menuSave'[h] = IF h = g THEN n ELSE menuSave[h]
  BY DEF RightsInv, RightsTyped
<1>2. n.op # "idle" => Cells!GroupMenus(n.tree) \subseteq grouped
  BY DEF RightsInv, GroupsKnown
<1>3. ASSUME NEW h \in Teams \cup {Base}, menuSave'[h].op # "idle"
      PROVE  Cells!GroupMenus(menuSave'[h].tree) \subseteq grouped
  BY <1>1, <1>2, <1>3 DEF RightsInv, GroupsKnown
<1>4. GroupsKnown'
  BY <1>3 DEF RightsInv, GroupsKnown
<1>5. RightsTyped' /\ CellsWithin'
  BY DEF RightsInv, RightsTyped, CellsWithin
<1> QED
  BY <1>4, <1>5 DEF RightsInv

LEMMA SaveTeamKeepsRights ==
  ASSUME RightsInv, NEW g \in Teams, Cells!SaveTeam(g)
  PROVE  RightsInv'
<1>1. PICK s : s = menuSave[g]
  OBVIOUS
<1>2. PICK after : \E rows \in Cells!Rows(s.tree) :
        /\ after = Cells!Planned(s.tree, rights[g], rows)
        /\ Cells!Within(s.tree, rights[g], after, s.ceiling)
        /\ rights' = [rights EXCEPT ![g] = after]
  BY <1>1 DEF Cells!SaveTeam
<1>3. /\ s.op = "save" /\ menuSave' = [menuSave EXCEPT ![g] = Cells!Idle] /\ tree' = tree
           /\ grouped' = grouped
      /\ overtaken' = (overtaken \/ \E m \in Menus : ~(s.ceiling[m] \subseteq rights[Base][m]))
  BY <1>1 DEF Cells!SaveTeam
<1>4. s \in RoleSaves /\ s.ceiling \in [Menus -> SUBSET Cells!Ops]
        /\ rights[g] \in [Menus -> SUBSET Cells!Ops]
  BY <1>1, <1>3, SaveTells DEF RightsInv, RightsTyped
<1>5. Cells!GroupMenus(s.tree) \subseteq grouped
  BY <1>1, <1>3 DEF RightsInv, GroupsKnown
<1>6. /\ after \in [Menus -> SUBSET Cells!Ops]
           /\ Cells!Within(s.tree, rights[g], after, s.ceiling)
      /\ rights' = [rights EXCEPT ![g] = after]
      /\ \A m \in Menus \ Cells!GroupMenus(s.tree) : m \notin Cells!Visible(s.tree) =>
           after[m] = rights[g][m]
  BY <1>2, <1>4, OnlyLeavesArePlanned
\* Nothing is gained beyond the ceiling.
<1>7. ASSUME NEW m \in Menus \ grouped
      PROVE  after[m] \subseteq rights[g][m] \cup s.ceiling[m]
  <2>1. m \notin Cells!GroupMenus(s.tree)
    BY <1>5
  <2>2. CASE m \in Cells!Visible(s.tree)
    <3>1. (rights[g][m] \ after[m]) \cup (after[m] \ rights[g][m]) \subseteq s.ceiling[m]
      BY <1>6, <2>1, <2>2 DEF Cells!Within, Cells!Changed
    <3> QED
      BY <3>1
  <2> QED
    BY <1>6, <2>1, <2>2
<1>8. \A h \in Teams \cup {Base} : rights'[h] = IF h = g THEN after ELSE rights[h]
  BY <1>6 DEF RightsInv, RightsTyped
<1>9. ASSUME ~overtaken', NEW h \in Teams, NEW m \in Menus \ grouped
      PROVE  rights'[h][m] \subseteq rights'[Base][m]
  <2>1. ~overtaken /\ s.ceiling[m] \subseteq rights[Base][m]
    BY <1>3, <1>9
  <2>2. \A k \in Teams : rights[k][m] \subseteq rights[Base][m]
    BY <2>1 DEF RightsInv, CellsWithin
  <2>3. rights'[Base] = rights[Base]
    BY <1>8, RightsConstants
  <2> QED
    BY <1>7, <1>8, <2>1, <2>2, <2>3
<1>10. CellsWithin'
  BY <1>3, <1>9 DEF CellsWithin
<1>11. RightsTyped'
  BY <1>3, <1>6 DEF RightsInv, RightsTyped, RoleSaves
<1>12. GroupsKnown'
  <2>1. \A h \in Teams \cup {Base} : menuSave'[h] = IF h = g THEN Cells!Idle ELSE menuSave[h]
    BY <1>3 DEF RightsInv, RightsTyped
  <2> QED
    BY <1>3, <2>1, SaveTells DEF RightsInv, GroupsKnown, Cells!Idle
<1> QED
  BY <1>10, <1>11, <1>12 DEF RightsInv

\* What the base role loses in a menu that is no group is taken from the team.
LEMMA CascadeFollows ==
  ASSUME RightsInv, NEW t, NEW g \in Teams, NEW after \in [Menus -> SUBSET Cells!Ops],
         \A m \in Menus \ Cells!GroupMenus(t) : m \notin Cells!Visible(t) =>
           after[m] = rights[Base][m]
  PROVE  /\ Cells!Cascade(t, g, after) \in [Menus -> SUBSET Cells!Ops]
         /\ \A m \in Menus \ Cells!GroupMenus(t) :
              rights[g][m] \subseteq rights[Base][m] =>
                Cells!Cascade(t, g, after)[m] \subseteq after[m]
<1> DEFINE before == rights[g]
           revoked == [m \in Menus |-> IF m \in Cells!Visible(t) THEN rights[Base][m] \ after[m] ELSE {}]
           less == [m \in Menus |-> IF revoked[m] =
             {} THEN before[m] ELSE Cells!Less(before[m], revoked[m])]
           open == [m \in Menus |-> IF m \in Cells!GroupMenus(t) /\ ~Cells!ReadBelow(t, less, m)
                                       /\ "read" \in before[m] THEN {} ELSE less[m]]
<1>1. before \in [Menus -> SUBSET Cells!Ops] /\ rights[Base] \in [Menus -> SUBSET Cells!Ops]
  BY DEF RightsInv, RightsTyped
<1>2. less \in [Menus -> SUBSET Cells!Ops]
  BY <1>1 DEF Cells!Less
<1>3. ASSUME NEW m \in Menus \ Cells!GroupMenus(t), before[m] \subseteq rights[Base][m]
      PROVE  less[m] \subseteq after[m]
  <2>1. CASE m \in Cells!Visible(t)
    <3>1. revoked[m] = rights[Base][m] \ after[m]
      BY <2>1
    <3>2. less[m] = IF revoked[m] = {} THEN before[m] ELSE Cells!Less(before[m], revoked[m])
      OBVIOUS
    <3> HIDE DEF revoked, less
    <3> QED
      BY <1>3, <3>1, <3>2 DEF Cells!Less
  <2>2. CASE m \notin Cells!Visible(t)
    BY <1>3, <2>2
  <2> QED
    BY <2>1, <2>2
<1>4. Cells!Cascade(t, g, after) = IF less = before THEN before ELSE open
  BY DEF Cells!Cascade
<1> HIDE DEF less
<1>5. open \in [Menus -> SUBSET Cells!Ops]
        /\ \A m \in Menus \ Cells!GroupMenus(t) : open[m] = less[m]
  BY <1>2
<1> HIDE DEF open, before
<1> QED
  BY <1>1, <1>2, <1>3, <1>4, <1>5 DEF before

LEMMA SaveBaseKeepsRights ==
  ASSUME RightsInv, Cells!SaveBase
  PROVE  RightsInv'
<1>1. PICK t : t = menuSave[Base].tree
  OBVIOUS
<1>2. PICK after, kept :
        /\ \E rows \in Cells!Rows(t) : after = Cells!Planned(t, rights[Base], rows)
        /\ kept = [g \in Teams |-> Cells!Cascade(t, g, after)]
        /\ rights' = [g \in Teams \cup {Base} |-> IF g = Base THEN after ELSE kept[g]]
        /\ menuSave' = [g \in Teams \cup {Base} |->
                      IF g = Base \/ kept[g] # rights[g] THEN Cells!Idle ELSE menuSave[g]]
  <2>1. PICK rows \in Cells!Rows(t) :
          LET after == Cells!Planned(t, rights[Base], rows)
              kept == [g \in Teams |-> Cells!Cascade(t, g, after)]
          IN  /\ rights' = [g \in Teams \cup {Base} |-> IF g = Base THEN after ELSE kept[g]]
              /\ menuSave' = [g \in Teams \cup {Base} |->
                            IF g = Base \/ kept[g] # rights[g] THEN Cells!Idle ELSE menuSave[g]]
    BY <1>1 DEF Cells!SaveBase
  <2> DEFINE after == Cells!Planned(t, rights[Base], rows)
             kept == [g \in Teams |-> Cells!Cascade(t, g, after)]
  <2>2. WITNESS after, kept
  <2> QED
    BY <2>1
<1>3. /\ menuSave[Base].op = "menus" /\ tree' = tree /\ grouped' = grouped
           /\ overtaken' = overtaken
      /\ Cells!GroupMenus(t) \subseteq grouped
  <2>1. menuSave[Base].op = "menus" /\ UNCHANGED <<tree, grouped, overtaken>>
    BY DEF Cells!SaveBase
  <2> QED
    BY <1>1, <2>1 DEF RightsInv, GroupsKnown
<1>4. rights[Base] \in [Menus -> SUBSET Cells!Ops]
  BY DEF RightsInv, RightsTyped
<1>5. /\ after \in [Menus -> SUBSET Cells!Ops]
      /\ \A m \in Menus \ Cells!GroupMenus(t) : m \notin Cells!Visible(t) =>
           after[m] = rights[Base][m]
  BY <1>2, <1>4, OnlyLeavesArePlanned
<1>6. ASSUME NEW g \in Teams
      PROVE  /\ kept[g] \in [Menus -> SUBSET Cells!Ops]
             /\ \A m \in Menus \ Cells!GroupMenus(t) :
                  rights[g][m] \subseteq rights[Base][m] => kept[g][m] \subseteq after[m]
  <2>1. kept[g] = Cells!Cascade(t, g, after)
    BY <1>2
  <2> QED
    BY <1>5, <2>1, CascadeFollows
<1>7. rights'[Base] = after /\ \A g \in Teams : rights'[g] = kept[g]
  BY <1>2, RightsConstants
<1>8. CellsWithin'
  BY <1>3, <1>6, <1>7 DEF RightsInv, CellsWithin
<1>9. RightsTyped'
  <2>1. rights' \in [Teams \cup {Base} -> [Menus -> SUBSET Cells!Ops]]
    BY <1>2, <1>5, <1>6
  <2>2. menuSave' \in [Teams \cup {Base} -> RoleSaves]
    BY <1>2 DEF RightsInv, RightsTyped, RoleSaves
  <2> QED
    BY <1>3, <2>1, <2>2 DEF RightsInv, RightsTyped
<1>10. GroupsKnown'
  <2>1. \A h \in Teams \cup {Base} : menuSave'[h] = Cells!Idle \/ menuSave'[h] = menuSave[h]
    BY <1>2
  <2> QED
    BY <1>3, <2>1, SaveTells DEF RightsInv, GroupsKnown, Cells!Idle
<1> QED
  BY <1>8, <1>9, <1>10 DEF RightsInv

LEMMA RightsInit ==
  Cells!Init => RightsInv
<1> SUFFICES ASSUME Cells!Init PROVE RightsInv
  OBVIOUS
<1>1. Cells!Idle.op = "idle" /\ \A g \in Teams \cup {Base} : menuSave[g] = Cells!Idle
  BY DEF Cells!Init, Cells!Idle
<1>2. RightsTyped
  BY DEF Cells!Init, RightsTyped, RoleSaves
<1>3. CellsWithin
  BY DEF Cells!Init, CellsWithin
<1>4. GroupsKnown
  BY <1>1 DEF Cells!Init, GroupsKnown
<1> QED
  BY <1>2, <1>3, <1>4 DEF RightsInv

LEMMA RightsNext ==
  RightsInv /\ [Cells!Next]_rightsSide => RightsInv'
<1> SUFFICES ASSUME RightsInv, [Cells!Next]_rightsSide PROVE RightsInv'
  OBVIOUS
<1>1. ASSUME NEW g \in Teams \cup {Base}, Cells!ReadMenus(g)
      PROVE  RightsInv'
  <2>1. [op |-> "menus", tree |-> tree] \in RoleSaves
    BY DEF RoleSaves, RightsInv, RightsTyped
  <2> QED
    BY <1>1, <2>1, ReadKeepsRights DEF Cells!ReadMenus
<1>2. ASSUME NEW g \in Teams \cup {Base}, Cells!GiveUp(g)
      PROVE  RightsInv'
  <2>1. Cells!Idle \in RoleSaves /\ Cells!Idle.op = "idle"
    BY DEF RoleSaves, Cells!Idle
  <2> QED
    BY <1>2, <2>1, ReadKeepsRights DEF Cells!GiveUp
<1>3. ASSUME NEW g \in Teams, Cells!ReadCeiling(g)
      PROVE  RightsInv'
  <2>1. PICK n : n = [op |-> "save", tree |-> menuSave[g].tree, ceiling |-> rights[Base]]
    OBVIOUS
  <2>2. menuSave[g].op = "menus" /\ menuSave' = [menuSave EXCEPT ![g] = n]
        /\ UNCHANGED <<tree, rights, grouped, overtaken>>
    BY <1>3, <2>1 DEF Cells!ReadCeiling
  <2>3. menuSave[g] \in RoleSaves
    BY DEF RightsInv, RightsTyped
  <2>4. menuSave[g].tree \in Shapes
    BY <2>2, <2>3, SaveTells
  <2>5. n \in RoleSaves /\ n.tree = menuSave[g].tree
    BY <2>1, <2>4 DEF RoleSaves, RightsInv, RightsTyped
  <2> QED
    BY <2>2, <2>5, ReadKeepsRights
<1>4. CASE UNCHANGED rightsSide
  BY <1>4 DEF rightsSide, RightsInv, RightsTyped, GroupsKnown, CellsWithin
<1> QED
  BY <1>1, <1>2, <1>3, <1>4, ReshapeKeepsRights, SaveTeamKeepsRights, SaveBaseKeepsRights
     DEF Cells!Next

LEMMA RightsWithin ==
  RightsInv => Cells!TeamsWithinBase
BY DEF RightsInv, CellsWithin, Cells!TeamsWithinBase, Cells!Opens

\* Whatever is saved, lost, moved and hidden in which order: nobody in a group of a BP may
\* do in a menu what the base role may not, but where the menu was a group of menus or a
\* save was overtaken.
THEOREM TeamsStayWithinBase == PartsSpec => []TeamsWithinBase
<1>1. PartsInit => RightsInv
  BY RightsInit DEF PartsInit
<1>2. RightsInv /\ [PartsNext]_<<orgVars, platformSide, rightsSide, treeSide, part>> => RightsInv'
  <2> SUFFICES ASSUME RightsInv,
                      [PartsNext]_<<orgVars, platformSide, rightsSide, treeSide, part>>
               PROVE  RightsInv'
    OBVIOUS
  <2>1. [Cells!Next]_rightsSide
    BY DEF PartsNext
  <2> QED
    BY <2>1, RightsNext
<1>3. RightsInv => TeamsWithinBase
  BY RightsWithin DEF TeamsWithinBase
<1> QED
  BY <1>1, <1>2, <1>3, PTL DEF PartsSpec

-----------------------------------------------------------------------------
(* The menus of the services                                               *)

RowFields == {"service", "parent", "depth", "order", "url", "active", "edits"}
RowHolds(r, ids) ==
    /\ DOMAIN r = RowFields /\ r = [x \in RowFields |-> r[x]]
    /\ r.service \in Services /\ r.parent \in ids \cup Services
    /\ r.depth \in Nat /\ r.edits \in Nat
MenusTyped ==
    /\ menu = [m \in DOMAIN menu |-> menu[m]] /\ DOMAIN menu \subseteq MenuIds
    /\ \E k \in Nat : DOMAIN menu = 1 .. k
    /\ \A m \in DOMAIN menu : RowHolds(menu[m], DOMAIN menu)

\* A screen that somebody else's edit took out of date stays so.
ScreenHolds ==
    screen # NoScreen =>
        /\ screen \in [menu : DOMAIN menu, edits : Nat, untouched : BOOLEAN]
        /\ screen.untouched => screen.edits = menu[screen.menu].edits
        /\ ~screen.untouched => screen.edits < menu[screen.menu].edits

MenusInv == MenusTyped /\ Structure!LevelsAddUp /\ Structure!UrlsTellMenus /\ ScreenHolds

LEMMA MenusHoldFromInv ==
  MenusInv => Structure!MenusHold
<1> SUFFICES ASSUME MenusInv PROVE Structure!MenusHold
  OBVIOUS
<1>1. Structure!ScreensOutlastMoves
  <2> SUFFICES ASSUME screen # NoScreen
               PROVE  screen.untouched <=> screen.edits = menu[screen.menu].edits
    BY DEF Structure!ScreensOutlastMoves
  <2>1. screen.menu \in DOMAIN menu /\ screen.edits \in Nat /\ screen.untouched \in BOOLEAN
    BY DEF MenusInv, ScreenHolds
  <2>2. menu[screen.menu].edits \in Nat
    BY <2>1 DEF MenusInv, MenusTyped, RowHolds
  <2> QED
    BY <2>1, <2>2 DEF MenusInv, ScreenHolds
<1> QED
  BY <1>1 DEF Structure!MenusHold, MenusInv

\* One row, read with what the levels say of it.
LEMMA OneRow ==
  ASSUME MenusInv, NEW m \in DOMAIN menu
  PROVE  /\ menu[m].service \in Services /\ menu[m].parent \in DOMAIN menu \cup Services
         /\ menu[m].depth \in 1 .. 3 /\ menu[m].edits \in Nat /\ m \in MenuIds
              /\ m \notin Services
         /\ menu[m].parent \in DOMAIN menu =>
              /\ menu[m].parent \notin Services
              /\ menu[menu[m].parent].service = menu[m].service
              /\ menu[m].depth = menu[menu[m].parent].depth + 1
         /\ menu[m].parent \in Services => menu[m].parent = menu[m].service /\ menu[m].depth = 1
<1>1. RowHolds(menu[m], DOMAIN menu) /\ m \in MenuIds /\ m \notin Services
  BY MenuConstants DEF MenusInv, MenusTyped
<1>2. /\ menu[m].parent \in MenuIds =>
             /\ menu[m].parent \in DOMAIN menu
             /\ menu[menu[m].parent].service = menu[m].service
      /\ menu[m].parent \in Services => menu[m].parent = menu[m].service
      /\ menu[m].depth = Structure!DepthUnder(menu, menu[m].parent)
      /\ menu[m].depth \in 1 .. 3
  BY DEF MenusInv, Structure!LevelsAddUp
<1>3. menu[m].parent \in DOMAIN menu =>
        menu[m].parent \in MenuIds /\ menu[m].parent \notin Services
  BY MenuConstants DEF MenusInv, MenusTyped
<1> QED
  BY <1>1, <1>2, <1>3 DEF RowHolds, Structure!DepthUnder

\* What is written is seen from the fields of the rows alone.
LEMMA LevelsFromRows ==
  ASSUME MenusInv, MenusTyped',
         \A m \in DOMAIN menu' :
            /\ menu'[m].parent \in DOMAIN menu' =>
                 /\ menu'[menu'[m].parent].service = menu'[m].service
                 /\ menu'[m].depth = menu'[menu'[m].parent].depth + 1
            /\ menu'[m].parent \in Services =>
                 menu'[m].parent = menu'[m].service /\ menu'[m].depth = 1
            /\ menu'[m].depth <= 3
  PROVE  Structure!LevelsAddUp'
<1> SUFFICES ASSUME NEW m \in DOMAIN menu'
             PROVE  /\ menu'[m].parent \in MenuIds =>
                         /\ menu'[m].parent \in DOMAIN menu'
                         /\ menu'[menu'[m].parent].service = menu'[m].service
                    /\ menu'[m].parent \in Services => menu'[m].parent = menu'[m].service
                    /\ menu'[m].depth = Structure!DepthUnder(menu', menu'[m].parent)
                    /\ menu'[m].depth \in 1 .. 3
  BY DEF Structure!LevelsAddUp
<1>1. menu'[m].parent \in DOMAIN menu' \cup Services /\ DOMAIN menu' \subseteq MenuIds
      /\ \A n \in DOMAIN menu' : menu'[n].depth \in Nat
  BY DEF MenusTyped, RowHolds
<1>2. menu'[m].parent \in MenuIds => menu'[m].parent \in DOMAIN menu'
  BY <1>1, MenuConstants
<1>3. CASE menu'[m].parent \in Services
  BY <1>1, <1>3, <1>2, MenuConstants DEF Structure!DepthUnder
<1>4. CASE menu'[m].parent \in DOMAIN menu'
  <2>1. menu'[m].parent \notin Services
    BY <1>1, <1>4, MenuConstants
  <2> QED
    BY <1>1, <1>4, <2>1 DEF Structure!DepthUnder
<1> QED
  BY <1>1, <1>3, <1>4

\* The URLs of the menus that change nothing else but URL and use.
LEMMA UrlsStillTell ==
  ASSUME MenusInv, NEW m, DOMAIN menu \subseteq DOMAIN menu',
         DOMAIN menu' \subseteq DOMAIN menu \cup {m},
         \A n \in DOMAIN menu \ {m} : menu'[n].url = menu[n].url
           /\ menu'[n].active = menu[n].active,
         m \in DOMAIN menu' /\ menu'[m].active /\ menu'[m].url # NoUrl =>
           Structure!UrlFree(menu'[m].url, {m}),
         m \in DOMAIN menu /\ menu'[m].url # menu[m].url =>
            menu[m].url \notin {<<"p">>} /\ menu'[m].url \notin {<<"p">>},
         m \in DOMAIN menu' \ DOMAIN menu => menu'[m].url \notin {<<"p">>}
  PROVE  Structure!UrlsTellMenus'
<1>1. \A a, b : Structure!Overlap(a, b) => Structure!Overlap(b, a)
  BY DEF Structure!Overlap
<1>2. ASSUME NEW n \in Structure!Active(menu'), NEW o \in Structure!Active(menu'), n # o,
             menu'[n].url # NoUrl, menu'[o].url # NoUrl
      PROVE  ~Structure!Overlap(menu'[n].url, menu'[o].url)
  <2>1. \A x \in Structure!Active(menu') \ {m} : x \in Structure!Active(menu)
          /\ menu'[x].url = menu[x].url
    BY DEF Structure!Active
  <2>2. \A x \in Structure!Active(menu') : x \in DOMAIN menu' /\ menu'[x].active
    BY DEF Structure!Active
  <2>3. CASE n # m /\ o # m
    BY <1>2, <2>1, <2>3 DEF MenusInv, Structure!UrlsTellMenus
  <2>4. CASE n = m
    BY <1>1, <1>2, <2>1, <2>2, <2>4 DEF Structure!UrlFree
  <2>5. CASE o = m
    BY <1>1, <1>2, <2>1, <2>2, <2>5 DEF Structure!UrlFree
  <2> QED
    BY <2>3, <2>4, <2>5
<1>3. ASSUME NEW url \in {<<"p">>}
      PROVE  {n \in DOMAIN menu' : menu'[n].url = url} = {n \in DOMAIN menu : menu[n].url = url}
  OBVIOUS
<1>4. \A url \in {<<"p">>} : Structure!Cardinality({n \in DOMAIN menu' : menu'[n].url = url}) = 1
  BY <1>3 DEF MenusInv, Structure!UrlsTellMenus
<1> QED
  BY <1>2, <1>4 DEF Structure!UrlsTellMenus

LEMMA EditedKeeps ==
  ASSUME MenusInv, NEW m \in DOMAIN menu, NEW url, NEW active,
         Structure!EditAllowed(m, url, active), menu' = Structure!Edited(m, url, active)
  PROVE  /\ MenusTyped' /\ Structure!LevelsAddUp' /\ Structure!UrlsTellMenus'
              /\ DOMAIN menu' = DOMAIN menu
         /\ menu'[m].edits = menu[m].edits + 1
         /\ \A n \in DOMAIN menu \ {m} : menu'[n] = menu[n]
<1>1. PICK r : r = menu[m]
  OBVIOUS
<1>2. PICK r1 : r1 = [r EXCEPT !.url = url]
  OBVIOUS
<1>3. PICK r2 : r2 = [r1 EXCEPT !.active = active]
  OBVIOUS
<1>4. PICK r3 : r3 = [r2 EXCEPT !.edits = r.edits + 1]
  OBVIOUS
<1>5. RowHolds(r, DOMAIN menu) /\ r.edits \in Nat
  BY <1>1 DEF MenusInv, MenusTyped, RowHolds
<1>6. /\ DOMAIN r3 = RowFields /\ r3 = [x \in RowFields |-> r3[x]]
      /\ r3.service = r.service /\ r3.parent = r.parent /\ r3.depth = r.depth
      /\ r3.url = url /\ r3.active = active /\ r3.edits = r.edits + 1
  BY <1>2, <1>3, <1>4, <1>5 DEF RowHolds, RowFields
<1>7. menu = [n \in DOMAIN menu |-> menu[n]]
  BY DEF MenusInv, MenusTyped
<1>8. menu' = [menu EXCEPT ![m] = r3]
  <2>1. PICK a : a = [menu EXCEPT ![m] = r1]
    OBVIOUS
  <2>2. PICK b : b = [menu EXCEPT ![m] = r2]
    OBVIOUS
  <2>3. a[m] = r1 /\ b[m] = r2 /\ r1.edits = r.edits /\ r2.edits = r.edits
    BY <1>2, <1>3, <1>5, <2>1, <2>2 DEF RowHolds, RowFields
  <2>4. [a EXCEPT ![m] = r2] = b /\ [b EXCEPT ![m] = r3] = [menu EXCEPT ![m] = r3]
    BY <1>7, <2>1, <2>2
  <2>5. [menu EXCEPT ![m].url = url] = a
    BY <1>1, <1>2, <2>1
  <2>6. [a EXCEPT ![m].active = active] = b
    BY <1>3, <2>3, <2>4
  <2>7. [b EXCEPT ![m].edits = @ + 1] = [menu EXCEPT ![m] = r3]
    BY <1>4, <2>3, <2>4
  <2>8. menu' = [[[menu EXCEPT ![m].url = url] EXCEPT ![m].active =
          active] EXCEPT ![m].edits = @ + 1]
    BY DEF Structure!Edited
  <2> QED
    BY ONLY <2>5, <2>6, <2>7, <2>8
<1>9. /\ DOMAIN menu' = DOMAIN menu /\ menu'[m] = r3
      /\ \A n \in DOMAIN menu \ {m} : menu'[n] = menu[n]
      /\ menu' = [n \in DOMAIN menu |-> menu'[n]]
  BY <1>7, <1>8
<1>10. \A n \in DOMAIN menu :
         menu'[n].service = menu[n].service /\ menu'[n].parent = menu[n].parent
         /\ menu'[n].depth = menu[n].depth
  BY <1>1, <1>6, <1>9
<1>11. RowHolds(r3, DOMAIN menu)
  BY <1>5, <1>6 DEF RowHolds
<1>12. MenusTyped'
  BY <1>9, <1>11 DEF MenusInv, MenusTyped
<1>13. Structure!LevelsAddUp'
  BY <1>9, <1>10, <1>12, OneRow, LevelsFromRows
<1>14. Structure!UrlsTellMenus'
  <2>1. menu'[m].url = url /\ menu'[m].active = active /\ menu[m].url = r.url
    BY <1>1, <1>6, <1>9
  <2> QED
    BY <1>9, <2>1, UrlsStillTell DEF Structure!EditAllowed, Structure!ApiUrlKept
<1> QED
  BY <1>1, <1>6, <1>9, <1>12, <1>13, <1>14

LEMMA EditScreenKeeps ==
  ASSUME MenusInv, NEW url, NEW active, Structure!EditScreen(url, active)
  PROVE  MenusInv'
<1>1. screen.menu \in DOMAIN menu
  BY DEF Structure!EditScreen, MenusInv, ScreenHolds
<1>2. MenusTyped' /\ Structure!LevelsAddUp' /\ Structure!UrlsTellMenus'
  BY <1>1, EditedKeeps DEF Structure!EditScreen
<1>3. ScreenHolds'
  BY DEF Structure!EditScreen, ScreenHolds
<1> QED
  BY <1>2, <1>3 DEF MenusInv

LEMMA EditElsewhereKeeps ==
  ASSUME MenusInv, NEW m, NEW url, NEW active, Structure!EditElsewhere(m, url, active)
  PROVE  MenusInv'
<1>1. m \in DOMAIN menu /\ Structure!EditAllowed(m, url, active)
        /\ menu' = Structure!Edited(m, url, active)
      /\ screen' = IF screen # NoScreen /\ screen.menu = m
                   THEN [screen EXCEPT !.untouched = FALSE] ELSE screen
  BY DEF Structure!EditElsewhere
<1>2. /\ MenusTyped' /\ Structure!LevelsAddUp' /\ Structure!UrlsTellMenus'
           /\ DOMAIN menu' = DOMAIN menu
      /\ menu'[m].edits = menu[m].edits + 1
      /\ \A n \in DOMAIN menu \ {m} : menu'[n] = menu[n]
  BY <1>1, EditedKeeps
<1>3. \A n \in DOMAIN menu : menu[n].edits \in Nat
  BY OneRow
<1>4. ScreenHolds'
  <2>1. CASE screen = NoScreen
    BY <1>1, <2>1 DEF ScreenHolds
  <2>2. CASE screen # NoScreen /\ screen.menu # m
    <3>1. screen' = screen /\ screen.menu \in DOMAIN menu \ {m}
      BY <1>1, <2>2 DEF MenusInv, ScreenHolds
    <3> QED
      BY <1>2, <2>2, <3>1 DEF MenusInv, ScreenHolds
  <2>3. CASE screen # NoScreen /\ screen.menu = m
    <3>1. screen' = [screen EXCEPT !.untouched = FALSE]
      BY <1>1, <2>3
    <3>2. screen \in [menu : DOMAIN menu, edits : Nat, untouched : BOOLEAN]
          /\ screen.edits <= menu[m].edits
      BY <1>1, <1>3, <2>3 DEF MenusInv, ScreenHolds
    <3>3. screen' \in [menu : DOMAIN menu, edits : Nat, untouched : BOOLEAN]
          /\ screen'.menu = m /\ screen'.untouched = FALSE /\ screen'.edits = screen.edits
      BY <2>3, <3>1, <3>2
    <3>4. screen.edits < menu'[m].edits
      BY <1>1, <1>2, <1>3, <3>2
    <3> QED
      BY <1>2, <3>3, <3>4 DEF ScreenHolds
  <2> QED
    BY <2>1, <2>2, <2>3
<1> QED
  BY <1>2, <1>4 DEF MenusInv

LEMMA OpenScreenKeeps ==
  ASSUME MenusInv, NEW m, Structure!OpenScreen(m)
  PROVE  MenusInv'
<1>1. /\ m \in DOMAIN menu /\ menu' = menu
      /\ screen' = [menu |-> m, edits |-> menu[m].edits, untouched |-> TRUE]
  BY DEF Structure!OpenScreen
<1>2. ScreenHolds'
  BY <1>1, OneRow DEF ScreenHolds
<1>3. MenusTyped' /\ Structure!LevelsAddUp' /\ Structure!UrlsTellMenus'
  BY <1>1 DEF MenusInv, MenusTyped, Structure!LevelsAddUp, Structure!UrlsTellMenus,
     Structure!Active
<1> QED
  BY <1>2, <1>3 DEF MenusInv

LEMMA SameCount ==
  ASSUME NEW S
  PROVE  Structure!Cardinality(S) = Cardinality(S)
BY DEF Structure!Cardinality, Cardinality

LEMMA CreateKeeps ==
  ASSUME MenusInv, NEW p, NEW url, NEW active, Structure!Create(p, url, active)
  PROVE  MenusInv'
<1>1. PICK k \in Nat : DOMAIN menu = 1 .. k
  BY DEF MenusInv, MenusTyped
<1>2. PICK m : m = Structure!Cardinality(DOMAIN menu) + 1
  OBVIOUS
<1>3. m = k + 1
  <2>1. 1 \in Int /\ k \in Int
    OBVIOUS
  <2>2. Cardinality(1 .. k) = IF 1 > k THEN 0 ELSE k - 1 + 1
    BY ONLY <2>1, FS_Interval
  <2>3. Cardinality(1 .. k) = k
    BY <2>2
  <2>4. Structure!Cardinality(1 .. k) = Cardinality(1 .. k)
    BY SameCount
  <2> QED
    BY <1>1, <1>2, <2>3, <2>4
<1>4. PICK r : r = [service |-> IF p \in Services THEN p ELSE menu[p].service,
                    parent |-> p, depth |-> Structure!DepthUnder(menu, p),
                    order |-> Structure!LastOrder(p) + 1,
                    url |-> url, active |-> active, edits |-> 0]
  OBVIOUS
<1>5. /\ m \in MenuIds /\ p \in Services \cup DOMAIN menu /\ Structure!DepthUnder(menu, p) <= 3
      /\ Structure!ApiUrlKept(NoUrl, url) /\ (active /\ url # NoUrl => Structure!UrlFree(url, {}))
      /\ menu' = [n \in DOMAIN menu \cup {m} |-> IF n # m THEN menu[n] ELSE r]
      /\ screen' = screen
  BY <1>2, <1>4 DEF Structure!Create
<1>6. m \notin DOMAIN menu /\ m \in Nat /\ DOMAIN menu' = DOMAIN menu \cup {m}
  BY <1>1, <1>3, <1>5
<1>7. /\ menu'[m] = r /\ \A n \in DOMAIN menu : menu'[n] = menu[n]
      /\ menu' = [n \in DOMAIN menu' |-> menu'[n]]
  BY <1>5, <1>6
<1>8. DOMAIN menu' = 1 .. k + 1 /\ k + 1 \in Nat
  BY <1>1, <1>3, <1>6
\* The row that is added.
<1>9. /\ p \in DOMAIN menu => p \notin Services /\ menu[p].service \in Services
                              /\ menu[p].depth \in 1 .. 3
                                   /\ Structure!DepthUnder(menu, p) = menu[p].depth + 1
      /\ p \in Services => p \notin DOMAIN menu /\ Structure!DepthUnder(menu, p) = 1
  BY OneRow DEF Structure!DepthUnder
<1>10. Structure!DepthUnder(menu, p) \in 1 .. 3
  BY <1>5, <1>9
<1>11. /\ DOMAIN r = RowFields /\ r = [x \in RowFields |-> r[x]]
            /\ r.depth = Structure!DepthUnder(menu, p)
       /\ r.parent = p /\ r.url = url /\ r.active = active /\ r.edits = 0
       /\ r.service = IF p \in Services THEN p ELSE menu[p].service
  BY <1>4 DEF RowFields
<1>12. RowHolds(r, DOMAIN menu')
  BY <1>5, <1>6, <1>9, <1>10, <1>11 DEF RowHolds
<1>13. \A n \in DOMAIN menu : RowHolds(menu[n], DOMAIN menu')
  BY <1>6 DEF MenusInv, MenusTyped, RowHolds
<1>14. MenusTyped'
  BY <1>5, <1>6, <1>7, <1>8, <1>12, <1>13 DEF MenusInv, MenusTyped
<1>15. Structure!LevelsAddUp'
  <2>1. ASSUME NEW n \in DOMAIN menu'
        PROVE  /\ menu'[n].parent \in DOMAIN menu' =>
                    /\ menu'[menu'[n].parent].service = menu'[n].service
                    /\ menu'[n].depth = menu'[menu'[n].parent].depth + 1
               /\ menu'[n].parent \in Services =>
                    menu'[n].parent = menu'[n].service /\ menu'[n].depth = 1
               /\ menu'[n].depth <= 3
    <3>1. CASE n = m
      <4>1. p \in DOMAIN menu' => p \in DOMAIN menu /\ menu'[p] = menu[p]
        BY <1>5, <1>6, <1>7, MenuConstants
      <4> QED
        BY <1>7, <1>9, <1>10, <1>11, <3>1, <4>1
    <3>2. CASE n \in DOMAIN menu
      <4>1. /\ menu[n].parent \in DOMAIN menu \cup Services /\ menu[n].depth \in 1 .. 3
            /\ menu[n].parent \in DOMAIN menu =>
                 /\ menu[menu[n].parent].service = menu[n].service
                 /\ menu[n].depth = menu[menu[n].parent].depth + 1
            /\ menu[n].parent \in Services =>
                 menu[n].parent = menu[n].service /\ menu[n].depth = 1
        BY <3>2, OneRow
      <4>2. menu[n].parent \in DOMAIN menu' => menu[n].parent \in DOMAIN menu
        BY <1>5, <1>6, <4>1, MenuConstants
      <4> QED
        BY <1>7, <3>2, <4>1, <4>2
    <3> QED
      BY <1>6, <3>1, <3>2
  <2> QED
    BY <1>14, <2>1, LevelsFromRows
<1>16. Structure!UrlsTellMenus'
  <2>1. url \notin {<<"p">>}
    BY <1>5, MenuConstants DEF Structure!ApiUrlKept
  <2>2. active /\ url # NoUrl => Structure!UrlFree(url, {m})
    BY <1>5 DEF Structure!UrlFree
  <2> QED
    BY <1>6, <1>7, <1>11, <2>1, <2>2, UrlsStillTell
<1>17. ScreenHolds'
  BY <1>5, <1>6, <1>7 DEF MenusInv, ScreenHolds
<1> QED
  BY <1>14, <1>15, <1>16, <1>17 DEF MenusInv

\* What is below a menu ends at the third level.
LEMMA SubtreeIsClosed ==
  ASSUME MenusInv, NEW m \in DOMAIN menu
  PROVE  /\ m \in Structure!Subtree(menu, m) /\ Structure!Subtree(menu, m) \subseteq DOMAIN menu
         /\ \A n \in DOMAIN menu \ {m} :
              n \in Structure!Subtree(menu, m) <=> menu[n].parent \in Structure!Subtree(menu, m)
         /\ \A n \in Structure!Subtree(menu, m) :
              /\ menu[n].depth \in menu[m].depth .. menu[m].depth + Structure!Height(menu, m) - 1
              /\ menu[n].service = menu[m].service
<1> DEFINE one == Structure!Below(menu, {m})
           two == Structure!Below(menu, one)
<1>1. /\ one = {n \in DOMAIN menu : menu[n].parent = m}
      /\ two = {n \in DOMAIN menu : menu[n].parent \in one}
      /\ Structure!Subtree(menu, m) = {m} \cup one \cup two
      /\ Structure!Children(menu, m) = one
  BY DEF Structure!Below, Structure!Children, Structure!Subtree
<1>2. Structure!Height(menu, m) = IF one = {} THEN 1 ELSE IF two = {} THEN 2 ELSE 3
  BY <1>1 DEF Structure!Height
<1> HIDE DEF one, two
<1>3. \A n \in one : menu[n].depth = menu[m].depth + 1 /\ menu[n].service = menu[m].service
  BY <1>1, OneRow
<1>4. \A n \in two : menu[n].depth = menu[m].depth + 2 /\ menu[n].service = menu[m].service
  <2> SUFFICES ASSUME NEW n \in two
               PROVE  menu[n].depth = menu[m].depth + 2 /\ menu[n].service = menu[m].service
    OBVIOUS
  <2>1. menu[n].parent \in one /\ n \in DOMAIN menu /\ menu[n].parent \in DOMAIN menu
    BY <1>1
  <2>2. /\ menu[n].depth = menu[menu[n].parent].depth + 1
        /\ menu[menu[n].parent].service = menu[n].service
    BY <2>1, OneRow
  <2>3. menu[m].depth \in 1 .. 3
    BY OneRow
  <2> QED
    BY <1>3, <2>1, <2>2, <2>3
<1>5. ASSUME NEW n \in DOMAIN menu, menu[n].parent \in two
      PROVE  FALSE
  <2>1. menu[n].parent \in DOMAIN menu /\ menu[n].depth \in 1 .. 3
        /\ menu[n].depth = menu[menu[n].parent].depth + 1
    BY <1>1, <1>5, OneRow
  <2>2. menu[m].depth \in 1 .. 3
    BY OneRow
  <2> QED
    BY <1>4, <1>5, <2>1, <2>2
<1>6. \A n \in DOMAIN menu \ {m} :
        n \in Structure!Subtree(menu, m) <=> menu[n].parent \in Structure!Subtree(menu, m)
  BY <1>1, <1>5
<1>7. ASSUME NEW n \in Structure!Subtree(menu, m)
      PROVE  /\ menu[n].depth \in menu[m].depth .. menu[m].depth + Structure!Height(menu, m) - 1
             /\ menu[n].service = menu[m].service
  <2>1. menu[m].depth \in 1 .. 3
    BY OneRow
  <2>2. CASE n = m
    BY <1>2, <2>1, <2>2
  <2>3. CASE n \in one
    BY <1>2, <1>3, <2>1, <2>3
  <2>4. CASE n \in two
    <3>1. one # {} /\ two # {}
      BY <1>1, <2>4
    <3>2. Structure!Height(menu, m) = 3
      BY <1>2, <3>1
    <3> QED
      BY <1>4, <2>1, <2>4, <3>2
  <2> QED
    BY <1>1, <2>2, <2>3, <2>4
<1> QED
  BY <1>1, <1>6, <1>7

LEMMA MoveKeeps ==
  ASSUME MenusInv, NEW m, NEW p, NEW i, Structure!Move(m, p, i)
  PROVE  MenusInv'
<1>1. m \in DOMAIN menu /\ Structure!MayMove(menu, m, p)
        /\ menu' = Structure!PlanMove(menu, m, p, i) /\ screen' = screen
  BY DEF Structure!Move
<1>2. PICK d : d = Structure!DepthUnder(menu, p)
  OBVIOUS
<1>3. PICK new, old :
        menu' = [n \in DOMAIN menu |->
                   [menu[n] EXCEPT
                      !.parent = IF n = m THEN p ELSE @,
                      !.depth = IF n \in Structure!Subtree(menu,
                        m) THEN @ + d - menu[m].depth ELSE @,
                      !.order = IF n \in Structure!ToSet(new) THEN Structure!Numbered(new, n)
                                ELSE IF n \in Structure!ToSet(old) THEN Structure!Numbered(old, n) ELSE @]]
  BY ZenonT(120), <1>1, <1>2 DEF Structure!PlanMove
<1>4. \A n \in DOMAIN menu : RowHolds(menu[n], DOMAIN menu)
  BY DEF MenusInv, MenusTyped
<1>5. ASSUME NEW n \in DOMAIN menu
      PROVE  /\ DOMAIN menu'[n] = RowFields /\ menu'[n] = [x \in RowFields |-> menu'[n][x]]
             /\ menu'[n].service = menu[n].service /\ menu'[n].url = menu[n].url
             /\ menu'[n].active = menu[n].active /\ menu'[n].edits = menu[n].edits
             /\ menu'[n].parent = IF n = m THEN p ELSE menu[n].parent
             /\ menu'[n].depth = IF n \in Structure!Subtree(menu,
                  m) THEN menu[n].depth + d - menu[m].depth
                                 ELSE menu[n].depth
  <2>1. PICK r : r = menu[n]
    OBVIOUS
  <2>2. PICK par, dep, ord :
          /\ par = IF n = m THEN p ELSE r.parent
          /\ dep = IF n \in Structure!Subtree(menu,
               m) THEN r.depth + d - menu[m].depth ELSE r.depth
          /\ menu'[n] = [r EXCEPT !.parent = par, !.depth = dep, !.order = ord]
    BY <1>3, <2>1
  <2>3. DOMAIN r = RowFields /\ r = [x \in RowFields |-> r[x]]
    BY <1>4, <2>1 DEF RowHolds
  <2> QED
    BY <2>1, <2>2, <2>3 DEF RowFields
<1>6. DOMAIN menu' = DOMAIN menu /\ menu' = [n \in DOMAIN menu |-> menu'[n]]
  BY <1>3
<1>7. /\ p \in Services \cup DOMAIN menu /\ p \notin Structure!Subtree(menu, m)
      /\ p \in Services => p = menu[m].service /\ d = 1 /\ p \notin DOMAIN menu
      /\ p \in DOMAIN menu => menu[p].service = menu[m].service /\ d = menu[p].depth + 1
                              /\ p \notin Services
      /\ d + Structure!Height(menu, m) - 1 <= 3
  BY <1>1, <1>2, OneRow DEF Structure!MayMove, Structure!DepthUnder
<1>8. \A n \in DOMAIN menu : menu[n].depth \in 1 .. 3
  BY OneRow
<1>9. d \in Nat /\ d >= 1 /\ menu[m].depth \in 1 .. 3 /\ Structure!Height(menu, m) \in Nat
  BY <1>1, <1>7, <1>8 DEF Structure!Height
<1>10. /\ m \in Structure!Subtree(menu, m) /\ Structure!Subtree(menu, m) \subseteq DOMAIN menu
       /\ \A n \in DOMAIN menu \ {m} :
            n \in Structure!Subtree(menu, m) <=> menu[n].parent \in Structure!Subtree(menu, m)
       /\ \A n \in Structure!Subtree(menu, m) :
            /\ menu[n].depth \in menu[m].depth .. menu[m].depth + Structure!Height(menu, m) - 1
            /\ menu[n].service = menu[m].service
  BY <1>1, SubtreeIsClosed
<1>11. ASSUME NEW n \in DOMAIN menu
       PROVE  menu'[n].depth \in 1 .. 3 /\ menu'[n].parent \in DOMAIN menu \cup Services
  <2>1. ASSUME n \in Structure!Subtree(menu, m)
        PROVE  menu'[n].depth \in 1 .. 3
    <3>1. menu[n].depth \in Nat /\ menu[n].depth >= menu[m].depth
          /\ menu[n].depth <= menu[m].depth + Structure!Height(menu, m) - 1
      BY <1>8, <1>9, <1>10, <2>1
    <3>2. menu'[n].depth = menu[n].depth + d - menu[m].depth
      BY <1>5, <2>1
    <3>3. \A x, y, h \in Nat :
            x >= y /\ x <= y + h - 1 /\ d + h - 1 <= 3 => x + d - y \in 1 .. 3
      BY <1>9
    <3> QED
      BY ONLY <1>7, <1>9, <3>1, <3>2, <3>3
  <2>2. ASSUME n \notin Structure!Subtree(menu, m)
        PROVE  menu'[n].depth \in 1 .. 3
    BY <1>5, <1>8, <2>2
  <2>3. menu'[n].parent \in DOMAIN menu \cup Services
    BY <1>5, <1>7, OneRow
  <2> QED
    BY <2>1, <2>2, <2>3
<1>12. \A n \in DOMAIN menu : RowHolds(menu'[n], DOMAIN menu')
  BY <1>4, <1>5, <1>6, <1>11 DEF RowHolds
<1>13. MenusTyped'
  BY <1>6, <1>12 DEF MenusInv, MenusTyped
<1>14. Structure!LevelsAddUp'
  <2>1. ASSUME NEW n \in DOMAIN menu'
        PROVE  /\ menu'[n].parent \in DOMAIN menu' =>
                    /\ menu'[menu'[n].parent].service = menu'[n].service
                    /\ menu'[n].depth = menu'[menu'[n].parent].depth + 1
               /\ menu'[n].parent \in Services =>
                    menu'[n].parent = menu'[n].service /\ menu'[n].depth = 1
               /\ menu'[n].depth <= 3
    <3>0. n \in DOMAIN menu
      BY <1>6
    <3>1. CASE n = m
      <4>1. menu'[n].parent = p /\ menu'[n].depth = d /\ menu'[n].service = menu[m].service
        <5>1. menu'[m].depth = menu[m].depth + d - menu[m].depth
          BY <1>1, <1>5, <1>10
        <5>2. menu[m].depth + d - menu[m].depth = d
          BY <1>9
        <5> QED
          BY <1>1, <1>5, <3>1, <5>1, <5>2
      <4>2. p \in DOMAIN menu => menu'[p].service = menu[p].service
              /\ menu'[p].depth = menu[p].depth
        BY <1>5, <1>7
      <4> QED
        BY <1>6, <1>7, <1>11, <3>0, <4>1, <4>2
    <3>2. CASE n # m
      <4>1. /\ menu'[n].parent = menu[n].parent /\ menu'[n].service = menu[n].service
            /\ menu[n].depth \in 1 .. 3
            /\ menu[n].parent \in DOMAIN menu =>
                 /\ menu[menu[n].parent].service = menu[n].service
                 /\ menu[n].depth = menu[menu[n].parent].depth + 1
            /\ menu[n].parent \in Services =>
                 menu[n].parent = menu[n].service /\ menu[n].depth = 1
                   /\ menu[n].parent \notin DOMAIN menu
        BY <1>5, <3>0, <3>2, OneRow
      <4>2. CASE menu[n].parent \in DOMAIN menu
        <5>1. PICK q : q = menu[n].parent
          OBVIOUS
        <5>2. q \in DOMAIN menu /\ q \notin Services /\ menu[q].depth \in 1 .. 3
          BY <1>8, <3>0, <4>2, <5>1, OneRow
        <5>3. menu'[q].service = menu[q].service
          BY <1>5, <5>2
        <5>4. n \in Structure!Subtree(menu, m) <=> q \in Structure!Subtree(menu, m)
          BY <1>10, <3>0, <3>2, <5>1
        <5>5. /\ menu'[n].depth = IF n \in Structure!Subtree(menu,
                   m) THEN menu[n].depth + d - menu[m].depth
                                  ELSE menu[n].depth
              /\ menu'[q].depth = IF q \in Structure!Subtree(menu,
                   m) THEN menu[q].depth + d - menu[m].depth
                                  ELSE menu[q].depth
          BY <1>5, <3>0, <5>2
        <5>6. menu'[n].depth = menu'[q].depth + 1
          BY <1>9, <4>1, <4>2, <5>1, <5>2, <5>4, <5>5
        <5> QED
          BY <1>6, <1>11, <3>0, <4>1, <4>2, <5>1, <5>2, <5>3, <5>6
      <4>3. CASE menu[n].parent \notin DOMAIN menu
        <5>1. menu[n].parent \in Services
          BY <3>0, <4>3, OneRow
        <5>2. n \notin Structure!Subtree(menu, m)
          BY <1>10, <3>0, <3>2, <4>3
        <5> QED
          BY <1>5, <1>6, <3>0, <4>1, <4>3, <5>1, <5>2
      <4> QED
        BY <4>2, <4>3
    <3> QED
      BY <3>1, <3>2
  <2> QED
    BY <1>13, <2>1, LevelsFromRows
<1>15. Structure!UrlsTellMenus'
  <2>1. Structure!Active(menu') = Structure!Active(menu)
    BY <1>5, <1>6 DEF Structure!Active
  <2>2. \A n \in Structure!Active(menu) : menu'[n].url = menu[n].url
    BY <1>5 DEF Structure!Active
  <2>3. \A url : {n \in DOMAIN menu' : menu'[n].url = url} =
          {n \in DOMAIN menu : menu[n].url = url}
    BY <1>5, <1>6
  <2>4. \A url \in {<<"p">>} : Structure!Cardinality({n \in DOMAIN menu' : menu'[n].url = url}) = 1
    BY <2>3 DEF MenusInv, Structure!UrlsTellMenus
  <2>5. \A n, o \in Structure!Active(menu') :
          n # o /\ menu'[n].url # NoUrl /\ menu'[o].url # NoUrl =>
            ~Structure!Overlap(menu'[n].url, menu'[o].url)
    BY <2>1, <2>2 DEF MenusInv, Structure!UrlsTellMenus
  <2> QED
    BY <2>4, <2>5 DEF Structure!UrlsTellMenus
<1>16. ScreenHolds'
  BY <1>1, <1>5, <1>6 DEF MenusInv, ScreenHolds
<1> QED
  BY <1>13, <1>14, <1>15, <1>16 DEF MenusInv

LEMMA MenusInit ==
  Structure!Init => MenusInv
<1> SUFFICES ASSUME Structure!Init PROVE MenusInv
  OBVIOUS
<1>1. menu \in Seeded /\ screen = NoScreen
  BY DEF Structure!Init
<1>2. PICK a, b, c :
        /\ menu = <<a, b, c>>
        /\ a = [service |-> 11, parent |-> 11, depth |-> 1, order |-> 1, url |-> NoUrl,
                active |-> TRUE, edits |-> 0]
        /\ b.service = 11 /\ b.parent = 1 /\ b.depth = 2 /\ b.url = <<"p">> /\ b.active
             /\ b.edits = 0
        /\ DOMAIN b = RowFields /\ b = [x \in RowFields |-> b[x]]
        /\ c.service \in {11, 12} /\ c.parent = c.service /\ c.depth = 1 /\ c.url = <<"a", "b">>
        /\ c.active /\ c.edits = 0
        /\ DOMAIN c = RowFields /\ c = [x \in RowFields |-> c[x]]
  <2>1. CASE menu = <<Row(11, 11, 1, 1, NoUrl),
                      Row(11, 1, 2, 3, <<"p">>),
                      Row(11, 11, 1, 1, <<"a", "b">>)>>
    BY <2>1 DEF Row, RowFields
  <2>2. CASE menu = <<Row(11, 11, 1, 1, NoUrl),
                      Row(11, 1, 2, 2, <<"p">>),
                      Row(12, 12, 1, 1, <<"a", "b">>)>>
    BY <2>2 DEF Row, RowFields
  <2> QED
    BY <1>1, <2>1, <2>2 DEF Seeded
<1>3. /\ DOMAIN menu = 1 .. 3 /\ menu = [n \in 1 .. 3 |-> menu[n]]
      /\ menu[1] = a /\ menu[2] = b /\ menu[3] = c
      /\ 1 .. 3 = {1, 2, 3}
  BY <1>2
<1>4. 1 \notin Services /\ 2 \notin Services /\ 3 \notin Services /\ 11 \notin MenuIds
        /\ 12 \notin MenuIds
  BY MenuConstants
<1>5. RowHolds(a, 1 .. 3) /\ RowHolds(b, 1 .. 3) /\ RowHolds(c, 1 .. 3)
  BY <1>2, MenuConstants DEF RowHolds, RowFields
<1>6. MenusTyped
  BY <1>3, <1>5, MenuConstants DEF MenusTyped
<1>7. Structure!LevelsAddUp
  <2>1. a.service = 11 /\ a.parent = 11 /\ a.depth = 1
    BY <1>2
  <2>2. ASSUME NEW n \in {1, 2, 3}
        PROVE  /\ menu[n].parent \in MenuIds =>
                    menu[n].parent \in DOMAIN menu
                      /\ menu[menu[n].parent].service = menu[n].service
               /\ menu[n].parent \in Services => menu[n].parent = menu[n].service
               /\ menu[n].depth = Structure!DepthUnder(menu, menu[n].parent)
               /\ menu[n].depth \in 1 .. 3
    <3>1. CASE n = 1
      BY <1>2, <1>3, <1>4, <2>1, <3>1, MenuConstants DEF Structure!DepthUnder
    <3>2. CASE n = 2
      BY <1>2, <1>3, <1>4, <2>1, <3>2, MenuConstants DEF Structure!DepthUnder
    <3>3. CASE n = 3
      BY <1>2, <1>3, <1>4, <3>3, MenuConstants DEF Structure!DepthUnder
    <3> QED
      BY <3>1, <3>2, <3>3
  <2> QED
    BY <1>3, <2>2 DEF Structure!LevelsAddUp
<1>8. Structure!UrlsTellMenus
  <2>1. ~Structure!Overlap(<<"p">>, <<"a", "b">>) /\ ~Structure!Overlap(<<"a", "b">>, <<"p">>)
    <3>1. ~Structure!IsPrefix(<<"p">>, <<"a", "b">>)
      BY DEF Structure!IsPrefix
    <3>2. ~Structure!IsPrefix(<<"a", "b">>, <<"p">>)
      BY DEF Structure!IsPrefix
    <3> QED
      BY <3>1, <3>2 DEF Structure!Overlap
  <2>2. a.url = NoUrl
    BY <1>2
  <2>3. \A m, n \in {1, 2, 3} :
          m # n /\ menu[m].url # NoUrl /\ menu[n].url # NoUrl =>
            ~Structure!Overlap(menu[m].url, menu[n].url)
    <3>1. menu[1].url = NoUrl /\ menu[2].url = <<"p">> /\ menu[3].url = <<"a", "b">>
      BY <1>2, <1>3, <2>2

    <3> QED
      BY ONLY <2>1, <3>1
  <2>4. {n \in DOMAIN menu : menu[n].url = <<"p">>} = {2}
    <3>1. <<"a", "b">> # <<"p">>
      OBVIOUS
    <3> QED
      BY <1>2, <1>3, <2>2, <3>1, MenuConstants
  <2>5. Structure!Cardinality({2}) = 1
    BY FS_Singleton, SameCount
  <2> QED
    BY <1>3, <2>3, <2>4, <2>5 DEF Structure!UrlsTellMenus, Structure!Active
<1>9. ScreenHolds
  BY <1>1 DEF ScreenHolds
<1> QED
  BY <1>6, <1>7, <1>8, <1>9 DEF MenusInv

LEMMA MenusNext ==
  MenusInv /\ [Structure!Next]_treeSide => MenusInv'
<1> SUFFICES ASSUME MenusInv, [Structure!Next]_treeSide PROVE MenusInv'
  OBVIOUS
<1>1. CASE UNCHANGED treeSide
  <2>1. menu' = menu /\ screen' = screen
    BY <1>1 DEF treeSide
  <2> QED
    BY <2>1 DEF MenusInv, MenusTyped, Structure!LevelsAddUp, Structure!UrlsTellMenus,
       Structure!Active, ScreenHolds
<1>2. CASE Structure!Next
  BY <1>2, CreateKeeps, OpenScreenKeeps, EditScreenKeeps, EditElsewhereKeeps, MoveKeeps DEF
     Structure!Next
<1> QED
  BY <1>1, <1>2

\* Whatever is inserted, moved, renumbered and deleted from screens that may be stale:
\* every menu keeps a parent of its own service one level above it, siblings keep
\* their places apart, and nothing hangs below the third level.
THEOREM MenusStayInShape == PartsSpec => []MenusHold
<1>1. PartsInit => MenusInv
  BY MenusInit DEF PartsInit
<1>2. MenusInv /\ [PartsNext]_<<orgVars, platformSide, rightsSide, treeSide, part>> => MenusInv'
  <2> SUFFICES ASSUME MenusInv,
                      [PartsNext]_<<orgVars, platformSide, rightsSide, treeSide, part>>
               PROVE  MenusInv'
    OBVIOUS
  <2>1. [Structure!Next]_treeSide
    BY DEF PartsNext
  <2> QED
    BY <2>1, MenusNext
<1>3. MenusInv => MenusHold
  BY MenusHoldFromInv DEF MenusHold
<1> QED
  BY <1>1, <1>2, <1>3, PTL DEF PartsSpec
=============================================================================
