--------------------------- MODULE BpOrganisation ---------------------------
(***************************************************************************)
(* One business partner (BP): its status, its franchise masters and the    *)
(* franchise admins that work under them, the stores they hold, and the    *)
(* role groups the franchise admins are in.                                *)
(*                                                                         *)
(* A save reads first and writes later.  What keeps two saves apart are    *)
(* row locks: every save of an account holds the BP row FOR SHARE to its   *)
(* end, a franchise admin's save also its master's row, and a save loses   *)
(* against any other write of the same account (updated_at).               *)
(***************************************************************************)
EXTENDS FiniteSets

CONSTANTS Masters, Admins,  \* accounts of role FM and of role FA
          Stores, Groups,   \* stores, and role groups for franchise admins
          ManagerOf,        \* the master a role group belongs to
          Savers            \* requests that may be under way at once

ASSUME OrganisationConstants ==
    /\ ManagerOf \in [Groups -> Masters] /\ Masters \cap Admins = {}
    /\ "none" \notin Groups

VARIABLES bp,        \* status of the BP; "DELETED": is_deleted
          account,   \* admin_accounts with admin_store_mappings
          store,     \* store_status_code, "none" before it is registered
          groups,    \* the role groups that are not deleted
          personal,  \* whose name, phone and address are stored
          save       \* what each request has read so far

orgVars == <<bp, account, store, groups, personal, save>>

Accounts == Masters \cup Admins
Owner == "BP master"
Idle == [op |-> "idle"]
NoGroup == "none"
Unregistered == [state |-> "none", stores |-> {}, group |-> NoGroup]
Account == [state: {"none", "ACTIVE", "INACTIVE"}, stores: SUBSET Stores,
            group: Groups \cup {NoGroup}]

\* What a request has read: a save of a master or of a franchise admin, the
\* removal of a role group, an edit of the BP, of a store.  current: nobody
\* wrote the account since (updated_at).
States == {"ACTIVE", "INACTIVE"}
MasterSave == [op: {"master"}, who: Masters, state: States, stores: SUBSET Stores,
               current: BOOLEAN]
AdminSave == [op: {"admin"}, who: Admins, master: Masters, group: Groups, state: States,
              asked: SUBSET Stores, current: BOOLEAN]
GroupRemoval == [op: {"group"}, who: Groups, into: Groups \cup {NoGroup},
                 members: SUBSET Admins]
BpEdit == [op: {"bp"}, who: {Owner}]
StoreEdit == [op: {"store"}, who: Stores, was: {"none", "open", "CLOSED"}]
Saves == {Idle} \cup MasterSave \cup AdminSave \cup GroupRemoval \cup BpEdit \cup StoreEdit

TypeOK ==
    /\ bp \in {"ACTIVE", "INACTIVE", "WITHDRAWN", "DELETED"}
    /\ account \in [Accounts -> Account]
    /\ store \in [Stores -> {"none", "open", "CLOSED"}]
    /\ groups \subseteq Groups /\ personal \subseteq Accounts \cup {Owner}
    /\ save \in [Savers -> Saves]

Init ==
    /\ bp = "ACTIVE" /\ account = [a \in Accounts |-> Unregistered]
    /\ store \in [Stores -> {"none", "open"}]
    /\ groups = Groups /\ personal = {Owner} /\ save = [c \in Savers |-> Idle]

----------------------------------------------------------------------------
Known(a) == account[a].state # "none"
Active(a) == account[a].state = "ACTIVE"
MasterOf(f) == ManagerOf[account[f].group]
Team(m) == {f \in Admins : Known(f) /\ MasterOf(f) = m}

Begin(c, r) == save[c] = Idle /\ save' = [save EXCEPT ![c] = r]
Doing(c, op) == save[c].op = op

\* Writing an account takes every save of it that is under way out of date.
Outdated(some) ==
    [c \in Savers |-> IF save[c].op \in {"master", "admin"} /\ save[c].who \in some
                      THEN [save[c] EXCEPT !.current = FALSE] ELSE save[c]]
Outdate(some) == save' = Outdated(some)
Finish(c, some) == save' = [Outdated(some) EXCEPT ![c] = Idle]

\* lockRoleGroup: it is not deleted, and nobody is about to delete it.
GroupStays(g) ==
    g \in groups /\ \A c \in Savers : Doing(c, "group") => g \notin {save[c].who, save[c].into}

\* lockBp: a save of an account holds the BP row until it ends.
HoldsBp(c) == save[c].op \in {"master", "admin"}
BpIsFree == \A c \in Savers : ~HoldsBp(c)
MaySave(state) == bp = "ACTIVE" \/ (bp = "INACTIVE" /\ state = "INACTIVE")

\* planStores: what the saver may give out, and what stays beyond that.
Plan(before, asked, allowed) == (before \ allowed) \cup asked
MayGive(before, asked, allowed) ==
    /\ asked \subseteq allowed /\ Plan(before, asked, allowed) # {}
    /\ \A s \in asked \ before : store[s] # "CLOSED"
AllStores == {s \in Stores : store[s] # "none"}

----------------------------------------------------------------------------
\* The head office saves a franchise master: the account is read under lockBp.
BeginMaster(c, m) ==
    \E state \in {"ACTIVE", "INACTIVE"}, asked \in SUBSET Stores :
        /\ MaySave(state) /\ MayGive(account[m].stores, asked, AllStores)
        /\ ~Known(m) => state = "ACTIVE"
        /\ Begin(c, [op |-> "master", who |-> m, state |-> state, current |-> TRUE,
                     stores |-> Plan(account[m].stores, asked, AllStores)])
        /\ UNCHANGED <<bp, account, store, groups, personal>>

\* A mutant: stores the account already had are taken to be free.
HeldElsewhereNew(m, r) ==
    {s \in r.stores \ account[m].stores : \E o \in Masters \ {m} : Active(o) /\ s \in account[o].stores}

\* assertStoresFree, under the advisory lock of the BP.
HeldElsewhere(m, r) ==
    LET reactivated == ~Active(m) /\ r.state = "ACTIVE"
        checked == IF reactivated THEN r.stores ELSE r.stores \ account[m].stores
    IN {s \in checked : \E o \in Masters \ {m} : Active(o) /\ s \in account[o].stores}

\* A mutant: what a master loses is left with the franchise admins.
CascadeNothing(m, r, a) == account[a]

\* cascadeFromMaster: the team follows its master's stores and status down.
Cascade(m, r, a) ==
    IF a \notin Team(m) THEN account[a]
    ELSE [account[a] EXCEPT
             !.stores = @ \ (account[m].stores \ r.stores),
             !.state = IF r.state = "INACTIVE" /\ Active(m) THEN "INACTIVE" ELSE @]

SaveMaster(c) ==
    /\ Doing(c, "master") /\ save[c].current
    /\ LET r == save[c]
           m == r.who
           next == [a \in Accounts |->
                       IF a = m THEN [account[m] EXCEPT !.state = r.state, !.stores = r.stores]
                       ELSE IF a \in Admins THEN Cascade(m, r, a) ELSE account[a]]
       IN /\ r.state = "ACTIVE" => HeldElsewhere(m, r) = {}
          /\ account' = next /\ personal' = personal \cup {m}
          /\ Finish(c, {a \in Accounts : next[a] # account[a]} \cup {m})
    /\ UNCHANGED <<bp, store, groups>>

\* A master saves one of its franchise admins, who is read before the master is
\* locked and read again.
BeginAdmin(c, f) ==
    \E m \in Masters, g \in groups, state \in {"ACTIVE", "INACTIVE"}, asked \in SUBSET Stores :
        /\ Active(m) /\ ManagerOf[g] = m /\ MaySave(state)
        /\ IF Known(f) THEN MasterOf(f) = m ELSE state = "ACTIVE"
        /\ Begin(c, [op |-> "admin", who |-> f, master |-> m, group |-> g, state |-> state,
                     asked |-> asked, current |-> TRUE])
        /\ UNCHANGED <<bp, account, store, groups, personal>>

\* A mutant: the chosen role group is not locked and looked at again.
SaveAdminIntoAnyGroup(c) ==
    /\ Doing(c, "admin") /\ save[c].current
    /\ LET r == save[c]
           held == account[r.master].stores
           before == account[r.who].stores
       IN /\ Active(r.master) /\ MayGive(before, r.asked, held)
          /\ account' = [account EXCEPT ![r.who] = [state |-> r.state, group |-> r.group,
                                           stores |-> Plan(before, r.asked, held)]]
          /\ personal' = personal \cup {r.who}
          /\ Finish(c, {r.who})
    /\ UNCHANGED <<bp, store, groups>>

SaveAdmin(c) ==
    /\ Doing(c, "admin") /\ save[c].current
    /\ LET r == save[c]
           held == account[r.master].stores
           before == account[r.who].stores
       IN /\ Active(r.master) /\ MayGive(before, r.asked, held)
          /\ r.group # account[r.who].group => GroupStays(r.group)
          /\ account' = [account EXCEPT ![r.who] = [state |-> r.state, group |-> r.group,
                                           stores |-> Plan(before, r.asked, held)]]
          /\ personal' = personal \cup {r.who}
          /\ Finish(c, {r.who})
    /\ UNCHANGED <<bp, store, groups>>

\* A save is refused, is out of date, or its process ends: it is rolled back.
GiveUp(c) == /\ save[c] # Idle /\ Finish(c, {})
             /\ UNCHANGED <<bp, account, store, groups, personal>>

----------------------------------------------------------------------------
\* remove of a role group: it and its replacement are locked, then who is in it
\* is read, ...
BeginRemoveGroup(c) ==
    \E g \in groups, into \in Groups \cup {NoGroup} :
        LET members == {f \in Admins : account[f].group = g} IN
        /\ IF into = NoGroup THEN members = {}
           ELSE into \in groups \ {g} /\ ManagerOf[into] = ManagerOf[g]
        /\ \A d \in Savers : save[d].op = "group" => {save[d].who, save[d].into} \cap {g, into} \subseteq {NoGroup}
        /\ Begin(c, [op |-> "group", who |-> g, into |-> into, members |-> members])
        /\ UNCHANGED <<bp, account, store, groups, personal>>

\* ... and whoever was read moves to the replacement, wherever it is by now.
RemoveGroup(c) ==
    /\ Doing(c, "group")
    /\ account' = [a \in Accounts |-> IF a \in save[c].members
                      THEN [account[a] EXCEPT !.group = save[c].into] ELSE account[a]]
    /\ groups' = groups \ {save[c].who}
    /\ Finish(c, save[c].members)
    /\ UNCHANGED <<bp, store, personal>>

----------------------------------------------------------------------------
Down(a) == IF Active(a) THEN [account[a] EXCEPT !.state = "INACTIVE"] ELSE account[a]

\* A mutant: the BP row is not waited for.
ChangeBpStatusAtOnce ==
    \/ /\ bp = "ACTIVE" /\ bp' = "INACTIVE"
       /\ account' = [a \in Accounts |-> Down(a)] /\ Outdate({a \in Accounts : Active(a)})
       /\ UNCHANGED <<store, groups, personal>>
    \/ /\ bp = "INACTIVE" /\ bp' = "ACTIVE"
       /\ UNCHANGED <<account, store, groups, personal, save>>

\* changeStatus of the BP: down it takes every account along, up only its master.
ChangeBpStatus ==
    /\ BpIsFree
    /\ \/ /\ bp = "ACTIVE" /\ bp' = "INACTIVE"
          /\ account' = [a \in Accounts |-> Down(a)]
          /\ Outdate({a \in Accounts : Active(a)})
       \/ bp = "INACTIVE" /\ bp' = "ACTIVE" /\ UNCHANGED <<account, save>>
    /\ UNCHANGED <<store, groups, personal>>

\* execute of a withdrawal: accounts go down, personal data goes, stores close.
Withdraw ==
    /\ BpIsFree /\ bp \in {"ACTIVE", "INACTIVE"} /\ bp' = "WITHDRAWN"
    /\ account' = [a \in Accounts |-> Down(a)] /\ Outdate(Accounts)
    /\ personal' = {}
    /\ store' = [s \in Stores |-> IF store[s] = "open" THEN "CLOSED" ELSE store[s]]
    /\ UNCHANGED groups

\* update of the BP by the platform: its status is read without a lock, and
\* the write that waits for the BP row does not look at it again.
ReadBp(c) ==
    /\ bp \in {"ACTIVE", "INACTIVE"} /\ Begin(c, [op |-> "bp", who |-> Owner])
    /\ UNCHANGED <<bp, account, store, groups, personal>>
UpdateBp(c) ==
    /\ Doing(c, "bp") /\ BpIsFree /\ personal' = personal \cup {Owner}
    /\ Finish(c, {}) /\ UNCHANGED <<bp, account, store, groups>>

\* remove of a BP that was registered by mistake.
RemoveBp ==
    /\ BpIsFree /\ bp \in {"ACTIVE", "INACTIVE"} /\ bp' = "DELETED"
    /\ \A a \in Accounts : ~Known(a)
    /\ AllStores = {}
    /\ UNCHANGED <<account, store, groups, personal, save>>

\* A store is registered or closed: the status of the BP is read before.
ReadForStore(c) ==
    /\ bp = "ACTIVE" /\ \E s \in Stores : Begin(c, [op |-> "store", who |-> s, was |-> store[s]])
    /\ UNCHANGED <<bp, account, store, groups, personal>>
SaveStore(c) ==
    /\ Doing(c, "store") /\ store[save[c].who] = save[c].was /\ save[c].was # "CLOSED"
    /\ store' = [store EXCEPT ![save[c].who] = IF @ = "none" THEN "open" ELSE "CLOSED"]
    /\ Finish(c, {}) /\ UNCHANGED <<bp, account, groups, personal>>

Next ==
    \/ \E c \in Savers :
          \/ \E m \in Masters : BeginMaster(c, m)
          \/ \E f \in Admins : BeginAdmin(c, f)
          \/ SaveMaster(c) \/ SaveAdmin(c) \/ BeginRemoveGroup(c) \/ RemoveGroup(c)
          \/ GiveUp(c)
          \/ ReadBp(c) \/ UpdateBp(c) \/ ReadForStore(c) \/ SaveStore(c)
    \/ ChangeBpStatus \/ Withdraw \/ RemoveBp

Spec == Init /\ [][Next]_orgVars

----------------------------------------------------------------------------
\* No store is held by two active franchise masters.
OneMasterPerStore ==
    \A m, o \in Masters :
        m # o /\ Active(m) /\ Active(o) => account[m].stores \cap account[o].stores = {}

\* A franchise admin holds no store its master does not hold, and is active
\* only while its master is.
TeamWithinMaster ==
    \A f \in Admins : Known(f) =>
        /\ account[f].stores \subseteq account[MasterOf(f)].stores
        /\ Active(f) => Active(MasterOf(f))

\* An account that is not deleted is never in a role group that is: it would be
\* refused every menu.
GroupsAlive == \A f \in Admins : Known(f) => account[f].group \in groups

\* A BP that is not in use has no account in use, whatever was being saved.
ActiveOnlyInActiveBp == bp # "ACTIVE" => \A a \in Accounts : ~Active(a)

\* A withdrawal erases names, phones and addresses for good.
WithdrawnIsErased == bp = "WITHDRAWN" => personal = {}
=============================================================================
