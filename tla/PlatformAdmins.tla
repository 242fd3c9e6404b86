--------------------------- MODULE PlatformAdmins ---------------------------
(***************************************************************************)
(* The administrators of the platform itself: platform masters, who are in *)
(* the one master role group, and additional administrators.  A change     *)
(* that could take the last active master away locks the active masters    *)
(* first, one row after the other in the order of their ids; so does the   *)
(* deletion of a role group with the accounts that are in it.              *)
(***************************************************************************)
EXTENDS Integers, FiniteSets

CONSTANTS People,      \* ids of accounts, and of
          RoleGroups,  \* additional role groups: numbers, the order of locking
          MasterGroup, \* the role group of the masters, which is never deleted
          Requests     \* requests that may be under way at once

VARIABLES admin,   \* admin_accounts of the platform; the group tells the role
          groups,  \* the role groups that are not deleted
          request  \* what each request has read and locked so far

platformVars == <<admin, groups, request>>

NoRequest == [op |-> "none", held |-> {}, shared |-> {}, left |-> {}]
States == {"none", "ACTIVE", "INACTIVE", "deleted"}
AllGroups == RoleGroups \cup {MasterGroup}

TypeOK ==
    /\ admin \in [People -> [state: States, group: AllGroups]]
    /\ MasterGroup \in groups /\ groups \subseteq AllGroups
    /\ DOMAIN request = Requests

Init ==
    /\ \E p \in People : admin =
          [q \in People |-> IF q = p THEN [state |-> "ACTIVE", group |-> MasterGroup]
                                     ELSE [state |-> "none", group |-> MasterGroup]]
    /\ groups = AllGroups /\ request = [r \in Requests |-> NoRequest]

----------------------------------------------------------------------------
Known(p) == admin[p].state \in {"ACTIVE", "INACTIVE"}
Master(p) == admin[p].group = MasterGroup
ActiveMaster(p) == admin[p].state = "ACTIVE" /\ Master(p)
First(S) == CHOOSE x \in S : \A y \in S : x <= y

At(r, op, step) == request[r].op = op /\ request[r].step = step
Put(r, next) == request' = [request EXCEPT ![r] = next]
Stay == UNCHANGED <<admin, groups>>

\* Writing an account takes the changes of it that are under way out of date.
Written(r, some) ==
    request' = [q \in Requests |->
        IF q = r THEN NoRequest
        ELSE IF request[q].op = "change" /\ request[q].who \in some
             THEN [request[q] EXCEPT !.current = FALSE] ELSE request[q]]

\* Locks are kept to the end of the transaction: of accounts (held), of role
\* groups FOR SHARE (shared) or, while one is deleted, FOR UPDATE (held).
RowHolder(r, p) ==
    {q \in Requests \ {r} : request[q].op \in {"change", "group"} /\ <<"row", p>> \in request[q].held}
GroupHolder(r, g, exclusive) ==
    {q \in Requests \ {r} : \/ <<"group", g>> \in request[q].held
                            \/ exclusive /\ g \in request[q].shared}

----------------------------------------------------------------------------
\* create, update and remove of an account: it is read, and so is what the
\* caller may do; nobody changes its own role or state, only a master touches
\* masters.  next: what the account is to become.
BeginChange(r, p) ==
    \E by \in People \ {p}, next \in [state: {"ACTIVE", "INACTIVE", "deleted"}, group: groups] :
        LET before == admin[p]
            regroups == ~Known(p) \/ next.group # before.group
        IN
        /\ request[r] = NoRequest /\ admin[by].state = "ACTIVE" /\ before.state # "deleted"
        /\ (Known(p) /\ Master(p)) \/ next.group = MasterGroup => Master(by)
        /\ IF Known(p) THEN next.state = "deleted" => next.group = before.group
                       ELSE next.state = "ACTIVE"
        /\ Put(r, [op |-> "change", who |-> p, was |-> before, next |-> next, current |-> TRUE,
                   left |-> {},
                   step |-> IF regroups THEN "group" ELSE "masters", held |-> {}, shared |-> {},
                   leaves |-> ActiveMaster(p) /\ (next.state # "ACTIVE" \/ next.group # MasterGroup)])
        /\ Stay

\* lockPlatformRoleGroup
TakeGroup(r) ==
    /\ At(r, "change", "group")
    /\ LET g == request[r].next.group IN
          /\ g \in groups /\ GroupHolder(r, g, FALSE) = {}
          /\ Put(r, [request[r] EXCEPT !.step = "masters", !.shared = {g}])
    /\ Stay

\* A mutant: the masters are counted without locking them.
CountMasters(r) ==
    /\ At(r, "change", "masters")
    /\ request[r].leaves => \E p \in People \ {request[r].who} : ActiveMaster(p)
    /\ Put(r, [request[r] EXCEPT !.step = "write"])
    /\ Stay

\* A mutant: the account itself is locked before the masters are.
ReadMastersAfterTarget(r) ==
    /\ At(r, "change", "masters") /\ RowHolder(r, request[r].who) = {}
    /\ Put(r, [request[r] EXCEPT
           !.left = IF request[r].leaves THEN {p \in People : ActiveMaster(p)} ELSE {},
           !.held = {<<"row", request[r].who>>},
           !.step = IF request[r].leaves THEN "locking" ELSE "write"])
    /\ Stay

\* assertAnotherActiveMaster: the active masters are read, ...
ReadMasters(r) ==
    /\ At(r, "change", "masters")
    /\ Put(r, [request[r] EXCEPT
           !.left = IF request[r].leaves THEN {p \in People : ActiveMaster(p)} ELSE {},
           !.step = IF request[r].leaves THEN "locking" ELSE "write"])
    /\ Stay

\* ... and locked; one that is no longer an active master is passed over.
LockMaster(r) ==
    /\ At(r, "change", "locking") /\ request[r].left # {}
    /\ LET p == First(request[r].left) IN
          /\ RowHolder(r, p) = {}
          /\ Put(r, [request[r] EXCEPT !.left = @ \ {p},
                        !.held = IF ActiveMaster(p) THEN @ \cup {<<"row", p>>} ELSE @])
    /\ Stay

AnotherMaster(r) ==
    /\ At(r, "change", "locking") /\ request[r].left = {}
    /\ \E p \in People \ {request[r].who} : <<"row", p>> \in request[r].held
    /\ Put(r, [request[r] EXCEPT !.step = "write"])
    /\ Stay

\* What the write asks for: that nobody wrote the account since it was read
\* (updated_at), or, to delete it, that its state and role are as they were.
Matches(r) ==
    LET p == request[r].who
        was == request[r].was
    IN IF request[r].next.state = "deleted"
       THEN admin[p].state = was.state /\ (Master(p) <=> was.group = MasterGroup)
       ELSE request[r].current

Change(r) ==
    LET p == request[r].who IN
    /\ At(r, "change", "write") /\ Matches(r) /\ RowHolder(r, p) = {}
    /\ admin' = [admin EXCEPT ![p].state = request[r].next.state,
                              ![p].group = IF request[r].next.state = "deleted" THEN @
                                           ELSE request[r].next.group]
    /\ Written(r, {p})
    /\ UNCHANGED groups

----------------------------------------------------------------------------
\* remove of a role group, with the role group its accounts move to.
BeginRemoval(r) ==
    \E g \in groups \cap RoleGroups, into \in AllGroups :
        /\ request[r] = NoRequest
        /\ \E by \in People : admin[by].state = "ACTIVE" /\ admin[by].group # g
        /\ into = g \/ into \in RoleGroups   \* g itself: no replacement is named
        /\ Put(r, [op |-> "group", who |-> g, into |-> into, left |-> {g, into},
                   step |-> "groups", held |-> {}, shared |-> {}])
        /\ Stay

LockGroup(r) ==
    /\ At(r, "group", "groups") /\ request[r].left # {}
    /\ LET g == First(request[r].left) IN
          /\ GroupHolder(r, g, TRUE) = {}
          /\ Put(r, [request[r] EXCEPT !.left = @ \ {g}, !.held = @ \cup {<<"group", g>>}])
    /\ Stay

ReadMembers(r) ==
    /\ At(r, "group", "groups") /\ request[r].left = {}
    /\ {request[r].who, request[r].into} \subseteq groups
    /\ Put(r, [request[r] EXCEPT !.step = "members",
                  !.left = {p \in People : Known(p) /\ admin[p].group = request[r].who}])
    /\ Stay

LockMember(r) ==
    /\ At(r, "group", "members") /\ request[r].left # {}
    /\ LET p == First(request[r].left) IN
          /\ RowHolder(r, p) = {}
          /\ Put(r, [request[r] EXCEPT !.left = @ \ {p},
                        !.held = IF Known(p) /\ admin[p].group = request[r].who
                                 THEN @ \cup {<<"row", p>>} ELSE @])
    /\ Stay

RemoveGroup(r) ==
    /\ At(r, "group", "members") /\ request[r].left = {}
    /\ LET g == request[r].who
           members == {p \in People : <<"row", p>> \in request[r].held}
       IN /\ members # {} => request[r].into # g
          /\ admin' = [p \in People |-> IF p \in members
                          THEN [admin[p] EXCEPT !.group = request[r].into] ELSE admin[p]]
          /\ groups' = groups \ {g}
          /\ Written(r, members)

\* A request is refused, or its process ends: the transaction is rolled back.
GiveUp(r) == request[r] # NoRequest /\ Put(r, NoRequest) /\ Stay

Next == \E r \in Requests :
    \/ \E p \in People : BeginChange(r, p)
    \/ TakeGroup(r) \/ ReadMasters(r) \/ LockMaster(r) \/ AnotherMaster(r) \/ Change(r)
    \/ BeginRemoval(r) \/ LockGroup(r) \/ ReadMembers(r) \/ LockMember(r) \/ RemoveGroup(r)
    \/ GiveUp(r)

Spec == Init /\ [][Next]_platformVars

----------------------------------------------------------------------------
\* However the masters demote and delete one another, one stays in use.
AlwaysAMaster == \E p \in People : ActiveMaster(p)

\* Nobody is in a role group that is deleted: it would be refused every menu.
GroupsAlive == \A p \in People : Known(p) => admin[p].group \in groups

\* Whom a request waits for: the database would have to break a circle of these.
WaitsFor(r) ==
    CASE At(r, "change", "group") -> GroupHolder(r, request[r].next.group, FALSE)
      [] At(r, "change", "write") /\ Matches(r) -> RowHolder(r, request[r].who)
      [] At(r, "group", "groups") /\ request[r].left # {} ->
            GroupHolder(r, First(request[r].left), TRUE)
      [] request[r].op # "none" /\ request[r].step \in {"locking", "members"}
            /\ request[r].left # {} -> RowHolder(r, First(request[r].left))
      [] OTHER -> {}

\* No requests wait for one another in a circle, unless one deletes an account
\* that was changed, and changed back, since it was read.
NobodyWaitsInACircle ==
    \A circle \in (SUBSET Requests) \ {{}} :
        \/ \E r \in circle : WaitsFor(r) \cap circle = {}
        \/ \E r \in circle : At(r, "change", "write") /\ ~request[r].current
=============================================================================
