--------------------------- MODULE MCOrganisation ---------------------------
(***************************************************************************)
(* The administrators of one business partner, those of the platform, the  *)
(* menus, and what role groups may do in them, side by side: part says     *)
(* which of them a behaviour is about, the others stand still.             *)
(***************************************************************************)
EXTENDS BpOrganisation, Naturals, TLC

CONSTANTS People, RoleGroups, MasterGroup, Requests, m1, Menus, Base, Teams,
          Services, MenuIds, NoUrl, NoScreen, MaxEdits,
          PartsShown   \* bound: the components whose behaviours are enumerated
VARIABLES admin, platformGroups, request,
          tree, rights, menuSave, grouped, overtaken, menu, screen, part

Platform == INSTANCE PlatformAdmins WITH groups <- platformGroups
platformSide == <<admin, platformGroups, request>>

\* Accounts and role groups have numbers, and there are finitely many.
ASSUME PlatformConstants ==
    /\ People \cup RoleGroups \cup {MasterGroup} \subseteq Nat
    /\ IsFiniteSet(People \cup RoleGroups \cup {MasterGroup})
    /\ MasterGroup \notin RoleGroups

\* Bound: one menu with two below it, one of them moved out or out of use.
Nested == [m \in Menus |-> IF m = 1 THEN 0 ELSE 1]
Shapes == {[parent |-> Nested, off |-> {}],
           [parent |-> [Nested EXCEPT ![2] = 0], off |-> {}],
           [parent |-> Nested, off |-> {3}]}
Cells == INSTANCE MenuRights WITH save <- menuSave, Trees <- Shapes, Top <- 0
rightsSide == <<tree, rights, menuSave, grouped, overtaken>>
ASSUME RightsConstants == Base \notin Teams

\* Bound: what the migrations left, a gap in the orders, a tie, and URLs of two
\* segments, one of them asked for by a controller.
Row(s, p, d, o, url) == [service |-> s, parent |-> p, depth |-> d, order |-> o,
                         url |-> url, active |-> TRUE, edits |-> 0]
Seeded == {<<Row(11, 11, 1, 1, NoUrl), Row(11, 1, 2, 3, <<"p">>), Row(11, 11, 1, 1, <<"a", "b">>)>>,
           <<Row(11, 11, 1, 1, NoUrl), Row(11, 1, 2, 2, <<"p">>), Row(12, 12, 1, 1, <<"a", "b">>)>>}
Structure == INSTANCE PlatformMenus WITH
            Menus <- MenuIds, MaxDepth <- 3, Seeds <- Seeded,
            Urls <- {<<"a">>, <<"p">>}, ApiUrls <- {<<"p">>}
treeSide == <<menu, screen>>
ASSUME MenuConstants ==
    /\ {1, 2, 3} \subseteq MenuIds /\ {11, 12} \subseteq Services
    /\ MenuIds \cap Services = {} /\ NoUrl # <<"p">>

PartsInit ==
    /\ part \in PartsShown /\ Init /\ Platform!Init /\ Cells!Init /\ Structure!Init
    /\ part # "bp" => \A s \in Stores : store[s] = "open"
    /\ part # "platform" => \A p \in People : Platform!Known(p) => p = Platform!First(People)
    /\ part # "rights" => tree.parent = Nested /\ tree.off = {}
    /\ part # "menus" => menu = CHOOSE rows \in Seeded : TRUE
PartsNext ==
    /\ UNCHANGED part
    /\ \/ part = "bp" /\ Next /\ UNCHANGED <<platformSide, rightsSide, treeSide>>
       \/ part = "platform" /\ Platform!Next /\ UNCHANGED <<orgVars, rightsSide, treeSide>>
       \/ part = "rights" /\ Cells!Next /\ UNCHANGED <<orgVars, platformSide, treeSide>>
       \/ part = "menus" /\ Structure!Next /\ UNCHANGED <<orgVars, platformSide, rightsSide>>
PartsSpec == PartsInit /\ [][PartsNext]_<<orgVars, platformSide, rightsSide, treeSide, part>>

\* Properties of PlatformAdmins, MenuRights and PlatformMenus, under names of this module.
AlwaysAMaster == Platform!AlwaysAMaster
NobodyWaitsInACircle == Platform!NobodyWaitsInACircle
TeamsWithinBase == Cells!TeamsWithinBase
NobodyBeyondBase == Cells!NobodyBeyondBase
MenusHold == Structure!MenusHold
\* PlatformMenus' ImplementsMenuTree, where the behaviour is about the menus.
ImplementsMenuTree ==
    Structure!Tree!Init /\ [][part = "menus" => Structure!Tree!Next]_treeSide
\* Nobody is in a deleted role group, at a BP (BpOrganisation's GroupsAlive) or
\* at the platform (PlatformAdmins' GroupsAlive).
AllGroupsAlive == GroupsAlive /\ Platform!GroupsAlive

\* Every role group belongs to the first master.
OneManager == [g \in Groups |-> m1]

\* Bound: an edit of the BP itself or of a store overlaps no other request but
\* the withdrawal, the deletion and the change of status of the BP.  A save that
\* is out of date can only be given up, which it might have been before.  No
\* save of menu rights was overtaken (see TeamsWithinBase).  One menu is edited
\* once, or one is created with nothing edited and no screen open.
Bound ==
    /\ \A c, d \in Savers :
          c # d /\ save[c].op \in {"bp", "store"} => save[d] = [op |-> "idle"]
    /\ \A c \in Savers : save[c].op \in {"master", "admin"} => save[c].current
    /\ ~overtaken
    /\ Cardinality({m \in DOMAIN menu : menu[m].edits > 0}) <= 1
    /\ Cardinality(DOMAIN menu) = Cardinality(MenuIds) =>
          screen = NoScreen /\ \A m \in DOMAIN menu : menu[m].edits = 0
Symmetry == Permutations(Savers) \cup Permutations(Stores) \cup Permutations(Groups)
            \cup Permutations(Requests)
=============================================================================
