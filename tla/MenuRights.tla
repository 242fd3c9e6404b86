----------------------------- MODULE MenuRights -----------------------------
(***************************************************************************)
(* What the role groups of business partners may do in which menu.  A base *)
(* role (BM000001 or FM000001) is edited by the platform; the groups under *)
(* it are edited by a master of the BP and are not to exceed it, so what   *)
(* the base role loses is taken from them in the same transaction.         *)
(*                                                                         *)
(* A save reads the menus and the ceiling first and writes in a later      *)
(* transaction.  What orders saves is only the row of the edited group:    *)
(* its updated_at must be the one the screen was opened with.              *)
(*                                                                         *)
(* Create, update and delete behave alike: "write" stands for the three.   *)
(* The menus are those of WHALE_ERP; the tree changes as PlatformMenus     *)
(* describes it, here between the shapes of Trees.                         *)
(***************************************************************************)
EXTENDS FiniteSets

CONSTANTS Menus,
          Top,     \* no menu: the parent of the first level
          Base,    \* the base role
          Teams,   \* groups under it, none is Base
          Trees    \* bound: the shapes of the tree that occur, [parent, off]

VARIABLES tree,      \* menus.parent_menu_id and status
          rights,    \* role_group_menus, no row is {}
          save,      \* what the save of a group has read so far
          grouped,   \* menus that have been a group of menus so far
          overtaken  \* a save was written though the base role had lost rights since its reads

menuVars == <<tree, rights, save, grouped, overtaken>>

Ops == {"read", "write"}
Idle == [op |-> "idle"]

-----------------------------------------------------------------------------
(* role-menu-rules.ts                                                      *)

Above(t, m) == IF t.parent[m] = Top THEN {} ELSE {t.parent[m]}
Ancestors(t, m) ==
    LET one == Above(t, m) IN LET two == UNION {Above(t, n) : n \in one}
    IN one \cup two
Visible(t) == {m \in Menus : t.off \cap ({m} \cup Ancestors(t, m)) = {}}
\* A menu with visible menus under it: it opens no screen of its own.
GroupMenus(t) == {m \in Visible(t) : \E n \in Visible(t) : t.parent[n] = m}
Leaves(t) == Visible(t) \ GroupMenus(t)

\* Nobody writes who may not read.
RowAllowed(cell) == cell # {} => "read" \in cell

\* The menus of a group of menus decide what it shows.
ReadBelow(t, cells, m) ==
    \E n \in Leaves(t) : m \in Ancestors(t, n) /\ "read" \in cells[n]
Normalized(t, cells) ==
    [m \in Menus |-> IF m \notin GroupMenus(t) THEN cells[m]
                     ELSE IF ReadBelow(t, cells, m) THEN {"read"} ELSE {}]

\* The present cells under the rows that were sent.
Planned(t, before, rows) ==
    Normalized(t, [m \in Menus |-> IF m \in DOMAIN rows THEN rows[m] ELSE before[m]])

Changed(t, before, after, m) ==
    IF m \in Visible(t) THEN (before[m] \ after[m]) \cup (after[m] \ before[m]) ELSE {}

\* Fault: a menu the ceiling has no row for is held to be allowed.
WithinKnown(t, before, after, ceiling) ==
    \A m \in Menus \ GroupMenus(t) :
        Changed(t, before, after, m) \subseteq ceiling[m] \/ ceiling[m] = {}
\* What changes, on or off, lies within the ceiling; group menus follow their menus.
Within(t, before, after, ceiling) ==
    \A m \in Menus \ GroupMenus(t) : Changed(t, before, after, m) \subseteq ceiling[m]

Less(cell, revoked) == IF "read" \in revoked THEN {} ELSE cell \ revoked

-----------------------------------------------------------------------------
Init ==
    /\ tree \in Trees /\ grouped = GroupMenus(tree)
    /\ rights = [g \in Teams \cup {Base} |-> [m \in Menus |-> {}]]
    /\ save = [g \in Teams \cup {Base} |-> Idle]
    /\ overtaken = FALSE

\* PlatformMenusService: a menu is moved, taken out of use or put back.
Reshape(t) ==
    /\ t # tree /\ tree' = t /\ grouped' = grouped \cup GroupMenus(t)
    /\ UNCHANGED <<rights, save, overtaken>>

\* The rows of one request.  Rows of group menus are dropped; whoever leaves out
\* a row sends what the screen showed: its updated_at says nothing has changed.
Rows(t) == [Leaves(t) -> {cell \in SUBSET Ops : RowAllowed(cell)}]

\* save, what comes before its transaction: the menus are read, and for a group
\* of a BP what the base role (and the caller, who is in it) may do.
ReadMenus(g) ==
    /\ save[g] = Idle
    /\ save' = [save EXCEPT ![g] = [op |-> "menus", tree |-> tree]]
    /\ UNCHANGED <<tree, rights, grouped, overtaken>>
ReadCeiling(g) ==
    /\ save[g].op = "menus"
    /\ save' = [save EXCEPT ![g] = [op |-> "save", tree |-> @.tree, ceiling |-> rights[Base]]]
    /\ UNCHANGED <<tree, rights, grouped, overtaken>>
\* Answered with an error, before it was written.
GiveUp(g) ==
    /\ save[g] # Idle
    /\ save' = [save EXCEPT ![g] = Idle]
    /\ UNCHANGED <<tree, rights, grouped, overtaken>>

\* BpRoleGroupMenusService.save, its transaction.  Whoever else had the screen
\* of g open is answered with a conflict: nothing of such a save is left.
SaveTeam(g) ==
    LET s == save[g] IN
    /\ s.op = "save"
    /\ \E rows \in Rows(s.tree) :
         LET after == Planned(s.tree, rights[g], rows)
         IN  /\ Within(s.tree, rights[g], after, s.ceiling)
             /\ rights' = [rights EXCEPT ![g] = after]
    /\ save' = [save EXCEPT ![g] = Idle]
    /\ overtaken' = (overtaken \/ \E m \in Menus : ~(s.ceiling[m] \subseteq rights[Base][m]))
    /\ UNCHANGED <<tree, grouped>>

\* PlatformRoleGroupMenusService.save for a base role, its transaction: what is
\* taken back is taken back from the groups under it, and a group menu they can
\* see nothing under any more closes.
Cascade(t, g, after) ==
    LET before == rights[g]
        revoked == [m \in Menus |-> IF m \in Visible(t) THEN rights[Base][m] \ after[m] ELSE {}]
        less == [m \in Menus |-> IF revoked[m] = {} THEN before[m] ELSE Less(before[m], revoked[m])]
    IN  IF less = before THEN before
        ELSE [m \in Menus |-> IF m \in GroupMenus(t) /\ ~ReadBelow(t, less, m)
                                 /\ "read" \in before[m] THEN {} ELSE less[m]]
SaveBase ==
    LET t == save[Base].tree IN
    /\ save[Base].op = "menus"
    /\ \E rows \in Rows(t) :
         LET after == Planned(t, rights[Base], rows)
             kept == [g \in Teams |-> Cascade(t, g, after)]
         IN  /\ rights' = [g \in Teams \cup {Base} |-> IF g = Base THEN after ELSE kept[g]]
             \* The updated_at of whoever loses moves on: its screens are out of date.
             /\ save' = [g \in Teams \cup {Base} |->
                           IF g = Base \/ kept[g] # rights[g] THEN Idle ELSE save[g]]
    /\ UNCHANGED <<tree, grouped, overtaken>>

Next ==
    \/ \E t \in Trees : Reshape(t)
    \/ \E g \in Teams \cup {Base} : ReadMenus(g) \/ GiveUp(g)
    \/ \E g \in Teams : ReadCeiling(g) \/ SaveTeam(g)
    \/ SaveBase

Spec == Init /\ [][Next]_menuVars

-----------------------------------------------------------------------------
TypeOK ==
    /\ tree \in Trees /\ grouped \subseteq Menus /\ overtaken \in BOOLEAN
    /\ rights \in [Teams \cup {Base} -> [Menus -> {c \in SUBSET Ops : RowAllowed(c)}]]

\* The guard of the API: the menu itself is in use and the group has the right.
Opens(g, m, op) == m \notin tree.off /\ op \in rights[g][m]

\* Nobody in a group of a BP may do in a menu what the base role may not ("BA 는
\* BM000001, FA 는 FM000001 을 넘지 못한다", bp-role-group-access.ts), where the
\* menu was never a group of menus and no save wrote what the base role lost while
\* it was under way: whatever is saved, lost, moved and hidden in which order.
TeamsWithinBase ==
    ~overtaken =>
        \A g \in Teams, m \in Menus \ grouped, op \in Ops : Opens(g, m, op) => Opens(Base, m, op)

\* The same promise of every menu that opens a screen.
NobodyBeyondBase ==
    \A g \in Teams, m \in Leaves(tree), op \in Ops : Opens(g, m, op) => Opens(Base, m, op)
=============================================================================
