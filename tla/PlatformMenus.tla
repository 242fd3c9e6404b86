--------------------------- MODULE PlatformMenus ----------------------------
(***************************************************************************)
(* The menus of the services, as the platform edits them.  All writes of   *)
(* menus wait for one advisory lock and read what they go by behind it, so *)
(* each is one step; an edit also carries the updated_at its screen was    *)
(* opened with, which a move leaves as it is.  A URL is the sequence of    *)
(* its segments.  Names and codes of menus are left out.                   *)
(***************************************************************************)
EXTENDS Naturals, Sequences, SequencesExt, FiniteSetsExt

CONSTANTS Services,
          Menus,      \* menu ids, in the order they are given out
          MaxDepth,   \* MAX_MENU_DEPTH
          Urls,       \* URLs that are entered
          ApiUrls,    \* URLs under which a controller asks for its menu
          Seeds,      \* bound: what the migrations may have left
          MaxEdits,   \* bound: how often a menu is edited
          NoUrl, NoScreen

VARIABLES menu,    \* menus: the row of each menu that exists
          screen   \* the detail somebody has open

menuVars == <<menu, screen>>

Places == Menus \cup Services
Active(rows) == {m \in DOMAIN rows : rows[m].active}

-----------------------------------------------------------------------------
(* platform-menu-rules.ts                                                  *)

Overlap(a, b) == IsPrefix(a, b) \/ IsPrefix(b, a)

Children(rows, p) == {m \in DOMAIN rows : rows[m].parent = p}
Before(rows, m, n) ==
    rows[m].order < rows[n].order \/ (rows[m].order = rows[n].order /\ m < n)
Siblings(rows, p) ==
    LET children == Children(rows, p)
    IN  [i \in 1..Cardinality(children) |->
            CHOOSE m \in children : Cardinality({n \in children : Before(rows, n, m)}) = i - 1]

Below(rows, ms) == UNION {Children(rows, m) : m \in ms}
Subtree(rows, m) ==
    LET one == Below(rows, {m}) IN {m} \cup one \cup Below(rows, one)
Height(rows, m) ==
    IF Children(rows, m) = {} THEN 1
    ELSE IF Below(rows, Children(rows, m)) = {} THEN 2 ELSE 3

DepthUnder(rows, p) == IF p \in Services THEN 1 ELSE rows[p].depth + 1
MayMove(rows, m, p) ==
    /\ p \in Services => p = rows[m].service
    /\ p \notin Services => p \in DOMAIN rows /\ rows[p].service = rows[m].service
    /\ p \notin Subtree(rows, m)
    /\ DepthUnder(rows, p) + Height(rows, m) - 1 <= MaxDepth

Numbered(ms, m) == CHOOSE i \in DOMAIN ms : ms[i] = m
\* Fault: the menus below the one that moves keep their depth.
PlanMoveAlone(rows, m, p, i) ==
    LET others(q) == SelectSeq(Siblings(rows, q), LAMBDA n : n # m)
        new == InsertAt(others(p), i, m)
        old == others(rows[m].parent)
    IN  [n \in DOMAIN rows |->
            [rows[n] EXCEPT
                !.parent = IF n = m THEN p ELSE @,
                !.depth = IF n = m THEN DepthUnder(rows, p) ELSE @,
                !.order = IF n \in ToSet(new) THEN Numbered(new, n)
                          ELSE IF n \in ToSet(old) THEN Numbered(old, n) ELSE @]]
PlanMove(rows, m, p, i) ==
    LET others(q) == SelectSeq(Siblings(rows, q), LAMBDA n : n # m)
        new == InsertAt(others(p), i, m)
        old == others(rows[m].parent)
    IN  [n \in DOMAIN rows |->
            [rows[n] EXCEPT
                !.parent = IF n = m THEN p ELSE @,
                !.depth = IF n \in Subtree(rows, m)
                          THEN @ + DepthUnder(rows, p) - rows[m].depth ELSE @,
                !.order = IF n \in ToSet(new) THEN Numbered(new, n)
                          ELSE IF n \in ToSet(old) THEN Numbered(old, n) ELSE @]]

-----------------------------------------------------------------------------
Init == menu \in Seeds /\ screen = NoScreen

\* assertApiUrlKept
ApiUrlKept(before, after) ==
    after # before => before \notin ApiUrls /\ after \notin ApiUrls
\* assertUrlFree
UrlFree(url, except) ==
    \A m \in Active(menu) \ except : menu[m].url # NoUrl => ~Overlap(menu[m].url, url)
OneSegment(url) == url # NoUrl => Len(url) = 1

\* Fault: as many as there are, which is less where the orders have gaps.
CountOrder(p) == Cardinality(Children(menu, p))
LastOrder(p) == Max({menu[n].order : n \in Children(menu, p)} \cup {0})
\* create
Create(p, url, active) ==
    LET m == Cardinality(DOMAIN menu) + 1 IN
    /\ m \in Menus
    /\ p \in Services \cup DOMAIN menu
    /\ OneSegment(url) /\ DepthUnder(menu, p) <= MaxDepth
    /\ ApiUrlKept(NoUrl, url) /\ (active /\ url # NoUrl => UrlFree(url, {}))
    /\ menu' = [n \in DOMAIN menu \cup {m} |-> IF n # m THEN menu[n] ELSE
                  [service |-> IF p \in Services THEN p ELSE menu[p].service,
                   parent |-> p, depth |-> DepthUnder(menu, p),
                   order |-> LastOrder(p) + 1,
                   url |-> url, active |-> active, edits |-> 0]]
    /\ UNCHANGED screen

\* detail, on somebody's screen.
OpenScreen(m) ==
    /\ m \in DOMAIN menu
    /\ screen' = [menu |-> m, edits |-> menu[m].edits, untouched |-> TRUE]
    /\ UNCHANGED menu

\* update, its conditions.
EditAllowed(m, url, active) ==
    /\ url = menu[m].url \/ OneSegment(url)
    /\ ApiUrlKept(menu[m].url, url)
    /\ active /\ url # NoUrl => UrlFree(url, {m})
Edited(m, url, active) ==
    [menu EXCEPT ![m].url = url, ![m].active = active, ![m].edits = @ + 1]
\* update, of what is on the screen.
EditScreen(url, active) ==
    /\ screen # NoScreen
    /\ screen.edits = menu[screen.menu].edits
    /\ menu[screen.menu].edits < MaxEdits
    /\ EditAllowed(screen.menu, url, active)
    /\ menu' = Edited(screen.menu, url, active)
    /\ screen' = NoScreen
\* update, by anybody else.
EditElsewhere(m, url, active) ==
    /\ m \in DOMAIN menu /\ menu[m].edits < MaxEdits
    /\ EditAllowed(m, url, active)
    /\ menu' = Edited(m, url, active)
    /\ screen' = IF screen # NoScreen /\ screen.menu = m
                 THEN [screen EXCEPT !.untouched = FALSE] ELSE screen

\* move
Move(m, p, i) ==
    /\ m \in DOMAIN menu /\ MayMove(menu, m, p)
    /\ i \in 1..(Cardinality(Children(menu, p) \ {m}) + 1)
    /\ menu' = PlanMove(menu, m, p, i)
    /\ UNCHANGED screen

Next ==
    \/ \E p \in Places, url \in Urls \cup {NoUrl}, active \in BOOLEAN : Create(p, url, active)
    \/ \E m \in Menus : OpenScreen(m)
    \/ \E url \in Urls \cup {NoUrl}, active \in BOOLEAN :
          EditScreen(url, active) \/ \E m \in Menus : EditElsewhere(m, url, active)
    \/ \E m \in Menus, p \in Places, i \in 1..Cardinality(Menus) : Move(m, p, i)

Spec == Init /\ [][Next]_menuVars

-----------------------------------------------------------------------------
\* Parents exist and belong to the same service, depths count from the service,
\* never more than three ("메뉴는 서비스 단위로 최대 3단계"), whatever is moved where.
LevelsAddUp ==
    \A m \in DOMAIN menu :
        /\ menu[m].parent \in Menus =>
             /\ menu[m].parent \in DOMAIN menu
             /\ menu[menu[m].parent].service = menu[m].service
        /\ menu[m].parent \in Services => menu[m].parent = menu[m].service
        /\ menu[m].depth = DepthUnder(menu, menu[m].parent)
        /\ menu[m].depth \in 1..MaxDepth

\* No two menus in use have URLs of which one lies under the other: whoever may
\* open the one would open the other (comment on assertUrlFree), and the menu a
\* controller asks for keeps its URL, which no other menu takes.
UrlsTellMenus ==
    /\ \A m, n \in Active(menu) :
          m # n /\ menu[m].url # NoUrl /\ menu[n].url # NoUrl => ~Overlap(menu[m].url, menu[n].url)
    /\ \A url \in ApiUrls : Cardinality({m \in DOMAIN menu : menu[m].url = url}) = 1

\* A screen can be saved exactly as long as nobody else saved the menu it shows:
\* moves around it leave it valid, an edit never does (comment on move).
ScreensOutlastMoves ==
    screen # NoScreen => (screen.untouched <=> screen.edits = menu[screen.menu].edits)

MenusHold == LevelsAddUp /\ UrlsTellMenus /\ ScreensOutlastMoves

\* Seen in their order, the menus are a MenuTree: a new one comes last, a move
\* changes the place of one menu and nothing else, whatever gaps and ties the
\* orders of the migrations left.
Tree == INSTANCE MenuTree WITH
            below <- [p \in Places |-> Siblings(menu, p)]
ImplementsMenuTree == Tree!Spec
=============================================================================
