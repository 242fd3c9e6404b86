SPECIFICATION PartsSpec
CONSTANTS
    Savers = {c1, c2}
    m1 = m1
    Masters = {m1, m2}
    Admins = {f1}
    Stores = {s1, s2}
    Groups = {g1, g2}
    ManagerOf <- OneManager
    People = {1, 2}
    RoleGroups = {1, 2}
    MasterGroup = 3
    Requests = {r1, r2}
    Menus = {1, 2, 3}
    Base = base
    Teams = {t1}
    Services = {11, 12}
    MenuIds = {1, 2, 3, 4}
    NoUrl = NoUrl
    NoScreen = NoScreen
    MaxEdits = 1
    PartsShown = {"bp", "platform", "rights", "menus"}
SYMMETRY Symmetry
CONSTRAINT Bound
CHECK_DEADLOCK FALSE
INVARIANTS OneMasterPerStore TeamWithinMaster AllGroupsAlive ActiveOnlyInActiveBp
           AlwaysAMaster NobodyWaitsInACircle TeamsWithinBase MenusHold
PROPERTY ImplementsMenuTree
