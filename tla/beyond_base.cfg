SPECIFICATION PartsSpec
CONSTANTS
    People = {1}
    RoleGroups = {1}
    MasterGroup = 2
    Requests = {r1}
    Savers = {c1}
    m1 = m1
    Masters = {m1}
    Admins = {f1}
    Stores = {s1}
    Groups = {g1}
    ManagerOf <- OneManager
    Menus = {1, 2, 3}
    Base = base
    Teams = {t1}
    Services = {11, 12}
    MenuIds = {1, 2, 3, 4}
    NoUrl = NoUrl
    NoScreen = NoScreen
    MaxEdits = 1
    PartsShown = {"rights"}
CHECK_DEADLOCK FALSE
INVARIANT NobodyBeyondBase
