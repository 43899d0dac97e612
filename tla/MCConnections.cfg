SPECIFICATION Spec
CONSTANTS
    u1 = u1
    u2 = u2
    k1 = k1
    k2 = k2
    h1 = h1
    h2 = h2
    c1 = c1
    c2 = c2
    c3 = c3
    Users = {u1, u2}
    Orgs = {"o1", "o2"}
    Slots = {h1, h2}
    MaxRequests = 3
    Conns = {c1, c2, c3}
    ProviderOf <- MCProviderOf
    AppOrg = "o1"
    Bound = c1
    Granted = {"viewer", "admin"}
    Keys = {k1, k2}
SYMMETRY Symmetry
INVARIANTS
    TypeOK
    StatusIsAnAnswer
    RevivedOnlyInFlight
    PrimaryAgrees
    TenantsStayApart
CHECK_DEADLOCK FALSE
