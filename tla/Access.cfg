SPECIFICATION Spec
CHECK_DEADLOCK FALSE
SYMMETRY Symmetry
CONSTRAINT OnePartAtATime
CONSTANTS
    None = None
    PlatformRealm = "platform"
    ExclusiveGroups <- MCGroups
    TenantPaths <- MCTenantPaths
    Sessions = {c1, c2}
    MaxTime = 2
    Issuers = {"acme"}
    Kids = {"k1", "k2"}
    KeysOf <- MCKeysOf
    StaticUrls <- MCStaticUrls
    Tokens <- MCTokens
    KeyTTL = 1
    FetchTimeout = 1
    Registry <- MCRegistry
    Contexts <- MCContexts
    Routes <- MCRoutes
    Policies <- MCPolicies
    PolicyTTL = 1
    MaxPuts = 1
    Realms = {"acme"}
    AllowedRealms = {}
    Bases <- MCBases
    Clients <- MCClients
    TenantClients <- MCTenantClients
    DefaultClient = "oaas-client"
    RealmTTL = 2
    MissingTTL = 1
    MaxMoves = 2
INVARIANTS
    ReplacedWithinTTL
    RolesStayApart
    RealmsFoundSoon
PROPERTY
    KeysOutlivedByTTL
