SPECIFICATION MCSpec
CHECK_DEADLOCK FALSE
SYMMETRY Symmetry
CONSTRAINTS
    BaselineInUse
    QuestionsAside
CONSTANTS
    None = None
    Deleted = Deleted
    Sessions = {c1, c2}
    TenantIds = {t1, t2}
    Keys = {"acme"}
    Usernames = {"u"}
    ProvisioningEnabled = TRUE
    ProvisioningRequired = TRUE
    BootstrapUsers <- MCBootstrapUsers
    RoleSets <- MCRoleSets
    MaxCrashes = 1
    BDefs = {"b1", "b2"}
    BFirst = "b1"
    TDefs = {"d1"}
    Questions = {"q"}
    Configs <- MCConfigs
    OwnConfigs <- MCOwnConfigs
    ProductIds = {p1, p2}
    Codes = {"x", "y"}
    Templates = {m1}
INVARIANTS
    NoTenantHalfway
PROPERTIES
    PublishedRulesStay
    ActiveHasTemplateUnlessRaced
