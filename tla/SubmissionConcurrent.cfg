SPECIFICATION Spec
CHECK_DEADLOCK FALSE
CONSTANTS
    None = None
    Deleted = Deleted
    Users <- MCUsers
    Roles <- MCRoles
    SuperAdmins <- MCSuperAdmins
    Versions <- MCVersions
    ActiveVersions <- MCActiveVersions
    Forms <- MCForms
    RuleSets <- MCRuleSets
    SubmissionIds = {s1}
    Sessions = {c1, c2}
    MaxHistory = 4
SYMMETRY SessionSymmetry
INVARIANTS
    StatusIsLastLogged
    AuditTrailSound
    FourEyes
PROPERTIES
    OnlyRacesLeaveTheTable
    ContentFrozenUnlessRaced
    TrailKeptUnlessRaced
    ImplementsLifecycle
