SPECIFICATION Spec
CHECK_DEADLOCK FALSE
CONSTANTS
    None = None
    Deleted = Deleted
    Admins = {adm}
    SuperAdmins = {root}
    Definitions = {d1, d2}
    First = d1
    Configs = {k1, k2}
    Questions = {"income"}
    Locked = {}
    Groups <- OwnGroup
    Sessions = {c1, c2}
    Askable <- FirstToOther
    MaxReviews = 3
SYMMETRY Symmetry
CONSTRAINT AskedForInTime
INVARIANTS
    ReviewStatusIsLogged
    ActiveIsPublished
    RulesLinkPublished
PROPERTIES
    PublishedFrozenUnlessRaced
    ConfigReviewedUnlessRaced
    FourEyesUnlessRaced
