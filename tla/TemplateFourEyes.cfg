SPECIFICATION Spec
CHECK_DEADLOCK FALSE
CONSTANTS
    None = None
    Deleted = Deleted
    Admins = {adm}
    SuperAdmins = {root}
    Definitions = {d1}
    First = d1
    Configs = {k1}
    Questions = {"name", "income"}
    Locked = {"name"}
    Groups <- BaselineGroup
    Sessions = {c1, c2}
    Askable = {}
    MaxReviews = 4
INVARIANT
    ApprovalsTakeTwo
