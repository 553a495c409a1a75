SPECIFICATION Spec
CHECK_DEADLOCK FALSE
SYMMETRY Symmetry
CONSTANTS
    None = None
    Public = "public"
    Sessions = {c1, c2}
    Connections = {n1, n2}
    Tenants = {"acme", "zoo"}
INVARIANT
    StatementsInOwnSchema
