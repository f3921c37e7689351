CONSTANTS
    Ids = {c1, c2, c3, c4}
    MinElements = 3
    Catalog = "STATUS"
SPECIFICATION Spec
INVARIANTS TypeOK PointersCurrent HolesExact
SYMMETRY IdSymmetry
CHECK_DEADLOCK FALSE
