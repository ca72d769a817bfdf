\* With no administrator left and nobody signed in nothing can be done.
CHECK_DEADLOCK FALSE
SPECIFICATION Spec
CONSTANTS
    User = {a1, a2, o1}
    Admin = {a1, a2}
    Warehouse = {w1, w2}
    Thread = {t1, t2}
    NoUser = NoUser
    ReadCommitted = FALSE
SYMMETRY Symmetry
PROPERTY OneForm
