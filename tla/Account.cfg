SPECIFICATION Spec
CONSTANTS
    User = {u1, u2}
    Address = {a1, a2}
    Password = {p1}
    Sub = {s1}
    Link = {l1, l2}
    Request = {r1, r2}
    None = None
    Effort = 4
CONSTRAINT Bounded
SYMMETRY Symmetry
INVARIANTS
    TypeOK
    OneResetLink
    ResetLinkUsedOnce
    DeletedIsDeleted
    GoogleOnlyVerified
PROPERTIES
    LastAdminStays
    LinksSpec
CHECK_DEADLOCK FALSE
