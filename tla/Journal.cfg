SPECIFICATION Spec
CONSTANTS
    User = {u1, u2}
    Entry = {e1, e2}
    Comment = {c1, c2}
    Tag = {t1, t2}
    Link = {l1, l2}
    Request = {r1, r2}
    Owner = u1
    Form <- MCForm
    Recap = Recap
    None = None
    Effort = 4
CONSTRAINT Bounded
SYMMETRY Symmetry
INVARIANTS
    TypeOK
    ListAgreesWithView
    ThreadsWhole
    NobodyMissed
    TagsComplete
PROPERTIES
    HandedOutLinkLasts
CHECK_DEADLOCK FALSE
