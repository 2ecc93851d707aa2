\* delete_account's docstring: cascading a solely owned workspace means
\* "nothing shared is lost".
SPECIFICATION Spec
CONSTANTS
    User = {u1, u2}
    Workspace = {w1, w2}
    Request = {r1, r2}
    None = None
SYMMETRY Symmetry
PROPERTY NothingSharedIsLost
CHECK_DEADLOCK FALSE
