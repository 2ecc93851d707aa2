\* transfer_ownership's docstring: "so a workspace is never left without an
\* owner (or with two)", "only this one endpoint needs" a lock.
SPECIFICATION Spec
CONSTANTS
    User = {u1, u2}
    Workspace = {w1}
    Request = {r1, r2}
    None = None
SYMMETRY Symmetry
PROPERTY RoleChangeNeverStrands
CHECK_DEADLOCK FALSE
