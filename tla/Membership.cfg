SPECIFICATION Spec
CONSTANTS
    User = {u1, u2, u3}
    Workspace = {w1}
    Request = {r1, r2}
    None = None
SYMMETRY Symmetry
INVARIANTS
    TypeOK
    AtMostOneOwner
    MembersOnlyInLiveWorkspaces
PROPERTIES
    OwnershipMovesByHandover
    TransferNeverStrands
    JoiningIsConsensual
\* Once every account has been deleted nobody can send a request.
CHECK_DEADLOCK FALSE
