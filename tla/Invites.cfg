SPECIFICATION Spec
CONSTANTS
    User = {u1, u2}
    Invite = {i1, i2, i3}
    Request = {r1, r2}
    None = None
SYMMETRY Symmetry
INVARIANTS
    TypeOK
    MembersAccepted
    PendingBounded
PROPERTIES
    UsedUpOnlyByJoining
    NoEntryOnDeadInvite
