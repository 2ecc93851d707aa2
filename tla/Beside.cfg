SPECIFICATION Spec
CONSTANTS
    Grant = {g0, g1, g2}
    LongAgo = g0
    Request = {r1, r2}
    Thread = {t1, t2}
    Query = {q1, q2}
    None = None
    Attempts = 2
    MaxTurn = 2
    MaxAsked = 1
    Interval = 2
    Ttl = 3
    Run = {b1, b2}
    Retention = 2
    Longest = 1
    LastTick = 2
    Sender = {s1, s2}
    Reader = {u1, u2}
    Nobody = Nobody
    LastDay = 1
    File = {f1, f2}
    Script = {p1, p2}
SYMMETRY Symmetry
INVARIANTS
    RefreshTokenKept
    DeletedUnlinked
    PlaylistsAccounted
    Restorable
    OncePerDay
    ManifestTrue
PROPERTIES
    Spaced
CHECK_DEADLOCK FALSE
