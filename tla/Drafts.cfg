SPECIFICATION FairSpec
CONSTANTS
    MaxDraft = 2
    Pass = {p1, p2}
INVARIANTS
    TypeOK
    NeverDropped
    SyncingIsBeingSynced
    OnceWhenUndisturbed
PROPERTIES
    EveryDraftSynced
\* An empty queue gives a pass nothing to do.
CHECK_DEADLOCK FALSE
