\* OfflineDraftQueue's hint: "drafts will sync automatically once you're back
\* online".
SPECIFICATION FairSpec
CONSTANTS
    MaxDraft = 1
    Pass = {p1}
PROPERTY SyncedOnceOnline
CHECK_DEADLOCK FALSE
