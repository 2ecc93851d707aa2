\* syncNow's comment: "avoids submitting the same draft twice".
SPECIFICATION FairSpec
CONSTANTS
    MaxDraft = 2
    Pass = {p1, p2}
INVARIANT OverlapSubmitsOnce
CHECK_DEADLOCK FALSE
