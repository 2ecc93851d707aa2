SPECIFICATION Spec
CONSTANTS
    Entry = {e1, e2}
    File = {f1, f2, f3}
    Request = {r1, r2}
    None = None
    MaxBatch = 2
SYMMETRY Symmetry
INVARIANTS
    TypeOK
    EveryRowHasItsFile
    NoLeakWithoutTrouble
PROPERTIES
    AlbumSpec
\* Once the workspace is gone no request arrives.
CHECK_DEADLOCK FALSE
