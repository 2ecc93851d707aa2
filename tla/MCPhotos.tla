------------------------------ MODULE MCPhotos ------------------------------
(* Model checking instance of Photos.                                      *)
EXTENDS Photos, TLC

Symmetry ==
    Permutations(Entry) \cup Permutations(File) \cup Permutations(Request)

=============================================================================
