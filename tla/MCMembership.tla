---------------------------- MODULE MCMembership ----------------------------
(* Model checking instance of Membership.                                  *)
EXTENDS Membership, TLC

\* Users, workspace ids and worker threads are interchangeable.
Symmetry ==
    Permutations(User) \cup Permutations(Workspace) \cup Permutations(Request)

=============================================================================
