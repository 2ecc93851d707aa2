----------------------------- MODULE MCInvites ------------------------------
(* Model checking instance of Invites.                                     *)
EXTENDS Invites, TLC

Symmetry ==
    Permutations(User) \cup Permutations(Invite) \cup Permutations(Request)

=============================================================================
