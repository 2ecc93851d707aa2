------------------------------ MODULE MCAccount -----------------------------
(* Model checking instance of Account.                                     *)
EXTENDS Account, TLC

Symmetry ==
    Permutations(User) \cup Permutations(Address) \cup Permutations(Link)
        \cup Permutations(Request)

\* Links, expiries, admins, Google accounts and requests in flight meet in every
\* combination of this many, not all at once.
CONSTANT Effort

Bounded ==
    Cardinality(issued) + Cardinality(expired) + Cardinality({u \in User : user[u].admin})
        + Cardinality({u \in User : user[u].sub # None})
        + Cardinality({r \in Request : ~At(r, "idle")}) <= Effort

=============================================================================
