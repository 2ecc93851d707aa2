------------------------------ MODULE MCJournal -----------------------------
(* Model checking instance of Journal.                                     *)
EXTENDS Journal, TLC

Symmetry == Permutations(Request)

\* An entry for the members with every tag, a private one with co-authors and a
\* tag of the others.
MCForm ==
    { [public |-> TRUE, coauthors |-> {}, tags |-> Tag],
      [public |-> FALSE, coauthors |-> User, tags |-> {Fresh(Tag)}] }

\* Entries, comments, notifications read, links, the recap, both tags and requests
\* in flight meet in every combination of this many, not all at once, whoever has
\* which role and whether the workspace is public.
CONSTANT Effort

Bounded ==
    LET count(b) == IF b THEN 1 ELSE 0 IN
    Cardinality(Entry \ FreeEntries) + Cardinality(Comment \ FreeComments)
        + Cardinality({c \in Comment : \E u \in User : inbox[u][c] = "read"})
        + Cardinality(Link \ FreeLinks) + count(Recap \in named) + count(Tag \subseteq named)
        + Cardinality({r \in Request : ~At(r, "idle")}) <= Effort

=============================================================================
