------------------------------ MODULE MCBeside -------------------------------
(* Model checking instance of Outside and Jobs.  The two share no state, so  *)
(* one moves while the other has yet to begin, from one of its beginnings.   *)
EXTENDS Outside, Jobs, TLC

Init == OutsideInit /\ JobsInit

Next ==
    \/ JobsInit /\ ~remote /\ OutsideNext /\ UNCHANGED jobsVars
    \/ OutsideInit /\ link = Accounts!NoLink /\ JobsNext /\ UNCHANGED outsideVars

Spec == Init /\ [][Next]_<<outsideVars, jobsVars>>

Symmetry == Permutations(Request) \cup Permutations(Grant \ {LongAgo})
=============================================================================
