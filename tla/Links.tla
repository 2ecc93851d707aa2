------------------------------- MODULE Links --------------------------------
(***************************************************************************)
(* What the links the program mails promise, whatever they are for: a link *)
(* is handed out once, works until it is used, replaced, expired or        *)
(* withdrawn, and never works again after that.                            *)
(***************************************************************************)
CONSTANT Link

VARIABLES
    live,      \* links that still work
    dead       \* links that have stopped working

links == <<live, dead>>

Init == live = {} /\ dead = {}

\* A new link, possibly in the place of others.
Issue(l, old) ==
    /\ l \notin live \cup dead
    /\ old \subseteq live
    /\ live' = (live \ old) \cup {l}
    /\ dead' = dead \cup old

Kill(old) ==
    /\ old # {}
    /\ old \subseteq live
    /\ live' = live \ old
    /\ dead' = dead \cup old

Next ==
    \/ \E l \in Link, old \in SUBSET live : Issue(l, old)
    \/ \E old \in SUBSET live : Kill(old)

Spec == Init /\ [][Next]_links

=============================================================================
