------------------------------ MODULE MCDrafts ------------------------------
(* Model checking instance of Drafts.                                      *)
EXTENDS Drafts
=============================================================================
