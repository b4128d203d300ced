------------------------------ MODULE MCRoster ------------------------------
(***************************************************************************)
(* Instances of Roster for TLC.  Assistants and calls are interchangeable. *)
(***************************************************************************)
EXTENDS Roster, TLC

CONSTANTS ann, bob, cat, e1, e2, e3

Two == {ann, bob}
All == {ann, bob, cat}
ThreeEdits == {e1, e2, e3}

Symmetry == Permutations(Assistants) \cup Permutations(Calls)
=============================================================================
