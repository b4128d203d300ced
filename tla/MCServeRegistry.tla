--------------------------- MODULE MCServeRegistry ---------------------------
(***************************************************************************)
(* Instances of ServeRegistry for TLC: two agents with credentials of      *)
(* their own, one of them an assistant, and one that has none.  Calls are  *)
(* interchangeable.                                                        *)
(***************************************************************************)
EXTENDS ServeRegistry, TLC

CONSTANTS c1, c2, c3, artist, assistant, narrator, dotenv

TwoCalls == {c1, c2}
ThreeCalls == {c1, c2, c3}
AllAgents == {artist, assistant, narrator}
Owning == {artist, assistant}
Imported == {artist, narrator}
WithOrWithoutKey == {dotenv, Unset}

Symmetry == Permutations(Calls)
=============================================================================
