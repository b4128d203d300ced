------------------------ MODULE MCNegotiationReturn ------------------------
(***************************************************************************)
(* Negotiation for TLC with three slots, of which self has two, for a peer *)
(* that leads the negotiation away from a slot and back to it.             *)
(***************************************************************************)
EXTENDS Negotiation

MCSlots == 1 .. 3
MCSelfFree == 1 .. 2
=============================================================================
