---------------------------- MODULE MCPeerCalls -----------------------------
(***************************************************************************)
(* PeerCalls for TLC, in two parts, told apart by whom the roster names:   *)
(*   here       sam, whose owner is on record and whose assistant this     *)
(*              bridge serves as well                                      *)
(*   elsewhere  kim, of whom neither is so                                 *)
(***************************************************************************)
EXTENDS PeerCalls

CONSTANTS t1, t2, sam, kim

VARIABLE part

TwoTurns == {t1, t2}
SamAndKim == {sam, kim}
OnlySam == {sam}

Here == INSTANCE PeerCalls WITH Peers <- {sam}
Elsewhere == INSTANCE PeerCalls WITH Peers <- {kim}, OwnerKnown <- {}, SameBridge <- {}

MCInit == \/ part = "here" /\ Here!Init
          \/ part = "elsewhere" /\ Elsewhere!Init

MCNext ==
  /\ UNCHANGED part
  /\ \/ part = "here" /\ Here!Next
     \/ part = "elsewhere" /\ Elsewhere!Next

MCStep(t) ==
  /\ UNCHANGED part
  /\ \/ part = "here" /\ Here!Step(t)
     \/ part = "elsewhere" /\ Elsewhere!Step(t)

\* As FairSpec: what a turn began is finished.
MCSpec ==
  /\ MCInit /\ [][MCNext]_<<vars, part>>
  /\ \A t \in Turns : WF_<<vars, part>>(MCStep(t))
=============================================================================
