---------------------------- MODULE MCNegotiation ----------------------------
(***************************************************************************)
(* For TLC, in parts that share no state (the variable part says which of  *)
(* them a behaviour is of):                                                *)
(*   negotiation  Negotiation with three slots, of which self has two, and *)
(*                enough hops to leave a slot, come back and agree on it   *)
(*   edits        Contacts with three changes of the book, of which two    *)
(*                may overlap                                              *)
(*   mails        Contacts with two changes, one after the other, and the  *)
(*                mails that are proposed and confirmed meanwhile          *)
(*   connections  Connections with two owners, consents and calls          *)
(***************************************************************************)
EXTENDS Negotiation, Connections, Contacts

VARIABLE part
mcvars == <<part, vars, contactVars, connectionVars>>

MCSlots == 1 .. 3
MCSelfFree == 1 .. 2

-----------------------------------------------------------------------------
MCInit ==
  /\ Init /\ ConnectionInit /\ ContactInit
  /\ part \in {"negotiation", "connections", "edits", "mails"}

\* A third change is not begun once two have overlapped; nothing is saved with an alias.
ManyEdits ==
  /\ UNCHANGED mailVars
  /\ overlapped => begun' = begun
  /\ \A e \in Edits : edit'[e].op = "save" => edit'[e].entry.aliases = {}
\* Two changes by one handler that links nobody by hand, no restart, one profile,
\* and two proposals.
ManyMails ==
  /\ begun' <= 2 /\ ~overlapped'
  /\ profile # Nobody => UNCHANGED profile
  /\ Cardinality(proposed') <= 2
  /\ \A e \in Edits \ {CHOOSE f \in Edits : TRUE} : edit'[e] = edit[e]
  /\ \A e \in Edits : edit'[e].op = "save" => edit'[e].entry.handle = Nobody

NegotiationPart == part = "negotiation" /\ UNCHANGED <<part, contactVars, connectionVars>>
ContactsPart == part \in {"edits", "mails"} /\ UNCHANGED <<part, vars, connectionVars>>
ConnectionsPart == part = "connections" /\ UNCHANGED <<part, vars, contactVars>>
MCNext ==
  \/ NegotiationPart /\ Next
  \/ ContactsPart /\ ContactNext /\ (IF part = "edits" THEN ManyEdits ELSE ManyMails)
  \/ ConnectionsPart /\ ConnectionNext

\* The loop of a negotiation goes on; contacts and connections wait for owners.
MCSpec == MCInit /\ [][MCNext]_mcvars /\ WF_mcvars(NegotiationPart /\ Next)

-----------------------------------------------------------------------------
\* A negotiation ends, whatever the calls of it do.
NegotiationEnds == <>(part = "negotiation" => phase \in {"done", "thrown"})
=============================================================================
