------------------------------ MODULE MCBridge ------------------------------
(***************************************************************************)
(* For TLC, in parts that share no state (the variable part says which of  *)
(* them a behaviour is of):                                                *)
(*   serve  ServeRegistry with three calls, as MCServeRegistry has it      *)
(*   turns  OwnerTurn with two tenants; Ann begins, the second turn may be *)
(*          a request for a single action, and the third sends a token     *)
(*   requests  BridgeRequests: any request, beside two clients' turns      *)
(*   routing   IntentRouting: at most three detectors fire                 *)
(***************************************************************************)
EXTENDS MCServeRegistry, OwnerTurn, BridgeRequests, IntentRouting

VARIABLE part

registryVars == vars
mcvars == <<part, registryVars, turnVars, requestVars, routingVars>>

-----------------------------------------------------------------------------
TwoOwners == {"ann", "ben"}
ThreeAssistants == {"pa_ann", "pa_ben", "pa_bob"}
OwnAssistant == [o \in TwoOwners |-> IF o = "ann" THEN "pa_ann" ELSE "pa_ben"]
\* Ben's name is short for Bob's, and Ann's is her own.
NamedBy == [r \in {"b", "bob", "ann"} |->
            IF r = "b" THEN {"pa_ben", "pa_bob"} ELSE IF r = "bob" THEN {"pa_bob"} ELSE {"pa_ann"}]

\* Ids: 0 is none, 21 is one of the planner's own.  A plan that calls its first step
\* "step2" moves the second on to "step3".
Plain(kind) == [kind |-> kind, to |-> "nobody", id |-> 0, from |-> 0, when |-> "none", ref |-> 0]
Call(to) == [Plain("peer") EXCEPT !.to = to]
Id(action, id) == [action EXCEPT !.id = id]
If(action, from, when) == [action EXCEPT !.from = from, !.when = when]
Message(segments, person, plans) == [segments |-> segments, person |-> person, plans |-> plans]
SomeMessages ==
  { Message(<<Plain("direct")>>, "nobody",
      {<<Plain("specialist"), Plain("catalog"), Plain("mail"), Plain("event")>>, \* too long
       <<Plain("read"), Plain("malformed")>>,
       <<Call("pa_ann")>>, <<Call("b")>>}),
    Message(<<Plain("specialist"), Plain("mail")>>, "nobody",
      {<<Plain("draft"), If(Plain("mail"), 1, "soft-miss")>>}),
    Message(<<Plain("read")>>, "b",
      {<<Id(Plain("read"), 2), Plain("mail"), If(Call("b"), 2, "busy")>>,
       <<Id(Plain("read"), 2), Plain("draft"), If(Call("bob"), 3, "satisfied")>>}),
    Message(<<Plain("event")>>, "nobody",
      {<<Id(Plain("read"), 21), Id(Plain("read"), 21), If(Plain("event"), 21, "free")>>,
       <<Plain("event"), Call("pa_bob")>>}) }

Setting(mode, policy, isLive, wired) ==
  [mode |-> mode, policy |-> policy, live |-> isLive, wired |-> wired]
SomeSettings ==
  {Setting("readonly", "auto", TRUE, TRUE), Setting("booking", "auto", TRUE, TRUE),
   Setting("open", "confirm", TRUE, TRUE), Setting("open", "auto", TRUE, FALSE),
   Setting("open", "auto", FALSE, FALSE)}

-----------------------------------------------------------------------------
Request(route, owner, claim, host, isGood) ==
  [route |-> route, owner |-> owner, addr |-> "home", claim |-> claim, peer |-> NoOwner, host |-> host,
   token |-> isGood, text |-> isGood, body |-> IF isGood THEN "ok" ELSE "bad"]
Turn == Request("run", "ben", "ben", NoOwner, TRUE)
\* Two clients' requests that are counted and then refused for their body.
Hasty == {Request("run", o, o, NoOwner, FALSE) : o \in TwoOwners}
Asking == {Request("identity", o, NoOwner, h, TRUE) : o \in {"ann", NoOwner}, h \in {"pa_ben", NoOwner}}
SomeRequests ==
  {Turn} \cup Hasty \cup Asking
  \cup {Request(route, "ann", claim, NoOwner, TRUE) :
          route \in {"stream", "contacts", "invite"}, claim \in {"ann", "ben", NoOwner}}
  \cup {[Request(route, "ann", claim, NoOwner, TRUE) EXCEPT !.peer = peer] :
          route \in Introductions, claim \in {"ann", NoOwner}, peer \in {"ben", NoOwner}}
  \cup {Request(route, "ann", "ann", NoOwner, TRUE) :
          route \in {"create", "look", "transcribe", "call", "image", "route", "chat",
                    "unknown", "options"}}
  \cup {Request(route, "ann", "ann", NoOwner, FALSE) : route \in {"stream", "transcribe"}}
  \cup {[Request(route, "ann", "ann", NoOwner, TRUE) EXCEPT !.body = "big"] :
          route \in {"stream", "chat"}}
Site(auth, enabled, provided) ==
  [auth |-> auth, enabled |-> enabled, online |-> TRUE, key |-> provided, gateway |-> provided]
SomeSites == {Site(TRUE, TRUE, TRUE), Site(FALSE, TRUE, TRUE), Site(TRUE, FALSE, FALSE)}
SomeRosters == {<<>>, << <<"ben", "pa_ben">> >>, << <<"ann", "pa_ann">>, <<"bob", "pa_ben">> >>}

\* Any request beside Ben's turn, two that ask who they are, or four hasty ones while
\* time passes; the file is edited before the first or the second.
FewRequests ==
  LET Only(kinds) == \A s \in Slots : slot[s].request \in kinds \cup {NoOwner}
      Begun(kinds) == \A s \in Slots : slot'[s] # slot[s] => slot'[s].request \in kinds
  IN /\ taken' # taken =>
          \/ taken = 0
          \/ taken = 1 /\ Begun({Turn} \cup (IF Only(Asking) THEN Asking ELSE {}))
          \/ Only(Hasty) /\ Begun(Hasty)
     /\ clock' # clock => taken # 0 /\ Only(Hasty)
     /\ standing' # standing => taken \in {0, 1} /\ ~Only(Hasty)

-----------------------------------------------------------------------------
Detectors ==
  {"token", "calendar", "meeting", "email", "mail", "ask", "coordinate", "create",
   "understand", "identity", "transcribe", "narrate", "draft", "booking", "linkedin",
   "tone", "random", "catalog", "summarize", "pa", "@pa"}
FewWords == {{a, b, c} : a \in Detectors, b \in Detectors, c \in Detectors} \cup {{}}
Context(pick, image, audio) == [pick |-> pick, image |-> image, audio |-> audio]
SomeContexts == {Context(FALSE, FALSE, FALSE), Context(TRUE, TRUE, FALSE),
             Context(FALSE, TRUE, TRUE), Context(FALSE, FALSE, TRUE)}
ModelSays(intent, route, tag, person, confidence) ==
  [intent |-> intent, route |-> route, tag |-> tag, person |-> person,
   confidence |-> confidence]
SomeReplies ==
  {ModelSays("read-email", "assistant", "", "natural", 9),
   ModelSays("read-email", "gateway", "speech-to-text", "handle", 14),
   ModelSays("coordinate-meeting", "assistant", "", "handle", 9),
   ModelSays("coordinate-meeting", "", "", "@handle", 6),
   ModelSays("chat", "", "", "", 4), ModelSays("chat", "", "", "", 5),
   ModelSays("order-pizza", "assistant", "", "", 10),
   ModelSays("chat", "browser", "", "", 10), ModelSays("chat", "gateway", "cooking", "", 10)}

-----------------------------------------------------------------------------
\* A part that is not of the behaviour stays as it began.
OwnerFrozen == TurnInit /\ setting = Setting("open", "auto", FALSE, FALSE) /\ connected = {}
RequestsFrozen == RequestsInit /\ site = Site(TRUE, TRUE, TRUE) /\ standing = <<>>
RoutingFrozen == RoutingInit /\ words = {} /\ facts = Context(FALSE, FALSE, FALSE)
RegistryFrozen == Init /\ configured = Unset /\ agent = [c \in Calls |-> artist]

MCInit ==
  \/ part = "serve" /\ Init /\ OwnerFrozen /\ RequestsFrozen /\ RoutingFrozen
  \/ /\ part = "turns" /\ TurnInit /\ connected \in {{}, {"ann"}}
     /\ RegistryFrozen /\ RequestsFrozen /\ RoutingFrozen
  \/ part = "requests" /\ RequestsInit /\ RegistryFrozen /\ OwnerFrozen /\ RoutingFrozen
  \/ part = "routing" /\ RoutingInit /\ RegistryFrozen /\ OwnerFrozen /\ RequestsFrozen

FewTurns ==
  turns' # turns =>
    /\ turns = 0 => turn'.owner = "ann"
    /\ turns # 0 /\ turn'.pc = "exec" /\ turn'.ledger = <<>> /\ turn'.cursor = 1 =>
         turn'.alone /\ turns = 1

MCNext ==
  \/ part = "serve" /\ Next /\ UNCHANGED <<part, turnVars, requestVars, routingVars>>
  \/ /\ part = "turns" /\ TurnNext /\ FewTurns
     /\ UNCHANGED <<part, registryVars, requestVars, routingVars>>
  \/ /\ part = "requests" /\ RequestsNext /\ FewRequests
     /\ UNCHANGED <<part, registryVars, turnVars, routingVars>>
  \/ /\ part = "routing" /\ RoutingNext
     /\ UNCHANGED <<part, registryVars, turnVars, requestVars>>

MCSpec == MCInit /\ [][MCNext]_mcvars
=============================================================================
