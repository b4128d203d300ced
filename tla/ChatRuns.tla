------------------------------ MODULE ChatRuns ------------------------------
(***************************************************************************)
(* The runs of the web chat (agent/web/chat/js/app.jsx): what is sent, the *)
(* stages a message passes before somebody answers it, the remedies that   *)
(* resume an earlier message, and Stop, which has to find the right run.   *)
(* One browser tab: handlers run to their next await without interruption, *)
(* and what they share are two refs and one state.                         *)
(***************************************************************************)
EXTENDS Naturals, Sequences, FiniteSets

CONSTANTS
  Turns,     \* messages the user types
  Actions,   \* clicks on Confirm, Retry, ... of an answered message
  Wishes,    \* what a message may ask for, each a set of the words below
  MaxConvs,  \* conversations of a behaviour
  None

Runs == Turns \cup Actions

ASSUME RunsAssumption == Turns \cap Actions = {} /\ None \notin Runs

\* voice and image are attached, skill and picture are asked for in the text,
\* describe: the text only asks what is on the image.
Wish == {"voice", "image", "describe", "skill", "picture"}

\* The stages of send, in order.  Each but "classify" leaves a handle for Stop.
Order == <<"transcribe", "selected", "describe", "skill", "generate", "classify", "assistant">>
Working == {"transcribe", "selected", "describe", "skill", "generate", "classify",
            "assistant", "specialist", "act"}
Stage == Working \cup {"new", "gateway", "over", "lost"}

VARIABLES
  st,        \* the stage of each run; "lost": typed, taken from the composer, not sent
  wish,      \* what each message asks for; "agent": it goes to a selected agent
  busy,      \* busyRef
  handle,    \* streamRef: the run Stop would cancel
  shown,     \* streamingId: the message shown as in progress
  aborted,   \* runs whose stage was cancelled and has not yet noticed
  spinner,   \* messages whose thinking has status "running"
  remedies,  \* messages whose assistant answered: they may carry chips
  on,        \* the message each action resumes
  selected,  \* selectedBlocksAgent is set
  current, home, kept, opened, \* conversation on screen, of each message; not deleted; ids used
  stoppedIn, \* history: the stage in which a run was stopped
  unseen,    \* history: messages whose stream was stopped while not shown as in progress
  crossed    \* history: a run was stopped, or an action began during a gateway stream

chatVars == <<st, wish, busy, handle, shown, aborted, spinner, remedies, on, selected,
              current, home, kept, opened, stoppedIn, unseen, crossed>>
session == <<selected, current, home, kept, opened>>
history == <<stoppedIn, unseen, crossed>>

-----------------------------------------------------------------------------
Message(r) == IF r \in Turns THEN r ELSE on[r]
Active(r) == st[r] \in Working \cup {"gateway"}

\* Which stages a message passes.  An attached image makes it the assistant's
\* turn, without asking the bridge.
Applies(s, w) ==
  \/ s = "transcribe" /\ "voice" \in w
  \/ s = "selected" /\ "agent" \in w
  \/ s = "describe" /\ "image" \in w
  \/ s = "skill" /\ "skill" \in w
  \/ s = "generate" /\ "picture" \in w /\ "image" \notin w
  \/ s = "classify" /\ "image" \notin w
  \/ s = "assistant"
FirstFrom(i, w) ==
  Order[CHOOSE k \in i .. Len(Order) : Applies(Order[k], w) /\ \A j \in i .. k - 1 : ~Applies(Order[j], w)]
Following(s, w) == FirstFrom(1 + CHOOSE k \in 1 .. Len(Order) : Order[k] = s, w)

ChatInit ==
  /\ st = [r \in Runs |-> "new"] /\ wish = [t \in Turns |-> {}]
  /\ busy = FALSE /\ handle = None /\ shown = None /\ aborted = {}
  /\ spinner = {} /\ remedies = {} /\ on = [a \in Actions |-> None] /\ selected = FALSE
  /\ current = 1 /\ home = [t \in Turns |-> 0] /\ kept = {} /\ opened = 1
  /\ stoppedIn = [r \in Runs |-> None] /\ unseen = {} /\ crossed = FALSE

-----------------------------------------------------------------------------
\* updateMsg: a message of a deleted conversation is not there to be changed.
Spins(t) == IF home[t] \in kept THEN spinner \cup {t} ELSE spinner
\* finishThinking and failThinking.
Ends(t) == spinner \ {t}

\* Go on to stage s, which leaves its handle; startStream, which takes over
\* from send, no longer counts as busy.
HandleIn(r, s) == IF s = "classify" THEN None ELSE r
Enter(t, s) ==
  /\ st' = [st EXCEPT ![t] = s]
  /\ handle' = HandleIn(t, s)
  /\ busy' = (s # "gateway")
  /\ aborted' = aborted \ {t}
  /\ spinner' = IF s = "classify" THEN spinner ELSE Spins(t)
  /\ UNCHANGED <<wish, shown, remedies, on, session, history>>

\* Every ending of a run: whatever is shown and whatever Stop would cancel is
\* cleared, be it of this run or not.
Over(r) ==
  /\ st' = [st EXCEPT ![r] = "over"]
  /\ handle' = None
  /\ shown' = None
  /\ busy' = IF st[r] = "gateway" THEN busy ELSE FALSE
  /\ aborted' = aborted \ {r}
  /\ spinner' = Ends(Message(r))
  /\ UNCHANGED <<wish, on, session, history>>

\* Composer.submit empties the input whether or not send takes the message.
Submit(t, w) ==
  /\ st[t] = "new" /\ shown = None
  /\ wish' = [wish EXCEPT ![t] = IF selected THEN w \cup {"agent"} ELSE w]
  /\ home' = [home EXCEPT ![t] = current]
  /\ selected' = FALSE
  /\ IF handle # None \/ busy
       THEN /\ st' = [st EXCEPT ![t] = "lost"]
            /\ UNCHANGED <<busy, handle, shown, spinner, kept>>
       ELSE LET s == FirstFrom(1, wish'[t])
            IN  /\ st' = [st EXCEPT ![t] = s]
                /\ busy' = TRUE
                /\ handle' = HandleIn(t, s)
                /\ shown' = t
                /\ kept' = kept \cup {current}
                /\ spinner' = IF s = "classify" THEN spinner ELSE spinner \cup {t}
  /\ UNCHANGED <<aborted, remedies, on, current, opened, history>>

-----------------------------------------------------------------------------
\* What a call to the bridge comes to: an error, a time limit or Stop are a
\* failure, and a call that was aborted never answers.
Outcomes(t) == IF t \in aborted THEN {"failure"} ELSE {"answer", "failure"}
\* What the assistant's event stream comes to; a stream that ends without a
\* final event leaves it to the time limit.
AssistantOutcomes(t) == IF t \in aborted THEN {"failure"} ELSE {"final", "failure"}

\* The stage was the last of its message, with an answer or an error to show.
End(t) == Over(t) /\ UNCHANGED remedies
Proceed(t) == Enter(t, Following(st[t], wish[t]))

Transcribe(t) ==
  /\ st[t] = "transcribe"
  /\ ("answer" \in Outcomes(t) /\ Proceed(t)) \/ End(t)
AskSelected(t) == st[t] = "selected" /\ End(t)
\* mutant: an image that is not understood is left out
DescribeOrSkip(t) == st[t] = "describe" /\ (Proceed(t) \/ End(t))
DescribeImages(t) ==
  /\ st[t] = "describe"
  /\ ("answer" \in Outcomes(t) /\ "describe" \notin wish[t] /\ Proceed(t)) \/ End(t)
CreateSkillFile(t) == st[t] = "skill" /\ End(t)
\* No picture: the gateway is asked instead.
Generate(t) ==
  /\ st[t] = "generate"
  /\ ("answer" \in Outcomes(t) /\ End(t)) \/ Enter(t, "gateway")
\* classifyTurn: the bridge's answer, or the local fallback.
Classify(t) ==
  /\ st[t] = "classify"
  /\ \E s \in {"assistant", "specialist", "gateway"} : Enter(t, s)
RunAssistant(t) ==
  /\ st[t] = "assistant" /\ Over(t)
  /\ \/ "final" \in AssistantOutcomes(t) /\ home[t] \in kept /\ remedies' = remedies \cup {t}
     \/ UNCHANGED remedies
\* A specialist's answer, its answer as context for the gateway, or none.
AskSpecialist(t) ==
  /\ st[t] = "specialist"
  /\ ("answer" \in Outcomes(t) /\ End(t)) \/ Enter(t, "gateway")
\* onDone and onError of startStream.
StreamEnds(t) == st[t] = "gateway" /\ End(t)

\* mutant: chips do not look at busyRef
BeginAnyTime(a, t) ==
  /\ st[a] = "new" /\ t \in remedies /\ home[t] = current /\ current \in kept /\ shown # t
  /\ st' = [st EXCEPT ![a] = "act"] /\ on' = [on EXCEPT ![a] = t]
  /\ busy' = TRUE /\ handle' = a /\ shown' = t /\ spinner' = spinner \cup {t}
  /\ UNCHANGED <<wish, aborted, remedies, session, history>>

\* handleAssistantConfirm and handleAssistantAction: the chips of a message in
\* progress are disabled, those of the others are not.
Begin(a, t) ==
  /\ st[a] = "new" /\ ~busy
  /\ t \in remedies /\ home[t] = current /\ current \in kept /\ shown # t
  /\ st' = [st EXCEPT ![a] = "act"]
  /\ on' = [on EXCEPT ![a] = t]
  /\ busy' = TRUE /\ handle' = a /\ shown' = t
  /\ spinner' = spinner \cup {t}
  /\ crossed' = (crossed \/ \E r \in Runs : st[r] = "gateway")
  /\ UNCHANGED <<wish, aborted, remedies, session, stoppedIn, unseen>>

\* finishConfirm, failConfirm, finishAction, failAction.
Finish(a) == st[a] = "act" /\ End(a)

-----------------------------------------------------------------------------
\* closeActiveRun: an action fails at once, the gateway's stream ends without
\* a callback, any other stage notices later, and the classification of a turn
\* has no handle: its message is marked as cancelled and nothing else happens.
\* With it the messages of the conversations in gone may disappear.
Close(gone) ==
  LET atOnce == handle # None /\ st[handle] \in {"act", "gateway"}
      stopped == {r \in Runs : r = handle \/ st[r] = "classify"}
      spins == Ends(shown) \ {on[a] : a \in Actions \cap {handle}}
  IN  /\ st' = IF atOnce THEN [st EXCEPT ![handle] = "over"] ELSE st
      /\ busy' = IF handle \in Actions THEN FALSE ELSE busy
      /\ aborted' = IF handle = None \/ atOnce THEN aborted ELSE aborted \cup {handle}
      /\ spinner' = {t \in spins : home[t] \notin gone}
      /\ stoppedIn' = [r \in Runs |-> IF r \in stopped THEN st[r] ELSE stoppedIn[r]]
      /\ unseen' = unseen \cup {t \in Turns \cap {handle} : st[t] = "gateway" /\ t # shown}
      /\ crossed' = (crossed \/ handle # None \/ shown # None)
      /\ handle' = None /\ shown' = None

Stop ==
  /\ shown # None /\ Close({})
  /\ UNCHANGED <<wish, remedies, on, session>>

\* newChat stays where it is while that is empty.
NewChat ==
  /\ Close({})
  /\ IF current \in kept
       THEN opened < MaxConvs /\ opened' = opened + 1 /\ current' = opened'
       ELSE UNCHANGED <<opened, current>>
  /\ UNCHANGED <<wish, remedies, on, selected, home, kept>>

SelectChat(c) ==
  /\ c \in kept \ {current} /\ Close({})
  /\ current' = c
  /\ UNCHANGED <<wish, remedies, on, selected, home, kept, opened>>

DeleteChat(c) ==
  /\ c \in kept
  /\ IF c = current
       THEN Close({c}) /\ opened < MaxConvs /\ opened' = opened + 1 /\ current' = opened'
       ELSE /\ UNCHANGED <<st, busy, handle, shown, aborted, history, opened, current>>
            /\ spinner' = {t \in spinner : home[t] # c}
  /\ kept' = kept \ {c}
  /\ UNCHANGED <<wish, remedies, on, selected, home>>

ResetSession ==
  /\ Close(kept) /\ kept' = {}
  /\ opened < MaxConvs /\ opened' = opened + 1 /\ current' = opened'
  /\ UNCHANGED <<wish, remedies, on, selected, home>>

\* handleBlocksAgentAction, handleBrowseAgentUse; and the chip's cross.
SelectAgent ==
  /\ IF selected THEN shown = None ELSE ~busy
  /\ selected' = ~selected
  /\ UNCHANGED <<st, wish, busy, handle, shown, aborted, spinner, remedies, on,
                 current, home, kept, opened, history>>

\* The page is loaded again: loadConversations takes the spinners away.
Reload ==
  /\ \E r \in Runs : Active(r)
  /\ st' = [r \in Runs |-> IF Active(r) THEN "over" ELSE st[r]]
  /\ busy' = FALSE /\ handle' = None /\ shown' = None /\ aborted' = {} /\ selected' = FALSE
  /\ spinner' = {}
  /\ UNCHANGED <<wish, remedies, on, current, home, kept, opened, history>>

\* Timers fire and the bridge and the gateway answer.
RunStep ==
  \/ \E t \in Turns :
       \/ Transcribe(t) \/ AskSelected(t) \/ DescribeImages(t) \/ CreateSkillFile(t) \/ Generate(t)
       \/ Classify(t) \/ RunAssistant(t) \/ AskSpecialist(t) \/ StreamEnds(t)
  \/ \E a \in Actions : Finish(a)
UserStep ==
  \/ \E t \in Turns, w \in Wishes : Submit(t, w)
  \/ \E a \in Actions, t \in Turns : Begin(a, t)
  \/ Stop \/ NewChat \/ ResetSession \/ SelectAgent \/ Reload
  \/ \E c \in 1 .. MaxConvs : SelectChat(c) \/ DeleteChat(c)
ChatNext == RunStep \/ UserStep

-----------------------------------------------------------------------------
\* Two runs never work at the same time, but for one that the gateway already
\* answers, and the chat is busy exactly while one works: no path through
\* send, confirm or action leaves busyRef behind.
BusyIsOne == Cardinality({r \in Runs : st[r] \in Working}) = IF busy THEN 1 ELSE 0

\* When nothing runs, nothing is left that would refuse the next message or
\* show a message as still in progress, whichever way the last run ended.
NeverStuck == (\A r \in Runs : ~Active(r)) => ~busy /\ handle = None /\ shown = None

\* What Stop would mark as cancelled is a message of the conversation on
\* screen, and a run works on it (closeActiveRun pairs streamingId with the
\* conversation of the moment).
ShownIsHere ==
  shown # None => home[shown] = current /\ \E r \in Runs : Active(r) /\ Message(r) = shown

\* Where Stop ends no run: after a picture and a specialist the gateway is asked
\* all the same, and while a turn is classified there is nothing to cancel, so it
\* goes on to the assistant, a specialist or the gateway.
GoesOn == {"generate", "specialist", "classify"}

\* A run that was stopped anywhere else does no more than to notice it.
StoppedEnds ==
  \A r \in Runs : stoppedIn[r] \notin GoesOn \cup {None} => st[r] \in {stoppedIn[r], "over"}

\* No message keeps its spinner after its run, unless its stream was stopped
\* while another message, or none, was shown as in progress.
SpinnersEnd == \A t \in spinner : t \in unseen \/ \E r \in Runs : Active(r) /\ Message(r) = t

\* A message taken from the composer is sent, unless before it a run was
\* stopped or a remedy was clicked while the gateway streamed.
TypedIsSent == (\E t \in Turns : st[t] = "lost") => crossed

\* One run at a time: the chat is busy exactly while one works, what it shows as in
\* progress is a message of the conversation on screen, what was typed is sent, and
\* when nothing runs nothing is left that would refuse the next message.
OneRunAtATime == BusyIsOne /\ ShownIsHere /\ NeverStuck /\ TypedIsSent

\* A run that was stopped where Stop can end it does so, and no message keeps its
\* spinner after its run.
StopStops == StoppedEnds /\ SpinnersEnd

\* Nobody waits for ever.
RunEnds == \E r \in Runs : Active(r)
AllOver == ~RunEnds
=============================================================================
