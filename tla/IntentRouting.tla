--------------------------- MODULE IntentRouting ---------------------------
(***************************************************************************)
(* POST /api/classify (routing/classify.ts): which path a chat turn takes, *)
(* and with which intent.  Exact facts decide at once; otherwise the       *)
(* gateway's model is asked under a time budget, and what the word         *)
(* detectors say (the mirror) is the answer whenever the model is late,    *)
(* fails, is unsure, or leaves the closed taxonomy of intent-tags.ts.      *)
(* A text is the set of the detectors that fire on it.                     *)
(***************************************************************************)
EXTENDS Naturals, Sequences

CONSTANTS
  Texts,      \* the sets of detectors considered
  Contexts,   \* [pick, image, audio : BOOLEAN], what the chat knows of the turn
  Replies     \* what the model may return, as records that may be out of taxonomy

ASSUME RoutingAssumption == \A reply \in Replies : reply.confidence \in Nat

VARIABLES
  words,      \* the detectors that fire on the text
  facts,      \* the context the chat sent along
  stage,      \* "new", "asked" (the model is being waited for) or "settled"
  said,       \* the classification answered
  source,     \* "shortcut", "deterministic" or "model"
  calling     \* the gateway call is still open
routingVars == <<words, facts, stage, said, source, calling>>

-----------------------------------------------------------------------------
\* The taxonomy: the path and the capability tag of each intent ("" is none).
AssistantIntents ==
  {"coordinate-meeting", "check-availability", "book-event", "draft-email", "read-email",
   "create-image", "describe-image", "narrate-text", "transcribe-audio", "identity"}
SpecialistIntents == {"tone-analysis", "catalog-discovery", "use-specialist"}
GatewayIntents == {"summarize", "chat"}
Intents == AssistantIntents \cup SpecialistIntents \cup GatewayIntents
IntentRoute(intent) ==
  IF intent \in AssistantIntents THEN "assistant"
  ELSE IF intent \in SpecialistIntents THEN "specialist" ELSE "gateway"
IntentTag(intent) ==
  CASE intent = "create-image" -> "text-to-image"
    [] intent = "describe-image" -> "image-to-text"
    [] intent = "narrate-text" -> "text-to-speech"
    [] intent = "transcribe-audio" -> "speech-to-text"
    [] intent = "tone-analysis" -> "tone-guide"
    [] OTHER -> ""
Taxonomy == {<<i, IntentRoute(i), IntentTag(i)>> : i \in Intents}
Routes == {IntentRoute(i) : i \in Intents}
Tags == {IntentTag(i) : i \in Intents} \cup {"summarize", "openclaw-headline-write"}

Classified(intent, person, confidence) ==
  [intent |-> intent, route |-> IntentRoute(intent), tag |-> IntentTag(intent),
   person |-> person, confidence |-> confidence]

-----------------------------------------------------------------------------
\* The path the word detectors choose: assistant before specialist before gateway.
TurnRoute(text) ==
  IF text \cap {"token", "calendar", "meeting", "email", "ask", "coordinate",
                "create", "understand"} # {} THEN "assistant"
  ELSE IF text \cap {"linkedin", "random", "catalog"} # {} THEN "specialist"
  ELSE "gateway"

\* The finest intent of a path, by the first detector of its list that fires.
Order(route) ==
  IF route = "gateway" THEN << <<{"summarize"}, "summarize">>, <<{}, "chat">> >>
  ELSE IF route = "specialist"
    THEN << <<{"random"}, "use-specialist">>, <<{"linkedin", "tone"}, "tone-analysis">>,
            <<{}, "catalog-discovery">> >>
  ELSE << <<{"coordinate"}, "coordinate-meeting">>, <<{"create"}, "create-image">>,
          <<{"understand", "image"}, "describe-image">>, <<{"identity"}, "identity">>,
          <<{"transcribe"}, "transcribe-audio">>, <<{"narrate"}, "narrate-text">>,
          <<{"draft"}, "draft-email">>, <<{"mail", "email"}, "read-email">>,
          <<{"booking"}, "book-event">>, <<{"calendar", "meeting"}, "check-availability">>,
          <<{"ask"}, "coordinate-meeting">>, <<{}, "check-availability">> >>

DeterministicIntent(text, route, context) ==
  LET heard == text \cup (IF context.image THEN {"image"} ELSE {})
      list == Order(route)
      first == CHOOSE n \in 1..Len(list) :
                 /\ list[n][1] \cap heard # {} \/ n = Len(list)
                 /\ \A b \in 1..(n - 1) : list[b][1] \cap heard = {}
  IN list[first][2]

\* Whom the coordination detector finds named: the word the owner typed, which may be
\* a handle ("pa_bob", "@pa_bob") as well as a name.
Reference(text) ==
  IF "coordinate" \notin text THEN ""
  ELSE IF "pa" \in text THEN "handle"
  ELSE IF "@pa" \in text THEN "@handle" ELSE "natural"

Mirror(text, context) ==
  Classified(DeterministicIntent(text, TurnRoute(text), context), Reference(text), 10)

\* A token, an agent picked by hand and an attachment are facts, not guesses.
Shortcuts(text, context) ==
  IF "token" \in text THEN {Mirror(text, context)}
  ELSE IF context.pick THEN {Classified("use-specialist", "", 10)}
  ELSE IF context.image THEN {Classified("describe-image", "", 10)}
  ELSE IF context.audio THEN {Classified("transcribe-audio", "", 10)}
  ELSE {}

\* mutant: the path the model names is believed.
ValidatedAsTold(reply) ==
  IF reply.intent \in Intents /\ reply.route \in Routes \cup {""} /\ reply.tag \in Tags
    THEN {[Classified(reply.intent, reply.person, reply.confidence)
             EXCEPT !.route = IF reply.route = "" THEN @ ELSE reply.route]}
    ELSE {}

\* A reply that leaves the taxonomy is dropped; one that is merely inconsistent is
\* put right from its intent. A reference that begins with pa_ is not taken over.
Validated(reply) ==
  IF reply.intent \in Intents /\ reply.route \in Routes \cup {""} /\ reply.tag \in Tags
    THEN {Classified(reply.intent,
                     IF reply.person = "handle" THEN "" ELSE reply.person,
                     IF reply.confidence > 10 THEN 10 ELSE reply.confidence)}
    ELSE {}

\* DEFAULT_MIN_CONFIDENCE, in tenths.
MinConfidence == 5

-----------------------------------------------------------------------------
RoutingInit ==
  /\ words \in Texts /\ facts \in Contexts
  /\ stage = "new" /\ calling = FALSE
  /\ said = Classified("chat", "", 0) /\ source = "none"

Settle(classified, how) ==
  stage' = "settled" /\ said' = classified /\ source' = how

TakeShortcut ==
  /\ stage = "new"
  /\ \E c \in Shortcuts(words, facts) : Settle(c, "shortcut")
  /\ UNCHANGED <<words, facts, calling>>

\* Offline, or no gateway token: the skill call is not made, or refuses at once.
AnswerOffline ==
  /\ stage = "new" /\ Shortcuts(words, facts) = {}
  /\ Settle(Mirror(words, facts), "deterministic")
  /\ UNCHANGED <<words, facts, calling>>

AskModel ==
  /\ stage = "new" /\ Shortcuts(words, facts) = {}
  /\ stage' = "asked" /\ calling' = TRUE
  /\ UNCHANGED <<words, facts, said, source>>

\* An answer after the budget is spent changes nothing (withTimeout).
ModelReplies ==
  /\ calling /\ calling' = FALSE
  /\ \E reply \in Replies :
       IF stage = "settled" THEN UNCHANGED <<stage, said, source>>
       ELSE IF \E c \in Validated(reply) : c.confidence >= MinConfidence
         THEN \E c \in Validated(reply) : Settle(c, "model")
         ELSE Settle(Mirror(words, facts), "deterministic")
  /\ UNCHANGED <<words, facts>>

\* The gateway refuses, answers nothing or answers no JSON object.
CallFails ==
  /\ calling /\ calling' = FALSE
  /\ IF stage = "settled" THEN UNCHANGED <<stage, said, source>>
     ELSE Settle(Mirror(words, facts), "deterministic")
  /\ UNCHANGED <<words, facts>>

BudgetSpent ==
  /\ stage = "asked"
  /\ Settle(Mirror(words, facts), "deterministic")
  /\ UNCHANGED <<words, facts, calling>>

RoutingNext ==
  TakeShortcut \/ AnswerOffline \/ AskModel \/ ModelReplies \/ CallFails \/ BudgetSpent

-----------------------------------------------------------------------------
\* Whatever the model returns and whenever, a turn is sent down the one path its
\* intent has, and is where the detectors put it unless the model was sure; a confirm
\* token always reaches the assistant and an agent picked by hand is otherwise the
\* specialist ("never a silent gateway drop, never a fabricated route").  Nobody is
\* named but as the owner typed it or the model said, and a handle pa_... only if the
\* owner typed it: none comes from the model.
RoutedAsTold ==
  stage = "settled" =>
    /\ <<said.intent, said.route, said.tag>> \in Taxonomy
    /\ said.confidence \in MinConfidence..10
    /\ source # "model" => said.person \in {"", Reference(words)}
    /\ said.person = "handle" => source # "model" /\ {"coordinate", "pa"} \subseteq words
    /\ source = "deterministic" => said.route = TurnRoute(words)
    /\ "token" \in words => said.route = "assistant"
    /\ facts.pick /\ "token" \notin words => said.intent = "use-specialist"
    /\ source = "model" => Shortcuts(words, facts) = {}
=============================================================================
