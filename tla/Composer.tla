------------------------------ MODULE Composer ------------------------------
(***************************************************************************)
(* What goes into a message: agent/web/chat/js/composer.jsx reads dropped  *)
(* files one after the other and records clips, while the owner adds,      *)
(* removes and sends.  recRef holds one recorder, and startRec waits for   *)
(* the microphone before it sets it.                                       *)
(***************************************************************************)
EXTENDS Naturals, FiniteSets

CONSTANTS
  Images, Clips, \* files to be dropped or pasted
  Takes,         \* clicks on Record
  MaxSent,       \* messages of a behaviour
  Nobody

Files == Images \cup Clips

ASSUME MediaAssumption == Files \cap Takes = {} /\ Nobody \notin Files \cup Takes /\ MaxSent \in Nat

VARIABLES
  item,    \* each attachment: "none", "waiting" for its turn, "loading", "removed"
           \* while it loads, "ready", "gone"
  drop,    \* the file of its drop that came first, for each file
  sent,    \* the message each attachment went with, 0 for none
  written, \* messages sent
  take,    \* each recording: "none", "asked", "open", "reading", "closed"; "left":
           \* the microphone is open and nothing records from it
  rec,     \* recRef
  button,  \* recording: the button offers to stop
  hurried, \* history: drops of which a file was removed while it loaded
  doubled  \* history: Record was clicked while an earlier click still waited

mediaVars == <<item, drop, sent, written, take, rec, button, hurried, doubled>>
clipVars == <<take, rec, button, doubled>>
fileVars == <<drop, hurried>>

ComposerInit ==
  /\ item = [i \in Files \cup Takes |-> "none"] /\ drop = [f \in Files |-> Nobody]
  /\ sent = [i \in Files \cup Takes |-> 0] /\ written = 0
  /\ take = [k \in Takes |-> "none"] /\ rec = Nobody /\ button = FALSE
  /\ hurried = {} /\ doubled = FALSE

-----------------------------------------------------------------------------
\* addMediaFiles takes the images first; a clip that is too short is left out.
NextOf(waiting) == IF waiting \cap Images # {} THEN waiting \cap Images ELSE waiting
\* Go on with one of the files that wait, if any; short ones are passed over.
GoOn(waiting, rest) ==
  \/ \E short \in SUBSET (waiting \cap Clips) :
       LET left == waiting \ short
       IN  IF left = {}
             THEN item' = [i \in DOMAIN item |-> IF i \in short THEN "gone" ELSE rest[i]]
             ELSE \E f \in NextOf(left) :
                    item' = [i \in DOMAIN item |-> IF i \in short THEN "gone"
                                                  ELSE IF i = f THEN "loading" ELSE rest[i]]

Drop(fs) ==
  /\ fs # {} /\ \A f \in fs : item[f] = "none"
  /\ drop' = [f \in Files |-> IF f \in fs THEN CHOOSE g \in fs : TRUE ELSE drop[f]]
  /\ GoOn(fs, [i \in DOMAIN item |-> IF i \in fs THEN "waiting" ELSE item[i]])
  /\ UNCHANGED <<sent, written, hurried, clipVars>>

\* A file was read, or could not be; the next of its drop follows at once.
\* What was removed meanwhile does not come back.
Read(f) ==
  /\ item[f] \in {"loading", "removed"}
  /\ \E outcome \in IF item[f] = "removed" THEN {"gone"} ELSE {"ready", "gone"} :
       GoOn({g \in Files : drop[g] = drop[f] /\ item[g] = "waiting"}, [item EXCEPT ![f] = outcome])
  /\ UNCHANGED <<fileVars, sent, written, clipVars>>

\* An image that loads shows no cross.
Remove(i) ==
  /\ item[i] = "ready" \/ (item[i] = "loading" /\ i \in Clips)
  /\ item' = [item EXCEPT ![i] = IF @ = "loading" THEN "removed" ELSE "gone"]
  /\ hurried' = IF item[i] = "loading" THEN hurried \cup {drop[i]} ELSE hurried
  /\ UNCHANGED <<drop, sent, written, clipVars>>

\* submit, of a message that may have a text as well.
Submittable == \A i \in DOMAIN item : item[i] # "loading"
Send ==
  /\ Submittable /\ written < MaxSent
  /\ written' = written + 1
  /\ LET with == {i \in DOMAIN item : item[i] \in {"ready", "loading"}}
     IN  /\ item' = [i \in DOMAIN item |-> CASE item[i] = "ready" -> "gone" [] item[i] = "loading" -> "removed"
                                        [] OTHER -> item[i]]
         /\ sent' = [i \in DOMAIN sent |-> IF i \in with THEN written' ELSE sent[i]]
  /\ UNCHANGED <<fileVars, clipVars>>

-----------------------------------------------------------------------------
StartRec(k) ==
  /\ take[k] = "none" /\ ~button
  /\ take' = [take EXCEPT ![k] = "asked"]
  /\ doubled' = (doubled \/ \E j \in Takes : take[j] = "asked")
  /\ UNCHANGED <<item, fileVars, sent, written, rec, button>>

\* mutant: the button is not switched
GrantedQuietly(k) ==
  /\ take[k] = "asked" /\ take' = [take EXCEPT ![k] = "open"]
  /\ rec' = k
  /\ UNCHANGED <<item, fileVars, sent, written, button, doubled>>
Granted(k) ==
  /\ take[k] = "asked"
  /\ take' = [take EXCEPT ![k] = "open"]
  /\ rec' = k /\ button' = TRUE
  /\ UNCHANGED <<item, fileVars, sent, written, doubled>>

\* The catch of startRec: there is no microphone.
Denied(k) ==
  /\ take[k] = "asked"
  /\ take' = [take EXCEPT ![k] = "closed"]
  /\ UNCHANGED <<item, fileVars, sent, written, rec, button, doubled>>

\* The same catch with the stream already open: the recorder could not be built,
\* or was in recRef and did not start.  Nobody stops the stream.
NotRecording(k) ==
  /\ take[k] = "asked"
  /\ take' = [take EXCEPT ![k] = "left"]
  /\ rec' \in {rec, k}
  /\ UNCHANGED <<item, fileVars, sent, written, button, doubled>>

\* stopRec, of the button or of the sixty seconds of some recording's timer:
\* it stops the recorder of recRef unless that is inactive; its microphone closes.
StopRec ==
  /\ rec # Nobody /\ take[rec] = "open"
  /\ take' = [take EXCEPT ![rec] = "reading"]
  /\ UNCHANGED <<item, fileVars, sent, written, rec, button, doubled>>

\* The clip was read, or is too short to be one.
OnStop(k) ==
  /\ take[k] = "reading"
  /\ take' = [take EXCEPT ![k] = "closed"]
  /\ rec' = Nobody /\ button' = FALSE
  /\ \E outcome \in {"ready", "gone"} : item' = [item EXCEPT ![k] = outcome]
  /\ UNCHANGED <<fileVars, sent, written, doubled>>

\* FileReader fails, which onstop does not catch: the button goes on offering to
\* stop, and does nothing.
NotRead(k) ==
  /\ take[k] = "reading"
  /\ take' = [take EXCEPT ![k] = "closed"]
  /\ UNCHANGED <<item, fileVars, sent, written, rec, button, doubled>>

\* What happens without the owner.
ComposerStep ==
  \/ \E f \in Files : Read(f)
  \/ StopRec \/ \E k \in Takes : OnStop(k) \/ NotRead(k)
ComposerNext ==
  \/ ComposerStep \/ Send
  \/ \E fs \in SUBSET Files : Drop(fs)
  \/ \E i \in Files \cup Takes : Remove(i)
  \/ \E k \in Takes : StartRec(k) \/ Granted(k) \/ Denied(k) \/ NotRecording(k)

-----------------------------------------------------------------------------
\* Files dropped together go with one message, even if they are read while
\* the owner writes; unless one was removed while it loaded, which lets the
\* owner send before the rest has come.
DropStaysTogether ==
  \A f, g \in Files :
    drop[f] = drop[g] /\ sent[f] # 0 /\ sent[g] # 0 /\ drop[f] \notin hurried => sent[f] = sent[g]

\* While the button offers to record, nothing records, and whoever's microphone is
\* open had a recorder that failed after the stream was opened ("left", which no
\* path of the page closes); unless Record was clicked twice, in which case the
\* first recorder is lost and goes on.
MicIsOff == ~button => doubled \/ \A k \in Takes : take[k] \notin {"open", "reading"}

\* What the owner drops together is sent together, and while the button offers to
\* record nothing records.
ComposerKeeps == DropStaysTogether /\ MicIsOff

\* A recording ends, by the owner or after a minute.  The microphone of a recorder
\* that never recorded is not one: it stays open.
MicCloses == doubled \/ \A k \in Takes : take[k] \notin {"open", "reading"}
=============================================================================
