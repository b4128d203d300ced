----------------------------- MODULE ChatProofs -----------------------------
(***************************************************************************)
(* Proofs about the web page, for any number of messages, conversations,   *)
(* notices, files and recordings: the composer, the meeting cards of the   *)
(* two owners, and the runs of the chat.  Each part has its invariant.     *)
(***************************************************************************)
EXTENDS ChatRuns, Notices, Composer, FiniteSetTheorems, TLAPS

\* The composer.
Items == {"none", "waiting", "loading", "removed", "ready", "gone"}
MediaTypes ==
  /\ item \in [Files \cup Takes -> Items] /\ drop \in [Files -> Files \cup {Nobody}]
  /\ sent \in [Files \cup Takes -> Nat] /\ written \in Nat
  /\ take \in [Takes -> {"none", "asked", "open", "reading", "closed", "left"}]
  /\ rec \in Takes \cup {Nobody} /\ button \in BOOLEAN /\ doubled \in BOOLEAN

\* A drop is named after one of its files, which is of it, and is of nobody before.
Drops ==
  \A f \in Files :
    /\ item[f] = "none" <=> drop[f] = Nobody
    /\ drop[f] # Nobody => drop[drop[f]] = drop[f]

\* The files of a drop wait for one that is read; none is left once one was sent.
Together ==
  /\ \A f \in Files : item[f] = "waiting" =>
       \E g \in Files : drop[g] = drop[f] /\ item[g] \in {"loading", "removed"}
  /\ \A f \in Files : item[f] = "removed" => drop[f] \in hurried
  /\ \A f \in Files : sent[f] # 0 => item[f] = "gone"
  /\ \A f, g \in Files : sent[f] # 0 /\ drop[f] = drop[g] /\ drop[f] \notin hurried => item[g] = "gone"

\* Unless Record was clicked twice, one recording is asked for, open or being read,
\* and the button knows it.
OneRecorder ==
  ~doubled =>
    /\ \A j, k \in Takes :
         take[j] \in {"asked", "open", "reading"} /\ take[k] \in {"asked", "open", "reading"} => j = k
    /\ \A k \in Takes : take[k] \in {"open", "reading"} => button

MediaInv == MediaTypes /\ Drops /\ Together /\ DropStaysTogether /\ OneRecorder

-----------------------------------------------------------------------------
LEMMA MediaStarts == ComposerInit => MediaInv
<1> SUFFICES ASSUME ComposerInit PROVE MediaInv
  OBVIOUS
<1>1. MediaTypes
  BY DEF ComposerInit, MediaTypes, Items
<1>2. Drops /\ Together /\ DropStaysTogether
  BY DEF ComposerInit, Drops, Together, DropStaysTogether
<1>3. OneRecorder
  BY DEF ComposerInit, OneRecorder
<1> QED
  BY <1>1, <1>2, <1>3 DEF MediaInv

\* What going on with the files that wait leaves of each.
LEMMA GoingOn ==
  ASSUME NEW waiting \in SUBSET Files, NEW rest \in [Files \cup Takes -> Items],
         item \in [Files \cup Takes -> Items], GoOn(waiting, rest)
  PROVE  /\ item' \in [Files \cup Takes -> Items]
         /\ \A i \in (Files \cup Takes) \ waiting : item'[i] = rest[i]
         /\ \A f \in waiting : item'[f] \in {"gone", "loading", rest[f]}
         /\ (\A f \in waiting : item'[f] = "gone") \/ \E f \in waiting : item'[f] = "loading"
<1>1. PICK short \in SUBSET (waiting \cap Clips) :
        IF waiting \ short = {}
          THEN item' = [i \in DOMAIN item |-> IF i \in short THEN "gone" ELSE rest[i]]
          ELSE \E f \in NextOf(waiting \ short) :
                 item' = [i \in DOMAIN item |-> IF i \in short THEN "gone"
                                               ELSE IF i = f THEN "loading" ELSE rest[i]]
  BY DEF GoOn
<1>2. DOMAIN item = Files \cup Takes
  OBVIOUS
<1>3. CASE waiting \ short = {}
  BY <1>1, <1>2, <1>3 DEF Items
<1>4. CASE waiting \ short # {}
  <2>1. PICK f \in NextOf(waiting \ short) :
          item' = [i \in Files \cup Takes |-> IF i \in short THEN "gone" ELSE IF i = f THEN "loading" ELSE rest[i]]
    BY <1>1, <1>2, <1>4
  <2>2. f \in waiting /\ f \notin short
    BY <2>1 DEF NextOf
  <2>3. item' \in [Files \cup Takes -> Items]
    BY <2>1 DEF Items
  <2>4. item'[f] = "loading"
    BY <2>1, <2>2
  <2>5. \A i \in (Files \cup Takes) \ waiting : item'[i] = rest[i]
    BY <2>1, <2>2
  <2>6. \A i \in waiting : item'[i] \in {"gone", "loading", rest[i]}
    BY <2>1
  <2> QED
    BY <2>2, <2>3, <2>4, <2>5, <2>6
<1> QED
  BY <1>3, <1>4

LEMMA Dropping ==
  ASSUME MediaInv, NEW fs \in SUBSET Files, Drop(fs)
  PROVE  MediaInv'
<1>1. /\ fs # {} /\ (\A f \in fs : item[f] = "none")
      /\ drop' = [f \in Files |-> IF f \in fs THEN CHOOSE g \in fs : TRUE ELSE drop[f]]
      /\ GoOn(fs, [i \in DOMAIN item |-> IF i \in fs THEN "waiting" ELSE item[i]])
      /\ UNCHANGED <<sent, written, hurried, take, rec, button, doubled>>
  BY DEF Drop, clipVars
<1>2. PICK d \in fs : \A f \in Files : drop'[f] = IF f \in fs THEN d ELSE drop[f]
  BY <1>1
<1>3. /\ item \in [Files \cup Takes -> Items] /\ drop \in [Files -> Files \cup {Nobody}]
      /\ sent \in [Files \cup Takes -> Nat]
  BY DEF MediaInv, MediaTypes
<1> DEFINE rest == [i \in Files \cup Takes |-> IF i \in fs THEN "waiting" ELSE item[i]]
<1>4. rest \in [Files \cup Takes -> Items] /\ GoOn(fs, rest)
  BY <1>1, <1>3 DEF Items
<1>5. /\ item' \in [Files \cup Takes -> Items]
      /\ \A i \in (Files \cup Takes) \ fs : item'[i] = item[i]
      /\ \A f \in fs : item'[f] \in {"gone", "loading", "waiting"}
      /\ (\A f \in fs : item'[f] = "gone") \/ \E f \in fs : item'[f] = "loading"
  <2> HIDE DEF rest
  <2>1. /\ item' \in [Files \cup Takes -> Items]
        /\ \A i \in (Files \cup Takes) \ fs : item'[i] = rest[i]
        /\ \A f \in fs : item'[f] \in {"gone", "loading", rest[f]}
        /\ (\A f \in fs : item'[f] = "gone") \/ \E f \in fs : item'[f] = "loading"
    BY <1>3, <1>4, GoingOn
  <2> QED
    BY <2>1 DEF rest
<1>6. /\ \A f \in fs : drop[f] = Nobody /\ sent[f] = 0
      /\ \A f \in Files : drop[f] # d
  BY <1>1, <1>2, <1>3, MediaAssumption DEF MediaInv, Drops, Together
<1>7. MediaTypes'
  BY <1>1, <1>2, <1>5 DEF MediaInv, MediaTypes
<1>8. Drops'
  <2> SUFFICES ASSUME NEW f \in Files
               PROVE  /\ item'[f] = "none" <=> drop'[f] = Nobody
                      /\ drop'[f] # Nobody => drop'[drop'[f]] = drop'[f]
    BY DEF Drops
  <2>1. CASE f \in fs
    BY <1>2, <1>5, <2>1, MediaAssumption
  <2>2. CASE f \notin fs
    <3>1. item'[f] = item[f] /\ drop'[f] = drop[f]
      BY <1>2, <1>5, <2>2
    <3>2. drop[f] # Nobody => drop[f] \in Files \ fs
      BY <1>3, <1>6 DEF MediaInv, Drops
    <3> QED
      BY <1>2, <3>1, <3>2 DEF MediaInv, Drops
  <2> QED
    BY <2>1, <2>2
<1>9. Together'
  <2>1. ASSUME NEW f \in Files, item'[f] = "waiting"
        PROVE  \E g \in Files : drop'[g] = drop'[f] /\ item'[g] \in {"loading", "removed"}
    <3>1. CASE f \in fs
      BY <1>2, <1>5, <2>1, <3>1
    <3>2. CASE f \notin fs
      <4>1. PICK g \in Files : drop[g] = drop[f] /\ item[g] \in {"loading", "removed"}
        BY <1>5, <2>1, <3>2 DEF MediaInv, Together
      <4>2. g \notin fs
        BY <1>1, <4>1
      <4> QED
        BY <1>2, <1>5, <3>2, <4>1, <4>2
    <3> QED
      BY <3>1, <3>2
  <2>2. ASSUME NEW f \in Files, item'[f] = "removed" PROVE drop'[f] \in hurried'
    BY <1>1, <1>2, <1>5, <2>2 DEF MediaInv, Together
  <2>3. ASSUME NEW f \in Files, sent'[f] # 0 PROVE item'[f] = "gone"
    BY <1>1, <1>5, <1>6, <2>3 DEF MediaInv, Together
  <2>4. ASSUME NEW f \in Files, NEW g \in Files, sent'[f] # 0, drop'[f] = drop'[g], drop'[f] \notin hurried'
        PROVE  item'[g] = "gone"
    <3>1. f \notin fs /\ drop'[f] = drop[f] /\ drop[f] # d
      BY <1>1, <1>2, <1>6, <2>4
    <3>2. g \notin fs /\ drop'[g] = drop[g]
      BY <1>2, <2>4, <3>1
    <3> QED
      BY <1>1, <1>5, <2>4, <3>1, <3>2 DEF MediaInv, Together
  <2> QED
    BY <2>1, <2>2, <2>3, <2>4 DEF Together
<1>10. DropStaysTogether'
  <2> SUFFICES ASSUME NEW f \in Files, NEW g \in Files, drop'[f] = drop'[g], sent[f] # 0, sent[g] # 0,
                      drop'[f] \notin hurried
               PROVE  sent[f] = sent[g]
    BY <1>1 DEF DropStaysTogether
  <2>1. drop'[f] = drop[f] /\ drop'[g] = drop[g]
    BY <1>2, <1>6
  <2> QED
    BY <2>1 DEF MediaInv, DropStaysTogether
<1>11. OneRecorder'
  BY <1>1 DEF MediaInv, OneRecorder
<1> QED
  BY <1>7, <1>8, <1>9, <1>10, <1>11 DEF MediaInv

LEMMA ReadingFile ==
  ASSUME MediaInv, NEW f \in Files, Read(f)
  PROVE  MediaInv'
<1> DEFINE waiting == {g \in Files : drop[g] = drop[f] /\ item[g] = "waiting"}
<1>1. item[f] \in {"loading", "removed"} /\ UNCHANGED <<drop, hurried, sent, written, take, rec, button, doubled>>
  BY DEF Read, clipVars, fileVars
<1>2. PICK outcome \in {"ready", "gone"} : GoOn(waiting, [item EXCEPT ![f] = outcome])
  BY DEF Read
<1>3. /\ item \in [Files \cup Takes -> Items] /\ drop \in [Files -> Files \cup {Nobody}]
      /\ sent \in [Files \cup Takes -> Nat]
  BY DEF MediaInv, MediaTypes
<1>4. /\ item' \in [Files \cup Takes -> Items] /\ item'[f] \in {"ready", "gone"}
      /\ \A i \in (Files \cup Takes) \ (waiting \cup {f}) : item'[i] = item[i]
      /\ \A g \in waiting : item'[g] \in {"gone", "loading", "waiting"}
      /\ (\A g \in waiting : item'[g] = "gone") \/ \E g \in waiting : item'[g] = "loading"
  <2> DEFINE rest == [item EXCEPT ![f] = outcome]
  <2>1. /\ rest \in [Files \cup Takes -> Items] /\ rest[f] = outcome
        /\ \A i \in (Files \cup Takes) \ {f} : rest[i] = item[i]
    BY <1>3 DEF Items
  <2>2. GoOn(waiting, rest)
    BY <1>2
  <2>3. waiting \in SUBSET Files /\ f \notin waiting /\ \A g \in waiting : item[g] = "waiting"
    BY <1>1
  <2> HIDE DEF rest, waiting
  <2>4. /\ item' \in [Files \cup Takes -> Items]
        /\ \A i \in (Files \cup Takes) \ waiting : item'[i] = rest[i]
        /\ \A g \in waiting : item'[g] \in {"gone", "loading", rest[g]}
        /\ (\A g \in waiting : item'[g] = "gone") \/ \E g \in waiting : item'[g] = "loading"
    BY <1>3, <2>1, <2>2, <2>3, GoingOn
  <2> QED
    BY <2>1, <2>3, <2>4
<1>5. MediaTypes'
  BY <1>1, <1>4 DEF MediaInv, MediaTypes
<1>6. \A g \in waiting : item'[g] # "none" /\ item[g] = "waiting" /\ drop[g] = drop[f]
  BY <1>4
<1>7. Drops'
  BY <1>1, <1>4, <1>6 DEF MediaInv, Drops
<1>8. drop[f] \notin hurried => \A g \in Files : drop[g] = drop[f] => sent[g] = 0
  BY <1>1 DEF MediaInv, Together
<1>9. \A g \in waiting \cup {f} : sent[g] = 0
  BY <1>1 DEF MediaInv, Together
<1>10. Together'
  <2>1. ASSUME NEW g \in Files, item'[g] = "waiting"
        PROVE  \E h \in Files : drop[h] = drop[g] /\ item'[h] \in {"loading", "removed"}
    <3>1. CASE g \in waiting
      BY <1>4, <1>6, <2>1, <3>1
    <3>2. CASE g \notin waiting
      <4>1. g # f /\ item[g] = "waiting" /\ drop[g] # drop[f]
        BY <1>4, <2>1, <3>2
      <4>2. PICK h \in Files : drop[h] = drop[g] /\ item[h] \in {"loading", "removed"}
        BY <4>1 DEF MediaInv, Together
      <4> QED
        BY <1>4, <1>6, <4>1, <4>2
    <3> QED
      BY <3>1, <3>2
  <2>2. ASSUME NEW g \in Files, item'[g] = "removed" PROVE drop[g] \in hurried
    BY <1>4, <2>2 DEF MediaInv, Together
  <2>3. ASSUME NEW g \in Files, sent[g] # 0 PROVE item'[g] = "gone"
    BY <1>4, <1>9, <2>3 DEF MediaInv, Together
  <2>4. ASSUME NEW g \in Files, NEW h \in Files, sent[g] # 0, drop[g] = drop[h], drop[g] \notin hurried
        PROVE  item'[h] = "gone"
    <3>1. drop[g] # drop[f]
      BY <1>8, <2>4
    <3>2. h \notin waiting /\ h # f
      BY <2>4, <3>1
    <3> QED
      BY <1>4, <2>4, <3>2 DEF MediaInv, Together
  <2> HIDE DEF waiting
  <2> QED
    BY <1>1, <2>1, <2>2, <2>3, <2>4 DEF Together
<1>11. DropStaysTogether' /\ OneRecorder'
  BY <1>1 DEF MediaInv, DropStaysTogether, OneRecorder
<1> QED
  BY <1>5, <1>7, <1>10, <1>11 DEF MediaInv

LEMMA Removing ==
  ASSUME MediaInv, NEW i \in Files \cup Takes, Remove(i)
  PROVE  MediaInv'
<1>1. /\ item[i] = "ready" \/ (item[i] = "loading" /\ i \in Clips)
      /\ item' = [item EXCEPT ![i] = IF @ = "loading" THEN "removed" ELSE "gone"]
      /\ hurried' = IF item[i] = "loading" THEN hurried \cup {drop[i]} ELSE hurried
      /\ UNCHANGED <<drop, sent, written, take, rec, button, doubled>>
  BY DEF Remove, clipVars
<1>2. item \in [Files \cup Takes -> Items]
  BY DEF MediaInv, MediaTypes
<1>3. /\ item'[i] = IF item[i] = "loading" THEN "removed" ELSE "gone"
      /\ \A j \in (Files \cup Takes) \ {i} : item'[j] = item[j]
      /\ item' \in [Files \cup Takes -> Items]
  BY <1>1, <1>2 DEF Items
<1>4. MediaTypes'
  BY <1>1, <1>3 DEF MediaInv, MediaTypes
<1>5. Drops'
  BY <1>1, <1>3 DEF MediaInv, Drops
<1>6. hurried \subseteq hurried'
  BY <1>1
<1>7. Together'
  <2>1. ASSUME NEW f \in Files, item'[f] = "waiting"
        PROVE  \E g \in Files : drop[g] = drop[f] /\ item'[g] \in {"loading", "removed"}
    <3>1. item[f] = "waiting"
      BY <1>3, <2>1
    <3>2. PICK g \in Files : drop[g] = drop[f] /\ item[g] \in {"loading", "removed"}
      BY <3>1 DEF MediaInv, Together
    <3> QED
      BY <1>1, <1>3, <3>2
  <2>2. ASSUME NEW f \in Files, item'[f] = "removed" PROVE drop[f] \in hurried'
    BY <1>1, <1>3, <1>6, <2>2 DEF MediaInv, Together
  <2>3. ASSUME NEW f \in Files, sent[f] # 0 PROVE item'[f] = "gone"
    BY <1>1, <1>3, <2>3 DEF MediaInv, Together
  <2>4. ASSUME NEW f \in Files, NEW g \in Files, sent[f] # 0, drop[f] = drop[g], drop[f] \notin hurried'
        PROVE  item'[g] = "gone"
    BY <1>1, <1>3, <1>6, <2>4 DEF MediaInv, Together
  <2> QED
    BY <1>1, <2>1, <2>2, <2>3, <2>4 DEF Together
<1>8. DropStaysTogether' /\ OneRecorder'
  BY <1>1, <1>6 DEF MediaInv, DropStaysTogether, OneRecorder
<1> QED
  BY <1>4, <1>5, <1>7, <1>8 DEF MediaInv

LEMMA Sending ==
  ASSUME MediaInv, Send
  PROVE  MediaInv'
<1> DEFINE with == {i \in Files \cup Takes : item[i] = "ready"}
<1>1. /\ item \in [Files \cup Takes -> Items] /\ sent \in [Files \cup Takes -> Nat] /\ written \in Nat
  BY DEF MediaInv, MediaTypes
<1>2. /\ \A i \in Files \cup Takes : item[i] # "loading"
      /\ written' = written + 1 /\ UNCHANGED <<drop, hurried, take, rec, button, doubled>>
  BY <1>1 DEF Send, Submittable, fileVars, clipVars
<1>3. /\ item' = [i \in Files \cup Takes |-> IF i \in with THEN "gone" ELSE item[i]]
      /\ sent' = [i \in Files \cup Takes |-> IF i \in with THEN written' ELSE sent[i]]
  BY <1>1, <1>2 DEF Send
<1>4. MediaTypes'
  BY <1>1, <1>2, <1>3 DEF MediaInv, MediaTypes, Items
<1>5. \A f \in Files : item'[f] = "none" <=> item[f] = "none"
  BY <1>1, <1>3
<1>6. Drops'
  BY <1>2, <1>5 DEF MediaInv, Drops
<1>7. \A f \in Files : item[f] = "waiting" => drop[f] \in hurried
  BY <1>2 DEF MediaInv, Together
<1>8. Together'
  <2>1. ASSUME NEW f \in Files, item'[f] = "waiting"
        PROVE  \E g \in Files : drop[g] = drop[f] /\ item'[g] \in {"loading", "removed"}
    <3>1. item[f] = "waiting"
      BY <1>3, <2>1
    <3>2. PICK g \in Files : drop[g] = drop[f] /\ item[g] \in {"loading", "removed"}
      BY <3>1 DEF MediaInv, Together
    <3> QED
      BY <1>3, <3>2
  <2>2. ASSUME NEW f \in Files, item'[f] = "removed" PROVE drop[f] \in hurried
    BY <1>3, <2>2 DEF MediaInv, Together
  <2>3. ASSUME NEW f \in Files, sent'[f] # 0 PROVE item'[f] = "gone"
    BY <1>3, <2>3 DEF MediaInv, Together
  <2>4. ASSUME NEW f \in Files, NEW g \in Files, sent'[f] # 0, drop[f] = drop[g], drop[f] \notin hurried
        PROVE  item'[g] = "gone"
    <3>1. CASE f \in with
      <4>1. drop[f] # Nobody
        BY <3>1 DEF MediaInv, Drops
      <4>2. item[g] \notin {"none", "loading", "waiting", "removed"}
        BY <1>2, <1>7, <2>4, <4>1 DEF MediaInv, Drops, Together
      <4>3. item[g] \in {"ready", "gone"}
        BY <1>1, <4>2 DEF Items
      <4> QED
        BY <1>3, <4>3
    <3>2. CASE f \notin with
      BY <1>3, <2>4, <3>2 DEF MediaInv, Together
    <3> QED
      BY <3>1, <3>2
  <2> QED
    BY <1>2, <2>1, <2>2, <2>3, <2>4 DEF Together
<1>9. DropStaysTogether'
  <2> SUFFICES ASSUME NEW f \in Files, NEW g \in Files, drop[f] = drop[g], sent'[f] # 0, sent'[g] # 0,
                      drop[f] \notin hurried
               PROVE  sent'[f] = sent'[g]
    BY <1>2 DEF DropStaysTogether
  <2>1. CASE f \in with /\ g \in with
    BY <1>3, <2>1
  <2>2. CASE f \in with /\ g \notin with
    <3>1. sent[g] # 0
      BY <1>3, <2>2
    <3> QED
      BY <2>2, <3>1 DEF MediaInv, Together
  <2>3. CASE f \notin with /\ g \in with
    <3>1. sent[f] # 0
      BY <1>3, <2>3
    <3> QED
      BY <2>3, <3>1 DEF MediaInv, Together
  <2>4. CASE f \notin with /\ g \notin with
    BY <1>3, <2>4 DEF MediaInv, DropStaysTogether
  <2> QED
    BY <2>1, <2>2, <2>3, <2>4
<1>10. OneRecorder'
  BY <1>2 DEF MediaInv, OneRecorder
<1> QED
  BY <1>4, <1>6, <1>8, <1>9, <1>10 DEF MediaInv

\* A recording goes on: the files stay as they are.
LEMMA Recording ==
  ASSUME MediaInv, NEW k \in Takes, StartRec(k) \/ Granted(k) \/ Denied(k) \/ NotRecording(k)
                                    \/ StopRec \/ OnStop(k) \/ NotRead(k)
  PROVE  MediaInv'
<1>1. /\ take \in [Takes -> {"none", "asked", "open", "reading", "closed", "left"}] /\ rec \in Takes \cup {Nobody}
      /\ item \in [Files \cup Takes -> Items]
  BY DEF MediaInv, MediaTypes
<1>2. UNCHANGED <<drop, hurried, sent, written>> /\ \A f \in Files : item'[f] = item[f]
  BY <1>1, MediaAssumption DEF StartRec, Granted, Denied, NotRecording, StopRec, OnStop, NotRead, fileVars
<1>3. MediaTypes'
  <2>1. item' \in [Files \cup Takes -> Items]
    BY <1>1 DEF StartRec, Granted, Denied, NotRecording, StopRec, OnStop, NotRead, Items
  <2>2. take' \in [Takes -> {"none", "asked", "open", "reading", "closed", "left"}]
    BY <1>1 DEF StartRec, Granted, Denied, NotRecording, StopRec, OnStop, NotRead
  <2>3. rec' \in Takes \cup {Nobody} /\ button' \in BOOLEAN /\ doubled' \in BOOLEAN
    BY DEF StartRec, Granted, Denied, NotRecording, StopRec, OnStop, NotRead, MediaInv, MediaTypes
  <2> QED
    BY <1>2, <2>1, <2>2, <2>3 DEF MediaInv, MediaTypes
<1>4. Drops' /\ Together' /\ DropStaysTogether'
  BY <1>2 DEF MediaInv, Drops, Together, DropStaysTogether
<1>5. OneRecorder'
  <2>1. CASE StartRec(k)
    BY <1>1, <2>1 DEF StartRec, MediaInv, OneRecorder
  <2>2. CASE Granted(k)
    BY <1>1, <2>2 DEF Granted, MediaInv, OneRecorder
  <2>3. CASE Denied(k)
    BY <1>1, <2>3 DEF Denied, MediaInv, OneRecorder
  <2>4. CASE StopRec
    BY <1>1, <2>4 DEF StopRec, MediaInv, OneRecorder
  <2>5. CASE OnStop(k)
    BY <1>1, <2>5 DEF OnStop, MediaInv, OneRecorder
  <2>6. CASE NotRecording(k)
    BY <1>1, <2>6 DEF NotRecording, MediaInv, OneRecorder
  <2>7. CASE NotRead(k)
    BY <1>1, <2>7 DEF NotRead, MediaInv, OneRecorder
  <2> QED
    BY <2>1, <2>2, <2>3, <2>4, <2>5, <2>6, <2>7
<1> QED
  BY <1>3, <1>4, <1>5 DEF MediaInv

LEMMA MediaStep == MediaInv /\ [ComposerNext]_mediaVars => MediaInv'
<1> SUFFICES ASSUME MediaInv, [ComposerNext]_mediaVars PROVE MediaInv'
  OBVIOUS
<1>1. CASE UNCHANGED mediaVars
  BY <1>1 DEF mediaVars, MediaInv, MediaTypes, Drops, Together, DropStaysTogether, OneRecorder
<1>2. CASE StopRec
  <2>1. rec \in Takes
    BY <1>2 DEF StopRec, MediaInv, MediaTypes
  <2> QED
    BY <1>2, <2>1, Recording
<1> QED
  BY <1>1, <1>2, Dropping, ReadingFile, Removing, Sending, Recording DEF ComposerNext, ComposerStep

\* The files of one drop go with one message, although they are read while the owner
\* writes, and what records shows in the button unless Record was clicked twice
\* (composer.jsx): for any files, drops and recordings, whatever of them fails.
THEOREM ComposerHolds == ComposerInit /\ [][ComposerNext]_mediaVars => []ComposerKeeps
<1>1. MediaInv => ComposerKeeps
  BY DEF MediaInv, OneRecorder, MicIsOff, ComposerKeeps
<1> QED
  BY <1>1, MediaStarts, MediaStep, PTL

-----------------------------------------------------------------------------
\* The meeting cards.
Statuses == {"none", "pending-both", "both-accepted", "committed", "commit-failed", "declined", "expired"}
Snapshots == [n : Nat, status : Statuses, accepted : SUBSET Owner]
NoticesTo(o) == [to : {o}, n : Nat, status : Statuses, actionable : BOOLEAN]

NoticeTypes ==
  /\ record \in Snapshots /\ listed \in [Owner -> Snapshots]
  /\ (record.status = "none" <=> record.n = 0)
  /\ page \in [Owner -> {"off", "listing", "read", "live", "cut"}]
  /\ \A o \in Owner : wire[o] \in Seq(NoticesTo(o)) /\ (card[o] = NoNote \/ card[o] \in NoticesTo(o))
  /\ DOMAIN wire = Owner /\ DOMAIN card = Owner
  /\ booking \in SUBSET Owner /\ overtaken \in SUBSET Owner

\* What a panel will show when everything told so far has arrived.
Newest(o) == IF wire[o] = <<>> THEN card[o] ELSE wire[o][Len(wire[o])]

\* What a page was told last is the request as it is, unless a booking is under way.
ToldTheNewest ==
  \A o \in Owner :
    page[o] = "live" /\ booking = {} /\ o \notin overtaken /\ record.n > 0
      => Newest(o) = NoteFor(o, record)

\* What waits to be replayed is the request as it is, or one that is older than what
\* the page has been told since.
ListedIsOld ==
  \A o \in Owner :
    page[o] = "read" =>
      /\ listed[o].n <= record.n
      /\ listed[o].n = record.n => listed[o] = record
      /\ booking = {} /\ o \notin overtaken => listed[o].n = record.n

NoticeInv == NoticeTypes /\ ToldTheNewest /\ ListedIsOld

-----------------------------------------------------------------------------
LEMMA NoticeStarts == NoticeInit => NoticeInv
<1> SUFFICES ASSUME NoticeInit PROVE NoticeInv
  OBVIOUS
<1>1. NoRecord \in Snapshots /\ NoRecord.status = "none" /\ NoRecord.n = 0
  BY DEF NoRecord, Snapshots, Statuses
<1>2. NoticeTypes
  BY <1>1 DEF NoticeInit, NoticeTypes
<1>3. ToldTheNewest /\ ListedIsOld
  BY <1>1 DEF NoticeInit, ToldTheNewest, ListedIsOld
<1> QED
  BY <1>2, <1>3 DEF NoticeInv

LEMMA NoteIsOwn ==
  ASSUME NEW o \in Owner, NEW r \in Snapshots
  PROVE  NoteFor(o, r) \in NoticesTo(o)
BY DEF NoteFor, NoticesTo, Snapshots

LEMMA AddsOne ==
  ASSUME NEW S, NEW s \in Seq(S), NEW m \in S
  PROVE  /\ s \o <<m>> \o <<>> = Append(s, m) /\ s \o <<>> \o <<m>> = Append(s, m)
         /\ s \o <<>> \o <<>> = s
<1>1. <<m>> \in Seq(S) /\ <<>> \in Seq(S)
  OBVIOUS
<1>2. s \o <<m>> = Append(s, m)
  OBVIOUS
<1>3. \A q \in Seq(S) : q \o <<>> = q
  OBVIOUS
<1> QED
  BY <1>1, <1>2, <1>3

\* Whoever is subscribed is told last of all what is told.
LEMMA TellingAll ==
  ASSUME NoticeTypes, NEW r \in Snapshots, Tell(r)
  PROVE  /\ record' = r /\ DOMAIN wire' = Owner
         /\ \A o \in Owner : wire'[o] \in Seq(NoticesTo(o))
         /\ \A o \in Owner : Subscribed(o) =>
              wire'[o] # <<>> /\ wire'[o][Len(wire'[o])] = NoteFor(o, r)
         /\ \A o \in Owner : ~Subscribed(o) => wire'[o] = wire[o]
         /\ overtaken' \in SUBSET Owner /\ overtaken \subseteq overtaken'
         /\ \A o \in Owner : page[o] = "read" /\ listed[o].n < r.n => o \in overtaken'
<1>1. \A o \in Owner : wire'[o] = wire[o] \o Notice(o, "initiator", r) \o Notice(o, "peer", r)
  BY DEF Tell
<1>2. ASSUME NEW o \in Owner
      PROVE  wire'[o] = IF Subscribed(o) THEN Append(wire[o], NoteFor(o, r)) ELSE wire[o]
  <2>1. wire[o] \in Seq(NoticesTo(o)) /\ NoteFor(o, r) \in NoticesTo(o)
    BY NoteIsOwn DEF NoticeTypes
  <2>2. CASE ~Subscribed(o)
    <3>1. Notice(o, "initiator", r) = <<>> /\ Notice(o, "peer", r) = <<>>
      BY <2>2 DEF Notice, Channel
    <3> QED
      BY <1>1, <2>1, <2>2, <3>1, AddsOne
  <2>3. CASE Subscribed(o) /\ o = "initiator"
    <3>1. Notice(o, "initiator", r) = <<NoteFor(o, r)>> /\ Notice(o, "peer", r) = <<>>
      BY <2>3 DEF Notice, Channel
    <3>2. wire'[o] = wire[o] \o <<NoteFor(o, r)>> \o <<>>
      BY <1>1, <3>1
    <3>3. wire[o] \o <<NoteFor(o, r)>> \o <<>> = Append(wire[o], NoteFor(o, r))
      BY ONLY <2>1, AddsOne
    <3> QED
      BY <2>3, <3>2, <3>3
  <2>4. CASE Subscribed(o) /\ o = "peer"
    <3>1. Notice(o, "peer", r) = <<NoteFor(o, r)>> /\ Notice(o, "initiator", r) = <<>>
      BY <2>4 DEF Notice, Channel
    <3>2. wire'[o] = wire[o] \o <<>> \o <<NoteFor(o, r)>>
      BY <1>1, <3>1
    <3>3. wire[o] \o <<>> \o <<NoteFor(o, r)>> = Append(wire[o], NoteFor(o, r))
      BY ONLY <2>1, AddsOne
    <3> QED
      BY <2>4, <3>2, <3>3
  <2> QED
    BY <2>2, <2>3, <2>4 DEF Owner
<1>3. \A o \in Owner : wire[o] \in Seq(NoticesTo(o)) /\ NoteFor(o, r) \in NoticesTo(o)
  BY NoteIsOwn DEF NoticeTypes
<1>4. ASSUME NEW o \in Owner, NEW s \in Seq(NoticesTo(o)), NEW m \in NoticesTo(o)
      PROVE  /\ Append(s, m) \in Seq(NoticesTo(o)) /\ Append(s, m) # <<>>
             /\ Append(s, m)[Len(Append(s, m))] = m
  OBVIOUS
<1>5. \A o \in Owner : wire'[o] \in Seq(NoticesTo(o))
  BY <1>2, <1>3, <1>4
<1>6. ASSUME NEW o \in Owner, Subscribed(o)
      PROVE  wire'[o] # <<>> /\ wire'[o][Len(wire'[o])] = NoteFor(o, r)
  <2>1. wire'[o] = Append(wire[o], NoteFor(o, r))
    BY <1>2, <1>6
  <2>2. wire[o] \in Seq(NoticesTo(o)) /\ NoteFor(o, r) \in NoticesTo(o)
    BY <1>3
  <2> QED
    BY ONLY <1>4, <2>1, <2>2
<1>7. record' = r /\ DOMAIN wire' = Owner /\ overtaken' \in SUBSET Owner /\ overtaken \subseteq overtaken'
      /\ \A o \in Owner : page[o] = "read" /\ listed[o].n < r.n => o \in overtaken'
  BY DEF Tell, NoticeTypes
<1> QED
  BY ONLY <1>2, <1>5, <1>6, <1>7

\* Telling a newer snapshot, or the one there is, keeps everything true.
LEMMA TellingKeeps ==
  ASSUME NoticeInv, NEW r \in Snapshots, Tell(r), UNCHANGED <<page, listed, card>>, booking' \in SUBSET Owner,
         r = record \/ (r.n = record.n + 1 /\ r.status # "none")
  PROVE  NoticeInv'
<1>1. /\ record' = r /\ DOMAIN wire' = Owner
      /\ \A o \in Owner : wire'[o] \in Seq(NoticesTo(o))
      /\ \A o \in Owner : Subscribed(o) => wire'[o] # <<>> /\ wire'[o][Len(wire'[o])] = NoteFor(o, r)
      /\ overtaken' \in SUBSET Owner
      /\ \A o \in Owner : page[o] = "read" /\ listed[o].n < r.n => o \in overtaken'
  BY TellingAll DEF NoticeInv
<1>2. record.n \in Nat /\ r.n \in Nat /\ \A o \in Owner : listed[o].n \in Nat
  BY DEF NoticeInv, NoticeTypes, Snapshots
<1>3. r.status = "none" <=> r.n = 0
  BY <1>2 DEF NoticeInv, NoticeTypes
<1>4. NoticeTypes'
  BY <1>1, <1>3 DEF NoticeInv, NoticeTypes
<1>5. ToldTheNewest'
  BY <1>1 DEF ToldTheNewest, Newest, Subscribed
<1>6. ListedIsOld'
  <2> SUFFICES ASSUME NEW o \in Owner, page[o] = "read"
               PROVE  /\ listed[o].n <= r.n
                      /\ listed[o].n = r.n => listed[o] = r
                      /\ o \notin overtaken' => listed[o].n = r.n
    BY <1>1 DEF ListedIsOld
  <2>1. listed[o].n <= record.n /\ (listed[o].n = record.n => listed[o] = record)
    BY DEF NoticeInv, ListedIsOld
  <2> QED
    BY <1>1, <1>2, <2>1
<1> QED
  BY <1>4, <1>5, <1>6 DEF NoticeInv

LEMMA SnapshotIsNew ==
  ASSUME NoticeInv, NEW s \in Statuses \ {"none"}, NEW a \in SUBSET Owner
  PROVE  /\ Snapshot(s, a) \in Snapshots /\ Snapshot(s, a).n = record.n + 1
         /\ Snapshot(s, a).status # "none"
BY DEF Snapshot, Snapshots, NoticeInv, NoticeTypes

\* A state in which only what nobody was told of, or nothing, has changed.
LEMMA NothingTold ==
  ASSUME NoticeInv, UNCHANGED <<record, page, listed, wire, card, overtaken, booking>>
  PROVE  NoticeInv'
BY DEF NoticeInv, NoticeTypes, ToldTheNewest, Newest, ListedIsOld

-----------------------------------------------------------------------------
LEMMA Accepting ==
  ASSUME NoticeInv, NEW o \in Owner, Accept(o)
  PROVE  NoticeInv'
<1>1. record \in Snapshots /\ record.accepted \in SUBSET Owner /\ booking \in SUBSET Owner
  BY DEF NoticeInv, NoticeTypes, Snapshots
<1>2. UNCHANGED <<page, listed, card>>
  BY DEF Accept
<1>3. CASE UNCHANGED <<record, wire, overtaken, booking>>
  BY <1>2, <1>3, NothingTold
<1>4. CASE Tell(Snapshot("expired", record.accepted)) /\ UNCHANGED booking
  <2>1. "expired" \in Statuses \ {"none"}
    BY DEF Statuses
  <2> QED
    BY <1>1, <1>2, <1>4, <2>1, SnapshotIsNew, TellingKeeps
<1>5. CASE /\ Tell(IF o \in record.accepted THEN record ELSE Snapshot("pending-both", record.accepted \cup {o}))
           /\ UNCHANGED booking
  <2>1. "pending-both" \in Statuses \ {"none"} /\ record.accepted \cup {o} \in SUBSET Owner
    BY <1>1 DEF Statuses
  <2>2. CASE o \in record.accepted
    BY <1>1, <1>2, <1>5, <2>2, TellingKeeps
  <2>3. CASE o \notin record.accepted
    BY <1>1, <1>2, <1>5, <2>1, <2>3, SnapshotIsNew, TellingKeeps
  <2> QED
    BY <2>2, <2>3
<1>6. CASE /\ record' = IF o \in record.accepted THEN record ELSE Snapshot("both-accepted", record.accepted \cup {o})
           /\ booking' = booking \cup {o} /\ UNCHANGED <<wire, overtaken>>
  <2>1. "both-accepted" \in Statuses \ {"none"} /\ record.accepted \cup {o} \in SUBSET Owner
    BY <1>1 DEF Statuses
  <2>2. /\ record' \in Snapshots
        /\ record' = record \/ (record'.n = record.n + 1 /\ record'.status # "none")
    BY <1>1, <1>6, <2>1, SnapshotIsNew
  <2>3. record.n \in Nat /\ record'.n \in Nat /\ \A p \in Owner : listed[p].n \in Nat
    BY <2>2 DEF NoticeInv, NoticeTypes, Snapshots
  <2>4. NoticeTypes'
    BY <1>1, <1>2, <1>6, <2>2, <2>3 DEF NoticeInv, NoticeTypes
  <2>5. ToldTheNewest'
    BY <1>6 DEF ToldTheNewest
  <2>6. ListedIsOld'
    <3> SUFFICES ASSUME NEW p \in Owner, page[p] = "read"
                 PROVE  listed[p].n <= record'.n /\ (listed[p].n = record'.n => listed[p] = record')
      BY <1>2, <1>6 DEF ListedIsOld
    <3>1. listed[p].n <= record.n /\ (listed[p].n = record.n => listed[p] = record)
      BY DEF NoticeInv, ListedIsOld
    <3> QED
      BY <2>2, <2>3, <3>1
  <2> QED
    BY <2>4, <2>5, <2>6 DEF NoticeInv
<1> QED
  BY <1>3, <1>4, <1>5, <1>6 DEF Accept

LEMMA Committing ==
  ASSUME NoticeInv, NEW o \in Owner, Commit(o)
  PROVE  NoticeInv'
<1>1. record \in Snapshots /\ booking' \in SUBSET Owner /\ UNCHANGED <<page, listed, card>>
  BY DEF NoticeInv, NoticeTypes, Commit
<1>2. CASE record.status = "both-accepted"
  <2>1. PICK s \in {"committed", "commit-failed"} : Tell(Snapshot(s, Owner))
    BY <1>2 DEF Commit
  <2>2. s \in Statuses \ {"none"} /\ Owner \in SUBSET Owner
    BY DEF Statuses
  <2> QED
    BY <1>1, <2>1, <2>2, SnapshotIsNew, TellingKeeps
<1>3. CASE record.status # "both-accepted"
  <2>1. Tell(record)
    BY <1>3 DEF Commit
  <2> QED
    BY <1>1, <2>1, TellingKeeps
<1> QED
  BY <1>2, <1>3

LEMMA Declining ==
  ASSUME NoticeInv, NEW o \in Owner, Decline(o)
  PROVE  NoticeInv'
<1>1. record.accepted \in SUBSET Owner /\ booking' \in SUBSET Owner /\ UNCHANGED <<booking, page, listed, card>>
  BY DEF NoticeInv, NoticeTypes, Decline, Snapshots
<1>2. CASE record.status \in {"committed", "declined"}
  <2>1. UNCHANGED <<record, wire, overtaken>>
    BY <1>2 DEF Decline
  <2> QED
    BY <1>1, <2>1, NothingTold
<1>3. CASE record.status \notin {"committed", "declined"}
  <2>1. Tell(Snapshot("declined", record.accepted))
    BY <1>3 DEF Decline
  <2>2. "declined" \in Statuses \ {"none"}
    BY DEF Statuses
  <2> QED
    BY <1>1, <2>1, <2>2, SnapshotIsNew, TellingKeeps
<1> QED
  BY <1>2, <1>3

LEMMA Proposing ==
  ASSUME NoticeInv, Propose
  PROVE  NoticeInv'
<1>1. Tell(Snapshot("pending-both", {})) /\ UNCHANGED <<page, listed, card, booking>> /\ booking' \in SUBSET Owner
  BY DEF Propose, NoticeInv, NoticeTypes
<1>2. "pending-both" \in Statuses \ {"none"} /\ {} \in SUBSET Owner
  BY DEF Statuses
<1> QED
  BY <1>1, <1>2, SnapshotIsNew, TellingKeeps

-----------------------------------------------------------------------------
LEMMA Connecting ==
  ASSUME NoticeInv, NEW o \in Owner, Connect(o)
  PROVE  NoticeInv'
<1>1. /\ page \in [Owner -> {"off", "listing", "read", "live", "cut"}] /\ DOMAIN card = Owner
      /\ page' = [page EXCEPT ![o] = "listing"] /\ card' = [card EXCEPT ![o] = NoNote]
      /\ overtaken' = overtaken \ {o} /\ UNCHANGED <<record, booking, listed, wire>>
  BY DEF Connect, NoticeInv, NoticeTypes
<1>2. page'[o] = "listing" /\ \A p \in Owner \ {o} : page'[p] = page[p] /\ card'[p] = card[p]
  BY <1>1
<1>3. card'[o] = NoNote
  BY <1>1
<1>4. NoticeTypes'
  <2>1. page' \in [Owner -> {"off", "listing", "read", "live", "cut"}] /\ DOMAIN card' = Owner
    BY <1>1
  <2>2. overtaken' \in SUBSET Owner
    BY <1>1 DEF NoticeInv, NoticeTypes
  <2>3. \A p \in Owner : wire'[p] \in Seq(NoticesTo(p)) /\ (card'[p] = NoNote \/ card'[p] \in NoticesTo(p))
    BY <1>1, <1>2, <1>3 DEF NoticeInv, NoticeTypes
  <2> QED
    BY <1>1, <2>1, <2>2, <2>3 DEF NoticeInv, NoticeTypes
<1>5. ToldTheNewest'
  BY <1>1, <1>2 DEF NoticeInv, ToldTheNewest, Newest
<1>6. ListedIsOld'
  BY <1>1, <1>2 DEF NoticeInv, ListedIsOld
<1> QED
  BY <1>4, <1>5, <1>6 DEF NoticeInv

LEMMA ListReading ==
  ASSUME NoticeInv, NEW o \in Owner, ReadList(o)
  PROVE  NoticeInv'
<1>1. /\ page \in [Owner -> {"off", "listing", "read", "live", "cut"}] /\ listed \in [Owner -> Snapshots]
      /\ page' = [page EXCEPT ![o] = "read"] /\ listed' = [listed EXCEPT ![o] = record]
      /\ record \in Snapshots /\ UNCHANGED <<record, booking, wire, card, overtaken>>
  BY DEF ReadList, NoticeInv, NoticeTypes
<1>2. /\ page'[o] = "read" /\ listed'[o] = record
      /\ \A p \in Owner \ {o} : page'[p] = page[p] /\ listed'[p] = listed[p]
  BY <1>1
<1>3. record.n \in Nat
  BY <1>1 DEF Snapshots
<1>4. NoticeTypes'
  <2>1. page' \in [Owner -> {"off", "listing", "read", "live", "cut"}] /\ listed' \in [Owner -> Snapshots]
    BY <1>1
  <2> QED
    BY <1>1, <2>1 DEF NoticeInv, NoticeTypes
<1>5. ToldTheNewest'
  BY <1>1, <1>2 DEF NoticeInv, ToldTheNewest, Newest
<1>6. ListedIsOld'
  BY <1>1, <1>2, <1>3 DEF NoticeInv, ListedIsOld
<1> QED
  BY <1>4, <1>5, <1>6 DEF NoticeInv

LEMMA Replaying ==
  ASSUME NoticeInv, NEW o \in Owner, Replay(o)
  PROVE  NoticeInv'
<1>1. /\ page \in [Owner -> {"off", "listing", "read", "live", "cut"}] /\ listed \in [Owner -> Snapshots]
      /\ page[o] = "read" /\ page' = [page EXCEPT ![o] = "live"] /\ listed' = [listed EXCEPT ![o] = NoRecord]
      /\ DOMAIN wire = Owner
      /\ wire' = [wire EXCEPT ![o] = IF listed[o].n = 0 THEN wire[o] ELSE Append(wire[o], NoteFor(o, listed[o]))]
      /\ UNCHANGED <<record, booking, card, overtaken>>
  BY DEF Replay, NoticeInv, NoticeTypes
<1>2. /\ page'[o] = "live"
      /\ \A p \in Owner \ {o} : page'[p] = page[p] /\ listed'[p] = listed[p] /\ wire'[p] = wire[p]
  BY <1>1
<1>3. wire'[o] = IF listed[o].n = 0 THEN wire[o] ELSE Append(wire[o], NoteFor(o, listed[o]))
  BY <1>1
<1>4. /\ wire[o] \in Seq(NoticesTo(o)) /\ NoteFor(o, listed[o]) \in NoticesTo(o)
  BY <1>1, NoteIsOwn DEF NoticeInv, NoticeTypes
<1>5. ASSUME NEW s \in Seq(NoticesTo(o)), NEW m \in NoticesTo(o)
      PROVE  /\ Append(s, m) \in Seq(NoticesTo(o)) /\ Append(s, m) # <<>>
             /\ Append(s, m)[Len(Append(s, m))] = m
  OBVIOUS
<1>6. NoticeTypes'
  <2>1. NoRecord \in Snapshots
    BY DEF NoRecord, Snapshots, Statuses
  <2>2. page' \in [Owner -> {"off", "listing", "read", "live", "cut"}] /\ listed' \in [Owner -> Snapshots]
    BY <1>1, <2>1
  <2>3. wire'[o] \in Seq(NoticesTo(o))
    BY <1>3, <1>4, <1>5
  <2>4. \A p \in Owner : wire'[p] \in Seq(NoticesTo(p)) /\ (card'[p] = NoNote \/ card'[p] \in NoticesTo(p))
    BY <1>1, <1>2, <2>3 DEF NoticeInv, NoticeTypes
  <2>5. DOMAIN wire' = Owner
    BY <1>1
  <2> QED
    BY <1>1, <2>2, <2>4, <2>5 DEF NoticeInv, NoticeTypes
<1>7. ToldTheNewest'
  <2> SUFFICES ASSUME NEW p \in Owner, page'[p] = "live", booking = {}, p \notin overtaken, record.n > 0
               PROVE  Newest(p)' = NoteFor(p, record)
    BY <1>1 DEF ToldTheNewest, NoteFor
  <2>1. CASE p # o
    BY <1>1, <1>2, <2>1 DEF NoticeInv, ToldTheNewest, Newest
  <2>2. CASE p = o
    <3>1. listed[o].n = record.n /\ listed[o] = record
      BY <1>1, <2>2 DEF NoticeInv, ListedIsOld
    <3>2. record.n # 0
      OBVIOUS
    <3>3. wire'[o] = Append(wire[o], NoteFor(o, record))
      BY <1>3, <3>1, <3>2
    <3>4. NoteFor(o, record) \in NoticesTo(o)
      BY <1>4, <3>1
    <3> QED
      BY <1>4, <1>5, <2>2, <3>3, <3>4 DEF Newest
  <2> QED
    BY <2>1, <2>2
<1>8. ListedIsOld'
  BY <1>1, <1>2 DEF NoticeInv, ListedIsOld
<1> QED
  BY <1>6, <1>7, <1>8 DEF NoticeInv

LEMMA Receiving ==
  ASSUME NoticeInv, NEW o \in Owner, Receive(o)
  PROVE  NoticeInv'
<1>1. /\ DOMAIN wire = Owner /\ DOMAIN card = Owner /\ wire[o] # <<>> /\ wire[o] \in Seq(NoticesTo(o))
      /\ card' = [card EXCEPT ![o] = Head(wire[o])] /\ wire' = [wire EXCEPT ![o] = Tail(wire[o])]
      /\ UNCHANGED <<record, booking, page, listed, overtaken>>
  BY DEF Receive, NoticeInv, NoticeTypes
<1>2. /\ card'[o] = Head(wire[o]) /\ wire'[o] = Tail(wire[o])
      /\ \A p \in Owner \ {o} : card'[p] = card[p] /\ wire'[p] = wire[p]
  BY <1>1
<1>3. ASSUME NEW s \in Seq(NoticesTo(o)), s # <<>>
      PROVE  /\ Head(s) \in NoticesTo(o) /\ Tail(s) \in Seq(NoticesTo(o))
             /\ IF Tail(s) = <<>> THEN Head(s) = s[Len(s)] ELSE Tail(s)[Len(Tail(s))] = s[Len(s)]
  BY <1>3
<1>4. /\ Head(wire[o]) \in NoticesTo(o) /\ Tail(wire[o]) \in Seq(NoticesTo(o))
      /\ Newest(o)' = Newest(o)
  BY <1>1, <1>2, <1>3 DEF Newest
<1>5. NoticeTypes'
  <2>1. \A p \in Owner : wire'[p] \in Seq(NoticesTo(p)) /\ (card'[p] = NoNote \/ card'[p] \in NoticesTo(p))
    BY <1>2, <1>4 DEF NoticeInv, NoticeTypes
  <2>2. DOMAIN wire' = Owner /\ DOMAIN card' = Owner
    BY <1>1
  <2> QED
    BY <1>1, <2>1, <2>2 DEF NoticeInv, NoticeTypes
<1>6. \A p \in Owner : Newest(p)' = Newest(p)
  BY <1>2, <1>4 DEF Newest
<1>7. ToldTheNewest'
  BY <1>1, <1>6 DEF NoticeInv, ToldTheNewest, NoteFor
<1>8. ListedIsOld'
  BY <1>1 DEF NoticeInv, ListedIsOld
<1> QED
  BY <1>5, <1>7, <1>8 DEF NoticeInv

LEMMA Cutting ==
  ASSUME NoticeInv, NEW o \in Owner, Cut(o)
  PROVE  NoticeInv'
<1>1. /\ page \in [Owner -> {"off", "listing", "read", "live", "cut"}] /\ listed \in [Owner -> Snapshots]
      /\ page' = [page EXCEPT ![o] = "cut"] /\ listed' = [listed EXCEPT ![o] = NoRecord]
      /\ DOMAIN wire = Owner /\ wire' = [wire EXCEPT ![o] = <<>>]
      /\ UNCHANGED <<record, booking, card, overtaken>>
  BY DEF Cut, NoticeInv, NoticeTypes
<1>2. /\ page'[o] = "cut" /\ wire'[o] = <<>>
      /\ \A p \in Owner \ {o} : page'[p] = page[p] /\ listed'[p] = listed[p] /\ wire'[p] = wire[p]
  BY <1>1
<1>3. NoticeTypes'
  <2>1. NoRecord \in Snapshots
    BY DEF NoRecord, Snapshots, Statuses
  <2>2. page' \in [Owner -> {"off", "listing", "read", "live", "cut"}] /\ listed' \in [Owner -> Snapshots]
    BY <1>1, <2>1
  <2>3. wire'[o] \in Seq(NoticesTo(o))
    BY <1>2
  <2>4. \A p \in Owner : wire'[p] \in Seq(NoticesTo(p)) /\ (card'[p] = NoNote \/ card'[p] \in NoticesTo(p))
    BY <1>1, <1>2, <2>3 DEF NoticeInv, NoticeTypes
  <2>5. DOMAIN wire' = Owner
    BY <1>1
  <2> QED
    BY <1>1, <2>2, <2>4, <2>5 DEF NoticeInv, NoticeTypes
<1>4. ToldTheNewest' /\ ListedIsOld'
  BY <1>1, <1>2 DEF NoticeInv, ToldTheNewest, Newest, ListedIsOld
<1> QED
  BY <1>3, <1>4 DEF NoticeInv

-----------------------------------------------------------------------------
LEMMA NoticeStep == NoticeInv /\ [NoticeNext]_noticeVars => NoticeInv'
<1> SUFFICES ASSUME NoticeInv, [NoticeNext]_noticeVars PROVE NoticeInv'
  OBVIOUS
<1>1. CASE UNCHANGED noticeVars
  BY <1>1, NothingTold DEF noticeVars
<1>2. ASSUME NEW o \in Owner, NEW d \in Decision, Click(o, d) PROVE NoticeInv'
  BY <1>2, NothingTold DEF Click
<1>3. ASSUME NEW o \in Owner, Respond(o) \/ Connect(o) \/ ReadList(o) \/ Replay(o) \/ Receive(o) \/ Cut(o)
      PROVE  NoticeInv'
  BY <1>3, Accepting, Committing, Declining, Connecting, ListReading, Replaying, Receiving, Cutting DEF Respond
<1> QED
  BY <1>1, <1>2, <1>3, Proposing DEF NoticeNext

\* Each owner's panel comes to show the request as it is, and never with the
\* other owner's token.
THEOREM PanelsCatchUp == NoticeInit /\ [][NoticeNext]_noticeVars => []PanelCatchesUp
<1>1. NoticeInv => PanelCatchesUp
  <2> SUFFICES ASSUME NoticeInv PROVE PanelCatchesUp
    OBVIOUS
  <2>1. ShowsTheNewest
    BY DEF NoticeInv, ToldTheNewest, Newest, ShowsTheNewest
  <2>2. \A o \in Owner : \A i \in 1 .. Len(wire[o]) : wire[o][i] \in NoticesTo(o)
    BY DEF NoticeInv, NoticeTypes
  <2>3. \A o \in Owner : \A m \in NoticesTo(o) : m.to = o
    BY DEF NoticesTo
  <2>4. \A o \in Owner : card[o] = NoNote \/ card[o] \in NoticesTo(o)
    BY DEF NoticeInv, NoticeTypes
  <2>5. TokenIsOwn
    BY ONLY <2>2, <2>3, <2>4 DEF TokenIsOwn
  <2> QED
    BY <2>1, <2>5 DEF PanelCatchesUp
<1> QED
  BY <1>1, NoticeStarts, NoticeStep, PTL

-----------------------------------------------------------------------------
\* The runs of the chat.
ActionStages == {"new", "act", "over"}

RunTypes ==
  /\ st \in [Runs -> Stage]
  /\ \A t \in Turns : st[t] # "act"
  /\ \A a \in Actions : st[a] \in ActionStages /\ (st[a] = "act" => on[a] \in Turns)
  /\ DOMAIN on = Actions /\ home \in [Turns -> Nat]
  /\ current \in Nat /\ opened \in Nat /\ kept \in SUBSET Nat
  /\ handle \in Runs \cup {None} /\ shown \in Turns \cup {None}
  /\ busy \in BOOLEAN /\ crossed \in BOOLEAN
  /\ aborted \in SUBSET Runs /\ spinner \in SUBSET Turns /\ remedies \in SUBSET Turns
  /\ DOMAIN stoppedIn = Runs

\* The chat is busy exactly while a run works, and one does.
OneWorks ==
  /\ \A r \in Runs : st[r] \in Working => busy
  /\ \A q, r \in Runs : st[q] \in Working /\ st[r] \in Working => q = r
  /\ busy => \E r \in Runs : st[r] \in Working

\* What Stop would cancel is under way, in a stage that can be cancelled.
HandleIsLive == handle # None => Active(handle) /\ st[handle] # "classify"

\* Until a run was stopped or a remedy clicked during a stream, at most one run is
\* under way, and it is the one shown.
OneShown ==
  ~crossed =>
    /\ \A r \in Runs : Active(r) => Message(r) = shown
    /\ \A q, r \in Runs : Active(q) /\ Active(r) => q = r

\* The stages in which a run that was stopped has not noticed it yet, and ends with it.
Ending == {"transcribe", "selected", "describe", "skill", "assistant"}
StoppedIsAborted ==
  \A r \in Runs :
    stoppedIn[r] \notin GoesOn \cup {None} =>
      st[r] = "over" \/ (st[r] = stoppedIn[r] /\ r \in aborted /\ st[r] \in Ending)

ChatInv ==
  /\ RunTypes /\ OneWorks /\ HandleIsLive /\ ShownIsHere /\ OneShown /\ TypedIsSent
  /\ StoppedIsAborted /\ SpinnersEnd

-----------------------------------------------------------------------------
LEMMA ChatStarts == ChatInit => ChatInv
<1> SUFFICES ASSUME ChatInit PROVE ChatInv
  OBVIOUS
<1>1. RunTypes
  BY RunsAssumption DEF ChatInit, RunTypes, ActionStages, Stage, Runs
<1>2. \A r \in Runs : st[r] = "new" /\ stoppedIn[r] = None
  BY DEF ChatInit
<1>3. \A r \in Runs : st[r] \notin Working /\ ~Active(r) /\ st[r] # "lost"
  BY <1>2 DEF Working, Active
<1>4. OneWorks /\ OneShown
  BY <1>3 DEF ChatInit, OneWorks, OneShown
<1>5. HandleIsLive /\ ShownIsHere /\ SpinnersEnd
  BY DEF ChatInit, HandleIsLive, ShownIsHere, SpinnersEnd
<1>6. TypedIsSent
  BY <1>3 DEF TypedIsSent, Runs
<1>7. StoppedIsAborted
  BY <1>2 DEF StoppedIsAborted
<1> QED
  BY <1>1, <1>4, <1>5, <1>6, <1>7 DEF ChatInv

\* The first of seven that holds, from any of them on.
LEMMA FirstOfSeven ==
  ASSUME NEW P, NEW i \in 1 .. 7, 7 \in P
  PROVE  \E k \in i .. 7 : k \in P /\ \A j \in i .. k - 1 : j \notin P
<1> SUFFICES ASSUME \A k \in i .. 7 : k \in P => \E j \in i .. k - 1 : j \in P PROVE FALSE
  OBVIOUS
<1>1. 7 \in i .. 7
  OBVIOUS
<1>2. \A k \in i .. 7 : k \in P => \E j \in i .. 7 : j < k /\ j \in P
  OBVIOUS
<1>3. \E j \in i .. 7 : j <= 6 /\ j \in P
  BY <1>1, <1>2
<1>4. \E j \in i .. 7 : j <= 5 /\ j \in P
  BY <1>2, <1>3
<1>5. \E j \in i .. 7 : j <= 4 /\ j \in P
  BY <1>2, <1>4
<1>6. \E j \in i .. 7 : j <= 3 /\ j \in P
  BY <1>2, <1>5
<1>7. \E j \in i .. 7 : j <= 2 /\ j \in P
  BY <1>2, <1>6
<1>8. \E j \in i .. 7 : j <= 1 /\ j \in P
  BY <1>2, <1>7
<1>9. \E j \in i .. 7 : j <= 0 /\ j \in P
  BY <1>2, <1>8
<1> QED
  BY <1>9

Stages == {"transcribe", "selected", "describe", "skill", "generate", "classify", "assistant"}

LEMMA OrderIsStages ==
  /\ Len(Order) = 7 /\ \A k \in 1 .. 7 : Order[k] \in Stages
  /\ Order[7] = "assistant" /\ \A s \in Stages : \E k \in 1 .. 7 : Order[k] = s
<1>1. /\ Len(Order) = 7 /\ Order[1] = "transcribe" /\ Order[2] = "selected" /\ Order[3] = "describe"
      /\ Order[4] = "skill" /\ Order[5] = "generate" /\ Order[6] = "classify" /\ Order[7] = "assistant"
  BY DEF Order
<1>2. \A k \in 1 .. 7 : k = 1 \/ k = 2 \/ k = 3 \/ k = 4 \/ k = 5 \/ k = 6 \/ k = 7
  OBVIOUS
<1>3. \A k \in 1 .. 7 : Order[k] \in Stages
  BY <1>1, <1>2 DEF Stages
<1>4. ASSUME NEW s \in Stages PROVE \E k \in 1 .. 7 : Order[k] = s
  <2>1. \/ s = Order[1] \/ s = Order[2] \/ s = Order[3] \/ s = Order[4] \/ s = Order[5] \/ s = Order[6]
        \/ s = Order[7]
    BY <1>1 DEF Stages
  <2> QED
    BY <2>1
<1> QED
  BY <1>1, <1>3, <1>4

\* A message always has a stage to begin with, and after every stage but the last.
LEMMA FirstIsStage ==
  ASSUME NEW i \in 1 .. 7, NEW w
  PROVE  FirstFrom(i, w) \in Stages
<1> DEFINE P == {k \in 1 .. 7 : Applies(Order[k], w)}
<1>1. 7 \in P
  BY OrderIsStages DEF Applies
<1>2. \E k \in i .. 7 : k \in P /\ \A j \in i .. k - 1 : j \notin P
  <2> HIDE DEF P
  <2> QED
    BY <1>1, FirstOfSeven
<1>3. \E k \in i .. 7 : Applies(Order[k], w) /\ \A j \in i .. k - 1 : ~Applies(Order[j], w)
  <2>1. PICK k \in i .. 7 : k \in P /\ \A j \in i .. k - 1 : j \notin P
    BY <1>2
  <2>2. \A j \in i .. k - 1 : j \in 1 .. 7
    BY <2>1
  <2> QED
    BY <2>1, <2>2
<1> DEFINE first == CHOOSE k \in i .. 7 : Applies(Order[k], w) /\ \A j \in i .. k - 1 : ~Applies(Order[j], w)
<1>4. first \in i .. 7
  BY <1>3
<1>5. FirstFrom(i, w) = Order[first]
  BY OrderIsStages DEF FirstFrom
<1> HIDE DEF first
<1>6. first \in 1 .. 7
  BY <1>4
<1> QED
  BY <1>5, <1>6, OrderIsStages

LEMMA FollowingIsStage ==
  ASSUME NEW s \in Stages, s # "assistant", NEW w
  PROVE  Following(s, w) \in Stages
<1> DEFINE k == CHOOSE k \in 1 .. 7 : Order[k] = s
<1>1. k \in 1 .. 7 /\ Order[k] = s
  BY OrderIsStages
<1>2. Following(s, w) = FirstFrom(1 + k, w)
  BY OrderIsStages DEF Following
<1> HIDE DEF k
<1>3. k # 7
  BY <1>1, OrderIsStages
<1>4. 1 + k \in 1 .. 7
  BY <1>1, <1>3
<1> QED
  BY <1>2, <1>4, FirstIsStage

-----------------------------------------------------------------------------
\* Only a message passes stages, and an action acts.
LEMMA ActiveRuns ==
  ASSUME ChatInv, NEW r \in Runs, Active(r)
  PROVE  /\ r \in Actions => st[r] = "act" /\ Message(r) = on[r]
         /\ r \in Turns => st[r] # "act" /\ Message(r) = r
         /\ Message(r) \in Turns
<1>1. CASE r \in Actions
  <2>1. r \notin Turns /\ st[r] \in ActionStages /\ (st[r] = "act" => on[r] \in Turns)
    BY <1>1, RunsAssumption DEF ChatInv, RunTypes
  <2>2. st[r] = "act"
    BY <2>1 DEF Active, Working, ActionStages
  <2> QED
    BY <1>1, <2>1, <2>2 DEF Message
<1>2. CASE r \in Turns
  BY <1>2, RunsAssumption DEF ChatInv, RunTypes, Message
<1> QED
  BY <1>1, <1>2 DEF Runs

LEMMA EnterKeeps ==
  ASSUME ChatInv, NEW t \in Turns, st[t] \in Working, NEW s \in Stages \cup {"specialist", "gateway"},
         stoppedIn[t] \in GoesOn \cup {None}, Enter(t, s)
  PROVE  ChatInv'
<1>1. /\ st' = [st EXCEPT ![t] = s] /\ handle' = HandleIn(t, s) /\ busy' = (s # "gateway")
      /\ aborted' = aborted \ {t} /\ spinner' = IF s = "classify" THEN spinner ELSE Spins(t)
      /\ UNCHANGED <<wish, shown, remedies, on, selected, current, home, kept, opened, stoppedIn, unseen, crossed>>
  BY DEF Enter, session, history
<1>2. st \in [Runs -> Stage] /\ t \in Runs /\ t \notin Actions
  BY RunsAssumption DEF ChatInv, RunTypes, Runs
<1>3. s \in Stage /\ s # "act" /\ s # "lost" /\ s # "over" /\ s # "new" /\ (s \in Working <=> s # "gateway")
  BY DEF Stages, Stage, Working
<1>4. st' \in [Runs -> Stage] /\ st'[t] = s /\ \A r \in Runs \ {t} : st'[r] = st[r]
  BY <1>1, <1>2, <1>3
<1>5. handle' \in {t, None} /\ (s = "classify" => handle' = None)
  BY <1>1 DEF HandleIn
<1>6. spinner' \subseteq spinner \cup {t}
  BY <1>1 DEF Spins
<1>7. RunTypes'
  <2>1. \A q \in Turns : st'[q] # "act"
    BY <1>2, <1>3, <1>4 DEF ChatInv, RunTypes, Runs
  <2>2. \A a \in Actions : st'[a] = st[a] /\ on' = on
    BY <1>1, <1>2, <1>4 DEF Runs
  <2>3. \A a \in Actions : st'[a] \in ActionStages /\ (st'[a] = "act" => on'[a] \in Turns)
    BY <2>2 DEF ChatInv, RunTypes
  <2>4. busy' \in BOOLEAN
    BY <1>1
  <2>5. handle' \in Runs \cup {None} /\ aborted' \in SUBSET Runs /\ spinner' \in SUBSET Turns
    BY <1>1, <1>2, <1>5, <1>6 DEF ChatInv, RunTypes
  <2> QED
    BY <1>1, <1>4, <2>1, <2>3, <2>4, <2>5 DEF ChatInv, RunTypes
<1>8. \A r \in Runs : st[r] \in Working => r = t
  BY <1>2 DEF ChatInv, OneWorks
<1>9. OneWorks'
  <2>1. \A r \in Runs : st'[r] \in Working => r = t /\ s # "gateway"
    BY <1>3, <1>4, <1>8
  <2>2. s # "gateway" => st'[t] \in Working
    BY <1>3, <1>4
  <2> QED
    BY <1>1, <1>2, <2>1, <2>2 DEF OneWorks
<1>10. \A r \in Runs : Active(r)' <=> Active(r)
  BY <1>3, <1>4 DEF Active
<1>11. \A r \in Runs : Message(r)' = Message(r)
  BY <1>1 DEF Message
<1>12. HandleIsLive'
  BY <1>2, <1>3, <1>4, <1>5 DEF HandleIsLive, Active
<1>13. ShownIsHere'
  BY <1>1, <1>10, <1>11 DEF ChatInv, ShownIsHere
<1>14. OneShown'
  BY <1>1, <1>10, <1>11 DEF ChatInv, OneShown
<1>15. TypedIsSent'
  BY <1>1, <1>3, <1>4 DEF ChatInv, TypedIsSent, Runs
<1>16. StoppedIsAborted'
  BY <1>1, <1>4 DEF ChatInv, StoppedIsAborted
<1>17. SpinnersEnd'
  <2>1. Active(t) /\ Message(t) = t
    BY DEF Active, Message
  <2> QED
    BY <1>1, <1>2, <1>6, <1>10, <1>11, <2>1 DEF ChatInv, SpinnersEnd
<1> QED
  BY <1>7, <1>9, <1>12, <1>13, <1>14, <1>15, <1>16, <1>17 DEF ChatInv

LEMMA OverKeeps ==
  ASSUME ChatInv, NEW r \in Runs, Active(r), Over(r), remedies' \in SUBSET Turns
  PROVE  ChatInv'
<1>1. /\ st' = [st EXCEPT ![r] = "over"] /\ handle' = None /\ shown' = None
      /\ busy' = IF st[r] = "gateway" THEN busy ELSE FALSE
      /\ aborted' = aborted \ {r} /\ spinner' = spinner \ {Message(r)}
      /\ UNCHANGED <<wish, on, selected, current, home, kept, opened, stoppedIn, unseen, crossed>>
  BY DEF Over, Ends, session, history
<1>2. st \in [Runs -> Stage] /\ "over" \in Stage
  BY DEF ChatInv, RunTypes, Stage
<1>3. st' \in [Runs -> Stage] /\ st'[r] = "over" /\ \A q \in Runs \ {r} : st'[q] = st[q]
  BY <1>1, <1>2
<1>4. "over" \in ActionStages /\ "over" \notin Working /\ "over" # "act" /\ "over" # "lost" /\ "over" # "gateway"
      /\ "gateway" \notin Working
  BY DEF ActionStages, Working
<1>5. RunTypes'
  <2>1. \A q \in Turns : st'[q] # "act"
    BY <1>3, <1>4 DEF ChatInv, RunTypes, Runs
  <2>2. \A a \in Actions : st'[a] \in ActionStages /\ (st'[a] = "act" => on'[a] \in Turns)
    BY <1>1, <1>3, <1>4 DEF ChatInv, RunTypes, Runs
  <2>3. busy' \in BOOLEAN /\ aborted' \in SUBSET Runs /\ spinner' \in SUBSET Turns
    BY <1>1 DEF ChatInv, RunTypes
  <2> QED
    BY <1>1, <1>3, <2>1, <2>2, <2>3 DEF ChatInv, RunTypes
<1>6. \A q \in Runs : Active(q)' <=> Active(q) /\ q # r
  BY <1>3, <1>4 DEF Active
<1>7. \A q \in Runs : Message(q)' = Message(q)
  BY <1>1 DEF Message
<1>8. OneWorks'
  <2>1. \A q \in Runs : st'[q] \in Working => st[q] \in Working /\ q # r
    BY <1>3, <1>4
  <2>2. CASE st[r] = "gateway"
    <3>1. busy' = busy
      BY <1>1, <2>2
    <3>2. \A q \in Runs : st[q] \in Working => st'[q] \in Working
      BY <1>3, <1>4, <2>2
    <3> QED
      BY <2>1, <3>1, <3>2 DEF ChatInv, OneWorks
  <2>3. CASE st[r] # "gateway"
    <3>1. st[r] \in Working
      BY <2>3 DEF Active
    <3>2. \A q \in Runs : st'[q] \notin Working
      BY <2>1, <3>1 DEF ChatInv, OneWorks
    <3>3. busy' = FALSE
      BY <1>1, <2>3
    <3> QED
      BY <3>2, <3>3 DEF OneWorks
  <2> QED
    BY <2>2, <2>3
<1>9. HandleIsLive' /\ ShownIsHere'
  BY <1>1 DEF HandleIsLive, ShownIsHere
<1>10. OneShown'
  <2>1. ~crossed => \A q \in Runs : Active(q) => q = r
    BY DEF ChatInv, OneShown
  <2> QED
    BY <1>1, <1>6, <2>1 DEF OneShown
<1>11. TypedIsSent'
  BY <1>1, <1>3, <1>4 DEF ChatInv, TypedIsSent, Runs
<1>12. StoppedIsAborted'
  BY <1>1, <1>3 DEF ChatInv, StoppedIsAborted
<1>13. SpinnersEnd'
  <2> SUFFICES ASSUME NEW t \in spinner, t # Message(r)
               PROVE  t \in unseen \/ \E q \in Runs : Active(q)' /\ Message(q)' = t
    BY <1>1 DEF SpinnersEnd
  <2>1. t \in unseen \/ \E q \in Runs : Active(q) /\ Message(q) = t
    BY DEF ChatInv, SpinnersEnd
  <2> QED
    BY <1>6, <1>7, <2>1
<1> QED
  BY <1>5, <1>8, <1>9, <1>10, <1>11, <1>12, <1>13 DEF ChatInv

-----------------------------------------------------------------------------
LEMMA EndKeeps ==
  ASSUME ChatInv, NEW r \in Runs, Active(r), End(r)
  PROVE  ChatInv'
BY OverKeeps DEF End, ChatInv, RunTypes

\* A stage goes on to the next unless its run was stopped in it.
LEMMA StageSteps ==
  ASSUME ChatInv, NEW t \in Turns,
         \/ Transcribe(t) \/ AskSelected(t) \/ DescribeImages(t) \/ CreateSkillFile(t) \/ Generate(t)
         \/ Classify(t) \/ RunAssistant(t) \/ AskSpecialist(t) \/ StreamEnds(t)
  PROVE  ChatInv'
<1>1. /\ st[t] \in {"transcribe", "selected", "describe", "skill", "generate", "classify", "assistant",
                    "specialist", "gateway"}
      /\ t \in Runs
  BY DEF Transcribe, AskSelected, DescribeImages, CreateSkillFile, Generate, Classify, RunAssistant,
         AskSpecialist, StreamEnds, Runs
<1>2. Active(t) /\ (st[t] # "gateway" => st[t] \in Working)
  BY <1>1 DEF Active, Working
<1>3. t \notin aborted \/ st[t] \in {"generate", "classify", "specialist"}
        => stoppedIn[t] \in GoesOn \cup {None}
  BY <1>1 DEF ChatInv, StoppedIsAborted, Ending
<1>4. CASE End(t)
  BY <1>1, <1>2, <1>4, EndKeeps
<1>5. CASE st[t] \in {"transcribe", "describe"} /\ Proceed(t) /\ "answer" \in Outcomes(t)
  <2>1. t \notin aborted
    BY <1>5 DEF Outcomes
  <2>2. st[t] \in Stages /\ st[t] # "assistant"
    BY <1>5 DEF Stages
  <2>3. Following(st[t], wish[t]) \in Stages
    BY ONLY <2>2, FollowingIsStage
  <2>4. Enter(t, Following(st[t], wish[t])) /\ st[t] \in Working
    BY <1>5 DEF Proceed, Working
  <2> QED
    BY <1>3, <2>1, <2>3, <2>4, EnterKeeps
<1>6. CASE st[t] \in {"generate", "classify", "specialist"}
           /\ (Enter(t, "gateway") \/ Enter(t, "assistant") \/ Enter(t, "specialist"))
  <2>1. PICK s \in {"gateway", "assistant", "specialist"} : Enter(t, s)
    BY <1>6
  <2>2. s \in Stages \cup {"specialist", "gateway"}
    BY <2>1 DEF Stages
  <2>3. st[t] \in Working /\ stoppedIn[t] \in GoesOn \cup {None}
    BY <1>3, <1>6 DEF Working
  <2> QED
    BY <2>1, <2>2, <2>3, EnterKeeps
<1>7. CASE RunAssistant(t)
  <2>1. Over(t) /\ remedies' \in SUBSET Turns
    BY <1>7 DEF RunAssistant, ChatInv, RunTypes
  <2> QED
    BY <1>1, <1>2, <2>1, OverKeeps
<1>8. Transcribe(t) => End(t) \/ (st[t] = "transcribe" /\ Proceed(t) /\ "answer" \in Outcomes(t))
  BY DEF Transcribe
<1>9. DescribeImages(t) => End(t) \/ (st[t] = "describe" /\ Proceed(t) /\ "answer" \in Outcomes(t))
  BY DEF DescribeImages
<1>10. Generate(t) => End(t) \/ (st[t] = "generate" /\ Enter(t, "gateway"))
  BY DEF Generate
<1>11. Classify(t) => st[t] = "classify" /\ (Enter(t, "gateway") \/ Enter(t, "assistant") \/ Enter(t, "specialist"))
  BY DEF Classify
<1>12. AskSpecialist(t) => End(t) \/ (st[t] = "specialist" /\ Enter(t, "gateway"))
  BY DEF AskSpecialist
<1>13. AskSelected(t) \/ CreateSkillFile(t) \/ StreamEnds(t) => End(t)
  BY DEF AskSelected, CreateSkillFile, StreamEnds
<1> QED
  BY <1>4, <1>5, <1>6, <1>7, <1>8, <1>9, <1>10, <1>11, <1>12, <1>13

-----------------------------------------------------------------------------
\* A run that begins when no run works.
LEMMA Submitting ==
  ASSUME ChatInv, NEW t \in Turns, NEW w, Submit(t, w)
  PROVE  ChatInv'
<1>1. /\ st[t] = "new" /\ shown = None /\ home' = [home EXCEPT ![t] = current]
      /\ UNCHANGED <<aborted, remedies, on, current, opened, stoppedIn, unseen, crossed>>
  BY DEF Submit, history
<1>2. /\ st \in [Runs -> Stage] /\ t \in Runs /\ t \notin Actions /\ home \in [Turns -> Nat] /\ current \in Nat
      /\ st[t] \notin Working /\ ~Active(t)
  BY <1>1, RunsAssumption DEF ChatInv, RunTypes, Runs, Active, Working
<1>3. home' \in [Turns -> Nat] /\ home'[t] = current /\ \A q \in Turns \ {t} : home'[q] = home[q]
  BY <1>1, <1>2
<1>4. \A q \in Runs : Message(q)' = Message(q)
  BY <1>1 DEF Message
<1>5. Message(t) = t
  BY DEF Message
<1>6. CASE handle # None \/ busy
  <2>1. st' = [st EXCEPT ![t] = "lost"] /\ UNCHANGED <<busy, handle, shown, spinner, kept>>
    BY <1>6 DEF Submit
  <2>2. "lost" \in Stage /\ "lost" \notin Working /\ "lost" # "act" /\ "lost" # "gateway" /\ "lost" # "over"
    BY DEF Stage, Working
  <2>3. st' \in [Runs -> Stage] /\ st'[t] = "lost" /\ \A r \in Runs \ {t} : st'[r] = st[r]
    BY <1>2, <2>1, <2>2
  <2>4. \A r \in Runs : (st'[r] \in Working <=> st[r] \in Working) /\ (Active(r)' <=> Active(r))
    BY <1>2, <2>2, <2>3 DEF Active
  <2>5. crossed
    <3>1. \E r \in Runs : Active(r)
      BY <1>6 DEF ChatInv, RunTypes, OneWorks, HandleIsLive, Active
    <3>2. \A r \in Runs : Active(r) => Message(r) \in Turns
      BY ActiveRuns
    <3> QED
      BY <1>1, <3>1, <3>2, RunsAssumption DEF ChatInv, OneShown, Runs
  <2>6. RunTypes'
    <3>1. \A q \in Turns : st'[q] # "act"
      BY <1>2, <2>2, <2>3 DEF ChatInv, RunTypes, Runs
    <3>2. \A a \in Actions : st'[a] = st[a]
      BY <1>2, <2>3 DEF Runs
    <3> QED
      BY <1>1, <1>3, <2>1, <2>3, <3>1, <3>2 DEF ChatInv, RunTypes
  <2>7. OneWorks'
    BY <2>1, <2>4 DEF ChatInv, OneWorks
  <2>8. HandleIsLive'
    <3>1. handle # None => handle # t /\ handle \in Runs
      BY <1>2 DEF ChatInv, HandleIsLive, RunTypes
    <3> QED
      BY <2>1, <2>3, <2>4, <3>1 DEF ChatInv, HandleIsLive
  <2>9. ShownIsHere' /\ TypedIsSent' /\ OneShown'
    BY <1>1, <2>1, <2>5 DEF ShownIsHere, TypedIsSent, OneShown
  <2>10. StoppedIsAborted'
    BY <1>1, <1>2, <2>3 DEF ChatInv, StoppedIsAborted, Ending
  <2>11. SpinnersEnd'
    BY <1>1, <1>4, <2>1, <2>4 DEF ChatInv, SpinnersEnd
  <2> QED
    BY <2>6, <2>7, <2>8, <2>9, <2>10, <2>11 DEF ChatInv
<1>7. CASE handle = None /\ ~busy
  <2>1. PICK s \in Stages :
          /\ st' = [st EXCEPT ![t] = s] /\ busy' = TRUE /\ handle' = HandleIn(t, s) /\ shown' = t
          /\ kept' = kept \cup {current}
          /\ spinner' = IF s = "classify" THEN spinner ELSE spinner \cup {t}
    <3>1. FirstFrom(1, wish'[t]) \in Stages
      BY FirstIsStage
    <3>2. /\ st' = [st EXCEPT ![t] = FirstFrom(1, wish'[t])] /\ busy' = TRUE
          /\ handle' = HandleIn(t, FirstFrom(1, wish'[t])) /\ shown' = t /\ kept' = kept \cup {current}
          /\ spinner' = IF FirstFrom(1, wish'[t]) = "classify" THEN spinner ELSE spinner \cup {t}
      BY <1>7 DEF Submit
    <3> QED
      BY ONLY <3>1, <3>2
  <2>2. s \in Stage /\ s \in Working /\ s # "act" /\ s # "lost" /\ s # "over"
    BY DEF Stages, Stage, Working
  <2>3. st' \in [Runs -> Stage] /\ st'[t] = s /\ \A r \in Runs \ {t} : st'[r] = st[r]
    BY <1>2, <2>1, <2>2
  <2>4. \A r \in Runs : st[r] \notin Working
    BY <1>7 DEF ChatInv, OneWorks
  <2>5. Active(t)' /\ \A r \in Runs \ {t} : Active(r)' <=> Active(r)
    BY <1>2, <2>2, <2>3 DEF Active
  <2>6. handle' \in {t, None} /\ (s = "classify" => handle' = None)
    BY <2>1 DEF HandleIn
  <2>7. RunTypes'
    <3>1. \A q \in Turns : st'[q] # "act"
      BY <1>2, <2>2, <2>3 DEF ChatInv, RunTypes, Runs
    <3>2. \A a \in Actions : st'[a] = st[a]
      BY <1>2, <2>3 DEF Runs
    <3>3. spinner' \in SUBSET Turns /\ kept' \in SUBSET Nat /\ handle' \in Runs \cup {None}
      BY <1>2, <2>1, <2>6 DEF ChatInv, RunTypes
    <3> QED
      BY <1>1, <1>3, <2>1, <2>3, <3>1, <3>2, <3>3 DEF ChatInv, RunTypes
  <2>8. OneWorks'
    <3>1. \A r \in Runs : st'[r] \in Working => r = t
      BY <2>3, <2>4
    <3> QED
      BY <1>2, <2>1, <2>2, <2>3, <3>1 DEF OneWorks
  <2>9. HandleIsLive'
    BY <1>2, <2>3, <2>5, <2>6 DEF HandleIsLive
  <2>10. ShownIsHere'
    BY <1>1, <1>2, <1>3, <1>4, <1>5, <2>1, <2>5 DEF ShownIsHere
  <2>11. OneShown'
    <3>1. ~crossed => \A r \in Runs : ~Active(r)
      BY <1>1, ActiveRuns, RunsAssumption DEF ChatInv, OneShown, Runs
    <3> QED
      BY <1>1, <1>4, <1>5, <2>1, <2>5, <3>1 DEF OneShown
  <2>12. TypedIsSent'
    BY <1>1, <2>2, <2>3 DEF ChatInv, TypedIsSent, Runs
  <2>13. StoppedIsAborted'
    BY <1>1, <1>2, <2>3 DEF ChatInv, StoppedIsAborted, Ending
  <2>14. SpinnersEnd'
    <3>1. \A q \in spinner : q \in unseen \/ \E r \in Runs : Active(r) /\ Message(r) = q
      BY DEF ChatInv, SpinnersEnd
    <3>2. \A r \in Runs : Active(r) => Active(r)'
      BY <1>2, <2>5
    <3>3. \A q \in spinner' : q \in spinner \/ q = t
      BY <2>1
    <3> QED
      BY <1>1, <1>2, <1>4, <1>5, <2>5, <3>1, <3>2, <3>3 DEF SpinnersEnd
  <2> QED
    BY <2>7, <2>8, <2>9, <2>10, <2>11, <2>12, <2>13, <2>14 DEF ChatInv
<1> QED
  BY <1>6, <1>7

LEMMA Beginning ==
  ASSUME ChatInv, NEW a \in Actions, NEW t \in Turns, Begin(a, t)
  PROVE  ChatInv'
<1>1. /\ st[a] = "new" /\ ~busy /\ home[t] = current
      /\ st' = [st EXCEPT ![a] = "act"] /\ on' = [on EXCEPT ![a] = t]
      /\ busy' = TRUE /\ handle' = a /\ shown' = t /\ spinner' = spinner \cup {t}
      /\ crossed' = (crossed \/ \E r \in Runs : st[r] = "gateway")
      /\ UNCHANGED <<aborted, remedies, selected, current, home, kept, opened, stoppedIn, unseen>>
  BY DEF Begin, session
<1>2. /\ st \in [Runs -> Stage] /\ a \in Runs /\ a \notin Turns /\ st[a] \notin Working /\ ~Active(a)
      /\ DOMAIN on = Actions
  BY <1>1, RunsAssumption DEF ChatInv, RunTypes, Runs, Active, Working
<1>3. "act" \in Stage /\ "act" \in Working /\ "act" \in ActionStages /\ "act" # "lost" /\ "act" # "over"
      /\ "act" # "classify"
  BY DEF Stage, Working, ActionStages
<1>4. st' \in [Runs -> Stage] /\ st'[a] = "act" /\ \A r \in Runs \ {a} : st'[r] = st[r]
  BY <1>1, <1>2, <1>3
<1>5. DOMAIN on' = Actions /\ on'[a] = t /\ \A b \in Actions \ {a} : on'[b] = on[b]
  BY <1>1, <1>2
<1>6. Active(a)' /\ \A r \in Runs \ {a} : Active(r)' <=> Active(r)
  BY <1>2, <1>3, <1>4 DEF Active
<1>7. \A r \in Runs \ {a} : Message(r)' = Message(r)
  BY <1>5 DEF Message, Runs
<1>8. Message(a)' = t
  BY <1>2, <1>5 DEF Message
<1>9. \A r \in Runs : st[r] \notin Working
  BY <1>1 DEF ChatInv, OneWorks
<1>10. RunTypes'
  <2>1. \A q \in Turns : st'[q] # "act"
    BY <1>2, <1>4 DEF ChatInv, RunTypes, Runs
  <2>2. \A b \in Actions : st'[b] \in ActionStages /\ (st'[b] = "act" => on'[b] \in Turns)
    BY <1>3, <1>4, <1>5 DEF ChatInv, RunTypes, Runs
  <2>3. spinner' \in SUBSET Turns /\ handle' \in Runs \cup {None} /\ shown' \in Turns \cup {None}
    BY <1>1, <1>2 DEF ChatInv, RunTypes
  <2>4. busy' \in BOOLEAN /\ crossed' \in BOOLEAN
    BY <1>1 DEF ChatInv, RunTypes
  <2> QED
    BY <1>1, <1>4, <1>5, <2>1, <2>2, <2>3, <2>4 DEF ChatInv, RunTypes
<1>11. OneWorks'
  BY <1>1, <1>2, <1>3, <1>4, <1>9 DEF OneWorks
<1>12. HandleIsLive'
  BY <1>1, <1>3, <1>4, <1>6 DEF HandleIsLive
<1>13. ShownIsHere'
  BY <1>1, <1>2, <1>6, <1>8 DEF ShownIsHere
<1>14. OneShown'
  <2>1. ~crossed' => \A r \in Runs : ~Active(r)
    BY <1>1, <1>9 DEF Active
  <2> QED
    BY <1>1, <1>6, <1>8, <2>1 DEF OneShown
<1>15. TypedIsSent'
  BY <1>1, <1>3, <1>4 DEF ChatInv, TypedIsSent, Runs
<1>16. StoppedIsAborted'
  BY <1>1, <1>2, <1>4 DEF ChatInv, StoppedIsAborted, Ending
<1>17. SpinnersEnd'
  <2>1. \A q \in spinner : q \in unseen \/ \E r \in Runs \ {a} : Active(r) /\ Message(r) = q
    BY <1>2 DEF ChatInv, SpinnersEnd
  <2>2. \A q \in spinner' : q \in spinner \/ q = t
    BY <1>1
  <2> QED
    BY <1>1, <1>2, <1>6, <1>7, <1>8, <2>1, <2>2 DEF SpinnersEnd
<1> QED
  BY <1>10, <1>11, <1>12, <1>13, <1>14, <1>15, <1>16, <1>17 DEF ChatInv

-----------------------------------------------------------------------------
\* closeActiveRun, whichever conversation is on screen after it.
LEMMA Closing ==
  ASSUME ChatInv, NEW gone, Close(gone), UNCHANGED <<remedies, on, home>>,
         current' \in Nat, opened' \in Nat, kept' \in SUBSET Nat
  PROVE  ChatInv'
<1> DEFINE atOnce == handle # None /\ st[handle] \in {"act", "gateway"}
<1>1. /\ st' = IF atOnce THEN [st EXCEPT ![handle] = "over"] ELSE st
      /\ busy' = IF handle \in Actions THEN FALSE ELSE busy
      /\ aborted' = IF handle = None \/ atOnce THEN aborted ELSE aborted \cup {handle}
      /\ spinner' = {t \in (spinner \ {shown}) \ {on[a] : a \in Actions \cap {handle}} : home[t] \notin gone}
      /\ stoppedIn' = [r \in Runs |-> IF r \in {q \in Runs : q = handle \/ st[q] = "classify"}
                                     THEN st[r] ELSE stoppedIn[r]]
      /\ unseen' = unseen \cup {t \in Turns \cap {handle} : st[t] = "gateway" /\ t # shown}
      /\ crossed' = (crossed \/ handle # None \/ shown # None)
      /\ handle' = None /\ shown' = None
  BY DEF Close, Ends
<1>2. /\ st \in [Runs -> Stage] /\ handle \in Runs \cup {None} /\ None \notin Actions /\ DOMAIN stoppedIn = Runs
      /\ "over" \in Stage
  BY RunsAssumption DEF ChatInv, RunTypes, Runs, Stage
<1>3. "over" \in ActionStages /\ "over" \notin Working /\ "over" # "act" /\ "over" # "lost" /\ "over" # "gateway"
      /\ "gateway" \notin Working /\ "act" \in Working
  BY DEF ActionStages, Working
<1>4. handle # None =>
        /\ handle \in Runs /\ Active(handle) /\ st[handle] # "classify"
        /\ handle \in Actions => st[handle] = "act" /\ Message(handle) = on[handle]
        /\ handle \in Turns => st[handle] # "act" /\ Message(handle) = handle
  BY <1>2, ActiveRuns DEF ChatInv, HandleIsLive
<1>5. /\ st' \in [Runs -> Stage]
      /\ \A r \in Runs : st'[r] = IF r = handle /\ atOnce THEN "over" ELSE st[r]
  <2>1. CASE atOnce
    BY <1>1, <1>2, <1>4, <2>1
  <2>2. CASE ~atOnce
    BY <1>1, <1>2, <2>2
  <2> QED
    BY <2>1, <2>2
<1>6. /\ DOMAIN stoppedIn' = Runs
      /\ \A r \in Runs : stoppedIn'[r] = IF r = handle \/ st[r] = "classify" THEN st[r] ELSE stoppedIn[r]
  BY <1>1
<1> HIDE DEF atOnce
<1>7. RunTypes'
  <2>1. \A q \in Turns : st'[q] # "act"
    BY <1>3, <1>5 DEF ChatInv, RunTypes, Runs
  <2>2. \A a \in Actions : st'[a] \in ActionStages /\ (st'[a] = "act" => on'[a] \in Turns)
    BY <1>3, <1>5 DEF ChatInv, RunTypes, Runs
  <2>3. aborted' \in SUBSET Runs
    BY <1>1, <1>2 DEF ChatInv, RunTypes
  <2>4. spinner' \in SUBSET Turns
    BY <1>1 DEF ChatInv, RunTypes
  <2>5. busy' \in BOOLEAN /\ crossed' \in BOOLEAN
    BY <1>1 DEF ChatInv, RunTypes
  <2> QED
    BY <1>1, <1>5, <1>6, <2>1, <2>2, <2>3, <2>4, <2>5 DEF ChatInv, RunTypes
<1>8. \A r \in Runs : Active(r)' <=> Active(r) /\ ~(r = handle /\ atOnce)
  BY <1>3, <1>5 DEF Active
<1>9. \A r \in Runs : Message(r)' = Message(r)
  BY DEF Message
<1>10. OneWorks'
  <2>1. CASE handle \in Actions
    <3>1. st[handle] \in Working /\ atOnce /\ handle \in Runs
      BY <1>2, <1>3, <1>4, <2>1 DEF atOnce
    <3>2. \A r \in Runs : st'[r] \notin Working
      BY <1>3, <1>5, <3>1 DEF ChatInv, OneWorks
    <3>3. busy' = FALSE
      BY <1>1, <2>1
    <3> QED
      BY <3>2, <3>3 DEF OneWorks
  <2>2. CASE handle \notin Actions
    <3>1. \A r \in Runs : st'[r] \in Working <=> st[r] \in Working
      <4>1. atOnce => st[handle] = "gateway"
        BY <1>4, <2>2 DEF atOnce, Runs
      <4> QED
        BY <1>3, <1>5, <4>1
    <3>2. busy' = busy
      BY <1>1, <2>2
    <3> QED
      BY <3>1, <3>2 DEF ChatInv, OneWorks
  <2> QED
    BY <2>1, <2>2
<1>11. HandleIsLive' /\ ShownIsHere'
  BY <1>1 DEF HandleIsLive, ShownIsHere
<1>12. OneShown'
  <2> SUFFICES ASSUME ~crossed' PROVE \A r \in Runs : ~Active(r)'
    BY DEF OneShown
  <2>1. ~crossed /\ shown = None
    BY <1>1 DEF ChatInv, RunTypes
  <2>2. \A r \in Runs : Active(r) => Message(r) \in Turns
    BY ActiveRuns
  <2> QED
    BY <1>8, <2>1, <2>2, RunsAssumption DEF ChatInv, OneShown, Runs
<1>13. TypedIsSent'
  <2>1. \A t \in Turns : st'[t] = "lost" => st[t] = "lost"
    BY <1>3, <1>5 DEF Runs
  <2> QED
    BY <1>1, <2>1 DEF ChatInv, TypedIsSent
<1>14. StoppedIsAborted'
  <2> SUFFICES ASSUME NEW r \in Runs, stoppedIn'[r] \notin GoesOn \cup {None}
               PROVE  st'[r] = "over" \/ (st'[r] = stoppedIn'[r] /\ r \in aborted' /\ st'[r] \in Ending)
    BY DEF StoppedIsAborted
  <2>1. aborted \subseteq aborted'
    BY <1>1
  <2>2. CASE r # handle
    <3>1. st[r] # "classify"
      BY <1>6 DEF GoesOn
    <3> QED
      BY <1>5, <1>6, <2>1, <2>2, <3>1 DEF ChatInv, StoppedIsAborted
  <2>3. CASE r = handle /\ atOnce
    BY <1>5, <2>3
  <2>4. CASE r = handle /\ ~atOnce
    <3>1. handle # None /\ r \in aborted'
      BY <1>1, <2>4, RunsAssumption
    <3>2. st'[r] = st[r] /\ stoppedIn'[r] = st[r]
      BY <1>5, <1>6, <2>4
    <3>3. st[r] \notin {"act", "gateway", "classify", "generate", "specialist"}
      BY <1>4, <2>4, <3>1, <3>2 DEF atOnce, GoesOn
    <3>4. st[r] \in Ending
      BY <1>4, <2>4, <3>1, <3>3 DEF Active, Working, Ending
    <3> QED
      BY <3>1, <3>2, <3>4
  <2> QED
    BY <2>2, <2>3, <2>4
<1>15. SpinnersEnd'
  <2> SUFFICES ASSUME NEW t \in spinner' PROVE t \in unseen' \/ \E r \in Runs : Active(r)' /\ Message(r)' = t
    BY DEF SpinnersEnd
  <2>1. t \in spinner /\ t # shown /\ \A a \in Actions \cap {handle} : t # on[a]
    BY <1>1
  <2>2. unseen \subseteq unseen'
    BY <1>1
  <2>3. CASE t \in unseen
    BY <2>2, <2>3
  <2>4. CASE t \notin unseen
    <3>1. PICK r \in Runs : Active(r) /\ Message(r) = t
      BY <2>1, <2>4 DEF ChatInv, SpinnersEnd
    <3>2. CASE r = handle /\ atOnce
      <4>1. handle # None /\ st[handle] \in {"act", "gateway"}
        BY <3>2 DEF atOnce
      <4>2. handle \notin Actions
        BY <1>4, <2>1, <3>1, <3>2, <4>1
      <4>3. t = handle /\ t \in Turns /\ st[t] = "gateway"
        BY <1>4, <3>1, <3>2, <4>1, <4>2 DEF Runs
      <4> QED
        BY <1>1, <2>1, <4>3
    <3>3. CASE ~(r = handle /\ atOnce)
      BY <1>8, <1>9, <3>1, <3>3
    <3> QED
      BY <3>2, <3>3
  <2> QED
    BY <2>3, <2>4
<1> QED
  BY <1>7, <1>10, <1>11, <1>12, <1>13, <1>14, <1>15 DEF ChatInv

LEMMA DeletingOther ==
  ASSUME ChatInv, NEW c, spinner' = {t \in spinner : home[t] # c}, kept' \in SUBSET Nat,
         UNCHANGED <<st, busy, handle, shown, aborted, remedies, on, current, home, opened,
                     stoppedIn, unseen, crossed>>
  PROVE  ChatInv'
<1>1. spinner' \subseteq spinner
  OBVIOUS
<1>2. \A r \in Runs : (Active(r)' <=> Active(r)) /\ Message(r)' = Message(r)
  BY DEF Active, Message
<1>3. RunTypes'
  BY <1>1 DEF ChatInv, RunTypes
<1>4. OneWorks' /\ TypedIsSent' /\ StoppedIsAborted'
  BY DEF ChatInv, OneWorks, TypedIsSent, StoppedIsAborted
<1>5. HandleIsLive' /\ ShownIsHere' /\ OneShown'
  BY <1>2 DEF ChatInv, HandleIsLive, ShownIsHere, OneShown, Active
<1>6. SpinnersEnd'
  BY <1>1, <1>2 DEF ChatInv, SpinnersEnd
<1> QED
  BY <1>3, <1>4, <1>5, <1>6 DEF ChatInv

LEMMA Reloading ==
  ASSUME ChatInv, Reload
  PROVE  ChatInv'
<1>1. /\ st' = [r \in Runs |-> IF Active(r) THEN "over" ELSE st[r]]
      /\ busy' = FALSE /\ handle' = None /\ shown' = None /\ aborted' = {} /\ spinner' = {}
      /\ UNCHANGED <<remedies, on, current, home, kept, opened, stoppedIn, unseen, crossed>>
  BY DEF Reload, history
<1>2. /\ st \in [Runs -> Stage] /\ "over" \in Stage /\ "over" \in ActionStages /\ "over" \notin Working
      /\ "over" # "act" /\ "over" # "lost" /\ "over" # "gateway"
  BY DEF ChatInv, RunTypes, Stage, ActionStages, Working
<1>3. \A r \in Runs : st'[r] = IF Active(r) THEN "over" ELSE st[r]
  BY <1>1
<1>4. \A r \in Runs : st'[r] \notin Working /\ ~Active(r)'
  BY <1>2, <1>3 DEF Active
<1>5. RunTypes'
  <2>1. st' \in [Runs -> Stage]
    BY <1>1, <1>2
  <2>2. \A q \in Turns : st'[q] # "act"
    BY <1>2, <1>3 DEF ChatInv, RunTypes, Runs
  <2>3. \A a \in Actions : st'[a] \in ActionStages /\ (st'[a] = "act" => on'[a] \in Turns)
    BY <1>1, <1>2, <1>3 DEF ChatInv, RunTypes, Runs
  <2> QED
    BY <1>1, <2>1, <2>2, <2>3 DEF ChatInv, RunTypes
<1>6. OneWorks' /\ HandleIsLive' /\ ShownIsHere' /\ OneShown' /\ SpinnersEnd'
  BY <1>1, <1>4 DEF OneWorks, HandleIsLive, ShownIsHere, OneShown, SpinnersEnd
<1>7. TypedIsSent'
  BY <1>1, <1>2, <1>3 DEF ChatInv, TypedIsSent, Runs
<1>8. StoppedIsAborted'
  <2>1. \A r \in Runs : st[r] \in Ending => Active(r)
    BY DEF Ending, Active, Working
  <2> QED
    BY <1>1, <1>3, <2>1 DEF ChatInv, StoppedIsAborted
<1> QED
  BY <1>5, <1>6, <1>7, <1>8 DEF ChatInv

\* What touches neither a run nor what is shown.
LEMMA NothingRuns ==
  ASSUME ChatInv, UNCHANGED <<st, busy, handle, shown, aborted, spinner, remedies, on, current, home, kept,
                              opened, stoppedIn, unseen, crossed>>
  PROVE  ChatInv'
<1>1. \A r \in Runs : (Active(r)' <=> Active(r)) /\ Message(r)' = Message(r)
  BY DEF Active, Message
<1>2. RunTypes' /\ OneWorks' /\ TypedIsSent' /\ StoppedIsAborted'
  BY DEF ChatInv, RunTypes, OneWorks, TypedIsSent, StoppedIsAborted
<1>3. HandleIsLive' /\ ShownIsHere' /\ OneShown' /\ SpinnersEnd'
  BY <1>1 DEF ChatInv, HandleIsLive, ShownIsHere, OneShown, SpinnersEnd, Active
<1> QED
  BY <1>2, <1>3 DEF ChatInv

LEMMA Leaving ==
  ASSUME ChatInv, Stop \/ NewChat \/ ResetSession
  PROVE  ChatInv'
<1>1. current \in Nat /\ opened \in Nat /\ kept \in SUBSET Nat
  BY DEF ChatInv, RunTypes
<1>2. CASE Stop
  <2>1. Close({}) /\ UNCHANGED <<remedies, on, home, current, opened, kept>>
    BY <1>2 DEF Stop, session
  <2> QED
    BY <1>1, <2>1, Closing
<1>3. CASE NewChat
  <2>1. Close({}) /\ UNCHANGED <<remedies, on, home, kept>> /\ current' \in Nat /\ opened' \in Nat
    BY <1>1, <1>3 DEF NewChat
  <2> QED
    BY <1>1, <2>1, Closing
<1>4. CASE ResetSession
  <2>1. Close(kept) /\ UNCHANGED <<remedies, on, home>> /\ kept' = {} /\ current' \in Nat /\ opened' \in Nat
    BY <1>1, <1>4 DEF ResetSession
  <2> QED
    BY <1>1, <2>1, Closing
<1> QED
  BY <1>2, <1>3, <1>4

LEMMA Switching ==
  ASSUME ChatInv, NEW c \in 1 .. MaxConvs, SelectChat(c) \/ DeleteChat(c)
  PROVE  ChatInv'
<1>1. current \in Nat /\ opened \in Nat /\ kept \in SUBSET Nat
  BY DEF ChatInv, RunTypes
<1>2. CASE SelectChat(c)
  <2>1. Close({}) /\ UNCHANGED <<remedies, on, home, kept, opened>> /\ current' \in Nat
    BY <1>1, <1>2 DEF SelectChat
  <2> QED
    BY <1>1, <2>1, Closing
<1>3. CASE DeleteChat(c)
  <2>1. kept' \in SUBSET Nat /\ UNCHANGED <<remedies, on, home>>
    BY <1>1, <1>3 DEF DeleteChat
  <2>2. CASE c = current
    <3>1. Close({c}) /\ current' \in Nat /\ opened' \in Nat
      BY <1>1, <1>3, <2>2 DEF DeleteChat
    <3> QED
      BY <2>1, <3>1, Closing
  <2>3. CASE c # current
    <3>1. spinner' = {t \in spinner : home[t] # c}
          /\ UNCHANGED <<st, busy, handle, shown, aborted, current, opened, stoppedIn, unseen, crossed>>
      BY <1>3, <2>3 DEF DeleteChat, history
    <3> QED
      BY <2>1, <3>1, DeletingOther
  <2> QED
    BY <2>2, <2>3
<1> QED
  BY <1>2, <1>3

LEMMA ChatStep == ChatInv /\ [ChatNext]_chatVars => ChatInv'
<1> SUFFICES ASSUME ChatInv, [ChatNext]_chatVars PROVE ChatInv'
  OBVIOUS
<1>1. CASE UNCHANGED chatVars
  BY <1>1, NothingRuns DEF chatVars
<1>2. CASE RunStep
  <2>1. ASSUME NEW a \in Actions, Finish(a) PROVE ChatInv'
    <3>1. a \in Runs /\ Active(a) /\ End(a)
      BY <2>1 DEF Finish, Runs, Active, Working
    <3> QED
      BY <3>1, EndKeeps
  <2> QED
    BY <1>2, <2>1, StageSteps DEF RunStep
<1>3. CASE UserStep
  <2>1. CASE SelectAgent
    BY <2>1, NothingRuns DEF SelectAgent, history
  <2> QED
    BY <1>3, <2>1, Submitting, Beginning, Leaving, Switching, Reloading DEF UserStep
<1> QED
  BY <1>1, <1>2, <1>3 DEF ChatNext

-----------------------------------------------------------------------------
LEMMA ChatAlways == ChatInit /\ [][ChatNext]_chatVars => []ChatInv
  BY ChatStarts, ChatStep, PTL

\* The chat is busy exactly while a run works, the message it shows as in progress is
\* on screen and being worked on, nothing that would refuse the next message outlives
\* the last run, and what was typed is lost only after a run was stopped or a remedy
\* was clicked during a stream; for any number of messages, remedies and conversations.
THEOREM OneRunOnly == ChatInit /\ [][ChatNext]_chatVars => []OneRunAtATime
<1>1. ChatInv => OneRunAtATime
  <2> SUFFICES ASSUME ChatInv PROVE OneRunAtATime
    OBVIOUS
  <2> DEFINE working == {r \in Runs : st[r] \in Working}
  <2>1. BusyIsOne
    <3>1. CASE busy
      <4>1. PICK r \in Runs : working = {r}
        BY <3>1 DEF ChatInv, OneWorks
      <4>2. Cardinality({r}) = 1
        BY ONLY FS_Singleton
      <4>3. Cardinality(working) = 1
        BY ONLY <4>1, <4>2
      <4> QED
        BY <3>1, <4>3 DEF BusyIsOne
    <3>2. CASE ~busy
      <4>1. working = {}
        BY <3>2 DEF ChatInv, OneWorks
      <4>2. Cardinality(working) = 0
        BY ONLY <4>1, FS_EmptySet
      <4> QED
        BY <3>2, <4>2 DEF BusyIsOne
    <3> QED
      BY <3>1, <3>2
  <2>2. NeverStuck
    <3> SUFFICES ASSUME \A r \in Runs : ~Active(r) PROVE ~busy /\ handle = None /\ shown = None
      BY DEF NeverStuck
    <3>1. ~busy
      BY DEF ChatInv, OneWorks, Active
    <3>2. handle = None
      BY DEF ChatInv, RunTypes, HandleIsLive
    <3>3. shown = None
      BY DEF ChatInv, ShownIsHere
    <3> QED
      BY <3>1, <3>2, <3>3
  <2> QED
    BY <2>1, <2>2 DEF OneRunAtATime, ChatInv
<1> QED
  BY <1>1, ChatAlways, PTL

\* A run that was stopped ends without another stage, but for the three stages in which
\* Stop ends no run (a picture, a specialist, the classification of the turn); and no
\* message keeps its spinner after its run unless its stream was stopped while another
\* message, or none, was shown.
THEOREM StoppingStops == ChatInit /\ [][ChatNext]_chatVars => []StopStops
<1>1. ChatInv => StopStops
  BY DEF ChatInv, StoppedIsAborted, StopStops, StoppedEnds
<1> QED
  BY <1>1, ChatAlways, PTL
=============================================================================
