------------------------------- MODULE MCChat -------------------------------
(***************************************************************************)
(* The web page, for TLC, in parts that share no state (the variable part  *)
(* says which of them a behaviour is of):                                  *)
(*   runs      ChatRuns with two messages and one remedy                   *)
(*   notices   Notices with the page of one owner                           *)
(*   composer  Composer with three files and two clicks on Record          *)
(***************************************************************************)
EXTENDS ChatRuns, Notices, Composer

VARIABLE part
mcvars == <<part, chatVars, noticeVars, mediaVars>>

\* Every stage is passed by one of them, and "describe" both ways.
MCWishes == {{}, {"voice", "skill"}, {"image"}, {"image", "describe"}, {"picture"}}

-----------------------------------------------------------------------------
MCInit == part \in {"runs", "notices", "composer"} /\ ChatInit /\ NoticeInit /\ ComposerInit

ChatPart == part = "runs" /\ UNCHANGED <<part, noticeVars, mediaVars>>
NoticesPart == part = "notices" /\ UNCHANGED <<part, chatVars, mediaVars>>
ComposerPart == part = "composer" /\ UNCHANGED <<part, chatVars, noticeVars>>
MCNext ==
  \/ ChatPart /\ ChatNext
  \/ NoticesPart /\ NoticeNext
  \/ ComposerPart /\ ComposerNext

\* What each part is driven by: answers and timers; the bridge, for each owner
\* who asked; files that are read and the timer of a recording.
Driven ==
  \/ ChatPart /\ RunStep
  \/ NoticesPart /\ Respond("initiator")
  \/ ComposerPart /\ ComposerStep
DrivenToo == NoticesPart /\ Respond("peer")

MCSpec == MCInit /\ [][MCNext]_mcvars /\ WF_mcvars(Driven) /\ WF_mcvars(DrivenToo)

-----------------------------------------------------------------------------
\* The page comes to rest: every run of the chat ends, each of its stages bounded by
\* a timer or by an answer of the bridge or of the gateway; every click on a meeting
\* card is answered, so its buttons come back; and no recording keeps the microphone
\* for longer than its minute.
ComesToRest ==
  /\ []<>AllOver
  /\ []<>Served("initiator")
  /\ []<>Served("peer")
  /\ []<>MicCloses
=============================================================================
