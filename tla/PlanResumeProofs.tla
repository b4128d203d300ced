-------------------------- MODULE PlanResumeProofs --------------------------
(***************************************************************************)
(* What holds of the step executor for any plan, any messages, any overlap *)
(* of their handlers, crashes and faults; and, while messages come one at  *)
(* a time, that it runs the plan once and to the end.                      *)
(***************************************************************************)
EXTENDS PlanResume, TLAPS

\* A handler that is about to write has the owner's token for that write
\* behind it, or the policy asks for none.
Granted(i) == policy = "confirm" => <<i, "confirm">> \in sent

\* A confirm token only exists for a write that was proposed.
Backed(token) == token[2] = "confirm" => token[1] \in proposed

\* What every handler that waits may rely on.
Waiting ==
  /\ \A r \in Requests :
       pc[r] \in {"lookup", "write", "record"} =>
         mem[r].cursor \in Steps /\ Granted(mem[r].cursor)
  /\ \A r \in Requests : pc[r] = "park" => mem[r].token \in Token /\ Backed(mem[r].token)
  /\ \A token \in issued : Backed(token)

IInv == TypeOK /\ Waiting /\ WritesNeedConsent

\* Steps are counted by natural numbers.
LEMMA StepsNat == Steps \subseteq Nat
  BY PlanAssumption DEF Steps

\* A token is a step and its kind of question.
LEMMA TokenParts ==
  ASSUME NEW token \in Token
  PROVE  token[1] \in Steps /\ token[2] \in {"confirm"} \cup Requests
  BY DEF Token

\* What a message holds before it reads anything is a memory, its ledger a ledger.
LEMMA NoMemoryType == NoMemory \in Memory /\ NoLedger \in Ledger
  BY DEF NoMemory, Memory, NoLedger, Ledger, Outcome

\* The initial states satisfy the invariant.
LEMMA InitInv == Init => IInv
<1> SUFFICES ASSUME Init
             PROVE  IInv
  OBVIOUS
<1>1. TypeOK
  BY NoMemoryType DEF Init, TypeOK, Entry, Stage
<1>2. Waiting /\ WritesNeedConsent
  BY DEF Init, Waiting, WritesNeedConsent
<1> QED BY <1>1, <1>2 DEF IInv

\* Handler r moves to `stage` with `memory`: what a step has to leave true
\* for the invariant to survive it.
Moves(r, stage, memory) ==
  /\ Goto(r, stage, memory) /\ stage \in Stage /\ memory \in Memory
  /\ policy' = policy /\ crashes' = crashes /\ disturbed' \in BOOLEAN
  /\ parked' \in [Token -> Entry] /\ started' \in BOOLEAN
  /\ proposed \subseteq proposed' /\ proposed' \subseteq Steps
  /\ written' \subseteq Steps /\ (policy = "confirm" => written' \subseteq proposed')
  /\ sent \subseteq sent' /\ sent' \subseteq issued'
  /\ issued' \subseteq Token
  /\ \A token \in issued' : token \in issued \/ (token[2] = "confirm" => token[1] \in proposed')
  /\ ran' \in [Steps -> Nat] /\ last' \in Ledger
  /\ \A i \in Steps : Plan[i].kind = "write" /\ ran'[i] > 0 =>
       ran[i] > 0 \/ (policy = "confirm" => <<i, "confirm">> \in sent')
  /\ stage \in {"lookup", "write", "record"} =>
       memory.cursor \in Steps /\ (policy = "confirm" => <<memory.cursor, "confirm">> \in sent')
  /\ stage = "park" =>
       memory.token \in Token /\ (memory.token[2] = "confirm" => memory.token[1] \in proposed')

\* A message that moves on without touching the plan's files keeps the invariant.
LEMMA MoveInv ==
  ASSUME IInv, NEW r \in Requests, NEW stage, NEW memory, Moves(r, stage, memory)
  PROVE  IInv'
<1>1. pc' = [pc EXCEPT ![r] = stage] /\ mem' = [mem EXCEPT ![r] = memory]
  BY DEF Moves, Goto
<1>2. TypeOK'
  BY <1>1 DEF IInv, TypeOK, Moves
<1>3. Waiting'
  <2>1. \A q \in Requests : q # r => pc'[q] = pc[q] /\ mem'[q] = mem[q]
    BY <1>1 DEF IInv, TypeOK
  <2>2. pc'[r] = stage /\ mem'[r] = memory
    BY <1>1 DEF IInv, TypeOK
  <2>3. \A q \in Requests :
          pc'[q] \in {"lookup", "write", "record"} =>
            mem'[q].cursor \in Steps /\ Granted(mem[q].cursor)'
    BY <2>1, <2>2 DEF IInv, Waiting, Granted, Moves
  <2>4. \A q \in Requests : pc'[q] = "park" => mem'[q].token \in Token /\ Backed(mem[q].token)'
    BY <2>1, <2>2 DEF IInv, Waiting, Backed, Moves
  <2>5. \A token \in issued' : Backed(token)'
    BY DEF IInv, Waiting, Backed, Moves
  <2> QED BY <2>3, <2>4, <2>5 DEF Waiting
<1>4. WritesNeedConsent'
  BY DEF IInv, WritesNeedConsent, Moves
<1> QED BY <1>2, <1>3, <1>4 DEF IInv

\* The common case: nothing but the handler and the outcomes change.
LEMMA QuietMoves ==
  ASSUME IInv, NEW r \in Requests,
         NEW stage \in {"exec", "find", "resolve", "done"}, NEW memory \in Memory,
         Goto(r, stage, memory),
         UNCHANGED <<files, issued, crashes, started, ran, sent>>, disturbed' \in BOOLEAN, last' \in Ledger
  PROVE  IInv'
<1>1. Moves(r, stage, memory)
  BY DEF IInv, TypeOK, WritesNeedConsent, Moves, Stage, files
<1> QED BY <1>1, MoveInv

\* Memory stays typed when an outcome is recorded or the cursor moves.
LEMMA MemoryKept ==
  ASSUME NEW memory \in Memory, NEW outcome \in Outcome, NEW i \in Nat
  PROVE  /\ Recorded(memory, outcome) \in Memory
         /\ [memory EXCEPT !.ledger[i] = outcome] \in Memory
         /\ [memory EXCEPT !.cursor = @ + 1] \in Memory
         /\ Rest(memory) \in Memory
<1>1. [memory.ledger EXCEPT ![i] = outcome] \in Ledger
  BY DEF Memory, Ledger
<1>2. [memory.ledger EXCEPT ![memory.cursor] = outcome] \in Ledger
  BY DEF Memory, Ledger
<1>3. Recorded(memory, outcome) \in Memory
  <2> DEFINE noted == [memory EXCEPT !.ledger[memory.cursor] = outcome]
  <2>1. noted \in Memory
    BY <1>2 DEF Memory
  <2>2. Recorded(memory, outcome) = [noted EXCEPT !.cursor = @ + 1]
    BY DEF Memory, Recorded
  <2> HIDE DEF noted
  <2> QED BY <2>1, <2>2 DEF Memory
<1>4. [memory EXCEPT !.ledger[i] = outcome] \in Memory
  BY <1>1 DEF Memory
<1>5. [memory EXCEPT !.cursor = @ + 1] \in Memory
  BY DEF Memory
<1>6. Rest(memory) \in Memory
  BY DEF Memory, Rest
<1> QED BY <1>3, <1>4, <1>5, <1>6

\* After a write the handler resolves, goes on or replies.
LEMMA AfterWriteMoves ==
  ASSUME TypeOK, NEW r \in Requests, NEW outcome \in Outcome, AfterWrite(r, outcome)
  PROVE  \E stage \in {"exec", "find", "done"}, memory \in Memory : Goto(r, stage, memory)
<1>1. mem[r] \in Memory /\ mem[r].cursor \in Nat
  BY DEF TypeOK, Memory
<1>2. /\ [mem[r] EXCEPT !.ledger[mem[r].cursor] = outcome] \in Memory
      /\ Recorded(mem[r], outcome) \in Memory
  BY <1>1, MemoryKept
<1>3. CASE mem[r].from = "confirm"
  BY <1>2, <1>3 DEF AfterWrite
<1>4. CASE mem[r].from = "lone"
  BY <1>4, NoMemoryType DEF AfterWrite, Reply
<1>5. CASE mem[r].from # "confirm" /\ mem[r].from # "lone"
  BY <1>2, <1>5, NoMemoryType DEF AfterWrite, Reply
<1> QED BY <1>3, <1>4, <1>5

\* So it does after the parked plan is found or resolved.
LEMMA ResumeMoves ==
  ASSUME TypeOK, NEW r \in Requests, Resume(r)
  PROVE  \E stage \in {"exec", "done"}, memory \in Memory : Goto(r, stage, memory)
<1>1. mem[r] \in Memory
  BY DEF TypeOK
<1>2. Rest(mem[r]) \in Memory
  BY <1>1, MemoryKept, Zenon DEF Rest, Memory
<1> QED BY <1>2, NoMemoryType DEF Resume, Reply

-----------------------------------------------------------------------------
\* One lemma per kind of step: the messages,
LEMMA MessageInv ==
  ASSUME IInv, NEW r \in Requests, Message(r)
  PROVE  IInv'
<1>1. CASE Request(r)
  <2> DEFINE memory == [NoMemory EXCEPT !.cursor = 1]
  <2>1. memory \in Memory
    BY NoMemoryType DEF Memory
  <2>2. Moves(r, "exec", memory)
    BY <1>1, <2>1 DEF Request, Arrives, IInv, TypeOK, WritesNeedConsent, Moves, Stage, files, history
  <2> QED BY <2>2, MoveInv
<1>2. ASSUME NEW i \in Steps, Confirm(r, i)
      PROVE  IInv'
  <2> DEFINE token == <<i, "confirm">>
             memory == [cursor |-> i, token |-> token,
                        ledger |-> IF parked[token].status = "pending"
                                     THEN parked[token].ledger ELSE NoLedger,
                        from |-> IF parked[token].status = "pending"
                                   THEN "confirm" ELSE "lone"]
  <2>1. token \in Token /\ i \in Nat
    BY StepsNat DEF Token
  <2>2. memory \in Memory
    BY <2>1, NoMemoryType DEF IInv, TypeOK, Memory, Entry
  <2>3. Goto(r, "lookup", memory) /\ sent' = sent \cup {token} /\ token \in issued
    BY <1>2 DEF Confirm
  <2>4. disturbed' \in BOOLEAN /\ UNCHANGED <<files, started, issued, crashes, ran, last>>
    BY <1>2 DEF Confirm, Arrives, IInv, TypeOK
  <2> HIDE DEF memory
  <2>5. memory.cursor = i
    BY DEF memory
  <2>6. Moves(r, "lookup", memory)
    BY <2>2, <2>3, <2>4, <2>5 DEF IInv, TypeOK, WritesNeedConsent, Moves, Stage, files
  <2> QED BY <2>6, MoveInv
<1>3. ASSUME NEW token \in Token, Pick(r, token)
      PROVE  IInv'
  <2> DEFINE found == [cursor |-> token[1], token |-> token,
                       ledger |-> parked[token].ledger, from |-> "pick"]
  <2>1. found \in Memory
    BY TokenParts, StepsNat DEF IInv, TypeOK, Memory, Entry
  <2>2. /\ Goto(r, "find", found) \/ Goto(r, "done", NoMemory)
        /\ sent' = sent \cup {token} /\ token \in issued
        /\ disturbed' \in BOOLEAN /\ UNCHANGED <<files, started, issued, crashes, ran, last>>
    BY <1>3 DEF Pick, Reply, Arrives, IInv, TypeOK
  <2> HIDE DEF found
  <2>3. Moves(r, "find", found) \/ Moves(r, "done", NoMemory)
    BY <2>1, <2>2, NoMemoryType DEF IInv, TypeOK, WritesNeedConsent, Moves, Stage, files
  <2> QED BY <2>3, MoveInv
<1> QED BY <1>1, <1>2, <1>3 DEF Message

\* the loop over the steps,
LEMMA LoopInv ==
  ASSUME IInv, NEW r \in Requests,
         \/ Skip(r) \/ Finish(r) \/ Ask(r) \/ ReachWrite(r) \/ Park(r)
         \/ \E outcome \in {"satisfied", "soft-miss", "hard-fail"} : RunStep(r, outcome)
  PROVE  IInv'
<1> DEFINE i == mem[r].cursor
<1>1. mem[r] \in Memory /\ i \in Nat
  BY DEF IInv, TypeOK, Memory
<1>2. CASE Skip(r)
  <2>1. Recorded(mem[r], "skipped") \in Memory /\ [mem[r] EXCEPT !.cursor = @ + 1] \in Memory
    BY <1>1, MemoryKept DEF Outcome
  <2>2. last' \in Ledger
    BY <1>2 DEF Skip, IInv, TypeOK, Ledger, Outcome
  <2> QED BY <1>2, <2>1, <2>2, QuietMoves DEF Skip, IInv, TypeOK
<1>3. CASE Finish(r)
  BY <1>3, NoMemoryType, QuietMoves DEF Finish, Reply, history, IInv, TypeOK
<1>4. CASE Ask(r)
  <2> DEFINE memory == [mem[r] EXCEPT !.token = <<i, r>>]
  <2>1. Goto(r, "park", memory) /\ i \in Steps
    BY <1>4 DEF Ask, At
  <2>2. <<i, r>> \in Token /\ r # "confirm"
    BY <2>1, PlanAssumption DEF Token
  <2>3. memory \in Memory /\ memory.token = <<i, r>>
    BY <1>1, <2>2 DEF Memory
  <2>4. UNCHANGED <<files, started, issued, crashes, disturbed, history>>
    BY <1>4 DEF Ask
  <2> HIDE DEF memory
  <2>5. Moves(r, "park", memory)
    BY <2>1, <2>2, <2>3, <2>4 DEF IInv, TypeOK, WritesNeedConsent, Moves, Stage, files, history
  <2> QED BY <2>5, MoveInv
<1>5. CASE ReachWrite(r)
  <2> DEFINE memory == [mem[r] EXCEPT !.token = <<i, "confirm">>]
  <2>1. /\ i \in Steps
        /\ UNCHANGED <<policy, parked, written, started, issued, crashes, disturbed, history>>
    BY <1>5 DEF ReachWrite, At
  <2>2. <<i, "confirm">> \in Token
    BY <2>1 DEF Token
  <2>3. memory \in Memory /\ memory.token = <<i, "confirm">>
    BY <1>1, <2>2 DEF Memory
  <2>4. \/ Goto(r, "exec", Recorded(mem[r], "satisfied")) /\ UNCHANGED proposed
        \/ policy = "auto" /\ Goto(r, "write", mem[r]) /\ UNCHANGED proposed
        \/ proposed' = proposed \cup {i} /\ Goto(r, "park", memory)
    BY <1>5 DEF ReachWrite
  <2> HIDE DEF memory
  <2>5. CASE Goto(r, "exec", Recorded(mem[r], "satisfied")) /\ UNCHANGED proposed
    <3>1. Recorded(mem[r], "satisfied") \in Memory
      BY <1>1, MemoryKept DEF Outcome
    <3> QED BY <2>1, <2>5, <3>1, QuietMoves DEF files, history, IInv, TypeOK
  <2>6. CASE policy = "auto" /\ Goto(r, "write", mem[r]) /\ UNCHANGED proposed
    <3>1. Moves(r, "write", mem[r])
      BY <1>1, <2>1, <2>6 DEF IInv, TypeOK, WritesNeedConsent, Moves, Stage, history
    <3> QED BY <3>1, MoveInv
  <2>7. CASE proposed' = proposed \cup {i} /\ Goto(r, "park", memory)
    <3>1. Moves(r, "park", memory)
      BY <2>1, <2>2, <2>3, <2>7 DEF IInv, TypeOK, WritesNeedConsent, Moves, Stage, history
    <3> QED BY <3>1, MoveInv
  <2> QED BY <2>4, <2>5, <2>6, <2>7
<1>6. CASE Park(r)
  <2>1. mem[r].token \in Token /\ Backed(mem[r].token)
    BY <1>6 DEF Park, IInv, Waiting
  <2>2. parked' \in [Token -> Entry]
    BY <1>1, <1>6 DEF Park, IInv, TypeOK, Entry, Memory
  <2>3. Moves(r, "done", NoMemory)
    BY <1>6, <2>1, <2>2, NoMemoryType
    DEF Park, Reply, Backed, IInv, TypeOK, WritesNeedConsent, Moves, Stage, history
  <2> QED BY <2>3, MoveInv
<1>7. ASSUME NEW outcome \in {"satisfied", "soft-miss", "hard-fail"}, RunStep(r, outcome)
      PROVE  IInv'
  <2>1. /\ i \in Steps /\ Plan[i].kind # "write"
        /\ ran' = [ran EXCEPT ![i] = @ + 1] /\ last' = [last EXCEPT ![i] = outcome]
        /\ UNCHANGED <<files, started, issued, crashes, disturbed, sent>>
    BY <1>7 DEF RunStep, At, Runs
  <2>2. Recorded(mem[r], outcome) \in Memory
    BY <1>1, MemoryKept DEF Outcome
  <2>3. \/ Goto(r, "done", NoMemory)
        \/ Goto(r, "exec", Recorded(mem[r], outcome))
    BY <1>7 DEF RunStep, Reply
  <2>4. ran' \in [Steps -> Nat] /\ last' \in Ledger
    BY <2>1 DEF IInv, TypeOK, Ledger, Outcome
  <2>5. \A j \in Steps : Plan[j].kind = "write" => ran'[j] = ran[j]
    BY <2>1 DEF IInv, TypeOK
  <2>6. Moves(r, "done", NoMemory) \/ Moves(r, "exec", Recorded(mem[r], outcome))
    BY <2>1, <2>2, <2>3, <2>4, <2>5, NoMemoryType
    DEF IInv, TypeOK, WritesNeedConsent, Moves, Stage, files
  <2> QED BY <2>6, MoveInv
<1> QED BY <1>2, <1>3, <1>4, <1>5, <1>6, <1>7

\* the write and what follows it.
LEMMA WriteInv ==
  ASSUME IInv, NEW r \in Requests,
         Lookup(r) \/ Write(r) \/ WriteFails(r) \/ Record(r) \/ Find(r) \/ Resolve(r)
  PROVE  IInv'
<1> DEFINE i == mem[r].cursor
<1>1. mem[r] \in Memory /\ i \in Nat
  BY DEF IInv, TypeOK, Memory
<1>2. pc[r] \in {"lookup", "write", "record"} =>
        i \in Steps /\ (policy = "confirm" => <<i, "confirm">> \in sent)
  BY DEF IInv, Waiting, Granted
<1>3. CASE Lookup(r)
  <2>1. CASE AfterWrite(r, "satisfied")
    <3>1. PICK stage \in {"exec", "find", "done"}, memory \in Memory : Goto(r, stage, memory)
      BY <2>1, AfterWriteMoves DEF IInv, Outcome
    <3> QED BY <1>3, <3>1, QuietMoves DEF Lookup, history, IInv, TypeOK
  <2>2. CASE Goto(r, "write", mem[r])
    <3>1. Moves(r, "write", mem[r])
      BY <1>1, <1>2, <1>3, <2>2
      DEF Lookup, IInv, TypeOK, WritesNeedConsent, Moves, Stage, files, history
    <3> QED BY <3>1, MoveInv
  <2> QED BY <1>3, <2>1, <2>2 DEF Lookup
<1>4. CASE Write(r)
  <2>1. ran' \in [Steps -> Nat] /\ last' \in Ledger
    BY <1>2, <1>4 DEF Write, IInv, TypeOK, Ledger, Outcome
  <2>2. \A j \in Steps : ran'[j] > 0 => ran[j] > 0 \/ j = i
    BY <1>4 DEF Write, IInv, TypeOK
  <2>3. /\ pc[r] = "write" /\ Goto(r, "record", mem[r])
        /\ UNCHANGED <<files, started, issued, crashes, disturbed, sent>>
    BY <1>4 DEF Write
  <2>4. Moves(r, "record", mem[r])
    BY <1>1, <1>2, <2>1, <2>2, <2>3
    DEF IInv, TypeOK, WritesNeedConsent, Moves, Stage, files
  <2> QED BY <2>4, MoveInv
<1>5. CASE WriteFails(r)
  <2>1. PICK stage \in {"exec", "find", "done"}, memory \in Memory : Goto(r, stage, memory)
    BY <1>5, AfterWriteMoves DEF WriteFails, IInv, Outcome
  <2>2. last' \in Ledger
    BY <1>2, <1>5 DEF WriteFails, IInv, TypeOK, Ledger, Outcome
  <2> QED BY <1>5, <2>1, <2>2, QuietMoves DEF WriteFails, IInv, TypeOK
<1>6. CASE Record(r)
  <2>1. PICK stage \in {"exec", "find", "done"}, memory \in Memory : Goto(r, stage, memory)
    BY <1>6, AfterWriteMoves DEF Record, IInv, Outcome
  <2>2. i \in Steps /\ (policy = "confirm" => <<i, "confirm">> \in sent)
    BY <1>2, <1>6 DEF Record
  <2>3. policy = "confirm" => i \in proposed
    <3> SUFFICES ASSUME policy = "confirm"
                 PROVE  i \in proposed
      OBVIOUS
    <3>1. <<i, "confirm">> \in issued
      BY <2>2 DEF IInv, TypeOK
    <3>2. Backed(<<i, "confirm">>)
      BY <3>1 DEF IInv, Waiting
    <3> QED BY <3>2 DEF Backed
  <2>4. written' = written \cup {i} /\ UNCHANGED <<policy, parked, proposed, started, issued, crashes, disturbed, history>>
    BY <1>6 DEF Record
  <2>5. Moves(r, stage, memory)
    BY <2>1, <2>2, <2>3, <2>4 DEF IInv, TypeOK, WritesNeedConsent, Moves, Stage, history
  <2> QED BY <2>5, MoveInv
<1>7. CASE Find(r)
  <2>1. CASE Goto(r, "resolve", mem[r])
    BY <1>1, <1>7, <2>1, QuietMoves DEF Find, history, IInv, TypeOK
  <2>2. CASE Resume(r)
    <3>1. PICK stage \in {"exec", "done"}, memory \in Memory : Goto(r, stage, memory)
      BY <2>2, ResumeMoves DEF IInv
    <3> QED BY <1>7, <3>1, QuietMoves DEF Find, history, IInv, TypeOK
  <2> QED BY <1>7, <2>1, <2>2 DEF Find
<1>8. CASE Resolve(r)
  <2>1. PICK stage \in {"exec", "done"}, memory \in Memory : Goto(r, stage, memory)
    BY <1>8, ResumeMoves DEF Resolve, IInv
  <2>2. parked' \in [Token -> Entry]
    BY <1>8 DEF Resolve, IInv, TypeOK, Entry
  <2>3. Moves(r, stage, memory)
    BY <1>8, <2>1, <2>2 DEF Resolve, IInv, TypeOK, WritesNeedConsent, Moves, Stage, history
  <2> QED BY <2>3, MoveInv
<1> QED BY <1>3, <1>4, <1>5, <1>6, <1>7, <1>8

\* A crash only loses handlers.
LEMMA CrashInv ==
  ASSUME IInv, Crash
  PROVE  IInv'
<1>1. TypeOK'
  BY NoMemoryType DEF Crash, IInv, TypeOK, Stage, files, history
<1>2. \A r \in Requests : pc'[r] \notin {"lookup", "write", "record", "park"}
  BY DEF Crash, InFlight, IInv, TypeOK, Stage
<1>3. Waiting' /\ WritesNeedConsent'
  BY <1>2 DEF Crash, IInv, Waiting, Backed, WritesNeedConsent, files, history
<1> QED BY <1>1, <1>3 DEF IInv

\* Every step keeps the invariant.
LEMMA Inductive == IInv /\ [Next]_vars => IInv'
<1> SUFFICES ASSUME IInv, [Next]_vars
             PROVE  IInv'
  OBVIOUS
<1>1. ASSUME NEW r \in Requests, Message(r)
      PROVE  IInv'
  BY <1>1, MessageInv
<1>2. ASSUME NEW r \in Requests, Step(r)
      PROVE  IInv'
  BY <1>2, LoopInv, WriteInv DEF Step
<1>3. CASE Crash
  BY <1>3, CrashInv
<1>4. CASE UNCHANGED vars
  BY <1>4 DEF vars, IInv, TypeOK, Waiting, Granted, Backed, WritesNeedConsent
<1> QED BY <1>1, <1>2, <1>3, <1>4 DEF Next

\* Whatever the plan, the messages and the faults, the state is well typed;
\* only tokens that were issued come back, and only proposed writes are
\* recorded as written under the confirm policy.
THEOREM ExecutorTypes == Spec => []TypeOK
<1>1. Spec => []IInv
  BY InitInv, Inductive, PTL DEF Spec
<1> QED BY <1>1, PTL DEF IInv

\* Under the confirm policy no write runs before the owner sent its token,
\* whatever the plan, and however handlers overlap, fail or die.
THEOREM ConsentedWrites == Spec => []WritesNeedConsent
<1>1. Spec => []IInv
  BY InitInv, Inductive, PTL DEF Spec
<1> QED BY <1>1, PTL DEF IInv

-----------------------------------------------------------------------------
\* From here on: messages that do not overlap, in a process that lives.  At most
\* one handler is at work.
Idle == {"idle", "done", "lost"}
Alone == \A r, q \in Requests : pc[r] \notin Idle /\ pc[q] \notin Idle => r = q

\* What the plan is parked on: nothing, or one question.
Asked(t) == parked[t].status = "pending"
NothingAsked == \A t \in Token : ~Asked(t)
OnlyAsked(t) == Asked(t) /\ \A u \in Token : Asked(u) => u = t

\* The plan is at step c with this ledger: what came before has an outcome,
\* what comes now and later has none and did nothing.
AtStep(c, ledger) ==
  \A j \in Steps :
    IF j < c THEN ledger[j] = last[j] /\ last[j] \notin {"none", "hard-fail"}
    ELSE ledger[j] = "none" /\ last[j] = "none" /\ ran[j] = 0

\* The plan just made its write in step c, and has not noted it.
JustRan(c, ledger) ==
  /\ \A j \in Steps :
       IF j < c THEN ledger[j] = last[j] /\ last[j] \notin {"none", "hard-fail"}
       ELSE ledger[j] = "none" /\ (j > c => last[j] = "none" /\ ran[j] = 0)
  /\ last[c] = "satisfied" /\ ran[c] = 1

\* Between messages a plan was not asked for, is parked, or is over.
AtRest ==
  \/ ~started /\ issued = {} /\ NothingAsked /\ \A i \in Steps : last[i] = "none" /\ ran[i] = 0
  \/ started /\ \E t \in Token : OnlyAsked(t) /\ AtStep(t[1], parked[t].ledger)
  \/ started /\ NothingAsked
     /\ ((\E i \in Steps : last[i] = "hard-fail") \/ (\A i \in Steps : last[i] # "none"))

\* The write of step c is due: under the plan's token, or by the auto policy.
WriteDue(memory) ==
  LET c == memory.cursor
  IN  /\ c \in Steps /\ Plan[c].kind = "write" /\ GuardMet(memory.ledger, c)
      /\ IF memory.from = "confirm" THEN memory.token = <<c, "confirm">> /\ OnlyAsked(memory.token)
         ELSE NothingAsked

\* What the handler that carries the plan on knows at each stage.
Carries(r, stage, memory) ==
  LET c == memory.cursor
      ledger == memory.ledger
      t == memory.token
  IN  /\ started /\ memory.from # "lone"
      /\ stage = "exec" =>
           NothingAsked /\ memory.from # "confirm" /\ c > 0 /\ (AtStep(c, ledger) \/ AtStep(c + 1, ledger))
      /\ stage = "park" =>
           /\ NothingAsked /\ c \in Steps /\ AtStep(c, ledger)
           /\ t \in Token \ issued /\ t[1] = c
           /\ IF t[2] = "confirm" THEN Plan[c].kind = "write" /\ GuardMet(ledger, c)
              ELSE t[2] = r /\ Plan[c].kind \in {"pick", "info"}
      /\ stage = "lookup" => memory.from = "confirm"
      /\ stage \in {"lookup", "write"} => WriteDue(memory) /\ AtStep(c, ledger)
      /\ stage = "record" => WriteDue(memory) /\ JustRan(c, ledger)
      /\ stage \in {"find", "resolve"} =>
           /\ t \in Token /\ t[1] = c /\ OnlyAsked(t)
           /\ IF t[2] = "confirm"
              THEN /\ memory.from = "confirm"
                   /\ \/ ledger[c] = "satisfied" /\ c \in written /\ AtStep(c + 1, ledger)
                      \/ ledger[c] = "hard-fail" /\ last[c] = "hard-fail"
              ELSE memory.from = "pick" /\ AtStep(c, ledger)

\* A replayed token of a plan that went on: it only writes what failed before.
Replays(stage, memory) ==
  LET c == memory.cursor
  IN  /\ memory.from = "lone" /\ AtRest /\ stage \in {"lookup", "write", "record"}
      /\ c \in Steps /\ Plan[c].kind = "write" /\ <<c, "confirm">> \in issued
      /\ stage = "lookup" => c \in written \/ last[c] = "hard-fail"
      /\ stage = "write" => c \notin written /\ last[c] = "hard-fail" /\ ran[c] = 0
      /\ stage = "record" => last[c] = "hard-fail" /\ ran[c] = 1

Works(r, stage, memory) == Carries(r, stage, memory) \/ Replays(stage, memory)

\* What an owner can be asked again.
Given(t) ==
  IF t[2] = "confirm"
  THEN /\ Plan[t[1]].kind = "write" /\ GuardMet(last, t[1])
       /\ Asked(t) \/ t[1] \in written \/ last[t[1]] = "hard-fail"
  ELSE Plan[t[1]].kind \in {"pick", "info"} /\ pc[t[2]] = "done"

Recording(i) == \E r \in Requests : pc[r] = "record" /\ mem[r].cursor = i

\* Writes are recorded once they were made.
WritesNoted ==
  \A i \in Steps :
    /\ i \in written => ran[i] = 1 /\ Plan[i].kind = "write"
    /\ Plan[i].kind = "write" /\ ran[i] > 0 => i \in written \/ Recording(i)

\* An answer on the way resolves what it answers.
Answering ==
  \A t \in sent :
    Plan[t[1]].kind # "info" /\ Asked(t) =>
      \E r \in Requests : pc[r] \notin Idle /\ mem[r].from \in {"confirm", "pick"} /\ mem[r].token = t

Orderly ==
  /\ Alone
  /\ \A r \in Requests : pc[r] \notin Idle => Works(r, pc[r], mem[r])
  /\ (\A r \in Requests : pc[r] \in Idle) => AtRest
  /\ \A t \in Token : Asked(t) => t \in issued
  /\ \A t \in issued : Given(t)
  /\ WritesNoted /\ AtMostOnce /\ GuardsHold /\ Answering

SerialInv == ~disturbed => Orderly

-----------------------------------------------------------------------------
\* A guard names an earlier step.
LEMMA GuardIsEarlier ==
  \A i \in Steps : i > 0 /\ (Plan[i].runIf # 0 => Plan[i].runIf \in Steps /\ Plan[i].runIf < i)
<1> SUFFICES ASSUME NEW i \in Steps
             PROVE  i > 0 /\ (Plan[i].runIf # 0 => Plan[i].runIf \in Steps /\ Plan[i].runIf < i)
  OBVIOUS
<1>1. Steps = 1 .. Len(Plan) /\ Len(Plan) \in Nat
  BY PlanAssumption DEF Steps
<1>2. \A S : Plan \in Seq(S) => Plan[i] \in S
  BY DEF Steps
<1>3. PICK g \in Nat : g = Plan[i].runIf
  <2>1. Plan[i] \in [kind : Kind, runIf : Nat]
    BY <1>2, PlanAssumption
  <2> QED
    BY <2>1
<1>4. Plan[i].runIf < i
  BY PlanAssumption DEF Steps
<1> QED
  BY <1>1, <1>3, <1>4

\* Nothing was asked for yet.
LEMMA OrderlyStarts == Init => Orderly
<1> SUFFICES ASSUME Init PROVE Orderly
  OBVIOUS
<1>1. /\ \A r \in Requests : pc[r] \in Idle
      /\ \A t \in Token : ~Asked(t)
      /\ ~started /\ issued = {} /\ sent = {} /\ written = {}
      /\ \A i \in Steps : last[i] = "none" /\ ran[i] = 0
  BY DEF Init, Idle, Asked, NoLedger
<1>2. AtRest
  BY <1>1 DEF AtRest, NothingAsked
<1>3. WritesNoted /\ AtMostOnce /\ GuardsHold /\ Answering
  BY <1>1 DEF WritesNoted, AtMostOnce, GuardsHold, Answering
<1> QED
  BY <1>1, <1>2, <1>3 DEF Orderly, Alone

\* One handler goes on; the others are idle.
LEMMA Continues ==
  ASSUME TypeOK, NEW r \in Requests, \A q \in Requests : q # r => pc[q] \in Idle,
         NEW stage, NEW memory, Goto(r, stage, memory),
         stage \notin Idle => Works(r, stage, memory)',
         stage \in Idle => AtRest',
         \A t \in Token : Asked(t)' => t \in issued',
         \A t \in issued' : Given(t)',
         WritesNoted', AtMostOnce', GuardsHold', Answering'
  PROVE  Orderly'
<1>1. /\ pc'[r] = stage /\ mem'[r] = memory
      /\ \A q \in Requests : q # r => pc'[q] = pc[q] /\ mem'[q] = mem[q]
  BY DEF TypeOK, Goto
<1>2. Alone'
  BY <1>1 DEF Alone, Idle
<1>3. \A q \in Requests : pc'[q] \notin Idle => q = r
  BY <1>1
<1>4. \A q \in Requests : pc'[q] \notin Idle => Works(q, pc[q], mem[q])'
  BY <1>1, <1>3
<1>5. (\A q \in Requests : pc'[q] \in Idle) => AtRest'
  BY <1>1
<1> QED
  BY <1>2, <1>4, <1>5 DEF Orderly, Idle

\* A step that leaves the files and the outcomes alone.
LEMMA SameFiles ==
  ASSUME UNCHANGED <<parked, written, issued, started, last, ran>>, NEW r, NEW stage, NEW memory
  PROVE  /\ Works(r, stage, memory)' <=> Works(r, stage, memory)
         /\ AtRest' <=> AtRest
         /\ NothingAsked' <=> NothingAsked
<1>1. \A t : Asked(t)' <=> Asked(t)
  BY DEF Asked
<1>2. (NothingAsked' <=> NothingAsked) /\ \A t : OnlyAsked(t)' <=> OnlyAsked(t)
  BY <1>1 DEF NothingAsked, OnlyAsked
<1>3. \A c, ledger : (AtStep(c, ledger)' <=> AtStep(c, ledger)) /\ (JustRan(c, ledger)' <=> JustRan(c, ledger))
  BY DEF AtStep, JustRan
<1>4. AtRest' <=> AtRest
  BY <1>2, <1>3 DEF AtRest
<1>5. \A m : WriteDue(m)' <=> WriteDue(m)
  BY <1>2 DEF WriteDue, GuardMet
<1>6. Carries(r, stage, memory)' <=> Carries(r, stage, memory)
  BY <1>2, <1>3, <1>5 DEF Carries, GuardMet
<1>7. Replays(stage, memory)' <=> Replays(stage, memory)
  BY <1>4 DEF Replays
<1> QED
  BY <1>2, <1>4, <1>6, <1>7 DEF Works

\* What was given and recorded stays so while no file changes and no outcome that
\* counts is lost.
LEMMA FactsStay ==
  ASSUME TypeOK, Orderly, NEW r \in Requests, pc[r] \notin {"done", "record"},
         NEW stage, NEW memory, Goto(r, stage, memory),
         UNCHANGED <<parked, issued, written, ran>>,
         \A i \in Steps : last[i] \in {"satisfied", "hard-fail"} => last'[i] = last[i]
  PROVE  /\ \A t \in Token : Asked(t)' => t \in issued'
         /\ \A t \in issued' : Given(t)'
         /\ WritesNoted' /\ AtMostOnce' /\ GuardsHold'
<1>1. \A t : Asked(t)' <=> Asked(t)
  BY DEF Asked
<1>2. \A t \in Token : Asked(t)' => t \in issued'
  BY <1>1 DEF Orderly
<1>3. \A i \in Steps : Plan[i].runIf # 0 => Plan[i].runIf \in Steps
  BY GuardIsEarlier
<1>4. \A q \in Requests : pc[q] = "done" => pc'[q] = "done"
  BY DEF TypeOK, Goto
<1>5. \A t \in issued' : Given(t)'
  <2> SUFFICES ASSUME NEW t \in issued PROVE Given(t)'
    OBVIOUS
  <2>1. t \in Token /\ Given(t)
    BY DEF Orderly, TypeOK
  <2>2. t[1] \in Steps /\ t[2] \in {"confirm"} \cup Requests
    BY <2>1, TokenParts
  <2>3. GuardMet(last, t[1]) => GuardMet(last, t[1])'
    BY <1>3, <2>2 DEF GuardMet
  <2>4. CASE t[2] = "confirm"
    BY <1>1, <2>1, <2>2, <2>3, <2>4 DEF Given
  <2>5. CASE t[2] # "confirm"
    BY <1>4, <2>1, <2>2, <2>5 DEF Given
  <2> QED
    BY <2>4, <2>5
<1>6. \A i : Recording(i) => Recording(i)'
  <2>1. \A q \in Requests : pc[q] = "record" => pc'[q] = "record" /\ mem'[q] = mem[q]
    BY DEF TypeOK, Goto
  <2> QED
    BY <2>1 DEF Recording
<1>7. WritesNoted' /\ AtMostOnce'
  BY <1>6 DEF Orderly, WritesNoted, AtMostOnce
<1>8. GuardsHold'
  BY <1>3 DEF Orderly, GuardsHold
<1> QED
  BY <1>2, <1>5, <1>7, <1>8

\* An answer on the way stays there.
LEMMA AnswerStays ==
  ASSUME TypeOK, Orderly, NEW r \in Requests, pc[r] \notin Idle,
         NEW stage, NEW memory, Goto(r, stage, memory), UNCHANGED <<parked, sent>>,
         \/ NothingAsked
         \/ mem[r].from = "lone"
         \/ stage \notin Idle /\ memory.from = mem[r].from /\ memory.token = mem[r].token
  PROVE  Answering'
<1>1. \A t : Asked(t)' <=> Asked(t)
  BY DEF Asked
<1>2. pc'[r] = stage /\ mem'[r] = memory
  BY DEF TypeOK, Goto
<1>3. sent \subseteq Token
  BY DEF TypeOK
<1>4. CASE NothingAsked
  BY <1>1, <1>3, <1>4 DEF NothingAsked, Answering
<1>5. \A t \in sent : Plan[t[1]].kind # "info" /\ Asked(t) => mem[r].from \in {"confirm", "pick"} /\ mem[r].token = t
  BY DEF Orderly, Alone, Answering
<1>6. CASE mem[r].from = "lone"
  BY <1>1, <1>5, <1>6 DEF Answering
<1>7. CASE stage \notin Idle /\ memory.from = mem[r].from /\ memory.token = mem[r].token
  <2>1. \A t \in sent : Plan[t[1]].kind # "info" /\ Asked(t) => memory.from \in {"confirm", "pick"} /\ memory.token = t
    BY <1>5, <1>7
  <2> QED
    BY <1>1, <1>2, <1>7, <2>1 DEF Answering, Idle
<1> QED
  BY <1>4, <1>6, <1>7

\* What a memory holds after an outcome is noted.
LEMMA MemoryParts ==
  ASSUME NEW m \in Memory, NEW outcome \in Outcome
  PROVE  /\ Recorded(m, outcome).cursor = m.cursor + 1
         /\ Recorded(m, outcome).ledger = [m.ledger EXCEPT ![m.cursor] = outcome]
         /\ Recorded(m, outcome).token = m.token /\ Recorded(m, outcome).from = m.from
         /\ [m EXCEPT !.cursor = @ + 1].cursor = m.cursor + 1
         /\ [m EXCEPT !.cursor = @ + 1].ledger = m.ledger
         /\ [m EXCEPT !.cursor = @ + 1].token = m.token /\ [m EXCEPT !.cursor = @ + 1].from = m.from
         /\ [m EXCEPT !.ledger[m.cursor] = outcome].cursor = m.cursor
         /\ [m EXCEPT !.ledger[m.cursor] = outcome].ledger = [m.ledger EXCEPT ![m.cursor] = outcome]
         /\ [m EXCEPT !.ledger[m.cursor] = outcome].token = m.token
         /\ [m EXCEPT !.ledger[m.cursor] = outcome].from = m.from
BY DEF Memory, Recorded

\* The plan goes on with the next step.
LEMMA StepOn ==
  ASSUME TypeOK, NEW c \in Steps, NEW ledger \in Ledger, NEW outcome \in Outcome \ {"none", "hard-fail"},
         AtStep(c, ledger), last' = [last EXCEPT ![c] = outcome],
         \A j \in Steps : j # c => ran'[j] = ran[j]
  PROVE  AtStep(c + 1, [ledger EXCEPT ![c] = outcome])'
<1>1. PICK new : new = [ledger EXCEPT ![c] = outcome]
  OBVIOUS
<1>2. new[c] = outcome /\ \A j \in Steps : j # c => new[j] = ledger[j]
  BY <1>1 DEF Ledger
<1>3. last'[c] = outcome /\ \A j \in Steps : j # c => last'[j] = last[j]
  BY DEF TypeOK, Ledger
<1>4. outcome \notin {"none", "hard-fail"}
  OBVIOUS
<1>5. \A j \in Steps : (j < c + 1 <=> j < c \/ j = c)
  BY StepsNat
<1>6. AtStep(c + 1, new)'
  <2> SUFFICES ASSUME NEW j \in Steps
               PROVE  IF j < c + 1 THEN new[j] = last'[j] /\ last'[j] \notin {"none", "hard-fail"}
                      ELSE new[j] = "none" /\ last'[j] = "none" /\ ran'[j] = 0
    BY DEF AtStep
  <2>1. CASE j < c
    BY <1>2, <1>3, <1>5, <2>1, StepsNat DEF AtStep
  <2>2. CASE j = c
    BY <1>2, <1>3, <1>4, <1>5, <2>2
  <2>3. CASE ~(j < c) /\ j # c
    BY <1>2, <1>3, <1>5, <2>3 DEF AtStep
  <2> QED
    BY <2>1, <2>2, <2>3
<1> QED
  BY <1>1, <1>6

-----------------------------------------------------------------------------
\* The messages.
LEMMA Messaging ==
  ASSUME IInv, Orderly, NEW r \in Requests, Message(r), ~disturbed'
  PROVE  Orderly'
<1>1. pc[r] = "idle" /\ \A q \in Requests : pc[q] \in Idle
  BY DEF Message, Request, Confirm, Pick, Arrives, InFlight, Idle
<1>2. TypeOK /\ AtRest /\ Alone /\ r \notin {"confirm"}
  BY <1>1, PlanAssumption DEF IInv, Orderly
<1>3. \A t \in sent : Plan[t[1]].kind # "info" => ~Asked(t)
  BY <1>1 DEF Orderly, Answering
<1>4. CASE Request(r)
  <2>1. PICK memory \in Memory : memory = [NoMemory EXCEPT !.cursor = 1]
    BY NoMemoryType DEF Memory
  <2>2. /\ Goto(r, "exec", memory) /\ ~started /\ started' = TRUE
        /\ UNCHANGED <<parked, written, issued, ran, last, sent>>
    BY <1>4, <2>1 DEF Request, files, history
  <2>3. NothingAsked /\ \A i \in Steps : last[i] = "none" /\ ran[i] = 0
    BY <1>2, <2>2 DEF AtRest
  <2>4. memory.cursor = 1 /\ memory.ledger = NoLedger /\ memory.from = "request"
    BY <2>1 DEF NoMemory
  <2>5. AtStep(1, NoLedger)'
    BY <2>2, <2>3, GuardIsEarlier, StepsNat DEF AtStep, NoLedger
  <2>6. NothingAsked'
    BY <2>2, <2>3 DEF NothingAsked, Asked
  <2>7. Works(r, "exec", memory)'
    BY <2>2, <2>4, <2>5, <2>6 DEF Works, Carries
  <2>8. Answering'
    BY <2>6, <1>2, <2>2 DEF Answering, NothingAsked, TypeOK
  <2>9. /\ \A t \in Token : Asked(t)' => t \in issued'
        /\ \A t \in issued' : Given(t)'
        /\ WritesNoted' /\ AtMostOnce' /\ GuardsHold'
    BY <1>1, <1>2, <2>2, FactsStay DEF Orderly
  <2> QED
    BY <1>1, <1>2, <2>2, <2>7, <2>8, <2>9, Continues DEF Idle
<1>5. ASSUME NEW i \in Steps, Confirm(r, i) PROVE Orderly'
  <2>1. PICK t \in Token : t = <<i, "confirm">>
    BY DEF Token
  <2>2. PICK memory : memory = [cursor |-> i, token |-> t,
                                ledger |-> IF Asked(t) THEN parked[t].ledger ELSE NoLedger,
                                from |-> IF Asked(t) THEN "confirm" ELSE "lone"]
    OBVIOUS
  <2>3. /\ Goto(r, "lookup", memory) /\ t \in issued /\ sent' = sent \cup {t}
        /\ UNCHANGED <<parked, written, issued, started, ran, last>>
    BY <1>5, <2>1, <2>2 DEF Confirm, files, Asked
  <2>4. t[1] = i /\ t[2] = "confirm" /\ Given(t) /\ started
    BY <1>2, <2>1, <2>3 DEF Orderly, AtRest
  <2>5. Plan[i].kind = "write" /\ GuardMet(last, i) /\ (Asked(t) \/ i \in written \/ last[i] = "hard-fail")
    BY <2>4 DEF Given
  <2>6. Works(r, "lookup", memory)
    <3>1. CASE Asked(t)
      <4>1. OnlyAsked(t) /\ AtStep(i, parked[t].ledger)
        BY <1>2, <2>3, <2>4, <3>1 DEF AtRest, NothingAsked, OnlyAsked
      <4>2. GuardMet(parked[t].ledger, i)
        BY <2>5, <4>1, GuardIsEarlier DEF GuardMet, AtStep
      <4>3. memory.cursor = i /\ memory.token = t /\ memory.ledger = parked[t].ledger /\ memory.from = "confirm"
        BY <2>2, <3>1
      <4> QED
        BY <2>1, <2>4, <2>5, <4>1, <4>2, <4>3 DEF Works, Carries, WriteDue
    <3>2. CASE ~Asked(t)
      <4>1. memory.cursor = i /\ memory.from = "lone"
        BY <2>2, <3>2
      <4> QED
        BY <1>2, <2>1, <2>3, <2>5, <3>2, <4>1 DEF Works, Replays
    <3> QED
      BY <3>1, <3>2
  <2>7. Works(r, "lookup", memory)'
    BY <2>3, <2>6, SameFiles
  <2>8. Answering'
    <3>1. pc'[r] = "lookup" /\ mem'[r] = memory /\ \A u : Asked(u)' <=> Asked(u)
      BY <1>2, <2>3 DEF TypeOK, Goto, Asked
    <3>2. Asked(t) => memory.from = "confirm" /\ memory.token = t
      BY <2>2
    <3> QED
      BY <1>3, <2>3, <3>1, <3>2 DEF Answering, Idle
  <2>9. /\ \A u \in Token : Asked(u)' => u \in issued'
        /\ \A u \in issued' : Given(u)'
        /\ WritesNoted' /\ AtMostOnce' /\ GuardsHold'
    BY <1>1, <1>2, <2>3, FactsStay DEF Orderly
  <2> QED
    BY <1>1, <1>2, <2>3, <2>7, <2>8, <2>9, Continues DEF Idle
<1>6. ASSUME NEW t \in Token, Pick(r, t) PROVE Orderly'
  <2>1. /\ t \in issued /\ t[2] # "confirm" /\ sent' = sent \cup {t}
        /\ UNCHANGED <<parked, written, issued, started, ran, last>>
    BY <1>6 DEF Pick, files
  <2>2. started /\ Plan[t[1]].kind \in {"pick", "info"} /\ t[1] \in Steps
    BY <1>2, <2>1, TokenParts DEF Orderly, AtRest, Given
  <2>3. CASE Asked(t) /\ Plan[t[1]].kind = "pick"
    <3>1. PICK memory : memory = [cursor |-> t[1], token |-> t, ledger |-> parked[t].ledger, from |-> "pick"]
      OBVIOUS
    <3>2. Goto(r, "find", memory)
      BY <1>6, <2>3, <3>1 DEF Pick, Asked
    <3>3. OnlyAsked(t) /\ AtStep(t[1], parked[t].ledger)
      BY <1>2, <2>2, <2>3 DEF AtRest, NothingAsked, OnlyAsked
    <3>4. memory.cursor = t[1] /\ memory.token = t /\ memory.ledger = parked[t].ledger /\ memory.from = "pick"
      BY <3>1
    <3>5. Works(r, "find", memory)
      BY <2>1, <2>2, <3>3, <3>4 DEF Works, Carries
    <3>6. Works(r, "find", memory)'
      BY <2>1, <3>5, SameFiles
    <3>7. Answering'
      <4>1. pc'[r] = "find" /\ mem'[r] = memory /\ \A u : Asked(u)' <=> Asked(u)
        BY <1>2, <2>1, <3>2 DEF TypeOK, Goto, Asked
      <4> QED
        BY <1>3, <2>1, <3>4, <4>1 DEF Answering, Idle
    <3>8. /\ \A u \in Token : Asked(u)' => u \in issued'
          /\ \A u \in issued' : Given(u)'
          /\ WritesNoted' /\ AtMostOnce' /\ GuardsHold'
      BY <1>1, <1>2, <2>1, <3>2, FactsStay DEF Orderly
    <3> QED
      BY <1>1, <1>2, <3>2, <3>6, <3>7, <3>8, Continues DEF Idle
  <2>4. CASE ~(Asked(t) /\ Plan[t[1]].kind = "pick")
    <3>1. Goto(r, "done", NoMemory)
      BY <1>6, <2>4 DEF Pick, Asked, Reply
    <3>2. AtRest'
      BY <1>2, <2>1, SameFiles
    <3>3. Answering'
      <4>1. \A u : Asked(u)' <=> Asked(u)
        BY <2>1 DEF Asked
      <4> QED
        BY <1>3, <2>1, <2>2, <2>4, <4>1 DEF Answering
    <3>4. /\ \A u \in Token : Asked(u)' => u \in issued'
          /\ \A u \in issued' : Given(u)'
          /\ WritesNoted' /\ AtMostOnce' /\ GuardsHold'
      BY <1>1, <1>2, <2>1, <3>1, FactsStay DEF Orderly
    <3> QED
      BY <1>1, <1>2, <3>1, <3>2, <3>3, <3>4, Continues DEF Idle
  <2> QED
    BY <2>3, <2>4
<1> QED
  BY <1>4, <1>5, <1>6 DEF Message
-----------------------------------------------------------------------------
\* The handler that carries the plan on, and the one that replays a token, one
\* step each.  First what both lemmas below start from.
LEMMA AtWorkAlone ==
  ASSUME IInv, Orderly, NEW r \in Requests, pc[r] \notin Idle
  PROVE  /\ TypeOK /\ mem[r] \in Memory /\ pc[r] \notin {"done"} /\ started
         /\ \A q \in Requests : q # r => pc[q] \in Idle
         /\ Works(r, pc[r], mem[r])
         /\ \A i : Recording(i) => pc[r] = "record" /\ mem[r].cursor = i
<1>1. TypeOK /\ mem[r] \in Memory
  BY DEF IInv, TypeOK
<1>2. \A q \in Requests : q # r => pc[q] \in Idle
  BY DEF Orderly, Alone
<1>3. Works(r, pc[r], mem[r])
  BY DEF Orderly
<1>4. started
  <2>1. CASE Carries(r, pc[r], mem[r])
    BY <2>1 DEF Carries
  <2>2. CASE Replays(pc[r], mem[r])
    BY <2>2 DEF Replays, AtRest
  <2> QED
    BY <1>3, <2>1, <2>2 DEF Works
<1>5. \A i : Recording(i) => pc[r] = "record" /\ mem[r].cursor = i
  BY <1>2 DEF Recording, Idle
<1> QED
  BY <1>1, <1>2, <1>3, <1>4, <1>5 DEF Idle

\* What the loop over the steps knows.
LEMMA InLoop ==
  ASSUME IInv, Orderly, NEW r \in Requests, pc[r] = "exec"
  PROVE  /\ NothingAsked /\ mem[r].cursor > 0 /\ mem[r].from \in {"request", "pick"}
         /\ AtStep(mem[r].cursor, mem[r].ledger) \/ AtStep(mem[r].cursor + 1, mem[r].ledger)
         /\ mem[r].cursor \in Steps =>
              IF mem[r].ledger[mem[r].cursor] = "none" THEN AtStep(mem[r].cursor, mem[r].ledger)
              ELSE AtStep(mem[r].cursor + 1, mem[r].ledger)
<1>1. Works(r, pc[r], mem[r]) /\ mem[r] \in Memory
  BY AtWorkAlone DEF Idle
<1>2. Carries(r, "exec", mem[r])
  BY <1>1 DEF Works, Replays
<1>3. NothingAsked /\ mem[r].cursor > 0 /\ mem[r].from \notin {"confirm", "lone"}
      /\ (AtStep(mem[r].cursor, mem[r].ledger) \/ AtStep(mem[r].cursor + 1, mem[r].ledger))
  BY <1>2 DEF Carries
<1>4. mem[r].from \in {"request", "confirm", "pick", "lone"}
  BY <1>1 DEF Memory
<1>5. ASSUME mem[r].cursor \in Steps
      PROVE  IF mem[r].ledger[mem[r].cursor] = "none" THEN AtStep(mem[r].cursor, mem[r].ledger)
             ELSE AtStep(mem[r].cursor + 1, mem[r].ledger)
  <2>1. PICK c \in Steps : c = mem[r].cursor
    BY <1>5
  <2>2. c \in Nat /\ ~(c < c) /\ c < c + 1
    BY StepsNat
  <2>3. AtStep(c, mem[r].ledger) => mem[r].ledger[c] = "none"
    BY <2>2 DEF AtStep
  <2>4. AtStep(c + 1, mem[r].ledger) => mem[r].ledger[c] # "none"
    BY <2>2 DEF AtStep
  <2> QED
    BY <1>3, <2>1, <2>3, <2>4
<1> QED
  BY <1>3, <1>4, <1>5

LEMMA Skipping ==
  ASSUME IInv, Orderly, NEW r \in Requests, Skip(r)
  PROVE  Orderly'
<1>1. pc[r] = "exec" /\ pc[r] \notin Idle /\ pc[r] \notin {"done", "record"}
  BY DEF Skip, Idle
<1>2. TypeOK /\ mem[r] \in Memory /\ started /\ \A q \in Requests : q # r => pc[q] \in Idle
  BY <1>1, AtWorkAlone
<1>3. PICK m \in Memory : m = mem[r]
  BY <1>2
<1>4. PICK c \in Steps : c = m.cursor
  BY <1>3 DEF Skip
<1>5. /\ UNCHANGED <<parked, written, issued, started, ran, sent>> /\ m.ledger \in Ledger
      /\ NothingAsked /\ m.from \in {"request", "pick"} /\ c \in Nat /\ c > 0 /\ "skipped" \in Outcome
      /\ IF m.ledger[c] = "none" THEN AtStep(c, m.ledger) ELSE AtStep(c + 1, m.ledger)
  BY <1>1, <1>3, <1>4, InLoop, StepsNat DEF Skip, files, Memory, Outcome
<1>6. PICK memory :
        /\ Goto(r, "exec", memory) /\ memory.cursor = c + 1
        /\ memory.token = m.token /\ memory.from = m.from
        /\ \A i \in Steps : last[i] \in {"satisfied", "hard-fail"} => last'[i] = last[i]
        /\ AtStep(c + 1, memory.ledger)'
  <2>1. CASE m.ledger[c] # "none"
    <3>1. Goto(r, "exec", [m EXCEPT !.cursor = @ + 1]) /\ UNCHANGED last
      BY <1>3, <1>4, <2>1 DEF Skip
    <3>2. AtStep(c + 1, m.ledger)'
      BY <1>5, <2>1, <3>1 DEF AtStep
    <3>3. PICK n : n = [m EXCEPT !.cursor = @ + 1]
      OBVIOUS
    <3>4. n.cursor = c + 1 /\ n.ledger = m.ledger /\ n.token = m.token /\ n.from = m.from
      BY <1>4, <1>5, <3>3, MemoryParts
    <3> QED
      BY <3>1, <3>2, <3>3, <3>4
  <2>2. CASE m.ledger[c] = "none"
    <3>1. Goto(r, "exec", Recorded(m, "skipped")) /\ last' = [last EXCEPT ![c] = "skipped"]
      BY <1>3, <1>4, <2>2 DEF Skip
    <3>2. AtStep(c, m.ledger)
      BY <1>5, <2>2
    <3>3. AtStep(c + 1, [m.ledger EXCEPT ![c] = "skipped"])'
      BY <1>2, <1>5, <3>1, <3>2, StepOn
    <3>4. last[c] = "none" /\ last \in Ledger
      BY <1>2, <1>5, <3>2 DEF AtStep, TypeOK
    <3>5. \A i \in Steps : last[i] \in {"satisfied", "hard-fail"} => last'[i] = last[i]
      BY <3>1, <3>4 DEF Ledger
    <3>6. PICK n : n = Recorded(m, "skipped")
      OBVIOUS
    <3>7. /\ n.cursor = c + 1 /\ n.ledger = [m.ledger EXCEPT ![c] = "skipped"]
          /\ n.token = m.token /\ n.from = m.from
      BY <1>4, <1>5, <3>6, MemoryParts
    <3> QED
      BY <3>1, <3>3, <3>5, <3>6, <3>7
  <2> QED
    BY <2>1, <2>2
<1>7. NothingAsked'
  BY <1>5 DEF NothingAsked, Asked
<1>8. Works(r, "exec", memory)'
  BY <1>2, <1>5, <1>6, <1>7 DEF Works, Carries
<1>9. Answering'
  BY <1>1, <1>2, <1>5, <1>6, AnswerStays
<1>10. /\ \A u \in Token : Asked(u)' => u \in issued'
       /\ \A u \in issued' : Given(u)'
       /\ WritesNoted' /\ AtMostOnce' /\ GuardsHold'
  BY <1>1, <1>2, <1>5, <1>6, FactsStay
<1> QED
  BY <1>2, <1>6, <1>8, <1>9, <1>10, Continues DEF Idle

LEMMA Finishing ==
  ASSUME IInv, Orderly, NEW r \in Requests, Finish(r)
  PROVE  Orderly'
<1>1. pc[r] = "exec" /\ pc[r] \notin Idle /\ pc[r] \notin {"done", "record"} /\ mem[r].cursor \notin Steps
      /\ Goto(r, "done", NoMemory) /\ UNCHANGED <<parked, written, issued, started, ran, last, sent>>
  BY DEF Finish, Idle, Reply, files, history
<1>2. TypeOK /\ mem[r] \in Memory /\ started /\ \A q \in Requests : q # r => pc[q] \in Idle
  BY <1>1, AtWorkAlone
<1>3. PICK c \in Nat : c = mem[r].cursor /\ c \notin Steps
  BY <1>1, <1>2 DEF Memory
<1>4. NothingAsked /\ c > 0 /\ (AtStep(c, mem[r].ledger) \/ AtStep(c + 1, mem[r].ledger))
  BY <1>1, <1>3, InLoop
<1>5. \A i \in Steps : i < c /\ i < c + 1
  BY <1>3, <1>4, PlanAssumption DEF Steps
<1>6. AtRest
  BY <1>2, <1>4, <1>5 DEF AtRest, AtStep
<1>7. AtRest'
  BY <1>1, <1>6, SameFiles
<1>8. Answering'
  BY <1>1, <1>2, <1>4, AnswerStays
<1>9. /\ \A u \in Token : Asked(u)' => u \in issued'
      /\ \A u \in issued' : Given(u)'
      /\ WritesNoted' /\ AtMostOnce' /\ GuardsHold'
  BY <1>1, <1>2, FactsStay
<1> QED
  BY <1>1, <1>2, <1>7, <1>8, <1>9, Continues DEF Idle
\* A step that runs at once.
LEMMA Running ==
  ASSUME IInv, Orderly, NEW r \in Requests, NEW o \in {"satisfied", "soft-miss", "hard-fail"}, RunStep(r, o)
  PROVE  Orderly'
<1>1. pc[r] = "exec" /\ pc[r] \notin Idle /\ pc[r] \notin {"done", "record"}
      /\ UNCHANGED <<parked, written, issued, started, sent>>
  BY DEF RunStep, At, Idle, files
<1>2. TypeOK /\ mem[r] \in Memory /\ started /\ \A q \in Requests : q # r => pc[q] \in Idle
  BY <1>1, AtWorkAlone
<1>3. PICK m \in Memory : m = mem[r]
  BY <1>2
<1>4. PICK c \in Steps : c = m.cursor /\ m.ledger[c] = "none" /\ GuardMet(m.ledger, c) /\ Plan[c].kind # "write"
  BY <1>3 DEF RunStep, At, Runs
<1>5. /\ ran' = [ran EXCEPT ![c] = @ + 1] /\ last' = [last EXCEPT ![c] = o]
      /\ IF o = "hard-fail" THEN Goto(r, "done", NoMemory) ELSE Goto(r, "exec", Recorded(m, o))
  BY <1>3, <1>4 DEF RunStep, Reply
<1>6. /\ NothingAsked /\ m.from \in {"request", "pick"} /\ AtStep(c, m.ledger) /\ m.ledger \in Ledger
      /\ c \in Nat /\ c > 0
  BY <1>1, <1>3, <1>4, InLoop, StepsNat DEF Memory
<1>7. /\ last[c] = "none" /\ ran[c] = 0 /\ last'[c] = o /\ ran'[c] = 1
      /\ \A j \in Steps : j # c => last'[j] = last[j] /\ ran'[j] = ran[j]
  <2>1. ~(c < c)
    BY <1>6
  <2>2. last[c] = "none" /\ ran[c] = 0
    BY <1>6, <2>1 DEF AtStep
  <2> QED
    BY <1>2, <1>5, <2>2 DEF TypeOK, Ledger
<1>8. NothingAsked'
  BY <1>1 , <1>6 DEF NothingAsked, Asked
<1>9. Answering'
  BY <1>1, <1>2, <1>8 DEF Answering, NothingAsked, TypeOK
<1>10. \A u \in Token : Asked(u)' => u \in issued'
  BY <1>8 DEF NothingAsked
<1>11. \A q \in Requests : pc[q] = "done" => pc'[q] = "done"
  BY <1>1, <1>2, <1>5 DEF TypeOK, Goto
<1>12. \A u \in issued' : Given(u)'
  <2> SUFFICES ASSUME NEW u \in issued PROVE Given(u)'
    BY <1>1
  <2>1. u \in Token /\ Given(u) /\ ~Asked(u) /\ ~Asked(u)' /\ u[1] \in Steps /\ u[2] \in {"confirm"} \cup Requests
    BY <1>2, <1>6, <1>8, TokenParts DEF Orderly, TypeOK, NothingAsked
  <2>2. \A i \in Steps : last[i] \in {"satisfied", "hard-fail"} => last'[i] = last[i]
    BY <1>7
  <2>3. GuardMet(last, u[1]) => GuardMet(last, u[1])'
    BY <2>1, <2>2, GuardIsEarlier DEF GuardMet
  <2>4. CASE u[2] = "confirm"
    BY <1>1, <2>1, <2>2, <2>3, <2>4 DEF Given
  <2>5. CASE u[2] # "confirm"
    BY <1>11, <2>1, <2>5 DEF Given
  <2> QED
    BY <2>4, <2>5
<1>13. WritesNoted' /\ AtMostOnce'
  <2>1. \A i \in Steps : Plan[i].kind = "write" => ran'[i] = ran[i] /\ ~Recording(i)
    BY <1>1, <1>4, <1>7, AtWorkAlone
  <2>2. \A i \in written : i # c
    BY <1>4 DEF Orderly, WritesNoted
  <2>3. WritesNoted'
    BY <1>1, <1>7, <2>1, <2>2 DEF Orderly, WritesNoted
  <2> QED
    BY <1>7, <2>3 DEF Orderly, AtMostOnce
<1>14. GuardsHold'
  <2> SUFFICES ASSUME NEW j \in Steps, ran'[j] > 0, Plan[j].runIf # 0 PROVE last'[Plan[j].runIf] = "satisfied"
    BY DEF GuardsHold
  <2>1. PICK g \in Steps : g = Plan[j].runIf /\ g < j
    BY GuardIsEarlier
  <2>2. CASE j = c
    BY <1>4, <1>6, <1>7, <2>1, <2>2, StepsNat DEF GuardMet, AtStep
  <2>3. CASE j # c
    BY <1>7, <2>1, <2>3 DEF Orderly, GuardsHold
  <2> QED
    BY <2>2, <2>3
<1>15. CASE o = "hard-fail"
  <2>1. AtRest'
    BY <1>1, <1>2, <1>7, <1>8, <1>15 DEF AtRest
  <2> QED
    BY <1>2, <1>5, <1>9, <1>10, <1>12, <1>13, <1>14, <1>15, <2>1, Continues DEF Idle
<1>16. CASE o # "hard-fail"
  <2>1. PICK memory : memory = Recorded(m, o)
    OBVIOUS
  <2>2. o \in Outcome \ {"none", "hard-fail"} /\ o \in Outcome
    BY <1>16 DEF Outcome
  <2>3. memory.cursor = c + 1 /\ memory.ledger = [m.ledger EXCEPT ![c] = o] /\ memory.from = m.from
    BY <1>4, <2>1, <2>2, MemoryParts
  <2>4. AtStep(c + 1, memory.ledger)'
    <3>1. \A j \in Steps : j # c => ran'[j] = ran[j]
      BY <1>7
    <3>2. AtStep(c + 1, [m.ledger EXCEPT ![c] = o])'
      BY <1>2, <1>5, <1>6, <2>2, <3>1, StepOn
    <3>3. PICK n : n = [m.ledger EXCEPT ![c] = o]
      OBVIOUS
    <3> QED
      BY <2>3, <3>2, <3>3
  <2>5. Works(r, "exec", memory)'
    BY <1>1, <1>2, <1>6, <1>8, <2>3, <2>4 DEF Works, Carries
  <2>6. Goto(r, "exec", memory)
    BY <1>5, <1>16, <2>1
  <2> QED
    BY <1>2, <1>9, <1>10, <1>12, <1>13, <1>14, <2>5, <2>6, Continues DEF Idle
<1> QED
  BY <1>15, <1>16

\* A write is due, or the plan asks.
LEMMA Reaching ==
  ASSUME IInv, Orderly, NEW r \in Requests, ReachWrite(r) \/ Ask(r)
  PROVE  Orderly'
<1>1. pc[r] = "exec" /\ pc[r] \notin Idle /\ pc[r] \notin {"done", "record"}
      /\ UNCHANGED <<parked, written, issued, started, ran, last, sent>>
  BY DEF ReachWrite, Ask, At, Idle, files, history
<1>2. TypeOK /\ mem[r] \in Memory /\ started /\ \A q \in Requests : q # r => pc[q] \in Idle
      /\ \A i : ~Recording(i)
  BY <1>1, AtWorkAlone
<1>3. PICK m \in Memory : m = mem[r]
  BY <1>2
<1>4. PICK c \in Steps : c = m.cursor /\ m.ledger[c] = "none" /\ GuardMet(m.ledger, c)
  BY <1>3 DEF ReachWrite, Ask, At
<1>5. NothingAsked /\ m.from \in {"request", "pick"} /\ AtStep(c, m.ledger)
  BY <1>1, <1>3, <1>4, InLoop
<1>6. last[c] = "none" /\ ran[c] = 0
  <2>1. ~(c < c)
    BY StepsNat
  <2> QED
    BY <1>5, <2>1 DEF AtStep
<1>7. c \notin written
  BY <1>6 DEF Orderly, WritesNoted
<1>8. PICK stage, memory :
        /\ Goto(r, stage, memory) /\ stage \in {"write", "park"} /\ memory.cursor = c
        /\ memory.ledger = m.ledger /\ memory.from = m.from
        /\ stage = "write" => Plan[c].kind = "write"
        /\ stage = "park" =>
             /\ memory.token \in Token \ issued /\ memory.token[1] = c
             /\ IF memory.token[2] = "confirm" THEN Plan[c].kind = "write"
                ELSE memory.token[2] = r /\ Plan[c].kind \in {"pick", "info"}
  <2>1. ASSUME NEW t PROVE /\ [m EXCEPT !.token = t].cursor = c /\ [m EXCEPT !.token = t].ledger = m.ledger
                           /\ [m EXCEPT !.token = t].from = m.from /\ [m EXCEPT !.token = t].token = t
    BY <1>4 DEF Memory
  <2>2. CASE ReachWrite(r)
    <3>1. Plan[c].kind = "write"
      BY <1>3, <1>4, <2>2 DEF ReachWrite, At
    <3>2. PICK t \in Token : t = <<c, "confirm">>
      BY DEF Token
    <3>3. t[1] = c /\ t[2] = "confirm"
      BY <3>2
    <3>4. t \notin issued
      BY <1>5, <1>6, <1>7, <3>3 DEF Orderly, Given, NothingAsked
    <3>5. Goto(r, "write", m) \/ Goto(r, "park", [m EXCEPT !.token = t])
      BY <1>3, <1>4, <1>7, <2>2, <3>2 DEF ReachWrite
    <3>6. CASE Goto(r, "write", m)
      BY <1>4, <3>1, <3>6
    <3>7. CASE Goto(r, "park", [m EXCEPT !.token = t])
      <4>1. PICK n : n = [m EXCEPT !.token = t]
        OBVIOUS
      <4>2. n.cursor = c /\ n.ledger = m.ledger /\ n.from = m.from /\ n.token = t
        BY <2>1, <4>1
      <4> QED
        BY <3>1, <3>3, <3>4, <3>7, <4>1, <4>2
    <3> QED
      BY <3>5, <3>6, <3>7
  <2>3. CASE Ask(r)
    <3>1. Plan[c].kind \in {"pick", "info"}
      BY <1>3, <1>4, <2>3 DEF Ask, At
    <3>2. PICK t \in Token : t = <<c, r>>
      BY DEF Token
    <3>3. t[1] = c /\ t[2] = r /\ r # "confirm"
      BY <3>2, PlanAssumption
    <3>4. t \notin issued
      BY <1>1, <3>3 DEF Orderly, Given
    <3>5. Goto(r, "park", [m EXCEPT !.token = t])
      BY <1>3, <1>4, <2>3, <3>2 DEF Ask
    <3>6. PICK n : n = [m EXCEPT !.token = t]
      OBVIOUS
    <3>7. n.cursor = c /\ n.ledger = m.ledger /\ n.from = m.from /\ n.token = t
      BY <2>1, <3>6
    <3> QED
      BY <3>1, <3>3, <3>4, <3>5, <3>6, <3>7
  <2> QED
    BY <2>2, <2>3
<1>9. Works(r, stage, memory)
  <2>1. CASE stage = "write"
    BY <1>2, <1>4, <1>5, <1>8, <2>1 DEF Works, Carries, WriteDue
  <2>2. CASE stage = "park"
    BY <1>2, <1>4, <1>5, <1>8, <2>2 DEF Works, Carries
  <2> QED
    BY <1>8, <2>1, <2>2
<1>10. Works(r, stage, memory)'
  BY <1>1, <1>9, SameFiles
<1>11. Answering'
  BY <1>1, <1>2, <1>5, <1>8, AnswerStays
<1>12. /\ \A u \in Token : Asked(u)' => u \in issued'
       /\ \A u \in issued' : Given(u)'
       /\ WritesNoted' /\ AtMostOnce' /\ GuardsHold'
  BY <1>1, <1>2, <1>8, FactsStay
<1> QED
  BY <1>2, <1>8, <1>10, <1>11, <1>12, Continues DEF Idle

\* What was given can be asked again while no outcome that counts is lost and
\* what is no longer asked was written or failed.
LEMMA GivenStays ==
  ASSUME TypeOK, Orderly, NEW r \in Requests, pc[r] # "done",
         NEW stage, NEW memory, Goto(r, stage, memory), UNCHANGED issued, written \subseteq written',
         \A i \in Steps : last[i] \in {"satisfied", "hard-fail"} => last'[i] = last[i],
         \A t \in issued : t[2] = "confirm" /\ Asked(t) =>
           Asked(t)' \/ t[1] \in written' \/ last'[t[1]] = "hard-fail"
  PROVE  \A t \in issued' : Given(t)'
<1> SUFFICES ASSUME NEW t \in issued PROVE Given(t)'
  OBVIOUS
<1>1. t \in Token /\ Given(t) /\ t[1] \in Steps /\ t[2] \in {"confirm"} \cup Requests
  BY TokenParts DEF Orderly, TypeOK
<1>2. GuardMet(last, t[1]) => GuardMet(last, t[1])'
  BY <1>1, GuardIsEarlier DEF GuardMet
<1>3. \A q \in Requests : pc[q] = "done" => pc'[q] = "done"
  BY DEF TypeOK, Goto
<1>4. CASE t[2] = "confirm"
  <2>1. Asked(t) => Asked(t)' \/ t[1] \in written' \/ last'[t[1]] = "hard-fail"
    BY <1>4
  <2>2. last[t[1]] = "hard-fail" => last'[t[1]] = "hard-fail"
    BY <1>1
  <2>3. t[1] \in written => t[1] \in written'
    OBVIOUS
  <2> QED
    BY <1>1, <1>2, <1>4, <2>1, <2>2, <2>3 DEF Given
<1>5. CASE t[2] # "confirm"
  BY <1>1, <1>3, <1>5 DEF Given
<1> QED
  BY <1>4, <1>5

\* The plan is parked, and its owner told the token.
LEMMA Parking ==
  ASSUME IInv, Orderly, NEW r \in Requests, Park(r)
  PROVE  Orderly'
<1>1. pc[r] = "park" /\ pc[r] \notin Idle /\ Goto(r, "done", NoMemory)
      /\ UNCHANGED <<written, started, ran, last, sent>>
  BY DEF Park, Idle, Reply, history
<1>2. TypeOK /\ mem[r] \in Memory /\ \A q \in Requests : q # r => pc[q] \in Idle
  BY <1>1, AtWorkAlone
<1>3. Carries(r, "park", mem[r])
  BY <1>1, AtWorkAlone DEF Works, Replays
<1>4. PICK t \in Token : t = mem[r].token
  BY <1>3 DEF Carries
<1>5. PICK c \in Steps : c = mem[r].cursor
  BY <1>3 DEF Carries
<1>6. PICK ledger : ledger = mem[r].ledger
  OBVIOUS
<1>7. /\ started /\ NothingAsked /\ t \notin issued /\ t[1] = c /\ AtStep(c, ledger)
      /\ IF t[2] = "confirm" THEN Plan[c].kind = "write" /\ GuardMet(ledger, c)
         ELSE t[2] = r /\ Plan[c].kind \in {"pick", "info"}
  BY <1>3, <1>4, <1>5, <1>6 DEF Carries
<1>8. parked' = [parked EXCEPT ![t] = [status |-> "pending", ledger |-> ledger]] /\ issued' = issued \cup {t}
  BY <1>4, <1>6 DEF Park
<1>9. parked'[t].status = "pending" /\ parked'[t].ledger = ledger /\ \A u \in Token : u # t => parked'[u] = parked[u]
  BY <1>2, <1>8 DEF TypeOK
<1>10. Asked(t)' /\ \A u \in Token : Asked(u)' => u = t
  BY <1>7, <1>9 DEF Asked, NothingAsked
<1>11. AtRest'
  <2>1. AtStep(c, ledger)'
    BY <1>1, <1>7 DEF AtStep
  <2>2. OnlyAsked(t)'
    BY <1>10 DEF OnlyAsked
  <2> QED
    BY <1>1, <1>7, <1>9, <2>1, <2>2 DEF AtRest
<1>12. \A u \in issued' : Given(u)'
  <2>1. \A q \in Requests : pc[q] = "done" => pc'[q] = "done"
    BY <1>1, <1>2 DEF TypeOK, Goto
  <2>2. ASSUME NEW u \in issued PROVE Given(u)'
    <3>1. u \in Token /\ Given(u) /\ ~Asked(u) /\ u[1] \in Steps /\ u[2] \in {"confirm"} \cup Requests
      BY <1>2, <1>7, TokenParts DEF Orderly, TypeOK, NothingAsked
    <3>2. GuardMet(last, u[1]) => GuardMet(last, u[1])'
      BY <1>1 DEF GuardMet
    <3> QED
      BY <1>1, <2>1, <3>1, <3>2 DEF Given
  <2>3. Given(t)'
    <3>1. pc'[r] = "done"
      BY <1>1, <1>2 DEF TypeOK, Goto
    <3>2. GuardMet(ledger, c) => GuardMet(last, c)'
      BY <1>1, <1>7, GuardIsEarlier DEF GuardMet, AtStep
    <3> QED
      BY <1>7, <1>10, <3>1, <3>2 DEF Given
  <2> QED
    BY <1>8, <2>2, <2>3
<1>13. \A u \in Token : Asked(u)' => u \in issued'
  BY <1>8, <1>10
<1>14. WritesNoted' /\ AtMostOnce' /\ GuardsHold'
  <2>1. \A i \in Steps : ~Recording(i)
    BY <1>1, AtWorkAlone
  <2> QED
    BY <1>1, <2>1 DEF Orderly, WritesNoted, AtMostOnce, GuardsHold
<1>15. Answering'
  <2>1. \A u \in sent : u \in Token /\ u # t
    BY <1>2, <1>7 DEF TypeOK
  <2> QED
    BY <1>1, <1>10, <2>1 DEF Answering
<1> QED
  BY <1>1, <1>2, <1>11, <1>12, <1>13, <1>14, <1>15, Continues DEF Idle

\* A write that was made is not made again; any other is due.
LEMMA LookingUp ==
  ASSUME IInv, Orderly, NEW r \in Requests, Lookup(r)
  PROVE  Orderly'
<1>1. pc[r] = "lookup" /\ pc[r] \notin Idle /\ pc[r] \notin {"done", "record"}
      /\ UNCHANGED <<parked, written, issued, started, ran, last, sent>>
  BY DEF Lookup, Idle, files, history
<1>2. TypeOK /\ mem[r] \in Memory /\ started /\ (\A q \in Requests : q # r => pc[q] \in Idle)
      /\ \A i \in Steps : ~Recording(i)
  BY <1>1, AtWorkAlone
<1>3. PICK m \in Memory : m = mem[r]
  BY <1>2
<1>4. Carries(r, "lookup", m) \/ Replays("lookup", m)
  BY <1>1, <1>3, AtWorkAlone DEF Works
<1>5. PICK c \in Steps : c = m.cursor /\ Plan[c].kind = "write"
  BY <1>4 DEF Carries, Replays, WriteDue
<1>6. \A i \in Steps : i \in written => ran[i] = 1
  BY DEF Orderly, WritesNoted
<1>7. ran[c] \in Nat /\ (c \notin written => ran[c] = 0)
  <2>1. \A i \in Steps : ran[i] \in Nat
    BY <1>2 DEF TypeOK
  <2> QED
    BY <1>2, <1>5, <2>1 DEF Orderly, WritesNoted
<1>8. /\ \A u \in Token : Asked(u)' => u \in issued'
      /\ \A u \in issued' : Given(u)'
      /\ WritesNoted' /\ AtMostOnce' /\ GuardsHold'
  <2>1. \E stage, memory : Goto(r, stage, memory)
    BY DEF Lookup, AfterWrite, Reply
  <2> QED
    BY <1>1, <1>2, <2>1, FactsStay
<1>9. CASE c \notin written
  <2>1. Goto(r, "write", m)
    BY <1>3, <1>5, <1>9 DEF Lookup
  <2>2. Works(r, "write", m)
    <3>1. CASE Carries(r, "lookup", m)
      BY <3>1 DEF Carries, Works
    <3>2. CASE Replays("lookup", m)
      <4>1. last[c] = "hard-fail" /\ ran[c] = 0
        BY <1>5, <1>7, <1>9, <3>2 DEF Replays
      <4> QED
        BY <1>5, <1>9, <3>2, <4>1 DEF Replays, Works
    <3> QED
      BY <1>4, <3>1, <3>2
  <2>3. Works(r, "write", m)'
    BY <1>1, <2>2, SameFiles
  <2>4. Answering'
    BY <1>1, <1>2, <1>3, <2>1, AnswerStays DEF Idle
  <2> QED
    BY <1>2, <1>8, <2>1, <2>3, <2>4, Continues DEF Idle
<1>10. CASE c \in written
  <2>1. Replays("lookup", m)
    <3>1. ~(c < c)
      BY StepsNat
    <3>2. Carries(r, "lookup", m) => ran[c] = 0
      BY <1>5, <3>1 DEF Carries, AtStep
    <3> QED
      BY <1>4, <1>6, <1>10, <3>2
  <2>2. m.from = "lone" /\ AtRest
    BY <2>1 DEF Replays
  <2>3. Goto(r, "done", NoMemory)
    BY <1>3, <1>5, <1>10, <2>2 DEF Lookup, AfterWrite, Reply
  <2>4. AtRest'
    BY <1>1, <2>2, SameFiles
  <2>5. Answering'
    BY <1>1, <1>2, <1>3, <2>2, <2>3, AnswerStays
  <2> QED
    BY <1>2, <1>8, <2>3, <2>4, <2>5, Continues DEF Idle
<1> QED
  BY <1>9, <1>10

\* A write is made: by the handler that carries the plan, or where it failed before.
LEMMA Writing ==
  ASSUME IInv, Orderly, NEW r \in Requests, Write(r)
  PROVE  Orderly'
<1>1. pc[r] = "write" /\ pc[r] \notin Idle /\ pc[r] \notin {"done", "record"}
      /\ Goto(r, "record", mem[r]) /\ UNCHANGED <<parked, written, issued, started, sent>>
  BY DEF Write, Idle, files
<1>2. TypeOK /\ mem[r] \in Memory /\ started /\ (\A q \in Requests : q # r => pc[q] \in Idle)
      /\ \A i \in Steps : ~Recording(i)
  BY <1>1, AtWorkAlone
<1>3. PICK m \in Memory : m = mem[r]
  BY <1>2
<1>4. Carries(r, "write", m) \/ Replays("write", m)
  BY <1>1, <1>3, AtWorkAlone DEF Works
<1>5. PICK c \in Steps : c = m.cursor /\ Plan[c].kind = "write"
  BY <1>4 DEF Carries, Replays, WriteDue
<1>6. /\ ran' = [ran EXCEPT ![c] = @ + 1]
      /\ last' = [last EXCEPT ![c] = IF @ = "hard-fail" THEN @ ELSE "satisfied"]
  BY <1>3, <1>5 DEF Write
<1>7. \A j \in Steps : j # c => last'[j] = last[j] /\ ran'[j] = ran[j]
  BY <1>2, <1>6 DEF TypeOK, Ledger
<1>8. /\ c \notin written /\ ran[c] = 0 /\ ran'[c] = 1 /\ last'[c] \in {"satisfied", "hard-fail"}
      /\ last[c] \in {"none", "hard-fail"} /\ (last[c] = "hard-fail" <=> last'[c] = "hard-fail")
      /\ \A j \in Steps : j > c /\ Carries(r, "write", m) => last[j] = "none" /\ ran[j] = 0
  <2>1. ~(c < c) /\ \A j \in Steps : j > c => ~(j < c)
    BY StepsNat
  <2>2. CASE Carries(r, "write", m)
    <3>1. AtStep(c, m.ledger)
      BY <1>5, <2>2 DEF Carries
    <3>2. last[c] = "none" /\ ran[c] = 0 /\ \A j \in Steps : j > c => last[j] = "none" /\ ran[j] = 0
      BY <2>1, <3>1 DEF AtStep
    <3>3. c \notin written
      BY <3>2 DEF Orderly, WritesNoted
    <3> QED
      BY <1>2, <1>6, <3>2, <3>3 DEF TypeOK, Ledger
  <2>3. CASE ~Carries(r, "write", m)
    <3>1. c \notin written /\ last[c] = "hard-fail" /\ ran[c] = 0
      BY <1>4, <1>5, <2>3 DEF Replays
    <3> QED
      BY <1>2, <1>6, <2>3, <3>1 DEF TypeOK, Ledger
  <2> QED
    BY <2>2, <2>3
<1>9. \A i \in Steps : last[i] \in {"satisfied", "hard-fail"} => last'[i] = last[i]
  BY <1>7, <1>8
<1>10. GuardMet(last, c)
  <2>1. CASE Carries(r, "write", m)
    BY <1>5, <2>1, GuardIsEarlier DEF Carries, WriteDue, GuardMet, AtStep
  <2>2. CASE Replays("write", m)
    <3>1. PICK t \in Token : t = <<c, "confirm">>
      BY DEF Token
    <3>2. t \in issued /\ t[1] = c /\ t[2] = "confirm"
      BY <1>5, <2>2, <3>1 DEF Replays
    <3> QED
      BY <3>2 DEF Orderly, Given
  <2> QED
    BY <1>4, <2>1, <2>2
<1>11. \A t : Asked(t)' <=> Asked(t)
  BY <1>1 DEF Asked
<1>12. (NothingAsked' <=> NothingAsked) /\ \A t : OnlyAsked(t)' <=> OnlyAsked(t)
  BY <1>11 DEF NothingAsked, OnlyAsked
<1>13. Works(r, "record", m)'
  <2>1. CASE Carries(r, "write", m)
    <3>1. WriteDue(m)
      BY <2>1 DEF Carries
    <3>2. WriteDue(m)'
      BY <1>12, <3>1 DEF WriteDue, GuardMet
    <3>3. AtStep(c, m.ledger) /\ m.from # "lone"
      BY <1>5, <2>1 DEF Carries
    <3>4. last'[c] = "satisfied"
      <4>1. ~(c < c)
        BY StepsNat
      <4>2. last[c] = "none"
        BY <3>3, <4>1 DEF AtStep
      <4> QED
        BY <1>8, <4>2
    <3>5. \A j \in Steps : (j < c => j # c) /\ (j > c => j # c)
      BY StepsNat
    <3>6. JustRan(c, m.ledger)'
      BY <1>7, <1>8, <2>1, <3>3, <3>4, <3>5 DEF AtStep, JustRan
    <3>7. Carries(r, "record", m)'
      BY <1>1, <1>2, <1>5, <3>2, <3>3, <3>6 DEF Carries
    <3> QED
      BY <3>7 DEF Works
  <2>2. CASE Replays("write", m)
    <3>1. m.from = "lone" /\ AtRest /\ last[c] = "hard-fail" /\ <<c, "confirm">> \in issued
      BY <1>5, <2>2 DEF Replays
    <3>2. \A s, ledger : ~AtStep(s, ledger)
      BY <3>1 DEF AtStep
    <3>3. NothingAsked
      BY <1>2, <3>1, <3>2 DEF AtRest
    <3>4. last'[c] = "hard-fail"
      BY <1>8, <3>1
    <3>5. AtRest'
      BY <1>1, <1>2, <1>12, <3>3, <3>4 DEF AtRest
    <3>6. Replays("record", m)'
      BY <1>1, <1>5, <1>8, <3>1, <3>4, <3>5 DEF Replays
    <3> QED
      BY <3>6 DEF Works
  <2> QED
    BY <1>4, <2>1, <2>2
<1>14. Answering'
  BY <1>1, <1>2, AnswerStays DEF Idle
<1>15. \A u \in issued' : Given(u)'
  BY <1>1, <1>2, <1>9, <1>11, GivenStays
<1>16. \A u \in Token : Asked(u)' => u \in issued'
  BY <1>1, <1>11 DEF Orderly
<1>17. WritesNoted' /\ AtMostOnce'
  <2>1. Recording(c)'
    <3>1. pc'[r] = "record" /\ mem'[r] = m
      BY <1>1, <1>2, <1>3 DEF TypeOK, Goto
    <3> QED
      BY <1>5, <3>1 DEF Recording
  <2>2. WritesNoted'
    BY <1>1, <1>2, <1>7, <1>8, <2>1 DEF Orderly, WritesNoted
  <2> QED
    BY <1>7, <1>8, <2>2 DEF Orderly, AtMostOnce
<1>18. GuardsHold'
  <2> SUFFICES ASSUME NEW j \in Steps, ran'[j] > 0, Plan[j].runIf # 0 PROVE last'[Plan[j].runIf] = "satisfied"
    BY DEF GuardsHold
  <2>1. PICK g \in Steps : g = Plan[j].runIf
    BY GuardIsEarlier
  <2>2. CASE j = c
    BY <1>9, <1>10, <2>1, <2>2 DEF GuardMet
  <2>3. CASE j # c
    BY <1>7, <1>9, <2>1, <2>3 DEF Orderly, GuardsHold
  <2> QED
    BY <2>2, <2>3
<1> QED
  BY <1>1, <1>2, <1>3, <1>13, <1>14, <1>15, <1>16, <1>17, <1>18, Continues DEF Idle

\* What follows a write, by how its handler got the plan.
LEMMA AfterWriteParts ==
  ASSUME NEW r \in Requests, NEW m \in Memory, m = mem[r], NEW o \in Outcome, AfterWrite(r, o)
  PROVE  \E stage \in {"find", "exec", "done"} : \E memory :
           /\ Goto(r, stage, memory)
           /\ stage = "find" <=> m.from = "confirm"
           /\ stage = "exec" => m.from \notin {"confirm", "lone"} /\ o # "hard-fail"
           /\ stage = "done" => m.from = "lone" \/ (m.from # "confirm" /\ o = "hard-fail")
           /\ stage # "done" =>
                /\ memory.ledger = [m.ledger EXCEPT ![m.cursor] = o]
                /\ memory.token = m.token /\ memory.from = m.from
                /\ memory.cursor = IF stage = "find" THEN m.cursor ELSE m.cursor + 1
<1>1. CASE m.from = "confirm"
  <2>1. PICK n : n = [m EXCEPT !.ledger[m.cursor] = o]
    OBVIOUS
  <2>2. Goto(r, "find", n)
    BY <1>1, <2>1 DEF AfterWrite
  <2>3. n.cursor = m.cursor /\ n.ledger = [m.ledger EXCEPT ![m.cursor] = o] /\ n.token = m.token /\ n.from = m.from
    BY <2>1, MemoryParts
  <2> QED
    BY <1>1, <2>2, <2>3
<1>2. CASE m.from = "lone"
  <2>1. Goto(r, "done", NoMemory)
    BY <1>2 DEF AfterWrite, Reply
  <2> QED
    BY <1>2, <2>1
<1>3. CASE m.from \notin {"confirm", "lone"} /\ o = "hard-fail"
  <2>1. Goto(r, "done", NoMemory)
    BY <1>3 DEF AfterWrite, Reply
  <2> QED
    BY <1>3, <2>1
<1>4. CASE m.from \notin {"confirm", "lone"} /\ o # "hard-fail"
  <2>1. PICK n : n = Recorded(m, o)
    OBVIOUS
  <2>2. Goto(r, "exec", n)
    BY <1>4, <2>1 DEF AfterWrite
  <2>3. n.cursor = m.cursor + 1 /\ n.ledger = [m.ledger EXCEPT ![m.cursor] = o] /\ n.token = m.token /\ n.from = m.from
    BY <2>1, MemoryParts
  <2> QED
    BY <1>4, <2>2, <2>3
<1> QED
  BY <1>1, <1>2, <1>3, <1>4

\* A write fails: the failure is kept in the plan, or ends it.
LEMMA Failing ==
  ASSUME IInv, Orderly, NEW r \in Requests, WriteFails(r)
  PROVE  Orderly'
<1>1. pc[r] = "write" /\ pc[r] \notin Idle /\ pc[r] \notin {"done", "record"}
      /\ AfterWrite(r, "hard-fail") /\ UNCHANGED <<parked, written, issued, started, ran, sent>>
  BY DEF WriteFails, Idle, files
<1>2. TypeOK /\ mem[r] \in Memory /\ started /\ \A q \in Requests : q # r => pc[q] \in Idle
  BY <1>1, AtWorkAlone
<1>3. PICK m \in Memory : m = mem[r]
  BY <1>2
<1>4. Carries(r, "write", m) \/ Replays("write", m)
  BY <1>1, <1>3, AtWorkAlone DEF Works
<1>5. PICK c \in Steps : c = m.cursor /\ Plan[c].kind = "write"
  BY <1>4 DEF Carries, Replays, WriteDue
<1>6. last' = [last EXCEPT ![c] = "hard-fail"]
  BY <1>3, <1>5 DEF WriteFails
<1>7. last'[c] = "hard-fail" /\ (\A j \in Steps : j # c => last'[j] = last[j]) /\ last[c] \in {"none", "hard-fail"}
  <2>1. ~(c < c)
    BY StepsNat
  <2>2. last[c] \in {"none", "hard-fail"}
    BY <1>4, <1>5, <2>1 DEF Carries, Replays, AtStep
  <2> QED
    BY <1>2, <1>6, <2>2 DEF TypeOK, Ledger
<1>8. \A i \in Steps : last[i] \in {"satisfied", "hard-fail"} => last'[i] = last[i]
  BY <1>7
<1>9. "hard-fail" \in Outcome /\ m.ledger \in Ledger
  BY DEF Outcome, Memory
<1>10. PICK stage, memory :
         /\ stage \in {"find", "exec", "done"} /\ Goto(r, stage, memory)
         /\ stage = "find" <=> m.from = "confirm"
         /\ stage # "exec"
         /\ stage # "done" =>
              /\ memory.ledger = [m.ledger EXCEPT ![m.cursor] = "hard-fail"]
              /\ memory.token = m.token /\ memory.from = m.from
              /\ memory.cursor = IF stage = "find" THEN m.cursor ELSE m.cursor + 1
  BY <1>1, <1>3, <1>9, AfterWriteParts
<1>11. \A t : Asked(t)' <=> Asked(t)
  BY <1>1 DEF Asked
<1>12. (NothingAsked' <=> NothingAsked) /\ \A t : OnlyAsked(t)' <=> OnlyAsked(t)
  BY <1>11 DEF NothingAsked, OnlyAsked
<1>13. /\ \A u \in Token : Asked(u)' => u \in issued'
       /\ \A u \in issued' : Given(u)'
       /\ WritesNoted' /\ AtMostOnce' /\ GuardsHold'
  BY <1>1, <1>2, <1>8, <1>10, FactsStay
<1>14. CASE m.from = "confirm"
  <2>1. stage = "find" /\ memory.token = m.token /\ memory.from = m.from /\ memory.cursor = c
        /\ memory.ledger = [m.ledger EXCEPT ![c] = "hard-fail"]
    BY <1>5, <1>10, <1>14
  <2>2. memory.ledger[c] = "hard-fail"
    BY <1>9, <2>1 DEF Ledger
  <2>3. Carries(r, "write", m)
    BY <1>4, <1>14 DEF Replays
  <2>4. m.token = <<c, "confirm">> /\ OnlyAsked(m.token)
    BY <1>5, <1>14, <2>3 DEF Carries, WriteDue
  <2>5. PICK t \in Token : t = m.token /\ t[1] = c /\ t[2] = "confirm" /\ OnlyAsked(t)
    <3>1. <<c, "confirm">> \in Token
      BY DEF Token
    <3> QED
      BY <2>4, <3>1
  <2>6. Carries(r, "find", memory)'
    BY <1>1, <1>2, <1>7, <1>12, <1>14, <2>1, <2>2, <2>5 DEF Carries
  <2>7. Answering'
    BY <1>1, <1>2, <1>3, <1>10, <2>1, AnswerStays DEF Idle
  <2> QED
    BY <1>2, <1>10, <1>13, <2>1, <2>6, <2>7, Continues DEF Works, Idle
<1>15. CASE m.from # "confirm"
  <2>1. Goto(r, "done", memory)
    BY <1>10, <1>15
  <2>2. CASE Carries(r, "write", m)
    <3>1. NothingAsked
      BY <1>15, <2>2 DEF Carries, WriteDue
    <3>2. AtRest'
      BY <1>1, <1>2, <1>7, <1>12, <3>1 DEF AtRest
    <3>3. Answering'
      BY <1>1, <1>2, <2>1, <3>1, AnswerStays
    <3> QED
      BY <1>2, <1>13, <2>1, <3>2, <3>3, Continues DEF Idle
  <2>3. CASE Replays("write", m)
    <3>1. m.from = "lone" /\ AtRest /\ last[c] = "hard-fail"
      BY <1>5, <2>3 DEF Replays
    <3>2. UNCHANGED last
      BY <1>2, <1>6, <3>1 DEF TypeOK, Ledger
    <3>3. AtRest'
      BY <1>1, <3>1, <3>2, SameFiles
    <3>4. Answering'
      BY <1>1, <1>2, <1>3, <2>1, <3>1, AnswerStays
    <3> QED
      BY <1>2, <1>13, <2>1, <3>3, <3>4, Continues DEF Idle
  <2> QED
    BY <1>4, <2>2, <2>3
<1> QED
  BY <1>14, <1>15

\* The write that was made is noted, in the ledger where it belongs to the plan.
LEMMA Noting ==
  ASSUME IInv, Orderly, NEW r \in Requests, Record(r)
  PROVE  Orderly'
<1>1. pc[r] = "record" /\ pc[r] \notin Idle /\ pc[r] # "done"
      /\ AfterWrite(r, "satisfied") /\ UNCHANGED <<parked, issued, started, ran, last, sent>>
  BY DEF Record, Idle, history
<1>2. TypeOK /\ mem[r] \in Memory /\ started /\ (\A q \in Requests : q # r => pc[q] \in Idle)
  BY <1>1, AtWorkAlone
<1>3. PICK m \in Memory : m = mem[r]
  BY <1>2
<1>4. Carries(r, "record", m) \/ Replays("record", m)
  BY <1>1, <1>3, AtWorkAlone DEF Works
<1>5. PICK c \in Steps : c = m.cursor /\ Plan[c].kind = "write"
  BY <1>4 DEF Carries, Replays, WriteDue
<1>6. written' = written \cup {c}
  BY <1>3, <1>5 DEF Record
<1>7. ran[c] = 1
  BY <1>4, <1>5 DEF Carries, Replays, JustRan
<1>8. "satisfied" \in Outcome /\ m.ledger \in Ledger
  BY DEF Outcome, Memory
<1>9. PICK stage, memory :
        /\ stage \in {"find", "exec", "done"} /\ Goto(r, stage, memory)
        /\ stage = "find" <=> m.from = "confirm"
        /\ stage = "exec" => m.from \notin {"confirm", "lone"}
        /\ stage = "done" => m.from = "lone"
        /\ stage # "done" =>
             /\ memory.ledger = [m.ledger EXCEPT ![m.cursor] = "satisfied"]
             /\ memory.token = m.token /\ memory.from = m.from
             /\ memory.cursor = IF stage = "find" THEN m.cursor ELSE m.cursor + 1
  BY <1>1, <1>3, <1>8, AfterWriteParts
<1>10. \A t : Asked(t)' <=> Asked(t)
  BY <1>1 DEF Asked
<1>11. (NothingAsked' <=> NothingAsked) /\ \A t : OnlyAsked(t)' <=> OnlyAsked(t)
  BY <1>10 DEF NothingAsked, OnlyAsked
<1>12. \A u \in issued' : Given(u)'
  BY <1>1, <1>2, <1>6, <1>9, <1>10, GivenStays
<1>13. \A u \in Token : Asked(u)' => u \in issued'
  BY <1>1, <1>10 DEF Orderly
<1>14. WritesNoted' /\ AtMostOnce' /\ GuardsHold'
  <2>1. \A i \in Steps : Recording(i) => i = c
    BY <1>1, <1>3, <1>5, AtWorkAlone
  <2>2. WritesNoted'
    BY <1>1, <1>5, <1>6, <1>7, <2>1 DEF Orderly, WritesNoted
  <2> QED
    BY <1>1, <2>2 DEF Orderly, AtMostOnce, GuardsHold
<1>15. CASE Carries(r, "record", m)
  <2>1. WriteDue(m) /\ JustRan(c, m.ledger) /\ m.from # "lone" /\ c > 0
    BY <1>5, <1>15, GuardIsEarlier DEF Carries
  <2>2. memory.ledger = [m.ledger EXCEPT ![c] = "satisfied"] /\ memory.from = m.from /\ memory.token = m.token
        /\ memory.cursor = IF stage = "find" THEN c ELSE c + 1
    BY <1>5, <1>9, <2>1
  <2>3. memory.ledger[c] = "satisfied" /\ \A j \in Steps : j # c => memory.ledger[j] = m.ledger[j]
    BY <1>8, <2>2 DEF Ledger
  <2>4. \A j \in Steps : (j < c + 1 <=> j < c \/ j = c) /\ (j < c => j # c) /\ (~(j < c) /\ j # c => j > c)
    BY StepsNat
  <2>5. AtStep(c + 1, memory.ledger)
    BY <2>1, <2>3, <2>4 DEF AtStep, JustRan
  <2>6. AtStep(c + 1, memory.ledger)'
    BY <1>1, <2>5 DEF AtStep
  <2>7. CASE m.from = "confirm"
    <3>1. stage = "find" /\ memory.cursor = c
      BY <1>9, <2>2, <2>7
    <3>2. m.token = <<c, "confirm">> /\ OnlyAsked(m.token)
      BY <1>5, <2>1, <2>7 DEF WriteDue
    <3>3. PICK t \in Token : t = m.token /\ t[1] = c /\ t[2] = "confirm" /\ OnlyAsked(t)
      <4>1. <<c, "confirm">> \in Token
        BY DEF Token
      <4> QED
        BY <3>2, <4>1
    <3>4. Carries(r, "find", memory)'
      BY <1>1, <1>2, <1>6, <1>11, <2>2, <2>3, <2>6, <2>7, <3>1, <3>3 DEF Carries
    <3>5. Answering'
      BY <1>1, <1>2, <1>3, <1>9, <2>2, <3>1, AnswerStays DEF Idle
    <3> QED
      BY <1>2, <1>9, <1>12, <1>13, <1>14, <3>1, <3>4, <3>5, Continues DEF Works, Idle
  <2>8. CASE m.from # "confirm"
    <3>1. stage = "exec" /\ memory.cursor = c + 1 /\ NothingAsked
      BY <1>9, <2>1, <2>2, <2>8 DEF WriteDue
    <3>2. c + 1 > 0
      BY <2>1, StepsNat
    <3>3. Carries(r, "exec", memory)'
      BY <1>1, <1>2, <1>11, <2>1, <2>2, <2>6, <2>8, <3>1, <3>2 DEF Carries
    <3>4. Answering'
      BY <1>1, <1>2, <1>9, <3>1, AnswerStays
    <3> QED
      BY <1>2, <1>9, <1>12, <1>13, <1>14, <3>1, <3>3, <3>4, Continues DEF Works, Idle
  <2> QED
    BY <2>7, <2>8
<1>16. CASE Replays("record", m)
  <2>1. m.from = "lone" /\ AtRest
    BY <1>16 DEF Replays
  <2>2. Goto(r, "done", memory)
    BY <1>9, <2>1
  <2>3. AtRest'
    BY <1>1, <1>11, <2>1 DEF AtRest, AtStep
  <2>4. Answering'
    BY <1>1, <1>2, <1>3, <2>1, <2>2, AnswerStays
  <2> QED
    BY <1>2, <1>12, <1>13, <1>14, <2>2, <2>3, <2>4, Continues DEF Idle
<1> QED
  BY <1>4, <1>15, <1>16

\* The parked plan is found.
LEMMA Finding ==
  ASSUME IInv, Orderly, NEW r \in Requests, Find(r)
  PROVE  Orderly'
<1>1. pc[r] = "find" /\ pc[r] \notin Idle /\ pc[r] \notin {"done", "record"}
      /\ UNCHANGED <<parked, written, issued, started, ran, last, sent>>
  BY DEF Find, Idle, files, history
<1>2. TypeOK /\ mem[r] \in Memory /\ \A q \in Requests : q # r => pc[q] \in Idle
  BY <1>1, AtWorkAlone
<1>3. PICK m \in Memory : m = mem[r]
  BY <1>2
<1>4. Carries(r, "find", m)
  BY <1>1, <1>3, AtWorkAlone DEF Works, Replays
<1>5. Asked(m.token)
  BY <1>4 DEF Carries, OnlyAsked
<1>6. Goto(r, "resolve", m)
  BY <1>3, <1>5 DEF Find, Asked
<1>7. Works(r, "resolve", m)
  BY <1>4 DEF Carries, Works
<1>8. Works(r, "resolve", m)'
  BY <1>1, <1>7, SameFiles
<1>9. Answering'
  BY <1>1, <1>2, <1>3, <1>6, AnswerStays DEF Idle
<1>10. /\ \A u \in Token : Asked(u)' => u \in issued'
       /\ \A u \in issued' : Given(u)'
       /\ WritesNoted' /\ AtMostOnce' /\ GuardsHold'
  BY <1>1, <1>2, <1>6, FactsStay
<1> QED
  BY <1>2, <1>6, <1>8, <1>9, <1>10, Continues DEF Idle

\* The parked plan is resolved, and goes on unless its write failed.
LEMMA Resolving ==
  ASSUME IInv, Orderly, NEW r \in Requests, Resolve(r)
  PROVE  Orderly'
<1>1. pc[r] = "resolve" /\ pc[r] \notin Idle /\ pc[r] \notin {"done", "record"}
      /\ UNCHANGED <<written, issued, started, ran, last, sent>>
  BY DEF Resolve, Idle, history
<1>2. TypeOK /\ mem[r] \in Memory /\ (\A q \in Requests : q # r => pc[q] \in Idle)
      /\ \A i \in Steps : ~Recording(i)
  BY <1>1, AtWorkAlone
<1>3. PICK m \in Memory : m = mem[r]
  BY <1>2
<1>4. Carries(r, "resolve", m)
  BY <1>1, <1>3, AtWorkAlone DEF Works, Replays
<1>5. PICK t \in Token : t = m.token
  BY <1>4 DEF Carries
<1>6. PICK c \in Steps : c = m.cursor /\ t[1] = c
  <2>1. t[1] = m.cursor
    BY <1>4, <1>5 DEF Carries
  <2> QED
    BY <1>5, <2>1, TokenParts
<1>7. /\ started /\ OnlyAsked(t)
      /\ IF t[2] = "confirm"
         THEN /\ m.from = "confirm"
              /\ \/ m.ledger[c] = "satisfied" /\ c \in written /\ AtStep(c + 1, m.ledger)
                 \/ m.ledger[c] = "hard-fail" /\ last[c] = "hard-fail"
         ELSE m.from = "pick" /\ AtStep(c, m.ledger)
  BY <1>4, <1>5, <1>6 DEF Carries
<1>8. parked' = [parked EXCEPT ![t].status = "resolved"]
  BY <1>3, <1>5 DEF Resolve
<1>9. parked'[t].status = "resolved" /\ \A u \in Token : u # t => parked'[u] = parked[u]
  BY <1>2, <1>8 DEF TypeOK, Entry
<1>10. NothingAsked'
  BY <1>7, <1>9 DEF NothingAsked, OnlyAsked, Asked
<1>11. \E stage, memory : Goto(r, stage, memory)
  BY DEF Resolve, Resume, Reply
<1>12. \A u \in issued' : Given(u)'
  <2>1. \A u \in Token : Asked(u) => u = t
    BY <1>7 DEF OnlyAsked
  <2>2. t[2] = "confirm" => t[1] \in written' \/ last'[t[1]] = "hard-fail"
    BY <1>1, <1>6, <1>7
  <2>3. \A u \in issued : u[2] = "confirm" /\ Asked(u) => Asked(u)' \/ u[1] \in written' \/ last'[u[1]] = "hard-fail"
    BY <1>2, <2>1, <2>2 DEF TypeOK
  <2> QED
    BY <1>1, <1>2, <1>11, <2>3, GivenStays
<1>13. \A u \in Token : Asked(u)' => u \in issued'
  BY <1>10 DEF NothingAsked
<1>14. WritesNoted' /\ AtMostOnce' /\ GuardsHold'
  BY <1>1, <1>2 DEF Orderly, WritesNoted, AtMostOnce, GuardsHold
<1>15. Answering'
  BY <1>1, <1>2, <1>10 DEF Answering, NothingAsked, TypeOK
<1>16. CASE m.ledger[c] = "hard-fail"
  <2>1. ~(c < c)
    BY StepsNat
  <2>2. AtStep(c, m.ledger) => m.ledger[c] = "none"
    BY <2>1 DEF AtStep
  <2>3. last[c] = "hard-fail"
    BY <1>7, <1>16, <2>2
  <2>4. AtRest'
    BY <1>1, <1>7, <1>10, <2>3 DEF AtRest
  <2>5. Goto(r, "done", NoMemory)
    BY <1>3, <1>6, <1>16 DEF Resolve, Resume, Reply
  <2> QED
    BY <1>2, <1>12, <1>13, <1>14, <1>15, <2>4, <2>5, Continues DEF Idle
<1>17. CASE m.ledger[c] # "hard-fail"
  <2>1. PICK memory : memory = Rest(m)
    OBVIOUS
  <2>2. Goto(r, "exec", memory)
    BY <1>3, <1>6, <1>17, <2>1 DEF Resolve, Resume
  <2>3. /\ memory.cursor = c /\ memory.ledger = m.ledger
        /\ memory.from = IF m.from = "confirm" THEN "request" ELSE m.from
    BY <1>6, <2>1 DEF Rest, Memory
  <2>4. memory.from \notin {"confirm", "lone"}
    BY <1>7, <2>3
  <2>5. AtStep(c, m.ledger) \/ AtStep(c + 1, m.ledger)
    BY <1>7, <1>17
  <2>6. c > 0
    BY GuardIsEarlier
  <2>7. AtStep(c, m.ledger)' \/ AtStep(c + 1, m.ledger)'
    BY <1>1, <2>5 DEF AtStep
  <2>8. Carries(r, "exec", memory)'
    BY <1>1, <1>7, <1>10, <2>3, <2>4, <2>6, <2>7 DEF Carries
  <2> QED
    BY <1>2, <1>12, <1>13, <1>14, <1>15, <2>2, <2>8, Continues DEF Works, Idle
<1> QED
  BY <1>16, <1>17

\* While nothing disturbs it the plan stays orderly.
LEMMA StaysOrderly ==
  ASSUME IInv, SerialInv, [Next]_vars
  PROVE  SerialInv'
<1> SUFFICES ASSUME ~disturbed' PROVE Orderly'
  BY DEF SerialInv
<1>1. CASE UNCHANGED vars
  <2>1. Orderly
    BY <1>1 DEF SerialInv, vars
  <2>2. UNCHANGED <<parked, written, issued, started, last, ran, sent, pc, mem>>
    BY <1>1 DEF vars, files
  <2>3. \A t : Asked(t)' <=> Asked(t)
    BY <2>2 DEF Asked
  <2>4. /\ AtRest' <=> AtRest
        /\ \A r \in Requests : Works(r, pc[r], mem[r])' <=> Works(r, pc[r], mem[r])
    <3>1. (NothingAsked' <=> NothingAsked) /\ \A t : OnlyAsked(t)' <=> OnlyAsked(t)
      BY <2>3 DEF NothingAsked, OnlyAsked
    <3>2. \A c, ledger : (AtStep(c, ledger)' <=> AtStep(c, ledger)) /\ (JustRan(c, ledger)' <=> JustRan(c, ledger))
      BY <2>2 DEF AtStep, JustRan
    <3>3. AtRest' <=> AtRest
      BY <2>2, <3>1, <3>2 DEF AtRest
    <3>4. \A m : WriteDue(m)' <=> WriteDue(m)
      BY <3>1 DEF WriteDue, GuardMet
    <3>5. \A r, s, m : Carries(r, s, m)' <=> Carries(r, s, m)
      BY <2>2, <3>1, <3>2, <3>4 DEF Carries, GuardMet
    <3>6. \A s, m : Replays(s, m)' <=> Replays(s, m)
      BY <2>2, <3>3 DEF Replays
    <3> QED
      BY <2>2, <3>3, <3>5, <3>6 DEF Works
  <2>5. /\ WritesNoted' <=> WritesNoted
        /\ AtMostOnce' <=> AtMostOnce
        /\ GuardsHold' <=> GuardsHold
        /\ Answering' <=> Answering
        /\ Alone' <=> Alone
        /\ \A t : Given(t)' <=> Given(t)
    BY <2>2, <2>3 DEF WritesNoted, Recording, AtMostOnce, GuardsHold, Answering, Alone, Given, GuardMet
  <2> QED
    BY <2>1, <2>2, <2>3, <2>4, <2>5 DEF Orderly
<1>2. ASSUME NEW r \in Requests, Message(r) PROVE Orderly'
  <2>1. ~disturbed
    BY <1>2 DEF Message, Request, Confirm, Pick, Arrives, IInv, TypeOK
  <2> QED
    BY <1>2, <2>1, Messaging DEF SerialInv
<1>3. ASSUME NEW r \in Requests, Step(r) PROVE Orderly'
  <2>1. UNCHANGED disturbed
    BY <1>3 DEF Step, Skip, Finish, ReachWrite, Ask, Park, RunStep, Lookup, Write, WriteFails, Record, Find, Resolve
  <2>2. Orderly
    BY <2>1 DEF SerialInv
  <2> QED
    BY <1>3, <2>2, Skipping, Finishing, Reaching, Parking, Running, LookingUp, Writing, Failing, Noting,
       Finding, Resolving DEF Step
<1>4. CASE Crash
  BY <1>4 DEF Crash
<1> QED
  BY <1>1, <1>2, <1>3, <1>4 DEF Next

\* For any plan, and however the owner's tokens are replayed: while messages come
\* one at a time and the process lives, every step has its effect once at most and
\* under its guard, and a plan at rest waits for the owner, failed or is complete.
THEOREM RunsOnce == Spec => []RunsOnceToTheEnd
<1>1. Init => IInv /\ SerialInv
  BY InitInv, OrderlyStarts DEF SerialInv
<1>2. IInv /\ SerialInv /\ [Next]_vars => (IInv /\ SerialInv)'
  BY Inductive, StaysOrderly
<1>3. IInv /\ SerialInv => RunsOnceToTheEnd
  <2> SUFFICES ASSUME IInv, Orderly PROVE AnswerResumes /\ NothingStranded
    BY DEF IInv, SerialInv, RunsOnceToTheEnd, Orderly
  <2>1. InFlight = {} => \A r \in Requests : pc[r] \in Idle
    BY DEF InFlight, Idle
  <2>2. AnswerResumes
    BY <2>1 DEF AnswerResumes, Orderly, Answering, Asked, IInv, TypeOK
  <2>3. NothingStranded
    BY <2>1 DEF NothingStranded, Orderly, AtRest, OnlyAsked, Asked
  <2> QED
    BY <2>2, <2>3
<1> QED
  BY <1>1, <1>2, <1>3, PTL DEF Spec

=============================================================================
