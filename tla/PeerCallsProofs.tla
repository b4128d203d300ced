--------------------------- MODULE PeerCallsProofs ---------------------------
(***************************************************************************)
(* What holds of the calls to other people's assistants for any turns,     *)
(* peers, cap, overlap, lost answers, midnights and crashes.               *)
(***************************************************************************)
EXTENDS PeerCalls, TLAPS

\* The typing of TypeOK, with the days that are written to the file.
Types == TypeOK /\ budget.day \in 1..MaxDays

\* Unless turns raced, one at a time is between the check and the write; the file
\* is empty only while that one writes it, and otherwise counts the calls of the
\* last day that had any.
Counted ==
  /\ \A t, u \in InBudget : t = u
  /\ budget.torn => \E t \in Turns : pc[t] = "write"
  /\ budget.day <= day /\ budget.count = calls[budget.day]
  /\ \A d \in 1..MaxDays : d > budget.day => calls[d] = 0
  /\ \A d \in 1..MaxDays : calls[d] <= Cap

\* So a turn that passed the check has room on the day it will be counted on,
\* although midnight may pass before it reads the file and again before it writes.
Room(t) ==
  /\ pc[t] = "read" => calls[day] < Cap
  /\ pc[t] \in {"truncate", "write"} =>
       /\ budget.day <= mem[t].day /\ mem[t].day <= day
       /\ mem[t].count = calls[mem[t].day] /\ mem[t].count < Cap

CapInv == ~raced => Counted /\ \A t \in Turns : Room(t)

\* How often a turn may have been put before its peer when it is at a stage, a
\* task on the network included, of which there is one at most.
Chances(stage) ==
  IF stage \in {"idle", "check", "read", "truncate", "write", "send"} THEN 0
  ELSE IF stage \in {"wait", "retry"} THEN 1
  ELSE IF stage \in {"wait again", "fallback"} THEN 2 ELSE 3
Pending(t) == \E task \in network : task.thread = t
Asked(t) ==
  /\ \A task \in network : task.thread = t =>
       task.peer = mem[t].peer /\ task.intent = mem[t].intent
  /\ heard[t] <= Chances(pc[t])
  /\ Pending(t) => heard[t] + 1 <= Chances(pc[t])
  /\ told[t].peer <= heard[t] + told[t].caller
  /\ told[t].caller = IF t \in proposed THEN 1 ELSE 0
  /\ t \in proposed => pc[t] = "done"
AskedInv == \A t \in Turns : Asked(t)

-----------------------------------------------------------------------------
\* What a turn holds before it reads the budget is a memory like any other.
LEMMA NoMemoryTyped == NoMemory \in [peer : Peers, intent : Intent, day : 1..MaxDays, count : Nat]
  BY PeerCallsAssumption DEF NoMemory, Intent

\* Reading the budget file gives a number of calls, also when it is empty.
LEMMA LoadIsNat == Types => Load \in Nat
  BY DEF Types, TypeOK, Load, Budget

\* A peer that takes a task up notes it under a turn, and tells its owner.
LEMMA TakingUp ==
  ASSUME Types, NEW task \in Task, TakeUp(task)
  PROVE  /\ heard' \in [Turns \cup {"probe"} -> Nat]
         /\ told' \in [Turns -> [caller : Nat, peer : Nat]]
         /\ \A t \in Turns :
              /\ told'[t].caller = told[t].caller
              /\ t # task.thread => heard'[t] = heard[t] /\ told'[t] = told[t]
              /\ heard'[t] = heard[t] \/ heard'[t] = heard[t] + 1
              /\ told'[t].peer <= told[t].peer + (heard'[t] - heard[t])
<1>1. CASE ~Admitted(task)
  BY <1>1 DEF TakeUp, Types, TypeOK
<1>2. CASE Admitted(task)
  <2>1. task.thread \in Turns
    BY <1>2 DEF Admitted, Task
  <2>2. heard' = [heard EXCEPT ![task.thread] = @ + 1]
    BY <1>2 DEF TakeUp
  <2>3. heard' \in [Turns \cup {"probe"} -> Nat]
    BY <2>1, <2>2 DEF Types, TypeOK
  <2>4. heard'[task.thread] = heard[task.thread] + 1 /\ heard[task.thread] \in Nat
    BY <2>1, <2>2 DEF Types, TypeOK
  <2>5. \A t \in Turns : t # task.thread => heard'[t] = heard[t]
    BY <2>1, <2>2 DEF Types, TypeOK
  <2>6. CASE told' = told
    <3>1. \A t \in Turns : told'[t].caller \in Nat /\ told'[t].peer \in Nat /\ heard[t] \in Nat
      BY <2>6 DEF Types, TypeOK
    <3>2. told' \in [Turns -> [caller : Nat, peer : Nat]]
      BY <2>6 DEF Types, TypeOK
    <3> QED  BY <2>3, <2>4, <2>5, <2>6, <3>1, <3>2
  <2>7. CASE told' = [told EXCEPT ![task.thread] = NotifyBound(@)]
    <3>1. told \in [Turns -> [caller : Nat, peer : Nat]]
      BY DEF Types, TypeOK
    <3>2. NotifyBound(told[task.thread]) =
            [caller |-> told[task.thread].caller, peer |-> told[task.thread].peer + 1]
      BY <2>1, <3>1 DEF NotifyBound
    <3>3. \A t \in Turns : told'[t] = IF t = task.thread
                                        THEN [caller |-> told[t].caller, peer |-> told[t].peer + 1]
                                        ELSE told[t]
      BY <2>1, <2>7, <3>1, <3>2
    <3>4. told' \in [Turns -> [caller : Nat, peer : Nat]]
      BY <2>1, <2>7, <3>1, <3>2
    <3> QED  BY <2>1, <2>3, <2>4, <2>5, <3>1, <3>3, <3>4
  <2> QED  BY <1>2, <2>6, <2>7 DEF TakeUp
<1> QED  BY <1>1, <1>2

-----------------------------------------------------------------------------
\* The typing holds at the start.
LEMMA TypesInit == Init => Types
<1> SUFFICES ASSUME Init  PROVE Types
  OBVIOUS
<1>1. budget \in Budget /\ budget.day \in 1..MaxDays /\ day \in 1..MaxDays
  BY PeerCallsAssumption DEF Init, Budget
<1>2. mem \in [Turns -> [peer : Peers, intent : Intent, day : 1..MaxDays, count : Nat]]
  BY NoMemoryTyped DEF Init
<1>3. pc \in [Turns -> Stage]
  BY DEF Init, Stage
<1>4. calls \in [1..MaxDays -> Nat] /\ heard \in [Turns \cup {"probe"} -> Nat] /\ events \in Nat
  BY DEF Init
<1>5. told \in [Turns -> [caller : Nat, peer : Nat]]
  BY DEF Init
<1>6. network \in SUBSET Task /\ proposed \in SUBSET Turns /\ raced \in BOOLEAN /\ offline \in BOOLEAN
      /\ roster \in SUBSET Peers /\ admits \in SUBSET Peers
  BY DEF Init
<1> QED  BY <1>1, <1>2, <1>3, <1>4, <1>5, <1>6 DEF Types, TypeOK

\* The steps of a turn leave the typing true.
LEMMA StepTypes ==
  ASSUME Types, NEW t \in Turns, Step(t) \/ Ask(t)
  PROVE  Types'
<1>1. CASE Ask(t)
  <2>1. CASE UNCHANGED mem
    BY <1>1, <2>1 DEF Ask, Types, TypeOK, Goto, Stage, files, world
  <2>2. ASSUME NEW p \in roster, NEW i \in Intent,
               mem' = [mem EXCEPT ![t] = [NoMemory EXCEPT !.peer = p, !.intent = i]],
               Goto(t, "check")
        PROVE  Types'
    <3>1. [NoMemory EXCEPT !.peer = p, !.intent = i]
            \in [peer : Peers, intent : Intent, day : 1..MaxDays, count : Nat]
      BY NoMemoryTyped DEF Types, TypeOK
    <3>2. mem' \in [Turns -> [peer : Peers, intent : Intent, day : 1..MaxDays, count : Nat]]
      BY <2>2, <3>1 DEF Types, TypeOK
    <3> QED  BY <1>1, <2>2, <3>2 DEF Ask, Types, TypeOK, Goto, Stage, files, world
  <2> QED  BY <1>1, <2>1, <2>2 DEF Ask
<1>2. CASE CheckCap(t)
  <2>1. raced' \in BOOLEAN
    BY <1>2 DEF CheckCap
  <2>2. pc' \in [Turns -> Stage]
    BY <1>2 DEF CheckCap, Goto, Stage, Types, TypeOK
  <2>3. UNCHANGED <<budget, proposed, calls, world, mem, network, told, heard>>
    BY <1>2 DEF CheckCap
  <2> QED  BY <2>1, <2>2, <2>3 DEF Types, TypeOK, world
<1>3. CASE ReadCount(t)
  <2>1. Load \in Nat
    BY LoadIsNat
  <2> QED  BY <1>3, <2>1 DEF ReadCount, Types, TypeOK, Goto, Stage, files, world
<1>4. CASE Truncate(t)
  BY <1>4 DEF Truncate, Types, TypeOK, Goto, Stage, world, Budget
<1>5. CASE WriteCount(t)
  <2>1. /\ mem[t].day \in 1..MaxDays /\ mem[t].count \in Nat /\ calls[mem[t].day] \in Nat
    BY DEF Types, TypeOK
  <2>2. budget' \in Budget /\ budget'.day \in 1..MaxDays
    BY <1>5, <2>1 DEF WriteCount, Budget, Types, TypeOK
  <2>3. calls' \in [1..MaxDays -> Nat]
    BY <1>5, <2>1 DEF WriteCount, Types, TypeOK
  <2>4. mem' \in [Turns -> [peer : Peers, intent : Intent, day : 1..MaxDays, count : Nat]]
    <3>1. 1 \in 1..MaxDays
      BY PeerCallsAssumption
    <3>2. mem \in [Turns -> [peer : Peers, intent : Intent, day : 1..MaxDays, count : Nat]]
      BY DEF Types, TypeOK
    <3>3. mem' = [mem EXCEPT ![t] = [@ EXCEPT !.day = 1, !.count = 0]]
      BY <1>5, <3>2 DEF WriteCount
    <3> QED  BY <3>1, <3>2, <3>3
  <2> QED  BY <1>5, <2>2, <2>3, <2>4 DEF WriteCount, Types, TypeOK, Goto, Stage, world
<1>6. CASE Send(t)
  <2>1. [thread |-> t, peer |-> mem[t].peer, intent |-> mem[t].intent] \in Task
    BY DEF Types, TypeOK, Task
  <2>2. network' \in SUBSET Task
    BY <1>6, <2>1 DEF Send, Types, TypeOK
  <2> QED  BY <1>6, <2>2 DEF Send, Types, TypeOK, Goto, Stage, files, world
<1>7. CASE SendFails(t)
  BY <1>7 DEF SendFails, Types, TypeOK, Goto, Stage, files, world
<1>8. CASE AnswerEmpty(t)
  BY <1>8 DEF AnswerEmpty, Types, TypeOK, Goto, Stage, files, world
<1>9. CASE Answer(t)
  BY <1>9 DEF Answer, Answered, Types, TypeOK, Goto, Stage, files, world
<1>10. CASE Fallback(t)
  <2> DEFINE task == [thread |-> t, peer |-> mem[t].peer, intent |-> mem[t].intent]
  <2>1. task \in Task
    BY DEF Types, TypeOK, Task
  <2>2. CASE TakeUp(task)
    <3>1. heard' \in [Turns \cup {"probe"} -> Nat] /\ told' \in [Turns -> [caller : Nat, peer : Nat]]
      BY <2>1, <2>2, TakingUp
    <3> QED  BY <1>10, <3>1 DEF Fallback, Answered, Types, TypeOK, Goto, Stage, files, world
  <2>3. CASE UNCHANGED <<heard, told>>
    BY <1>10, <2>3 DEF Fallback, Answered, Types, TypeOK, Goto, Stage, files, world
  <2> QED  BY <1>10, <2>2, <2>3 DEF Fallback
<1>11. CASE Propose(t)
  <2>1. told \in [Turns -> [caller : Nat, peer : Nat]] /\ proposed \in SUBSET Turns
    BY DEF Types, TypeOK
  <2>2. told[t].caller + 1 \in Nat /\ told[t].peer + 1 \in Nat
    BY <2>1
  <2>3. proposed' \in SUBSET Turns /\ told' \in [Turns -> [caller : Nat, peer : Nat]]
    BY <1>11, <2>1, <2>2 DEF Propose
  <2> QED  BY <1>11, <2>3 DEF Propose, Types, TypeOK, Goto, Stage, files, world
<1> QED
  BY <1>1, <1>2, <1>3, <1>4, <1>5, <1>6, <1>7, <1>8, <1>9, <1>10, <1>11 DEF Step

\* So do those of peers, owners, the clock and the process.
LEMMA OtherTypes ==
  ASSUME Types,
         \/ \E task \in network : Receive(task) \/ Withdraw(task)
         \/ \E p \in Peers : Probe(p) \/ Revoke(p)
         \/ Midnight \/ Crash \/ UNCHANGED vars
  PROVE  Types'
<1>1. ASSUME NEW task \in network, Receive(task)  PROVE Types'
  <2>1. heard' \in [Turns \cup {"probe"} -> Nat] /\ told' \in [Turns -> [caller : Nat, peer : Nat]]
    BY <1>1, TakingUp DEF Receive, Types, TypeOK
  <2> QED  BY <1>1, <2>1 DEF Receive, Types, TypeOK, files, world
<1>2. ASSUME NEW task \in network, Withdraw(task)  PROVE Types'
  BY <1>2 DEF Withdraw, Types, TypeOK, files, world
<1>3. ASSUME NEW p \in Peers, Probe(p)  PROVE Types'
  <2>1. [thread |-> "probe", peer |-> p, intent |-> "other"] \in Task
    BY DEF Task, Intent
  <2> QED  BY <1>3, <2>1, PeerCallsAssumption DEF Probe, Event, Types, TypeOK, files
<1>4. ASSUME NEW p \in Peers, Revoke(p)  PROVE Types'
  BY <1>4, PeerCallsAssumption DEF Revoke, Event, Types, TypeOK, files
<1>5. CASE Midnight
  BY <1>5, PeerCallsAssumption DEF Midnight, Event, Types, TypeOK, files
<1>6. CASE Crash
  <2>1. raced' \in BOOLEAN
    BY <1>6 DEF Crash
  <2>2. pc' \in [Turns -> Stage]
    BY <1>6 DEF Crash, Types, TypeOK, Stage
  <2> QED  BY <1>6, <2>1, <2>2, PeerCallsAssumption DEF Crash, Event, Types, TypeOK
<1>7. CASE UNCHANGED vars
  BY <1>7 DEF vars, Types, TypeOK
<1> QED  BY <1>1, <1>2, <1>3, <1>4, <1>5, <1>6, <1>7

\* The state of the calls is well typed.
THEOREM PeerCallTypes == Spec => []Types
<1>1. ASSUME Types, [Next]_vars  PROVE Types'
  BY <1>1, StepTypes, OtherTypes DEF Next
<1> QED  BY TypesInit, <1>1, PTL DEF Spec

-----------------------------------------------------------------------------
\* At the start nothing was sent and nothing is counted.
LEMMA CapInit == Init => CapInv
<1> SUFFICES ASSUME Init  PROVE CapInv
  OBVIOUS
<1>1. InBudget = {} /\ budget.day = 1 /\ budget.count = 0 /\ ~budget.torn /\ day = 1
  BY DEF Init, InBudget
<1>2. \A d \in 1..MaxDays : calls[d] = 0
  BY DEF Init
<1>3. Counted
  BY <1>1, <1>2, PeerCallsAssumption DEF Counted
<1>4. \A t \in Turns : Room(t)
  BY DEF Init, Room
<1> QED  BY <1>3, <1>4 DEF CapInv

\* What happens to turns that are not between the check and the write, on a day
\* that goes on, concerns the cap as little as a message between others.
LEMMA CapKept ==
  ASSUME Types, CapInv,
         UNCHANGED <<budget, calls, day, raced>>,
         \A u \in Turns : pc'[u] \in {"read", "truncate", "write"}
                            <=> pc[u] \in {"read", "truncate", "write"},
         \A u \in InBudget : pc'[u] = pc[u] /\ mem'[u] = mem[u]
  PROVE  CapInv'
<1> SUFFICES ASSUME ~raced  PROVE Counted' /\ \A u \in Turns : Room(u)'
  BY DEF CapInv
<1>1. Counted /\ \A u \in Turns : Room(u)
  BY DEF CapInv
<1>2. InBudget' = InBudget
  BY DEF InBudget
<1>3. budget.torn => \E u \in Turns : pc'[u] = "write"
  BY <1>1 DEF Counted, InBudget
<1>4. Counted'
  BY <1>1, <1>2, <1>3 DEF Counted
<1>5. ASSUME NEW u \in Turns  PROVE Room(u)'
  BY <1>1 DEF Room, InBudget
<1> QED  BY <1>4, <1>5

\* The steps of a turn keep the account of the cap: a turn between the check and
\* the write is the only one there, or the race is on record.
LEMMA StepCap ==
  ASSUME Types, CapInv, NEW t \in Turns, Step(t) \/ Ask(t)
  PROVE  CapInv'
<1>1. CASE \/ Ask(t) \/ Send(t) \/ SendFails(t) \/ AnswerEmpty(t) \/ Answer(t)
           \/ Fallback(t) \/ Propose(t)
  <2>1. UNCHANGED <<budget, calls, day, raced>>
    BY <1>1 DEF Ask, Send, SendFails, AnswerEmpty, Answer, Fallback, Propose, files, world
  <2>2. /\ pc[t] \notin {"read", "truncate", "write"}
        /\ \E stage \in Stage \ {"read", "truncate", "write"} : pc' = [pc EXCEPT ![t] = stage]
    BY <1>1 DEF Ask, Send, SendFails, AnswerEmpty, Answer, Answered, Fallback, Propose, Goto, Stage
  <2>3. \A u \in Turns \ {t} : mem'[u] = mem[u]
    BY <1>1 DEF Ask, Send, SendFails, AnswerEmpty, Answer, Fallback, Propose, Types, TypeOK
  <2>4. /\ \A u \in Turns \ {t} : pc'[u] = pc[u]
        /\ pc'[t] \notin {"read", "truncate", "write"}
    BY <2>2 DEF Types, TypeOK
  <2> QED  BY <2>1, <2>2, <2>3, <2>4, CapKept DEF InBudget
<1> SUFFICES ASSUME ~raced', CheckCap(t) \/ ReadCount(t) \/ Truncate(t) \/ WriteCount(t)
             PROVE  Counted' /\ \A u \in Turns : Room(u)'
  BY <1>1 DEF Step, CapInv
<1>2. ~raced
  BY DEF CheckCap, ReadCount, Truncate, WriteCount, files
<1>3. Counted /\ \A u \in Turns : Room(u)
  BY <1>2 DEF CapInv
<1>4. /\ pc \in [Turns -> Stage] /\ budget \in Budget /\ budget.day \in 1..MaxDays /\ day \in 1..MaxDays
      /\ calls \in [1..MaxDays -> Nat] /\ Cap \in Nat
      /\ mem \in [Turns -> [peer : Peers, intent : Intent, day : 1..MaxDays, count : Nat]]
  BY PeerCallsAssumption DEF Types, TypeOK
<1>5. CASE CheckCap(t)
  <2>1. InBudget = {}
    BY <1>5 DEF CheckCap
  <2>2. UNCHANGED <<budget, calls, day, mem>> /\ \A u \in Turns \ {t} : pc'[u] = pc[u]
    BY <1>4, <1>5 DEF CheckCap, Goto, world
  <2>3. ~budget.torn /\ Load = calls[day]
    BY <1>3, <1>4, <2>1 DEF Counted, InBudget, Load
  <2>4. pc'[t] = IF calls[day] < Cap THEN "read" ELSE "done"
    BY <1>4, <1>5, <2>3 DEF CheckCap, Goto
  <2>5. Counted'
    BY <1>3, <1>4, <2>1, <2>2, <2>3, <2>4 DEF Counted, InBudget
  <2>6. ASSUME NEW u \in Turns  PROVE Room(u)'
    BY <1>3, <2>1, <2>2, <2>4 DEF Room, InBudget
  <2> QED  BY <2>5, <2>6
<1>6. CASE ReadCount(t)
  <2>1. t \in InBudget /\ ~budget.torn
    BY <1>3, <1>6 DEF ReadCount, Counted, InBudget
  <2>2. Load = calls[day]
    BY <1>3, <1>4, <2>1 DEF Counted, Load
  <2>3. UNCHANGED <<budget, calls, day>> /\ pc'[t] = "truncate"
        /\ \A u \in Turns \ {t} : pc'[u] = pc[u] /\ mem'[u] = mem[u]
    BY <1>4, <1>6 DEF ReadCount, Goto, files, world
  <2>4. mem'[t].day = day /\ mem'[t].count = calls[day]
    BY <1>4, <1>6, <2>2 DEF ReadCount
  <2>5. Counted'
    BY <1>3, <2>1, <2>3 DEF Counted, InBudget
  <2>6. ASSUME NEW u \in Turns  PROVE Room(u)'
    <3>1. CASE u = t
      <4>1. calls[day] < Cap
        BY <1>3, <1>6 DEF Room, ReadCount
      <4>2. budget.day <= day
        BY <1>3 DEF Counted
      <4> QED  BY <1>4, <2>3, <2>4, <3>1, <4>1, <4>2 DEF Room
    <3>2. CASE u # t
      BY <1>3, <2>3, <3>2 DEF Room
    <3> QED  BY <3>1, <3>2
  <2> QED  BY <2>5, <2>6
<1>7. CASE Truncate(t)
  <2>1. UNCHANGED <<calls, day, mem>> /\ pc'[t] = "write" /\ \A u \in Turns \ {t} : pc'[u] = pc[u]
    BY <1>4, <1>7 DEF Truncate, Goto, world
  <2>2. budget'.day = budget.day /\ budget'.count = budget.count
    BY <1>4, <1>7 DEF Truncate, Budget
  <2>3. t \in InBudget
    BY <1>7 DEF Truncate, InBudget
  <2>4. Counted'
    BY <1>3, <2>1, <2>2, <2>3 DEF Counted, InBudget
  <2>5. ASSUME NEW u \in Turns  PROVE Room(u)'
    BY <1>3, <1>7, <2>1, <2>2 DEF Room, Truncate
  <2> QED  BY <2>4, <2>5
<1>8. CASE WriteCount(t)
  <2> DEFINE m == mem[t]
  <2>1. /\ m.day \in 1..MaxDays /\ budget.day <= m.day /\ m.day <= day
        /\ m.count = calls[m.day] /\ m.count < Cap
    BY <1>3, <1>4, <1>8 DEF Room, WriteCount
  <2>2. ~budget'.torn /\ budget'.day = m.day /\ budget'.count = calls[m.day] + 1
    BY <1>8, <2>1 DEF WriteCount
  <2>3. /\ calls'[m.day] = calls[m.day] + 1
        /\ \A d \in 1..MaxDays : d # m.day => calls'[d] = calls[d]
    BY <1>4, <1>8, <2>1 DEF WriteCount
  <2>4. day' = day /\ pc'[t] = "send"
        /\ \A u \in Turns \ {t} : pc'[u] = pc[u] /\ mem'[u] = mem[u]
    BY <1>4, <1>8 DEF WriteCount, Goto, world
  <2>5. \A u \in Turns : u \notin InBudget'
    BY <1>3, <1>8, <2>4 DEF WriteCount, Counted, InBudget
  <2>6. ASSUME NEW d \in 1..MaxDays, d > m.day  PROVE calls'[d] = 0
    <3>1. d # m.day /\ d > budget.day
      BY <1>4, <2>1, <2>6, PeerCallsAssumption
    <3>2. calls[d] = 0
      BY <1>3, <3>1 DEF Counted
    <3> QED  BY <2>3, <3>1, <3>2
  <2>7. ASSUME NEW d \in 1..MaxDays  PROVE calls'[d] <= Cap
    <3>1. CASE d = m.day
      BY <1>4, <2>1, <2>3, <3>1
    <3>2. CASE d # m.day
      BY <1>3, <2>3, <3>2 DEF Counted
    <3> QED  BY <3>1, <3>2
  <2>8. Counted'
    BY <2>1, <2>2, <2>3, <2>4, <2>5, <2>6, <2>7 DEF Counted, InBudget
  <2>9. ASSUME NEW u \in Turns  PROVE Room(u)'
    BY <2>5 DEF Room, InBudget
  <2> QED  BY <2>8, <2>9
<1> QED  BY <1>5, <1>6, <1>7, <1>8

\* So do those of peers, owners, the clock and the process; a new day and a crash
\* are the ones that touch the account.
LEMMA OtherCap ==
  ASSUME Types, CapInv,
         \/ \E task \in network : Receive(task) \/ Withdraw(task)
         \/ \E p \in Peers : Probe(p) \/ Revoke(p)
         \/ Midnight \/ Crash \/ UNCHANGED vars
  PROVE  CapInv'
<1>1. CASE \/ \E task \in network : Receive(task) \/ Withdraw(task)
           \/ \E p \in Peers : Probe(p) \/ Revoke(p)
           \/ UNCHANGED vars
  <2>1. UNCHANGED <<budget, calls, day, raced, pc, mem>>
    BY <1>1 DEF Receive, Withdraw, Probe, Revoke, vars, files, world
  <2> QED  BY <2>1, CapKept DEF InBudget
<1> SUFFICES ASSUME ~raced', Midnight \/ Crash
             PROVE  Counted' /\ \A u \in Turns : Room(u)'
  BY <1>1 DEF CapInv
<1>2. Counted /\ \A u \in Turns : Room(u)
  BY DEF CapInv, Midnight, Crash, files
<1>3. budget.day \in 1..MaxDays /\ day \in 1..MaxDays /\ calls \in [1..MaxDays -> Nat] /\ Cap \in Nat
      /\ MaxDays \in Nat \ {0} /\ pc \in [Turns -> Stage] /\ budget.torn \in BOOLEAN
  BY PeerCallsAssumption DEF Types, TypeOK, Budget
<1>4. CASE Midnight
  <2>1. UNCHANGED <<budget, calls, pc, mem>> /\ day' = day + 1 /\ day' \in 1..MaxDays
    BY <1>3, <1>4 DEF Midnight, files
  <2>2. calls[day'] = 0 /\ Cap > 0
    BY <1>2, <1>3, <2>1, PeerCallsAssumption DEF Counted
  <2>3. Counted'
    BY <1>2, <1>3, <2>1 DEF Counted, InBudget
  <2>4. ASSUME NEW u \in Turns  PROVE Room(u)'
    <3>1. mem[u].day \in 1..MaxDays
      BY DEF Types, TypeOK
    <3> QED  BY <1>2, <1>3, <2>1, <2>2, <3>1 DEF Room
  <2> QED  BY <2>3, <2>4
<1>5. CASE Crash
  <2>1. UNCHANGED <<budget, calls, day>> /\ ~budget.torn
    BY <1>5 DEF Crash
  <2>2. \A u \in Turns : pc'[u] \notin {"read", "truncate", "write"}
    BY <1>3, <1>5 DEF Crash, InFlight, Stage
  <2>3. Counted'
    BY <1>2, <2>1, <2>2 DEF Counted, InBudget
  <2>4. ASSUME NEW u \in Turns  PROVE Room(u)'
    BY <2>2 DEF Room
  <2> QED  BY <2>3, <2>4
<1> QED  BY <1>4, <1>5

\* For any turns and any cap: no more calls are let through on a day than the cap,
\* and the budget file says how many there were, unless two turns were between
\* check and write at once or a crash left the file empty (withinDailyCap,
\* recordA2ACall).
THEOREM CapHolds == Spec => []CapIsKept
<1>1. ASSUME Types, CapInv, [Next]_vars  PROVE Types' /\ CapInv'
  BY <1>1, StepTypes, OtherTypes, StepCap, OtherCap DEF Next
<1>2. ASSUME Types, CapInv  PROVE CapIsKept
  <2> SUFFICES ASSUME ~raced
               PROVE  /\ \A d \in 1..MaxDays : calls[d] <= Cap
                      /\ InBudget = {} => Load = calls[day]
    BY <1>2 DEF CapIsKept, Types
  <2>1. Counted
    BY <1>2 DEF CapInv
  <2>2. ASSUME InBudget = {}  PROVE Load = calls[day]
    <3>1. ~budget.torn
      BY <2>1, <2>2 DEF Counted, InBudget
    <3>2. budget.day \in 1..MaxDays /\ day \in 1..MaxDays
      BY <1>2 DEF Types, TypeOK
    <3> QED  BY <2>1, <3>1, <3>2, PeerCallsAssumption DEF Counted, Load
  <2> QED  BY <2>1, <2>2 DEF Counted
<1> QED  BY TypesInit, CapInit, <1>1, <1>2, PTL DEF Spec

-----------------------------------------------------------------------------
\* At the start nobody was asked.
LEMMA AskedInit == Init => AskedInv
  BY PeerCallsAssumption DEF Init, AskedInv, Asked, Pending, Chances

\* How many deliveries are still ahead of a turn at each stage.
LEMMA ChanceValues ==
  /\ \A stage : Chances(stage) \in Nat /\ Chances(stage) <= 3
  /\ \A stage \in {"idle", "check", "read", "truncate", "write", "send"} : Chances(stage) = 0
  /\ Chances("wait") = 1 /\ Chances("retry") = 1
  /\ Chances("wait again") = 2 /\ Chances("fallback") = 2
  /\ \A stage \in {"propose", "done", "thrown", "lost"} : Chances(stage) = 3
  BY DEF Chances

\* A turn may go on to a stage that allows as many deliveries.
LEMMA AskedKept ==
  ASSUME Types, NEW t \in Turns, Asked(t),
         pc[t] # "done", Chances(pc[t]) <= Chances(pc'[t]),
         network' = network, heard'[t] = heard[t], told'[t] = told[t], proposed' = proposed,
         Pending(t) => mem'[t].peer = mem[t].peer /\ mem'[t].intent = mem[t].intent
  PROVE  Asked(t)'
<1>1. heard[t] \in Nat /\ Chances(pc[t]) \in Nat /\ Chances(pc'[t]) \in Nat
  BY ChanceValues DEF Types, TypeOK
<1>2. heard[t] <= Chances(pc'[t]) /\ (Pending(t) => heard[t] + 1 <= Chances(pc'[t]))
  BY <1>1 DEF Asked
<1>3. t \notin proposed
  BY DEF Asked
<1> QED  BY <1>2, <1>3 DEF Asked, Pending

\* A turn is left as it is by what happens to others.
LEMMA OthersAsked ==
  ASSUME NEW t \in Turns, Asked(t),
         \A task : task.thread = t => (task \in network' <=> task \in network),
         pc'[t] = pc[t], mem'[t] = mem[t], heard'[t] = heard[t], told'[t] = told[t],
         t \in proposed' <=> t \in proposed
  PROVE  Asked(t)'
  BY DEF Asked, Pending

\* Where a step of a turn leads, and that no other turn goes along.
LEMMA StepGoes ==
  ASSUME Types, NEW t \in Turns, Step(t) \/ Ask(t)
  PROVE  \A u \in Turns \ {t} :
           /\ pc'[u] = pc[u] /\ mem'[u] = mem[u]
           /\ heard'[u] = heard[u] /\ told'[u] = told[u]
           /\ u \in proposed' <=> u \in proposed
<1>1. \A u \in Turns \ {t} : pc'[u] = pc[u]
  BY DEF Step, Ask, CheckCap, ReadCount, Truncate, WriteCount, Send, SendFails, AnswerEmpty, Answer,
         Fallback, Propose, Goto, Types, TypeOK
<1>2. \A u \in Turns \ {t} : mem'[u] = mem[u]
  BY DEF Step, Ask, CheckCap, ReadCount, Truncate, WriteCount, Send, SendFails, AnswerEmpty, Answer,
         Fallback, Propose, Types, TypeOK
<1>3. CASE ~Fallback(t)
  <2>1. \A u \in Turns \ {t} : heard'[u] = heard[u] /\ told'[u] = told[u]
    BY <1>3 DEF Step, Ask, CheckCap, ReadCount, Truncate, WriteCount, Send, SendFails, AnswerEmpty,
                Answer, Propose, Types, TypeOK
  <2>2. \A u \in Turns \ {t} : u \in proposed' <=> u \in proposed
    BY <1>3 DEF Step, Ask, CheckCap, ReadCount, Truncate, WriteCount, Send, SendFails, AnswerEmpty,
                Answer, Propose, files
  <2> QED  BY <1>1, <1>2, <2>1, <2>2
<1>4. CASE Fallback(t)
  <2> DEFINE task == [thread |-> t, peer |-> mem[t].peer, intent |-> mem[t].intent]
  <2>1. task \in Task /\ task.thread = t
    BY DEF Types, TypeOK, Task
  <2>2. \A u \in Turns \ {t} : heard'[u] = heard[u] /\ told'[u] = told[u]
    BY <1>4, <2>1, TakingUp DEF Fallback
  <2>3. proposed' = proposed
    BY <1>4 DEF Fallback, files
  <2> QED  BY <1>1, <1>2, <2>2, <2>3
<1> QED  BY <1>3, <1>4

\* A delivery uses up one chance of its turn; no other step adds to what was asked.
LEMMA StepAsked ==
  ASSUME Types, AskedInv, NEW t \in Turns, Step(t) \/ Ask(t)
  PROVE  Asked(t)'
<1>0. Asked(t)
  BY DEF AskedInv
<1>1. /\ pc \in [Turns -> Stage] /\ heard[t] \in Nat
      /\ told[t].caller \in Nat /\ told[t].peer \in Nat
      /\ mem[t].peer \in Peers /\ mem[t].intent \in Intent
  BY DEF Types, TypeOK
<1>2. CASE Ask(t)
  <2>1. pc[t] = "idle" /\ pc'[t] \in {"done", "check"}
    BY <1>1, <1>2 DEF Ask, Goto
  <2>2. UNCHANGED <<network, heard, told, proposed>>
    BY <1>2 DEF Ask, files
  <2>3. Chances(pc[t]) = 0 /\ pc[t] # "done"
    BY <2>1 DEF Chances
  <2>4. Chances(pc'[t]) \in Nat
    BY DEF Chances
  <2>5. ~Pending(t) /\ Chances(pc[t]) <= Chances(pc'[t])
    BY <1>0, <1>1, <2>3, <2>4 DEF Asked
  <2> QED  BY <1>0, <2>2, <2>3, <2>5, AskedKept
<1>3. CASE CheckCap(t) \/ ReadCount(t) \/ Truncate(t) \/ WriteCount(t)
  <2>1. /\ pc[t] \in {"check", "read", "truncate", "write"}
        /\ pc'[t] \in {"read", "done", "truncate", "write", "send"}
    BY <1>1, <1>3 DEF CheckCap, ReadCount, Truncate, WriteCount, Goto
  <2>2. UNCHANGED <<network, heard, told, proposed>>
    BY <1>3 DEF CheckCap, ReadCount, Truncate, WriteCount, files
  <2>3. Chances(pc[t]) = 0 /\ pc[t] # "done"
    BY <2>1 DEF Chances
  <2>4. Chances(pc'[t]) \in Nat
    BY DEF Chances
  <2>5. ~Pending(t) /\ Chances(pc[t]) <= Chances(pc'[t])
    BY <1>0, <1>1, <2>3, <2>4 DEF Asked
  <2> QED  BY <1>0, <2>2, <2>3, <2>5, AskedKept
<1>4. CASE SendFails(t) \/ AnswerEmpty(t) \/ Answer(t)
  <2>1. \/ pc[t] = "wait" /\ pc'[t] \in {"thrown", "retry", "propose", "done"}
        \/ pc[t] = "wait again" /\ pc'[t] \in {"thrown", "fallback", "propose", "done"}
    BY <1>1, <1>4 DEF SendFails, AnswerEmpty, Answer, Answered, Goto
  <2>2. UNCHANGED <<network, heard, told, proposed, mem>>
    BY <1>4 DEF SendFails, AnswerEmpty, Answer, files
  <2>3. \/ Chances(pc[t]) = 1 /\ Chances(pc'[t]) \in {1, 3}
        \/ Chances(pc[t]) = 2 /\ Chances(pc'[t]) \in {2, 3}
    <3>1. CASE pc[t] = "wait" /\ pc'[t] \in {"thrown", "retry", "propose", "done"}
      BY <3>1 DEF Chances
    <3>2. CASE pc[t] = "wait again" /\ pc'[t] \in {"thrown", "fallback", "propose", "done"}
      BY <3>2 DEF Chances
    <3> QED  BY <2>1, <3>1, <3>2
  <2>4. Chances(pc[t]) <= Chances(pc'[t])
    BY <2>3
  <2>5. pc[t] # "done"
    BY <2>1
  <2> QED  BY <1>0, <2>2, <2>4, <2>5, AskedKept
<1>5. CASE Send(t)
  <2> DEFINE task == [thread |-> t, peer |-> mem[t].peer, intent |-> mem[t].intent]
  <2>1. UNCHANGED <<heard, told, proposed, mem>> /\ pc[t] \in {"send", "retry"}
    BY <1>5 DEF Send, files
  <2>2. CASE network' = network /\ pc'[t] \in {"fallback", "thrown"}
    <3>1. Chances(pc[t]) \in {0, 1} /\ Chances(pc'[t]) \in {2, 3}
      BY <2>1, <2>2 DEF Chances
    <3>2. Chances(pc[t]) <= Chances(pc'[t]) /\ pc[t] # "done"
      BY <2>1, <3>1
    <3> QED  BY <1>0, <2>1, <2>2, <3>2, AskedKept
  <2>3. CASE network' = network \cup {task} /\ pc'[t] = IF pc[t] = "send" THEN "wait" ELSE "wait again"
    <3>1. \/ Chances(pc[t]) = 0 /\ Chances(pc'[t]) = 1
          \/ Chances(pc[t]) = 1 /\ Chances(pc'[t]) = 2
      BY <2>1, <2>3 DEF Chances
    <3>2. heard[t] + 1 <= Chances(pc'[t])
      BY <1>0, <1>1, <3>1 DEF Asked
    <3>3. ASSUME NEW other \in network', other.thread = t
          PROVE  other.peer = mem'[t].peer /\ other.intent = mem'[t].intent
      <4>1. other = task \/ other \in network
        BY <2>3
      <4>2. CASE other = task
        BY <2>1, <4>2
      <4>3. CASE other \in network
        BY <1>0, <2>1, <3>3, <4>3 DEF Asked
      <4> QED  BY <4>1, <4>2, <4>3
    <3>4. t \notin proposed
      BY <1>0, <2>1 DEF Asked
    <3>5. heard'[t] <= Chances(pc'[t])
      BY <1>1, <2>1, <3>1, <3>2
    <3>6. told'[t].peer <= heard'[t] + told'[t].caller
          /\ told'[t].caller = IF t \in proposed' THEN 1 ELSE 0
      BY <1>0, <2>1 DEF Asked
    <3> QED  BY <2>1, <3>2, <3>3, <3>4, <3>5, <3>6 DEF Asked
  <2>4. \/ network' = network /\ pc'[t] \in {"fallback", "thrown"}
        \/ network' = network \cup {task} /\ pc'[t] = IF pc[t] = "send" THEN "wait" ELSE "wait again"
    BY <1>1, <1>5 DEF Send, Goto
  <2> QED  BY <2>2, <2>3, <2>4
<1>6. CASE Fallback(t)
  <2> DEFINE task == [thread |-> t, peer |-> mem[t].peer, intent |-> mem[t].intent]
  <2>1. /\ pc[t] = "fallback" /\ pc'[t] \in {"propose", "done"}
        /\ UNCHANGED <<mem, network, proposed>>
    BY <1>1, <1>6 DEF Fallback, Answered, Goto, files
  <2>2. Chances(pc[t]) = 2 /\ Chances(pc'[t]) = 3
    BY <2>1 DEF Chances
  <2>3. CASE UNCHANGED <<heard, told>>
    <3>1. Chances(pc[t]) <= Chances(pc'[t]) /\ pc[t] # "done"
      BY <2>1, <2>2
    <3> QED  BY <1>0, <2>1, <2>3, <3>1, AskedKept
  <2>4. CASE TakeUp(task)
    <3>1. task \in Task /\ task.thread = t
      BY <1>1 DEF Task
    <3>2. /\ told'[t].caller = told[t].caller
          /\ heard'[t] = heard[t] \/ heard'[t] = heard[t] + 1
          /\ told'[t].peer <= told[t].peer + (heard'[t] - heard[t])
          /\ told'[t].peer \in Nat
      BY <2>4, <3>1, TakingUp
    <3>3. heard[t] <= 2 /\ (Pending(t) => heard[t] + 1 <= 2) /\ t \notin proposed
      BY <1>0, <2>1, <2>2 DEF Asked
    <3>4. heard'[t] <= Chances(pc'[t]) /\ (Pending(t)' => heard'[t] + 1 <= Chances(pc'[t]))
      BY <1>1, <2>1, <2>2, <3>2, <3>3 DEF Pending
    <3>5. told'[t].peer <= heard'[t] + told'[t].caller
      BY <1>0, <1>1, <3>2 DEF Asked
    <3> QED  BY <1>0, <2>1, <3>2, <3>3, <3>4, <3>5 DEF Asked
  <2> QED  BY <1>6, <2>3, <2>4 DEF Fallback
<1>7. CASE Propose(t)
  <2>1. pc[t] = "propose" /\ pc'[t] = "done" /\ UNCHANGED <<mem, network, heard>>
    BY <1>1, <1>7 DEF Propose, Goto
  <2>2. Chances(pc[t]) = Chances(pc'[t]) /\ Chances(pc[t]) \in Nat /\ pc[t] # "done"
    BY <2>1 DEF Chances
  <2>3. CASE UNCHANGED <<proposed, told>>
    BY <1>0, <2>1, <2>2, <2>3, AskedKept
  <2>4. CASE /\ proposed' = proposed \cup {t}
             /\ told' = [told EXCEPT ![t] = [caller |-> @.caller + 1, peer |-> @.peer + 1]]
    <3>1. told'[t].caller = told[t].caller + 1 /\ told'[t].peer = told[t].peer + 1
      BY <2>4 DEF Types, TypeOK
    <3>2. told[t].caller = 0
      BY <1>0, <2>2 DEF Asked
    <3>3. told'[t].peer <= heard'[t] + told'[t].caller
      BY <1>0, <1>1, <2>1, <3>1 DEF Asked
    <3> QED  BY <1>0, <2>1, <2>2, <2>4, <3>1, <3>2, <3>3 DEF Asked, Pending
  <2> QED  BY <1>7, <2>3, <2>4 DEF Propose
<1> QED  BY <1>2, <1>3, <1>4, <1>5, <1>6, <1>7 DEF Step

\* So the steps of a turn keep the count for every turn.
LEMMA StepKeepsAsked ==
  ASSUME Types, AskedInv, NEW t \in Turns, Step(t) \/ Ask(t)
  PROVE  AskedInv'
<1> SUFFICES ASSUME NEW u \in Turns, u # t  PROVE Asked(u)'
  BY StepAsked DEF AskedInv
<1> DEFINE sent == [thread |-> t, peer |-> mem[t].peer, intent |-> mem[t].intent]
<1>1. network' = network \/ network' = network \cup {sent}
  BY DEF Step, Ask, CheckCap, ReadCount, Truncate, WriteCount, Send, SendFails, AnswerEmpty, Answer,
         Fallback, Propose
<1>2. \A task : task.thread = u => (task \in network' <=> task \in network)
  <2>1. sent.thread = t
    OBVIOUS
  <2> HIDE DEF sent
  <2> QED  BY <1>1, <2>1
<1> QED  BY <1>2, StepGoes, OthersAsked DEF AskedInv

\* So do peers that take a task up late, owners, the clock and the process.
LEMMA OtherAsked ==
  ASSUME Types, AskedInv, NEW t \in Turns,
         \/ \E task \in network : Receive(task) \/ Withdraw(task)
         \/ \E p \in Peers : Probe(p) \/ Revoke(p)
         \/ Midnight \/ Crash \/ UNCHANGED vars
  PROVE  Asked(t)'
<1>0. Asked(t)
  BY DEF AskedInv
<1>1. /\ heard[t] \in Nat /\ told[t].caller \in Nat /\ told[t].peer \in Nat
      /\ pc \in [Turns -> Stage] /\ network \subseteq Task /\ t # "probe"
      /\ Chances(pc[t]) \in Nat
  BY PeerCallsAssumption DEF Types, TypeOK, Chances
<1>2. ASSUME NEW task \in network, Receive(task)  PROVE Asked(t)'
  <2>1. network' = network \ {task} /\ UNCHANGED <<pc, mem, proposed>> /\ TakeUp(task)
    BY <1>2 DEF Receive, files
  <2>2. /\ told'[t].caller = told[t].caller
        /\ t # task.thread => heard'[t] = heard[t] /\ told'[t] = told[t]
        /\ heard'[t] = heard[t] \/ heard'[t] = heard[t] + 1
        /\ told'[t].peer <= told[t].peer + (heard'[t] - heard[t])
        /\ told'[t].peer \in Nat
    BY <1>1, <2>1, TakingUp
  <2>3. CASE task.thread # t
    <3>1. \A other : other.thread = t => (other \in network' <=> other \in network)
      BY <2>1, <2>3
    <3> QED  BY <1>0, <2>1, <2>2, <2>3, <3>1, OthersAsked
  <2>4. CASE task.thread = t
    <3>1. Pending(t) /\ heard[t] + 1 <= Chances(pc[t])
      BY <1>0, <2>4 DEF Asked, Pending
    <3>2. \A other \in network' : other.thread # t
      <4> SUFFICES ASSUME NEW other \in network, other.thread = t  PROVE other = task
        BY <2>1
      <4>1. other \in Task /\ task \in Task
        BY <1>1
      <4>2. other.peer = task.peer /\ other.intent = task.intent
        BY <1>0, <2>4 DEF Asked
      <4> QED  BY <2>4, <4>1, <4>2 DEF Task
    <3>3. heard'[t] <= Chances(pc'[t])
      BY <1>1, <2>1, <2>2, <3>1
    <3>4. told'[t].peer <= heard'[t] + told'[t].caller
      BY <1>0, <1>1, <2>2 DEF Asked
    <3> QED  BY <1>0, <2>1, <2>2, <3>2, <3>3, <3>4 DEF Asked, Pending
  <2> QED  BY <2>3, <2>4
<1>3. CASE \/ \E task \in network : Withdraw(task)
           \/ \E p \in Peers : Probe(p) \/ Revoke(p)
           \/ Midnight \/ UNCHANGED vars
  <2>1. UNCHANGED <<pc, mem, heard, told, proposed>>
    BY <1>3 DEF Withdraw, Probe, Revoke, Midnight, vars, files
  <2>2. \A task : task.thread = t => (task \in network' <=> task \in network)
    BY <1>1, <1>3 DEF Withdraw, Probe, Revoke, Midnight, vars
  <2> QED  BY <1>0, <2>1, <2>2, OthersAsked
<1>4. CASE Crash
  <2>1. UNCHANGED <<network, mem, heard, told, proposed>>
    BY <1>4 DEF Crash
  <2>2. CASE t \notin InFlight
    <3>1. pc'[t] = pc[t]
      BY <1>1, <1>4, <2>2 DEF Crash
    <3> QED  BY <1>0, <2>1, <3>1, OthersAsked
  <2>3. CASE t \in InFlight
    <3>1. pc'[t] = "lost" /\ pc[t] # "done"
      BY <1>1, <1>4, <2>3 DEF Crash, InFlight
    <3>2. Chances(pc'[t]) = 3
      BY <3>1 DEF Chances
    <3>3. Chances(pc[t]) = 0 \/ Chances(pc[t]) = 1 \/ Chances(pc[t]) = 2 \/ Chances(pc[t]) = 3
      BY DEF Chances
    <3>4. Chances(pc[t]) <= Chances(pc'[t])
      BY <3>2, <3>3
    <3> QED  BY <1>0, <2>1, <3>1, <3>4, AskedKept
  <2> QED  BY <2>2, <2>3
<1> QED  BY <1>2, <1>3, <1>4

\* For any turns, peers, losses and restarts: one request is put before its peer
\* three times at most, its owner gets no more cards than that and the proposal,
\* and the caller's owner is told by the proposal of that turn alone
\* (runOutboundA2A, parkInitiatorMeetingRequest).
THEOREM ThriceAtMost == Spec => []AskedAtMostThrice
<1>1. ASSUME Types, AskedInv, [Next]_vars  PROVE Types' /\ AskedInv'
  BY <1>1, StepTypes, OtherTypes, StepKeepsAsked, OtherAsked DEF Next, AskedInv
<1>2. ASSUME Types, AskedInv  PROVE AskedAtMostThrice
  <2> SUFFICES ASSUME NEW t \in Turns  PROVE heard[t] <= 3
    BY <1>2 DEF AskedAtMostThrice, AskedInv, Asked
  <2>1. heard[t] \in Nat /\ heard[t] <= Chances(pc[t])
    BY <1>2 DEF AskedInv, Asked, Types, TypeOK
  <2>2. Chances(pc[t]) = 0 \/ Chances(pc[t]) = 1 \/ Chances(pc[t]) = 2 \/ Chances(pc[t]) = 3
    BY DEF Chances
  <2> QED  BY <2>1, <2>2
<1> QED  BY TypesInit, AskedInit, <1>1, <1>2, PTL DEF Spec
=============================================================================
