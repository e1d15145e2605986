-------------------------- MODULE DagManagerProofs --------------------------
(***************************************************************************)
(* Proofs about DagManager, for any number of DAGs, chats, runs, stops and *)
(* faults: type correctness, one turn per chat, no false "done", a stopped *)
(* run winds down, and without faults the verdict of a run reaches its     *)
(* keys and its chat.                                                      *)
(***************************************************************************)
EXTENDS DagManagerProps, TLAPS

\* Where an operation on Redis leads when it returns, raises or is cancelled.
LEMMA PhaseTables ==
  /\ OnRedis = {"spec", "announce", "closing", "saving", "failing",
                "cancelling", "reporting", "fetching"}
  /\ DOMAIN AfterCancel = OnRedis \cup {"running", "calling"}
  /\ AfterOk["spec"] = "announce" /\ AfterOk["announce"] = "running"
  /\ AfterOk["closing"] = "saving" /\ AfterOk["saving"] = "reporting"
  /\ AfterOk["failing"] = "reporting" /\ AfterOk["cancelling"] = "reporting"
  /\ AfterOk["reporting"] = "fetching" /\ AfterOk["fetching"] = "calling"
  /\ AfterError["spec"] = "announce" /\ AfterError["announce"] = "ended"
  /\ AfterError["closing"] = "failing" /\ AfterError["saving"] = "failing"
  /\ AfterError["failing"] = "reporting" /\ AfterError["cancelling"] = "reporting"
  /\ AfterError["reporting"] = "ended" /\ AfterError["fetching"] = "ended"
  /\ AfterCancel["spec"] = "ended" /\ AfterCancel["announce"] = "ended"
  /\ AfterCancel["running"] = "cancelling" /\ AfterCancel["closing"] = "cancelling"
  /\ AfterCancel["saving"] = "cancelling" /\ AfterCancel["failing"] = "reporting"
  /\ AfterCancel["cancelling"] = "reporting" /\ AfterCancel["reporting"] = "ended"
  /\ AfterCancel["fetching"] = "ended" /\ AfterCancel["calling"] = "ended"
  BY DEF OnRedis, AfterOk, AfterError, AfterCancel

\* The successors of a phase are phases, and none of them is a turn.
LEMMA NextPhases ==
  /\ \A p \in OnRedis :
       /\ AfterOk[p] \in {"announce", "running", "saving", "reporting", "fetching", "calling"}
       /\ AfterError[p] \in {"announce", "failing", "reporting", "ended"}
  /\ \A p \in DOMAIN AfterCancel : AfterCancel[p] \in {"cancelling", "reporting", "ended"}
  BY PhaseTables

\* An operation on Redis leaves well-typed keys behind.
LEMMA EffectTypeOK ==
  ASSUME TypeOK, NEW d \in Dag, gen[d] \in Run, Effect(d) \/ NoEffect
  PROVE  /\ status' \in [Dag -> [state : State, by : 0 .. MaxRuns]]
         /\ result' \in [Dag -> 0 .. MaxRuns]
<1>1. WrittenState(d) \in State
  BY DEF WrittenState, State
<1>2. gen[d] \in 0 .. MaxRuns
  BY DEF TypeOK
<1>3. CASE Effect(d)
  BY <1>1, <1>2, <1>3 DEF Effect, TypeOK
<1>4. CASE NoEffect
  BY <1>4 DEF NoEffect, TypeOK
<1> QED
  BY <1>3, <1>4

\* Every variable has its type at the start.
LEMMA InitTypeOK == Init => TypeOK /\ Started
  BY ChatsAssumption, BoundsAssumption
     DEF Init, TypeOK, Started, Phase, Run, State, NotTold, NoOne

\* Every action preserves the types.
LEMMA StepTypeOK == TypeOK /\ Started /\ [Next]_vars => TypeOK' /\ Started'
<1> SUFFICES ASSUME TypeOK, Started, [Next]_vars
             PROVE  TypeOK' /\ Started'
  OBVIOUS
<1> USE ChatsAssumption, BoundsAssumption
<1>1. ASSUME NEW c \in Chat, UserTurn(c) \/ UserTurnEnds(c)
      PROVE  TypeOK' /\ Started'
  BY <1>1 DEF UserTurn, UserTurnEnds, TypeOK, Started, runVars, redisVars, chatVars
<1>2. ASSUME NEW c \in Chat, NEW d \in Dag, StartWorkflow(c, d)
      PROVE  TypeOK' /\ Started'
  <2>1. gen[d] + 1 \in Run /\ gen[d] + 1 \in 0 .. MaxRuns
    BY <1>2 DEF StartWorkflow, TypeOK, Run
  <2>2. NotTold \in [state : State, by : 0 .. MaxRuns, result : 0 .. MaxRuns]
    BY DEF NotTold, State
  <2> QED
    BY <1>2, <2>1, <2>2
       DEF StartWorkflow, Goto, Phase, TypeOK, Started, runVars, redisVars, chatVars
<1>3. ASSUME NEW c \in Chat, NEW d \in Dag, StopWorkflow(c, d)
      PROVE  TypeOK' /\ Started'
  <2>1. <<d, gen[d]>> \in Dag \X Run
    BY <1>3 DEF StopWorkflow, Started
  <2> QED
    BY <1>3, <2>1 DEF StopWorkflow, TypeOK, Started, runVars, redisVars, chatVars
<1>4. ASSUME NEW c \in Chat, StopReturns(c)
      PROVE  TypeOK' /\ Started'
  BY <1>4 DEF StopReturns, TypeOK, Started, runVars, redisVars, chatVars
<1>5. ASSUME NEW d \in Dag, RedisOk(d)
      PROVE  TypeOK' /\ Started'
  <2>1. gen[d] \in Run /\ phase[d] \in OnRedis
    BY <1>5, PhaseTables DEF RedisOk, Started
  <2>2. phase' \in [Dag -> Phase]
    BY <1>5, <2>1, NextPhases DEF RedisOk, Goto, TypeOK, Phase
  <2>3. /\ status' \in [Dag -> [state : State, by : 0 .. MaxRuns]]
        /\ result' \in [Dag -> 0 .. MaxRuns]
    BY <1>5, <2>1, EffectTypeOK DEF RedisOk
  <2>4. told' \in [Dag -> [state : State, by : 0 .. MaxRuns, result : 0 .. MaxRuns]]
    <3>1. /\ status[d].state \in State /\ status[d].by \in 0 .. MaxRuns
          /\ result[d] \in 0 .. MaxRuns
      BY DEF TypeOK
    <3>2. told[d] \in [state : State, by : 0 .. MaxRuns, result : 0 .. MaxRuns]
      BY DEF TypeOK
    <3>3. CASE phase[d] = "reporting"
      <4> DEFINE r == [state |-> status[d].state, by |-> status[d].by, result |-> 0]
      <4>1. r \in [state : State, by : 0 .. MaxRuns, result : 0 .. MaxRuns]
        BY <3>1
      <4>2. told' = [told EXCEPT ![d] = r]
        BY <1>5, <3>3 DEF RedisOk
      <4> HIDE DEF r
      <4> QED
        BY <4>1, <4>2 DEF TypeOK
    <3>4. CASE phase[d] = "fetching"
      <4> DEFINE r == [told[d] EXCEPT !.result = result[d]]
      <4>1. r \in [state : State, by : 0 .. MaxRuns, result : 0 .. MaxRuns]
        BY <3>1, <3>2
      <4>2. told' = [told EXCEPT ![d] = r]
        BY <1>5, <3>4 DEF RedisOk
      <4> HIDE DEF r
      <4> QED
        BY <4>1, <4>2 DEF TypeOK
    <3>5. CASE phase[d] \notin {"reporting", "fetching"}
      BY <1>5, <3>5 DEF RedisOk, TypeOK
    <3> QED
      BY <3>3, <3>4, <3>5
  <2>5. alive' \in [Dag -> SUBSET Run]
    BY <1>5, <2>1 DEF RedisOk, TypeOK
  <2> QED
    BY <1>5, <2>1, <2>2, <2>3, <2>4, <2>5 DEF RedisOk, Goto, TypeOK, Started, chatVars
<1>6. ASSUME NEW d \in Dag, RedisFails(d)
      PROVE  TypeOK' /\ Started'
  <2>1. gen[d] \in Run /\ phase[d] \in OnRedis
    BY <1>6, PhaseTables DEF RedisFails, Started
  <2>2. phase' \in [Dag -> Phase]
    BY <1>6, <2>1, NextPhases DEF RedisFails, Goto, TypeOK, Phase
  <2>3. /\ status' \in [Dag -> [state : State, by : 0 .. MaxRuns]]
        /\ result' \in [Dag -> 0 .. MaxRuns]
    BY <1>6, <2>1, EffectTypeOK DEF RedisFails
  <2> QED
    BY <1>6, <2>1, <2>2, <2>3 DEF RedisFails, Goto, TypeOK, Started, runVars, chatVars
<1>7. ASSUME NEW d \in Dag, WorkspaceFails(d)
      PROVE  TypeOK' /\ Started'
  BY <1>7 DEF WorkspaceFails, Goto, Phase, TypeOK, Started, runVars, redisVars, chatVars
<1>8. ASSUME NEW d \in Dag, RunnerReturns(d) \/ RunnerRaises(d)
      PROVE  TypeOK' /\ Started'
  <2>1. CASE RunnerReturns(d)
    <3>1. phase[d] = "running" /\ gen[d] \in Run
      BY <2>1 DEF RunnerReturns, Started
    <3>2. PICK o \in {"success", "failure"} : outcome' = [outcome EXCEPT ![d][gen[d]] = o]
      BY <2>1 DEF RunnerReturns
    <3>3. outcome' \in [Dag -> [Run -> {"none", "success", "failure"}]]
      BY <3>1, <3>2 DEF TypeOK
    <3>4. alive' \in [Dag -> SUBSET Run]
      BY <2>1 DEF RunnerReturns, TypeOK
    <3> QED
      BY <2>1, <3>1, <3>3, <3>4
         DEF RunnerReturns, Goto, Phase, TypeOK, Started, redisVars, chatVars
  <2>2. CASE RunnerRaises(d)
    <3>1. alive' \in [Dag -> SUBSET Run]
      BY <2>2 DEF RunnerRaises, TypeOK
    <3> QED
      BY <2>2, <3>1 DEF RunnerRaises, Goto, Phase, TypeOK, Started, redisVars, chatVars
  <2> QED
    BY <1>8, <2>1, <2>2
<1>9. ASSUME NEW d \in Dag, Cancelled(d)
      PROVE  TypeOK' /\ Started'
  <2>1. gen[d] \in Run
    BY <1>9, PhaseTables DEF Cancelled, Started
  <2>2. phase' \in [Dag -> Phase]
    BY <1>9, NextPhases DEF Cancelled, Goto, TypeOK, Phase
  <2>3. /\ status' \in [Dag -> [state : State, by : 0 .. MaxRuns]]
        /\ result' \in [Dag -> 0 .. MaxRuns]
    BY <1>9, <2>1, EffectTypeOK DEF Cancelled
  <2>4. alive' \in [Dag -> SUBSET Run]
    <3>1. alive' = alive \/ alive' = [alive EXCEPT ![d] = @ \ {gen[d]}]
      BY <1>9 DEF Cancelled
    <3> QED
      BY <3>1 DEF TypeOK
  <2> QED
    BY <1>9, <2>1, <2>2, <2>3, <2>4 DEF Cancelled, Goto, TypeOK, Started, chatVars
<1>10. ASSUME NEW d \in Dag, NEW g \in Run, NodeWrites(d, g) \/ OrphansEnd(d, g)
       PROVE  TypeOK' /\ Started'
  <2>1. [state |-> "running", by |-> g] \in [state : State, by : 0 .. MaxRuns]
    BY DEF State, Run
  <2>2. CASE NodeWrites(d, g)
    BY <2>1, <2>2 DEF NodeWrites, TypeOK, Started, runVars, chatVars
  <2>3. CASE OrphansEnd(d, g)
    <3>1. alive' \in [Dag -> SUBSET Run]
      BY <2>3 DEF OrphansEnd, TypeOK
    <3> QED
      BY <2>3, <3>1 DEF OrphansEnd, TypeOK, Started, redisVars, chatVars
  <2> QED
    BY <1>10, <2>2, <2>3
<1>11. ASSUME NEW d \in Dag, EnterChat(d)
       PROVE  TypeOK' /\ Started'
  BY <1>11 DEF EnterChat, Goto, Phase, TypeOK, Started, runVars, redisVars
<1>12. ASSUME NEW d \in Dag, TurnEnds(d) \/ TurnDropped(d)
       PROVE  TypeOK' /\ Started'
  <2>1. /\ LeaveChat(d) /\ phase[d] # "none"
        /\ cancelReq' \subseteq cancelReq
        /\ UNCHANGED <<runVars, redisVars, stops, faults>>
    BY <1>12 DEF TurnEnds, TurnDropped
  <2> QED
    BY <2>1 DEF LeaveChat, Goto, Phase, TypeOK, Started, runVars, redisVars
<1>13. ASSUME NEW d \in Dag, TurnCancelled(d)
       PROVE  TypeOK' /\ Started'
  <2>1. CASE wait[chat[d]] = NoOne
    BY <1>13, <2>1 DEF TurnCancelled, LeaveChat, Goto, Phase, TypeOK, Started,
                       runVars, redisVars, chatVars
  <2>2. CASE wait[chat[d]] # NoOne
    <3>1. wait[chat[d]][1] \in Dag
      BY <2>2 DEF TypeOK, NoOne
    <3> QED
      BY <1>13, <2>2, <3>1 DEF TurnCancelled, Goto, Phase, TypeOK, Started,
                               runVars, redisVars, chatVars
  <2> QED
    BY <2>1, <2>2
<1>14. ASSUME NEW d \in Dag, Cleanup(d)
       PROVE  TypeOK' /\ Started'
  BY <1>14 DEF Cleanup, Goto, Phase, TypeOK, Started, runVars, redisVars, chatVars
<1>15. CASE UNCHANGED vars
  BY <1>15 DEF vars, TypeOK, Started, runVars, redisVars, chatVars
<1> QED
  BY <1>1, <1>2, <1>3, <1>4, <1>5, <1>6, <1>7, <1>8, <1>9, <1>10, <1>11, <1>12,
     <1>13, <1>14, <1>15
     DEF Next, TaskStep, Fault, Nodes, ChatStep

\* Every variable of DagManager keeps its type, and every registered DAG has
\* had a run.
THEOREM TypeCorrect == Spec => [](TypeOK /\ Started)
  BY InitTypeOK, StepTypeOK, PTL DEF Spec
-----------------------------------------------------------------------------
\* Nothing holds a lock at the start.
LEMMA InitChat == Init => ChatSerialized
  BY ChatsAssumption, DistinctAssumption DEF Init, ChatSerialized, InTurnOf

\* A step that neither moves a DAG into or out of a turn, nor touches a lock,
\* nor gives a DAG in a turn another chat keeps the locks right.
LEMMA ChatUntouched ==
  ASSUME TypeOK, ChatSerialized, UNCHANGED lock,
         \A d \in Dag : /\ InTurnOf(d)' = InTurnOf(d)
                        /\ InTurnOf(d) => chat'[d] = chat[d]
  PROVE  ChatSerialized'
  BY DEF ChatSerialized, TypeOK

\* A turn that ends gives its own lock back, and only that one.
LEMMA ChatLeft ==
  ASSUME TypeOK, ChatSerialized, NEW d \in Dag, InTurnOf(d), LeaveChat(d),
         UNCHANGED chat
  PROVE  ChatSerialized'
  BY DistinctAssumption DEF ChatSerialized, TypeOK, InTurnOf, LeaveChat, Goto

\* Every action keeps one turn per chat.
LEMMA StepChat ==
  TypeOK /\ Started /\ ChatSerialized /\ [Next]_vars => ChatSerialized'
<1> SUFFICES ASSUME TypeOK, ChatSerialized, [Next]_vars
             PROVE  ChatSerialized'
  OBVIOUS
<1>1. ASSUME NEW c \in Chat, UserTurn(c) \/ UserTurnEnds(c)
      PROVE  ChatSerialized'
  <2>1. \A d \in Dag : /\ lock[c] # d /\ lock'[c] # d
                       /\ \A x \in Chat : x # c => lock'[x] = lock[x]
    BY <1>1, DistinctAssumption DEF UserTurn, UserTurnEnds, TypeOK
  <2>2. UNCHANGED <<phase, chat>>
    BY <1>1 DEF UserTurn, UserTurnEnds, runVars
  <2> QED
    BY <2>1, <2>2 DEF ChatSerialized, TypeOK, InTurnOf
<1>2. ASSUME NEW c \in Chat, NEW d \in Dag, StartWorkflow(c, d)
      PROVE  ChatSerialized'
  BY <1>2, ChatUntouched DEF StartWorkflow, Goto, InTurnOf, TypeOK, chatVars
<1>3. ASSUME NEW c \in Chat, NEW d \in Dag, StopWorkflow(c, d)
      PROVE  ChatSerialized'
  BY <1>3, ChatUntouched DEF StopWorkflow, InTurnOf, runVars
<1>4. ASSUME NEW c \in Chat, StopReturns(c)
      PROVE  ChatSerialized'
  BY <1>4, ChatUntouched DEF StopReturns, InTurnOf, runVars
<1>5. ASSUME NEW d \in Dag, NEW to \in Phase, Goto(d, to),
             phase[d] \notin {"turn", "dropped"}, to \notin {"turn", "dropped"},
             UNCHANGED <<chat, lock>>
      PROVE  ChatSerialized'
  BY <1>5, ChatUntouched DEF Goto, InTurnOf, TypeOK
<1>6. ASSUME NEW d \in Dag, RedisOk(d)
      PROVE  ChatSerialized'
  <2>1. phase[d] \in OnRedis /\ AfterOk[phase[d]] \in Phase \ {"turn", "dropped"}
    BY <1>6, NextPhases DEF RedisOk, Phase
  <2> QED
    BY <1>5, <1>6, <2>1, PhaseTables DEF RedisOk, chatVars
<1>7. ASSUME NEW d \in Dag, RedisFails(d)
      PROVE  ChatSerialized'
  <2>1. phase[d] \in OnRedis /\ AfterError[phase[d]] \in Phase \ {"turn", "dropped"}
    BY <1>7, NextPhases DEF RedisFails, Phase
  <2> QED
    BY <1>5, <1>7, <2>1, PhaseTables DEF RedisFails, runVars, chatVars
<1>8. ASSUME NEW d \in Dag, Cancelled(d)
      PROVE  ChatSerialized'
  <2>1. phase[d] \in DOMAIN AfterCancel /\ AfterCancel[phase[d]] \in Phase \ {"turn", "dropped"}
    BY <1>8, NextPhases DEF Cancelled, Phase
  <2> QED
    BY <1>5, <1>8, <2>1, PhaseTables DEF Cancelled, chatVars
<1>9. ASSUME NEW d \in Dag,
             WorkspaceFails(d) \/ RunnerReturns(d) \/ RunnerRaises(d) \/ Cleanup(d)
      PROVE  ChatSerialized'
  <2>1. PICK to \in Phase \ {"turn", "dropped"} :
          Goto(d, to) /\ phase[d] \notin {"turn", "dropped"} /\ UNCHANGED <<chat, lock>>
    BY <1>9 DEF WorkspaceFails, RunnerReturns, RunnerRaises, Cleanup, Phase, runVars, chatVars
  <2> QED
    BY <1>5, <2>1
<1>10. ASSUME NEW d \in Dag, NEW g \in Run, NodeWrites(d, g) \/ OrphansEnd(d, g)
       PROVE  ChatSerialized'
  BY <1>10, ChatUntouched DEF NodeWrites, OrphansEnd, InTurnOf, runVars, chatVars
<1>11. ASSUME NEW d \in Dag, EnterChat(d)
       PROVE  ChatSerialized'
  BY <1>11, DistinctAssumption
     DEF EnterChat, Goto, ChatSerialized, TypeOK, InTurnOf, runVars
<1>12. ASSUME NEW d \in Dag, TurnEnds(d) \/ TurnDropped(d)
       PROVE  ChatSerialized'
  BY <1>12, ChatLeft DEF TurnEnds, TurnDropped, InTurnOf, runVars
<1>13. ASSUME NEW d \in Dag, TurnCancelled(d)
       PROVE  ChatSerialized'
  <2>1. CASE wait[chat[d]] = NoOne
    BY <1>13, <2>1, ChatLeft DEF TurnCancelled, InTurnOf, runVars
  <2>2. CASE wait[chat[d]] # NoOne
    BY <1>13, <2>2, ChatUntouched
       DEF TurnCancelled, Goto, InTurnOf, TypeOK, runVars, chatVars
  <2> QED
    BY <2>1, <2>2
<1>14. CASE UNCHANGED vars
  BY <1>14, ChatUntouched DEF vars, InTurnOf, runVars, chatVars
<1> QED
  BY <1>1, <1>2, <1>3, <1>4, <1>6, <1>7, <1>8, <1>9, <1>10, <1>11, <1>12, <1>13, <1>14
     DEF Next, TaskStep, Fault, Nodes, ChatStep

\* bot.py promises that the orchestrator is never called concurrently for one
\* chat and that the lock is always released: every lock held by a DAG is
\* held by its one turn in that chat.
THEOREM OneTurnPerChat == Spec => []ChatSerialized
  BY InitTypeOK, InitChat, StepTypeOK, StepChat, PTL DEF Spec
-----------------------------------------------------------------------------
\* There is no "done" at the start.
LEMMA InitDone == Init => \A d \in Dag : DoneInv(d)
  BY DEF Init, DoneInv, NotTold

\* What concerns another DAG leaves DoneInv alone.
LEMMA DoneUntouched ==
  ASSUME NEW d \in Dag, DoneInv(d),
         phase'[d] = phase[d], gen'[d] = gen[d], outcome'[d] = outcome[d],
         status'[d] = status[d], told'[d] = told[d], alive'[d] \subseteq alive[d]
  PROVE  DoneInv(d)'
  BY DEF DoneInv

\* The task moves on to another phase, which knows no more of a "done" than
\* the phase it comes from.
LEMMA DoneMoved ==
  ASSUME NEW d \in Dag, DoneInv(d), NEW to, phase'[d] = to,
         gen'[d] = gen[d], outcome'[d] = outcome[d],
         status'[d] = status[d], told'[d] = told[d], alive'[d] \subseteq alive[d],
         \/ phase[d] \notin {"reporting", "spec", "announce"} /\ to \in {"ended", "none", "turn", "dropped", "calling"}
         \/ phase[d] \in {"reporting", "spec", "announce"} /\ to = "ended"
         \/ phase[d] = "spec" /\ to = "announce"
         \/ phase[d] \in {"running", "closing", "saving", "failing", "cancelling"}
              /\ to \in {"saving", "failing", "cancelling", "reporting"}
  PROVE  DoneInv(d)'
  BY DEF DoneInv

\* A write of the status by the task itself.
LEMMA DoneWritten ==
  ASSUME TypeOK, NEW d \in Dag, DoneInv(d), gen[d] \in Run, NEW to, phase'[d] = to,
         phase[d] \in {"announce", "closing", "failing", "cancelling"},
         status'[d] = [state |-> WrittenState(d), by |-> gen[d]],
         gen'[d] = gen[d], outcome'[d] = outcome[d], told'[d] = told[d],
         alive'[d] \subseteq alive[d] \cup {gen[d]},
         \/ phase[d] = "announce" /\ to \in {"running", "ended"}
         \/ phase[d] # "announce" /\ to \in {"saving", "failing", "cancelling", "reporting"}
  PROVE  DoneInv(d)'
<1>1. gen[d] <= gen[d]
  BY DEF Run
<1>2. phase[d] = "announce" => WrittenState(d) = "running"
  BY DEF WrittenState
<1>3. WrittenState(d) = "done" => outcome[d][gen[d]] = "success" /\ phase[d] = "closing"
  BY DEF WrittenState
<1> QED
  BY <1>1, <1>2, <1>3 DEF DoneInv

\* Every action preserves DoneInv.
LEMMA StepDone ==
  TypeOK /\ Started /\ (\A d \in Dag : DoneInv(d)) /\ [Next]_vars
    => \A d \in Dag : DoneInv(d)'
<1> SUFFICES ASSUME TypeOK, Started, \A d \in Dag : DoneInv(d), [Next]_vars, NEW e \in Dag
             PROVE  DoneInv(e)'
  OBVIOUS
<1>1. ASSUME NEW c \in Chat, UserTurn(c) \/ UserTurnEnds(c) \/ StopReturns(c)
      PROVE  DoneInv(e)'
  BY <1>1, DoneUntouched DEF UserTurn, UserTurnEnds, StopReturns, runVars, redisVars
<1>2. ASSUME NEW c \in Chat, NEW d \in Dag, StartWorkflow(c, d)
      PROVE  DoneInv(e)'
  <2>1. CASE e # d
    BY <1>2, <2>1, DoneUntouched DEF StartWorkflow, Goto, TypeOK
  <2>2. CASE e = d
    <3>1. /\ phase'[d] = "spec" /\ gen'[d] = gen[d] + 1 /\ told'[d].state = "none"
          /\ UNCHANGED <<outcome, alive, status>>
      BY <1>2 DEF StartWorkflow, Goto, TypeOK, NotTold
    <3>2. gen[d] \in Nat /\ status[d].by \in Nat /\ \A g \in alive[d] : g \in Nat
      BY BoundsAssumption DEF TypeOK, Run
    <3> QED
      BY <2>2, <3>1, <3>2 DEF DoneInv
  <2> QED
    BY <2>1, <2>2
<1>3. ASSUME NEW c \in Chat, NEW d \in Dag, StopWorkflow(c, d)
      PROVE  DoneInv(e)'
  BY <1>3, DoneUntouched DEF StopWorkflow, runVars, redisVars
<1>4. ASSUME NEW d \in Dag, d # e, phase'[e] = phase[e], TaskStep(d) \/ Fault(d) \/ Nodes(d)
      PROVE  DoneInv(e)'
  <2> DEFINE Same == /\ gen'[e] = gen[e] /\ outcome'[e] = outcome[e]
                     /\ alive'[e] = alive[e] /\ status'[e] = status[e]
                     /\ told'[e] = told[e]
  <2>1. Same
    <3>1. CASE RedisOk(d)
      BY <1>4, <3>1 DEF RedisOk, Effect, TypeOK
    <3>2. CASE Cancelled(d)
      <4>1. alive' = alive \/ alive' = [alive EXCEPT ![d] = @ \ {gen[d]}]
        BY <3>2 DEF Cancelled
      <4> QED
        BY <1>4, <3>2, <4>1 DEF Cancelled, Effect, NoEffect, TypeOK
    <3>3. CASE RedisFails(d)
      BY <1>4, <3>3 DEF RedisFails, Effect, NoEffect, TypeOK, runVars
    <3>4. CASE RunnerReturns(d)
      <4>1. PICK o \in {"success", "failure"} : outcome' = [outcome EXCEPT ![d][gen[d]] = o]
        BY <3>4 DEF RunnerReturns
      <4> QED
        BY <1>4, <3>4, <4>1 DEF RunnerReturns, TypeOK, redisVars
    <3>5. CASE RunnerRaises(d)
      BY <1>4, <3>5 DEF RunnerRaises, TypeOK, redisVars
    <3>6. ASSUME NEW g \in Run, NodeWrites(d, g) \/ OrphansEnd(d, g)
          PROVE  Same
      BY <1>4, <3>6 DEF NodeWrites, OrphansEnd, TypeOK, runVars, redisVars
    <3>7. CASE EnterChat(d) \/ TurnEnds(d) \/ TurnCancelled(d) \/ TurnDropped(d)
               \/ Cleanup(d) \/ WorkspaceFails(d)
      BY <3>7 DEF EnterChat, TurnEnds, TurnCancelled, TurnDropped, Cleanup, WorkspaceFails,
                  runVars, redisVars
    <3> QED
      BY <1>4, <3>1, <3>2, <3>3, <3>4, <3>5, <3>6, <3>7 DEF TaskStep, Fault, Nodes
  <2> QED
    BY <1>4, <2>1, DoneUntouched
<1>5. CASE RedisOk(e)
  <2>1. /\ phase'[e] = AfterOk[phase[e]] /\ phase[e] \in OnRedis
        /\ gen'[e] = gen[e] /\ outcome'[e] = outcome[e]
        /\ alive'[e] \subseteq alive[e] \cup (IF phase[e] = "announce" THEN {gen[e]} ELSE {})
    BY <1>5 DEF RedisOk, Goto, TypeOK
  <2>2. CASE phase[e] \in {"announce", "closing", "failing", "cancelling"}
    <3>1. status'[e] = [state |-> WrittenState(e), by |-> gen[e]] /\ told' = told
      BY <1>5, <2>2 DEF RedisOk, Effect, TypeOK
    <3>2. gen[e] \in Run
      BY <2>2 DEF Started
    <3> QED
      BY <2>1, <2>2, <3>1, <3>2, DoneWritten, PhaseTables
  <2>3. CASE phase[e] \in {"spec", "saving"}
    <3>1. status' = status /\ told' = told
      BY <1>5, <2>3 DEF RedisOk, Effect
    <3> QED
      BY <2>1, <2>3, <3>1, DoneMoved, PhaseTables
  <2>4. CASE phase[e] = "reporting"
    <3>1. /\ status' = status /\ told'[e].state = status[e].state
          /\ told'[e].by = status[e].by /\ phase'[e] = "fetching"
      BY <1>5, <2>1, <2>4, PhaseTables DEF RedisOk, Effect, TypeOK
    <3> QED
      BY <2>1, <2>4, <3>1 DEF DoneInv
  <2>5. CASE phase[e] = "fetching"
    <3>1. /\ status' = status /\ told'[e].state = told[e].state
          /\ told'[e].by = told[e].by /\ phase'[e] = "calling"
      BY <1>5, <2>1, <2>5, PhaseTables DEF RedisOk, Effect, TypeOK
    <3> QED
      BY <2>1, <2>5, <3>1 DEF DoneInv
  <2> QED
    BY <2>1, <2>2, <2>3, <2>4, <2>5, PhaseTables
<1>6. CASE RedisFails(e)
  <2>1. /\ phase'[e] = AfterError[phase[e]] /\ phase[e] \in OnRedis
        /\ gen' = gen /\ outcome' = outcome /\ alive' = alive /\ told' = told
    BY <1>6 DEF RedisFails, Goto, TypeOK, runVars
  <2>2. CASE status'[e] = status[e]
    BY <2>1, <2>2, DoneMoved, PhaseTables
  <2>3. CASE status'[e] # status[e]
    <3>1. /\ phase[e] \in {"announce", "closing", "failing", "cancelling"}
          /\ status'[e] = [state |-> WrittenState(e), by |-> gen[e]]
      BY <1>6, <2>3 DEF RedisFails, Effect, NoEffect, TypeOK
    <3>2. gen[e] \in Run
      BY <3>1 DEF Started
    <3> QED
      BY <2>1, <3>1, <3>2, DoneWritten, PhaseTables
  <2> QED
    BY <2>2, <2>3
<1>7. CASE Cancelled(e)
  <2>1. /\ phase'[e] = AfterCancel[phase[e]] /\ phase[e] \in DOMAIN AfterCancel
        /\ gen' = gen /\ outcome' = outcome /\ told' = told
    BY <1>7 DEF Cancelled, Goto, TypeOK
  <2>2. alive'[e] \subseteq alive[e]
    <3>1. alive' = alive \/ alive' = [alive EXCEPT ![e] = @ \ {gen[e]}]
      BY <1>7 DEF Cancelled
    <3> QED
      BY <3>1 DEF TypeOK
  <2>3. CASE status'[e] = status[e]
    BY <2>1, <2>2, <2>3, DoneMoved, PhaseTables
  <2>4. CASE status'[e] # status[e]
    <3>1. /\ phase[e] \in {"announce", "closing", "failing", "cancelling"}
          /\ status'[e] = [state |-> WrittenState(e), by |-> gen[e]]
      BY <1>7, <2>4 DEF Cancelled, Effect, NoEffect, TypeOK
    <3>2. gen[e] \in Run
      BY <3>1 DEF Started
    <3> QED
      BY <2>1, <2>2, <3>1, <3>2, DoneWritten, PhaseTables
  <2> QED
    BY <2>3, <2>4
<1>8. CASE WorkspaceFails(e)
  BY <1>8, DoneMoved DEF WorkspaceFails, Goto, TypeOK, runVars, redisVars
<1>9. CASE RunnerReturns(e)
  <2>1. PICK o \in {"success", "failure"} : outcome' = [outcome EXCEPT ![e][gen[e]] = o]
    BY <1>9 DEF RunnerReturns
  <2>2. /\ phase[e] = "running" /\ phase'[e] = "closing" /\ gen' = gen
        /\ status' = status /\ told' = told /\ alive'[e] \subseteq alive[e]
    BY <1>9 DEF RunnerReturns, Goto, TypeOK, redisVars
  <2>3. told[e].state # "done" /\ status[e].state # "done"
    BY <2>2 DEF DoneInv
  <2> QED
    BY <2>2, <2>3 DEF DoneInv
<1>10. CASE RunnerRaises(e)
  BY <1>10, DoneMoved DEF RunnerRaises, Goto, TypeOK, redisVars
<1>11. ASSUME NEW g \in Run, NodeWrites(e, g)
       PROVE  DoneInv(e)'
  <2>1. /\ status'[e].state = "running" /\ status'[e].by = g /\ g \in alive[e]
        /\ UNCHANGED <<phase, gen, outcome, alive, told>>
    BY <1>11 DEF NodeWrites, TypeOK, runVars
  <2> QED
    BY <2>1 DEF DoneInv
<1>12. ASSUME NEW g \in Run, OrphansEnd(e, g)
       PROVE  DoneInv(e)'
  BY <1>12, DoneUntouched DEF OrphansEnd, TypeOK, redisVars
<1>13. CASE EnterChat(e) \/ TurnEnds(e) \/ TurnDropped(e) \/ Cleanup(e)
  <2>1. /\ phase[e] \in {"calling", "turn", "dropped", "ended"}
        /\ phase'[e] \in {"turn", "ended", "none"}
        /\ UNCHANGED <<runVars, redisVars>>
    BY <1>13 DEF EnterChat, TurnEnds, TurnDropped, Cleanup, LeaveChat, Goto, TypeOK
  <2> QED
    BY <2>1, DoneMoved DEF runVars, redisVars
<1>14. CASE TurnCancelled(e)
  <2>1. /\ phase[e] \in {"turn", "dropped"} /\ phase'[e] \in {"dropped", "ended"}
        /\ UNCHANGED <<runVars, redisVars>>
    BY <1>14 DEF TurnCancelled, LeaveChat, Goto, TypeOK
  <2> QED
    BY <2>1, DoneMoved DEF runVars, redisVars
<1>15. CASE UNCHANGED vars
  BY <1>15, DoneUntouched DEF vars, runVars, redisVars
<1>16. ASSUME NEW d \in Dag, d # e, TaskStep(d) \/ Fault(d) \/ Nodes(d)
       PROVE  phase'[e] = phase[e]
  BY <1>16 DEF TaskStep, Fault, Nodes, RedisOk, RunnerReturns, RunnerRaises, Cancelled,
               EnterChat, TurnEnds, TurnCancelled, TurnDropped, Cleanup, RedisFails,
               WorkspaceFails, NodeWrites, OrphansEnd, LeaveChat, Goto, TypeOK
<1> QED
  BY <1>1, <1>2, <1>3, <1>4, <1>5, <1>6, <1>7, <1>8, <1>9, <1>10, <1>11, <1>12,
     <1>13, <1>14, <1>15, <1>16
     DEF Next, TaskStep, Fault, Nodes, ChatStep

\* No failure, stop, broken Redis or reuse of an id makes the status key or
\* the report to the chat say "done" of a run that did not succeed.
THEOREM DoneIsTrue == Spec => []NeverFalseDone
<1> DEFINE DoneAlways == \A d \in Dag : DoneInv(d)
<1>1. Init => DoneAlways
  BY InitDone
<1>2. TypeOK /\ Started /\ DoneAlways /\ [Next]_vars => DoneAlways'
  BY StepDone
<1>3. DoneAlways => NeverFalseDone
  BY DEF DoneInv, NeverFalseDone
<1> HIDE DEF DoneAlways
<1> QED
  BY <1>1, <1>2, <1>3, TypeCorrect, PTL DEF Spec

--------------------------------------------------------------------------------
(* Stopped runs, and the verdict of a run. *)

\* The phases in which a run is at work or records its verdict.
Working == {"spec", "announce", "running", "closing", "saving", "failing"}

DagStep(d) == TaskStep(d) \/ Fault(d) \/ Nodes(d)

\* A step of one DAG's task or nodes touches the fields of that DAG only.
LEMMA OnlyOwn ==
  ASSUME TypeOK, NEW d \in Dag, DagStep(d)
  PROVE  /\ UNCHANGED <<gen, chat, stops>> /\ (faults' = 0 => faults = 0)
         /\ \A e \in Dag \ {d} :
              /\ phase'[e] = phase[e] /\ outcome'[e] = outcome[e] /\ alive'[e] = alive[e]
              /\ status'[e] = status[e] /\ result'[e] = result[e] /\ told'[e] = told[e]
<1> USE DEF TypeOK, Goto, LeaveChat, runVars, redisVars, chatVars
<1>1. CASE RedisOk(d)
  BY <1>1 DEF RedisOk, Effect
<1>2. CASE RedisFails(d) \/ WorkspaceFails(d)
  BY <1>2 DEF RedisFails, WorkspaceFails, Effect, NoEffect
<1>3. CASE RunnerReturns(d)
  <2>1. PICK o \in {"success", "failure"} : outcome' = [outcome EXCEPT ![d][gen[d]] = o]
    BY <1>3 DEF RunnerReturns
  <2>2. QED
    BY <1>3, <2>1 DEF RunnerReturns
<1>4. CASE RunnerRaises(d)
  BY <1>4 DEF RunnerRaises
<1>5. CASE Cancelled(d)
  <2>1. alive' = alive \/ alive' = [alive EXCEPT ![d] = @ \ {gen[d]}]
    BY <1>5 DEF Cancelled
  <2>2. \A e \in Dag \ {d} : alive'[e] = alive[e]
    BY <2>1
  <2>3. \A e \in Dag \ {d} : status'[e] = status[e] /\ result'[e] = result[e]
    BY <1>5 DEF Cancelled, Effect, NoEffect
  <2>4. QED
    BY <1>5, <2>2, <2>3 DEF Cancelled
<1>6. CASE EnterChat(d) \/ TurnEnds(d) \/ TurnDropped(d) \/ Cleanup(d)
  BY <1>6 DEF EnterChat, TurnEnds, TurnDropped, Cleanup
<1>7. CASE TurnCancelled(d)
  BY <1>7 DEF TurnCancelled
<1>8. ASSUME NEW g \in Run, NodeWrites(d, g) \/ OrphansEnd(d, g)
      PROVE  /\ UNCHANGED <<gen, chat, stops, faults>>
             /\ \A e \in Dag \ {d} :
                  /\ phase'[e] = phase[e] /\ outcome'[e] = outcome[e] /\ alive'[e] = alive[e]
                  /\ status'[e] = status[e] /\ result'[e] = result[e] /\ told'[e] = told[e]
  BY <1>8 DEF NodeWrites, OrphansEnd
<1>9. QED
  BY <1>1, <1>2, <1>3, <1>4, <1>5, <1>6, <1>7, <1>8 DEF DagStep, TaskStep, Fault, Nodes

\* A step of a DAG clears waits but begins none, and takes a lock only when it
\* is free.
LEMMA WaitsShrink ==
  ASSUME TypeOK, NEW d \in Dag, DagStep(d), NEW c \in Chat, wait'[c] # NoOne
  PROVE  wait'[c] = wait[c] /\ (lock'[c] = lock[c] \/ lock[c] = "free")
<1> USE DEF TypeOK, LeaveChat, chatVars
<1>1. CASE UNCHANGED chatVars
  BY <1>1
<1>2. CASE EnterChat(d)
  BY <1>2 DEF EnterChat
<1>3. CASE LeaveChat(d)
  BY <1>3
<1>4. QED
  BY <1>1, <1>2, <1>3 DEF DagStep, TaskStep, Fault, Nodes, RedisOk, RedisFails, WorkspaceFails,
     RunnerReturns, RunnerRaises, Cancelled, TurnEnds, TurnCancelled, TurnDropped, Cleanup,
     NodeWrites, OrphansEnd

\* How a task moves: into a working phase only from one, with a request that was
\* delivered out of them; into "cancelling" and "dropped" only by a delivery;
\* and no request is made but by a turn that passes its own on.
LEMMA TaskMoves ==
  ASSUME TypeOK, NEW d \in Dag, DagStep(d)
  PROVE  /\ cancelReq \ {d} \subseteq cancelReq'
         /\ phase'[d] \in Working => phase[d] \in Working /\ (d \in cancelReq => d \in cancelReq')
         /\ phase'[d] = "cancelling" =>
              \/ phase[d] = "cancelling" /\ cancelReq' = cancelReq
              \/ d \in cancelReq /\ cancelReq' = cancelReq \ {d}
         /\ phase'[d] = "dropped" =>
              \/ phase[d] = "dropped"
              \/ InTurnOf(d) /\ d \in cancelReq /\ wait[chat[d]] # NoOne
         /\ \/ cancelReq' \subseteq cancelReq
            \/ InTurnOf(d) /\ d \in cancelReq /\ wait[chat[d]] # NoOne
<1> USE DEF TypeOK, Goto, LeaveChat, InTurnOf, Working
<1>1. CASE RedisOk(d)
  BY <1>1, PhaseTables DEF RedisOk
<1>2. CASE RedisFails(d) \/ WorkspaceFails(d)
  BY <1>2, PhaseTables DEF RedisFails, WorkspaceFails
<1>3. CASE RunnerReturns(d) \/ RunnerRaises(d)
  BY <1>3 DEF RunnerReturns, RunnerRaises
<1>4. CASE Cancelled(d)
  BY <1>4, PhaseTables DEF Cancelled
<1>5. CASE EnterChat(d) \/ TurnEnds(d) \/ TurnDropped(d) \/ Cleanup(d)
  BY <1>5 DEF EnterChat, TurnEnds, TurnDropped, Cleanup
<1>6. CASE TurnCancelled(d)
  BY <1>6 DEF TurnCancelled
<1>7. CASE Nodes(d)
  BY <1>7 DEF Nodes, NodeWrites, OrphansEnd
<1>8. QED
  BY <1>1, <1>2, <1>3, <1>4, <1>5, <1>6, <1>7 DEF DagStep, TaskStep, Fault

\* A turn that waits for a run keeps its lock until it goes on.
LEMMA StepWaits ==
  ASSUME TypeOK, [Next]_vars, WaitsRight
  PROVE  WaitsRight'
<1> USE BoundsAssumption, ChatsAssumption DEF Run
<1>1. CASE UNCHANGED vars
  BY <1>1 DEF vars, WaitsRight, chatVars, runVars
<1>2. ASSUME NEW d \in Dag, DagStep(d) PROVE WaitsRight'
  BY <1>2, OnlyOwn, WaitsShrink DEF WaitsRight
<1>3. ASSUME NEW c \in Chat, UserTurn(c) \/ UserTurnEnds(c) PROVE WaitsRight'
  BY <1>3 DEF UserTurn, UserTurnEnds, WaitsRight, TypeOK, runVars
<1>4. ASSUME NEW c \in Chat, StopReturns(c) PROVE WaitsRight'
  BY <1>4 DEF StopReturns, WaitsRight, TypeOK, runVars
<1>5. ASSUME NEW c \in Chat, NEW d \in Dag, StartWorkflow(c, d) PROVE WaitsRight'
  <2>1. UNCHANGED chatVars /\ \A e \in Dag : gen[e] <= gen'[e] /\ gen[e] \in Nat
    BY <1>5 DEF StartWorkflow, TypeOK
  <2>2. \A x \in Chat : wait[x] # NoOne => wait[x][1] \in Dag /\ wait[x][2] \in Nat
    BY DEF TypeOK
  <2>3. gen' \in [Dag -> Nat]
    BY <1>5 DEF StartWorkflow, TypeOK
  <2>4. QED
    BY <2>1, <2>2, <2>3 DEF WaitsRight, chatVars
<1>6. ASSUME NEW c \in Chat, NEW d \in Dag, StopWorkflow(c, d) PROVE WaitsRight'
  <2>1. /\ lock' = lock /\ gen' = gen /\ lock[c] # "free" /\ lock[c] # d
        /\ wait' = [wait EXCEPT ![c] = <<d, gen[d]>>] /\ gen[d] \in Nat
    BY <1>6 DEF StopWorkflow, InTurn, TypeOK, runVars
  <2>2. QED
    BY <2>1 DEF WaitsRight, TypeOK
<1>7. QED
  BY <1>1, <1>2, <1>3, <1>4, <1>5, <1>6 DEF Next, ChatStep, DagStep

\* Once its cancellation was delivered a run does no more work: the next run of
\* the id is another.
LEMMA StepWinds ==
  ASSUME TypeOK, Started, [Next]_vars, WaitsRight, StoppedRunWindsDown
  PROVE  StoppedRunWindsDown'
<1> SUFFICES ASSUME NEW x \in Chat, wait'[x] # NoOne,
                    gen'[wait'[x][1]] = wait'[x][2], wait'[x][1] \notin cancelReq'
             PROVE  phase'[wait'[x][1]] \notin Working
  BY DEF StoppedRunWindsDown, Working
<1> USE BoundsAssumption DEF Run
<1>1. ASSUME wait'[x] = wait[x], gen'[wait[x][1]] = gen[wait[x][1]],
             phase'[wait[x][1]] \in Working => phase[wait[x][1]] \in Working,
             phase'[wait[x][1]] \in Working /\ wait[x][1] \in cancelReq => wait[x][1] \in cancelReq'
      PROVE  phase'[wait'[x][1]] \notin Working
  BY <1>1 DEF StoppedRunWindsDown, Working
<1>2. CASE UNCHANGED vars
  BY <1>1, <1>2 DEF vars, chatVars, runVars
<1>3. ASSUME NEW d \in Dag, DagStep(d) PROVE phase'[wait'[x][1]] \notin Working
  <2>1. wait'[x] = wait[x] /\ wait[x][1] \in Dag
    BY <1>3, WaitsShrink DEF TypeOK
  <2>2. QED
    BY <1>1, <1>3, <2>1, OnlyOwn, TaskMoves
<1>4. ASSUME NEW c \in Chat, UserTurn(c) \/ UserTurnEnds(c) \/ StopReturns(c)
      PROVE  phase'[wait'[x][1]] \notin Working
  <2>1. wait'[x] = wait[x]
    BY <1>4 DEF UserTurn, UserTurnEnds, StopReturns, TypeOK
  <2>2. QED
    BY <1>1, <1>4, <2>1 DEF UserTurn, UserTurnEnds, StopReturns, runVars
<1>5. ASSUME NEW c \in Chat, NEW d \in Dag, StartWorkflow(c, d)
      PROVE  phase'[wait'[x][1]] \notin Working
  <2>1. /\ UNCHANGED <<wait, cancelReq>> /\ gen' = [gen EXCEPT ![d] = @ + 1]
        /\ phase' = [phase EXCEPT ![d] = "spec"]
    BY <1>5 DEF StartWorkflow, Goto, chatVars
  <2>2. wait[x][1] \in Dag /\ wait[x][2] \in Nat /\ wait[x][2] <= gen[wait[x][1]]
    BY <2>1 DEF WaitsRight, TypeOK
  <2>3. wait[x][1] # d
    BY <2>1, <2>2 DEF TypeOK
  <2>4. QED
    BY <1>1, <2>1, <2>2, <2>3 DEF TypeOK
<1>6. ASSUME NEW c \in Chat, NEW d \in Dag, StopWorkflow(c, d)
      PROVE  phase'[wait'[x][1]] \notin Working
  <2>1. /\ UNCHANGED <<phase, gen>> /\ wait' = [wait EXCEPT ![c] = <<d, gen[d]>>]
        /\ cancelReq \subseteq cancelReq'
        /\ phase[d] = "ended" \/ d \in cancelReq'
    BY <1>6 DEF StopWorkflow, runVars
  <2>2. CASE x = c
    BY <2>1, <2>2 DEF Working, TypeOK
  <2>3. CASE x # c
    BY <1>1, <2>1, <2>3 DEF TypeOK
  <2>4. QED
    BY <2>2, <2>3
<1>7. QED
  BY <1>2, <1>3, <1>4, <1>5, <1>6 DEF Next, ChatStep, DagStep

\* While there was one stop at most, one DAG is cancelled, and once.
LEMMA StepOneStop ==
  ASSUME TypeOK, Started, ChatSerialized, WaitsRight, [Next]_vars, OneStop
  PROVE  OneStop'
<1> USE BoundsAssumption DEF Run
<1>1. CASE UNCHANGED vars
  BY <1>1 DEF vars, OneStop, chatVars, runVars
<1>2. ASSUME NEW d \in Dag, DagStep(d) PROVE OneStop'
  <2>1. stops' = stops /\ \A e \in Dag \ {d} : phase'[e] = phase[e]
    BY <1>2, OnlyOwn
  <2>2. \A c \in Chat : wait'[c] # NoOne => wait'[c] = wait[c]
    BY <1>2, WaitsShrink
  <2> SUFFICES ASSUME stops <= 1 PROVE OneStop'
    BY <2>1 DEF OneStop, TypeOK
  <2>3. ~(InTurnOf(d) /\ d \in cancelReq /\ wait[chat[d]] # NoOne)
    <3> SUFFICES ASSUME InTurnOf(d), d \in cancelReq, wait[chat[d]] # NoOne PROVE FALSE
      OBVIOUS
    <3>1. lock[chat[d]] = d /\ chat[d] \in Chat
      BY DEF ChatSerialized, TypeOK
    <3>2. wait[chat[d]][1] = d
      BY <3>1 DEF OneStop
    <3>3. QED
      BY <3>1, <3>2 DEF WaitsRight
  <2>4. cancelReq' \subseteq cancelReq
    BY <1>2, <2>3, TaskMoves
  <2>5. phase'[d] # "dropped"
    BY <1>2, <2>3, TaskMoves DEF OneStop
  <2>6. phase'[d] = "cancelling" => cancelReq' = {} /\ stops # 0
    BY <1>2, TaskMoves DEF OneStop
  <2>7. \A e \in Dag : phase'[e] = "cancelling" => cancelReq' = {}
    BY <2>1, <2>4, <2>6 DEF OneStop
  <2>8. \A e \in cancelReq' : cancelReq' = {e} /\ \A c \in Chat : wait'[c] # NoOne => wait'[c][1] = e
    BY <2>2, <2>4 DEF OneStop
  <2>9. stops = 0 => /\ cancelReq' = {} /\ \A c \in Chat : wait'[c] = NoOne
                     /\ \A e \in Dag : phase'[e] # "cancelling"
    BY <2>1, <2>2, <2>4, <2>6 DEF OneStop
  <2>10. QED
    BY <2>1, <2>5, <2>7, <2>8, <2>9 DEF OneStop
<1>3. ASSUME NEW c \in Chat, UserTurn(c) \/ UserTurnEnds(c) PROVE OneStop'
  BY <1>3 DEF UserTurn, UserTurnEnds, OneStop
<1>4. ASSUME NEW c \in Chat, StopReturns(c) PROVE OneStop'
  BY <1>4 DEF StopReturns, OneStop, TypeOK
<1>5. ASSUME NEW c \in Chat, NEW d \in Dag, StartWorkflow(c, d) PROVE OneStop'
  BY <1>5 DEF StartWorkflow, Goto, OneStop, TypeOK, chatVars
<1>6. ASSUME NEW c \in Chat, NEW d \in Dag, StopWorkflow(c, d) PROVE OneStop'
  <2>1. /\ phase' = phase /\ stops' = stops + 1 /\ stops \in Nat
        /\ cancelReq' \subseteq cancelReq \cup {d}
        /\ wait' = [wait EXCEPT ![c] = <<d, gen[d]>>]
    BY <1>6 DEF StopWorkflow, TypeOK
  <2>2. CASE stops = 0
    <3>1. /\ cancelReq = {} /\ \A x \in Chat : wait[x] = NoOne
          /\ \A e \in Dag : phase[e] \notin {"cancelling", "dropped"}
      BY <2>2 DEF OneStop
    <3>2. \A x \in Chat : wait'[x] # NoOne => wait'[x][1] = d
      BY <2>1, <3>1 DEF TypeOK
    <3>3. QED
      BY <2>1, <2>2, <3>1, <3>2 DEF OneStop
  <2>3. CASE stops # 0
    BY <2>1, <2>3 DEF OneStop
  <2>4. QED
    BY <2>2, <2>3
<1>7. QED
  BY <1>1, <1>2, <1>3, <1>4, <1>5, <1>6 DEF Next, ChatStep, DagStep

\* What concerns another DAG leaves VerdictInv alone, and so do further stops and
\* faults.
LEMMA VerdictUntouched ==
  ASSUME NEW d \in Dag, VerdictInv(d), phase'[d] = phase[d], gen'[d] = gen[d],
         outcome'[d] = outcome[d], status'[d] = status[d], result'[d] = result[d],
         told'[d] = told[d], alive'[d] \subseteq alive[d],
         faults' = 0 => faults = 0, stops' = 0 => stops = 0, stops' <= 1 => stops <= 1
  PROVE  VerdictInv(d)'
  BY DEF VerdictInv, VerdictIn

\* A task that only moves on from one phase to the next.
LEMMA VerdictMoved ==
  ASSUME NEW d \in Dag, VerdictInv(d), gen'[d] = gen[d], outcome'[d] = outcome[d],
         status'[d] = status[d], result'[d] = result[d], alive'[d] \subseteq alive[d],
         UNCHANGED <<told, faults, stops>>, phase[d] # "running",
         \/ phase[d] = "spec" /\ phase'[d] = "announce"
         \/ phase[d] = "calling" /\ phase'[d] = "turn"
         \/ phase[d] = "turn" /\ phase'[d] = "ended"
         \/ phase[d] = "ended" /\ phase'[d] = "none"
  PROVE  VerdictInv(d)'
  BY DEF VerdictInv, VerdictIn

\* The writing of the verdict or of the failure, and of the result.
LEMMA VerdictWritten ==
  ASSUME TypeOK, Started, NEW d \in Dag, VerdictInv(d), RedisOk(d), OneStop,
         phase[d] \in {"announce", "closing", "failing", "cancelling", "saving"}
  PROVE  VerdictInv(d)'
<1> USE BoundsAssumption, PhaseTables DEF TypeOK, Run
<1>1. /\ phase'[d] = AfterOk[phase[d]] /\ UNCHANGED <<gen, outcome, told, faults, stops>>
      /\ gen[d] \in Run
  BY DEF RedisOk, Goto, Started
<1>2. CASE phase[d] = "announce"
  <2>1. status'[d].state = "running" /\ phase'[d] = "running" /\ result' = result
    BY <1>1, <1>2 DEF RedisOk, Effect, WrittenState
  <2>2. alive'[d] = alive[d] \cup {gen[d]}
    BY <1>2 DEF RedisOk
  <2>3. QED
    BY <1>1, <1>2, <2>1, <2>2 DEF VerdictInv
<1>3. CASE phase[d] = "saving"
  <2>1. /\ phase'[d] = "reporting" /\ UNCHANGED <<status, alive>> /\ result'[d] = gen[d]
    BY <1>1, <1>3 DEF RedisOk, Effect
  <2>2. QED
    BY <1>1, <1>3, <2>1 DEF VerdictInv, VerdictIn
<1>4. CASE phase[d] \in {"closing", "failing", "cancelling"}
  <2>1. /\ phase'[d] = (IF phase[d] = "closing" THEN "saving" ELSE "reporting")
        /\ UNCHANGED <<result, alive>>
        /\ status'[d] = [state |-> WrittenState(d), by |-> gen[d]]
    BY <1>1, <1>4 DEF RedisOk, Effect
  <2>2. CASE phase[d] = "closing"
    BY <1>1, <2>1, <2>2 DEF VerdictInv, VerdictIn, WrittenState
  <2>3. CASE phase[d] = "failing"
    BY <1>1, <2>1, <2>3 DEF VerdictInv, VerdictIn, WrittenState
  <2>4. CASE phase[d] = "cancelling"
    BY <1>1, <2>1, <2>4 DEF VerdictInv, WrittenState, OneStop
  <2>5. QED
    BY <1>4, <2>2, <2>3, <2>4
<1>5. QED
  BY <1>2, <1>3, <1>4

\* Every action preserves VerdictInv.
LEMMA StepVerdict ==
  ASSUME TypeOK, Started, \A d \in Dag : DoneInv(d), OneStop, OneStop',
         \A d \in Dag : VerdictInv(d), [Next]_vars, NEW e \in Dag
  PROVE  VerdictInv(e)'
<1> USE BoundsAssumption DEF Run
<1>1. ASSUME NEW c \in Chat, UserTurn(c) \/ UserTurnEnds(c) \/ StopReturns(c)
      PROVE  VerdictInv(e)'
  BY <1>1, VerdictUntouched DEF UserTurn, UserTurnEnds, StopReturns, runVars, redisVars
<1>2. ASSUME NEW c \in Chat, NEW d \in Dag, StopWorkflow(c, d)
      PROVE  VerdictInv(e)'
  <2>1. stops' = stops + 1 /\ stops \in Nat
    BY <1>2 DEF StopWorkflow, TypeOK
  <2>2. QED
    BY <1>2, <2>1, VerdictUntouched DEF StopWorkflow, runVars, redisVars
<1>3. ASSUME NEW c \in Chat, NEW d \in Dag, StartWorkflow(c, d)
      PROVE  VerdictInv(e)'
  <2>1. CASE e # d
    BY <1>3, <2>1, VerdictUntouched DEF StartWorkflow, Goto, TypeOK
  <2>2. CASE e = d
    <3>1. /\ phase[d] = "none" /\ phase'[d] = "spec" /\ gen'[d] = gen[d] + 1
          /\ gen'[d] \in Run /\ gen[d] \in Nat
          /\ UNCHANGED <<outcome, alive, status, result, stops, faults>>
      BY <1>3 DEF StartWorkflow, Goto, TypeOK
    <3>2. \A g \in Run : g > gen'[d] => g > gen[d]
      BY <3>1
    <3>3. outcome'[d][gen'[d]] = "none"
      BY <3>1 DEF VerdictInv
    <3>4. faults = 0 /\ stops = 0 => alive[d] = {}
      BY <3>1 DEF VerdictInv
    <3>5. QED
      BY <2>2, <3>1, <3>2, <3>3, <3>4 DEF VerdictInv
  <2>3. QED
    BY <2>1, <2>2
<1>4. ASSUME NEW d \in Dag, d # e, DagStep(d)
      PROVE  VerdictInv(e)'
  BY <1>4, OnlyOwn, VerdictUntouched
<1>5. CASE RedisOk(e)
  <2>1. /\ phase'[e] = AfterOk[phase[e]] /\ phase[e] \in OnRedis
        /\ UNCHANGED <<gen, outcome, stops, faults>>
    BY <1>5 DEF RedisOk, Goto, TypeOK
  <2>2. CASE phase[e] \in {"announce", "closing", "failing", "cancelling", "saving"}
    BY <1>5, <2>2, VerdictWritten
  <2>3. CASE phase[e] = "spec"
    BY <1>5, <2>1, <2>3, VerdictMoved, PhaseTables DEF RedisOk, Effect
  <2>4. CASE phase[e] = "reporting"
    <3>1. /\ phase'[e] = "fetching" /\ UNCHANGED <<status, result, alive>>
          /\ told'[e].state = status[e].state
      BY <1>5, <2>1, <2>4, PhaseTables DEF RedisOk, Effect, TypeOK
    <3>2. QED
      BY <2>1, <2>4, <3>1 DEF VerdictInv, VerdictIn
  <2>5. CASE phase[e] = "fetching"
    <3>1. /\ phase'[e] = "calling" /\ UNCHANGED <<status, result, alive>>
          /\ told'[e].state = told[e].state /\ told'[e].result = result[e]
      BY <1>5, <2>1, <2>5, PhaseTables DEF RedisOk, Effect, TypeOK
    <3>2. QED
      BY <2>1, <2>5, <3>1 DEF VerdictInv, VerdictIn
  <2>6. QED
    BY <2>1, <2>2, <2>3, <2>4, <2>5, PhaseTables
<1>6. CASE Fault(e)
  <2>1. /\ phase'[e] \notin {"spec", "running"} /\ (phase'[e] = "announce" => phase[e] = "spec")
        /\ UNCHANGED <<gen, outcome>> /\ faults' # 0
    BY <1>6, PhaseTables DEF Fault, RedisFails, WorkspaceFails, Goto, TypeOK, runVars
  <2>2. QED
    BY <2>1 DEF VerdictInv
<1>7. CASE RunnerReturns(e)
  <2>1. PICK o \in {"success", "failure"} : outcome' = [outcome EXCEPT ![e][gen[e]] = o]
    BY <1>7 DEF RunnerReturns
  <2>2. /\ phase[e] = "running" /\ phase'[e] = "closing" /\ alive'[e] = alive[e] \ {gen[e]}
        /\ UNCHANGED <<gen, stops, faults>> /\ gen[e] \in Run
    BY <1>7 DEF RunnerReturns, Goto, TypeOK, Started
  <2>3. \A g \in Run : g > gen[e] => outcome'[e][g] = outcome[e][g]
    BY <2>1, <2>2 DEF TypeOK
  <2>4. QED
    BY <2>2, <2>3 DEF VerdictInv
<1>8. CASE RunnerRaises(e)
  <2>1. /\ phase[e] = "running" /\ phase'[e] = "failing" /\ alive'[e] = alive[e] \ {gen[e]}
        /\ UNCHANGED <<gen, outcome, stops, faults>>
    BY <1>8 DEF RunnerRaises, Goto, TypeOK
  <2>2. QED
    BY <2>1 DEF VerdictInv
<1>9. CASE Cancelled(e)
  <2>1. /\ phase'[e] = AfterCancel[phase[e]] /\ phase[e] \in DOMAIN AfterCancel
        /\ UNCHANGED <<gen, outcome, told, stops, faults>> /\ e \in cancelReq
    BY <1>9 DEF Cancelled, Goto, TypeOK
  <2>2. /\ phase'[e] \in {"cancelling", "reporting", "ended"}
        /\ phase'[e] = "reporting" => phase[e] \in {"failing", "cancelling"}
    BY <2>1, PhaseTables
  <2>3. stops # 0 /\ (stops <= 1 => phase[e] # "cancelling")
    BY <2>1 DEF OneStop
  <2>4. phase[e] = "failing" /\ faults = 0 /\ stops <= 1 => status'[e].state # "done"
    <3> SUFFICES ASSUME phase[e] = "failing", faults = 0, stops <= 1 PROVE status'[e].state # "done"
      OBVIOUS
    <3>1. status[e].state # "done"
      BY DEF VerdictInv, DoneInv
    <3>2. WrittenState(e) = "failed"
      BY DEF WrittenState
    <3>3. QED
      BY <1>9, <3>1, <3>2 DEF Cancelled, Effect, NoEffect, TypeOK
  <2>5. QED
    BY <2>1, <2>2, <2>3, <2>4 DEF VerdictInv
<1>10. CASE EnterChat(e) \/ TurnEnds(e) \/ Cleanup(e)
  BY <1>10, VerdictMoved DEF EnterChat, TurnEnds, LeaveChat, Cleanup, Goto, TypeOK, runVars, redisVars
<1>11. CASE TurnCancelled(e)
  <2>1. /\ phase'[e] \in {"ended", "dropped"} /\ UNCHANGED <<gen, outcome, stops, faults>>
        /\ e \in cancelReq
    BY <1>11 DEF TurnCancelled, LeaveChat, Goto, TypeOK, runVars
  <2>2. stops # 0
    BY <2>1 DEF OneStop
  <2>3. QED
    BY <2>1, <2>2 DEF VerdictInv
<1>12. CASE TurnDropped(e)
  <2>1. /\ phase'[e] = "ended" /\ UNCHANGED <<gen, outcome, stops, faults>> /\ phase[e] = "dropped"
    BY <1>12 DEF TurnDropped, LeaveChat, Goto, TypeOK, runVars
  <2>2. stops # 0
    BY <2>1 DEF OneStop
  <2>3. QED
    BY <2>1, <2>2 DEF VerdictInv
<1>13. ASSUME NEW g \in Run, NodeWrites(e, g) PROVE VerdictInv(e)'
  <2>1. /\ UNCHANGED <<phase, gen, outcome, alive, result, told, stops, faults>>
        /\ status'[e].state = "running" /\ g \in alive[e]
    BY <1>13 DEF NodeWrites, TypeOK, runVars
  <2>2. faults = 0 /\ stops = 0 => phase[e] = "running"
    BY <2>1 DEF VerdictInv
  <2>3. QED
    BY <2>1, <2>2 DEF VerdictInv
<1>14. ASSUME NEW g \in Run, OrphansEnd(e, g) PROVE VerdictInv(e)'
  BY <1>14, VerdictUntouched DEF OrphansEnd, TypeOK, redisVars
<1>15. CASE UNCHANGED vars
  BY <1>15, VerdictUntouched DEF vars, runVars, redisVars
<1>16. QED
  BY <1>1, <1>2, <1>3, <1>4, <1>5, <1>6, <1>7, <1>8, <1>9, <1>10, <1>11, <1>12, <1>13, <1>14, <1>15
     DEF Next, ChatStep, DagStep, TaskStep, Fault, Nodes
-----------------------------------------------------------------------------
\* All that is known of a reachable state.
ManagerInv ==
  /\ TypeOK /\ Started /\ ChatSerialized /\ (\A d \in Dag : DoneInv(d))
  /\ WaitsRight /\ StoppedRunWindsDown /\ OneStop /\ (\A d \in Dag : VerdictInv(d))

LEMMA InitManager == Init => ManagerInv
<1> SUFFICES ASSUME Init PROVE ManagerInv
  OBVIOUS
<1>1. TypeOK /\ Started /\ ChatSerialized /\ \A d \in Dag : DoneInv(d)
  BY InitTypeOK, InitChat, InitDone
<1>2. WaitsRight /\ StoppedRunWindsDown /\ OneStop
  BY DEF Init, WaitsRight, StoppedRunWindsDown, OneStop
<1>3. \A d \in Dag : VerdictInv(d)
  BY BoundsAssumption DEF Init, VerdictInv, NotTold, Run
<1>4. QED
  BY <1>1, <1>2, <1>3 DEF ManagerInv

LEMMA StepManager == ManagerInv /\ [Next]_vars => ManagerInv'
<1> SUFFICES ASSUME ManagerInv, [Next]_vars PROVE ManagerInv'
  OBVIOUS
<1> USE DEF ManagerInv
<1>1. TypeOK' /\ Started' /\ ChatSerialized'
  BY StepTypeOK, StepChat
<1>2. \A d \in Dag : DoneInv(d)'
  BY StepDone
<1>3. WaitsRight' /\ StoppedRunWindsDown' /\ OneStop'
  BY StepWaits, StepWinds, StepOneStop
<1>4. \A d \in Dag : VerdictInv(d)'
  BY <1>3, StepVerdict
<1>5. QED
  BY <1>1, <1>2, <1>3, <1>4

\* stop_workflow cancels for good: a run that somebody waits to see stopped and
\* whose cancellation was delivered neither works nor records a verdict.
THEOREM StoppedWindsDown == Spec => []StoppedRunWindsDown
  BY InitManager, StepManager, PTL DEF Spec, ManagerInv

\* The keys and the report of a run that met no fault and no stop are its own.
LEMMA ManagerInvKeeps == ManagerInv => VerdictKept
<1> SUFFICES ASSUME ManagerInv, NEW d \in Dag
             PROVE  /\ faults = 0 /\ stops <= 1 /\ phase[d] \in {"calling", "turn"}
                         /\ told[d].state = "done" => told[d].result = gen[d]
                    /\ faults = 0 /\ stops = 0 /\ gen[d] > 0 /\ phase[d] = "none" =>
                         /\ VerdictIn(d)
                         /\ outcome[d][gen[d]] # "none" => result[d] = gen[d]
  BY DEF VerdictKept, DoneComesWithResult, VerdictRecorded, VerdictIn
<1>1. VerdictInv(d)
  BY DEF ManagerInv
<1>2. QED
  BY <1>1 DEF VerdictInv

\* While Redis works the verdict of a run that nobody stops is left in its keys,
\* and a chat that is told "done" is given that run's result.
THEOREM VerdictIsKept == Spec => []VerdictKept
  BY InitManager, StepManager, ManagerInvKeeps, PTL DEF Spec
================================================================================
