------------------------------ MODULE DagManager ------------------------------
(***************************************************************************)
(* DagManager of workflow/dag_manager.py with its two neighbours: the      *)
(* Redis keys of a DAG (workflow/dag_channel.py) and the turns of the      *)
(* chats that start, stop and are told about workflows (build_app of       *)
(* telegram_interface/bot.py, tools/workflow_tools.py).                    *)
(*                                                                         *)
(* A run of a DAG is the background task _run.  Its life is a sequence of  *)
(* awaits: the operations on Redis, WorkflowRunner.run, and the callback   *)
(* on_complete, which waits for the lock of the chat and then takes a turn *)
(* of the orchestrator.  phase[d] is the await the task of DAG d is in.    *)
(* An id can be used again once its task is over; gen[d] counts its runs.  *)
(*                                                                         *)
(* The runner is known here by what DagRunner shows: it returns when all   *)
(* its node tasks are over, and a cancellation while it waits leaves them  *)
(* alive.  Such orphans go on writing to the keys of their DAG.            *)
(***************************************************************************)
EXTENDS Integers, FiniteSets

CONSTANTS
  Dag,        \* dag ids
  Chat,       \* chats, each with its lock
  Starters,   \* the chats whose turns call start_workflow
  Stoppers,   \* the chats whose turns call stop_workflow
  MaxRuns,    \* bound: runs per dag id
  MaxStops,   \* bound: calls of stop
  MaxFaults   \* bound: operations on Redis or the disk that raise

ASSUME ChatsAssumption == Starters \subseteq Chat /\ Stoppers \subseteq Chat
ASSUME BoundsAssumption == MaxRuns \in Nat \ {0} /\ MaxStops \in Nat /\ MaxFaults \in Nat
ASSUME DistinctAssumption == {"free", "user"} \cap Dag = {}

VARIABLES
  phase,     \* the await the task of each DAG is in
  gen,       \* how many runs each id has had
  chat,      \* the chat_id in the initial context of the current run
  outcome,   \* outcome[d][g]: what the runner returned for run g
  alive,     \* alive[d]: the runs of d with a node task alive
  cancelReq, \* DAGs whose task was cancelled and did not notice yet
  status,    \* the status key: state, and the run that wrote it
  result,    \* the result key: the run that wrote it, 0 when absent
  told,      \* what on_complete was told of the current run
  lock,      \* the holder of each chat's lock: free, user, or a DAG
  wait,      \* the run a stop call of this chat's turn waits for
  stops, faults  \* how many there were

runVars == <<gen, chat, outcome, alive>>
redisVars == <<status, result, told>>
chatVars == <<lock, wait>>
vars == <<phase, runVars, cancelReq, redisVars, chatVars, stops, faults>>

Run == 1 .. MaxRuns
Phase == {"none", "spec", "announce", "running", "closing", "saving", "failing",
          "cancelling", "reporting", "fetching", "calling", "turn", "dropped", "ended"}
State == {"none", "running", "done", "failed", "cancelled"}
NoOne == <<>>
NotTold == [state |-> "none", by |-> 0, result |-> 0]

Init ==
  /\ phase = [d \in Dag |-> "none"]
  /\ gen = [d \in Dag |-> 0]
  /\ chat \in [Dag -> Starters]
  /\ outcome = [d \in Dag |-> [g \in Run |-> "none"]]
  /\ alive = [d \in Dag |-> {}]
  /\ cancelReq = {}
  /\ status = [d \in Dag |-> [state |-> "none", by |-> 0]]
  /\ result = [d \in Dag |-> 0]
  /\ told = [d \in Dag |-> NotTold]
  /\ lock = [c \in Chat |-> "free"]
  /\ wait = [c \in Chat |-> NoOne]
  /\ stops = 0 /\ faults = 0

Goto(d, to) == phase' = [phase EXCEPT ![d] = to]
-----------------------------------------------------------------------------
(* The turns of a chat: a user message, or the completion of a DAG.        *)

\* handle_message takes the lock of its chat.
UserTurn(c) ==
  /\ lock[c] = "free"
  /\ lock' = [lock EXCEPT ![c] = "user"]
  /\ UNCHANGED <<phase, runVars, cancelReq, redisVars, wait, stops, faults>>

UserTurnEnds(c) ==
  /\ lock[c] = "user" /\ wait[c] = NoOne
  /\ lock' = [lock EXCEPT ![c] = "free"]
  /\ UNCHANGED <<phase, runVars, cancelReq, redisVars, wait, stops, faults>>

\* The turn of chat c can call a tool.
InTurn(c) == lock[c] # "free" /\ wait[c] = NoOne

\* start_workflow: an id whose task is still registered is refused.
StartWorkflow(c, d) ==
  /\ InTurn(c) /\ c \in Starters
  /\ phase[d] = "none" /\ gen[d] < MaxRuns
  /\ gen' = [gen EXCEPT ![d] = @ + 1]
  /\ chat' = [chat EXCEPT ![d] = c]
  /\ told' = [told EXCEPT ![d] = NotTold]
  /\ Goto(d, "spec")
  /\ UNCHANGED <<outcome, alive, cancelReq, status, result, chatVars, stops, faults>>

\* stop_workflow: cancel the task and wait for it in gather().  A turn of the
\* DAG's own completion does not stop that DAG here.
StopWorkflow(c, d) ==
  /\ InTurn(c) /\ c \in Stoppers /\ lock[c] # d
  /\ phase[d] # "none" /\ stops < MaxStops
  /\ cancelReq' = IF phase[d] = "ended" THEN cancelReq ELSE cancelReq \cup {d}
  /\ wait' = [wait EXCEPT ![c] = <<d, gen[d]>>]
  /\ stops' = stops + 1
  /\ UNCHANGED <<phase, runVars, redisVars, lock, faults>>

\* The task the turn of c waits for is over and cleaned up.
WaitOver(c) ==
  /\ wait[c] # NoOne
  /\ phase[wait[c][1]] = "none" \/ gen[wait[c][1]] # wait[c][2]

\* gather() returns to stop(), in a turn that was not cancelled itself.
StopReturns(c) ==
  /\ WaitOver(c)
  /\ lock[c] \in Dag => phase[lock[c]] = "turn"
  /\ wait' = [wait EXCEPT ![c] = NoOne]
  /\ UNCHANGED <<phase, runVars, cancelReq, redisVars, lock, stops, faults>>
-----------------------------------------------------------------------------
(* The task _run.  Every await ends in one of three ways: it returns, it   *)
(* raises, or CancelledError is thrown into it.                            *)

\* Mutant: the result is not saved after the verdict.
AfterOkUnsaved ==
  [spec |-> "announce", announce |-> "running", closing |-> "reporting",
   saving |-> "reporting", failing |-> "reporting", cancelling |-> "reporting",
   reporting |-> "fetching", fetching |-> "calling"]

\* Mutant: only the two handlers lead to the callback.
AfterOkSilent ==
  [spec |-> "announce", announce |-> "running", closing |-> "saving",
   saving |-> "ended", failing |-> "reporting", cancelling |-> "reporting",
   reporting |-> "fetching", fetching |-> "calling"]

\* The phase after an operation on Redis returned.
\*   spec: set_graph_spec; announce: set_status("running");
\*   closing: set_status(done or failed); saving: set_result;
\*   failing, cancelling: set_status in the two handlers;
\*   reporting, fetching: get_status and get_result in the finally block.
AfterOk ==
  [spec |-> "announce", announce |-> "running", closing |-> "saving",
   saving |-> "reporting", failing |-> "reporting", cancelling |-> "reporting",
   reporting |-> "fetching", fetching |-> "calling"]

\* The phase after it raised.  The first status is written before the try,
\* and what the handlers raise goes through the finally block.
AfterError ==
  [spec |-> "announce", announce |-> "ended", closing |-> "failing",
   saving |-> "failing", failing |-> "reporting", cancelling |-> "reporting",
   reporting |-> "ended", fetching |-> "ended"]

\* Mutant: a cancellation of the runner is taken for an ordinary failure.
AfterCancelSwallowed ==
  [spec |-> "ended", announce |-> "ended", running |-> "failing",
   closing |-> "cancelling", saving |-> "cancelling", failing |-> "reporting",
   cancelling |-> "reporting", reporting |-> "ended", fetching |-> "ended",
   calling |-> "ended"]

\* The phase after a cancellation arrived in it.
AfterCancel ==
  [spec |-> "ended", announce |-> "ended", running |-> "cancelling",
   closing |-> "cancelling", saving |-> "cancelling", failing |-> "reporting",
   cancelling |-> "reporting", reporting |-> "ended", fetching |-> "ended",
   calling |-> "ended"]

OnRedis == DOMAIN AfterOk

\* Mutant: the verdict of the runner is not looked at.
WrittenStateBlind(d) ==
  IF phase[d] = "announce" THEN "running"
  ELSE IF phase[d] = "closing" THEN "done"
  ELSE IF phase[d] = "failing" THEN "failed" ELSE "cancelled"

\* The state the task writes in its phase.
WrittenState(d) ==
  IF phase[d] = "announce" THEN "running"
  ELSE IF phase[d] = "closing"
       THEN IF outcome[d][gen[d]] = "success" THEN "done" ELSE "failed"
       ELSE IF phase[d] = "failing" THEN "failed" ELSE "cancelled"

\* The operation of the task's phase takes effect in Redis.
Effect(d) ==
  /\ status' = IF phase[d] \in {"announce", "closing", "failing", "cancelling"}
               THEN [status EXCEPT ![d] = [state |-> WrittenState(d), by |-> gen[d]]]
               ELSE status
  /\ result' = IF phase[d] = "saving" THEN [result EXCEPT ![d] = gen[d]] ELSE result

NoEffect == UNCHANGED <<status, result>>

\* The operation returns; what the finally block reads goes to on_complete.
RedisOk(d) ==
  /\ d \notin cancelReq /\ phase[d] \in OnRedis
  /\ Effect(d)
  /\ told' = IF phase[d] = "reporting"
             THEN [told EXCEPT ![d] = [state |-> status[d].state,
                                       by |-> status[d].by, result |-> 0]]
             ELSE IF phase[d] = "fetching"
                  THEN [told EXCEPT ![d].result = result[d]]
                  ELSE told
  /\ alive' = IF phase[d] = "announce"
              THEN [alive EXCEPT ![d] = @ \cup {gen[d]}] ELSE alive
  /\ Goto(d, AfterOk[phase[d]])
  /\ UNCHANGED <<gen, chat, outcome, cancelReq, chatVars, stops, faults>>

\* The operation raises, before or after its command was executed.
RedisFails(d) ==
  /\ d \notin cancelReq /\ phase[d] \in OnRedis /\ faults < MaxFaults
  /\ Effect(d) \/ NoEffect
  /\ Goto(d, AfterError[phase[d]])
  /\ faults' = faults + 1
  /\ UNCHANGED <<runVars, cancelReq, told, chatVars, stops>>

\* DAG_WORKSPACE.mkdir raises at the very start of the task.
WorkspaceFails(d) ==
  /\ d \notin cancelReq /\ phase[d] = "spec" /\ faults < MaxFaults
  /\ Goto(d, "ended")
  /\ faults' = faults + 1
  /\ UNCHANGED <<runVars, cancelReq, redisVars, chatVars, stops>>

\* WorkflowRunner.run returns a result, its node tasks being over.
RunnerReturns(d) ==
  /\ d \notin cancelReq /\ phase[d] = "running"
  /\ \E o \in {"success", "failure"} : outcome' = [outcome EXCEPT ![d][gen[d]] = o]
  /\ alive' = [alive EXCEPT ![d] = @ \ {gen[d]}]
  /\ Goto(d, "closing")
  /\ UNCHANGED <<gen, chat, cancelReq, redisVars, chatVars, stops, faults>>

\* WorkflowRunner.run raises CycleDetected.
RunnerRaises(d) ==
  /\ d \notin cancelReq /\ phase[d] = "running"
  /\ alive' = [alive EXCEPT ![d] = @ \ {gen[d]}]
  /\ Goto(d, "failing")
  /\ UNCHANGED <<gen, chat, outcome, cancelReq, redisVars, chatVars, stops, faults>>

\* CancelledError is thrown into the task.  In the runner it leaves the node
\* tasks alive, unless run() was aborting already.
Cancelled(d) ==
  /\ d \in cancelReq /\ phase[d] \in DOMAIN AfterCancel
  /\ Effect(d) \/ NoEffect
  /\ alive' \in {alive, [alive EXCEPT ![d] = @ \ {gen[d]}]}
  /\ phase[d] # "running" => alive' = alive
  /\ Goto(d, AfterCancel[phase[d]])
  /\ cancelReq' = cancelReq \ {d}
  /\ UNCHANGED <<gen, chat, outcome, told, chatVars, stops, faults>>

\* A node task notifies a change of state: the status says "running".
NodeWrites(d, g) ==
  /\ g \in alive[d]
  /\ status' = [status EXCEPT ![d] = [state |-> "running", by |-> g]]
  /\ UNCHANGED <<phase, runVars, cancelReq, result, told, chatVars, stops, faults>>

\* The node tasks a cancelled run left behind come to their end.
OrphansEnd(d, g) ==
  /\ g \in alive[d] /\ (g # gen[d] \/ phase[d] # "running")
  /\ alive' = [alive EXCEPT ![d] = @ \ {g}]
  /\ UNCHANGED <<phase, gen, chat, outcome, cancelReq, redisVars, chatVars, stops, faults>>
-----------------------------------------------------------------------------
(* The callback on_complete: _on_dag_complete.                             *)

\* async with _chat_locks[chat_id], then orchestrator.run.
EnterChat(d) ==
  /\ d \notin cancelReq /\ phase[d] = "calling"
  /\ lock[chat[d]] = "free"
  /\ lock' = [lock EXCEPT ![chat[d]] = d]
  /\ Goto(d, "turn")
  /\ UNCHANGED <<runVars, cancelReq, redisVars, wait, stops, faults>>

LeaveChat(d) ==
  /\ lock' = [lock EXCEPT ![chat[d]] = "free"]
  /\ wait' = [wait EXCEPT ![chat[d]] = NoOne]
  /\ Goto(d, "ended")

\* The reply was sent, or the turn raised: the lock is released and the task
\* is over.
TurnEnds(d) ==
  /\ d \notin cancelReq /\ phase[d] = "turn" /\ wait[chat[d]] = NoOne
  /\ LeaveChat(d)
  /\ UNCHANGED <<runVars, cancelReq, redisVars, stops, faults>>

\* Mutant: the lock is taken by hand and not released by a cancellation.
TurnCancelledLocked(d) ==
  /\ d \in cancelReq /\ phase[d] \in {"turn", "dropped"}
  /\ Goto(d, IF wait[chat[d]] = NoOne THEN "ended" ELSE "dropped")
  /\ cancelReq' = cancelReq \ {d}
  /\ UNCHANGED chatVars
  /\ UNCHANGED <<runVars, redisVars, stops, faults>>

\* A cancellation in the turn.  If the turn is itself in stop(), its gather()
\* passes the cancellation on and still waits for the other task.
TurnCancelled(d) ==
  /\ d \in cancelReq /\ phase[d] \in {"turn", "dropped"}
  /\ IF wait[chat[d]] = NoOne
     THEN /\ LeaveChat(d)
          /\ cancelReq' = cancelReq \ {d}
     ELSE /\ Goto(d, "dropped")
          /\ cancelReq' = (cancelReq \ {d}) \cup
               (IF WaitOver(chat[d]) \/ phase[wait[chat[d]][1]] = "ended"
                THEN {} ELSE {wait[chat[d]][1]})
          /\ UNCHANGED chatVars
  /\ UNCHANGED <<runVars, redisVars, stops, faults>>

\* That other task is over: the cancellation unwinds the turn.
TurnDropped(d) ==
  /\ phase[d] = "dropped" /\ WaitOver(chat[d])
  /\ LeaveChat(d)
  /\ cancelReq' = cancelReq \ {d}
  /\ UNCHANGED <<runVars, redisVars, stops, faults>>

\* Mutant: only a run whose completion was reported is cleaned up.
CleanupAfterReport(d) ==
  /\ phase[d] = "ended" /\ told[d].state # "none"
  /\ Goto(d, "none")
  /\ cancelReq' = cancelReq \ {d}
  /\ UNCHANGED <<runVars, redisVars, chatVars, stops, faults>>

\* The done callback _cleanup forgets the task; the id is free again.
Cleanup(d) ==
  /\ phase[d] = "ended"
  /\ Goto(d, "none")
  /\ cancelReq' = cancelReq \ {d}
  /\ UNCHANGED <<runVars, redisVars, chatVars, stops, faults>>
-----------------------------------------------------------------------------
TaskStep(d) ==
  \/ RedisOk(d) \/ RunnerReturns(d) \/ RunnerRaises(d) \/ Cancelled(d)
  \/ EnterChat(d) \/ TurnEnds(d) \/ TurnCancelled(d) \/ TurnDropped(d)
  \/ Cleanup(d)

Fault(d) == RedisFails(d) \/ WorkspaceFails(d)

Nodes(d) == \E g \in Run : NodeWrites(d, g) \/ OrphansEnd(d, g)

ChatStep(c) ==
  \/ UserTurn(c) \/ UserTurnEnds(c) \/ StopReturns(c)
  \/ \E d \in Dag : StartWorkflow(c, d) \/ StopWorkflow(c, d)

Next ==
  \/ \E d \in Dag : TaskStep(d) \/ Fault(d) \/ Nodes(d)
  \/ \E c \in Chat : ChatStep(c)

Spec == Init /\ [][Next]_vars

\* The event loop and Redis serve every coroutine; a turn of the
\* orchestrator ends; asyncio.Lock is first come, first served, so a waiting
\* completion gets the lock however many user turns follow.
Fairness ==
  /\ \A d \in Dag : WF_vars(TaskStep(d)) /\ SF_vars(EnterChat(d))
  /\ \A c \in Chat : WF_vars(UserTurnEnds(c)) /\ WF_vars(StopReturns(c))

FairSpec == Spec /\ Fairness
=============================================================================
