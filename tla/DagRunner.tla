------------------------------ MODULE DagRunner ------------------------------
(***************************************************************************)
(* WorkflowRunner.run of workflow/runner.py: one execution of one DAG.     *)
(*                                                                         *)
(* All coroutines share one asyncio event loop, so the code between two    *)
(* awaits is one atomic step.  The actors are the coroutine run itself     *)
(* (variable main) and one task per node that runs _execute_node (variable *)
(* phase).  While run goes through the set of finished tasks no await      *)
(* happens, so no task moves while batch is not empty.                     *)
(*                                                                         *)
(* A node's output is abstracted to the fact that it exists; the set of    *)
(* context keys a node saw when it began is kept in inputs.                *)
(***************************************************************************)
EXTENDS DagGraph, Sequences, Integers

CONSTANTS
  Node,          \* the task ids of the graph
  Graphs,        \* the graphs explored: functions from Node to SUBSET Node
  MaxConcurrent, \* WorkflowRunner max_concurrent
  Retries,       \* Retries[n]: TaskNode.max_retries
  Delayed,       \* the nodes with retry_delay > 0
  Conditional,   \* the nodes with a condition predicate
  Runnerless,    \* the nodes whose runner is None
  Sandboxed      \* TRUE when a working_dir is configured

ASSUME NodeAssumption == IsFiniteSet(Node) /\ Node # {}
ASSUME GraphsAssumption == Graphs \subseteq [Node -> SUBSET Node]
ASSUME MaxConcurrentAssumption == MaxConcurrent \in Nat \ {0}
ASSUME RetriesAssumption == Retries \in [Node -> Nat]
ASSUME FeatureAssumption ==
  /\ Delayed \subseteq Node
  /\ Conditional \subseteq Node
  /\ Runnerless \subseteq Node
  /\ Sandboxed \in BOOLEAN

VARIABLES
  deps,       \* the graph of this run
  main,       \* where the coroutine run() is
  batch,      \* finished tasks run() still has to go through
  active,     \* tasks created and not yet gone through
  ready,      \* nodes whose in-degree reached 0, not yet created
  inDegree,   \* unmet dependencies counted down by run()
  order,      \* execution_order
  context,    \* keys of the shared context that are node ids
  phase,      \* where the task of each node is
  inputs,     \* inputs[n]: context keys copied into base_ctx by n
  attempt,    \* retry counter of each node
  nodeStates, \* the last state notified for each node
  results, skipped, errors,  \* the nodes recorded in each collection
  sem,        \* free permits of the semaphore
  cancelReq   \* tasks on which cancel() was called and not yet delivered

mainVars == <<main, batch, active, ready, inDegree, order, context>>
taskVars == <<phase, inputs, attempt, nodeStates, results, skipped, errors, sem>>
vars == <<deps, mainVars, taskVars, cancelReq>>

MainState ==
  {"start", "waiting", "aborting", "stopping",
   "rejected", "success", "failure", "stopped"}
Live == {"created", "notifying", "acquiring", "running", "backoff"}
Over == {"finished", "dead", "cancelled"}
Phase == {"idle"} \cup Live \cup Over
NotifiedState == {"running", "retrying", "done", "error", "skipped"}

LiveNodes == {n \in Node : phase[n] \in Live}
Processed == {order[i] : i \in DOMAIN order}

Init ==
  /\ deps \in Graphs
  /\ main = "start"
  /\ batch = {} /\ active = {} /\ ready = {} /\ context = {}
  /\ order = <<>>
  /\ inDegree = [n \in Node |-> Cardinality(deps[n])]
  /\ phase = [n \in Node |-> "idle"]
  /\ inputs = [n \in Node |-> {}]
  /\ attempt = [n \in Node |-> 0]
  /\ nodeStates = [n \in Node |-> "none"]
  /\ results = {} /\ skipped = {} /\ errors = {}
  /\ sem = MaxConcurrent
  /\ cancelReq = {}
-----------------------------------------------------------------------------
(* The coroutine run().                                                    *)

\* Create the tasks of the nodes in N; with nothing active left the while
\* loop ends (remaining = 0, or the break) and run() returns success.
CreateTasks(N, stillActive) ==
  /\ phase' = [n \in Node |-> IF n \in N THEN "created" ELSE phase[n]]
  /\ active' = stillActive \cup N
  /\ ready' = {}
  /\ main' = IF active' = {} THEN "success" ELSE "waiting"

\* Mutant: the cycle check is skipped.
StartUnchecked ==
  /\ main = "start"
  /\ CreateTasks({n \in Node : inDegree[n] = 0}, {})
  /\ UNCHANGED <<deps, batch, inDegree, order, context, inputs, attempt,
                 nodeStates, results, skipped, errors, sem, cancelReq>>

\* run() is called: a cyclic graph is rejected before anything starts,
\* otherwise the roots are created.
Start ==
  /\ main = "start"
  /\ IF Acyclic(deps)
     THEN CreateTasks({n \in Node : inDegree[n] = 0}, {})
     ELSE main' = "rejected" /\ UNCHANGED <<phase, active, ready>>
  /\ UNCHANGED <<deps, batch, inDegree, order, context, inputs, attempt,
                 nodeStates, results, skipped, errors, sem, cancelReq>>

\* asyncio.wait(FIRST_COMPLETED) returns every task that is over by the time
\* run() is resumed.
Wake ==
  /\ main = "waiting" /\ batch = {}
  /\ batch' = {n \in active : phase[n] \in Over}
  /\ batch' # {}
  /\ UNCHANGED <<deps, main, active, ready, inDegree, order, context,
                 taskVars, cancelReq>>

\* The node failed after its last attempt: the run is aborted.
Aborts(n) == n \in errors

\* Mutant: a node is released by the first of its dependencies.
ReleasedTooEarly(n) == {m \in Successors(deps, n) : inDegree[m] >= 1}

\* The successors whose last unmet dependency is n.
Released(n) == {m \in Successors(deps, n) : inDegree[m] = 1}

\* Mutant: the failed node is not appended to the execution order.
ProcessErrorUnlisted(n) ==
  /\ n \in batch /\ Aborts(n)
  /\ active' = active \ {n}
  /\ cancelReq' = {m \in active' : phase[m] \in Live}
  /\ batch' = {}
  /\ main' = "aborting"
  /\ UNCHANGED <<deps, order, ready, inDegree, context, taskVars>>

\* One iteration of "for task in done" for a node recorded in errors: every
\* other active task is cancelled, those already finished included, and the
\* rest of the batch is never gone through.
ProcessError(n) ==
  /\ n \in batch /\ Aborts(n)
  /\ order' = Append(order, n)
  /\ active' = active \ {n}
  /\ cancelReq' = {m \in active' : phase[m] \in Live}
  /\ batch' = {}
  /\ main' = "aborting"
  /\ UNCHANGED <<deps, ready, inDegree, context, taskVars>>

\* One iteration for any other node; after the last one the outer loop
\* creates the tasks of the nodes that became ready.
ProcessOk(n) ==
  /\ n \in batch /\ ~Aborts(n)
  /\ order' = Append(order, n)
  /\ context' = context \cup {n}
  /\ inDegree' = [m \in Node |->
                    IF m \in Successors(deps, n) THEN inDegree[m] - 1
                                                 ELSE inDegree[m]]
  /\ batch' = batch \ {n}
  /\ IF batch' = {}
     THEN CreateTasks(ready \cup Released(n), active \ {n})
     ELSE /\ ready' = ready \cup Released(n)
          /\ active' = active \ {n}
          /\ UNCHANGED <<phase, main>>
  /\ UNCHANGED <<deps, inputs, attempt, nodeStates, results, skipped, errors,
                 sem, cancelReq>>

\* Mutant: the cancelled tasks are not awaited.
AbortDoneAtOnce ==
  /\ main \in {"aborting", "stopping"}
  /\ main' = IF main = "aborting" THEN "failure" ELSE "stopped"
  /\ UNCHANGED <<deps, batch, active, ready, inDegree, order, context,
                 taskVars, cancelReq>>

\* gather() of the cancelled tasks returns once all of them are over.
AbortDone ==
  /\ main \in {"aborting", "stopping"}
  /\ \A n \in active : phase[n] \in Over
  /\ main' = IF main = "aborting" THEN "failure" ELSE "stopped"
  /\ UNCHANGED <<deps, batch, active, ready, inDegree, order, context,
                 taskVars, cancelReq>>

\* The task that awaits run() is cancelled (DagManager.stop).  asyncio.wait
\* does not cancel the tasks it waits for, so they go on; gather does.
Stop ==
  /\ batch = {}
  /\ \/ /\ main = "waiting"
        /\ main' = "stopped"
        /\ UNCHANGED cancelReq
     \/ /\ main = "aborting"
        /\ main' = "stopping"
        /\ cancelReq' = {n \in active : phase[n] \in Live}
  /\ UNCHANGED <<deps, batch, active, ready, inDegree, order, context, taskVars>>
-----------------------------------------------------------------------------
(* The task of a node: _execute_node.                                      *)

\* Mutant: a requested cancellation is forgotten.
ResumesUncancelled(n, from) == batch = {} /\ phase[n] = from

\* A task takes a step of its own: it is the event loop's turn and no
\* cancellation waits to be thrown into it.
Resumes(n, from) == batch = {} /\ phase[n] = from /\ n \notin cancelReq

Goto(n, to) == phase' = [phase EXCEPT ![n] = to]

\* _notify: the state is set at once, then Redis and the callback are
\* awaited; their exceptions are swallowed.
Notify(n, state) ==
  /\ nodeStates' = [nodeStates EXCEPT ![n] = state]
  /\ Goto(n, "notifying")

\* First step of the task up to its first await.
Begin(n) ==
  /\ Resumes(n, "created")
  /\ inputs' = [inputs EXCEPT ![n] = context]
  /\ \/ \* sandbox.mkdir raises OSError outside every try block
        /\ Sandboxed
        /\ Goto(n, "dead")
        /\ UNCHANGED <<nodeStates, results, skipped, errors>>
     \/ \* the condition raises
        /\ n \in Conditional
        /\ errors' = errors \cup {n}
        /\ Notify(n, "error")
        /\ UNCHANGED <<results, skipped>>
     \/ \* the condition is false
        /\ n \in Conditional
        /\ skipped' = skipped \cup {n}
        /\ Notify(n, "skipped")
        /\ UNCHANGED <<results, errors>>
     \/ \* nothing to run
        /\ n \in Runnerless
        /\ results' = results \cup {n}
        /\ Goto(n, "finished")
        /\ UNCHANGED <<nodeStates, skipped, errors>>
     \/ /\ n \notin Runnerless
        /\ Notify(n, "running")
        /\ UNCHANGED <<results, skipped, errors>>
  /\ UNCHANGED <<deps, mainVars, attempt, sem, cancelReq>>

\* _notify returns: what follows depends on what was notified.
Notified(n) ==
  /\ Resumes(n, "notifying")
  /\ Goto(n, IF nodeStates[n] \notin {"running", "retrying"} THEN "finished"
             ELSE IF nodeStates[n] = "retrying" /\ n \in Delayed THEN "backoff"
             ELSE "acquiring")
  /\ UNCHANGED <<deps, mainVars, inputs, attempt, nodeStates, results, skipped,
                 errors, sem, cancelReq>>

BackoffOver(n) ==
  /\ Resumes(n, "backoff")
  /\ Goto(n, "acquiring")
  /\ UNCHANGED <<deps, mainVars, inputs, attempt, nodeStates, results, skipped,
                 errors, sem, cancelReq>>

\* async with sem
Acquire(n) ==
  /\ Resumes(n, "acquiring")
  /\ sem > 0
  /\ sem' = sem - 1
  /\ Goto(n, "running")
  /\ UNCHANGED <<deps, mainVars, inputs, attempt, nodeStates, results, skipped,
                 errors, cancelReq>>

\* The attempt ends and the semaphore is released.  The wait_for of Python
\* 3.11 hands over a result that is ready when the cancellation arrives and
\* drops the cancellation, so n may be in cancelReq.
AttemptEnds(n) ==
  /\ batch = {} /\ phase[n] = "running"
  /\ sem' = sem + 1
  /\ cancelReq' = cancelReq \ {n}
  /\ UNCHANGED <<deps, mainVars, inputs, skipped>>

AttemptOk(n) ==
  /\ AttemptEnds(n)
  /\ results' = results \cup {n}
  /\ Notify(n, "done")
  /\ UNCHANGED <<attempt, errors>>

Exhausted(n) == attempt[n] >= Retries[n]

\* Mutant: the retry counter is not incremented.
AttemptFailsUncounted(n) ==
  /\ AttemptEnds(n)
  /\ \/ /\ Exhausted(n)
        /\ errors' = errors \cup {n}
        /\ Notify(n, "error")
     \/ /\ ~Exhausted(n)
        /\ Notify(n, "retrying")
        /\ UNCHANGED errors
  /\ UNCHANGED <<results, attempt>>

\* A timeout or an exception of the runner: both handlers do the same.
AttemptFails(n) ==
  /\ AttemptEnds(n)
  /\ \/ /\ Exhausted(n)
        /\ errors' = errors \cup {n}
        /\ Notify(n, "error")
        /\ UNCHANGED attempt
     \/ /\ ~Exhausted(n)
        /\ attempt' = [attempt EXCEPT ![n] = @ + 1]
        /\ Notify(n, "retrying")
        /\ UNCHANGED errors
  /\ UNCHANGED results

\* Mutant: a cancelled attempt keeps its permit.
CancelDeliveredLeaks(n) ==
  /\ batch = {} /\ n \in cancelReq /\ phase[n] \in Live
  /\ Goto(n, "cancelled")
  /\ cancelReq' = cancelReq \ {n}
  /\ UNCHANGED <<deps, mainVars, inputs, attempt, nodeStates, results, skipped,
                 errors, sem>>

\* CancelledError is thrown into the task at its current await; the
\* semaphore is released on the way out.
CancelDelivered(n) ==
  /\ batch = {} /\ n \in cancelReq /\ phase[n] \in Live
  /\ sem' = IF phase[n] = "running" THEN sem + 1 ELSE sem
  /\ Goto(n, "cancelled")
  /\ cancelReq' = cancelReq \ {n}
  /\ UNCHANGED <<deps, mainVars, inputs, attempt, nodeStates, results, skipped,
                 errors>>
\* Confidence of the result as a percentage: the share of the nodes listed in
\* order that did not fail, less 3 points per node that was retried.
ConfidenceOf(failed, retried) ==
  LET total == Len(order)
      score == 100 * (total - failed) - 3 * retried * total
  IN IF total = 0 THEN 100
     ELSE IF score < 0 THEN 0 ELSE score \div total

Retried == {n \in results \cup errors : attempt[n] > 0}

\* _compute_confidence
Confidence == ConfidenceOf(Cardinality(errors), Cardinality(Retried))
-----------------------------------------------------------------------------
TaskStep(n) ==
  \/ Begin(n) \/ Notified(n) \/ BackoffOver(n) \/ Acquire(n)
  \/ AttemptOk(n) \/ AttemptFails(n) \/ CancelDelivered(n)

MainStep == Start \/ Wake \/ (\E n \in Node : ProcessError(n) \/ ProcessOk(n))
              \/ AbortDone

\* Every coroutine has returned.
Quiescent ==
  /\ main \in {"rejected", "success", "failure", "stopped"}
  /\ LiveNodes = {}
  /\ UNCHANGED vars

Next == MainStep \/ Stop \/ (\E n \in Node : TaskStep(n)) \/ Quiescent

Spec == Init /\ [][Next]_vars

\* The event loop never starves a coroutine that can go on; a runner ends
\* because wait_for bounds it.  Nobody is obliged to call stop().
Fairness == WF_vars(MainStep) /\ \A n \in Node : WF_vars(TaskStep(n))

FairSpec == Spec /\ Fairness
=============================================================================
