--------------------------- MODULE DagRunnerProps ---------------------------
(***************************************************************************)
(* The properties of DagRunner that the runs check and DagRunnerProofs     *)
(* proves.                                                                 *)
(***************************************************************************)
EXTENDS DagRunner

\* Every variable stays within the values the code gives it.
TypeOK ==
  /\ deps \in Graphs
  /\ main \in MainState
  /\ batch \subseteq Node /\ active \subseteq Node /\ ready \subseteq Node
  /\ inDegree \in [Node -> Int]
  /\ order \in Seq(Node)
  /\ context \subseteq Node
  /\ phase \in [Node -> Phase]
  /\ inputs \in [Node -> SUBSET Node]
  /\ attempt \in [Node -> Nat]
  /\ nodeStates \in [Node -> NotifiedState \cup {"none"}]
  /\ results \subseteq Node /\ skipped \subseteq Node /\ errors \subseteq Node
  /\ sem \in Nat
  /\ cancelReq \subseteq Node

Running == {n \in Node : phase[n] = "running"}

\* No permit of the semaphore is lost or invented, whatever mixture of
\* success, failure, timeout, retry and cancellation ends the attempts: the
\* free permits and the running attempts always add up to max_concurrent.
SemaphoreConserved == sem + Cardinality(Running) = MaxConcurrent

\* The context snapshot a node works on, taken when its task begins and
\* reused by every retry, holds the entry of each of its dependencies.
DependencyInputs ==
  \A n \in Node :
    /\ phase[n] = "created" => deps[n] \subseteq context
    /\ phase[n] \notin {"idle", "created", "cancelled"} =>
         deps[n] \subseteq inputs[n]

\* A node never works on the output of a node that failed, was cancelled or
\* is still executing: the keys it was given belong to finished nodes that
\* are not in errors, or to dead ones, whose entry is None.
InputsAreSettled ==
  \A n \in Node : \A m \in inputs[n] :
    phase[m] \in {"finished", "dead"} /\ m \notin errors

\* execution_order lists no node twice and no node before a dependency.
ExecutionOrderTopological ==
  \A j \in DOMAIN order :
    /\ deps[order[j]] \subseteq {order[i] : i \in 1..(j - 1)}
    /\ \A i \in 1..(j - 1) : order[i] # order[j]

\* When run() has returned a WorkflowResult no task it created is alive, so
\* nothing writes to Redis or to the result behind the caller's back.
VerdictIsQuiet ==
  main \in {"rejected", "success", "failure"} => LiveNodes = {}

\* run() returns success only when every node of the graph was gone through
\* and none is in errors.  That is less than completion: a node whose sandbox
\* directory could not be made died with no outcome at all, and only such a
\* node may lack a result or a skip (SuccessHasOutcomes is what fails).
SuccessMeansCompleted ==
  main = "success" =>
    /\ Processed = Node /\ errors = {}
    /\ results \cup skipped \cup {n \in Node : phase[n] = "dead"} = Node

\* After a failure execution_order ends with the node that aborted the run,
\* the only failed one listed, which has used up its attempts, unless it was
\* its condition that raised.
FailureEndsOrder ==
  main = "failure" =>
    /\ order # <<>>
    /\ Processed \cap errors = {order[Len(order)]}
    /\ \A n \in Processed \cap errors : n \in Conditional \/ attempt[n] = Retries[n]

\* The confidence score of a returned result is full exactly when the run is
\* a success and each node was skipped, has a result of its first attempt, or
\* died outside the try blocks, which costs no confidence.
ConfidenceMeaning ==
  main \in {"success", "failure"} =>
    (Confidence = 100 <=>
       /\ main = "success"
       /\ \A n \in Node : IF n \in results THEN attempt[n] = 0
                         ELSE n \in skipped \/ phase[n] = "dead")

\* What a returned WorkflowResult says agrees with what happened, dead nodes
\* apart, of which it says nothing: its order is one the graph allows, a
\* success has an outcome of every other node and a failure its cause at the
\* end, the confidence is full for first attempts only, and no output came
\* from an unsettled input.
ResultSound ==
  /\ InputsAreSettled
  /\ ExecutionOrderTopological
  /\ SuccessMeansCompleted
  /\ FailureEndsOrder
  /\ ConfidenceMeaning

\* Once a failure made run() abort, no task whose runner has not been called
\* yet begins, even if its cancellation is still on its way.
NoStartAfterAbort ==
  [][(main \in {"aborting", "stopping"}) =>
       \A n \in Node : phase[n] \in {"idle", "created"} =>
         phase'[n] \in {phase[n], "cancelled"}]_vars

\* The collections of a returned WorkflowResult, which share the runner's
\* dicts, never change again.
ResultFrozen ==
  [][(main \in {"success", "failure"}) =>
       UNCHANGED <<results, skipped, errors, order, attempt>>]_vars

\* An abort is final: nothing begins after it, and the result it returned
\* is not written to by a straggler.
AbortIsFinal == NoStartAfterAbort /\ ResultFrozen

\* run() always comes to an end, and with it every task it created.
Termination ==
  <>(/\ main \in {"rejected", "success", "failure", "stopped"}
     /\ LiveNodes = {})

\* The runner implements the abstract execution of a DAG.
Execution ==
  INSTANCE DagExecution WITH
    begun <- {n \in Node : phase[n] # "idle"},
    ended <- {n \in Node : phase[n] \in Over},
    completed <- context,
    verdict <- IF main \in {"rejected", "success", "failure", "stopped"}
               THEN main ELSE "open"
ImplementsExecution == Execution!ASpec
-----------------------------------------------------------------------------
(* The strengthening that makes the safety properties inductive.           *)

\* How the task table, the batch and the position of run() fit together.
Bookkeeping ==
  /\ main \in {"start", "rejected"} =>
       /\ order = <<>> /\ active = {}
       /\ \A n \in Node : phase[n] = "idle"
  /\ main \in {"start", "waiting"} /\ batch = {} => ready = {}
  /\ batch \subseteq active
  /\ batch # {} => main = "waiting"
  /\ \A n \in batch \cup Processed : phase[n] \in Over
  /\ \A n \in active : phase[n] # "idle"
  /\ active \cap Processed = {}
  /\ main # "stopped" => LiveNodes \subseteq active
  /\ main = "success" => active = {}
  /\ main \in {"rejected", "success", "failure"} => LiveNodes = {}

\* The in-degree counts the dependencies missing from the context, and no
\* task exists before the count is zero.
Counting ==
  /\ context \subseteq Processed
  /\ main \in {"start", "waiting", "success"} => context = Processed
  /\ \A n \in Node : inDegree[n] = Cardinality(deps[n] \ context)
  /\ \A n \in ready : phase[n] = "idle" /\ deps[n] \subseteq context
  /\ \A n \in Node : phase[n] # "idle" => deps[n] \subseteq context

\* While the run goes on no node is forgotten: it is created, queued, or
\* still misses a dependency.
NothingForgotten ==
  main \in {"waiting", "success"} =>
    /\ Acyclic(deps)
    /\ \A n \in Node :
         \/ phase[n] = "idle" /\ (n \in ready \/ ~(deps[n] \subseteq context))
         \/ phase[n] # "idle" /\ n \in active \cup context

IndInv == Bookkeeping /\ Counting /\ NothingForgotten /\ DependencyInputs

\* What the records of a node say: a task that is over by itself, or about to
\* be, has one; one in errors has used up its attempts and tries no more.
Recorded(n) ==
  /\ \/ phase[n] = "finished"
     \/ phase[n] = "notifying" /\ nodeStates[n] \notin {"running", "retrying"}
     => n \in results \cup skipped \cup errors
  /\ attempt[n] <= Retries[n]
  /\ n \in errors =>
       /\ n \in Conditional \/ attempt[n] = Retries[n]
       /\ \/ phase[n] \in {"finished", "cancelled"}
          \/ phase[n] = "notifying" /\ nodeStates[n] = "error"

\* Nothing is cancelled until something fails; from then on, whatever has not
\* begun is.
CancelledInTime ==
  /\ main \in {"start", "waiting"} =>
       cancelReq = {} /\ \A n \in Node : phase[n] # "cancelled"
  /\ main \in {"aborting", "stopping"} =>
       \A n \in Node : phase[n] = "created" => n \in cancelReq

\* The context holds what finished and did not fail, and inputs come from it;
\* at a success it holds every node, at a failure all of the order but the
\* node that failed.
Settled ==
  /\ \A n \in Node : inputs[n] \subseteq context
  /\ \A n \in context : phase[n] \in {"finished", "dead"} /\ n \notin errors
  /\ main = "success" => context = Node
  /\ main \in {"aborting", "stopping", "failure"} =>
       /\ order # <<>> /\ order[Len(order)] \in errors
       /\ Processed = context \cup {order[Len(order)]}

ResultInv ==
  /\ \A n \in Node : Recorded(n)
  /\ CancelledInTime
  /\ Settled
  /\ ExecutionOrderTopological

-----------------------------------------------------------------------------
(* What the code says of itself and does not keep.                         *)

\* dag_manager.py: stop() cancels a running DAG and waits for it to
\* terminate, so afterwards no node of it executes.
StopQuiets == main = "stopped" => LiveNodes = {}

\* models.py: success is True if every node completed without error.
SuccessHasOutcomes == main = "success" => results \cup skipped = Node
=============================================================================
