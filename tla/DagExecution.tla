---------------------------- MODULE DagExecution ----------------------------
(***************************************************************************)
(* What one execution of a DAG promises to its caller, without tasks,      *)
(* queues, retries or semaphores (docstrings of WorkflowRunner.run and     *)
(* WorkflowResult):                                                        *)
(*   - a node begins only when all its dependencies are completed;         *)
(*   - the verdict is success only when every node is completed: its end   *)
(*     was taken up and is no failure, with an outcome or without one;     *)
(*   - success and failure are given only when nothing is executing and    *)
(*     nothing begins, ends or completes afterwards;                       *)
(*   - a graph with a cycle is rejected before anything begins.            *)
(* A stopped execution promises only that nothing new begins.              *)
(***************************************************************************)
EXTENDS DagGraph

CONSTANTS Node, Graphs

VARIABLES deps, begun, ended, completed, verdict

avars == <<deps, begun, ended, completed, verdict>>

Executing == begun \ ended

AInit ==
  /\ deps \in Graphs
  /\ begun = {} /\ ended = {} /\ completed = {}
  /\ verdict = "open"

Reject ==
  /\ verdict = "open" /\ begun = {} /\ ~Acyclic(deps)
  /\ verdict' = "rejected"
  /\ UNCHANGED <<deps, begun, ended, completed>>

\* Some ended nodes complete, and nodes they unblock begin.
Advance ==
  /\ verdict = "open"
  /\ completed \subseteq completed' /\ completed' \subseteq ended
  /\ begun \subseteq begun' /\ begun' \subseteq Node
  /\ \A n \in begun' \ begun : deps[n] \subseteq completed'
  /\ verdict' = IF completed' = Node THEN "success" ELSE "open"
  /\ UNCHANGED <<deps, ended>>

\* Nodes stop executing, whatever their outcome.
End ==
  /\ verdict \in {"open", "stopped"}
  /\ ended \subseteq ended' /\ ended' \subseteq begun
  /\ UNCHANGED <<deps, begun, completed, verdict>>

Fail ==
  /\ verdict = "open" /\ Executing = {}
  /\ verdict' = "failure"
  /\ UNCHANGED <<deps, begun, ended, completed>>

Halt ==
  /\ verdict = "open"
  /\ verdict' = "stopped"
  /\ UNCHANGED <<deps, begun, ended, completed>>

ANext == Reject \/ Advance \/ End \/ Fail \/ Halt

ASpec == AInit /\ [][ANext]_avars
=============================================================================
