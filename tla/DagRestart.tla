------------------------------ MODULE DagRestart ------------------------------
(***************************************************************************)
(* DagManager.restart_failed over two runs of one DAG: what the first run  *)
(* has in Redis at each moment, whichever way it goes on or ends, which    *)
(* nodes the second one is given, with which results, and what each node   *)
(* then sees.  Both runs are known by what DagRunner shows of them: a node *)
(* begins after its dependencies, the first failure that run() takes up    *)
(* ends the run, and the nodes of a stopped run go on.                     *)
(***************************************************************************)
EXTENDS AffectedSubgraph

VARIABLES
  spec,      \* the node specs that start() persisted, by their dependencies
  run,       \* the first run: "first", "aborted", "saving", "failed", "stopped", "crashed"; then "second", "over"
  node,      \* node[n]: its state in the run that is going on
  writes,    \* the sets of failed nodes that a write of the first run's status carries
  erring,    \* the nodes that the status in Redis gives as "error"
  kept,      \* the nodes whose results are in Redis
  fresh,     \* and whether they are of this run
  told,      \* the failed nodes that restart_failed has read, before it reads the results
  left1,     \* node as the first run left it when the second was started
  nodes2,    \* the nodes of the second run
  seeded,    \* the nodes whose results it is started with
  begun2     \* begun2[n]: the nodes whose outcome was in the context when n began again

saved == <<writes, erring, kept, fresh>>
restarted == <<told, left1, nodes2, seeded>>
restartvars == <<spec, run, node, saved, restarted, begun2>>

NotBegun == {"-"}

\* set_status("running") has been written; the result may be an earlier run's of this id.
RestartInit ==
  /\ spec \in {g \in Specs : Acyclic(g)} /\ run = "first"
  /\ node = [n \in Task |-> "waiting"] /\ left1 = node
  /\ writes = {{}} /\ erring = {} /\ kept \in {{}, Task} /\ fresh = FALSE
  /\ told = {} /\ nodes2 = {} /\ seeded = {}
  /\ begun2 = [n \in Task |-> NotBegun]

\* "void": over without a result, skipped or with no directory to work in.
Settled == {n \in Task : node[n] \in {"done", "void"}}
Failed == {n \in Task : node[n] = "failed"}
Done == {n \in Task : node[n] = "done"}

\* The dependencies in the graph of the run that is going on.
Waits(n) == IF run = "first" THEN spec[n] ELSE SubgraphDeps(spec, nodes2)[n]

(* _notify writes a copy of the states; writes of several nodes overtake one
   another and may fail, so that of any so far is the last to arrive. *)
Notifies ==
  IF run = "second" THEN UNCHANGED saved
  ELSE writes' = writes \cup {Failed'} /\ erring' \in writes' /\ UNCHANGED <<kept, fresh>>

BeginNode(n) ==
  /\ run \in {"first", "second"} /\ node[n] = "waiting" /\ Waits(n) \subseteq Settled
  /\ node' = [node EXCEPT ![n] = "active"] /\ Notifies
  /\ begun2' = IF run = "first" THEN begun2
               ELSE [begun2 EXCEPT ![n] = seeded \cup (Settled \cap nodes2)]
  /\ UNCHANGED <<spec, run, restarted>>

\* A node ends in one way or another; after a stop as well.
EndNode(n) ==
  /\ run \in {"first", "stopped", "second"} /\ node[n] = "active"
  /\ \E how \in {"done", "void", "failed"} : node' = [node EXCEPT ![n] = how]
  /\ Notifies
  /\ UNCHANGED <<spec, run, restarted, begun2>>

(* run() takes up a failed node: the others are cancelled.  Of its result's
   order n alone is an error. *)
Abort(n) ==
  /\ run \in {"first", "second"} /\ node[n] = "failed"
  /\ node' = [m \in Task |-> IF node[m] = "active" THEN "cancelled" ELSE node[m]]
  /\ IF run = "first" THEN run' = "aborted" /\ writes' = {{n}} ELSE run' = "over" /\ UNCHANGED writes
  /\ UNCHANGED <<spec, erring, kept, fresh, restarted, begun2>>

\* The status with its states is written, or fails and one without is tried.
SaveStatus ==
  /\ run = "aborted"
  /\ \/ run' = "saving" /\ erring' \in writes
     \/ run' = "failed" /\ erring' \in writes \cup {erring, {}}
  /\ UNCHANGED <<spec, node, writes, kept, fresh, restarted, begun2>>

WritesResult == kept' = Done /\ fresh' = TRUE

\* The results, those of cancelled nodes included; a failure is again a status without states.
SaveResult ==
  /\ run = "saving" /\ run' = "failed" /\ erring' \in {erring, {}}
  /\ WritesResult \/ UNCHANGED <<kept, fresh>>
  /\ UNCHANGED <<spec, node, writes, restarted, begun2>>

(* stop(): what is being written may arrive, and "cancelled" without states
   is.  The nodes that run() created go on. *)
StopRun ==
  /\ run \in {"first", "aborted", "saving"} /\ run' = "stopped"
  /\ \E created \in SUBSET {n \in Task : run = "first" /\ node[n] = "waiting" /\ Waits(n) \subseteq Settled} :
       node' = [n \in Task |-> IF n \in created THEN "active" ELSE node[n]]
  /\ erring' \in writes \cup {erring, {}}
  /\ (run = "saving" /\ WritesResult) \/ UNCHANGED <<kept, fresh>>
  /\ UNCHANGED <<spec, writes, restarted, begun2>>

\* The process dies; what is in Redis stays.
CrashRun ==
  /\ run \in {"first", "aborted", "saving", "stopped"} /\ run' = "crashed" /\ told' = {}
  /\ UNCHANGED <<spec, node, saved, left1, nodes2, seeded, begun2>>

Completed ==
  /\ run \in {"first", "second"} /\ \A n \in Task : run = "first" \/ n \in nodes2 => n \in Settled
  /\ run' = "over"
  /\ UNCHANGED <<spec, node, saved, restarted, begun2>>

\* restart_failed reads the status, at any moment of the first run or after it.
RestartReads ==
  /\ run \notin {"second", "over"} /\ told = {} /\ erring # {}
  /\ told' = erring
  /\ UNCHANGED <<spec, run, node, saved, left1, nodes2, seeded, begun2>>

\* Mutant: the search goes against the dependencies as well.
AffectedBothWays == Descendants(spec, told) \cup UNION {spec[n] : n \in told}

\* The failed nodes and what depends on them; AffectedSubgraph has the search.
Affected == Descendants(spec, told)

\* It reads the results and starts the second run, under an id of its own.
Restart ==
  /\ run \notin {"second", "over"} /\ told # {}
  /\ nodes2' = Affected /\ seeded' = kept \ Affected /\ left1' = node
  /\ node' = [n \in Task |-> IF n \in Affected THEN "waiting" ELSE "outside"]
  /\ run' = "second"
  /\ UNCHANGED <<spec, saved, told, begun2>>

RestartNext ==
  \/ \E n \in Task : BeginNode(n) \/ EndNode(n) \/ Abort(n)
  \/ SaveStatus \/ SaveResult \/ StopRun \/ CrashRun \/ Completed \/ RestartReads \/ Restart

RestartSpec == RestartInit /\ [][RestartNext]_restartvars

--------------------------------------------------------------------------------
(* dag_manager.py:160-213.  A restart repeats nothing, whether the first run
   failed, was stopped, died or is still going on: no node that is over with an
   outcome in the first run, or still at work in it, runs again; results that
   are of the first run go to the second one complete and unchanged; and a node
   finds there what each dependency that runs again has come to since. *)
RestartRepeatsNothing ==
  nodes2 # {} =>
    /\ \A n \in nodes2 : left1[n] \in {"waiting", "failed"}
    /\ fresh => seeded = {n \in Task : left1[n] = "done"}
    /\ \A n \in nodes2 : begun2[n] # NotBegun => spec[n] \cap nodes2 \subseteq begun2[n]

\* A restart re-runs what it must: the search finds the failed nodes and all
\* that depends on them, and the second run repeats none of the first's work.
RestartSound == AffectedIsDescendants /\ RestartRepeatsNothing

(* dag_manager.py:166-168 promises that the results of completed nodes are
   injected so that a node receives the same inputs it would have had in the
   original run: the outcome of each dependency (a skipped one has none).
   Not even where the first run has failed and saved its results. *)
SameInputs ==
  fresh => \A n \in nodes2 : begun2[n] # NotBegun =>
             \A d \in spec[n] : d \in begun2[n] \/ left1[d] = "void"

(* dag_manager.py:166: the results of completed nodes are injected.  A status
   shows failures from the moment they happen, the results are those of the
   last run of the id that came to its end. *)
CompletedAreInjected == nodes2 # {} => seeded = {n \in Task : left1[n] = "done"} \ nodes2
================================================================================
