----------------------------- MODULE CycleCheck -----------------------------
(***************************************************************************)
(* WorkflowRunner._assert_acyclic: Kahn's algorithm as a loop over a work  *)
(* queue.  The queue is a set: the order in which it is emptied does not   *)
(* matter to the outcome, so any order is allowed.                         *)
(***************************************************************************)
EXTENDS DagGraph, Integers

CONSTANTS Node, Graphs

ASSUME NodeAssumption == IsFiniteSet(Node) /\ Node # {}
ASSUME GraphsAssumption == Graphs \subseteq [Node -> SUBSET Node]

VARIABLES
  deps,      \* the graph
  degree,    \* unmet dependencies of each node
  queue,     \* nodes of degree 0 still to visit
  visited,   \* how many nodes were visited
  verdict,   \* "open" while the loop runs, then "acyclic" or "cycle"
  remaining  \* CycleDetected.remaining_nodes

vars == <<deps, degree, queue, visited, verdict, remaining>>

Init ==
  /\ deps \in Graphs
  /\ degree = [n \in Node |-> Cardinality(deps[n])]
  /\ queue = {n \in Node : degree[n] = 0}
  /\ visited = 0
  /\ verdict = "open"
  /\ remaining = {}

\* Mutant: a successor is queued at its first decrement.
VisitTooEager(n) ==
  /\ verdict = "open" /\ n \in queue
  /\ visited' = visited + 1
  /\ degree' = [m \in Node |->
                  IF m \in Successors(deps, n) THEN degree[m] - 1 ELSE degree[m]]
  /\ queue' = (queue \ {n}) \cup Successors(deps, n)
  /\ UNCHANGED <<deps, verdict, remaining>>

\* One iteration of the loop: visit n, count its successors down and queue
\* those that reach 0.
Visit(n) ==
  /\ verdict = "open" /\ n \in queue
  /\ visited' = visited + 1
  /\ degree' = [m \in Node |->
                  IF m \in Successors(deps, n) THEN degree[m] - 1 ELSE degree[m]]
  /\ queue' = (queue \ {n}) \cup {m \in Successors(deps, n) : degree'[m] = 0}
  /\ UNCHANGED <<deps, verdict, remaining>>

\* The loop is over: some node was never visited iff there is a cycle.
Finish ==
  /\ verdict = "open" /\ queue = {}
  /\ IF visited = Cardinality(Node)
     THEN verdict' = "acyclic" /\ UNCHANGED remaining
     ELSE verdict' = "cycle" /\ remaining' = {n \in Node : degree[n] # 0}
  /\ UNCHANGED <<deps, degree, queue, visited>>

Finished == verdict # "open" /\ UNCHANGED vars

Next == (\E n \in Node : Visit(n)) \/ Finish \/ Finished

Spec == Init /\ [][Next]_vars
-----------------------------------------------------------------------------
TypeOK ==
  /\ deps \in Graphs
  /\ degree \in [Node -> Int]
  /\ queue \subseteq Node
  /\ visited \in Nat
  /\ verdict \in {"open", "acyclic", "cycle"}
  /\ remaining \subseteq Node

\* The algorithm accepts exactly the graphs without a cycle.
VerdictCorrect ==
  /\ verdict = "acyclic" => Acyclic(deps)
  /\ verdict = "cycle" => ~Acyclic(deps)

\* The nodes named by CycleDetected are stuck together: there is at least
\* one, and each waits for another of them.
RemainingStuck ==
  verdict = "cycle" =>
    remaining # {} /\ \A m \in remaining : deps[m] \cap remaining # {}

\* The nodes visited so far.
Visited == {n \in Node : degree[n] = 0} \ queue

\* The inductive invariant: degrees count the dependencies not yet visited,
\* and the visited nodes were visited in topological order.
Inv ==
  /\ TypeOK
  /\ \A n \in Node : degree[n] = Cardinality(deps[n] \ Visited)
  /\ \A n \in queue : degree[n] = 0
  /\ visited = Cardinality(Visited)
  /\ \A S \in SUBSET Visited : S # {} => \E m \in S : deps[m] \cap S = {}
  /\ VerdictCorrect /\ RemainingStuck
=============================================================================
