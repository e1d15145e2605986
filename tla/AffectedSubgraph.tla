-------------------------- MODULE AffectedSubgraph --------------------------
(***************************************************************************)
(* DagManager._compute_affected_subgraph and _build_subgraph_specs: the    *)
(* breadth-first search that decides which nodes restart_failed re-runs.   *)
(* The worklist is a set, since the order of queue.pop() does not matter.  *)
(***************************************************************************)
EXTENDS DagGraph

CONSTANTS
  Task, Specs,  \* the nodes, and the graphs that their specs may spell
  Aliased       \* nodes whose spec spells its dependencies "dependencies"

ASSUME TaskAssumption == IsFiniteSet(Task) /\ Task # {}
ASSUME SpecsAssumption == Specs \subseteq [Task -> SUBSET Task]
ASSUME AliasedAssumption == Aliased \subseteq Task

VARIABLES
  specs,     \* the dependencies in the persisted node specs
  failed,    \* the nodes whose persisted state is "error"
  affected,  \* the nodes found so far
  frontier,  \* found nodes whose children were not looked at yet
  subgraph   \* the specs of the restarted graph, <<>> until built

searchvars == <<specs, failed, affected, frontier, subgraph>>

\* build_graph reads a node's dependencies under either key, restart_failed
\* only those under "deps".
SpelledDeps == [n \in Task |-> IF n \in Aliased THEN {} ELSE specs[n]]

Children(n) == Successors(SpelledDeps, n)

SearchInit ==
  /\ specs \in Specs
  /\ failed \in SUBSET Task \ {{}}
  /\ affected = failed
  /\ frontier = failed
  /\ subgraph = <<>>

\* One iteration of the loop: the children of n not found before are found.
Expand(n) ==
  /\ n \in frontier
  /\ affected' = affected \cup Children(n)
  /\ frontier' = (frontier \ {n}) \cup (Children(n) \ affected)
  /\ UNCHANGED <<specs, failed, subgraph>>

\* The search is over and the specs of the affected nodes are built, with
\* the dependencies outside the subgraph dropped.
Build ==
  /\ frontier = {} /\ subgraph = <<>>
  /\ subgraph' = SubgraphDeps(SpelledDeps, affected)
  /\ UNCHANGED <<specs, failed, affected, frontier>>

SearchNext == (\E n \in Task : Expand(n)) \/ Build

SearchSpec == SearchInit /\ [][SearchNext]_searchvars
-----------------------------------------------------------------------------
(* dag_manager.py:286-336.  The search ends with exactly the failed nodes and
   everything that transitively depends on one of them; the graph built from
   them is accepted by DAGGraph and, when the original graph had no cycle, by
   the runner. *)
AffectedIsDescendants ==
  /\ frontier = {} => affected = Descendants(specs, failed)
  /\ subgraph # <<>> => /\ IsGraph(subgraph)
                        /\ Acyclic(specs) => Acyclic(subgraph)
=============================================================================
