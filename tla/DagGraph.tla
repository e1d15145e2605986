------------------------------ MODULE DagGraph ------------------------------
(***************************************************************************)
(* Operators on the dependency graph of a workflow (workflow/models.py).   *)
(*                                                                         *)
(* A graph is the function deps: deps[n] is the set of nodes n waits for   *)
(* (TaskNode.dependencies).  A dependency listed twice counts twice both   *)
(* in the in-degree and in the adjacency list of the code, so the set      *)
(* loses nothing.                                                          *)
(***************************************************************************)
EXTENDS Naturals, FiniteSets

\* Every dependency names a node of the graph: DAGGraph.__post_init__
\* rejects any other graph.
IsGraph(deps) == \A n \in DOMAIN deps : deps[n] \subseteq DOMAIN deps

\* The adjacency list built by _build_adjacency.
Successors(deps, n) == {m \in DOMAIN deps : n \in deps[m]}

Roots(deps) == {n \in DOMAIN deps : deps[n] = {}}

\* No cycle: every nonempty set of nodes has a member none of whose
\* dependencies is in the set.  This is the meaning of _assert_acyclic;
\* module CycleCheck models the algorithm and proves that they agree.
Acyclic(deps) ==
  \A S \in SUBSET DOMAIN deps :
    S # {} => \E m \in S : deps[m] \cap S = {}

\* The set S contains every node that depends on one of its members.
ClosedDownstream(deps, S) ==
  \A m \in DOMAIN deps : deps[m] \cap S # {} => m \in S

\* Descendants(deps, F): the least set that contains F and is closed
\* downstream, i.e. F and every node that transitively depends on F.
Descendants(deps, F) ==
  {n \in DOMAIN deps :
     \A S \in SUBSET DOMAIN deps :
       F \subseteq S /\ ClosedDownstream(deps, S) => n \in S}

\* The dependencies that _build_subgraph_specs keeps: those inside S.
SubgraphDeps(deps, S) == [n \in S |-> deps[n] \cap S]
=============================================================================
