------------------------------ MODULE PartsProofs ------------------------------
(***************************************************************************)
(* Proofs about parts that share no state: for any graph, any chat, any    *)
(* set of nodes, any conversation, any text, any query, any rows, any      *)
(* answers, any turns, any dataset.  One section for each part, in the     *)
(* order of MCParts, and in each an inductive invariant in named parts, a  *)
(* lemma for each of these, the theorem.                                   *)
(***************************************************************************)
EXTENDS CycleCheck, DagRestart, AgentChat, AgentNodes, PromptBudget, ChunkSpans, TemporalRoute,
        EpisodicScripts, Setup, Measurements, Benchmark,
        FiniteSetTheorems, SequenceTheorems, WellFoundedInduction, TLAPS

-----------------------------------------------------------------------------
(* The cycle check of a workflow.  The loop of _assert_acyclic accepts exactly
   the graphs without a cycle, for every finite set of nodes. *)

\* A graph assigns finitely many nodes to every node.
LEMMA GraphFacts ==
  ASSUME deps \in Graphs
  PROVE  /\ deps \in [Node -> SUBSET Node] /\ DOMAIN deps = Node
         /\ \A n \in Node : \A S : IsFiniteSet(deps[n] \ S)
<1>1. deps \in [Node -> SUBSET Node]
  BY GraphsAssumption
<1>2. ASSUME NEW n \in Node, NEW S PROVE IsFiniteSet(deps[n] \ S)
  <2>1. deps[n] \ S \in SUBSET Node
    BY <1>1
  <2>2. QED
    BY <2>1, NodeAssumption, FS_Subset
<1>3. QED
  BY <1>1, <1>2

\* The invariant holds before the loop.
LEMMA InitInv == Init => Inv
<1> SUFFICES ASSUME Init PROVE Inv
  OBVIOUS
<1>1. /\ deps \in Graphs /\ queue = {n \in Node : degree[n] = 0}
      /\ visited = 0 /\ verdict = "open" /\ remaining = {}
      /\ degree = [n \in Node |-> Cardinality(deps[n])]
  BY DEF Init
<1>2. Visited = {}
  BY <1>1 DEF Visited
<1>3. \A n \in Node : Cardinality(deps[n]) \in Nat
  <2> TAKE n \in Node
  <2>1. IsFiniteSet(deps[n])
    BY <1>1, GraphFacts, NodeAssumption, FS_Subset
  <2>2. QED
    BY <2>1, FS_CardinalityType
<1>4. TypeOK
  BY <1>1, <1>3 DEF TypeOK
<1>5. \A n \in Node : degree[n] = Cardinality(deps[n] \ Visited)
  <2> TAKE n \in Node
  <2>1. deps[n] \ Visited = deps[n]
    BY <1>2
  <2>2. QED
    BY <1>1, <2>1
<1>6. visited = Cardinality(Visited)
  BY <1>1, <1>2, FS_EmptySet
<1>7. QED
  BY <1>1, <1>2, <1>4, <1>5, <1>6 DEF Inv, VerdictCorrect, RemainingStuck

\* Visiting n adds n to the visited nodes, and only n.
LEMMA VisitAdds ==
  ASSUME Inv, NEW n \in Node, Visit(n)
  PROVE  /\ Visited' = Visited \cup {n}
         /\ n \notin Visited
         /\ deps[n] \subseteq Visited
         /\ \A m \in Node : degree'[m] = Cardinality(deps[m] \ (Visited \cup {n}))
<1>1. /\ n \in queue /\ degree[n] = 0 /\ n \notin Visited /\ deps \in Graphs
      /\ degree \in [Node -> Int] /\ DOMAIN deps = Node
      /\ queue \subseteq Node
  BY GraphFacts DEF Visit, Inv, TypeOK, Visited
<1>2. deps[n] \subseteq Visited
  <2>1. IsFiniteSet(deps[n] \ Visited) /\ Cardinality(deps[n] \ Visited) = 0
    BY <1>1, GraphFacts DEF Inv
  <2>2. deps[n] \ Visited = {}
    BY <2>1, FS_EmptySet
  <2>3. QED
    BY <2>2
<1>3. ASSUME NEW m \in Node
      PROVE  /\ degree'[m] = Cardinality(deps[m] \ (Visited \cup {n}))
             /\ degree[m] \in Nat
             /\ m \in Successors(deps, n) => degree[m] # 0
  <2> DEFINE missing == deps[m] \ Visited
  <2>1. IsFiniteSet(missing) /\ degree[m] = Cardinality(missing)
    BY <1>1, GraphFacts DEF Inv
  <2>2. degree'[m] = IF n \in missing THEN degree[m] - 1 ELSE degree[m]
    BY <1>1 DEF Visit, Successors
  <2>3. deps[m] \ (Visited \cup {n}) = missing \ {n}
    OBVIOUS
  <2>4. m \in Successors(deps, n) => n \in missing
    BY <1>1 DEF Successors
  <2> HIDE DEF missing
  <2>5. Cardinality(missing \ {n}) =
          IF n \in missing THEN Cardinality(missing) - 1 ELSE Cardinality(missing)
    BY <2>1, FS_RemoveElement
  <2>6. Cardinality(missing) \in Nat /\ (Cardinality(missing) = 0 <=> missing = {})
    BY <2>1, FS_CardinalityType, FS_EmptySet
  <2>7. QED
    BY <2>1, <2>2, <2>3, <2>4, <2>5, <2>6
<1>4. /\ queue' = (queue \ {n}) \cup {m \in Successors(deps, n) : degree'[m] = 0}
      /\ \A m \in Node :
           degree'[m] = IF m \in Successors(deps, n) THEN degree[m] - 1 ELSE degree[m]
  BY DEF Visit
<1>5. Successors(deps, n) \subseteq Node /\ n \notin Successors(deps, n)
  BY <1>1, <1>2 DEF Successors
<1>6. ASSUME NEW m \in Node PROVE m \in Visited' <=> m \in Visited \cup {n}
  <2>1. CASE m = n
    BY <1>1, <1>4, <1>5, <2>1 DEF Visited
  <2>2. CASE m # n /\ m \in Successors(deps, n)
    BY <1>3, <1>4, <2>2 DEF Visited
  <2>3. CASE m # n /\ m \notin Successors(deps, n)
    BY <1>4, <2>3 DEF Visited
  <2>4. QED
    BY <2>1, <2>2, <2>3
<1>7. QED
  BY <1>1, <1>2, <1>3, <1>6 DEF Visited

\* Taking a node off the queue keeps the invariant.
LEMMA VisitInv == ASSUME Inv, NEW n \in Node, Visit(n) PROVE Inv'
<1>1. /\ UNCHANGED <<deps, verdict, remaining>> /\ verdict = "open"
      /\ visited' = visited + 1 /\ visited = Cardinality(Visited)
      /\ queue' = (queue \ {n}) \cup {m \in Successors(deps, n) : degree'[m] = 0}
      /\ degree' \in [Node -> Int] /\ queue' \subseteq Node /\ visited' \in Nat
      /\ DOMAIN deps = Node
  BY GraphFacts DEF Inv, TypeOK, Visit, Successors
<1>2. TypeOK'
  BY <1>1 DEF Inv, TypeOK
<1>3. \A m \in Node : degree'[m] = Cardinality(deps'[m] \ Visited')
  BY <1>1, VisitAdds
<1>4. \A m \in queue' : degree'[m] = 0
  <2> TAKE m \in queue'
  <2>1. CASE m \in queue /\ m \notin Successors(deps, n)
    BY <1>1, <2>1 DEF Inv, TypeOK, Visit
  <2>2. CASE m \in queue /\ m \in Successors(deps, n)
    <3>1. n \in deps[m] \ Visited /\ m \in Node
      BY <1>1, <2>2, VisitAdds DEF Successors, Inv, TypeOK
    <3>2. IsFiniteSet(deps[m] \ Visited) /\ Cardinality(deps[m] \ Visited) = 0
      BY <2>2, <3>1, GraphFacts DEF Inv, TypeOK
    <3>3. QED
      BY <3>1, <3>2, FS_EmptySet
  <2>3. QED
    BY <1>1, <2>1, <2>2
<1>5. visited' = Cardinality(Visited')
  <2>1. IsFiniteSet(Visited)
    BY NodeAssumption, FS_Subset DEF Visited
  <2>2. QED
    BY <1>1, <2>1, VisitAdds, FS_AddElement
<1>6. ASSUME NEW S \in SUBSET Visited', S # {} PROVE \E m \in S : deps'[m] \cap S = {}
  <2> DEFINE T == S \ {n}
  <2>1. T \subseteq Visited /\ S \subseteq T \cup {n}
    BY <1>6, VisitAdds
  <2>2. CASE T = {}
    <3>1. S = {n} /\ deps[n] \subseteq Visited /\ n \notin Visited
      BY <1>6, <2>1, <2>2, VisitAdds
    <3>2. QED
      BY <1>1, <3>1
  <2>3. CASE T # {}
    <3>1. PICK m \in T : deps[m] \cap T = {}
      BY <2>1, <2>3 DEF Inv
    <3>2. m \in Node /\ degree[m] = 0 /\ deps \in Graphs
      BY <2>1, <3>1 DEF Visited, Inv, TypeOK
    <3>3. IsFiniteSet(deps[m] \ Visited) /\ Cardinality(deps[m] \ Visited) = 0
      BY <3>2, GraphFacts DEF Inv
    <3>4. deps[m] \subseteq Visited
      BY <3>3, FS_EmptySet
    <3>5. n \notin deps[m]
      BY <3>4, VisitAdds
    <3>6. QED
      BY <1>1, <2>1, <3>1, <3>5
  <2>4. QED
    BY <2>2, <2>3
<1>7. VerdictCorrect' /\ RemainingStuck'
  BY <1>1 DEF VerdictCorrect, RemainingStuck
<1>8. QED
  BY <1>2, <1>3, <1>4, <1>5, <1>6, <1>7 DEF Inv

\* The verdict after the loop is the one the invariant speaks of.
LEMMA FinishInv == Inv /\ Finish => Inv'
<1> SUFFICES ASSUME Inv, Finish PROVE Inv'
  OBVIOUS
<1>1. /\ UNCHANGED <<deps, degree, queue, visited>> /\ queue = {}
      /\ Visited = {n \in Node : degree[n] = 0} /\ Visited' = Visited
      /\ deps \in [Node -> SUBSET Node] /\ DOMAIN deps = Node
  BY GraphFacts DEF Finish, Visited, Inv, TypeOK
<1>2. CASE visited = Cardinality(Node)
  <2>1. Visited = Node
    BY <1>1, <1>2, NodeAssumption, FS_Subset DEF Inv
  <2>2. Acyclic(deps)
    BY <1>1, <2>1 DEF Acyclic, Inv
  <2>3. verdict' = "acyclic" /\ UNCHANGED remaining
    BY <1>2 DEF Finish
  <2>4. QED
    BY <1>1, <2>2, <2>3 DEF Inv, TypeOK, VerdictCorrect, RemainingStuck
<1>3. CASE visited # Cardinality(Node)
  <2>1. verdict' = "cycle" /\ remaining' = {n \in Node : degree[n] # 0}
    BY <1>3 DEF Finish
  <2>2. remaining' = Node \ Visited /\ Visited # Node
    BY <1>1, <1>3, <2>1 DEF Inv
  <2>3. \A m \in remaining' : deps[m] \cap remaining' # {}
    <3> TAKE m \in remaining'
    <3>1. m \in Node /\ Cardinality(deps[m] \ Visited) # 0
      BY <2>1 DEF Inv
    <3>2. deps[m] \ Visited # {}
      BY <3>1, FS_EmptySet
    <3>3. QED
      BY <1>1, <2>2, <3>1, <3>2
  <2>4. remaining' # {} /\ remaining' \subseteq Node
    BY <1>1, <2>2 DEF Inv, TypeOK
  <2>5. ~Acyclic(deps)
    BY <1>1, <2>3, <2>4 DEF Acyclic
  <2>6. QED
    BY <1>1, <2>1, <2>3, <2>4, <2>5 DEF Inv, TypeOK, VerdictCorrect, RemainingStuck
<1>4. QED
  BY <1>2, <1>3

\* The verdict of the loop is right for every graph: it says "acyclic" only
\* of a graph without a cycle and "cycle" only of a graph with one, and the
\* nodes it reports wait for each other.
THEOREM CycleCheckCorrect == Spec => [](VerdictCorrect /\ RemainingStuck)
<1>1. Inv /\ [Next]_vars => Inv'
  <2> SUFFICES ASSUME Inv, [Next]_vars PROVE Inv'
    OBVIOUS
  <2>1. CASE UNCHANGED vars
    BY <2>1 DEF vars, Inv, TypeOK, Visited, VerdictCorrect, RemainingStuck
  <2>2. QED
    BY <2>1, VisitInv, FinishInv DEF Next, Finished
<1>2. Inv => VerdictCorrect /\ RemainingStuck
  BY DEF Inv
<1>3. QED
  BY InitInv, <1>1, <1>2, PTL DEF Spec

-----------------------------------------------------------------------------
(* The restart of a workflow.  The search for the failed tasks and their
   descendants, and the two runs of one workflow around a restart. *)

(* The walk has taken the failed tasks and only descendants of them; what left
   the frontier has left its children behind. *)
WalkInv ==
  /\ specs \in [Task -> SUBSET Task] /\ affected \subseteq Task
  /\ failed \subseteq affected /\ frontier \subseteq affected
  /\ \A n \in affected \ frontier : Children(n) \subseteq affected
  /\ affected \subseteq Descendants(SpelledDeps, failed)
  /\ subgraph # <<>> => frontier = {} /\ subgraph = SubgraphDeps(SpelledDeps, affected)

LEMMA SpelledIsGraph ==
  ASSUME specs \in [Task -> SUBSET Task]
  PROVE  SpelledDeps \in [Task -> SUBSET Task]
  BY DEF SpelledDeps

(* Descendants are closed downstream and the smallest such set. *)
LEMMA ClosureHolds ==
  ASSUME NEW graph, NEW F, NEW n \in Descendants(graph, F), NEW m \in DOMAIN graph, n \in graph[m]
  PROVE  m \in Descendants(graph, F)
<1>. SUFFICES ASSUME NEW S \in SUBSET DOMAIN graph, F \subseteq S, ClosedDownstream(graph, S) PROVE m \in S
  BY DEF Descendants
<1>1. n \in S
  BY DEF Descendants
<1>. QED
  BY <1>1 DEF ClosedDownstream

LEMMA LeastClosed ==
  ASSUME NEW graph, NEW F, NEW S \in SUBSET DOMAIN graph, F \subseteq S, ClosedDownstream(graph, S)
  PROVE  Descendants(graph, F) \subseteq S
  BY DEF Descendants

LEMMA SearchBegins == SearchInit => WalkInv
<1>. SUFFICES ASSUME SearchInit PROVE WalkInv
  OBVIOUS
<1>1. specs \in [Task -> SUBSET Task]
  BY SpecsAssumption DEF SearchInit
<1>2. failed \subseteq Descendants(SpelledDeps, failed)
  BY <1>1, SpelledIsGraph DEF SearchInit, Descendants
<1>. QED
  BY <1>1, <1>2 DEF SearchInit, WalkInv

LEMMA SearchStep == WalkInv /\ [SearchNext]_searchvars => WalkInv'
<1>. SUFFICES ASSUME WalkInv, [SearchNext]_searchvars PROVE WalkInv'
  OBVIOUS
<1>. USE DEF WalkInv
<1>1. SpelledDeps \in [Task -> SUBSET Task]
  BY SpelledIsGraph
<1>2. ASSUME UNCHANGED <<specs, failed>>
      PROVE  SpelledDeps' = SpelledDeps /\ Descendants(SpelledDeps, failed)' = Descendants(SpelledDeps, failed)
             /\ (\A n : Children(n)' = Children(n))
  BY <1>2 DEF SpelledDeps, Children, Descendants, ClosedDownstream, Successors
<1>3. \A n : Children(n) \subseteq Task
  BY <1>1 DEF Children, Successors
<1>4. ASSUME NEW n \in Task, Expand(n) PROVE WalkInv'
  <2>1. SpelledDeps' = SpelledDeps /\ Descendants(SpelledDeps, failed)' = Descendants(SpelledDeps, failed)
        /\ (\A k : Children(k)' = Children(k))
    BY <1>2, <1>4 DEF Expand
  <2>2. Children(n) \subseteq Descendants(SpelledDeps, failed)
    BY <1>1, <1>4, ClosureHolds DEF Expand, Children, Successors
  <2>. QED
    BY <1>3, <1>4, <2>1, <2>2 DEF Expand
<1>5. CASE Build
  <2>1. SpelledDeps' = SpelledDeps /\ Descendants(SpelledDeps, failed)' = Descendants(SpelledDeps, failed)
        /\ (\A k : Children(k)' = Children(k))
    BY <1>2, <1>5 DEF Build
  <2>. QED
    BY <1>5, <2>1 DEF Build
<1>6. CASE UNCHANGED searchvars
  <2>1. SpelledDeps' = SpelledDeps /\ Descendants(SpelledDeps, failed)' = Descendants(SpelledDeps, failed)
        /\ (\A k : Children(k)' = Children(k))
    BY <1>2, <1>6 DEF searchvars
  <2>. QED
    BY <1>6, <2>1 DEF searchvars
<1>. QED
  BY <1>4, <1>5, <1>6 DEF SearchNext

(* Where ids are spelled as declared, the end of the walk is the closure, and
   a part of an acyclic graph is acyclic. *)
LEMMA SearchInvMeans == Aliased = {} /\ WalkInv => AffectedIsDescendants
<1>. SUFFICES ASSUME Aliased = {}, WalkInv PROVE AffectedIsDescendants
  OBVIOUS
<1>. USE DEF WalkInv
<1>1. SpelledDeps = specs
  BY DEF SpelledDeps
<1>2. ASSUME frontier = {} PROVE affected = Descendants(specs, failed)
  <2>1. ClosedDownstream(specs, affected)
    BY <1>1, <1>2 DEF ClosedDownstream, Children, Successors
  <2>2. Descendants(specs, failed) \subseteq affected
    BY <2>1, LeastClosed
  <2>. QED
    BY <1>1, <2>2
<1>3. ASSUME subgraph # <<>> PROVE IsGraph(subgraph) /\ (Acyclic(specs) => Acyclic(subgraph))
  <2>1. DOMAIN subgraph = affected /\ \A n \in affected : subgraph[n] = specs[n] \cap affected
    BY <1>1, <1>3 DEF SubgraphDeps
  <2>2. ASSUME Acyclic(specs), NEW S \in SUBSET affected, S # {} PROVE \E m \in S : subgraph[m] \cap S = {}
    BY <2>1, <2>2 DEF Acyclic
  <2>. QED
    BY <2>1, <2>2 DEF IsGraph, Acyclic
<1>. QED
  BY <1>2, <1>3 DEF AffectedIsDescendants

TaskState == {"waiting", "active", "done", "void", "failed", "cancelled", "outside"}
EndedByItself == {"aborted", "saving", "failed"}
FirstRunStates == {"first", "stopped", "crashed"} \cup EndedByItself

(* In the first run a task begins only when its dependencies are settled, so
   what failed and its descendants are never settled nor at work, and a failed
   task stays one, however late the status that shows it is written or read. *)
RestartTypes ==
  /\ spec \in [Task -> SUBSET Task] /\ node \in [Task -> TaskState] /\ DOMAIN begun2 = Task
  /\ run \in FirstRunStates \cup {"second", "over"} /\ fresh \in BOOLEAN
  /\ nodes2 \subseteq Task /\ kept \subseteq Task

FirstRunInv ==
  run \in FirstRunStates =>
    /\ nodes2 = {} /\ begun2 = [n \in Task |-> NotBegun]
    /\ \A n \in Task : node[n] # "waiting" => spec[n] \subseteq Settled
    /\ writes \subseteq SUBSET Failed /\ erring \subseteq Failed /\ told \subseteq Failed
    /\ run \in EndedByItself \/ fresh => \A n \in Task : node[n] # "active"
    /\ run = "first" => ~fresh
    /\ fresh => kept = Done

SecondRunInv ==
  /\ run = "second" => \A n \in Task : n \notin nodes2 => node[n] = "outside"
  /\ RestartRepeatsNothing

RestartInv == RestartTypes /\ FirstRunInv /\ SecondRunInv

LEMMA RestartBegins == RestartInit => RestartInv
  BY SpecsAssumption
  DEF RestartInit, RestartInv, RestartTypes, FirstRunInv, SecondRunInv, RestartRepeatsNothing, TaskState,
      FirstRunStates, EndedByItself, Settled, Failed

(* The tasks that are waiting or failed contain the failed ones and are closed
   downstream, hence contain every task a restart runs. *)
LEMMA RestartsTheUnsettled ==
  ASSUME RestartTypes, FirstRunInv, run \in FirstRunStates
  PROVE  Affected \subseteq {n \in Task : node[n] \in {"waiting", "failed"}}
<1> DEFINE Open == {n \in Task : node[n] \in {"waiting", "failed"}}
<1>1. DOMAIN spec = Task /\ told \subseteq Open
  BY DEF RestartTypes, FirstRunInv, Failed
<1>2. \A m \in Task : spec[m] \cap Open # {} => m \in Open
  <2>1. \A m \in Task : node[m] # "waiting" => spec[m] \subseteq Settled
    BY DEF FirstRunInv
  <2>2. Settled \cap Open = {}
    BY DEF Settled
  <2>. QED
    BY <2>1, <2>2
<1>3. ClosedDownstream(spec, Open)
  BY <1>1, <1>2 DEF ClosedDownstream
<1>. QED
  BY <1>1, <1>3, LeastClosed DEF Affected

\* Tasks that settle or fail stay so while the first run goes on.
LEMMA FirstRunGoesOn ==
  ASSUME RestartTypes, FirstRunInv, run \in FirstRunStates, run' \in FirstRunStates, RestartTypes',
         UNCHANGED <<spec, nodes2, begun2>>,
         Settled \subseteq Settled', Failed \subseteq Failed',
         \A n \in Task : node'[n] # "waiting" => spec[n] \subseteq Settled',
         writes' \subseteq SUBSET Failed', erring' \subseteq Failed', told' \subseteq Failed',
         run' \in EndedByItself \/ fresh' => \A n \in Task : node'[n] # "active",
         run' = "first" => ~fresh',
         fresh' => kept' = Done'
  PROVE  FirstRunInv' /\ SecondRunInv'
  BY DEF FirstRunInv, SecondRunInv, RestartRepeatsNothing, FirstRunStates, EndedByItself

LEMMA RestartNodeStep ==
  ASSUME RestartInv, NEW n \in Task, BeginNode(n) \/ EndNode(n) \/ Abort(n)
  PROVE  RestartInv'
<1>. USE DEF RestartInv
<1>1. CASE run \in {"first", "stopped"}
  <2>1. /\ run' \in FirstRunStates /\ run \in FirstRunStates /\ UNCHANGED <<spec, nodes2, begun2, told>>
        /\ node' \in [Task -> TaskState]
    BY <1>1 DEF BeginNode, EndNode, Abort, restarted, RestartTypes, TaskState, FirstRunStates, EndedByItself
  <2>2. Settled \subseteq Settled' /\ Failed \subseteq Failed'
    BY <1>1 DEF BeginNode, EndNode, Abort, Settled, Failed, RestartTypes
  <2>3. \A m \in Task : node'[m] # "waiting" => spec[m] \subseteq Settled'
    <3>1. \A m \in Task : node'[m] # "waiting" => spec[m] \subseteq Settled
      BY <1>1 DEF BeginNode, EndNode, Abort, Waits, RestartTypes, FirstRunInv, FirstRunStates
    <3>. QED
      BY <2>2, <3>1
  <2>4. writes' \subseteq SUBSET Failed' /\ erring' \subseteq Failed'
    <3>1. CASE Abort(n)
      BY <1>1, <2>2, <3>1 DEF Abort, FirstRunInv, FirstRunStates, Failed, RestartTypes
    <3>2. CASE BeginNode(n) \/ EndNode(n)
      <4>1. writes' = writes \cup {Failed'} /\ erring' \in writes'
        BY <1>1, <3>2 DEF BeginNode, EndNode, Notifies
      <4>. QED
        BY <2>1, <2>2, <4>1 DEF FirstRunInv
    <3>. QED
      BY <3>1, <3>2
  <2>5. told' \subseteq Failed'
    BY <2>1, <2>2 DEF FirstRunInv
  <2>6. UNCHANGED <<kept, fresh>> /\ ~fresh
    <3>1. UNCHANGED <<kept, fresh>>
      BY <1>1 DEF BeginNode, EndNode, Abort, Notifies
    <3>2. run = "first" => ~fresh
      BY <2>1 DEF FirstRunInv
    <3>3. run = "stopped" => node[n] = "active"
      BY DEF BeginNode, EndNode, Abort
    <3>. QED
      BY <1>1, <2>1, <3>1, <3>2, <3>3 DEF FirstRunInv
  <2>7. run' \in EndedByItself => \A m \in Task : node'[m] # "active"
    BY <1>1 DEF BeginNode, EndNode, Abort, EndedByItself
  <2>8. RestartTypes'
    BY <2>1, <2>6 DEF RestartTypes
  <2>. QED
    BY <2>1, <2>2, <2>3, <2>4, <2>5, <2>6, <2>7, <2>8, FirstRunGoesOn
<1>2. CASE run \notin {"first", "stopped"}
  <2>1. run = "second" /\ run' \in {"second", "over"} /\ UNCHANGED <<spec, kept, fresh, restarted>>
    BY <1>2 DEF BeginNode, EndNode, Abort, Notifies, saved
  <2>2. node' \in [Task -> TaskState] /\ DOMAIN begun2' = Task
    BY DEF BeginNode, EndNode, Abort, RestartTypes, TaskState
  <2>3. RestartTypes' /\ FirstRunInv'
    BY <2>1, <2>2 DEF RestartTypes, FirstRunInv, FirstRunStates, EndedByItself, restarted
  <2>4. \A m \in Task : m \notin nodes2 => node'[m] = node[m]
    BY <2>1 DEF BeginNode, EndNode, Abort, Waits, SubgraphDeps, RestartTypes, SecondRunInv
  <2>5. \A m \in nodes2 : begun2'[m] # NotBegun => spec[m] \cap nodes2 \subseteq begun2'[m]
    <3>1. CASE BeginNode(n)
      <4>1. n \in nodes2 /\ spec[n] \cap nodes2 \subseteq Settled
        BY <2>1, <3>1 DEF BeginNode, Waits, SubgraphDeps, SecondRunInv
      <4>2. begun2' = [begun2 EXCEPT ![n] = seeded \cup (Settled \cap nodes2)]
        BY <2>1, <3>1 DEF BeginNode
      <4>. QED
        BY <4>1, <4>2 DEF SecondRunInv, RestartRepeatsNothing, RestartTypes
    <3>2. CASE EndNode(n) \/ Abort(n)
      BY <3>2 DEF EndNode, Abort, SecondRunInv, RestartRepeatsNothing
    <3>. QED
      BY <3>1, <3>2
  <2>. QED
    BY <2>1, <2>3, <2>4, <2>5 DEF SecondRunInv, RestartRepeatsNothing, restarted
<1>. QED
  BY <1>1, <1>2

LEMMA RestartStep == RestartInv /\ [RestartNext]_restartvars => RestartInv'
<1>. SUFFICES ASSUME RestartInv, [RestartNext]_restartvars PROVE RestartInv'
  OBVIOUS
<1>. USE DEF RestartInv
<1>1. CASE UNCHANGED restartvars
  BY <1>1
  DEF restartvars, saved, restarted, RestartTypes, FirstRunInv, SecondRunInv, RestartRepeatsNothing, Settled, Failed, Done
<1>2. ASSUME NEW n \in Task, BeginNode(n) \/ EndNode(n) \/ Abort(n) PROVE RestartInv'
  BY <1>2, RestartNodeStep
<1>3. CASE SaveStatus \/ SaveResult \/ CrashRun \/ RestartReads
  <2>1. /\ run' \in FirstRunStates /\ run \in FirstRunStates /\ UNCHANGED <<spec, node, nodes2, begun2, writes>>
        /\ told' \in {told, erring, {}} /\ erring' \in writes \cup {erring, {}}
    BY <1>3 DEF SaveStatus, SaveResult, CrashRun, RestartReads, saved, restarted, RestartTypes, FirstRunStates, EndedByItself
  <2>2. Settled' = Settled /\ Failed' = Failed /\ Done' = Done
    BY <2>1 DEF Settled, Failed, Done
  <2>3. \/ UNCHANGED <<kept, fresh>>
        \/ run = "saving" /\ run' = "failed" /\ kept' = Done /\ fresh' = TRUE
    BY <1>3 DEF SaveStatus, SaveResult, CrashRun, RestartReads, WritesResult, saved
  <2>4. RestartTypes'
    BY <2>1, <2>3 DEF RestartTypes, Done
  <2>5. run' = "first" => run = "first" /\ UNCHANGED fresh
    BY <1>3, <2>3 DEF SaveStatus, SaveResult, CrashRun, RestartReads, saved
  <2>6. run' \in EndedByItself => run \in EndedByItself
    BY <1>3 DEF SaveStatus, SaveResult, CrashRun, RestartReads, EndedByItself
  <2>7. run' \in EndedByItself \/ fresh' => \A n \in Task : node'[n] # "active"
    BY <2>1, <2>3, <2>6 DEF FirstRunInv, EndedByItself
  <2>8. (run' = "first" => ~fresh') /\ (fresh' => kept' = Done')
    BY <2>1, <2>2, <2>3, <2>5 DEF FirstRunInv
  <2>9. writes' \subseteq SUBSET Failed' /\ erring' \subseteq Failed' /\ told' \subseteq Failed'
    BY <2>1, <2>2 DEF FirstRunInv
  <2>10. \A n \in Task : node'[n] # "waiting" => spec[n] \subseteq Settled'
    BY <2>1, <2>2 DEF FirstRunInv
  <2>. QED
    BY <2>1, <2>2, <2>4, <2>7, <2>8, <2>9, <2>10, FirstRunGoesOn
<1>4. CASE StopRun
  <2>1. /\ run' \in FirstRunStates /\ run \in FirstRunStates /\ run' = "stopped"
        /\ UNCHANGED <<spec, writes, nodes2, begun2, told>> /\ erring' \in writes \cup {erring, {}}
    BY <1>4 DEF StopRun, restarted, FirstRunStates, EndedByItself
  <2>2. PICK born \in SUBSET {n \in Task : run = "first" /\ node[n] = "waiting" /\ Waits(n) \subseteq Settled} :
          node' = [n \in Task |-> IF n \in born THEN "active" ELSE node[n]]
    BY <1>4 DEF StopRun
  <2>3. Settled' = Settled /\ Failed' = Failed /\ Done' = Done
    BY <2>2 DEF Settled, Failed, Done
  <2>4. \A n \in Task : node'[n] # "waiting" => spec[n] \subseteq Settled'
    BY <2>1, <2>2, <2>3 DEF FirstRunInv, Waits
  <2>5. \/ UNCHANGED <<kept, fresh>>
        \/ run = "saving" /\ kept' = Done /\ fresh' = TRUE
    BY <1>4 DEF StopRun, WritesResult
  <2>6. node' \in [Task -> TaskState]
    BY <2>2 DEF RestartTypes, TaskState
  <2>7. RestartTypes'
    BY <2>1, <2>5, <2>6 DEF RestartTypes, Done
  <2>8. fresh' => run # "first" /\ \A n \in Task : node[n] # "active"
    BY <2>1, <2>5 DEF FirstRunInv, EndedByItself
  <2>9. fresh' => \A n \in Task : node'[n] # "active"
    BY <2>2, <2>8
  <2>10. fresh' => kept' = Done'
    BY <2>1, <2>3, <2>5 DEF FirstRunInv
  <2>11. writes' \subseteq SUBSET Failed' /\ erring' \subseteq Failed' /\ told' \subseteq Failed'
    BY <2>1, <2>3 DEF FirstRunInv
  <2>. QED
    BY <2>1, <2>3, <2>4, <2>7, <2>9, <2>10, <2>11, FirstRunGoesOn DEF EndedByItself
<1>5. CASE Completed
  BY <1>5
  DEF Completed, saved, restarted, RestartTypes, FirstRunInv, SecondRunInv, RestartRepeatsNothing, FirstRunStates, EndedByItself
<1>6. CASE Restart
  <2>1. run \in FirstRunStates
    BY <1>6 DEF Restart, RestartTypes
  <2>2. Affected \subseteq {n \in Task : node[n] \in {"waiting", "failed"}}
    BY <2>1, RestartsTheUnsettled
  <2>3. /\ run' = "second" /\ nodes2' = Affected /\ seeded' = kept \ Affected /\ left1' = node
        /\ node' = [n \in Task |-> IF n \in Affected THEN "waiting" ELSE "outside"]
        /\ UNCHANGED <<spec, kept, fresh, begun2>> /\ begun2 = [n \in Task |-> NotBegun]
    BY <1>6, <2>1 DEF Restart, FirstRunInv, saved
  <2>4. fresh => kept \ Affected = {n \in Task : node[n] = "done"}
    BY <2>1, <2>2 DEF FirstRunInv, Done
  <2>5. RestartTypes' /\ FirstRunInv'
    BY <2>2, <2>3 DEF RestartTypes, FirstRunInv, FirstRunStates, EndedByItself, TaskState
  <2>6. \A n \in Affected : begun2[n] = NotBegun
    BY <2>2, <2>3
  <2>. QED
    BY <2>2, <2>3, <2>4, <2>5, <2>6 DEF SecondRunInv, RestartRepeatsNothing
<1>. QED
  BY <1>1, <1>2, <1>3, <1>4, <1>5, <1>6 DEF RestartNext

(* The restart of a failed workflow takes up the failed tasks and all that
   depend on them, on a graph without cycles, repeats no task that is over with
   an outcome or still at work, wherever the first run stands, and begins none
   before those it waits for (_compute_affected_subgraph, restart_failed), where
   every id is declared as it is referred to. *)
THEOREM RestartIsSound == Aliased = {} => (SearchSpec /\ RestartSpec => []RestartSound)
<1>. SUFFICES ASSUME Aliased = {} PROVE SearchSpec /\ RestartSpec => []RestartSound
  OBVIOUS
<1>1. WalkInv /\ RestartInv => RestartSound
  BY SearchInvMeans DEF RestartInv, SecondRunInv, RestartSound
<1>. QED
  BY SearchBegins, SearchStep, RestartBegins, RestartStep, <1>1, PTL DEF SearchSpec, RestartSpec

-----------------------------------------------------------------------------
(* An agent's chat with the model. *)

CallIds == {"call", "dsml"} \X Nat \X Nat
ChatMessage ==
  [from : {"system"}] \cup [from : {"user"}, shows : SUBSET {"dep"}]
    \cup [from : {"model"}, calls : Seq(CallIds)] \cup [from : {"tool"}, id : CallIds, says : {"result", "error"}]

\* ChatMessage i of the history h is a reply with calls, and j of these have their answers behind it.
IsReply(h, i) == h[i].from = "model"
(* Message i of the history h is a reply with calls, and the answers to the
   first j of these stand right behind it. *)
AnswersUpTo(h, i, j) ==
  /\ i + j <= Len(h)
  /\ \A k \in 1..j : h[i + k].from = "tool" /\ h[i + k].id = h[i].calls[k]
Closed(h, i) == IsReply(h, i) => AnswersUpTo(h, i, Len(h[i].calls))
AnswersReply(h, i) ==
  h[i].from = "tool" =>
    \E j \in 1..i - 1 : IsReply(h, j) /\ \E k \in 1..Len(h[j].calls) : h[i].id = h[j].calls[k]

(* Rounds, requests and the shape of the end. *)
CountsInv ==
  /\ chat \in {"new", "asking", "dispatching", "returned", "raised"}
  /\ job.rounds \in 0..MaxRounds /\ job.given \in [{"dep"} -> Values]
  /\ turns \in 0..job.rounds + 1 /\ asked \in Nat
  /\ chat \in {"new", "asking"} => asked = turns
  /\ chat = "dispatching" => asked = turns + 1 /\ turns <= job.rounds
  /\ asked <= turns + 1
  /\ answer \in {"-", "text", "markup", "torn"}
  /\ answer = "markup" => chat = "returned" /\ (Tools = {} \/ asked > job.rounds)

(* While calls are dispatched one reply is open: its last calls are the ones
   that wait, the others have their answers; every other reply is closed. *)
WaitingInv ==
  /\ waiting \in Seq(CallIds) /\ Len(waiting) <= MaxCalls
  /\ chat = "dispatching" =>
       \E p \in 1..Len(history) :
         /\ IsReply(history, p) /\ \A i \in 1..Len(history) : i # p => Closed(history, i)
         /\ Len(waiting) \in Nat \ {0} /\ Len(waiting) + (Len(history) - p) = Len(history[p].calls)
         /\ AnswersUpTo(history, p, Len(history) - p)
         /\ \A k \in 1..Len(waiting) : waiting[k] = history[p].calls[(Len(history) - p) + k]
  /\ chat = "asking" => \A i \in 1..Len(history) : Closed(history, i)

(* Every answer is behind a reply that made the call, and the second message
   shows the results of the dependencies. *)
HistoryInv ==
  /\ history \in Seq(ChatMessage)
  /\ \A i \in 1..Len(history) : AnswersReply(history, i)
  /\ chat \in {"asking", "dispatching"} =>
       Len(history) >= 2 /\ history[2] = [from |-> "user", shows |-> DepContext(job.given)]

ChatInv == CountsInv /\ WaitingInv /\ HistoryInv

LEMMA ChatBegins == ChatBounds /\ ChatInit => ChatInv
<1>. SUFFICES ASSUME ChatBounds, ChatInit PROVE ChatInv
  OBVIOUS
<1>1. CountsInv
  BY DEF ChatInit, CountsInv, ChatBounds
<1>2. WaitingInv /\ HistoryInv
  BY DEF ChatInit, WaitingInv, HistoryInv, ChatBounds
<1>. QED
  BY <1>1, <1>2 DEF ChatInv

LEMMA CountsStep == ChatBounds /\ ChatInv /\ [ChatNext]_chatvars => CountsInv'
<1>. SUFFICES ASSUME ChatBounds, ChatInv, [ChatNext]_chatvars PROVE CountsInv'
  OBVIOUS
<1>. USE DEF ChatBounds, ChatInv, CountsInv
<1>1. Tools' = Tools \/ job' # job
  BY DEF Tools
<1>2. CASE Execute
  BY <1>1, <1>2 DEF Execute
<1>3. CASE Ask
  <2>1. CASE \E how \in {"call", "dsml"}, k \in 1..MaxCalls : Enter(how, k)
    BY <1>1, <1>3, <2>1 DEF Ask, Enter
  <2>2. CASE ~UseTools /\ Return("markup")
    BY <1>1, <1>3, <2>2 DEF Ask, Return, UseTools
  <2>3. CASE Return("text") \/ Return("torn")
    BY <1>1, <1>3, <2>3 DEF Ask, Return
  <2>. QED
    BY <1>3, <2>1, <2>2, <2>3 DEF Ask, ReplyCalls, ReplyMarkup, ReplyText
<1>4. CASE Answer
  BY <1>1, <1>4 DEF Answer
<1>5. CASE FinalAsk
  BY <1>1, <1>5 DEF FinalAsk, Return
<1>6. CASE AskFails \/ DispatchRaises
  BY <1>1, <1>6 DEF AskFails, DispatchRaises
<1>7. CASE UNCHANGED chatvars
  BY <1>1, <1>7 DEF chatvars
<1>. QED
  BY <1>2, <1>3, <1>4, <1>5, <1>6, <1>7 DEF ChatNext

(* What one more message leaves of what the history says. *)
LEMMA OneMoreMessage ==
  ASSUME NEW h \in Seq(ChatMessage), NEW m \in ChatMessage
  PROVE  /\ Append(h, m) \in Seq(ChatMessage) /\ Len(Append(h, m)) = Len(h) + 1 /\ Append(h, m)[Len(h) + 1] = m
         /\ \A i \in 1..Len(h) : Append(h, m)[i] = h[i] /\ h[i] \in ChatMessage
<1>1. \A i \in 1..Len(h) : h[i] \in ChatMessage
  BY ElementOfSeq
<1>. QED
  BY <1>1

LEMMA CallsOfReply ==
  ASSUME NEW h \in Seq(ChatMessage), NEW i \in 1..Len(h), IsReply(h, i)
  PROVE  h[i].calls \in Seq(CallIds) /\ Len(h[i].calls) \in Nat /\ \A k \in 1..Len(h[i].calls) : h[i].calls[k] \in CallIds
<1>1. h[i] \in ChatMessage
  BY ElementOfSeq
<1>2. h[i].calls \in Seq(CallIds)
  BY <1>1 DEF ChatMessage, IsReply
<1>. QED
  BY <1>2, ElementOfSeq

(* One more message disturbs nothing that holds of those before it. *)
LEMMA HistoryGrows ==
  ASSUME NEW h \in Seq(ChatMessage), NEW m \in ChatMessage, NEW g, g = Append(h, m), NEW i \in 1..Len(h)
  PROVE  /\ IsReply(g, i) <=> IsReply(h, i)
         /\ Closed(h, i) => Closed(g, i)
         /\ AnswersReply(h, i) => AnswersReply(g, i)
         /\ \A j \in Nat : AnswersUpTo(h, i, j) => AnswersUpTo(g, i, j)
<1>. DEFINE n == Len(h)
<1>1. n \in Nat /\ i \in 1..n
  OBVIOUS
<1>2. Len(g) = n + 1 /\ \A k \in 1..n : g[k] = h[k]
  BY OneMoreMessage
<1>. HIDE DEF n
<1>3. \A j \in Nat : AnswersUpTo(h, i, j) => AnswersUpTo(g, i, j)
  <2>. SUFFICES ASSUME NEW j \in Nat, AnswersUpTo(h, i, j) PROVE AnswersUpTo(g, i, j)
    OBVIOUS
  <2>1. i + j <= n /\ \A k \in 1..j : h[i + k].from = "tool" /\ h[i + k].id = h[i].calls[k]
    BY DEF AnswersUpTo, n
  <2>2. \A k \in 1..j : i + k \in 1..n
    BY <1>1, <2>1
  <2>3. i + j <= Len(g)
    BY <1>1, <1>2, <2>1
  <2>4. \A k \in 1..j : g[i + k] = h[i + k]
    BY <1>2, <2>2
  <2>5. g[i] = h[i]
    BY <1>1, <1>2
  <2>. QED
    BY <2>1, <2>3, <2>4, <2>5 DEF AnswersUpTo
<1>4. IsReply(g, i) <=> IsReply(h, i)
  BY <1>1, <1>2 DEF IsReply
<1>5. Closed(h, i) => Closed(g, i)
  BY <1>1, <1>2, <1>3, <1>4, CallsOfReply DEF Closed
<1>6. AnswersReply(h, i) => AnswersReply(g, i)
  BY <1>1, <1>2 DEF AnswersReply, IsReply
<1>. QED
  BY <1>3, <1>4, <1>5, <1>6

(* A reply with calls opens the only open reply. *)
LEMMA ReplyEnters ==
  ASSUME ChatInv, chat = "asking", NEW how \in {"call", "dsml"}, NEW k \in 1..MaxCalls, Enter(how, k), ChatBounds
  PROVE  /\ WaitingInv' /\ history' \in Seq(ChatMessage) /\ Len(history') > Len(history)
         /\ \A i \in 1..Len(history) : history'[i] = history[i]
         /\ \A i \in 1..Len(history') : AnswersReply(history', i)
<1>. DEFINE n == Len(history)
            calls == [i \in 1..k |-> <<how, turns, i>>]
            reply == [from |-> "model", calls |-> calls]
<1>1. history \in Seq(ChatMessage) /\ n \in Nat /\ k \in Nat \ {0}
  BY DEF ChatInv, HistoryInv, ChatBounds
<1>2. calls \in Seq(CallIds) /\ Len(calls) = k
  <2>1. \A i \in 1..k : <<how, turns, i>> \in CallIds
    BY <1>1 DEF ChatInv, CountsInv, ChatBounds, CallIds
  <2>. QED
    BY <1>1, <2>1
<1>3. waiting' = calls /\ history' = Append(history, reply) /\ chat' = "dispatching"
  BY DEF Enter
<1>. HIDE DEF calls
<1>4. reply \in ChatMessage /\ reply.from = "model" /\ reply.calls = calls
  BY <1>2 DEF ChatMessage
<1>. HIDE DEF reply, n
<1>5. Len(history') = n + 1 /\ history'[n + 1] = reply
  BY <1>1, <1>3, <1>4, OneMoreMessage DEF n
<1>6. \A i \in 1..n : Closed(history', i) /\ AnswersReply(history', i)
  BY <1>1, <1>3, <1>4, HistoryGrows DEF ChatInv, WaitingInv, HistoryInv, n
<1>7. \A i \in 1..(n + 1) : i = n + 1 \/ i \in 1..n
  BY <1>1
<1>8. AnswersReply(history', n + 1)
  BY <1>4, <1>5 DEF AnswersReply
<1>9. WaitingInv'
  <2>1. Len(waiting') <= MaxCalls /\ waiting' \in Seq(CallIds)
    BY <1>1, <1>2, <1>3 DEF ChatBounds
  <2>2. AnswersUpTo(history', n + 1, 0)
    BY <1>1, <1>5 DEF AnswersUpTo
  <2>3. n + 1 \in 1..Len(history') /\ Len(history') - (n + 1) = 0
    BY <1>1, <1>5
  <2>4. IsReply(history', n + 1) /\ history'[n + 1].calls = waiting'
    BY <1>3, <1>4, <1>5 DEF IsReply
  <2>. QED
    <3>. DEFINE p == n + 1
                h == history'
    <3>1. /\ IsReply(h, p) /\ \A i \in 1..Len(h) : i # p => Closed(h, i)
          /\ Len(waiting') \in Nat \ {0} /\ Len(waiting') + (Len(h) - p) = Len(h[p].calls)
          /\ AnswersUpTo(h, p, Len(h) - p)
      <4>1. Len(waiting') = k /\ Len(h[p].calls) = k /\ Len(h) - p = 0
        BY <1>2, <1>3, <2>3, <2>4
      <4>2. \A i \in 1..Len(h) : i # p => Closed(h, i)
        BY <1>5, <1>6, <1>7
      <4>3. AnswersUpTo(h, p, Len(h) - p)
        BY <2>2, <2>3
      <4>4. IsReply(h, p)
        BY <2>4
      <4>5. Len(waiting') \in Nat \ {0} /\ Len(waiting') + (Len(h) - p) = Len(h[p].calls)
        <5>. HIDE DEF h, p
        <5>. QED
          BY <1>1, <4>1
      <4>. QED
        BY <4>2, <4>3, <4>4, <4>5
    <3>2. \A i \in 1..Len(waiting') : waiting'[i] = h[p].calls[(Len(h) - p) + i]
      <4>1. \A i \in 1..Len(waiting') : (Len(h) - p) + i = i
        BY <2>3
      <4>. QED
        BY <2>4, <4>1
    <3>3. p \in 1..Len(h) /\ chat' = "dispatching"
      BY <1>3, <2>3
    <3>. HIDE DEF p, h
    <3>. QED
      BY <2>1, <3>1, <3>2, <3>3 DEF WaitingInv, h
<1>10. history' \in Seq(ChatMessage) /\ \A i \in 1..n : history'[i] = history[i]
  BY <1>1, <1>3, <1>4, OneMoreMessage DEF n
<1>. QED
  BY <1>1, <1>5, <1>6, <1>7, <1>8, <1>9, <1>10 DEF n

(* An answer goes behind the open reply, for the next of its calls. *)
LEMMA AnswerEnters ==
  ASSUME ChatBounds, ChatInv, Answer
  PROVE  /\ WaitingInv' /\ history' \in Seq(ChatMessage) /\ Len(history') > Len(history)
         /\ \A i \in 1..Len(history) : history'[i] = history[i]
         /\ \A i \in 1..Len(history') : AnswersReply(history', i)
<1>. DEFINE n == Len(history)
            w == Len(waiting)
<1>1. PICK p \in 1..n :
         /\ IsReply(history, p) /\ \A i \in 1..n : i # p => Closed(history, i)
         /\ w \in Nat \ {0} /\ w + (n - p) = Len(history[p].calls)
         /\ AnswersUpTo(history, p, n - p)
         /\ \A k \in 1..w : waiting[k] = history[p].calls[(n - p) + k]
  BY DEF Answer, ChatInv, WaitingInv
<1>. DEFINE calls == history[p].calls
            a == n - p
<1>2. PICK outcome \in {"result", "error"} : history' = Append(history, [from |-> "tool", id |-> waiting[1], says |-> outcome])
  BY DEF Answer, Answered, Dispatch, ChatInv, WaitingInv
<1>3. history \in Seq(ChatMessage) /\ n \in Nat /\ waiting \in Seq(CallIds) /\ w <= MaxCalls /\ a \in Nat
  BY <1>1 DEF ChatInv, HistoryInv, WaitingInv
<1>4. waiting' = Tail(waiting) /\ (chat' = IF w = 1 THEN "asking" ELSE "dispatching")
  BY DEF Answer
<1>5. waiting[1] = calls[a + 1] /\ waiting[1] \in CallIds /\ a + 1 \in 1..Len(calls)
  <2>1. 1 \in 1..w
    BY <1>1
  <2>2. waiting[1] = calls[a + 1]
    BY <1>1, <2>1
  <2>3. waiting[1] \in CallIds
    BY <1>3, <2>1, ElementOfSeq
  <2>4. a + 1 \in 1..Len(calls)
    BY <1>1, <1>3
  <2>. QED
    BY <2>2, <2>3, <2>4
<1>. DEFINE m == [from |-> "tool", id |-> waiting[1], says |-> outcome]
<1>6. m \in ChatMessage /\ m.from = "tool" /\ m.id = waiting[1]
  BY <1>5 DEF ChatMessage
<1>. HIDE DEF m
<1>7. history' = Append(history, m)
  BY <1>2 DEF m
<1>8. /\ history' \in Seq(ChatMessage) /\ Len(history') = n + 1 /\ history'[n + 1] = m
      /\ \A i \in 1..n : history'[i] = history[i]
  BY <1>3, <1>6, <1>7, OneMoreMessage
<1>9. \A i \in 1..n : i # p => Closed(history', i)
  BY <1>1, <1>3, <1>6, <1>7, HistoryGrows
<1>10. IsReply(history', p) /\ history'[p].calls = calls
  BY <1>1, <1>8 DEF IsReply
<1>. DEFINE b == a + 1
<1>. HIDE DEF n, w, calls, a
<1>11. Closed(history', n + 1)
  BY <1>6, <1>8 DEF Closed, IsReply
<1>12. AnswersUpTo(history', p, b)
  <2>1. p + a = n /\ p + b = n + 1 /\ \A k \in 1..b : k = b \/ k \in 1..a
    BY <1>1, <1>3 DEF a
  <2>2. \A k \in 1..a : p + k \in 1..n /\ history[p + k].from = "tool" /\ history[p + k].id = calls[k]
    BY <1>1, <1>3, <2>1 DEF AnswersUpTo, a, n, calls
  <2>3. history'[p + b] = m /\ m.id = calls[b]
    BY <1>5, <1>6, <1>8, <2>1
  <2>4. \A k \in 1..b : history'[p + k].from = "tool" /\ history'[p + k].id = calls[k]
    BY <1>6, <1>8, <2>1, <2>2, <2>3
  <2>. QED
    BY <1>8, <1>10, <2>1, <2>4 DEF AnswersUpTo
<1>13. w + a = Len(calls)
  BY <1>1 DEF w, a, calls, n
<1>14. \A i \in 1..Len(history') : AnswersReply(history', i)
  <2>1. \A i \in 1..n : AnswersReply(history', i)
    BY <1>3, <1>6, <1>7, HistoryGrows DEF ChatInv, HistoryInv, n
  <2>2. AnswersReply(history', n + 1)
    <3>1. p \in 1..(n + 1) - 1
      BY <1>1, <1>3 DEF n
    <3>. QED
      BY <1>5, <1>6, <1>8, <1>10, <3>1 DEF AnswersReply
  <2>. QED
    BY <1>3, <1>8, <2>1, <2>2
<1>15. waiting' \in Seq(CallIds) /\ Len(waiting') = w - 1 /\ \A k \in 1..w - 1 : waiting'[k] = waiting[k + 1]
  BY <1>1, <1>3, <1>4 DEF w
<1>16. \A i \in 1..Len(history') : i = n + 1 \/ i \in 1..n
  BY <1>3, <1>8
<1>17. WaitingInv'
  <2>1. Len(waiting') <= MaxCalls
    BY <1>1, <1>3, <1>15 DEF ChatBounds
  <2>2. CASE w = 1
    <3>1. Closed(history', p)
      BY <1>10, <1>12, <1>13, <2>2, <1>3 DEF Closed
    <3>2. \A i \in 1..Len(history') : Closed(history', i)
      BY <1>9, <1>11, <1>16, <3>1
    <3>. QED
      BY <1>4, <1>15, <2>1, <2>2, <3>2 DEF WaitingInv
  <2>3. CASE w # 1
    <3>1. p \in 1..Len(history') /\ Len(history') - p = b
      BY <1>1, <1>3, <1>8 DEF n, a
    <3>2. \A i \in 1..Len(history') : i # p => Closed(history', i)
      BY <1>9, <1>11, <1>16
    <3>3. Len(waiting') \in Nat \ {0} /\ Len(waiting') + b = Len(calls)
      <4>1. w \in Nat \ {0} /\ a \in Nat /\ w - 1 # 0
        BY <1>1, <1>3, <2>3
      <4>2. (w - 1) + (a + 1) = w + a
        BY <4>1
      <4>. QED
        BY <1>13, <1>15, <4>1, <4>2
    <3>4. \A k \in 1..Len(waiting') : waiting'[k] = calls[b + k]
      <4>1. \A k \in 1..w - 1 : k + 1 \in 1..w /\ a + (k + 1) = b + k
        BY <1>1, <1>3 DEF w
      <4>. QED
        BY <1>1, <1>15, <4>1 DEF w, a, n, calls
    <3>. HIDE DEF b
    <3>. QED
      BY <1>4, <1>10, <1>12, <1>15, <2>1, <2>3, <3>1, <3>2, <3>3, <3>4 DEF WaitingInv
  <2>. QED
    BY <2>2, <2>3
<1>. QED
  BY <1>3, <1>8, <1>14, <1>17 DEF n

LEMMA WaitingStep == ChatBounds /\ ChatInv /\ [ChatNext]_chatvars => WaitingInv'
<1>. SUFFICES ASSUME ChatBounds, ChatInv, [ChatNext]_chatvars PROVE WaitingInv'
  OBVIOUS
<1>1. CASE Execute
  <2>1. ASSUME chat' = "asking" PROVE \A i \in 1..Len(history') : history'[i].from # "model"
    BY <1>1, <2>1 DEF Execute, BuildMessages
  <2>. QED
    BY <1>1, <2>1 DEF Execute, ChatInv, WaitingInv, Closed, IsReply
<1>2. CASE Ask
  <2>1. ASSUME NEW how \in {"call", "dsml"}, NEW k \in 1..MaxCalls, Enter(how, k) PROVE WaitingInv'
    BY <1>2, <2>1, ReplyEnters DEF Ask
  <2>2. ASSUME NEW what, Return(what) PROVE WaitingInv'
    BY <2>2 DEF Return, ChatInv, WaitingInv
  <2>. QED
    BY <1>2, <2>1, <2>2 DEF Ask, ReplyCalls, ReplyMarkup, ReplyText
<1>3. CASE Answer
  BY <1>3, AnswerEnters
<1>4. CASE FinalAsk
  BY <1>4 DEF FinalAsk, Return, ChatInv, WaitingInv
<1>5. CASE AskFails \/ DispatchRaises
  BY <1>5 DEF AskFails, DispatchRaises, ChatInv, WaitingInv
<1>6. CASE UNCHANGED chatvars
  BY <1>6 DEF chatvars, ChatInv, WaitingInv
<1>. QED
  BY <1>1, <1>2, <1>3, <1>4, <1>5, <1>6 DEF ChatNext

LEMMA HistoryStep == ChatBounds /\ ChatInv /\ [ChatNext]_chatvars => HistoryInv'
<1>. SUFFICES ASSUME ChatBounds, ChatInv, [ChatNext]_chatvars PROVE HistoryInv'
  OBVIOUS
<1>0. job' = job => DepContext(job'.given) = DepContext(job.given)
  OBVIOUS
<1>1. CASE Execute
  <2>1. CASE chat' = "raised"
    BY <1>1, <2>1 DEF Execute, ChatInv, HistoryInv
  <2>2. CASE chat' # "raised"
    <3>. DEFINE first == [from |-> "system"]
                second == [from |-> "user", shows |-> DepContext(job.given)]
    <3>1. history' = <<first, second>> /\ job' = job
      BY <1>1, <2>2 DEF Execute, BuildMessages
    <3>2. DepContext(job.given) \in SUBSET {"dep"}
      BY DEF DepContext, ChatInv, CountsInv
    <3>3. first \in ChatMessage /\ second \in ChatMessage /\ first.from # "tool" /\ second.from # "tool"
      BY <3>2 DEF ChatMessage
    <3>4. second' = second
      BY <3>1
    <3>. HIDE DEF first, second
    <3>5. history' \in Seq(ChatMessage) /\ Len(history') = 2 /\ history'[1] = first /\ history'[2] = second
      BY <3>1, <3>3
    <3>6. \A i \in 1..Len(history') : AnswersReply(history', i)
      BY <3>3, <3>5 DEF AnswersReply
    <3>. QED
      BY <3>4, <3>5, <3>6 DEF HistoryInv, second
  <2>. QED
    BY <2>1, <2>2
<1>2. CASE Ask
  <2>1. ASSUME NEW how \in {"call", "dsml"}, NEW k \in 1..MaxCalls, Enter(how, k) PROVE HistoryInv'
    <3>1. /\ history' \in Seq(ChatMessage) /\ Len(history') > Len(history)
          /\ \A i \in 1..Len(history) : history'[i] = history[i]
          /\ \A i \in 1..Len(history') : AnswersReply(history', i)
      BY <1>2, <2>1, ReplyEnters DEF Ask
    <3>2. Len(history) >= 2 /\ history[2] = [from |-> "user", shows |-> DepContext(job.given)] /\ job' = job
      BY <1>2 DEF Ask, ChatInv, HistoryInv
    <3>3. Len(history) \in Nat /\ Len(history') \in Nat
      BY <3>1 DEF ChatInv, HistoryInv
    <3>. QED
      BY <3>1, <3>2, <3>3 DEF HistoryInv
  <2>2. ASSUME NEW what, Return(what) PROVE HistoryInv'
    BY <1>2, <2>2 DEF Ask, Return, ChatInv, HistoryInv
  <2>. QED
    BY <1>2, <2>1, <2>2 DEF Ask, ReplyCalls, ReplyMarkup, ReplyText
<1>3. CASE Answer
  BY <1>3, AnswerEnters DEF Answer, ChatInv, HistoryInv
<1>4. CASE FinalAsk
  BY <1>4 DEF FinalAsk, Return, ChatInv, HistoryInv
<1>5. CASE AskFails \/ DispatchRaises
  BY <1>5 DEF AskFails, DispatchRaises, ChatInv, HistoryInv
<1>6. CASE UNCHANGED chatvars
  BY <1>6 DEF chatvars, ChatInv, HistoryInv
<1>. QED
  BY <1>1, <1>2, <1>3, <1>4, <1>5, <1>6 DEF ChatNext

LEMMA ChatInvMeans == ChatBounds /\ ChatInv => ChatSound
<1>. SUFFICES ASSUME ChatBounds, ChatInv PROVE ChatSound
  OBVIOUS
<1>1. ChatTypeOK
  BY DEF ChatBounds, ChatInv, CountsInv, WaitingInv, ChatTypeOK
<1>2. ChatEnds
  BY DEF ChatInv, CountsInv, ChatEnds
<1>3. CallsAnswered
  <2>. SUFFICES ASSUME chat = "asking" PROVE CallsAnswered
    BY DEF CallsAnswered
  <2>. DEFINE h == history
  <2>1. h \in Seq(ChatMessage) /\ DOMAIN h = 1..Len(h)
    BY DEF ChatInv, HistoryInv
  <2>2. ASSUME NEW i \in 1..Len(h), h[i].from = "model"
        PROVE  /\ i + Len(h[i].calls) <= Len(h)
               /\ \A j \in DOMAIN h[i].calls : h[i + j].from = "tool" /\ h[i + j].id = h[i].calls[j]
    <3>1. AnswersUpTo(h, i, Len(h[i].calls))
      BY <2>2 DEF ChatInv, WaitingInv, Closed, IsReply
    <3>2. DOMAIN h[i].calls = 1..Len(h[i].calls)
      BY <2>1, <2>2, CallsOfReply DEF IsReply
    <3>. QED
      BY <3>1, <3>2 DEF AnswersUpTo
  <2>3. ASSUME NEW i \in 1..Len(h), h[i].from = "tool"
        PROVE  \E j \in 1..i - 1 : h[j].from = "model" /\ h[i].id \in {h[j].calls[k] : k \in DOMAIN h[j].calls}
    <3>1. PICK j \in 1..i - 1 : IsReply(h, j) /\ \E k \in 1..Len(h[j].calls) : h[i].id = h[j].calls[k]
      BY <2>3 DEF ChatInv, HistoryInv, AnswersReply
    <3>2. j \in 1..Len(h)
      BY <2>1
    <3>3. DOMAIN h[j].calls = 1..Len(h[j].calls)
      BY <2>1, <3>1, <3>2, CallsOfReply
    <3>. QED
      BY <3>1, <3>3 DEF IsReply
  <2>4. h[2].shows = DepContext(job.given)
    BY DEF ChatInv, HistoryInv
  <2>5. \A d \in DOMAIN job.given : job.given[d] \in {"object", "text", "value"} => d \in h[2].shows
    BY <2>4 DEF DepContext
  <2>. QED
    BY <2>1, <2>2, <2>3, <2>5 DEF CallsAnswered
<1>. QED
  BY <1>1, <1>2, <1>3 DEF ChatSound

(* However the model answers and whichever calls fail: before the model is
   asked again each call has its own answer in order, the results of the
   dependencies stay in the history, and a chat ends within its rounds, with a
   whole call in markup only where no tool could be called (BaseAgent._chat).
   Arguments that are no JSON object may end the chat with an exception. *)
THEOREM ChatIsSound == ChatSpec => []ChatSound
<1>1. ChatInv /\ [ChatNext]_chatvars => ChatInv'
  BY ChatBounds, CountsStep, WaitingStep, HistoryStep DEF ChatInv
<1>. QED
  BY ChatBegins, ChatBounds, <1>1, ChatInvMeans, PTL DEF ChatSpec

-----------------------------------------------------------------------------
(* The nodes of a run: tools, files, updates and the line of messages. *)

(* The object that runs a task was built for it: its channel names the task and
   its file tools the sandbox. *)
EquipInv ==
  /\ noderole \in [Nodes -> NodeRoles] /\ DOMAIN heap = Nodes \cup NodeRoles /\ started \subseteq Nodes
  /\ \A r \in NodeRoles : DOMAIN heap[r] \cap ChannelTools = {}
  /\ "channel" \in handed =>
       \A n \in started : \A t \in ChannelTools : heap[n][t].task = n
  /\ Boxed => \A n \in started : \A t \in FileTools : heap[n][t].root = "sandbox"

(* Inside the sandbox nothing else is being created, was written or is shown by its name. *)
FilesInv ==
  /\ DOMAIN creating = Nodes /\ \A n \in Nodes : creating[n] \in Paths \cup {"-"}
  /\ DOMAIN shown = Nodes /\ DOMAIN files = Paths /\ DOMAIN entries = Range(Keys)
  /\ Boxed =>
       /\ \A n \in Nodes : creating[n] \in {"inside", "-"}
       /\ \A p \in Paths \ {"inside"} : files[p].via # "file"
       /\ \A n \in Nodes : shown[n].named \cap Paths \subseteq {"inside"}

UpdatesInv ==
  /\ outbox \in Seq([tag : Nodes, by : Nodes]) /\ \A i \in DOMAIN outbox : outbox[i].tag = outbox[i].by
  /\ uses \in 0..MaxUses

(* The numbers of messages fall in the inbox from its front, rise in what was
   taken, and all that was taken is before all that waits. *)
LineInv ==
  /\ sent \in Seq(Nat) /\ inbox \in Seq(Nat) /\ took \in Seq([msg : Nat, by : Nodes])
  /\ \A i \in 1..Len(inbox) : inbox[i] <= Len(sent)
  /\ \A i, j \in 1..Len(inbox) : i < j => inbox[j] < inbox[i]
  /\ \A i \in 1..Len(took) : took[i].msg <= Len(sent)
  /\ \A i, j \in 1..Len(took) : i < j => took[i].msg < took[j].msg
  /\ \A i \in 1..Len(took), j \in 1..Len(inbox) : took[i].msg < inbox[j]

NodesInv == EquipInv /\ FilesInv /\ UpdatesInv /\ LineInv

LEMMA RolesHaveNoChannel == \A r \in Roles : AgentOf[r].tools \cap ChannelTools = {}
  BY DEF Roles, AgentOf, Planner, Critic, Summarizer, Researcher, Coder, ToolCaller, MemoryAgent,
         FileTools, MemoryTools, ChannelTools

LEMMA NodesBegin == NodesBounds /\ NodesInit => NodesInv
<1>. SUFFICES ASSUME NodesBounds, NodesInit PROVE NodesInv
  OBVIOUS
<1>. USE DEF NodesInit
<1>1. EquipInv
  BY DEF EquipInv, NoAgent
<1>2. FilesInv
  BY DEF FilesInv, User, Paths
<1>3. UpdatesInv
  BY DEF UpdatesInv, NodesBounds
<1>4. LineInv
  BY DEF LineInv
<1>. QED
  BY <1>1, <1>2, <1>3, <1>4 DEF NodesInv

LEMMA OnlyRunEquips ==
  ASSUME NodesNext
  PROVE  (\E n \in Nodes : Run(n)) \/ UNCHANGED <<handed, noderole, heap, started>>
<1>1. \A n, tool : Uses(n, tool) => UNCHANGED <<handed, noderole, heap, started>>
  BY DEF Uses
<1>2. PushInbox \/ ExpireInbox => UNCHANGED <<handed, noderole, heap, started>>
  BY DEF PushInbox, ExpireInbox
<1>3. \A n : PushUpdate(n) \/ CheckInbox(n) \/ MemoryStore(n) \/ Shell(n) => \E tool : Uses(n, tool)
  BY DEF PushUpdate, CheckInbox, MemoryStore, Shell
<1>4. \A n : ReadMemory(n) => \E tool : Uses(n, tool)
  BY DEF ReadMemory
<1>5. \A n : ReadFiles(n) => \E tool : Uses(n, tool)
  BY DEF ReadFiles
<1>6. \A n, p : FileWrite(n, p) \/ FileCreateLooks(n, p) => \E tool : Uses(n, tool)
  BY DEF FileWrite, FileCreateLooks
<1>7. \A n : FileCreateWrites(n) => UNCHANGED <<handed, noderole, heap, started>>
  BY DEF FileCreateWrites
<1>. QED
  BY <1>1, <1>2, <1>3, <1>4, <1>5, <1>6, <1>7 DEF NodesNext

LEMMA EquippedForTask ==
  ASSUME NEW n, NEW built
  PROVE  /\ \A t \in ChannelTools : WithChannel(built, n)[t].task = n
         /\ \A t \in FileTools : WithChannel(Sandboxed(built), n)[t].root = "sandbox"
<1>1. \A t \in ChannelTools : WithChannel(built, n)[t] = [root |-> "project", task |-> n]
  BY DEF WithChannel, WithTools
<1>2. \A t \in FileTools : t \notin ChannelTools
  BY DEF FileTools, ChannelTools
<1>3. \A t \in FileTools : Sandboxed(built)[t] = [root |-> "sandbox", task |-> "-"] /\ t \in DOMAIN Sandboxed(built)
  BY DEF Sandboxed, WithTools
<1>4. \A t \in FileTools : WithChannel(Sandboxed(built), n)[t] = Sandboxed(built)[t]
  BY <1>2, <1>3 DEF WithChannel, WithTools
<1>. QED
  BY <1>1, <1>3, <1>4

LEMMA EquipStep == NodesBounds /\ NodesInv /\ [NodesNext]_nodevars => EquipInv'
<1>. SUFFICES ASSUME NodesBounds, NodesInv, [NodesNext]_nodevars PROVE EquipInv'
  OBVIOUS
<1>. USE DEF NodesInv, EquipInv, Boxed
<1>1. CASE UNCHANGED <<handed, noderole, heap, started>>
  BY <1>1
<1>2. ASSUME NEW n \in Nodes, Run(n) PROVE EquipInv'
  <2>1. /\ started' = started \cup {n} /\ heap' = [heap EXCEPT ![AgentObject(n)] = Equip(n)]
        /\ UNCHANGED <<handed, noderole>>
    BY <1>2 DEF Run
  <2>2. noderole[n] \in NodeRoles /\ n \notin NodeRoles /\ NodeRoles \subseteq Roles
    BY DEF NodesBounds
  <2>3. CASE "channel" \in handed
    <3>1. AgentObject(n) = n
      BY <2>3 DEF AgentObject
    <3>2. \A t \in ChannelTools : Equip(n)[t].task = n
      <4>1. PICK built : Equip(n) = WithChannel(built, n)
        BY <2>3 DEF Equip
      <4>2. \A t \in ChannelTools : WithChannel(built, n)[t].task = n
        BY EquippedForTask
      <4>. QED
        BY <4>1, <4>2
    <3>3. "workspace" \in handed => \A t \in FileTools : Equip(n)[t].root = "sandbox"
      BY <2>3, EquippedForTask DEF Equip
    <3>. QED
      BY <2>1, <2>2, <2>3, <3>1, <3>2, <3>3, NodesBounds DEF NodesBounds
  <2>4. CASE "channel" \notin handed
    <3>1. AgentObject(n) = noderole[n]
      BY <2>4 DEF AgentObject
    <3>2. DOMAIN Built(noderole[n]) = AgentOf[noderole[n]].tools
      BY DEF Built, WithTools, NoAgent
    <3>3. DOMAIN Equip(n) \cap ChannelTools = {}
      BY <2>2, <2>4, <3>2, RolesHaveNoChannel DEF Equip
    <3>. QED
      BY <2>1, <2>2, <2>4, <3>1, <3>3
  <2>. QED
    BY <2>3, <2>4
<1>. QED
  BY <1>1, <1>2, OnlyRunEquips DEF nodevars

LEMMA GuardHolds ==
  ASSUME NodesInv, Boxed, NEW n \in Nodes, NEW tool \in FileTools, Uses(n, tool), NEW p \in Paths, Safe(Root(n, tool), p)
  PROVE  p = "inside"
<1>1. Agent(n) = heap[n] /\ n \in started
  BY DEF Agent, AgentObject, Boxed, Uses
<1>2. heap[n][tool].root = "sandbox"
  BY <1>1 DEF NodesInv, EquipInv
<1>. QED
  BY <1>1, <1>2 DEF Safe, Root, Below

LEMMA SaysKeeps ==
  ASSUME FilesInv, NEW n \in Nodes, NEW what,
         Matches(n, what) \/ (Says(n, what) /\ (Boxed => what \cap Paths \subseteq {"inside"})),
         UNCHANGED <<handed, creating, files>>, DOMAIN entries' = DOMAIN entries
  PROVE  FilesInv'
  BY DEF FilesInv, Says, Matches, Boxed

LEMMA GuardedShows ==
  ASSUME NodesInv, NEW n \in Nodes, NEW tool \in FileTools, Uses(n, tool), NEW p \in Paths,
         NEW what, what \subseteq {p}
  PROVE  Boxed => Guarded(n, tool, p, what) \cap Paths \subseteq {"inside"}
  BY GuardHolds DEF Guarded

LEMMA FilesStep == NodesBounds /\ NodesInv /\ [NodesNext]_nodevars => FilesInv'
<1>. SUFFICES ASSUME NodesBounds, NodesInv, [NodesNext]_nodevars PROVE FilesInv'
  OBVIOUS
<1>0. FilesInv /\ (\A n, tool : Uses(n, tool) => UNCHANGED handed)
  BY DEF NodesInv, Uses
<1>1. CASE UNCHANGED <<handed, entries, files, creating, shown>>
  BY <1>0, <1>1 DEF FilesInv, Boxed
<1>2. ASSUME NEW n \in Nodes, PushUpdate(n) \/ CheckInbox(n) \/ MemoryStore(n) PROVE FilesInv'
  <2>1. Says(n, {}) /\ UNCHANGED <<handed, creating, files>>
    BY <1>0, <1>2 DEF PushUpdate, CheckInbox, MemoryStore
  <2>2. DOMAIN entries' = DOMAIN entries
    BY <1>2 DEF PushUpdate, CheckInbox, MemoryStore
  <2>. QED
    BY <1>0, <2>1, <2>2, SaysKeeps
<1>3. ASSUME NEW n \in Nodes, ReadMemory(n) PROVE FilesInv'
  <2>1. UNCHANGED <<handed, creating, files, entries>>
    BY <1>0, <1>3 DEF ReadMemory
  <2>2. \A ks : MemorySearch(ks) \subseteq Range(Keys) /\ MemoryGet(ks) \subseteq Range(Keys)
    BY <1>0 DEF MemorySearch, MemoryGet, Stored, FilesInv
  <2>3. MemoryRecent \subseteq Range(Keys)
    BY DEF MemoryRecent, Range
  <2>4. PICK what : Says(n, what) /\ what \subseteq Range(Keys)
    BY <1>3, <2>2, <2>3 DEF ReadMemory
  <2>. QED
    BY <1>0, <2>1, <2>4, SaysKeeps DEF NodesBounds
<1>4. ASSUME NEW n \in Nodes, ReadFiles(n) PROVE FilesInv'
  <2>1. UNCHANGED <<handed, creating, files, entries>>
    BY <1>0, <1>4 DEF ReadFiles
  <2>2. PICK p \in Paths, match \in {{}, {"inside"}, Paths} :
          \/ Uses(n, "file_read") /\ Says(n, Guarded(n, "file_read", p, FileRead(p)))
          \/ Uses(n, "file_read_lines") /\ Says(n, Guarded(n, "file_read_lines", p, FileReadLines(p)))
          \/ Uses(n, "file_info") /\ Says(n, Guarded(n, "file_info", p, FileInfo(p)))
          \/ Uses(n, "file_list") /\ Says(n, Guarded(n, "file_list", p, FileList(p)))
          \/ Uses(n, "file_search") /\ Matches(n, Guarded(n, "file_search", p, FileSearch(match)))
          \/ Uses(n, "file_grep") /\ Matches(n, Guarded(n, "file_grep", p, FileGrep(match)))
    BY <1>4 DEF ReadFiles
  <2>3. /\ FileRead(p) \subseteq {p} /\ FileReadLines(p) \subseteq {p} /\ FileInfo(p) \subseteq {p}
        /\ FileList(p) \subseteq {p}
    BY DEF FileRead, FileReadLines, FileInfo, FileList
  <2>4. \/ \E tool \in FileTools, what \in SUBSET {p} : Uses(n, tool) /\ Says(n, Guarded(n, tool, p, what))
        \/ \E what : Matches(n, what)
    BY <2>2, <2>3 DEF FileTools
  <2>. QED
    BY <1>0, <2>1, <2>4, GuardedShows, SaysKeeps
<1>5. ASSUME NEW n \in Nodes, NEW p \in Paths, FileWrite(n, p) PROVE FilesInv'
  <2>1. /\ Uses(n, "file_write") /\ "file_write" \in FileTools /\ Says(n, {})
        /\ files' = files \/ (Safe(Root(n, "file_write"), p) /\ Write(n, p, "file"))
        /\ UNCHANGED <<handed, creating, entries>>
    BY <1>0, <1>5 DEF FileWrite, FileTools
  <2>2. CASE files' = files
    BY <1>0, <2>1, <2>2, SaysKeeps
  <2>3. CASE Safe(Root(n, "file_write"), p) /\ Write(n, p, "file")
    <3>1. Boxed => p = "inside"
      BY <2>1, <2>3, GuardHolds
    <3>. QED
      BY <1>0, <2>1, <2>3, <3>1 DEF FilesInv, Says, Write, Boxed
  <2>. QED
    BY <2>1, <2>2, <2>3
<1>6. ASSUME NEW n \in Nodes, NEW p \in Paths, FileCreateLooks(n, p) PROVE FilesInv'
  <2>1. /\ Uses(n, "file_create") /\ "file_create" \in FileTools /\ UNCHANGED <<handed, files, entries>>
        /\ \/ creating' = creating /\ Says(n, {})
           \/ Safe(Root(n, "file_create"), p) /\ creating' = [creating EXCEPT ![n] = p] /\ shown' = shown
    BY <1>0, <1>6 DEF FileCreateLooks, FileTools
  <2>2. CASE creating' = creating /\ Says(n, {})
    BY <1>0, <2>1, <2>2, SaysKeeps
  <2>3. CASE Safe(Root(n, "file_create"), p) /\ creating' = [creating EXCEPT ![n] = p] /\ shown' = shown
    <3>1. Boxed => p = "inside"
      BY <2>1, <2>3, GuardHolds
    <3>. QED
      BY <1>0, <2>1, <2>3, <3>1 DEF FilesInv, Boxed
  <2>. QED
    BY <2>1, <2>2, <2>3
<1>7. ASSUME NEW n \in Nodes, FileCreateWrites(n) PROVE FilesInv'
  BY <1>0, <1>7 DEF FileCreateWrites, FilesInv, Says, Write, Boxed
<1>8. ASSUME NEW n \in Nodes, Shell(n) PROVE FilesInv'
  <2>1. /\ Says(n, {}) /\ UNCHANGED <<handed, creating, entries>>
        /\ files' = files \/ \E p \in Paths : Write(n, p, "shell")
    BY <1>0, <1>8 DEF Shell
  <2>. QED
    BY <1>0, <2>1 DEF FilesInv, Says, Write, Boxed
<1>9. CASE PushInbox \/ ExpireInbox \/ (\E n \in Nodes : Run(n)) \/ UNCHANGED nodevars
  BY <1>1, <1>9 DEF PushInbox, ExpireInbox, Run, nodevars
<1>. QED
  BY <1>2, <1>3, <1>4, <1>5, <1>6, <1>7, <1>8, <1>9 DEF NodesNext

LEMMA OnlyPushUpdates ==
  ASSUME NodesNext
  PROVE  (\E n \in Nodes : PushUpdate(n)) \/ UNCHANGED outbox
  BY DEF NodesNext, Run, CheckInbox, PushInbox, ExpireInbox, MemoryStore, ReadMemory, ReadFiles,
         Shell, FileCreateWrites, FileWrite, FileCreateLooks

LEMMA UsesCount ==
  ASSUME NodesNext
  PROVE  (\E n \in Nodes : \E tool : Uses(n, tool)) \/ UNCHANGED uses
<1>1. PushInbox \/ ExpireInbox => UNCHANGED uses
  BY DEF PushInbox, ExpireInbox
<1>2. ASSUME NEW n \in Nodes PROVE Run(n) \/ FileCreateWrites(n) => UNCHANGED uses
  BY DEF Run, FileCreateWrites
<1>3. ASSUME NEW n \in Nodes
      PROVE  PushUpdate(n) \/ CheckInbox(n) \/ MemoryStore(n) \/ Shell(n) => \E tool : Uses(n, tool)
  BY DEF PushUpdate, CheckInbox, MemoryStore, Shell
<1>4. ASSUME NEW n \in Nodes PROVE ReadMemory(n) \/ ReadFiles(n) => \E tool : Uses(n, tool)
  BY DEF ReadMemory, ReadFiles
<1>5. ASSUME NEW n \in Nodes, NEW p \in Paths PROVE FileWrite(n, p) \/ FileCreateLooks(n, p) => \E tool : Uses(n, tool)
  BY DEF FileWrite, FileCreateLooks
<1>. QED
  BY <1>1, <1>2, <1>3, <1>4, <1>5 DEF NodesNext

LEMMA UpdatesStep == NodesBounds /\ NodesInv /\ [NodesNext]_nodevars => UpdatesInv'
<1>. SUFFICES ASSUME NodesBounds, NodesInv, [NodesNext]_nodevars PROVE UpdatesInv'
  OBVIOUS
<1>. USE DEF UpdatesInv
<1>0. UpdatesInv
  BY DEF NodesInv
<1>1. uses' \in 0..MaxUses
  <2>1. ASSUME NEW n, NEW tool, Uses(n, tool) PROVE uses' \in 0..MaxUses
    BY <1>0, <2>1 DEF Uses, NodesBounds
  <2>. QED
    BY <1>0, <2>1, UsesCount DEF nodevars
<1>2. ASSUME NEW n \in Nodes, PushUpdate(n) PROVE UpdatesInv'
  <2>1. n \in started /\ "dag_push_update" \in DOMAIN Agent(n) /\ "dag_push_update" \in ChannelTools
    BY <1>2 DEF PushUpdate, Uses, ChannelTools
  <2>2. "channel" \in handed
    BY <2>1 DEF Agent, AgentObject, NodesInv, EquipInv
  <2>3. Agent(n)["dag_push_update"].task = n
    BY <2>1, <2>2 DEF Agent, AgentObject, NodesInv, EquipInv
  <2>. DEFINE update == [tag |-> n, by |-> n]
  <2>4. outbox' = <<update>> \o outbox
    BY <1>2, <2>3 DEF PushUpdate
  <2>5. update \in [tag : Nodes, by : Nodes] /\ update.tag = update.by
    OBVIOUS
  <2>. HIDE DEF update
  <2>6. /\ outbox' \in Seq([tag : Nodes, by : Nodes]) /\ Len(outbox') = 1 + Len(outbox) /\ outbox'[1] = update
        /\ \A i \in 2..(1 + Len(outbox)) : outbox'[i] = outbox[i - 1]
    BY <1>0, <2>4, <2>5
  <2>7. \A i \in DOMAIN outbox' : outbox'[i].tag = outbox'[i].by
    BY <1>0, <2>5, <2>6
  <2>. QED
    BY <1>1, <2>6, <2>7
<1>3. CASE UNCHANGED outbox
  BY <1>0, <1>1, <1>3
<1>. QED
  BY <1>2, <1>3, OnlyPushUpdates DEF nodevars

LEMMA LineOnly ==
  ASSUME NodesNext
  PROVE  PushInbox \/ ExpireInbox \/ (\E n \in Nodes : CheckInbox(n)) \/ UNCHANGED <<sent, inbox, took>>
<1>1. \A n, tool : Uses(n, tool) => UNCHANGED sent
  BY DEF Uses
<1>2. \A n : PushUpdate(n) \/ MemoryStore(n) \/ Shell(n) => UNCHANGED <<sent, inbox, took>>
  BY <1>1 DEF PushUpdate, MemoryStore, Shell
<1>3. \A n : ReadMemory(n) => UNCHANGED <<sent, inbox, took>>
  BY <1>1 DEF ReadMemory
<1>4. \A n : ReadFiles(n) => UNCHANGED <<sent, inbox, took>>
  BY <1>1 DEF ReadFiles
<1>5. \A n, p : FileWrite(n, p) \/ FileCreateLooks(n, p) => UNCHANGED <<sent, inbox, took>>
  BY <1>1 DEF FileWrite, FileCreateLooks
<1>6. \A n : FileCreateWrites(n) \/ Run(n) => UNCHANGED <<sent, inbox, took>>
  BY DEF FileCreateWrites, Run
<1>. QED
  BY <1>2, <1>3, <1>4, <1>5, <1>6 DEF NodesNext

LEMMA LineTypes ==
  ASSUME LineInv
  PROVE  /\ Len(sent) \in Nat /\ Len(inbox) \in Nat /\ Len(took) \in Nat
         /\ \A i \in 1..Len(inbox) : inbox[i] \in Nat
         /\ \A i \in 1..Len(took) : took[i].msg \in Nat
<1>1. \A i \in 1..Len(took) : took[i] \in [msg : Nat, by : Nodes]
  BY ElementOfSeq DEF LineInv
<1>2. \A i \in 1..Len(took) : took[i].msg \in Nat
  BY <1>1
<1>3. \A i \in 1..Len(inbox) : inbox[i] \in Nat
  BY ElementOfSeq DEF LineInv
<1>. QED
  BY <1>2, <1>3, LenProperties DEF LineInv

LEMMA LineStep == NodesInv /\ [NodesNext]_nodevars => LineInv'
<1>. SUFFICES ASSUME NodesInv, [NodesNext]_nodevars PROVE LineInv'
  OBVIOUS
<1>. DEFINE l == Len(sent)
            m == Len(inbox)
            t == Len(took)
<1>0. /\ sent \in Seq(Nat) /\ inbox \in Seq(Nat) /\ took \in Seq([msg : Nat, by : Nodes])
      /\ l \in Nat /\ m \in Nat /\ t \in Nat
      /\ \A i \in 1..m : inbox[i] \in Nat /\ inbox[i] <= l
      /\ \A i \in 1..t : took[i].msg \in Nat /\ took[i].msg <= l
      /\ \A i, j \in 1..m : i < j => inbox[j] < inbox[i]
      /\ \A i, j \in 1..t : i < j => took[i].msg < took[j].msg
      /\ \A i \in 1..t, j \in 1..m : took[i].msg < inbox[j]
  BY LineTypes DEF NodesInv, LineInv
<1>1. CASE PushInbox
  <2>. DEFINE new == l + 1
  <2>1. sent' = Append(sent, new) /\ inbox' = <<new>> \o inbox /\ took' = took
    BY <1>1 DEF PushInbox
  <2>2. new \in Nat /\ new > l
    BY <1>0
  <2>3. sent' \in Seq(Nat) /\ Len(sent') = new
    BY <1>0, <2>1, <2>2
  <2>4. /\ inbox' \in Seq(Nat) /\ Len(inbox') = 1 + m /\ inbox'[1] = new
        /\ \A i \in 2..(1 + m) : inbox'[i] = inbox[i - 1]
    BY <1>0, <2>1, <2>2
  <2>. HIDE DEF new, l, m, t
  <2>5. \A i \in 1..(1 + m) : i = 1 \/ (i \in 2..(1 + m) /\ i - 1 \in 1..m)
    BY <1>0
  <2>10. m \in Nat /\ l \in Nat /\ \A i \in 1..m : inbox[i] \in Nat /\ inbox[i] <= l
    BY <1>0
  <2>6. ASSUME NEW i \in 1..(1 + m), NEW j \in 1..(1 + m), i < j PROVE inbox'[j] < inbox'[i]
    <3>1. j \in 2..(1 + m) /\ j - 1 \in 1..m /\ inbox'[j] = inbox[j - 1]
      BY <2>4, <2>6, <2>10
    <3>2. CASE i = 1
      BY <2>2, <2>4, <2>10, <3>1, <3>2
    <3>3. CASE i # 1
      <4>1. i \in 2..(1 + m) /\ i - 1 \in 1..m /\ i - 1 < j - 1 /\ inbox'[i] = inbox[i - 1]
        BY <2>4, <2>6, <2>10, <3>3
      <4>. QED
        BY <1>0, <3>1, <4>1
    <3>. QED
      BY <3>2, <3>3
  <2>7. ASSUME NEW i \in 1..t, NEW j \in 1..(1 + m) PROVE took[i].msg < inbox'[j]
    <3>1. took[i].msg \in Nat /\ took[i].msg <= l
      BY <1>0
    <3>2. CASE j = 1
      BY <2>2, <2>4, <2>10, <3>1, <3>2
    <3>3. CASE j # 1
      <4>1. j - 1 \in 1..m /\ inbox'[j] = inbox[j - 1]
        BY <2>4, <2>10, <3>3
      <4>. QED
        BY <1>0, <4>1
    <3>. QED
      BY <3>2, <3>3
  <2>8. (\A i \in 1..(1 + m) : inbox'[i] <= new) /\ \A i \in 1..t : took[i].msg <= new
    <3>1. ASSUME NEW i \in 1..(1 + m) PROVE inbox'[i] <= new
      <4>1. CASE i = 1
        BY <2>2, <2>4, <4>1
      <4>2. CASE i # 1
        <5>1. i - 1 \in 1..m /\ inbox'[i] = inbox[i - 1]
          BY <2>4, <2>10, <4>2
        <5>. QED
          BY <2>2, <2>10, <5>1
      <4>. QED
        BY <4>1, <4>2
    <3>2. \A i \in 1..t : took[i].msg \in Nat /\ took[i].msg <= l
      BY <1>0
    <3>. QED
      BY <2>2, <2>10, <3>1, <3>2
  <2>. QED
    BY <1>0, <2>1, <2>3, <2>4, <2>6, <2>7, <2>8 DEF LineInv, t
<1>2. CASE ExpireInbox
  BY <1>0, <1>2 DEF ExpireInbox, LineInv
<1>3. ASSUME NEW n \in Nodes, CheckInbox(n) PROVE LineInv'
  <2>0. sent' = sent
    BY <1>3 DEF CheckInbox, Uses
  <2>1. CASE inbox = <<>>
    BY <1>0, <1>3, <2>0, <2>1 DEF CheckInbox, LineInv
  <2>2. CASE inbox # <<>>
    <3>. DEFINE taken == [msg |-> inbox[m], by |-> n]
    <3>1. m \in 1..m /\ m - 1 \in Nat
      BY <1>0, <2>2
    <3>2. took' = Append(took, taken) /\ inbox' = SubSeq(inbox, 1, m - 1)
      BY <1>3, <2>2 DEF CheckInbox, Oldest, Last, Front
    <3>3. taken \in [msg : Nat, by : Nodes] /\ taken.msg = inbox[m]
      BY <1>0, <3>1
    <3>. HIDE DEF taken
    <3>4. /\ took' \in Seq([msg : Nat, by : Nodes]) /\ Len(took') = t + 1 /\ took'[t + 1] = taken
          /\ \A i \in 1..t : took'[i] = took[i]
      BY <1>0, <3>2, <3>3
    <3>5. \A i \in 1..(m - 1) : i \in 1..m /\ i < m
      BY <1>0
    <3>6. inbox' \in Seq(Nat) /\ Len(inbox') = m - 1 /\ \A i \in 1..(m - 1) : inbox'[i] = inbox[i]
      <4>1. 1 \in Int /\ m - 1 \in Int /\ \A i \in 1..(m - 1) : inbox[i] \in Nat
        BY <1>0, <3>1
      <4>2. SubSeq(inbox, 1, m - 1) \in Seq(Nat)
        BY <4>1, SubSeqProperties
      <4>3. /\ Len(SubSeq(inbox, 1, m - 1)) = IF 1 <= m - 1 THEN (m - 1) - 1 + 1 ELSE 0
            /\ \A i \in 1..((m - 1) - 1 + 1) : SubSeq(inbox, 1, m - 1)[i] = inbox[1 + i - 1]
        BY <4>1, SubSeqProperties
      <4>4. (IF 1 <= m - 1 THEN (m - 1) - 1 + 1 ELSE 0) = m - 1
        <5>1. \A k \in Nat \ {0} : (IF 1 <= k - 1 THEN (k - 1) - 1 + 1 ELSE 0) = k - 1
          OBVIOUS
        <5>2. m \in Nat \ {0}
          BY <1>0, <3>1
        <5>. HIDE DEF m
        <5>. QED
          BY <5>1, <5>2
      <4>5. \A i \in 1..(m - 1) : i \in 1..((m - 1) - 1 + 1) /\ 1 + i - 1 = i
        BY <1>0, <3>1
      <4>. QED
        BY <3>2, <4>2, <4>3, <4>4, <4>5
    <3>. HIDE DEF l, m, t
    <3>7. \A i \in 1..(t + 1) : i \in 1..t \/ i = t + 1
      BY <1>0
    <3>8. ASSUME NEW i \in 1..(t + 1), NEW j \in 1..(t + 1), i < j PROVE took'[i].msg < took'[j].msg
      <4>1. i \in 1..t /\ took'[i] = took[i]
        BY <1>0, <3>4, <3>8
      <4>2. CASE j \in 1..t
        BY <1>0, <3>4, <3>8, <4>1, <4>2
      <4>3. CASE j = t + 1
        BY <1>0, <3>1, <3>3, <3>4, <4>1, <4>3
      <4>. QED
        BY <3>7, <4>2, <4>3
    <3>9. \A i \in 1..(t + 1), j \in 1..(m - 1) : took'[i].msg < inbox'[j]
      BY <1>0, <3>1, <3>3, <3>4, <3>5, <3>6, <3>7
    <3>10. /\ \A i \in 1..(m - 1) : inbox'[i] <= l
           /\ \A i \in 1..(t + 1) : took'[i].msg <= l
           /\ \A i, j \in 1..(m - 1) : i < j => inbox'[j] < inbox'[i]
      BY <1>0, <3>1, <3>3, <3>4, <3>5, <3>6, <3>7
    <3>. QED
      BY <1>0, <2>0, <3>4, <3>6, <3>8, <3>9, <3>10 DEF LineInv, l
  <2>. QED
    BY <2>1, <2>2
<1>4. CASE UNCHANGED <<sent, inbox, took>>
  BY <1>0, <1>4 DEF LineInv
<1>. QED
  BY <1>1, <1>2, <1>3, <1>4, LineOnly DEF nodevars

LEMMA LineMeans == LineInv => InboxInOrder
<1>. SUFFICES ASSUME LineInv PROVE InboxInOrder
  OBVIOUS
<1>. DEFINE gone == [i \in DOMAIN took |-> took[i].msg]
            back == Reverse(inbox)
            line == gone \o back
            t == Len(took)
            m == Len(inbox)
<1>1. /\ t \in Nat /\ m \in Nat /\ DOMAIN took = 1..t
      /\ \A i \in 1..m : inbox[i] \in Nat
      /\ \A i \in 1..t : took[i].msg \in Nat
      /\ \A i, j \in 1..m : i < j => inbox[j] < inbox[i]
      /\ \A i, j \in 1..t : i < j => took[i].msg < took[j].msg
      /\ \A i \in 1..t, j \in 1..m : took[i].msg < inbox[j]
  BY LineTypes DEF LineInv
<1>. HIDE DEF t, m
<1>2. gone \in Seq(Nat) /\ Len(gone) = t /\ \A i \in 1..t : gone[i] = took[i].msg
  <2>1. gone = [i \in 1..t |-> took[i].msg]
    BY <1>1
  <2>2. gone \in [1..t -> Nat]
    BY <1>1, <2>1
  <2>. QED
    BY <1>1, <2>1, <2>2
<1>3. back \in Seq(Nat) /\ Len(back) = m /\ \A i \in 1..m : back[i] = inbox[(m - i) + 1]
  <2>1. back = [i \in 1..m |-> inbox[(m - i) + 1]]
    BY DEF Reverse, m
  <2>2. \A i \in 1..m : (m - i) + 1 \in 1..m
    BY <1>1
  <2>3. back \in [1..m -> Nat]
    BY <1>1, <2>1, <2>2
  <2>. QED
    BY <1>1, <2>1, <2>3
<1>. HIDE DEF gone, back
<1>4. /\ DOMAIN line = 1..(t + m) /\ \A i \in 1..t : line[i] = gone[i]
      /\ \A i \in (t + 1)..(t + m) : line[i] = back[i - t]
  <2>1. line \in Seq(Nat) /\ Len(line) = t + m
    BY <1>1, <1>2, <1>3, ConcatProperties
  <2>2. \A i \in 1..(t + m) : line[i] = IF i <= t THEN gone[i] ELSE back[i - t]
    <3>1. \A i \in 1 .. Len(gone) + Len(back) : line[i] = IF i <= Len(gone) THEN gone[i] ELSE back[i - Len(gone)]
      BY <1>2, <1>3, ConcatProperties
    <3>. QED
      BY <1>2, <1>3, <3>1
  <2>3. DOMAIN line = 1..(t + m)
    BY <2>1
  <2>. HIDE DEF line
  <2>4. /\ \A i \in 1..t : i \in 1..(t + m) /\ i <= t
        /\ \A i \in (t + 1)..(t + m) : i \in 1..(t + m) /\ ~(i <= t)
    BY <1>1
  <2>. QED
    BY <2>2, <2>3, <2>4
<1>. HIDE DEF line
<1>5. ASSUME NEW i \in 1..(t + m), NEW j \in 1..(t + m), i < j PROVE line[i] < line[j]
  <2>1. CASE j <= t
    <3>1. i \in 1..t /\ j \in 1..t
      BY <1>1, <1>5, <2>1
    <3>2. line[i] = took[i].msg /\ line[j] = took[j].msg
      BY <1>2, <1>4, <3>1
    <3>. QED
      BY <1>1, <1>5, <3>1, <3>2
  <2>2. CASE i <= t /\ t < j
    <3>1. (m - (j - t)) + 1 \in 1..m /\ j - t \in 1..m /\ i \in 1..t /\ j \in (t + 1)..(t + m)
      BY <1>1, <2>2
    <3>2. line[j] = inbox[(m - (j - t)) + 1] /\ line[i] = took[i].msg
      BY <1>2, <1>3, <1>4, <3>1
    <3>. QED
      BY <1>1, <3>1, <3>2
  <2>3. CASE t < i
    <3>1. j - t \in 1..m /\ i - t \in 1..m /\ i \in (t + 1)..(t + m) /\ j \in (t + 1)..(t + m)
      BY <1>1, <1>5, <2>3
    <3>2. (m - (j - t)) + 1 \in 1..m /\ (m - (i - t)) + 1 \in 1..m
      BY <1>1, <3>1
    <3>3. (m - (j - t)) + 1 < (m - (i - t)) + 1
      BY <1>1, <1>5, <3>1
    <3>4. line[j] = inbox[(m - (j - t)) + 1] /\ line[i] = inbox[(m - (i - t)) + 1]
      BY <1>3, <1>4, <3>1
    <3>. QED
      BY <1>1, <3>2, <3>3, <3>4
  <2>. QED
    BY <1>1, <2>1, <2>2, <2>3
<1>. QED
  BY <1>4, <1>5 DEF InboxInOrder, line, gone, back

(* Nodes that run at once keep apart: a node's tools name the node itself and
   its sandbox, no update goes out under another task, no file outside the
   sandbox is read or written with the file tools, and the messages of the user
   are taken in the order sent, each once (make_agent_runner, file tools, the
   channel's inbox). *)
THEOREM NodesAreSound == NodesSpec => []NodesSound
<1>1. NodesInv /\ [NodesNext]_nodevars => NodesInv'
  BY NodesBounds, EquipStep, FilesStep, UpdatesStep, LineStep DEF NodesInv
<1>2. NodesInv => NodesSound
  <2>. SUFFICES ASSUME NodesInv PROVE NodesSound
    OBVIOUS
  <2>1. NodesTypeOK
    BY DEF NodesInv, EquipInv, FilesInv, UpdatesInv, NodesTypeOK
  <2>2. TasksKeepApart
    BY DEF NodesInv, EquipInv, FilesInv, UpdatesInv, Boxed, TasksKeepApart
  <2>3. InboxInOrder
    BY LineMeans DEF NodesInv
  <2>. QED
    BY <2>1, <2>2, <2>3 DEF NodesSound
<1>. QED
  BY NodesBegin, NodesBounds, <1>1, <1>2, PTL DEF NodesSpec

-----------------------------------------------------------------------------
(* The settings, the budget of a turn, its shares and the trimming. *)

TurnStages == {"asked", "split", "trim", "written"}
(* The validator compares the cap with the base only where the file has both. *)
FileChecked == {"budget_base", "budget_hard_cap"} \subseteq DOMAIN file
             /\ settings["budget_confidence_multiplier"] >= 0 /\ settings["budget_complexity_max_bonus"] >= 0

(* From the load on the settings are an accepted file over the defaults. *)
LoadedInv ==
  /\ file \in TomlFiles /\ bstage \in {"unloaded", "refused", "loaded"} \cup TurnStages
  /\ bstage \notin {"unloaded", "refused"} => Accepted(file) /\ settings = Effective(file)

(* A turn has a budget, never below the base where cap and base were compared. *)
TurnInv ==
  bstage \in TurnStages =>
    /\ turn.budget \in Int /\ turn.mandatory \in Nat /\ turn.msgs \in Seq(Nat)
    /\ turn.claim \in {"l3_min_guarantee_tokens", "temporal_l3_guarantee_tokens"}
    /\ FileChecked => turn.budget >= file["budget_base"]

(* The shares are those of this turn, of these settings. *)
ShareInv ==
  bstage \in {"split", "trim", "written"} =>
    share = Allocate(Available, settings[turn.claim], settings["l2_floor_tokens"])

(* The messages kept are the last ones, and the first one where it alone fits;
   together they fit the share, or one stands alone. *)
TrimInv ==
  /\ bstage \notin {"trim", "written"} => keeps = {} /\ total = 0
  /\ bstage \in {"trim", "written"} =>
       /\ left \in 0 .. Len(turn.msgs) /\ total \in Nat
       /\ (left + 1) .. Len(turn.msgs) \subseteq keeps /\ keeps \subseteq ((left + 1) .. Len(turn.msgs)) \cup {1}
       /\ keeps \subseteq 1 .. Len(turn.msgs)
       /\ keeps = {} => total = 0 /\ left = Len(turn.msgs)
       /\ total <= share.l2 \/ \E m \in keeps : keeps = {m} /\ total = turn.msgs[m]
  /\ bstage = "written" =>
       /\ turn.msgs # <<>> => keeps # {}
       /\ spent \in Nat /\ spent <= total + Stamp * Cardinality(keeps)

BudgetInv == LoadedInv /\ TurnInv /\ ShareInv /\ TrimInv

LEMMA NatTimes == \A a, b \in Nat : a * b \in Nat
  OBVIOUS

LEMMA IntTimes == \A a, b \in Int : a * b \in Int
  OBVIOUS

(* What the validator lets through. *)
LEMMA LoadedSettings ==
  ASSUME BudgetAssumption, NEW given \in TomlFiles, Accepted(given)
  PROVE  /\ \A k \in Budgeted : Effective(given)[k] \in Int
         /\ \A k \in Positive : Effective(given)[k] \in Int /\ Effective(given)[k] > 0
         /\ \A k \in Budgeted \cap DOMAIN given : Effective(given)[k] = given[k]
<1>1. /\ Defaults \in [DOMAIN Defaults -> Int] /\ Budgeted \cup Positive \subseteq DOMAIN Defaults
      /\ given \in [DOMAIN given -> Int]
  BY DEF BudgetAssumption
<1>2. \A k \in DOMAIN Defaults : Effective(given)[k] = IF k \in DOMAIN given THEN given[k] ELSE Defaults[k]
  BY DEF Effective
<1>3. \A k \in Positive \cap DOMAIN given : given[k] > 0
  BY DEF Accepted
<1>4. \A k \in Positive : Defaults[k] > 0
  BY <1>1 DEF Accepted, BudgetAssumption
<1>. QED
  BY <1>1, <1>2, <1>3, <1>4

LEMMA ConfidenceCounts == \A certain, cues : cues \in Nat => Confidence(certain, cues) \in Nat
  BY DEF Confidence, Least

LEMMA ComplexityCounts == \A length, compound : length \in Nat => Complexity(length, compound) \in Nat
<1>. SUFFICES ASSUME NEW length \in Nat, NEW compound PROVE Complexity(length, compound) \in Nat
  OBVIOUS
<1>1. (Least(length, 200) * 70) \div 200 \in Nat
  BY DEF Least
<1>. HIDE DEF Least
<1>2. (IF compound THEN 30 ELSE 0) \in Nat
  OBVIOUS
<1>3. \A a, b \in Nat : Least(a + b, 100) \in Nat
  BY DEF Least
<1>. QED
  BY <1>1, <1>2, <1>3 DEF Complexity

LEMMA BudgetIsNotLess ==
  ASSUME NEW base \in Int, NEW cap \in Int, NEW p \in Int, NEW q \in Int
  PROVE  /\ Least((100 * base + p + q) \div 100, cap) \in Int
         /\ p >= 0 /\ q >= 0 /\ cap >= base => Least((100 * base + p + q) \div 100, cap) >= base
  BY DEF Least

LEMMA TurnBudget ==
  ASSUME BudgetAssumption, NEW given \in TomlFiles, Accepted(given), settings = Effective(given), file = given,
         NEW c \in Nat, NEW x \in Nat
  PROVE  IntentBudget(c, x) \in Int /\ (FileChecked => IntentBudget(c, x) >= file["budget_base"])
<1>. DEFINE base == settings["budget_base"]
            cap == settings["budget_hard_cap"]
            mult == settings["budget_confidence_multiplier"]
            bonus == settings["budget_complexity_max_bonus"]
<1>1. base \in Int /\ cap \in Int /\ mult \in Int /\ bonus \in Int
  BY LoadedSettings DEF Budgeted
<1>2. IntentBudget(c, x) = Least((100 * base + c * 10 * mult + x * bonus) \div 100, cap)
  BY DEF IntentBudget
<1>3. FileChecked => mult >= 0 /\ bonus >= 0 /\ base = file["budget_base"] /\ cap >= base
  BY LoadedSettings DEF FileChecked, Accepted, Budgeted
<1>. HIDE DEF base, cap, mult, bonus
<1>. DEFINE p == (c * 10) * mult
            q == x * bonus
<1>4. c * 10 \in Nat
  OBVIOUS
<1>5. p \in Int /\ q \in Int
  BY <1>1, <1>4, IntTimes
<1>6. mult >= 0 /\ bonus >= 0 => p >= 0 /\ q >= 0
  <2>1. mult >= 0 /\ bonus >= 0 => mult \in Nat /\ bonus \in Nat
    BY <1>1
  <2>2. mult \in Nat /\ bonus \in Nat => p \in Nat /\ q \in Nat
    BY <1>4, NatTimes
  <2>. QED
    BY <2>1, <2>2
<1>7. IntentBudget(c, x) = Least((100 * base + p + q) \div 100, cap)
  BY <1>2
<1>. HIDE DEF p, q
<1>8. Least((100 * base + p + q) \div 100, cap) \in Int
  BY <1>1, <1>5, BudgetIsNotLess
<1>9. FileChecked => Least((100 * base + p + q) \div 100, cap) >= base
  <2>1. FileChecked => p >= 0 /\ q >= 0 /\ cap >= base
    BY <1>3, <1>6
  <2>2. p >= 0 /\ q >= 0 /\ cap >= base => Least((100 * base + p + q) \div 100, cap) >= base
    BY <1>1, <1>5, BudgetIsNotLess
  <2>. QED
    BY <2>1, <2>2
<1>. QED
  BY <1>3, <1>7, <1>8, <1>9

(* The split. *)
LEMMA SplitSpends ==
  ASSUME NEW available \in Nat, NEW wanted \in Int, NEW floor \in Int, NEW s, s = Allocate(available, wanted, floor)
  PROVE  /\ s.l2 \in Nat /\ s.l3 \in Int
         /\ floor > 0 /\ wanted >= 0 =>
              /\ s.l2 \in Least(floor, available) .. available
              /\ s.l3 \in 0 .. Least(wanted, available - s.l2)
  BY DEF Allocate, Least, Most

LEMMA TurnAvailable ==
  ASSUME turn.budget \in Int, turn.mandatory \in Nat
  PROVE  Available \in Nat
  BY DEF Available, Most

LEMMA KeptAreCounted ==
  ASSUME BudgetAssumption, turn.msgs \in Seq(Nat), NEW some, some \subseteq 1 .. Len(turn.msgs)
  PROVE  Stamp * Cardinality(some) \in Nat
<1>1. IsFiniteSet(1 .. Len(turn.msgs))
  <2>1. Len(turn.msgs) \in Int /\ 1 \in Int
    OBVIOUS
  <2>. QED
    BY <2>1, FS_Interval
<1>2. Cardinality(some) \in Nat
  BY <1>1, FS_Subset, FS_CardinalityType
<1>3. Stamp \in Nat
  BY DEF BudgetAssumption
<1>. QED
  BY <1>2, <1>3, NatTimes

LEMMA BudgetBegins == BudgetInit => BudgetInv
  BY DEF BudgetInit, BudgetInv, LoadedInv, TurnInv, ShareInv, TrimInv, TurnStages

LEMMA LoadedStep == BudgetInv /\ [BudgetNext]_budvars => LoadedInv'
<1>. SUFFICES ASSUME BudgetInv, [BudgetNext]_budvars PROVE LoadedInv'
  OBVIOUS
<1>. USE DEF BudgetInv, LoadedInv, TurnStages
<1>1. CASE Load
  BY <1>1 DEF Load
<1>2. CASE AskTurn
  BY <1>2 DEF AskTurn
<1>3. CASE UNCHANGED budvars
  BY <1>3 DEF budvars
<1>4. CASE SplitShares \/ TrimBegins \/ TrimTakes \/ TrimEnds
  BY <1>4 DEF SplitShares, TrimBegins, TrimTakes, TrimEnds
<1>. QED
  BY <1>1, <1>2, <1>3, <1>4 DEF BudgetNext

LEMMA TurnStep == BudgetAssumption /\ BudgetInv /\ [BudgetNext]_budvars => TurnInv'
<1>. SUFFICES ASSUME BudgetAssumption, BudgetInv, [BudgetNext]_budvars PROVE TurnInv'
  OBVIOUS
<1>. USE DEF BudgetInv, TurnInv, TurnStages
<1>1. CASE Load
  BY <1>1 DEF Load, LoadedInv
<1>2. CASE AskTurn
  <2>1. PICK cues \in Cues, length \in Lengths, compound \in BOOLEAN, certain \in BOOLEAN, mandatory \in Mandatory,
             msgs \in Conversations, claim \in {"l3_min_guarantee_tokens", "temporal_l3_guarantee_tokens"} :
             turn' = [budget |-> IntentBudget(Confidence(certain, cues), Complexity(length, compound)),
                      mandatory |-> mandatory, claim |-> claim, msgs |-> msgs]
    BY <1>2 DEF AskTurn
  <2>2. Confidence(certain, cues) \in Nat /\ Complexity(length, compound) \in Nat
    BY ConfidenceCounts, ComplexityCounts DEF BudgetAssumption
  <2>3. file \in TomlFiles /\ Accepted(file) /\ settings = Effective(file)
    BY <1>2 DEF AskTurn, LoadedInv
  <2>4. turn'.budget \in Int /\ (FileChecked => turn'.budget >= file["budget_base"])
    BY <2>1, <2>2, <2>3, TurnBudget
  <2>5. turn'.mandatory \in Nat /\ turn'.msgs \in Seq(Nat) /\ turn'.claim \in {"l3_min_guarantee_tokens", "temporal_l3_guarantee_tokens"}
    BY <2>1 DEF BudgetAssumption
  <2>6. UNCHANGED <<file, settings>>
    BY <1>2 DEF AskTurn
  <2>7. FileChecked' <=> FileChecked
    BY <2>6 DEF FileChecked
  <2>. QED
    BY <2>4, <2>5, <2>6, <2>7
<1>3. CASE UNCHANGED budvars
  BY <1>3 DEF budvars, FileChecked
<1>4. CASE SplitShares \/ TrimBegins \/ TrimTakes \/ TrimEnds
  BY <1>4 DEF SplitShares, TrimBegins, TrimTakes, TrimEnds, FileChecked
<1>. QED
  BY <1>1, <1>2, <1>3, <1>4 DEF BudgetNext

LEMMA ShareStep == BudgetInv /\ [BudgetNext]_budvars => ShareInv'
<1>. SUFFICES ASSUME BudgetInv, [BudgetNext]_budvars PROVE ShareInv'
  OBVIOUS
<1>. USE DEF BudgetInv, ShareInv, Available
<1>1. CASE Load \/ AskTurn
  BY <1>1 DEF Load, AskTurn
<1>2. CASE SplitShares
  BY <1>2 DEF SplitShares
<1>3. CASE UNCHANGED budvars
  BY <1>3 DEF budvars
<1>4. CASE TrimBegins \/ TrimTakes \/ TrimEnds
  BY <1>4 DEF TrimBegins, TrimTakes, TrimEnds
<1>. QED
  BY <1>1, <1>2, <1>3, <1>4 DEF BudgetNext

LEMMA SplitHolds == BudgetAssumption /\ BudgetInv => SplitSound /\ (bstage \in {"split", "trim", "written"} => share.l2 \in Nat /\ share.l3 \in Int)
<1>. SUFFICES ASSUME BudgetAssumption, BudgetInv, bstage \in {"split", "trim", "written"}
              PROVE  SplitSound /\ share.l2 \in Nat /\ share.l3 \in Int
  BY DEF SplitSound
<1>1. Available \in Nat
  BY TurnAvailable DEF BudgetInv, TurnInv, TurnStages
<1>2. settings[turn.claim] \in Int /\ settings["l2_floor_tokens"] \in Int
  BY LoadedSettings DEF BudgetInv, LoadedInv, TurnInv, TurnStages, Budgeted
<1>3. share = Allocate(Available, settings[turn.claim], settings["l2_floor_tokens"])
  BY DEF BudgetInv, ShareInv
<1>. QED
  BY <1>1, <1>2, <1>3, SplitSpends DEF SplitSound, Honoured

LEMMA TrimStep == BudgetAssumption /\ BudgetInv /\ [BudgetNext]_budvars => TrimInv'
<1>. SUFFICES ASSUME BudgetAssumption, BudgetInv, [BudgetNext]_budvars PROVE TrimInv'
  OBVIOUS
<1>. USE DEF BudgetInv, TrimInv
<1>1. CASE Load \/ AskTurn \/ SplitShares
  BY <1>1 DEF Load, AskTurn, SplitShares
<1>2. CASE UNCHANGED budvars
  BY <1>2 DEF budvars
<1>3. CASE TrimBegins
  <2>1. turn.msgs \in Seq(Nat) /\ turn' = turn /\ left' = Len(turn.msgs) /\ keeps = {} /\ total = 0 /\ share' = share
    BY <1>3 DEF TrimBegins, TurnInv, TurnStages
  <2>2. share.l2 \in Nat
    BY <1>3, SplitHolds DEF TrimBegins
  <2>3. CASE Pinned(turn.msgs, share.l2)
    <3>1. keeps' = {1} /\ total' = turn.msgs[1] /\ Len(turn.msgs) > 1 /\ turn.msgs[1] \in Nat
      BY <1>3, <2>1, <2>3 DEF TrimBegins, Pinned
    <3>. QED
      BY <1>3, <2>1, <3>1 DEF TrimBegins
  <2>4. CASE ~Pinned(turn.msgs, share.l2)
    <3>1. keeps' = {} /\ total' = 0
      BY <1>3, <2>1, <2>4 DEF TrimBegins
    <3>2. total' <= share'.l2
      BY <2>1, <2>2, <3>1
    <3>3. bstage' = "trim" /\ UNCHANGED turn
      BY <1>3 DEF TrimBegins
    <3>4. /\ left' \in 0 .. Len(turn'.msgs) /\ (left' + 1) .. Len(turn'.msgs) = {}
      BY <2>1
    <3>. QED
      BY <2>1, <3>1, <3>2, <3>3, <3>4
  <2>. QED
    BY <2>3, <2>4
<1>4. CASE TrimTakes
  <2>. DEFINE n == Len(turn.msgs)
              size == turn.msgs[left]
  <2>1. turn.msgs \in Seq(Nat) /\ UNCHANGED <<turn, share, bstage>> /\ bstage = "trim"
    BY <1>4 DEF TrimTakes, TurnInv, TurnStages
  <2>2. share.l2 \in Nat
    BY <1>4, SplitHolds DEF TrimTakes
  <2>3. n \in Nat /\ left \in 1 .. n /\ left \notin keeps /\ size \in Nat
    <3>1. left \in 1 .. n /\ left \notin keeps
      BY <1>4 DEF TrimTakes, Remains
    <3>2. n \in Nat
      BY <2>1
    <3>3. size \in Nat
      BY <2>1, <3>1, ElementOfSeq
    <3>. QED
      BY <3>1, <3>2, <3>3
  <2>4. keeps' = keeps \cup {left} /\ total' = total + size /\ left' = left - 1
    BY <1>4 DEF TrimTakes
  <2>5. total + size <= share.l2 \/ keeps = {}
    BY <1>4 DEF TrimTakes, Fits
  <2>6. total' <= share'.l2 \/ \E m \in keeps' : keeps' = {m} /\ total' = turn'.msgs[m]
    BY <2>1, <2>3, <2>4, <2>5
  <2>. HIDE DEF size, n
  <2>7. /\ left' \in 0 .. n /\ total' \in Nat /\ (left' + 1) .. n \subseteq keeps'
        /\ keeps' \subseteq ((left' + 1) .. n) \cup {1} /\ keeps' \subseteq 1 .. n
    <3>1. (left + 1) .. n \subseteq keeps /\ keeps \subseteq ((left + 1) .. n) \cup {1} /\ keeps \subseteq 1 .. n /\ total \in Nat
      BY <2>1 DEF n
    <3>2. left' = left - 1 /\ left' + 1 = left /\ left .. n = {left} \cup ((left + 1) .. n) /\ left' \in 0 .. n
      BY <2>3, <2>4
    <3>3. total' \in Nat
      BY <2>3, <2>4, <3>1
    <3>. QED
      BY <2>3, <2>4, <3>1, <3>2, <3>3
  <2>. QED
    BY <2>1, <2>4, <2>6, <2>7 DEF n
<1>5. CASE TrimEnds
  <2>1. /\ turn.msgs \in Seq(Nat) /\ UNCHANGED <<turn, share, keeps, total, left>> /\ bstage = "trim" /\ bstage' = "written"
        /\ Remains => ~Fits
    BY <1>5 DEF TrimEnds, TurnInv, TurnStages
  <2>2. keeps \subseteq 1 .. Len(turn.msgs)
    BY <2>1
  <2>3. PICK stamps \in {0, Stamp * Cardinality(keeps)} : spent' = total + stamps
    BY <1>5 DEF TrimEnds
  <2>4. Stamp * Cardinality(keeps) \in Nat
    BY <2>1, <2>2, KeptAreCounted
  <2>5. spent' \in Nat /\ spent' <= total + Stamp * Cardinality(keeps)
    <3>. DEFINE most == Stamp * Cardinality(keeps)
    <3>1. most \in Nat /\ stamps \in {0, most} /\ total \in Nat
      BY <2>1, <2>4
    <3>. HIDE DEF most
    <3>2. spent' \in Nat /\ spent' <= total + most
      BY <2>3, <3>1
    <3>. QED
      BY <3>2 DEF most
  <2>6. turn.msgs # <<>> => keeps # {}
    BY <2>1 DEF Remains, Fits
  <2>. QED
    BY <2>1, <2>5, <2>6
<1>. QED
  BY <1>1, <1>2, <1>3, <1>4, <1>5 DEF BudgetNext

LEMMA BudgetInvMeans == BudgetAssumption /\ BudgetInv => SharesKept
<1>. SUFFICES ASSUME BudgetAssumption, BudgetInv PROVE SharesKept
  OBVIOUS
<1>1. SettingsSound
  BY LoadedSettings DEF SettingsSound, BudgetInv, LoadedInv, TurnInv, TurnStages, FileChecked
<1>2. SplitSound
  BY SplitHolds
<1>3. TrimSound
  <2>. SUFFICES ASSUME bstage = "written" PROVE TrimSound
    BY DEF TrimSound
  <2>1. turn.msgs # <<>> => keeps # {}
    BY DEF BudgetInv, TrimInv
  <2>2. \A i \in keeps \ {1} : i .. Len(turn.msgs) \subseteq keeps
    <3>1. /\ left \in 0 .. Len(turn.msgs) /\ (left + 1) .. Len(turn.msgs) \subseteq keeps
          /\ keeps \subseteq ((left + 1) .. Len(turn.msgs)) \cup {1}
      BY DEF BudgetInv, TrimInv
    <3>2. Len(turn.msgs) \in Nat
      BY DEF BudgetInv, TurnInv, TurnStages
    <3>. QED
      BY <3>1, <3>2
  <2>3. ASSUME Honoured, LeftForL3 + Stamp * Cardinality(keeps) < share.l3
        PROVE  \E m \in keeps : keeps = {m} /\ turn.msgs[m] > share.l2
    <3>. DEFINE most == Stamp * Cardinality(keeps)
    <3>1. keeps \subseteq 1 .. Len(turn.msgs) /\ total \in Nat /\ spent \in Nat /\ spent <= total + most
      BY DEF BudgetInv, TrimInv
    <3>2. most \in Nat
      BY <3>1, KeptAreCounted DEF BudgetInv, TurnInv, TurnStages
    <3>3. turn.budget \in Int /\ turn.mandatory \in Nat
      BY DEF BudgetInv, TurnInv, TurnStages
    <3>4. share.l2 \in Nat /\ share.l3 \in Int
      BY SplitHolds
    <3>5. share.l2 <= Available /\ share.l3 <= Available - share.l2
      <4>1. Available \in Nat
        BY <3>3, TurnAvailable
      <4>2. settings[turn.claim] \in Int
        BY LoadedSettings DEF BudgetInv, LoadedInv, TurnInv, TurnStages, Budgeted
      <4>3. share.l2 \in Least(settings["l2_floor_tokens"], Available) .. Available
        BY <2>3, <1>2 DEF SplitSound
      <4>4. share.l3 \in 0 .. Least(settings[turn.claim], Available - share.l2)
        BY <2>3, <1>2 DEF SplitSound
      <4>. QED
        BY <3>4, <4>1, <4>2, <4>3, <4>4 DEF Least
    <3>. HIDE DEF most
    <3>6. ~(total <= share.l2)
      <4>1. LeftForL3 + most < share.l3
        BY <2>3 DEF most
      <4>. QED
        <5>1. LeftForL3 \in Int /\ Available \in Int /\ Available - spent <= LeftForL3
          BY <3>1, <3>3 DEF LeftForL3, Available, Most
        <5>. QED
          BY <3>1, <3>2, <3>4, <3>5, <4>1, <5>1
    <3>. QED
      BY <3>1, <3>4, <3>6 DEF BudgetInv, TrimInv
  <2>. QED
    BY <2>1, <2>2, <2>3 DEF TrimSound
<1>. QED
  BY <1>1, <1>2, <1>3 DEF SharesKept
(* Whatever file is loaded and however long the conversation: the settings in
   use are sound, the two shares never exceed what the budget leaves and have
   their floor, and the messages kept fit their share unless one stands alone
   (validate_config, calculate_intent_budget, allocate_context_budget, trim_recent_messages). *)
THEOREM SharesAreKept == BudgetSpec => []SharesKept
<1>1. BudgetInv /\ [BudgetNext]_budvars => BudgetInv'
  BY BudgetAssumption, LoadedStep, TurnStep, ShareStep, TrimStep DEF BudgetInv
<1>2. BudgetInv => SharesKept
  BY BudgetAssumption, BudgetInvMeans
<1>. QED
  BY BudgetBegins, <1>1, <1>2, PTL DEF BudgetSpec

-----------------------------------------------------------------------------
(* The spans of an entry.  The sums of the costs exist and rise; then what End
   and NextStart return. *)

Costs == words \in Seq(Nat \ {0})

(* A set of numbers that is not empty has a least one. *)
LEMMA LeastOf ==
  ASSUME NEW S, S \subseteq Nat, S # {}
  PROVE  \E i \in S : \A j \in S : i <= j
<1>1. PICK i \in S : \A j \in S : <<j, i>> \notin OpToRel(<, Nat)
  BY NatLessThanWellFounded, WFMin
<1>2. ASSUME NEW j \in S PROVE i <= j
  <2>1. ~(j < i) /\ i \in Nat /\ j \in Nat
    BY <1>1 DEF OpToRel
  <2>. QED
    BY <2>1
<1>. QED
  BY <1>2

(* The running sum exists: a least length for which it did not would be one
   more than a length for which it does. *)
LEMMA SumExists ==
  ASSUME NEW of, NEW N \in Nat
  PROVE  \A n \in 0 .. N : RunningSum(of, N)[n] = IF n = 0 THEN 0 ELSE RunningSum(of, N)[n - 1] + of[n]
<1>. DEFINE sum == RunningSum(of, N)
            Builds(g, n) == \A k \in 0 .. n : g[k] = IF k = 0 THEN 0 ELSE g[k - 1] + of[k]
            bad == {n \in 0 .. N : ~\E g : Builds(g, n)}
<1>1. bad = {}
  <2>. SUFFICES ASSUME bad # {} PROVE FALSE
    OBVIOUS
  <2>1. bad \subseteq Nat
    OBVIOUS
  <2>2. PICK n \in bad : \A m \in bad : <<m, n>> \notin OpToRel(<, Nat)
    BY <2>1, NatLessThanWellFounded, WFMin
  <2>3. n # 0
    <3>1. Builds([k \in 0 .. 0 |-> 0], 0)
      OBVIOUS
    <3>. QED
      BY <2>2, <3>1
  <2>4. n \in 0 .. N /\ n \in Nat /\ n - 1 \in 0 .. N /\ n - 1 \in Nat /\ n - 1 < n
    <3>1. n \in 0 .. N
      BY <2>2
    <3>. QED
      BY <2>3, <3>1
  <2>5. n - 1 \notin bad
    BY <2>2, <2>4 DEF OpToRel
  <2>6. PICK g : Builds(g, n - 1)
    BY <2>4, <2>5
  <2>. DEFINE h == [k \in 0 .. n |-> IF k = n THEN g[n - 1] + of[n] ELSE g[k]]
  <2>7. Builds(h, n)
    BY <2>3, <2>4, <2>6
  <2>. QED
    BY <2>2, <2>7
<1>2. N \in 0 .. N
  OBVIOUS
<1>3. PICK g : Builds(g, N)
  BY <1>1, <1>2
<1>. DEFINE h == [n \in 0 .. N |-> g[n]]
<1>4. h = [n \in 0 .. N |-> IF n = 0 THEN 0 ELSE h[n - 1] + of[n]]
  BY <1>3
<1>. HIDE DEF h
<1>5. sum = [n \in 0 .. N |-> IF n = 0 THEN 0 ELSE sum[n - 1] + of[n]]
  BY <1>4 DEF RunningSum
<1>. QED
  BY <1>5

LEMMA SumsBuild ==
  ASSUME Costs
  PROVE  \A n \in 0 .. Len(words) : Sums[n] = IF n = 0 THEN 0 ELSE Sums[n - 1] + words[n]
<1>1. Sums = RunningSum(words, Len(words))
  BY DEF Sums, RunningSum
<1>2. Len(words) \in Nat
  BY DEF Costs
<1>. QED
  BY <1>1, <1>2, SumExists

LEMMA SumsNat ==
  ASSUME Costs, NEW n \in 0 .. Len(words)
  PROVE  Sums[n] \in Nat
<1>. DEFINE bad == {k \in 0 .. Len(words) : Sums[k] \notin Nat}
<1>0. Len(words) \in Nat
  BY DEF Costs
<1>1. bad \subseteq Nat
  BY <1>0
<1>2. ASSUME bad # {} PROVE FALSE
  <2>1. PICK k \in bad : \A m \in bad : k <= m
    <3>. HIDE DEF bad
    <3>. QED
      BY <1>1, <1>2, LeastOf
  <2>2. k \in 0 .. Len(words) /\ k \in Nat /\ Sums[k] \notin Nat
    BY <1>0, <2>1
  <2>3. k # 0
    BY <2>2, SumsBuild
  <2>4. k - 1 \in 0 .. Len(words) /\ ~(k <= k - 1) /\ k \in 1 .. Len(words)
    BY <1>0, <2>2, <2>3
  <2>5. Sums[k - 1] \in Nat
    BY <2>1, <2>4
  <2>6. words[k] \in Nat
    BY <2>4, ElementOfSeq DEF Costs
  <2>7. Sums[k] = Sums[k - 1] + words[k]
    BY <2>2, <2>3, SumsBuild
  <2>. QED
    BY <2>2, <2>5, <2>6, <2>7
<1>. QED
  BY <1>2

\* More words cost no less.
LEMMA CostRises ==
  ASSUME Costs, NEW a \in 0 .. Len(words), NEW b \in 0 .. Len(words), a <= b
  PROVE  Sums[a] <= Sums[b] /\ Cost(a, b) \in Nat
<1>. DEFINE bad == {k \in a .. Len(words) : ~(Sums[a] <= Sums[k])}
<1>0. Len(words) \in Nat /\ a \in Nat /\ b \in Nat
  BY DEF Costs
<1>1. bad \subseteq Nat
  BY <1>0
<1>2. ASSUME bad # {} PROVE FALSE
  <2>1. PICK k \in bad : \A m \in bad : k <= m
    <3>. HIDE DEF bad
    <3>. QED
      BY <1>1, <1>2, LeastOf
  <2>2. k \in a .. Len(words) /\ k \in Nat /\ ~(Sums[a] <= Sums[k])
    BY <1>0, <2>1
  <2>8. Sums[a] \in Nat
    BY SumsNat
  <2>3. k # a
    BY <2>2, <2>8
  <2>4. k - 1 \in a .. Len(words) /\ ~(k <= k - 1) /\ k \in 1 .. Len(words) /\ k # 0 /\ k \in 0 .. Len(words) /\ k - 1 \in 0 .. Len(words)
    BY <1>0, <2>2, <2>3
  <2>5. Sums[a] <= Sums[k - 1]
    BY <2>1, <2>4
  <2>6. words[k] \in Nat
    BY <2>4, ElementOfSeq DEF Costs
  <2>7. Sums[k] = Sums[k - 1] + words[k] /\ Sums[k - 1] \in Nat
    BY <2>4, SumsBuild, SumsNat
  <2>. QED
    BY <2>2, <2>5, <2>6, <2>7, <2>8
<1>3. Sums[a] <= Sums[b]
  BY <1>0, <1>2
<1>4. Sums[a] \in Nat /\ Sums[b] \in Nat
  BY SumsNat
<1>. QED
  BY <1>3, <1>4 DEF Cost

LEMMA SmallestIsOne ==
  ASSUME NEW S, S \subseteq Nat, S # {}
  PROVE  Smallest(S) \in S
BY LeastOf DEF Smallest

LEMMA GreatestIsOne ==
  ASSUME NEW n \in Nat, NEW S, S \subseteq 0 .. n, S # {}
  PROVE  Greatest(S) \in S /\ \A j \in S : j <= Greatest(S)
<1>. DEFINE below == {n - j : j \in S}
<1>1. PICK i \in below : \A j \in below : <<j, i>> \notin OpToRel(<, Nat)
  <2>1. \A j \in S : n - j \in Nat
    OBVIOUS
  <2>2. below \subseteq Nat /\ below # {}
    BY <2>1
  <2>. QED
    BY <2>2, NatLessThanWellFounded, WFMin
<1>2. PICK g \in S : i = n - g
  BY <1>1
<1>3. ASSUME NEW j \in S PROVE j <= g
  <2>1. n - j \in below /\ n - j \in Nat /\ i \in Nat /\ j \in Nat /\ g \in Nat
    BY <1>2
  <2>2. ~(n - j < i)
    BY <1>1, <2>1 DEF OpToRel
  <2>. QED
    BY <1>2, <2>1, <2>2
<1>. QED
  BY <1>3 DEF Greatest

(* A span has a word, fits or is one word, and no longer one does. *)
LEMMA EndFits ==
  ASSUME Costs, NEW a \in 0 .. Len(words) - 1
  PROVE  /\ End(a) \in a + 1 .. Len(words) /\ (End(a) = a + 1 \/ Cost(a, End(a)) <= Target)
         /\ \A b \in a + 1 .. Len(words) : b = a + 1 \/ Cost(a, b) <= Target => b <= End(a)
<1>. DEFINE S == {b \in a + 1 .. Len(words) : b = a + 1 \/ Cost(a, b) <= Target}
<1>0. Len(words) \in Nat
  BY DEF Costs
<1>1. S \subseteq 0 .. Len(words) /\ a + 1 \in S
  BY <1>0
<1>2. End(a) = Greatest(S)
  BY DEF End
<1>3. Greatest(S) \in S /\ \A j \in S : j <= Greatest(S)
  <2>1. S # {}
    BY <1>1
  <2>. HIDE DEF S
  <2>. QED
    BY <1>0, <1>1, <2>1, GreatestIsOne
<1>. QED
  BY <1>2, <1>3

(* The overlap leaves the first word of the span behind. *)
LEMMA NextStartAdvances ==
  ASSUME Costs, NEW a \in 0 .. Len(words) - 1, NEW b \in a + 1 .. Len(words)
  PROVE  NextStart(a, b) \in a + 1 .. b
<1>. DEFINE S == {c \in a + 1 .. b : Cost(c, b) <= Overlap}
<1>0. Len(words) \in Nat /\ a \in Nat /\ b \in Nat /\ b \in 0 .. Len(words)
  BY DEF Costs
<1>1. b \in S /\ S \subseteq Nat
  <2>1. Sums[b] \in Nat
    BY <1>0, SumsNat
  <2>2. Cost(b, b) = 0
    BY <2>1 DEF Cost
  <2>3. Overlap \in Nat
    BY ChunkAssumption
  <2>4. b \in a + 1 .. b
    BY <1>0
  <2>. QED
    BY <1>0, <2>2, <2>3, <2>4
<1>2. Smallest(S) \in S
  <2>. HIDE DEF S
  <2>. QED
    BY <1>1, SmallestIsOne
<1>. QED
  BY <1>2 DEF NextStart

\* A span that begins within another one ends no earlier than it does.
LEMMA EndsRise ==
  ASSUME Costs, NEW a \in 0 .. Len(words) - 1, NEW c \in a + 1 .. End(a), End(a) # Len(words)
  PROVE  c \in 0 .. Len(words) - 1 /\ End(a) <= End(c)
<1>1. /\ End(a) \in a + 1 .. Len(words) /\ (End(a) = a + 1 \/ Cost(a, End(a)) <= Target)
  BY EndFits
<1>0. Len(words) \in Nat /\ a \in Nat /\ c \in Nat /\ End(a) \in Nat /\ End(a) < Len(words)
  BY <1>1 DEF Costs
<1>2. c \in 0 .. Len(words) - 1 /\ End(a) \in 0 .. Len(words) /\ c \in 0 .. Len(words) /\ a \in 0 .. Len(words)
  BY <1>0, <1>1
<1>3. End(c) \in c + 1 .. Len(words) /\ \A b \in c + 1 .. Len(words) : b = c + 1 \/ Cost(c, b) <= Target => b <= End(c)
  BY <1>2, EndFits
<1>4. CASE c = End(a)
  BY <1>0, <1>2, <1>3, <1>4
<1>5. CASE c # End(a)
  <2>1. End(a) # a + 1 /\ Cost(a, End(a)) <= Target /\ End(a) \in c + 1 .. Len(words) /\ a <= c
    BY <1>0, <1>1, <1>5
  <2>2. Sums[a] <= Sums[c] /\ Sums[a] \in Nat /\ Sums[c] \in Nat /\ Sums[End(a)] \in Nat
    BY <1>2, <2>1, CostRises, SumsNat
  <2>3. Cost(c, End(a)) <= Target
    BY <2>1, <2>2, ChunkAssumption DEF Cost
  <2>. QED
    BY <1>2, <1>3, <2>1, <2>3
<1>. QED
  BY <1>4, <1>5

(* The spans so far, and that the next one begins within the last and will end
   no earlier: the word the cutting goes on with is not in what SpansSound says. *)
SpanInv ==
  /\ Costs
  /\ spans \in Seq(Nat \X Nat) /\ from \in Nat
  /\ words = <<>> => from = 0 /\ spans \in {<<>>, <<<<0, 0>>>>}
  /\ words # <<>> =>
       /\ spans = <<>> => from = 0
       /\ spans # <<>> => spans[1][1] = 0
       /\ ~Whole => from \in 0 .. Len(words) - 1
       /\ ~Whole /\ spans # <<>> =>
            LET s == spans[Len(spans)] IN s[1] < from /\ from <= s[2] /\ s[2] <= End(from)
       /\ \A i \in 1 .. Len(spans) :
            /\ spans[i][1] < spans[i][2]
            /\ i > 1 => spans[i - 1][1] < spans[i][1] /\ spans[i][1] <= spans[i - 1][2] /\ spans[i - 1][2] <= spans[i][2]
            /\ Cost(spans[i][1], spans[i][2]) > Target => spans[i][2] = spans[i][1] + 1

LEMMA SumsStay == words' = words => Sums' = Sums
  BY DEF Sums

LEMMA EndStay == ASSUME words' = words, NEW a PROVE End(a)' = End(a)
<1>1. Sums' = Sums
  BY SumsStay
<1>. QED
  BY <1>1 DEF End, Greatest, Cost

LEMMA ChunkStarts == ChunkInit => SpanInv
<1>. SUFFICES ASSUME ChunkInit PROVE SpanInv
  OBVIOUS
<1>1. Costs /\ spans = <<>> /\ from = 0
  BY ChunkAssumption DEF ChunkInit, Costs
<1>2. words # <<>> => 0 \in 0 .. Len(words) - 1
  BY <1>1, EmptySeq DEF Costs
<1>. QED
  BY <1>1, <1>2 DEF SpanInv, Whole

LEMMA ChunkStep == SpanInv /\ [ChunkNext]_chunkvars => SpanInv'
<1>. SUFFICES ASSUME SpanInv, [ChunkNext]_chunkvars PROVE SpanInv'
  OBVIOUS
<1>0. Costs /\ Len(words) \in Nat
  BY DEF SpanInv, Costs
<1>1. CASE Empty
  <2>1. words' = <<>> /\ spans' = <<<<0, 0>>>> /\ from' = 0 /\ words = <<>>
    BY <1>1 DEF Empty, SpanInv
  <2>2. spans' \in Seq(Nat \X Nat) /\ Costs'
    BY <1>0, <2>1 DEF Costs
  <2>. QED
    BY <2>1, <2>2 DEF SpanInv
<1>2. CASE Span
  <2>. DEFINE b == End(from)
              n == Len(spans)
  <2>0. /\ words # <<>> /\ ~Whole /\ words' = words /\ spans' = Append(spans, <<from, b>>)
        /\ from' = IF b = Len(words) THEN from ELSE NextStart(from, b)
    BY <1>2 DEF Span
  <2>1. from \in 0 .. Len(words) - 1 /\ spans \in Seq(Nat \X Nat) /\ from \in Nat /\ n \in Nat
    BY <2>0 DEF SpanInv
  <2>2. b \in from + 1 .. Len(words) /\ (b = from + 1 \/ Cost(from, b) <= Target) /\ b \in Nat /\ from < b
    BY <1>0, <2>1, EndFits
  <2>3. /\ spans' \in Seq(Nat \X Nat) /\ Len(spans') = n + 1 /\ spans'[n + 1] = <<from, b>>
        /\ \A i \in 1 .. n : spans'[i] = spans[i]
    <3>1. <<from, b>> \in Nat \X Nat
      BY <2>1, <2>2
    <3>. HIDE DEF b
    <3>. QED
      BY <2>0, <2>1, <3>1
  <2>4. Sums' = Sums /\ \A c : End(c)' = End(c)
    BY <2>0, SumsStay, EndStay
  <2>5. Whole' <=> b = Len(words)
    <3>. HIDE DEF b
    <3>1. spans' # <<>> /\ spans'[Len(spans')][2] = b
      BY <2>1, <2>3
    <3>. QED
      BY <2>0, <3>1 DEF Whole
  <2>6. spans # <<>> => LET s == spans[n] IN s[1] < from /\ from <= s[2] /\ s[2] <= b
    BY <2>0 DEF SpanInv
  <2>7. ~Whole' => from' \in from + 1 .. b /\ from' \in 0 .. Len(words) - 1 /\ b <= End(from')
    <3>. SUFFICES ASSUME ~Whole' PROVE from' \in from + 1 .. b /\ from' \in 0 .. Len(words) - 1 /\ b <= End(from')
      OBVIOUS
    <3>1. b # Len(words) /\ from' = NextStart(from, b)
      BY <2>0, <2>5
    <3>2. from' \in from + 1 .. b
      BY <1>0, <2>1, <2>2, <3>1, NextStartAdvances
    <3>. QED
      BY <1>0, <2>1, <3>1, <3>2, EndsRise
  <2>8. from' \in Nat
    BY <1>0, <2>0, <2>1, <2>2, <2>5, <2>7
  <2>9. spans # <<>> => spans[1][1] = 0
    BY <2>0 DEF SpanInv
  <2>10. spans = <<>> => from = 0
    BY <2>0 DEF SpanInv
  <2>11. spans'[1][1] = 0
    <3>. HIDE DEF b
    <3>1. CASE spans = <<>>
      BY <2>1, <2>3, <2>10, <3>1
    <3>2. CASE spans # <<>>
      <4>1. 1 \in 1 .. n
        BY <2>1, <3>2
      <4>. QED
        BY <2>3, <2>9, <3>2, <4>1
    <3>. QED
      BY <3>1, <3>2
  <2>12. ASSUME NEW i \in 1 .. n + 1
         PROVE  /\ spans'[i][1] < spans'[i][2]
                /\ i > 1 => /\ spans'[i - 1][1] < spans'[i][1] /\ spans'[i][1] <= spans'[i - 1][2]
                            /\ spans'[i - 1][2] <= spans'[i][2]
                /\ Cost(spans'[i][1], spans'[i][2]) > Target => spans'[i][2] = spans'[i][1] + 1
    <3>1. CASE i = n + 1
      <4>2. Cost(from, b) \in Int
        <5>1. from \in 0 .. Len(words) /\ b \in 0 .. Len(words)
          BY <1>0, <2>1, <2>2
        <5>. HIDE DEF b
        <5>. QED
          BY <1>0, <5>1, SumsNat DEF Cost
      <4>3. Cost(from, b) > Target => b = from + 1
        <5>. HIDE DEF b
        <5>. QED
          BY <2>2, <4>2, ChunkAssumption
      <4>4. i > 1 => spans # <<>> /\ i - 1 = n /\ spans'[i - 1] = spans[n]
        <5>1. i > 1 => n \in 1 .. n /\ i - 1 = n
          BY <2>1, <3>1
        <5>2. n \in 1 .. n => spans # <<>>
          BY <2>1
        <5>. QED
          BY <2>3, <5>1, <5>2
      <4>5. i > 1 => spans'[i - 1][1] < from /\ from <= spans'[i - 1][2] /\ spans'[i - 1][2] <= b
        BY <2>6, <4>4
      <4>. HIDE DEF b
      <4>6. spans'[i][1] = from /\ spans'[i][2] = b
        BY <2>3, <3>1
      <4>. QED
        BY <2>2, <4>3, <4>5, <4>6
    <3>2. CASE i # n + 1
      <4>1. i \in 1 .. n /\ (i > 1 => i - 1 \in 1 .. n)
        BY <2>1, <3>2
      <4>2. /\ spans[i][1] < spans[i][2]
            /\ i > 1 => spans[i - 1][1] < spans[i][1] /\ spans[i][1] <= spans[i - 1][2] /\ spans[i - 1][2] <= spans[i][2]
            /\ Cost(spans[i][1], spans[i][2]) > Target => spans[i][2] = spans[i][1] + 1
        BY <2>0, <4>1 DEF SpanInv
      <4>. QED
        BY <2>3, <4>1, <4>2
    <3>. QED
      BY <3>1, <3>2
  <2>13. Costs'
    BY <1>0, <2>0 DEF Costs
  <2>14. ~Whole' => LET s == spans'[Len(spans')] IN s[1] < from' /\ from' <= s[2] /\ s[2] <= End(from')
    <3>. SUFFICES ASSUME ~Whole' PROVE from < from' /\ from' <= b /\ b <= End(from')
      <4>. HIDE DEF b
      <4>. QED
        BY <2>1, <2>3
    <3>. QED
      BY <2>1, <2>2, <2>7
  <2>15. \A c : End(c)' = End(c)
    BY <2>4
  <2>16. from' \in Nat /\ (~Whole' => from' \in 0 .. Len(words') - 1)
    BY <2>0, <2>7, <2>8
  <2>17. \A c, e : Cost(c, e)' = Cost(c, e)
    BY <2>4 DEF Cost
  <2>. HIDE DEF b
  <2>18. spans' # <<>>
    BY <2>1, <2>3
  <2>. QED
    BY <2>0, <2>3, <2>11, <2>12, <2>13, <2>14, <2>15, <2>16, <2>17, <2>18 DEF SpanInv
<1>3. CASE UNCHANGED chunkvars
  <2>1. words' = words /\ from' = from /\ spans' = spans
    BY <1>3 DEF chunkvars
  <2>2. Sums' = Sums /\ (\A c : End(c)' = End(c)) /\ (Whole' <=> Whole) /\ (Costs' <=> Costs)
    BY <2>1, SumsStay, EndStay DEF Whole, Costs
  <2>. QED
    BY <2>1, <2>2 DEF SpanInv, Cost
<1>. QED
  BY <1>1, <1>2, <1>3 DEF ChunkNext


LEMMA SpanInvMeans == SpanInv => SpansSound
<1>. SUFFICES ASSUME SpanInv PROVE SpansSound
  OBVIOUS
<1>. DEFINE n == Len(spans)
<1>0. spans \in Seq(Nat \X Nat) /\ n \in Nat /\ Costs /\ Len(words) \in Nat
  BY DEF SpanInv, Costs
<1>1. CASE words = <<>>
  <2>1. spans \in {<<>>, <<<<0, 0>>>>} /\ Costs
    BY <1>1 DEF SpanInv
  <2>2. \A k \in 1 .. n : k = 1 /\ spans[k] = <<0, 0>>
    <3>1. spans = <<>> => n = 0
      OBVIOUS
    <3>2. spans = <<<<0, 0>>>> => n = 1 /\ spans[1] = <<0, 0>>
      OBVIOUS
    <3>. HIDE DEF n
    <3>. QED
      BY <2>1, <3>1, <3>2
  <2>3. Cost(0, 0) = 0 /\ Target \in Nat
    <3>1. Sums[0] \in Nat
      BY <1>0, SumsNat
    <3>. QED
      BY <3>1, ChunkAssumption DEF Cost
  <2>4. Records = {}
    BY <2>2 DEF Records
  <2>5. \A k \in 1 .. n : ~(k > 1) /\ ~(Cost(spans[k][1], spans[k][2]) > Target)
    BY <2>2, <2>3
  <2>6. Whole => spans[1][1] = 0
    BY <1>1, <2>1 DEF Whole
  <2>. QED
    BY <1>1, <2>4, <2>5, <2>6 DEF SpansSound
<1>2. CASE words # <<>>
  <2>1. /\ spans # <<>> => spans[1][1] = 0
        /\ \A k \in 1 .. n :
             /\ spans[k][1] < spans[k][2]
             /\ k > 1 => spans[k - 1][1] < spans[k][1] /\ spans[k][1] <= spans[k - 1][2] /\ spans[k - 1][2] <= spans[k][2]
             /\ Cost(spans[k][1], spans[k][2]) > Target => spans[k][2] = spans[k][1] + 1
    BY <1>2 DEF SpanInv
  <2>2. Records = 1 .. n
    BY <2>1 DEF Records
  <2>3. ASSUME Whole PROVE n \in Nat \ {0} /\ spans # <<>>
    BY <1>0, <1>2, <2>3 DEF Whole
  <2>4. ASSUME NEW k \in 1 .. n
        PROVE  WindowText(k, 1)[1] <= spans[k][1] /\ spans[k][2] <= WindowText(k, 1)[2]
    <3>0. k \in Nat /\ spans[k] \in Nat \X Nat /\ k \in 1 .. n
      BY <1>0, <2>4, ElementOfSeq
    <3>1. WindowText(k, 1) = <<spans[Clamp(k - 1)][1], spans[Clamp(k + 1)][2]>>
      BY DEF WindowText
    <3>2. spans[Clamp(k - 1)][1] <= spans[k][1]
      <4>1. CASE k = 1
        BY <1>0, <3>0, <4>1 DEF Clamp
      <4>2. CASE k # 1
        <5>0. k - 1 \in 1 .. n /\ k > 1
          <6>1. k \in 1 .. n /\ n \in Nat
            BY <1>0, <3>0
          <6>. HIDE DEF n
          <6>. QED
            BY <4>2, <6>1
        <5>1. Clamp(k - 1) = k - 1
          BY <1>0, <5>0 DEF Clamp
        <5>2. spans[k - 1][1] < spans[k][1] /\ spans[k - 1] \in Nat \X Nat
          BY <1>0, <2>1, <5>0, ElementOfSeq
        <5>. QED
          BY <3>0, <5>1, <5>2
      <4>. QED
        BY <4>1, <4>2
    <3>3. spans[k][2] <= spans[Clamp(k + 1)][2]
      <4>1. CASE k = n
        BY <1>0, <3>0, <4>1 DEF Clamp
      <4>2. CASE k # n
        <5>1. k + 1 \in 1 .. n /\ k + 1 > 1 /\ k + 1 - 1 = k
          BY <1>0, <3>0, <4>2
        <5>2. Clamp(k + 1) = k + 1
          BY <1>0, <5>1 DEF Clamp
        <5>. QED
          BY <2>1, <5>1, <5>2
      <4>. QED
        BY <4>1, <4>2
    <3>. QED
      BY <3>1, <3>2, <3>3
  <2>. QED
    BY <1>2, <2>1, <2>2, <2>3, <2>4 DEF SpansSound
<1>. QED
  BY <1>1, <1>2

(* However the words of an entry cost, whatever the target and the overlap: the
   spans advance, none skips a word or outgrows the target but one of a single
   word, and the text shown for a chunk holds the chunk (memory/episodic/chunks.py). *)
THEOREM SpansAreSound == ChunkSpec => []SpansSound
<1>. QED
  BY ChunkStarts, ChunkStep, SpanInvMeans, PTL DEF ChunkSpec

-----------------------------------------------------------------------------
(* The window of a temporal query. *)

LEMMA FirstIsOne ==
  ASSUME NEW S, S \subseteq Nat, S # {}
  PROVE  First(S) \in S /\ \A j \in S : First(S) <= j
BY LeastOf DEF First

(* The first of fragments that were kept is no filler. *)
LEMMA FirstOfKept ==
  ASSUME NEW found \in Seq(Fragments), NEW S, S \subseteq DropFillers(found), S # {}
  PROVE  /\ First(S) \in S /\ First(S) \in 1 .. Len(found)
         /\ "filler" \notin found[First(S)] /\ found[First(S)] \in Fragments
<1>1. S \subseteq 1 .. Len(found) /\ S \subseteq Nat
  BY DEF DropFillers
<1>2. First(S) \in S /\ First(S) \in 1 .. Len(found)
  BY <1>1, FirstIsOne
<1>3. "filler" \notin found[First(S)]
  BY <1>2 DEF DropFillers
<1>. QED
  BY <1>2, <1>3, ElementOfSeq

(* The fragment picked is kept, and the first that names an hour where one
   does; from the second reading one comes only if that one's year cannot be
   meant. *)
TempInv ==
  /\ query \in Queries /\ tstage \in {"asked", "picked", "sound", "done"}
  /\ tstage \in {"asked", "picked", "sound"} => interval = NoInterval
  /\ tstage = "picked" =>
       /\ query.flags \cap {"digest", "raises"} = {} /\ "filler" \notin picked[1]
       /\ Hours(query.found) # {} => picked[1] = query.found[First(Hours(query.found))]
  /\ tstage = "sound" =>
       /\ "digest" \notin query.flags /\ "filler" \notin picked[1] /\ "plausible" \in picked[1]
       /\ "trailing" \in query.flags
       /\ Hours(query.found) # {} => "plausible" \notin query.found[First(Hours(query.found))]
  /\ WindowIsMeant

LEMMA TempStep == TempInv /\ [TempNext]_tempvars => TempInv'
<1>. SUFFICES ASSUME TempInv, [TempNext]_tempvars PROVE TempInv'
  OBVIOUS
<1>. DEFINE H == Hours(query.found)
            best == query.found[First(H)]
<1>0. query \in Queries /\ query.found \in Seq(Fragments) /\ query.again \in Seq(Fragments) /\ query' = query
  BY QueriesAssumption DEF TempInv, TempNext, tempvars, Parse, Retry, OpenWindow
<1>1. CASE Parse
  <2>1. interval' = NoInterval
    BY <1>1 DEF Parse, TempInv
  <2>2. CASE query.flags \cap {"digest", "raises"} # {} \/ DropFillers(query.found) = {}
    <3>1. tstage' = "done"
      BY <1>1, <2>2 DEF Parse
    <3>2. query.flags \cap {"digest", "raises"} # {} \/ H = {}
      BY <2>2 DEF Hours
    <3>3. WindowIsMeant'
      BY <1>0, <2>1, <3>2 DEF WindowIsMeant, NoInterval
    <3>. QED
      BY <1>0, <3>1, <3>3 DEF TempInv
  <2>3. CASE query.flags \cap {"digest", "raises"} = {} /\ DropFillers(query.found) # {}
    <3>1. picked'[1] = Precise(query.found) /\ tstage' = "picked"
      BY <1>1, <2>3 DEF Parse
    <3>2. H # {} => Precise(query.found) = best
      BY DEF Precise
    <3>3. H = {} => Precise(query.found) = query.found[First(DropFillers(query.found))]
      BY DEF Precise
    <3>4. H # {} => "filler" \notin Precise(query.found)
      BY <1>0, <3>2, FirstOfKept DEF Hours
    <3>5. "filler" \notin Precise(query.found)
      BY <1>0, <2>3, <3>3, <3>4, FirstOfKept
    <3>. QED
      BY <1>0, <2>1, <2>3, <3>1, <3>2, <3>5 DEF TempInv, WindowIsMeant
  <2>. QED
    BY <2>2, <2>3
<1>2. CASE Retry
  <2>. DEFINE again == query.again[First(DropFillers(query.again))]
  <2>1. interval' = NoInterval /\ "digest" \notin query.flags /\ (H # {} => "plausible" \notin best)
    BY <1>2 DEF Retry, TempInv
  <2>2. CASE tstage' = "sound"
    <3>1. picked'[1] = again /\ DropFillers(query.again) # {} /\ "plausible" \in again /\ "trailing" \in query.flags
      BY <1>2, <2>2 DEF Retry
    <3>2. "filler" \notin again
      BY <1>0, <3>1, FirstOfKept
    <3>. QED
      BY <1>0, <2>1, <2>2, <3>1, <3>2 DEF TempInv, WindowIsMeant
  <2>3. CASE tstage' # "sound"
    <3>1. tstage' = "done"
      BY <1>2, <2>3 DEF Retry
    <3>2. WindowIsMeant'
      BY <1>0, <2>1 DEF WindowIsMeant, NoInterval
    <3>. QED
      BY <1>0, <3>1, <3>2 DEF TempInv
  <2>. QED
    BY <2>2, <2>3
<1>3. CASE OpenWindow
  <2>1. /\ tstage' = "done" /\ picked' = picked /\ "digest" \notin query.flags /\ "filler" \notin picked[1] /\ "plausible" \in picked[1]
        /\ interval' = IF "timed" \in picked[1] THEN 2 ELSE 24
    BY <1>3 DEF OpenWindow, TempInv
  <2>2. H # {} => "timed" \in best
    BY <1>0, FirstOfKept DEF Hours
  <2>3. H # {} => picked[1] = best \/ ("plausible" \notin best /\ "trailing" \in query.flags)
    BY <1>3 DEF OpenWindow, TempInv
  <2>4. interval' = 2 \/ interval' = 24
    BY <2>1
  <2>. HIDE DEF H, best
  <2>5. (H # {} /\ "plausible" \in best => interval' = 2 /\ picked'[1] = best)
        /\ (interval' = 24 => H = {} \/ ("plausible" \notin best /\ "trailing" \in query.flags))
    BY <2>1, <2>2, <2>3
  <2>6. WindowIsMeant'
    BY <1>0, <2>1, <2>5 DEF WindowIsMeant, H, best
  <2>. QED
    BY <1>0, <2>1, <2>6 DEF TempInv
<1>4. CASE UNCHANGED tempvars
  BY <1>0, <1>4 DEF tempvars, TempInv, WindowIsMeant
<1>. QED
  BY <1>1, <1>2, <1>3, <1>4 DEF TempNext

(* Whatever dates the library finds in a query: only a plausible one opens a
   window, no digest and no filler word does, and where the first hour named
   can be meant the window is the narrow one around it
   (memory/temporal_route.py). *)
THEOREM WindowIsOfTheQuery == TempSpec => []WindowIsMeant
<1>1. TempInit => TempInv
  BY DEF TempInit, TempInv, WindowIsMeant
<1>2. TempInv => WindowIsMeant
  BY DEF TempInv
<1>. QED
  BY <1>1, <1>2, TempStep, PTL DEF TempSpec

-----------------------------------------------------------------------------
(* The scripts that repair the collection and remove its duplicates. *)

(* A backup is written to the path given, or to one of this start's own. *)
PathInv ==
  /\ starts \in Nat /\ path \in 0 .. starts /\ DOMAIN backups \subseteq 0 .. starts
  /\ rewritten \subseteq {Given}
  /\ step \in {"probe", "export", "backup"} /\ path # Given => path \notin DOMAIN backups

PlaceInv ==
  /\ script \in {"none", "repair", "dedupe"} /\ (script = "none" <=> step = "idle")
  /\ step \in {"probe", "drop", "add"} => script = "repair"
  /\ step = "delete" => script = "dedupe"
  /\ collection \subseteq Rows /\ export \subseteq Rows /\ todo \subseteq Rows

(* The rows the scripts have read are in the collection or in a backup, and a
   duplicate is removed for an equal row no later than it. *)
RowsInv ==
  /\ Given \notin rewritten => read \subseteq collection \cup Saved
  /\ Given \notin rewritten /\ script = "repair" /\ step = "backup" => read \subseteq export \cup Saved
  /\ step \in {"drop", "add", "delete"} => path \in DOMAIN backups /\ backups[path] = export /\ todo \subseteq export
  /\ Given \notin rewritten /\ step \in {"drop", "add"} => read \subseteq Saved
  /\ step = "drop" => todo = export
  /\ step = "add" => collection \cup todo = export
  /\ script = "dedupe" /\ step \in {"backup", "delete"} =>
       \A r \in export : \E s \in collection \ export : KeyOf[s] = KeyOf[r] /\ StampOf[s] <= StampOf[r]
  /\ script # "none" => said = "nothing"
  /\ said = "rebuilt" => export \subseteq collection

ScriptInv == PathInv /\ PlaceInv /\ RowsInv

(* Of a group of equal rows the earliest is kept; the stamps are well founded. *)
LEMMA KeptIsEarliest ==
  ASSUME ScriptsBounds, NEW group, group \subseteq Rows, group # {}
  PROVE  Keep(group) \in group /\ \A s \in group : StampOf[Keep(group)] <= StampOf[s]
<1>. DEFINE stamps == {StampOf[r] : r \in group}
<1>1. stamps \subseteq Nat /\ stamps # {}
  BY DEF ScriptsBounds
<1>2. PICK n \in stamps : \A m \in stamps : <<m, n>> \notin OpToRel(<, Nat)
  BY <1>1, NatLessThanWellFounded, WFMin
<1>3. PICK r \in group : n = StampOf[r]
  BY <1>2
<1>4. ASSUME NEW s \in group PROVE StampOf[r] <= StampOf[s]
  <2>1. StampOf[s] \in Nat /\ n \in Nat /\ StampOf[s] \in stamps
    BY <1>1
  <2>2. ~(StampOf[s] < n)
    BY <1>2, <2>1 DEF OpToRel
  <2>. QED
    BY <1>3, <2>1, <2>2
<1>. QED
  BY <1>4 DEF Keep

(* What the script calls a duplicate has an equal row that is not one. *)
LEMMA AllButEarliest ==
  ASSUME ScriptsBounds, NEW rows, rows \subseteq Rows
  PROVE  \A r \in Duplicates(rows) : r \in rows /\ \E s \in rows \ Duplicates(rows) : KeyOf[s] = KeyOf[r] /\ StampOf[s] <= StampOf[r]
<1>. DEFINE Equal(q) == {s \in rows : KeyOf[s] = KeyOf[q]}
<1>. HIDE DEF Equal
<1>1. \A r : r \in Duplicates(rows) <=> \E q \in rows : r \in Equal(q) \ {Keep(Equal(q))}
  <2>1. Groups(rows) = {Equal(q) : q \in rows}
    BY DEF Groups, Equal
  <2>. QED
    BY <2>1, Zenon DEF Duplicates
<1>. USE DEF Equal
<1>. SUFFICES ASSUME NEW r \in Duplicates(rows)
              PROVE  r \in rows /\ \E s \in rows \ Duplicates(rows) : KeyOf[s] = KeyOf[r] /\ StampOf[s] <= StampOf[r]
  OBVIOUS
<1>2. PICK q \in rows : r \in Equal(q) \ {Keep(Equal(q))}
  BY <1>1
<1>3. Keep(Equal(q)) \in Equal(q) /\ \A s \in Equal(q) : StampOf[Keep(Equal(q))] <= StampOf[s]
  BY KeptIsEarliest, <1>2
<1>4. ASSUME NEW p \in rows, Keep(Equal(q)) \in Equal(p) PROVE Equal(p) = Equal(q)
  BY <1>3, <1>4
<1>5. Keep(Equal(q)) \notin Duplicates(rows)
  BY <1>1, <1>4
<1>. QED
  BY <1>2, <1>3, <1>5

LEMMA ScriptBegins == ScriptInit => ScriptInv
  BY DEF ScriptInit, ScriptInv, PathInv, PlaceInv, RowsInv, Given

LEMMA PathStep == ScriptInv /\ [ScriptNext]_scriptvars => PathInv'
<1>. SUFFICES ASSUME ScriptInv, [ScriptNext]_scriptvars PROVE PathInv'
  OBVIOUS
<1>. USE DEF ScriptInv, PathInv, Given, Exit
<1>0. CASE UNCHANGED scriptvars
  BY <1>0 DEF scriptvars
<1>1. ASSUME NEW name, NEW p, Start(name, p) PROVE PathInv'
  BY <1>1 DEF Start
<1>2. CASE Probe
  BY <1>2 DEF Probe
<1>3. CASE Export
  BY <1>3 DEF Export
<1>4. CASE Backup
  BY <1>4 DEF Backup
<1>5. CASE Drop \/ Add \/ DeleteBatch \/ Killed
  BY <1>5 DEF Drop, Add, DeleteBatch, Killed
<1>6. ASSUME NEW again, Verify(again) PROVE PathInv'
  BY <1>6 DEF Verify
<1>7. ASSUME NEW r, BotStores(r) PROVE PathInv'
  BY <1>7 DEF BotStores
<1>. QED
  BY <1>0, <1>1, <1>2, <1>3, <1>4, <1>5, <1>6, <1>7 DEF ScriptNext

LEMMA SliceOfRest == \A slice \in Slices : slice \subseteq todo
  BY DEF Slices

LEMMA PlaceStep == ScriptsBounds /\ ScriptInv /\ [ScriptNext]_scriptvars => PlaceInv'
<1>. SUFFICES ASSUME ScriptsBounds, ScriptInv, [ScriptNext]_scriptvars PROVE PlaceInv'
  OBVIOUS
<1>. USE DEF ScriptInv, PlaceInv, Exit
<1>0. CASE UNCHANGED scriptvars
  BY <1>0 DEF scriptvars
<1>1. ASSUME NEW name \in {"repair", "dedupe"}, NEW p, Start(name, p) PROVE PlaceInv'
  BY <1>1 DEF Start
<1>2. CASE Probe
  BY <1>2 DEF Probe
<1>3. CASE Export
  BY <1>3, AllButEarliest DEF Export
<1>4. CASE Backup
  BY <1>4 DEF Backup
<1>5. CASE Drop \/ Killed
  BY <1>5 DEF Drop, Killed
<1>6. ASSUME NEW again, Verify(again) PROVE PlaceInv'
  BY <1>6 DEF Verify
<1>7. ASSUME NEW r, BotStores(r) PROVE PlaceInv'
  BY <1>7 DEF BotStores, ScriptsBounds
<1>8. CASE Add
  BY <1>8, SliceOfRest DEF Add
<1>9. CASE DeleteBatch
  BY <1>9, SliceOfRest DEF DeleteBatch
<1>. QED
  BY <1>0, <1>1, <1>2, <1>3, <1>4, <1>5, <1>6, <1>7, <1>8, <1>9 DEF ScriptNext

LEMMA RowsStep == ScriptsBounds /\ ScriptInv /\ [ScriptNext]_scriptvars => RowsInv'
<1>. SUFFICES ASSUME ScriptsBounds, ScriptInv, [ScriptNext]_scriptvars PROVE RowsInv'
  OBVIOUS
<1>. USE DEF ScriptInv, PlaceInv, RowsInv, Saved, Exit
<1>0. CASE UNCHANGED scriptvars
  BY <1>0 DEF scriptvars
<1>1. ASSUME NEW name \in {"repair", "dedupe"}, NEW p, Start(name, p) PROVE RowsInv'
  BY <1>1 DEF Start
<1>2. CASE Probe
  BY <1>2 DEF Probe
<1>3. CASE Export
  BY <1>3, AllButEarliest DEF Export
<1>4. CASE Backup
  <2>1. CASE step' = "idle"
    BY <1>4, <2>1 DEF Backup
  <2>2. CASE step' # "idle"
    <3>1. /\ DOMAIN backups' = DOMAIN backups \cup {path} /\ backups'[path] = export /\ todo' = export
          /\ \A p \in DOMAIN backups : p # path => backups'[p] = backups[p]
      BY <1>4, <2>2 DEF Backup
    <3>2. step = "backup" /\ UNCHANGED <<script, path, collection, export, read, said>>
      BY <1>4, <2>2 DEF Backup
    <3>3. Given \notin rewritten' => Given \notin rewritten /\ path \notin DOMAIN backups
      BY <1>4, <2>2 DEF Backup, PathInv, Given
    <3>4. path \notin DOMAIN backups => Saved' = Saved \cup export
      BY <3>1, <3>2
    <3>5. step' = (IF script = "repair" THEN "drop" ELSE "delete")
      BY <1>4, <2>2 DEF Backup
    <3>. QED
      BY <3>1, <3>2, <3>3, <3>4, <3>5
  <2>. QED
    BY <2>1, <2>2
<1>5. CASE Drop
  BY <1>5 DEF Drop
<1>6. CASE Killed
  BY <1>6 DEF Killed
<1>7. ASSUME NEW again, Verify(again) PROVE RowsInv'
  BY <1>7 DEF Verify
<1>8. ASSUME NEW r, BotStores(r) PROVE RowsInv'
  BY <1>8 DEF BotStores
<1>9. CASE Add
  BY <1>9, SliceOfRest DEF Add
<1>10. CASE DeleteBatch
  BY <1>10, SliceOfRest DEF DeleteBatch
<1>. QED
  BY <1>0, <1>1, <1>2, <1>3, <1>4, <1>5, <1>6, <1>7, <1>8, <1>9, <1>10 DEF ScriptNext

(* Wherever a script is killed or fails: while no file given by name is written
   twice, every row it has read is in the collection or in a backup, duplicates
   are removed only beside an earlier equal row, and a rebuilt collection is
   complete (repair_episodic.py, dedupe_episodic.py). *)
THEOREM RowsDoSurvive == ScriptSpec => []RowsSurvive
<1>1. ScriptInv /\ [ScriptNext]_scriptvars => ScriptInv'
  BY ScriptsBounds, PathStep, PlaceStep, RowsStep DEF ScriptInv
<1>2. ScriptInv => RowsSurvive
  BY DEF ScriptInv, PlaceInv, RowsInv, RowsSurvive
<1>. QED
  BY ScriptBegins, <1>1, <1>2, PTL DEF ScriptSpec

-----------------------------------------------------------------------------
(* The setup and the two files it writes. *)

(* Only providers that were selected have keys, or are the default. *)
AnswersGiven ==
  /\ answers.providers \subseteq Providers /\ answers.keys \subseteq answers.providers
  /\ answers.services \subseteq Services /\ answers.default \in answers.providers \cup {"None"}
  /\ stage = "providers" => answers = NoAnswers
  /\ stage = "keys" => answers.providers # {}

(* Of each file, what stood when the form began is the file itself or its
   backup until the form is complete; a file written is that of the answers. *)
FilesStand ==
  /\ stood[1] \in {Absent, env, envBackup} /\ stood[2] \in {Absent, toml, tomlBackup}
  /\ stage \in {"providers", "keys", "default", "services", "telegram", "env"} => stood = <<env, toml>>
  /\ stage \in {"writeEnv", "toml", "writeToml", "complete"} => stood[1] \in {Absent, envBackup}
  /\ stage \in {"writeEnv", "toml"} => stood[2] = toml
  /\ stage \in {"writeToml", "complete"} => stood[2] \in {Absent, tomlBackup}
  /\ stage \in {"toml", "writeToml", "complete"} => env = EnvOf(answers)
  /\ stage = "complete" => toml = TomlOf(answers)
  /\ stage = "started" => Existing

SetupInv == AnswersGiven /\ FilesStand

LEMMA SetupBegins == SetupInit => SetupInv
  BY DEF SetupInit, SetupInv, AnswersGiven, FilesStand, NoAnswers, Absent

LEMMA WrittenStand ==
  \A a : EnvOf(a) # Absent /\ TomlOf(a) # Absent
<1>1. \A a : EnvOf(a).is = "whole" /\ TomlOf(a).is = "whole"
  BY DEF EnvOf, TomlOf, Env, Toml
<1>2. Absent.is = "absent"
  BY DEF Absent
<1>. QED
  BY <1>1, <1>2, "whole" # "absent"

LEMMA GivenStep == SetupBounds /\ SetupInv /\ [SetupNext]_setupvars => AnswersGiven'
<1>. SUFFICES ASSUME SetupBounds, SetupInv, [SetupNext]_setupvars PROVE AnswersGiven'
  OBVIOUS
<1>. USE DEF SetupInv, AnswersGiven
<1>0. CASE UNCHANGED setupvars
  BY <1>0 DEF setupvars
<1>1. ASSUME NEW good, NEW rooted, RunSh(good, rooted) PROVE AnswersGiven'
  BY <1>1 DEF RunSh, Begin, Nothing, NoAnswers
<1>2. ASSUME NEW good, NEW rooted, NEW reconfigure, Wizard(reconfigure, good, rooted) PROVE AnswersGiven'
  BY <1>2 DEF Wizard, Begin, Nothing, NoAnswers
<1>3. ASSUME NEW chosen \in SUBSET Providers, SelectProviders(chosen) PROVE AnswersGiven'
  BY <1>3 DEF SelectProviders, Form, NoAnswers
<1>4. ASSUME NEW chosen \in SUBSET Providers, EnterKeys(chosen) PROVE AnswersGiven'
  BY <1>4 DEF EnterKeys, Form
<1>5. ASSUME NEW p, SelectDefault(p) PROVE AnswersGiven'
  BY <1>5 DEF SelectDefault, Form
<1>6. ASSUME NEW chosen \in SUBSET Services, SelectServices(chosen) PROVE AnswersGiven'
  BY <1>6 DEF SelectServices, Form
<1>7. ASSUME NEW token, NEW chatId, EnterTelegram(token, chatId) PROVE AnswersGiven'
  BY <1>7 DEF EnterTelegram, Form
<1>8. CASE CopyEnv \/ WriteEnv \/ CopyToml \/ WriteToml \/ Continue \/ Leave
  BY <1>8 DEF CopyEnv, WriteEnv, CopyToml, WriteToml, Continue, Leave
<1>. QED
  BY <1>0, <1>1, <1>2, <1>3, <1>4, <1>5, <1>6, <1>7, <1>8 DEF SetupNext

LEMMA StandStep == SetupInv /\ [SetupNext]_setupvars => FilesStand'
<1>. SUFFICES ASSUME SetupInv, [SetupNext]_setupvars PROVE FilesStand'
  OBVIOUS
<1>. USE DEF SetupInv, FilesStand, Files, Existing
<1>0. CASE UNCHANGED setupvars
  BY <1>0 DEF setupvars
<1>1. ASSUME NEW good, NEW rooted, RunSh(good, rooted) PROVE FilesStand'
  BY <1>1 DEF RunSh, Begin, Nothing
<1>2. ASSUME NEW good, NEW rooted, NEW reconfigure, Wizard(reconfigure, good, rooted) PROVE FilesStand'
  BY <1>2 DEF Wizard, Begin, Nothing
<1>3. ASSUME NEW question, NEW next, NEW filled, Form(question, next, filled),
             question \in {"providers", "keys", "default", "services", "telegram"},
             next \in {"idle", "keys", "default", "services", "telegram", "env"}
      PROVE FilesStand'
  BY <1>3 DEF Form
<1>4. CASE \/ \E chosen \in SUBSET Providers : SelectProviders(chosen) \/ EnterKeys(chosen)
           \/ \E p \in Providers \cup {"None"} : SelectDefault(p)
           \/ \E chosen \in SUBSET Services : SelectServices(chosen)
           \/ \E token, chatId \in BOOLEAN : EnterTelegram(token, chatId)
  <2>1. ASSUME NEW chosen, SelectProviders(chosen) PROVE FilesStand'
    BY <1>3, <2>1 DEF SelectProviders
  <2>2. ASSUME NEW chosen, EnterKeys(chosen) PROVE FilesStand'
    BY <1>3, <2>2 DEF EnterKeys
  <2>3. ASSUME NEW p, SelectDefault(p) PROVE FilesStand'
    BY <1>3, <2>3 DEF SelectDefault
  <2>4. ASSUME NEW chosen, SelectServices(chosen) PROVE FilesStand'
    BY <1>3, <2>4 DEF SelectServices
  <2>5. ASSUME NEW token, NEW chatId, EnterTelegram(token, chatId) PROVE FilesStand'
    BY <1>3, <2>5 DEF EnterTelegram
  <2>. QED
    BY <1>4, <2>1, <2>2, <2>3, <2>4, <2>5
<1>5. CASE CopyEnv
  BY <1>5 DEF CopyEnv
<1>6. CASE WriteEnv
  BY <1>6 DEF WriteEnv
<1>7. CASE CopyToml
  BY <1>7 DEF CopyToml
<1>8. CASE WriteToml
  BY <1>8 DEF WriteToml
<1>9. CASE Continue
  BY <1>9, WrittenStand DEF Continue
<1>10. CASE Leave
  BY <1>10 DEF Leave
<1>. QED
  BY <1>0, <1>1, <1>2, <1>4, <1>5, <1>6, <1>7, <1>8, <1>9, <1>10 DEF SetupNext

LEMMA SetupInvMeans == SetupInv => SetupKept
<1>. SUFFICES ASSUME SetupInv PROVE SetupKept
  OBVIOUS
<1>1. ASSUME stage = "complete"
      PROVE /\ env.keys = answers.keys /\ toml.default = answers.default
            /\ toml.enabled = answers.providers \cup answers.services
  <2>1. env.keys = answers.keys /\ toml.default = answers.default
    BY <1>1 DEF SetupInv, FilesStand, EnvOf, Env, TomlOf, Toml
  <2>2. toml.enabled = {s \in Enabled \cup Providers \cup Services :
                          s \in SectionReplace(Enabled, s, s \in answers.providers \cup answers.services)}
    BY <1>1 DEF SetupInv, FilesStand, TomlOf, Toml
  <2>. QED
    BY <2>1, <2>2 DEF SetupInv, AnswersGiven, SectionReplace
<1>. QED
  BY <1>1 DEF SetupInv, AnswersGiven, FilesStand, SetupKept

(* Wherever the setup is left: an earlier file is in its place or in its backup,
   and a complete setup has written the answers to both files (setup wizard). *)
THEOREM SetupIsKept == SetupSpec => []SetupKept
<1>1. SetupInv /\ [SetupNext]_setupvars => SetupInv'
  BY SetupBounds, GivenStep, StandStep DEF SetupInv
<1>. QED
  BY SetupBegins, <1>1, SetupInvMeans, PTL DEF SetupSpec

-----------------------------------------------------------------------------
(* The accounts of the turns.  An observation is followed through the stages
   of its turn, then through the fold into the aggregates; the invariant ties
   the aggregates to the sets of turns that ended. *)

\* An observation whose turn has done some of its stages.
Observation ==
  [intent : Intents, attempted : BOOLEAN, succeeded : BOOLEAN, hit : BOOLEAN, miss : BOOLEAN,
   keyed : BOOLEAN, warmServed : BOOLEAN, thematic : Nat, found : Nat, used : Nat,
   tokens : [Tiers -> Nat], present : SUBSET Tiers, source : Tiers \cup {"none", "unset"},
   guidance : Nat, tools : Nat, injected : Nat, prompt : Nat, calls : Nat,
   state : TurnStates \cup {"unset"}, broke : BOOLEAN,
   kind : {"unset", "none", "filing", "enriching"}, refreshed : BOOLEAN]

(* What holds of an observation after its first n stages: of the search, of the
   blocks and the thread, of what was counted. *)
Flags(o, n) ==
  /\ o.attempted <=> n >= 2
  /\ o.hit \/ o.miss <=> n >= 2
  /\ ~(o.hit /\ o.miss) /\ (o.hit => o.keyed) /\ (o.keyed => n >= 2)
  /\ o.warmServed => n >= 2 /\ ~o.keyed
  /\ o.succeeded => n >= 2
Marks(o, n) ==
  /\ o.source # "unset" <=> n >= 3
  /\ o.source \in Tiers => o.source \in o.present
  /\ o.state # "unset" <=> n = 6
  /\ o.broke => o.state = "cold"
Sizes(o, n) ==
  /\ n < 3 => o.found = 0 /\ o.used = 0
  /\ o.used <= o.found
  /\ o.injected = o.tokens["permanent"] + o.tokens["working"] + o.tokens["episodic"]
                  + o.guidance + o.tools
  /\ n < 4 => o.guidance = 0 /\ o.tools = 0
After(o, n) == o \in Observation /\ Flags(o, n) /\ Marks(o, n) /\ Sizes(o, n)

LEMMA NothingYet == After(NewObservation, 0)
<1>1. NewObservation \in Observation
  BY DEF NewObservation, Observation, Tiers, Intents, TurnStates
<1>2. Flags(NewObservation, 0) /\ Marks(NewObservation, 0)
  BY DEF NewObservation, Flags, Marks, Tiers
<1>3. Sizes(NewObservation, 0)
  BY DEF NewObservation, Sizes, Tiers
<1>. QED
  BY <1>1, <1>2, <1>3 DEF After

LEMMA AfterClassified == ASSUME NEW c, IsCourse(c), NEW o, After(o, 0) PROVE After(Classified(o, c), 1)
<1>. DEFINE p == Classified(o, c)
<1>1. o \in Observation /\ Flags(o, 0) /\ Marks(o, 0) /\ Sizes(o, 0)
  BY DEF After
<1>2. p \in Observation
  <2>1. CategorizeIntent(c.confidence) \in Intents
    BY <1>1 DEF CategorizeIntent, Intents
  <2>. QED
    BY <1>1, <2>1 DEF Observation, Classified
<1>3. Flags(p, 1)
  <2>1. /\ (p.attempted <=> o.attempted) /\ (p.hit <=> o.hit) /\ (p.miss <=> o.miss)
        /\ (p.keyed <=> o.keyed) /\ (p.warmServed <=> o.warmServed) /\ (p.succeeded <=> o.succeeded)
    BY <1>1 DEF Observation, Classified
  <2>. HIDE DEF p
  <2>. QED
    BY <1>1, <2>1 DEF Flags
<1>4. Marks(p, 1)
  <2>1. p.source = o.source /\ p.present = o.present /\ p.state = o.state /\ (p.broke <=> o.broke)
    BY <1>1 DEF Observation, Classified
  <2>. HIDE DEF p
  <2>. QED
    BY <1>1, <2>1 DEF Marks
<1>5. Sizes(p, 1)
  <2>0. /\ o.injected \in Nat /\ o.found \in Nat /\ o.used \in Nat /\ o.guidance \in Nat /\ o.tools \in Nat
        /\ \A k \in Tiers : o.tokens[k] \in Nat /\ p.tokens[k] \in Nat
    BY <1>1, <1>2 DEF Observation
  <2>1. /\ p.found = o.found /\ p.used = o.used /\ p.injected = o.injected /\ p.tokens = o.tokens
        /\ p.guidance = o.guidance /\ p.tools = o.tools
    BY <1>1 DEF Observation, Classified
  <2>. HIDE DEF p
  <2>. QED
    BY <1>1, <2>0, <2>1 DEF Sizes, Tiers
<1>. QED
  BY <1>2, <1>3, <1>4, <1>5 DEF After

\* The two kinds of outcome of a search, and its flags.
LEMMA LookedUp ==
  ASSUME NEW o \in Observation, NEW h \in BOOLEAN, NEW k \in BOOLEAN
  PROVE  [o EXCEPT !.hit = h, !.miss = ~h, !.keyed = k, !.attempted = TRUE] \in Observation
  BY ZenonT(40) DEF Observation

LEMMA AfterSearched == ASSUME NEW c, IsCourse(c), NEW o, After(o, 1) PROVE After(Searched(o, c), 2)
<1>. DEFINE p == Searched(o, c)
<1>1. o \in Observation /\ Flags(o, 1) /\ Marks(o, 1) /\ Sizes(o, 1)
  BY DEF After
<1>2. p \in Observation
  <2>2. \A x \in Observation, s \in BOOLEAN, w \in BOOLEAN, n \in Nat :
          [x EXCEPT !.succeeded = s, !.warmServed = w, !.thematic = n] \in Observation
    BY ZenonT(40) DEF Observation
  <2>3. ResultsOf(c) \in Nat
    BY DEF IsCourse, ResultsOf
  <2>. HIDE DEF Observation
  <2>. DEFINE h == c.state = "cold" /\ c.looked /\ c.hit
              k == c.state = "cold" /\ c.looked
              x == [o EXCEPT !.hit = h, !.miss = ~h, !.keyed = (c.state = "cold" /\ c.looked),
                             !.attempted = TRUE]
  <2>4. x \in Observation
    BY <1>1, LookedUp
  <2>5. p = [x EXCEPT !.succeeded = ResultsOf(c) > 0,
                      !.warmServed = (c.state = "warm" /\ c.held > 0), !.thematic = ResultsOf(c)]
    BY DEF Searched
  <2>. HIDE DEF x, p
  <2>6. (ResultsOf(c) > 0) \in BOOLEAN /\ (c.state = "warm" /\ c.held > 0) \in BOOLEAN
    OBVIOUS
  <2>. QED
    BY <2>2, <2>3, <2>4, <2>5, <2>6
<1>3. Flags(p, 2)
  <2>2. /\ p.attempted /\ (p.miss <=> ~p.hit) /\ (p.hit => p.keyed)
        /\ (p.warmServed => ~p.keyed)
    BY <1>1 DEF Observation, Searched
  <2>. HIDE DEF p
  <2>. QED
    BY <1>1, <2>2 DEF Flags
<1>4. Marks(p, 2)
  <2>1. p.source = o.source /\ p.present = o.present /\ p.state = o.state /\ (p.broke <=> o.broke)
    BY <1>1 DEF Observation, Searched
  <2>. HIDE DEF p
  <2>. QED
    BY <1>1, <2>1 DEF Marks
<1>5. Sizes(p, 2)
  <2>0. /\ o.injected \in Nat /\ o.found \in Nat /\ o.used \in Nat /\ o.guidance \in Nat /\ o.tools \in Nat
        /\ \A k \in Tiers : o.tokens[k] \in Nat /\ p.tokens[k] \in Nat
    BY <1>1, <1>2 DEF Observation
  <2>1. /\ p.found = o.found /\ p.used = o.used /\ p.injected = o.injected /\ p.tokens = o.tokens
        /\ p.guidance = o.guidance /\ p.tools = o.tools
    BY <1>1 DEF Observation, Searched
  <2>. HIDE DEF p
  <2>. QED
    BY <1>1, <2>0, <2>1 DEF Sizes, Tiers
<1>. QED
  BY <1>2, <1>3, <1>4, <1>5 DEF After

LEMMA AfterAssembled == ASSUME NEW c, IsCourse(c), NEW o, After(o, 2) PROVE After(ContextFromBlocks(o, c), 3)
<1>. DEFINE p == ContextFromBlocks(o, c)
<1>1. o \in Observation /\ Flags(o, 2) /\ Marks(o, 2) /\ Sizes(o, 2)
  BY DEF After
<1>2. p \in Observation
  <2>1. \A z \in [Tiers -> Nat], m \in SUBSET Tiers, s \in Tiers \cup {"none"} :
          [o EXCEPT !.tokens = z, !.present = m, !.source = s] \in Observation
    BY <1>1 DEF Observation
  <2>2. \A x \in Observation, i \in Nat, n \in Nat, u \in Nat :
           [x EXCEPT !.injected = i, !.found = n, !.used = u] \in Observation
    BY ZenonT(40) DEF Observation
  <2>3. ResultsOf(c) \in Nat /\ c.used \in Nat /\ SourceTier(DOMAIN c.sizes) \in Tiers \cup {"none"}
    BY DEF IsCourse, ResultsOf, SourceTier, Tiers
  <2>. DEFINE z == [t \in Tiers |-> IF t \in DOMAIN c.sizes THEN c.sizes[t] ELSE 0]
  <2>4. z \in [Tiers -> Nat] /\ DOMAIN c.sizes \in SUBSET Tiers
    <3>1. DOMAIN c.sizes \subseteq Tiers /\ c.sizes \in [DOMAIN c.sizes -> Nat]
      BY DEF IsCourse
    <3>. QED
      BY <3>1
  <2>5. OfTiers(z) \in Nat
    BY <2>4 DEF OfTiers, Tiers
  <2>. HIDE DEF Observation, z
  <2>. DEFINE x == [o EXCEPT !.tokens = z, !.present = DOMAIN c.sizes, !.source = SourceTier(DOMAIN c.sizes)]
  <2>6. x \in Observation
    BY <2>1, <2>3, <2>4
  <2>7. p = [x EXCEPT !.injected = OfTiers(z), !.found = ResultsOf(c), !.used = c.used]
    BY DEF ContextFromBlocks, z
  <2>. HIDE DEF x, p
  <2>. QED
    BY <2>2, <2>3, <2>5, <2>6, <2>7
<1>3. Flags(p, 3)
  <2>1. /\ (p.attempted <=> o.attempted) /\ (p.hit <=> o.hit) /\ (p.miss <=> o.miss)
        /\ (p.keyed <=> o.keyed) /\ (p.warmServed <=> o.warmServed) /\ (p.succeeded <=> o.succeeded)
    BY <1>1 DEF Observation, ContextFromBlocks
  <2>. HIDE DEF p
  <2>. QED
    BY <1>1, <2>1 DEF Flags
<1>4. Marks(p, 3)
  <2>1. p.state = o.state /\ (p.broke <=> o.broke)
    BY <1>1 DEF Observation, ContextFromBlocks
  <2>2. p.source # "unset" /\ (p.source \in Tiers => p.source \in p.present)
    BY <1>1 DEF Observation, ContextFromBlocks, SourceTier, Tiers
  <2>. HIDE DEF p
  <2>. QED
    BY <1>1, <2>1, <2>2 DEF Marks
<1>5. Sizes(p, 3)
  <2>0. /\ o.injected \in Nat /\ o.found \in Nat /\ o.used \in Nat /\ o.guidance \in Nat /\ o.tools \in Nat
        /\ \A k \in Tiers : o.tokens[k] \in Nat /\ p.tokens[k] \in Nat
    BY <1>1, <1>2 DEF Observation
  <2>1. p.guidance = o.guidance /\ p.tools = o.tools
    BY <1>1 DEF Observation, ContextFromBlocks
  <2>2. /\ p.injected = OfTiers(p.tokens) /\ p.found = ResultsOf(c) /\ p.used = c.used
        /\ c.used <= ResultsOf(c)
    BY <1>1 DEF Observation, ContextFromBlocks, IsCourse, OfTiers
  <2>. HIDE DEF p
  <2>. QED
    BY <1>1, <2>0, <2>1, <2>2 DEF Sizes, Tiers, OfTiers
<1>. QED
  BY <1>2, <1>3, <1>4, <1>5 DEF After

LEMMA AfterInjected == ASSUME NEW c, IsCourse(c), NEW o, After(o, 3) PROVE After(PromptExtras(o, c), 4)
<1>. DEFINE p == PromptExtras(o, c)
<1>1. o \in Observation /\ Flags(o, 3) /\ Marks(o, 3) /\ Sizes(o, 3)
  BY DEF After
<1>2. p \in Observation
  <2>1. \A g \in Nat, x \in Nat, i \in Nat :
           [o EXCEPT !.guidance = g, !.tools = x, !.injected = i] \in Observation
    BY <1>1 DEF Observation
  <2>2. c.guidance \in Nat /\ c.tools \in Nat /\ (o.injected + c.guidance + c.tools) \in Nat
    BY <1>1 DEF IsCourse, Observation
  <2>. HIDE DEF Observation
  <2>. QED
    BY <2>1, <2>2 DEF PromptExtras
<1>3. Flags(p, 4)
  <2>1. /\ (p.attempted <=> o.attempted) /\ (p.hit <=> o.hit) /\ (p.miss <=> o.miss)
        /\ (p.keyed <=> o.keyed) /\ (p.warmServed <=> o.warmServed) /\ (p.succeeded <=> o.succeeded)
    BY <1>1 DEF Observation, PromptExtras
  <2>. HIDE DEF p
  <2>. QED
    BY <1>1, <2>1 DEF Flags
<1>4. Marks(p, 4)
  <2>1. p.source = o.source /\ p.present = o.present /\ p.state = o.state /\ (p.broke <=> o.broke)
    BY <1>1 DEF Observation, PromptExtras
  <2>. HIDE DEF p
  <2>. QED
    BY <1>1, <2>1 DEF Marks
<1>5. Sizes(p, 4)
  <2>0. /\ o.injected \in Nat /\ o.found \in Nat /\ o.used \in Nat /\ o.guidance \in Nat /\ o.tools \in Nat
        /\ \A k \in Tiers : o.tokens[k] \in Nat /\ p.tokens[k] \in Nat
    BY <1>1, <1>2 DEF Observation
  <2>1. p.found = o.found /\ p.used = o.used /\ p.tokens = o.tokens
    BY <1>1 DEF Observation, PromptExtras
  <2>2. /\ p.guidance = c.guidance /\ p.tools = c.tools
        /\ p.injected = o.injected + c.guidance + c.tools
    BY <1>1 DEF Observation, PromptExtras
  <2>. HIDE DEF p
  <2>. QED
    BY <1>1, <2>0, <2>1, <2>2 DEF Sizes, Tiers
<1>. QED
  BY <1>2, <1>3, <1>4, <1>5 DEF After

LEMMA AfterCalled == ASSUME NEW c, IsCourse(c), NEW o, After(o, 4) PROVE After(LlmUsage(o, c), 5)
<1>. DEFINE p == LlmUsage(o, c)
<1>1. o \in Observation /\ Flags(o, 4) /\ Marks(o, 4) /\ Sizes(o, 4)
  BY DEF After
<1>2. p \in Observation
  <2>1. c.calls \in Nat /\ c.sent \in Nat
    BY <1>1 DEF IsCourse
  <2>. QED
    BY <1>1, <2>1 DEF Observation, LlmUsage
<1>3. Flags(p, 5)
  <2>1. /\ (p.attempted <=> o.attempted) /\ (p.hit <=> o.hit) /\ (p.miss <=> o.miss)
        /\ (p.keyed <=> o.keyed) /\ (p.warmServed <=> o.warmServed) /\ (p.succeeded <=> o.succeeded)
    BY <1>1 DEF Observation, LlmUsage
  <2>. HIDE DEF p
  <2>. QED
    BY <1>1, <2>1 DEF Flags
<1>4. Marks(p, 5)
  <2>1. p.source = o.source /\ p.present = o.present /\ p.state = o.state /\ (p.broke <=> o.broke)
    BY <1>1 DEF Observation, LlmUsage
  <2>. HIDE DEF p
  <2>. QED
    BY <1>1, <2>1 DEF Marks
<1>5. Sizes(p, 5)
  <2>0. /\ o.injected \in Nat /\ o.found \in Nat /\ o.used \in Nat /\ o.guidance \in Nat /\ o.tools \in Nat
        /\ \A k \in Tiers : o.tokens[k] \in Nat /\ p.tokens[k] \in Nat
    BY <1>1, <1>2 DEF Observation
  <2>1. /\ p.found = o.found /\ p.used = o.used /\ p.injected = o.injected /\ p.tokens = o.tokens
        /\ p.guidance = o.guidance /\ p.tools = o.tools
    BY <1>1 DEF Observation, LlmUsage
  <2>. HIDE DEF p
  <2>. QED
    BY <1>1, <2>0, <2>1 DEF Sizes, Tiers
<1>. QED
  BY <1>2, <1>3, <1>4, <1>5 DEF After

LEMMA AfterActivated == ASSUME NEW c, IsCourse(c), NEW o, After(o, 5) PROVE After(Activated(o, c), 6)
<1>. DEFINE p == Activated(o, c)
<1>1. o \in Observation /\ Flags(o, 5) /\ Marks(o, 5) /\ Sizes(o, 5)
  BY DEF After
<1>2. p \in Observation
  <2>1. \A s \in TurnStates, b \in BOOLEAN, k \in {"none", "filing", "enriching"}, r \in BOOLEAN :
           [o EXCEPT !.state = s, !.broke = b, !.kind = k, !.refreshed = r] \in Observation
    BY <1>1, ZenonT(40) DEF Observation
  <2>2. /\ c.state \in TurnStates /\ (c.state = "cold" /\ c.thread) \in BOOLEAN
        /\ (IF c.thread THEN c.kind ELSE "none") \in {"none", "filing", "enriching"}
        /\ (c.thread /\ c.kind = "enriching") \in BOOLEAN
    BY <1>1 DEF IsCourse
  <2>. HIDE DEF Observation
  <2>. QED
    BY <2>1, <2>2 DEF Activated
<1>3. Flags(p, 6)
  <2>1. /\ (p.attempted <=> o.attempted) /\ (p.hit <=> o.hit) /\ (p.miss <=> o.miss)
        /\ (p.keyed <=> o.keyed) /\ (p.warmServed <=> o.warmServed) /\ (p.succeeded <=> o.succeeded)
    BY <1>1 DEF Observation, Activated
  <2>. HIDE DEF p
  <2>. QED
    BY <1>1, <2>1 DEF Flags
<1>4. Marks(p, 6)
  <2>1. p.source = o.source /\ p.present = o.present
    BY <1>1 DEF Observation, Activated
  <2>2. p.state = c.state /\ (p.broke => c.state = "cold") /\ c.state # "unset"
    BY <1>1 DEF Observation, Activated, IsCourse, TurnStates
  <2>. HIDE DEF p
  <2>. QED
    BY <1>1, <2>1, <2>2 DEF Marks
<1>5. Sizes(p, 6)
  <2>0. /\ o.injected \in Nat /\ o.found \in Nat /\ o.used \in Nat /\ o.guidance \in Nat /\ o.tools \in Nat
        /\ \A k \in Tiers : o.tokens[k] \in Nat /\ p.tokens[k] \in Nat
    BY <1>1, <1>2 DEF Observation
  <2>1. /\ p.found = o.found /\ p.used = o.used /\ p.injected = o.injected /\ p.tokens = o.tokens
        /\ p.guidance = o.guidance /\ p.tools = o.tools
    BY <1>1 DEF Observation, Activated
  <2>. HIDE DEF p
  <2>. QED
    BY <1>1, <2>0, <2>1 DEF Sizes, Tiers
<1>. QED
  BY <1>2, <1>3, <1>4, <1>5 DEF After

LEMMA Observed == ASSUME NEW c, IsCourse(c), NEW n \in 0 .. 6 PROVE After(ObservationOf(c, n), n)
<1>. DEFINE classified == Classified(NewObservation, c)
            searched == Searched(classified, c)
            assembled == ContextFromBlocks(searched, c)
            injected == PromptExtras(assembled, c)
            called == LlmUsage(injected, c)
<1>1. After(NewObservation, 0)
  BY NothingYet
<1>2. After(classified, 1)
  BY <1>1, AfterClassified
<1>3. After(searched, 2)
  BY <1>2, AfterSearched
<1>4. After(assembled, 3)
  BY <1>3, AfterAssembled
<1>5. After(injected, 4)
  BY <1>4, AfterInjected
<1>6. After(called, 5)
  BY <1>5, AfterCalled
<1>7. After(Activated(called, c), 6)
  BY <1>6, AfterActivated
<1>8. AfterStage(c) = <<NewObservation, classified, searched, assembled, injected, called,
                        Activated(called, c)>>
  BY DEF AfterStage
<1>. HIDE DEF classified, searched, assembled, injected, called
<1>9. n = 0 \/ n = 1 \/ n = 2 \/ n = 3 \/ n = 4 \/ n = 5 \/ n = 6
  OBVIOUS
<1>. QED
  BY <1>1, <1>2, <1>3, <1>4, <1>5, <1>6, <1>7, <1>8, <1>9 DEF ObservationOf

(* A turn served by its thread has succeeded, unless the date it named left it
   with nothing. *)
LEMMA ServedOrEmptied ==
  ASSUME NEW c, IsCourse(c), NEW n \in 0 .. 6, ObservationOf(c, n).warmServed, ~ObservationOf(c, n).succeeded
  PROVE  n >= 2 /\ Emptied(c)
<1>. DEFINE classified == Classified(NewObservation, c)
            searched == Searched(classified, c)
            assembled == ContextFromBlocks(searched, c)
            injected == PromptExtras(assembled, c)
            called == LlmUsage(injected, c)
            activated == Activated(called, c)
            o == ObservationOf(c, n)
<1>1. classified \in Observation /\ After(searched, 2) /\ After(assembled, 3) /\ After(injected, 4) /\ After(called, 5)
  BY NothingYet, AfterClassified, AfterSearched, AfterAssembled, AfterInjected, AfterCalled DEF After
<1>2. searched.warmServed /\ ~searched.succeeded => Emptied(c)
  <2>1. /\ searched.warmServed <=> c.state = "warm" /\ c.held > 0
        /\ searched.succeeded <=> ResultsOf(c) > 0
    BY <1>1 DEF Observation, Searched
  <2>. HIDE DEF searched
  <2>2. c.held \in Nat /\ c.dated \in Nat /\ c.mixed \in Nat
    BY DEF IsCourse
  <2>. QED
    BY <2>1, <2>2 DEF ResultsOf, Emptied
<1>3. /\ (assembled.warmServed <=> searched.warmServed) /\ (assembled.succeeded <=> searched.succeeded)
      /\ (injected.warmServed <=> assembled.warmServed) /\ (injected.succeeded <=> assembled.succeeded)
      /\ (called.warmServed <=> injected.warmServed) /\ (called.succeeded <=> injected.succeeded)
      /\ (activated.warmServed <=> called.warmServed) /\ (activated.succeeded <=> called.succeeded)
  <2>. HIDE DEF searched
  <2>1. (assembled.warmServed <=> searched.warmServed) /\ (assembled.succeeded <=> searched.succeeded)
    BY <1>1 DEF After, Observation, ContextFromBlocks
  <2>. HIDE DEF assembled
  <2>2. (injected.warmServed <=> assembled.warmServed) /\ (injected.succeeded <=> assembled.succeeded)
    BY <1>1 DEF After, Observation, PromptExtras
  <2>. HIDE DEF injected
  <2>3. (called.warmServed <=> injected.warmServed) /\ (called.succeeded <=> injected.succeeded)
    BY <1>1 DEF After, Observation, LlmUsage
  <2>. HIDE DEF called
  <2>4. (activated.warmServed <=> called.warmServed) /\ (activated.succeeded <=> called.succeeded)
    BY <1>1 DEF After, Observation, Activated
  <2>. QED
    BY <2>1, <2>2, <2>3, <2>4
<1>4. n >= 2
  BY Observed DEF After, Flags
<1>5. AfterStage(c) = <<NewObservation, classified, searched, assembled, injected, called, activated>>
  BY DEF AfterStage
<1>. HIDE DEF classified, searched, assembled, injected, called, activated
<1>6. n = 2 \/ n = 3 \/ n = 4 \/ n = 5 \/ n = 6
  BY <1>4
<1>7. o = searched \/ o = assembled \/ o = injected \/ o = called \/ o = activated
  BY <1>5, <1>6 DEF ObservationOf
<1>. QED
  BY <1>2, <1>3, <1>4, <1>7

--------------------------------------------------------------------------------
(* What the aggregates keep, whichever observations were folded into them. *)
Numbers(m) ==
  /\ {m.requests, m.attempts, m.successes, m.lookups, m.hits, m.misses, m.breaks, m.warmServed, m.found, m.used,
      m.injected, m.guidance, m.tools, m.resent, m.toolResults, m.prompt} \subseteq Nat
  /\ \A k \in Tiers : m.tokens[k] \in Nat /\ m.presence[k] \in Nat
  /\ \A k \in Tiers \cup {"none"} : m.source[k] \in Nat
  /\ \A i \in Intents : m.intents[i] \in Nat
  /\ \A s \in TurnStates : m.states[s] \in Nat
Searches(m) ==
  /\ m.hits + m.misses = m.attempts /\ m.hits <= m.lookups /\ m.lookups + m.warmServed <= m.attempts
  /\ m.successes <= m.attempts
Blocks(m) ==
  /\ \A k \in Tiers : m.source[k] <= m.presence[k]
  /\ m.used <= m.found /\ m.breaks <= m.states["cold"]
Tokens(m) ==
  /\ m.injected = OfTiers(m.tokens) + m.guidance + m.tools
  /\ m.toolResults + m.resent >= m.prompt - m.injected
IntentsAdd(m) == m.intents["recall"] + m.intents["greeting"] + m.intents["conversational"] = m.requests
AddsUp(m) == Numbers(m) /\ Searches(m) /\ Blocks(m) /\ Tokens(m) /\ IntentsAdd(m)
Stated(m) == m.states["cold"] + m.states["warm"] + m.states["drift"]
Sourced(m) == OfTiers(m.source) + m.source["none"]

LEMMA Ones == ASSUME NEW b PROVE One(b) \in {0, 1} /\ (b => One(b) = 1) /\ (~b => One(b) = 0)
  BY DEF One

LEMMA NothingAddsUp == AddsUp(NoTotals) /\ Stated(NoTotals) = 0 /\ Sourced(NoTotals) = 0
<1>1. Numbers(NoTotals)
  BY DEF NoTotals, Numbers
<1>2. Searches(NoTotals) /\ IntentsAdd(NoTotals)
  BY DEF NoTotals, Searches, IntentsAdd, Intents
<1>3. Blocks(NoTotals) /\ Tokens(NoTotals)
  BY DEF NoTotals, Blocks, Tokens, OfTiers, Tiers, TurnStates
<1>4. Stated(NoTotals) = 0 /\ Sourced(NoTotals) = 0
  BY DEF NoTotals, Stated, Sourced, OfTiers, Tiers, TurnStates
<1>. QED
  BY <1>1, <1>2, <1>3, <1>4 DEF AddsUp

LEMMA SumsAdd ==
  ASSUME NEW x \in Nat, NEW y \in Nat, NEW z \in Nat, NEW w \in Nat,
         NEW a \in Nat, NEW b \in Nat, NEW c \in Nat, NEW d \in Nat
  PROVE  (x + a) + (y + b) + (z + c) + (w + d) = (x + y + z + w) + (a + b + c + d)
  OBVIOUS

(* One more observation: the aggregates add up again, and those that count
   turns grow by one for the stages the turn has done. *)
LEMMA RecordAddsUp ==
  ASSUME NEW m, AddsUp(m), NEW n \in 0 .. 6, NEW o, After(o, n)
  PROVE  LET q == Record(m, o)
         IN  /\ AddsUp(q) /\ q.requests = m.requests + 1
             /\ q.attempts = m.attempts + One(n >= 2)
             /\ q.successes = m.successes + One(o.attempted /\ o.succeeded)
             /\ q.warmServed = m.warmServed + One(o.warmServed)
             /\ Sourced(q) = Sourced(m) + One(n >= 3) /\ Stated(q) = Stated(m) + One(n = 6)
<1>. DEFINE q == Record(m, o)
<1>1. o \in Observation /\ Flags(o, n) /\ Marks(o, n) /\ Sizes(o, n)
  BY DEF After
<1>2. Numbers(m) /\ Searches(m) /\ Blocks(m) /\ Tokens(m) /\ IntentsAdd(m)
  BY DEF AddsUp
<1>3. /\ q.requests = m.requests + 1
      /\ q.attempts = m.attempts + One(o.attempted)
      /\ q.successes = m.successes + One(o.attempted /\ o.succeeded)
      /\ q.lookups = m.lookups + One(o.keyed) /\ q.hits = m.hits + One(o.hit)
      /\ q.misses = m.misses + One(o.miss)
      /\ q.warmServed = m.warmServed + One(o.warmServed) /\ q.breaks = m.breaks + One(o.broke)
  BY DEF Record
<1>4. /\ q.found = m.found + o.found /\ q.used = m.used + o.used /\ q.prompt = m.prompt + o.prompt
      /\ q.injected = m.injected + o.injected
      /\ q.guidance = m.guidance + o.guidance /\ q.tools = m.tools + o.tools
  BY DEF Record
<1>5. /\ \A k \in Tiers \cup {"none"} : q.source[k] = m.source[k] + One(k = o.source)
      /\ \A k \in Tiers : q.presence[k] = m.presence[k] + One(k \in o.present)
                         /\ q.tokens[k] = m.tokens[k] + o.tokens[k]
      /\ \A i \in Intents : q.intents[i] = m.intents[i] + One(i = o.intent)
      /\ \A s \in TurnStates : q.states[s] = m.states[s] + One(s = o.state)
  BY DEF Record
<1>6. PICK again \in Nat, late \in Nat :
         /\ q.resent = m.resent + again /\ q.toolResults = m.toolResults + late
         /\ again + late >= o.prompt - o.injected
  <2>. DEFINE calls == IF o.calls > 1 THEN o.calls ELSE 1
              rest == o.prompt - calls * o.injected
              late == IF rest > 0 THEN rest ELSE 0
  <2>1. o.prompt \in Nat /\ o.injected \in Nat /\ o.calls \in Nat
    BY <1>1 DEF Observation
  <2>2. calls \in Nat /\ calls >= 1
    BY <2>1
  <2>3. q.resent = m.resent + (calls - 1) * o.injected /\ q.toolResults = m.toolResults + late
    BY DEF Record
  <2>. HIDE DEF calls, q
  <2>4. /\ (calls - 1) * o.injected \in Nat
        /\ calls * o.injected = (calls - 1) * o.injected + o.injected
    BY <2>1, <2>2
  <2>5. calls * o.injected \in Nat
    BY <2>1, <2>2
  <2>6. late \in Nat /\ (calls - 1) * o.injected + late >= o.prompt - o.injected
    BY <2>1, <2>4, <2>5
  <2>. QED
    BY <2>3, <2>4, <2>6
<1>. HIDE DEF q
<1>7. /\ {m.requests, m.attempts, m.successes, m.lookups, m.hits, m.misses, m.breaks, m.warmServed,
          m.found, m.used, m.injected, m.guidance, m.tools, m.resent, m.toolResults, m.prompt} \subseteq Nat
      /\ o.found \in Nat /\ o.used \in Nat /\ o.prompt \in Nat /\ o.injected \in Nat
      /\ o.guidance \in Nat /\ o.tools \in Nat
      /\ \A k \in Tiers : o.tokens[k] \in Nat
  BY <1>1, <1>2 DEF Numbers, Observation
<1>8. Numbers(q)
  <2>1. {q.requests, q.attempts, q.successes, q.lookups, q.hits, q.misses, q.breaks, q.warmServed,
         q.found, q.used, q.injected, q.guidance, q.tools, q.resent, q.toolResults, q.prompt} \subseteq Nat
    BY <1>3, <1>4, <1>6, <1>7, Ones
  <2>2. \A k \in Tiers : q.tokens[k] \in Nat /\ q.presence[k] \in Nat
    BY <1>2, <1>5, <1>7, Ones DEF Numbers
  <2>3. /\ \A k \in Tiers \cup {"none"} : q.source[k] \in Nat
        /\ \A i \in Intents : q.intents[i] \in Nat
        /\ \A s \in TurnStates : q.states[s] \in Nat
    BY <1>2, <1>5, Ones DEF Numbers
  <2>. QED
    BY <2>1, <2>2, <2>3 DEF Numbers
<1>9. Searches(q) /\ q.attempts = m.attempts + One(n >= 2)
  <2>1. /\ One(o.hit) + One(o.miss) = One(o.attempted) /\ One(o.hit) <= One(o.keyed)
        /\ One(o.keyed) + One(o.warmServed) <= One(o.attempted)
        /\ One(o.attempted /\ o.succeeded) <= One(o.attempted)
        /\ One(o.attempted) = One(n >= 2)
    BY <1>1 DEF Flags, One
  <2>2. /\ One(o.hit) \in Nat /\ One(o.miss) \in Nat /\ One(o.attempted) \in Nat /\ One(o.keyed) \in Nat
        /\ One(o.warmServed) \in Nat /\ One(o.attempted /\ o.succeeded) \in Nat
    BY Ones
  <2>. QED
    BY <1>2, <1>3, <1>7, <2>1, <2>2 DEF Searches
<1>10. Blocks(q)
  <2>1. ASSUME NEW k \in Tiers
        PROVE  q.source[k] <= q.presence[k]
    <3>1. /\ One(k = o.source) <= One(k \in o.present) /\ One(k = o.source) \in Nat
          /\ One(k \in o.present) \in Nat
      BY <1>1 DEF Marks, One
    <3>2. m.source[k] \in Nat /\ m.presence[k] \in Nat /\ m.source[k] <= m.presence[k]
      BY <1>2 DEF Numbers, Blocks
    <3>. QED
      BY <1>5, <3>1, <3>2
  <2>2. q.breaks <= q.states["cold"]
    <3>1. /\ One(o.broke) <= One("cold" = o.state) /\ One(o.broke) \in Nat
          /\ One("cold" = o.state) \in Nat
      BY <1>1 DEF Marks, One
    <3>2. "cold" \in TurnStates /\ m.states["cold"] \in Nat
      BY <1>2 DEF Numbers, TurnStates
    <3>. QED
      BY <1>2, <1>3, <1>5, <1>7, <3>1, <3>2 DEF Blocks
  <2>3. q.used <= q.found
    BY <1>1, <1>2, <1>4, <1>7 DEF Blocks, Sizes
  <2>. QED
    BY <2>1, <2>2, <2>3 DEF Blocks
<1>11. Tokens(q)
  <2>1. q.injected = OfTiers(q.tokens) + q.guidance + q.tools
    <3>1. \A k \in {"permanent", "working", "episodic"} :
             q.tokens[k] = m.tokens[k] + o.tokens[k] /\ m.tokens[k] \in Nat /\ o.tokens[k] \in Nat
      BY <1>2, <1>5, <1>7 DEF Numbers, Tiers
    <3>. QED
      BY <1>1, <1>2, <1>4, <1>7, <3>1 DEF Tokens, Sizes, OfTiers
  <2>2. q.toolResults + q.resent >= q.prompt - q.injected
    BY <1>2, <1>4, <1>6, <1>7 DEF Tokens
  <2>. QED
    BY <2>1, <2>2 DEF Tokens
<1>12. IntentsAdd(q)
  <2>1. One("recall" = o.intent) + One("greeting" = o.intent) + One("conversational" = o.intent) = 1
    BY <1>1 DEF Observation, Intents, One
  <2>2. \A i \in {"recall", "greeting", "conversational"} :
           /\ q.intents[i] = m.intents[i] + One(i = o.intent) /\ m.intents[i] \in Nat
           /\ One(i = o.intent) \in Nat
    BY <1>2, <1>5, Ones DEF Numbers, Intents
  <2>. DEFINE a == One("recall" = o.intent)
              b == One("greeting" = o.intent)
              c == One("conversational" = o.intent)
  <2>3. /\ q.intents["recall"] = m.intents["recall"] + a /\ m.intents["recall"] \in Nat /\ a \in Nat
        /\ q.intents["greeting"] = m.intents["greeting"] + b /\ m.intents["greeting"] \in Nat /\ b \in Nat
        /\ q.intents["conversational"] = m.intents["conversational"] + c
        /\ m.intents["conversational"] \in Nat /\ c \in Nat
    BY <2>2
  <2>4. a + b + c = 1
    BY <2>1
  <2>. HIDE DEF a, b, c
  <2>5. m.intents["recall"] + m.intents["greeting"] + m.intents["conversational"] = m.requests
    BY <1>2 DEF IntentsAdd
  <2>6. q.intents["recall"] + q.intents["greeting"] + q.intents["conversational"]
          = (m.intents["recall"] + a) + (m.intents["greeting"] + b) + (m.intents["conversational"] + c)
    BY <2>3
  <2>7. q.intents["recall"] + q.intents["greeting"] + q.intents["conversational"] = m.requests + 1
    BY <2>3, <2>4, <2>5, <2>6
  <2>. QED
    BY <1>3, <2>7 DEF IntentsAdd
<1>13. Sourced(q) = Sourced(m) + One(n >= 3)
  <2>1. One("permanent" = o.source) + One("working" = o.source) + One("episodic" = o.source)
          + One("none" = o.source) = One(n >= 3)
    BY <1>1 DEF Observation, Marks, Tiers, One
  <2>2. \A k \in {"permanent", "working", "episodic", "none"} :
           /\ q.source[k] = m.source[k] + One(k = o.source) /\ m.source[k] \in Nat
           /\ One(k = o.source) \in Nat
    BY <1>2, <1>5, Ones DEF Numbers, Tiers
  <2>. DEFINE a == One("permanent" = o.source)
              b == One("working" = o.source)
              c == One("episodic" = o.source)
              d == One("none" = o.source)
              all == One(n >= 3)
  <2>3. /\ q.source["permanent"] = m.source["permanent"] + a /\ m.source["permanent"] \in Nat
        /\ q.source["working"] = m.source["working"] + b /\ m.source["working"] \in Nat
        /\ q.source["episodic"] = m.source["episodic"] + c /\ m.source["episodic"] \in Nat
        /\ q.source["none"] = m.source["none"] + d /\ m.source["none"] \in Nat
    BY <2>2
  <2>4. a \in Nat /\ b \in Nat /\ c \in Nat /\ d \in Nat /\ all \in Nat
    BY Ones
  <2>5. a + b + c + d = all
    BY <2>1
  <2>. HIDE DEF a, b, c, d, all
  <2>6. Sourced(q) = (m.source["permanent"] + a) + (m.source["working"] + b) + (m.source["episodic"] + c)
                     + (m.source["none"] + d)
    BY <2>3 DEF Sourced, OfTiers
  <2>7. Sourced(m) = m.source["permanent"] + m.source["working"] + m.source["episodic"] + m.source["none"]
    BY DEF Sourced, OfTiers
  <2>8. Sourced(q) = (m.source["permanent"] + m.source["working"] + m.source["episodic"] + m.source["none"])
                     + (a + b + c + d)
    BY <2>3, <2>4, <2>6, SumsAdd
  <2>. QED
    BY <2>5, <2>7, <2>8 DEF all
<1>14. Stated(q) = Stated(m) + One(n = 6)
  <2>1. One("cold" = o.state) + One("warm" = o.state) + One("drift" = o.state) = One(n = 6)
    BY <1>1 DEF Observation, Marks, TurnStates, One
  <2>2. \A s \in {"cold", "warm", "drift"} :
           /\ q.states[s] = m.states[s] + One(s = o.state) /\ m.states[s] \in Nat
           /\ One(s = o.state) \in Nat
    BY <1>2, <1>5, Ones DEF Numbers, TurnStates
  <2>. DEFINE a == One("cold" = o.state)
              b == One("warm" = o.state)
              c == One("drift" = o.state)
              all == One(n = 6)
  <2>3. /\ q.states["cold"] = m.states["cold"] + a /\ m.states["cold"] \in Nat
        /\ q.states["warm"] = m.states["warm"] + b /\ m.states["warm"] \in Nat
        /\ q.states["drift"] = m.states["drift"] + c /\ m.states["drift"] \in Nat
    BY <2>2
  <2>4. a \in Nat /\ b \in Nat /\ c \in Nat /\ all \in Nat
    BY Ones
  <2>5. a + b + c = all
    BY <2>1
  <2>. HIDE DEF a, b, c, all
  <2>6. Stated(q) = (m.states["cold"] + a) + (m.states["warm"] + b) + (m.states["drift"] + c)
    BY <2>3 DEF Stated
  <2>7. Stated(m) = m.states["cold"] + m.states["warm"] + m.states["drift"]
    BY DEF Stated
  <2>8. Stated(q) = Stated(m) + all
    BY <2>3, <2>4, <2>5, <2>6, <2>7
  <2>. QED
    BY <2>8 DEF all
<1>. QED
  BY <1>3, <1>8, <1>9, <1>10, <1>11, <1>12, <1>13, <1>14 DEF AddsUp, q

--------------------------------------------------------------------------------
(* An answered turn has done its six stages, one that raised has not; each
   aggregate is over the turns that ended having reached the stage that sets it. *)
TurnsTypes ==
  /\ course \in [Turns -> Courses] /\ far \in [Turns -> 0 .. 6]
  /\ ending \in [Turns -> {"runs", "answered", "raised"}]
  /\ \A t \in Turns : ending[t] = "answered" => far[t] = 6
  /\ \A t \in Turns : ending[t] = "raised" => far[t] < 6
TallyInv ==
  /\ AddsUp(totals) /\ totals.requests = Cardinality(Ended)
  /\ totals.attempts = Cardinality(Reached(2)) /\ Sourced(totals) = Cardinality(Reached(3))
  /\ Stated(totals) = Cardinality({t \in Ended : ending[t] = "answered"})
  /\ totals.warmServed <= totals.successes + Cardinality(LeftWithNothing)
MeasInv == TurnsTypes /\ TallyInv

LEMMA Steps == Len(Stages) = 6
  BY DEF Stages

(* A turn that ends is one more of those that ended, reached its stage and answered. *)
LEMMA EndCounts ==
  ASSUME MeasInv, NEW t \in Turns, ending[t] = "runs", NEW how \in {"answered", "raised"},
         how = "answered" <=> far[t] = 6, Recorded(t), ending' = [ending EXCEPT ![t] = how],
         UNCHANGED <<course, far>>
  PROVE  MeasInv'
<1>. DEFINE Replied == {u \in Ended : ending[u] = "answered"}
<1>1. TurnsTypes /\ AddsUp(totals)
  BY DEF MeasInv, TallyInv
<1>2. TurnsTypes'
  BY <1>1 DEF TurnsTypes
<1>3. /\ IsFiniteSet(Ended) /\ IsFiniteSet(Reached(2)) /\ IsFiniteSet(Reached(3))
      /\ IsFiniteSet(Replied) /\ IsFiniteSet(LeftWithNothing)
  <2>1. IsFiniteSet(Turns)
    BY MeasurementsBounds
  <2>. QED
    BY <2>1, FS_Subset DEF Ended, Reached, LeftWithNothing
<1>4. /\ Ended' = Ended \cup {t} /\ t \notin Ended
      /\ Reached(2)' = IF far[t] >= 2 THEN Reached(2) \cup {t} ELSE Reached(2)
      /\ Reached(3)' = IF far[t] >= 3 THEN Reached(3) \cup {t} ELSE Reached(3)
      /\ Replied' = IF far[t] = 6 THEN Replied \cup {t} ELSE Replied
      /\ t \notin Reached(2) /\ t \notin Reached(3) /\ t \notin Replied
  BY <1>1 DEF TurnsTypes, Ended, Reached
<1>. DEFINE lost == far[t] >= 2 /\ Emptied(course[t])
<1>8. /\ LeftWithNothing' = IF lost THEN LeftWithNothing \cup {t} ELSE LeftWithNothing
      /\ t \notin LeftWithNothing
  <2>1. LeftWithNothing' = {u \in Reached(2)' : Emptied(course[u])}
    BY DEF LeftWithNothing, Emptied
  <2>. QED
    BY <1>4, <2>1 DEF LeftWithNothing
<1>9. Cardinality(LeftWithNothing') = Cardinality(LeftWithNothing) + One(lost) /\ Cardinality(LeftWithNothing) \in Nat
  <2>1. CASE lost
    BY <1>3, <1>8, <2>1, FS_AddElement, FS_CardinalityType DEF One
  <2>2. CASE ~lost
    <3>1. LeftWithNothing' = LeftWithNothing /\ One(lost) = 0
      BY <1>8, <2>2 DEF One
    <3>2. Cardinality(LeftWithNothing) \in Nat
      BY <1>3, FS_CardinalityType
    <3>. HIDE DEF lost
    <3>. QED
      BY <3>1, <3>2
  <2>. QED
    BY <2>1, <2>2
<1>5. /\ Cardinality(Ended') = Cardinality(Ended) + 1
      /\ Cardinality(Reached(2)') = Cardinality(Reached(2)) + One(far[t] >= 2)
      /\ Cardinality(Reached(3)') = Cardinality(Reached(3)) + One(far[t] >= 3)
      /\ Cardinality(Replied') = Cardinality(Replied) + One(far[t] = 6)
  <2>2. Cardinality(Ended') = Cardinality(Ended) + 1
    BY <1>3, <1>4, FS_AddElement
  <2>3. Cardinality(Reached(2)') = Cardinality(Reached(2)) + One(far[t] >= 2)
    <3>1. CASE far[t] >= 2
      BY <1>3, <1>4, <3>1, FS_AddElement DEF One
    <3>2. CASE ~(far[t] >= 2)
      <4>1. Reached(2)' = Reached(2)
        BY <1>4, <3>2
      <4>2. Cardinality(Reached(2)) \in Nat
        BY <1>3, FS_CardinalityType
      <4>3. One(far[t] >= 2) = 0
        BY <3>2 DEF One
      <4>. QED
        BY <4>1, <4>2, <4>3
    <3>. QED
      BY <3>1, <3>2
  <2>4. Cardinality(Reached(3)') = Cardinality(Reached(3)) + One(far[t] >= 3)
    <3>1. CASE far[t] >= 3
      BY <1>3, <1>4, <3>1, FS_AddElement DEF One
    <3>2. CASE ~(far[t] >= 3)
      <4>1. Reached(3)' = Reached(3)
        BY <1>4, <3>2
      <4>2. Cardinality(Reached(3)) \in Nat
        BY <1>3, FS_CardinalityType
      <4>3. One(far[t] >= 3) = 0
        BY <3>2 DEF One
      <4>. QED
        BY <4>1, <4>2, <4>3
    <3>. QED
      BY <3>1, <3>2
  <2>5. Cardinality(Replied') = Cardinality(Replied) + One(far[t] = 6)
    <3>1. CASE far[t] = 6
      BY <1>3, <1>4, <3>1, FS_AddElement DEF One
    <3>2. CASE far[t] # 6
      <4>1. Replied' = Replied
        BY <1>4, <3>2
      <4>2. Cardinality(Replied) \in Nat
        BY <1>3, FS_CardinalityType
      <4>3. One(far[t] = 6) = 0
        BY <3>2 DEF One
      <4>. HIDE DEF Replied
      <4>. QED
        BY <4>1, <4>2, <4>3
    <3>. QED
      BY <3>1, <3>2
  <2>. QED
    BY <2>2, <2>3, <2>4, <2>5
<1>6. /\ AddsUp(totals') /\ totals'.requests = totals.requests + 1
      /\ totals'.attempts = totals.attempts + One(far[t] >= 2)
      /\ Sourced(totals') = Sourced(totals) + One(far[t] >= 3)
      /\ Stated(totals') = Stated(totals) + One(far[t] = 6)
      /\ totals'.warmServed <= totals'.successes + Cardinality(LeftWithNothing')
  <2>1. IsCourse(course[t]) /\ far[t] \in 0 .. 6
    BY <1>1, MeasurementsBounds DEF TurnsTypes
  <2>2. After(ObservationOf(course[t], far[t]), far[t])
    BY <2>1, Observed
  <2>. DEFINE o == ObservationOf(course[t], far[t])
              served == One(o.warmServed)
              succeeded == One(o.attempted /\ o.succeeded)
  <2>3. /\ totals'.successes = totals.successes + succeeded
        /\ totals'.warmServed = totals.warmServed + served
    BY <1>1, <2>1, <2>2, RecordAddsUp DEF Recorded
  <2>4. served <= succeeded + One(lost) /\ served \in Nat /\ succeeded \in Nat /\ One(lost) \in Nat
    <3>1. o.warmServed /\ ~o.succeeded => lost
      BY <2>1, ServedOrEmptied
    <3>2. o.warmServed => o.attempted
      BY <2>2 DEF After, Flags
    <3>. HIDE DEF lost, o
    <3>. QED
      BY <3>1, <3>2 DEF One
  <2>. HIDE DEF served, succeeded, lost
  <2>5. /\ totals.warmServed \in Nat /\ totals.successes \in Nat
        /\ totals.warmServed <= totals.successes + Cardinality(LeftWithNothing)
    BY <1>1 DEF MeasInv, TallyInv, AddsUp, Numbers
  <2>6. totals'.warmServed <= totals'.successes + Cardinality(LeftWithNothing')
    BY <1>9, <2>3, <2>4, <2>5
  <2>. QED
    BY <1>1, <2>1, <2>2, <2>6, RecordAddsUp DEF Recorded
<1>7. TallyInv'
  BY <1>5, <1>6 DEF MeasInv, TallyInv
<1>. QED
  BY <1>2, <1>7 DEF MeasInv

LEMMA MeasInvInit == MeasInit => MeasInv
<1>. SUFFICES ASSUME MeasInit PROVE MeasInv
  OBVIOUS
<1>1. TurnsTypes
  BY DEF MeasInit, TurnsTypes
<1>2. /\ Ended = {} /\ Reached(2) = {} /\ Reached(3) = {} /\ LeftWithNothing = {}
      /\ {t \in Ended : ending[t] = "answered"} = {}
  BY DEF MeasInit, Ended, Reached, LeftWithNothing
<1>3. /\ totals = NoTotals /\ NoTotals.requests = 0 /\ NoTotals.attempts = 0
      /\ NoTotals.warmServed = 0 /\ NoTotals.successes = 0
  BY DEF MeasInit, NoTotals
<1>4. TallyInv
  BY <1>2, <1>3, NothingAddsUp, FS_EmptySet DEF TallyInv
<1>. QED
  BY <1>1, <1>4 DEF MeasInv

LEMMA MeasInvNext == MeasInv /\ [MeasNext]_measvars => MeasInv'
<1>. SUFFICES ASSUME MeasInv, [MeasNext]_measvars PROVE MeasInv'
  OBVIOUS
<1>1. ASSUME NEW t \in Turns, Advance(t)
      PROVE  MeasInv'
  <2>1. TurnsTypes /\ TallyInv
    BY DEF MeasInv
  <2>2. TurnsTypes'
    BY <1>1, <2>1, Steps DEF Advance, TurnsTypes
  <2>3. Ended' = Ended /\ Reached(2)' = Reached(2) /\ Reached(3)' = Reached(3)
        /\ {u \in Ended : ending[u] = "answered"}' = {u \in Ended : ending[u] = "answered"}
    BY <1>1, <2>1 DEF Advance, Ended, Reached, TurnsTypes
  <2>4. totals' = totals /\ course' = course
    BY <1>1 DEF Advance
  <2>5. LeftWithNothing' = LeftWithNothing
    BY <2>3, <2>4 DEF LeftWithNothing, Emptied
  <2>. QED
    BY <2>1, <2>2, <2>3, <2>4, <2>5 DEF MeasInv, TallyInv
<1>2. ASSUME NEW t \in Turns, Reply(t)
      PROVE  MeasInv'
  BY <1>2, EndCounts, Steps DEF Reply
<1>3. ASSUME NEW t \in Turns, Raise(t)
      PROVE  MeasInv'
  <2>1. far[t] # 6
    BY <1>3, Steps DEF Raise
  <2>. QED
    BY <1>3, <2>1, EndCounts DEF Raise
<1>4. CASE UNCHANGED measvars
  BY <1>4 DEF measvars, MeasInv, TurnsTypes, TallyInv, Ended, Reached, LeftWithNothing, Emptied
<1>. QED
  BY <1>1, <1>2, <1>3, <1>4 DEF MeasNext

(* TurnsAccounted: for any number of turns of any course, however they overlap
   and wherever they raise, the report adds up (analytics.py:84-213). *)
THEOREM TurnsAddUp == MeasSpec => []TurnsAccounted
<1>1. MeasInv => TurnsAccounted
  <2>. SUFFICES ASSUME MeasInv PROVE TurnsAccounted
    OBVIOUS
  <2>1. /\ TallyInv /\ Numbers(totals) /\ Searches(totals) /\ Blocks(totals) /\ Tokens(totals)
        /\ IntentsAdd(totals)
    BY DEF MeasInv, TallyInv, AddsUp
  <2>2. /\ Report(totals).unattributed = totals.injected - OfTiers(totals.tokens) - totals.guidance
                                         - totals.tools
        /\ Report(totals).resent = totals.resent /\ Report(totals).toolResults = totals.toolResults
    BY DEF Report
  <2>3. /\ OfTiers(totals.tokens) \in Nat /\ totals.injected \in Nat /\ totals.guidance \in Nat
        /\ totals.tools \in Nat
    BY <2>1 DEF Numbers, OfTiers, Tiers
  <2>4. Report(totals).unattributed = 0
    BY <2>1, <2>2, <2>3 DEF Tokens
  <2>5. Report(totals).toolResults + Report(totals).resent >= totals.prompt - totals.injected
    BY <2>1, <2>2 DEF Tokens
  <2>. QED
    BY <2>1, <2>4, <2>5 DEF TurnsAccounted, TallyInv, Count, Stated, Sourced, Searches, Blocks, IntentsAdd
<1>. QED
  BY <1>1, MeasInvInit, MeasInvNext, PTL DEF MeasSpec

-----------------------------------------------------------------------------
(* The benchmark.  The difference of the counters around a turn, the score of a
   case, the metrics of a repetition, the sum over the repetitions. *)

(* What is read of one turn and what is scored of one case, as far as the
   metrics depend on it. *)
Reading(r) == /\ r.source \in Tiers \cup {"none", "unset"}
              /\ r.succeeded \in BOOLEAN /\ r.attempted \in BOOLEAN /\ (r.succeeded => r.attempted)
Outcome(r) == Reading(r) /\ r.correct \in BOOLEAN /\ r.grounded \in BOOLEAN
Metric(m) ==
  /\ m.total = Len(Cases) /\ m.grounded + m.ungrounded = m.correct
  /\ OfTiers(m.byTier) + m.byTier["none"] = m.total
  /\ m.useful <= m.successes /\ m.successes <= m.attempts /\ m.attempts <= m.total

\* A sequence of anything.
Listed(s) == \E M : s \in Seq(M)

LEMMA OneLonger ==
  ASSUME NEW s, Listed(s), NEW x
  PROVE  /\ Listed(Append(s, x)) /\ Len(s) \in Nat /\ Len(Append(s, x)) = Len(s) + 1
         /\ Append(s, x)[Len(s) + 1] = x
         /\ \A i \in 1 .. Len(s) : Append(s, x)[i] = s[i]
<1>1. PICK M : s \in Seq(M)
  BY DEF Listed
<1>2. s \in Seq(M \cup {x})
  BY <1>1
<1>3. Append(s, x) \in Seq(M \cup {x}) /\ Len(s) \in Nat /\ Len(Append(s, x)) = Len(s) + 1
      /\ Append(s, x)[Len(s) + 1] = x /\ \A i \in 1 .. Len(s) : Append(s, x)[i] = s[i]
  BY <1>2
<1>. QED
  BY <1>3 DEF Listed

\* The empty list.
LEMMA NoneListed == Listed(<<>>) /\ Len(<<>>) = 0
<1>1. <<>> \in Seq({})
  OBVIOUS
<1>. QED
  BY <1>1 DEF Listed

(* The difference of the counters around a turn is what that turn observed. *)
LEMMA DifferenceIsOwn ==
  ASSUME NEW m, AddsUp(m), NEW n \in 0 .. 6, NEW o, After(o, n),
         NEW right \in BOOLEAN, NEW raised \in BOOLEAN
  PROVE  DiffAnalytics(m, Record(m, o), right, raised) = OwnOf(o, right, raised)
<1>. DEFINE a == Record(m, o)
<1>1. o \in Observation /\ Flags(o, n)
  BY DEF After
<1>2. Numbers(m)
  BY DEF AddsUp
<1>3. /\ a.attempts = m.attempts + One(o.attempted)
      /\ a.successes = m.successes + One(o.attempted /\ o.succeeded)
      /\ a.hits = m.hits + One(o.hit) /\ a.misses = m.misses + One(o.miss)
      /\ a.warmServed = m.warmServed + One(o.warmServed)
      /\ a.found = m.found + o.found /\ a.used = m.used + o.used /\ a.injected = m.injected + o.injected
  BY DEF Record
<1>4. /\ DOMAIN a.source = Tiers \cup {"none"}
      /\ \A k \in Tiers \cup {"none"} : a.source[k] = m.source[k] + One(k = o.source)
      /\ \A k \in Tiers : a.tokens[k] = m.tokens[k] + o.tokens[k]
  BY DEF Record
<1>. HIDE DEF a
<1>5. /\ m.attempts \in Nat /\ m.successes \in Nat /\ m.hits \in Nat /\ m.misses \in Nat /\ m.warmServed \in Nat
      /\ m.found \in Nat /\ m.used \in Nat /\ m.injected \in Nat
      /\ \A k \in Tiers : m.tokens[k] \in Nat
      /\ \A k \in Tiers \cup {"none"} : m.source[k] \in Nat
  BY <1>2 DEF Numbers
<1>6. /\ o.found \in Nat /\ o.used \in Nat /\ o.injected \in Nat /\ o.tokens \in [Tiers -> Nat]
      /\ o.source \in Tiers \cup {"none", "unset"}
  BY <1>1 DEF Observation
<1>7. /\ o.attempted \in BOOLEAN /\ o.succeeded \in BOOLEAN /\ o.hit \in BOOLEAN /\ o.miss \in BOOLEAN
      /\ o.warmServed \in BOOLEAN
  BY <1>1 DEF Observation
<1>8. o.succeeded => o.attempted
  BY <1>1 DEF Flags
<1>9. /\ (a.attempts # m.attempts) = o.attempted /\ (a.hits # m.hits) = o.hit /\ (a.misses # m.misses) = o.miss
      /\ (a.warmServed # m.warmServed) = o.warmServed
  <2>1. \A x \in Nat, b \in BOOLEAN : (x + One(b) # x) = b
    BY DEF One
  <2>. QED
    BY <1>3, <1>5, <1>7, <2>1
<1>10. (a.successes # m.successes) = o.succeeded
  <2>1. \A x \in Nat, b \in BOOLEAN : (x + One(b) # x) = b
    BY DEF One
  <2>2. (o.attempted /\ o.succeeded) = o.succeeded
    BY <1>7, <1>8
  <2>. QED
    BY <1>3, <1>5, <1>7, <2>1, <2>2
<1>11. a.found - m.found = o.found /\ a.used - m.used = o.used /\ a.injected - m.injected = o.injected
  BY <1>3, <1>5, <1>6
<1>12. [k \in Tiers |-> a.tokens[k] - m.tokens[k]] = o.tokens
  <2>1. \A k \in Tiers : a.tokens[k] - m.tokens[k] = o.tokens[k]
    BY <1>4, <1>5, <1>6
  <2>. QED
    BY <1>6, <2>1
<1>13. (IF NewTier(m, a) = {} THEN "unset" ELSE CHOOSE k \in NewTier(m, a) : TRUE) = o.source
  <2>1. \A k \in Tiers \cup {"none"} : a.source[k] > m.source[k] <=> k = o.source
    BY <1>4, <1>5 DEF One
  <2>2. NewTier(m, a) = {k \in Tiers \cup {"none"} : k = o.source}
    BY <1>4, <2>1 DEF NewTier
  <2>3. CASE o.source = "unset"
    BY <2>2, <2>3 DEF Tiers
  <2>4. CASE o.source \in Tiers \cup {"none"}
    <3>1. NewTier(m, a) = {o.source}
      BY <2>2, <2>4
    <3>. QED
      BY <3>1
  <2>. QED
    BY <1>6, <2>3, <2>4
<1>. QED
  BY <1>9, <1>10, <1>11, <1>12, <1>13 DEF DiffAnalytics, OwnOf, a

(* A score of a case with at least one reading. *)
LEMMA ScoreIsOutcome ==
  ASSUME NEW rs, Len(rs) \in Nat \ {0}, DOMAIN rs = 1 .. Len(rs), \A i \in 1 .. Len(rs) : Reading(rs[i]),
         NEW grounded \in BOOLEAN, LastOf(rs).right \in BOOLEAN
  PROVE  Outcome(Score(rs, grounded))
<1>. DEFINE r == Score(rs, grounded)
<1>1. /\ r.source = rs[Len(rs)].source /\ (r.correct <=> LastOf(rs).right) /\ (r.grounded <=> grounded)
      /\ (r.succeeded <=> \E i \in 1 .. Len(rs) : rs[i].succeeded)
      /\ (r.attempted <=> \E i \in 1 .. Len(rs) : rs[i].attempted)
  BY DEF Score, AnyOf, LastOf
<1>2. r.succeeded \in BOOLEAN /\ r.attempted \in BOOLEAN /\ r.correct \in BOOLEAN /\ r.grounded \in BOOLEAN
  BY DEF Score, AnyOf
<1>. HIDE DEF r
<1>3. r.source \in Tiers \cup {"none", "unset"}
  BY <1>1 DEF Reading
<1>4. ASSUME r.succeeded PROVE r.attempted
  <2>1. PICK i \in 1 .. Len(rs) : rs[i].succeeded
    BY <1>1, <1>4
  <2>. QED
    BY <1>1, <2>1 DEF Reading
<1>. QED
  BY <1>2, <1>3, <1>4 DEF Outcome, Reading, r

LEMMA DisjointAdd ==
  ASSUME NEW S, IsFiniteSet(S), NEW A, NEW B,
         A \subseteq S, B \subseteq S, A \cap B = {}
  PROVE  Cardinality(A \cup B) = Cardinality(A) + Cardinality(B)
         /\ Cardinality(A) \in Nat /\ Cardinality(B) \in Nat
<1>1. IsFiniteSet(A) /\ IsFiniteSet(B)
  BY FS_Subset
<1>2. Cardinality(A \cup B) = Cardinality(A) + Cardinality(B) - Cardinality({})
  BY <1>1, FS_Union
<1>3. Cardinality({}) = 0 /\ Cardinality(A) \in Nat /\ Cardinality(B) \in Nat
  BY <1>1, FS_EmptySet, FS_CardinalityType
<1>. QED
  BY <1>2, <1>3

(* The metrics of a repetition, whichever the outcomes of its cases. *)
LEMMA ResultsAddUp ==
  ASSUME NEW rs, Len(rs) = Len(Cases), DOMAIN rs = 1 .. Len(rs), \A i \in 1 .. Len(rs) : Outcome(rs[i])
  PROVE  Metric(FromResults(rs))
<1>. DEFINE D == 1 .. Len(rs)
            m == FromResults(rs)
            Right == {i \in D : rs[i].correct}
            Grounded == {i \in D : rs[i].correct /\ rs[i].grounded}
            Floating == {i \in D : rs[i].correct /\ ~rs[i].grounded}
            Useful == {i \in D : rs[i].succeeded /\ rs[i].used > 0}
            Succeeded == {i \in D : rs[i].succeeded}
            Attempted == {i \in D : rs[i].attempted}
            In(k) == {i \in D : (IF rs[i].source = "unset" THEN "none" ELSE rs[i].source) = k}
<1>1. /\ m.total = Len(rs) /\ m.correct = Cardinality(Right) /\ m.grounded = Cardinality(Grounded)
      /\ m.ungrounded = Cardinality(Floating) /\ m.useful = Cardinality(Useful)
      /\ m.successes = Cardinality(Succeeded) /\ m.attempts = Cardinality(Attempted)
  BY DEF FromResults, Number
<1>2. /\ m.byTier["permanent"] = Cardinality(In("permanent")) /\ m.byTier["working"] = Cardinality(In("working"))
      /\ m.byTier["episodic"] = Cardinality(In("episodic")) /\ m.byTier["none"] = Cardinality(In("none"))
  BY DEF FromResults, Number, Tiers
<1>. HIDE DEF m
<1>3. Len(rs) \in Nat /\ IsFiniteSet(D) /\ Cardinality(D) = Len(rs)
  <2>1. Len(rs) \in Nat /\ Len(rs) > 0
    BY BenchmarkBounds
  <2>2. IsFiniteSet(1 .. Len(rs)) /\ Cardinality(1 .. Len(rs)) = IF 1 > Len(rs) THEN 0 ELSE Len(rs) - 1 + 1
    <3>1. 1 \in Int /\ Len(rs) \in Int
      BY <2>1
    <3>. QED
      BY <3>1, FS_Interval
  <2>. QED
    BY <2>1, <2>2
<1>4. m.grounded + m.ungrounded = m.correct
  <2>1. Right = Grounded \cup Floating /\ Grounded \cap Floating = {} /\ Grounded \subseteq D /\ Floating \subseteq D
    OBVIOUS
  <2>. HIDE DEF Right, Grounded, Floating, D
  <2>. QED
    BY <1>1, <1>3, <2>1, DisjointAdd
<1>5. OfTiers(m.byTier) + m.byTier["none"] = m.total
  <2>1. \A i \in D : rs[i].source \in {"permanent", "working", "episodic", "none", "unset"}
    BY DEF Outcome, Reading, Tiers
  <2>2. D = ((In("permanent") \cup In("working")) \cup In("episodic")) \cup In("none")
    BY <2>1
  <2>3. /\ In("permanent") \cap In("working") = {}
        /\ (In("permanent") \cup In("working")) \cap In("episodic") = {}
        /\ ((In("permanent") \cup In("working")) \cup In("episodic")) \cap In("none") = {}
    OBVIOUS
  <2>4. /\ In("permanent") \subseteq D /\ In("working") \subseteq D
        /\ In("episodic") \subseteq D /\ In("none") \subseteq D
    OBVIOUS
  <2>. HIDE DEF In, D
  <2>5. Cardinality(In("permanent") \cup In("working"))
          = Cardinality(In("permanent")) + Cardinality(In("working"))
    BY <1>3, <2>3, <2>4, DisjointAdd
  <2>6. Cardinality((In("permanent") \cup In("working")) \cup In("episodic"))
          = Cardinality(In("permanent") \cup In("working")) + Cardinality(In("episodic"))
    BY <1>3, <2>3, <2>4, DisjointAdd
  <2>7. Cardinality(D) = Cardinality((In("permanent") \cup In("working")) \cup In("episodic"))
                         + Cardinality(In("none"))
    <3>1. (In("permanent") \cup In("working")) \cup In("episodic") \subseteq D
      BY <2>4
    <3>. QED
      BY <1>3, <2>2, <2>3, <2>4, <3>1, DisjointAdd
  <2>. QED
    BY <1>1, <1>2, <1>3, <2>5, <2>6, <2>7 DEF OfTiers
<1>6. m.useful <= m.successes /\ m.successes <= m.attempts /\ m.attempts <= m.total
  <2>1. Useful \subseteq Succeeded /\ Succeeded \subseteq Attempted /\ Attempted \subseteq D
    BY DEF Outcome, Reading
  <2>2. IsFiniteSet(Attempted) /\ IsFiniteSet(Succeeded) /\ Cardinality(Attempted) <= Cardinality(D)
    BY <1>3, <2>1, FS_Subset
  <2>3. Cardinality(Succeeded) <= Cardinality(Attempted) /\ Cardinality(Useful) <= Cardinality(Succeeded)
    BY <2>1, <2>2, FS_Subset
  <2>. QED
    BY <1>1, <1>3, <2>2, <2>3
<1>. QED
  BY <1>1, <1>4, <1>5, <1>6 DEF Metric, m

(* A sum over the repetitions is what each adds times how many there are. *)
LEMMA EachAddsTheSame ==
  ASSUME NEW ms, Len(ms) \in Nat, DOMAIN ms = 1 .. Len(ms), NEW each \in Nat,
         \A i \in 1 .. Len(ms) : ms[i].total = each
  PROVE  FromRuns(ms).cases = Len(ms) * each
<1>. DEFINE of == [i \in DOMAIN ms |-> ms[i].total]
            sum == RunningSum(of, Len(ms))
            bad == {n \in 0 .. Len(ms) : sum[n] # n * each}
<1>1. FromRuns(ms).cases = sum[Len(ms)]
  BY DEF FromRuns, SumOver
<1>2. \A n \in 0 .. Len(ms) : sum[n] = IF n = 0 THEN 0 ELSE sum[n - 1] + of[n]
  BY SumExists
<1>3. \A n \in 1 .. Len(ms) : of[n] = each
  OBVIOUS
<1>. HIDE DEF of, sum
<1>4. ASSUME bad # {} PROVE FALSE
  <2>1. PICK n \in bad : \A k \in bad : n <= k
    <3>1. bad \subseteq Nat
      OBVIOUS
    <3>. HIDE DEF bad
    <3>. QED
      BY <1>4, <3>1, LeastOf
  <2>2. n \in 0 .. Len(ms) /\ sum[n] # n * each
    OBVIOUS
  <2>3. n # 0
    <3>1. sum[0] = 0 /\ 0 * each = 0
      BY <1>2
    <3>. QED
      BY <2>2, <3>1
  <2>4. n - 1 \in 0 .. Len(ms) /\ n \in 1 .. Len(ms) /\ ~(n <= n - 1)
    BY <2>2, <2>3
  <2>5. sum[n - 1] = (n - 1) * each
    BY <2>1, <2>4
  <2>6. sum[n] = (n - 1) * each + each
    BY <1>2, <1>3, <2>2, <2>3, <2>4, <2>5
  <2>7. (n - 1) * each + each = n * each
    BY <2>4
  <2>. QED
    BY <2>2, <2>6, <2>7
<1>5. Len(ms) \in 0 .. Len(ms)
  OBVIOUS
<1>. QED
  BY <1>1, <1>4, <1>5

--------------------------------------------------------------------------------
(* While a turn is under way the snapshot is what the counters are; what was
   read so far is what the turns observed, but for the error; results and metrics are those of the
   cases and repetitions done.  The error is that of any turn of the case. *)
PlacesInv ==
  /\ bphase \in {"reset", "preload", "snapshot", "turn", "score", "done", "aborted"}
  /\ at \in 1 .. Len(Cases) /\ round \in 1 .. Rounds /\ error \in BOOLEAN
CountersInv == AddsUp(counters) /\ (bphase = "turn" => before = counters)
ReadInv ==
  /\ Listed(perRun) /\ Listed(observed) /\ Len(perRun) = Len(observed) /\ (bphase = "score" => Len(perRun) > 0)
  /\ \A i \in 1 .. Len(perRun) : Reading(perRun[i]) /\ perRun[i].right \in BOOLEAN
  /\ \A i \in 1 .. Len(perRun) : perRun[i] = [observed[i] EXCEPT !.error = ErrorsSoFar(i)]
  /\ error = ErrorsSoFar(Len(observed))
ResultsInv ==
  /\ Listed(results) /\ \A i \in 1 .. Len(results) : Outcome(results[i])
  /\ bphase \in {"preload", "snapshot", "turn", "score"} => Len(results) = at - 1
RoundsInv ==
  /\ Listed(metrics) /\ \A i \in 1 .. Len(metrics) : Metric(metrics[i])
  /\ Len(metrics) = IF bphase = "done" THEN Rounds ELSE round - 1
BenchInv == PlacesInv /\ CountersInv /\ ReadInv /\ ResultsInv /\ RoundsInv

LEMMA BenchBegins == BenchInit => BenchInv
<1>. SUFFICES ASSUME BenchInit PROVE BenchInv
  OBVIOUS
<1>1. PlacesInv
  <2>1. 1 \in 1 .. Len(Cases) /\ 1 \in 1 .. Rounds
    BY BenchmarkBounds
  <2>. QED
    BY <2>1 DEF BenchInit, PlacesInv
<1>2. CountersInv
  BY NothingAddsUp DEF BenchInit, CountersInv
<1>3. ResultsInv /\ RoundsInv
  BY NoneListed DEF BenchInit, ResultsInv, RoundsInv
<1>4. ReadInv
  <2>1. observed = <<>> /\ perRun = <<>> /\ error = FALSE /\ bphase = "reset"
    BY DEF BenchInit
  <2>2. ErrorsSoFar(Len(observed)) = FALSE /\ 1 .. Len(perRun) = {}
    BY <2>1, NoneListed DEF ErrorsSoFar
  <2>3. Listed(perRun) /\ Listed(observed) /\ Len(perRun) = Len(observed)
    BY <2>1, NoneListed
  <2>. QED
    BY <2>1, <2>2, <2>3 DEF ReadInv
<1>. QED
  BY <1>1, <1>2, <1>3, <1>4 DEF BenchInv

LEMMA ResetKeeps == BenchInv /\ ResetAnalytics => BenchInv'
<1>. SUFFICES ASSUME BenchInv, ResetAnalytics PROVE BenchInv'
  OBVIOUS
<1>1. PlacesInv'
  BY BenchmarkBounds DEF BenchInv, PlacesInv, ResetAnalytics
<1>2. CountersInv'
  BY NothingAddsUp DEF CountersInv, ResetAnalytics
<1>3. ReadInv' /\ ResultsInv' /\ RoundsInv'
  BY NoneListed DEF BenchInv, ReadInv, ResultsInv, RoundsInv, ResetAnalytics, ErrorsSoFar
<1>. QED
  BY <1>1, <1>2, <1>3 DEF BenchInv

LEMMA PreloadKeeps == BenchInv /\ Preload => BenchInv'
<1>. SUFFICES ASSUME BenchInv, Preload PROVE BenchInv'
  OBVIOUS
<1>1. PlacesInv' /\ CountersInv'
  BY DEF BenchInv, PlacesInv, CountersInv, Preload
<1>2. ResultsInv' /\ RoundsInv'
  BY DEF BenchInv, ResultsInv, RoundsInv, Preload
<1>3. ReadInv'
  <2>1. observed' = <<>> /\ perRun' = <<>> /\ error' = FALSE /\ bphase' # "score"
    BY DEF Preload
  <2>2. ErrorsSoFar(Len(observed))' = FALSE /\ 1 .. Len(perRun') = {}
    BY <2>1, NoneListed DEF ErrorsSoFar
  <2>3. Listed(perRun') /\ Listed(observed') /\ Len(perRun') = Len(observed')
    BY <2>1, NoneListed
  <2>. QED
    BY <2>1, <2>2, <2>3 DEF ReadInv
<1>. QED
  BY <1>1, <1>2, <1>3 DEF BenchInv

LEMMA SnapshotKeeps == BenchInv /\ Snapshot => BenchInv'
<1>. SUFFICES ASSUME BenchInv, Snapshot PROVE BenchInv'
  OBVIOUS
<1>1. PlacesInv' /\ CountersInv'
  BY DEF BenchInv, PlacesInv, CountersInv, Snapshot, SnapshotAnalytics
<1>2. ReadInv' /\ ResultsInv' /\ RoundsInv'
  BY DEF BenchInv, ReadInv, ResultsInv, RoundsInv, Snapshot, ErrorsSoFar
<1>. QED
  BY <1>1, <1>2 DEF BenchInv

LEMMA AskKeeps ==
  ASSUME BenchInv, NEW c \in Asked, NEW n \in Reaches, NEW right \in BOOLEAN, AskQuestion(c, n, right)
  PROVE  BenchInv'
<1>. DEFINE o == ObservationOf(c, n)
            own == n < Len(Stages)
            raised == error \/ own
<1>1. n \in 0 .. 6 /\ After(o, n)
  BY BenchmarkBounds, Observed
<1>2. raised \in BOOLEAN
  BY DEF BenchInv, PlacesInv
<1>3. /\ bphase = "turn" /\ counters' = Record(counters, o) /\ (error' <=> raised)
      /\ observed' = Append(observed, OwnOf(o, right, own))
      /\ perRun' = Append(perRun, DiffAnalytics(before, counters', right, raised))
      /\ bphase' \in {"score", "snapshot"}
      /\ UNCHANGED <<round, at, before, results, metrics>>
  BY DEF AskQuestion
<1>12. own \in BOOLEAN /\ raised = (error \/ own)
  OBVIOUS
<1>. HIDE DEF o, raised, own
<1>4. AddsUp(counters) /\ before = counters
  BY <1>3 DEF BenchInv, CountersInv
<1>5. AddsUp(counters')
  BY <1>1, <1>3, <1>4, RecordAddsUp
<1>6. perRun' = Append(perRun, OwnOf(o, right, raised))
  BY <1>1, <1>2, <1>3, <1>4, DifferenceIsOwn
<1>7. Reading(OwnOf(o, right, raised)) /\ OwnOf(o, right, raised).right \in BOOLEAN
  <2>1. /\ o.source \in Tiers \cup {"none", "unset"} /\ o.succeeded \in BOOLEAN /\ o.attempted \in BOOLEAN
        /\ (o.succeeded => o.attempted)
    BY <1>1 DEF After, Observation, Flags
  <2>. QED
    BY <2>1 DEF OwnOf, Reading
<1>8. PlacesInv'
  <2>1. error' \in BOOLEAN
    BY <1>3 DEF AskQuestion
  <2>. QED
    BY <1>3, <2>1 DEF BenchInv, PlacesInv
<1>9. CountersInv'
  BY <1>3, <1>5 DEF CountersInv
<1>10. ReadInv'
  <2>. DEFINE x == OwnOf(o, right, raised)
              y == OwnOf(o, right, own)
  <2>1. /\ Listed(perRun) /\ Listed(observed) /\ Len(perRun) = Len(observed)
        /\ \A i \in 1 .. Len(perRun) : Reading(perRun[i]) /\ perRun[i].right \in BOOLEAN
        /\ \A i \in 1 .. Len(perRun) : perRun[i] = [observed[i] EXCEPT !.error = ErrorsSoFar(i)]
        /\ error = ErrorsSoFar(Len(observed))
    BY DEF BenchInv, ReadInv
  <2>7. x = [y EXCEPT !.error = raised] /\ y.error = own
    BY DEF OwnOf
  <2>. HIDE DEF x, y
  <2>2. perRun' = Append(perRun, x) /\ observed' = Append(observed, y)
    BY <1>3, <1>6 DEF x, y
  <2>3. /\ Listed(perRun') /\ Len(perRun) \in Nat /\ Len(perRun') = Len(perRun) + 1
        /\ perRun'[Len(perRun) + 1] = x /\ \A i \in 1 .. Len(perRun) : perRun'[i] = perRun[i]
    BY <2>1, <2>2, OneLonger
  <2>8. /\ Listed(observed') /\ Len(observed') = Len(perRun) + 1
        /\ observed'[Len(perRun) + 1] = y /\ \A i \in 1 .. Len(perRun) : observed'[i] = observed[i]
    BY <2>1, <2>2, OneLonger
  <2>4. \A i \in 1 .. Len(perRun') : i \in 1 .. Len(perRun) \/ i = Len(perRun) + 1
    BY <2>3
  <2>5. \A i \in 1 .. Len(perRun') : Reading(perRun'[i]) /\ perRun'[i].right \in BOOLEAN
    BY <1>7, <2>1, <2>3, <2>4 DEF x
  <2>. DEFINE Erred(i) == \E j \in 1 .. i : observed'[j].error
  <2>9. \A i \in 1 .. Len(perRun) : Erred(i) = ErrorsSoFar(i)
    <3>. SUFFICES ASSUME NEW i \in 1 .. Len(perRun)
                  PROVE  Erred(i) <=> \E j \in 1 .. i : observed[j].error
      BY DEF ErrorsSoFar
    <3>1. \A j \in 1 .. i : observed'[j] = observed[j]
      BY <2>3, <2>8
    <3>. QED
      BY <3>1
  <2>10. Erred(Len(perRun) + 1) = raised
    <3>1. error <=> \E j \in 1 .. Len(perRun) : observed[j].error
      BY <2>1 DEF ErrorsSoFar
    <3>2. 1 .. (Len(perRun) + 1) = (1 .. Len(perRun)) \cup {Len(perRun) + 1}
      BY <2>3
    <3>3. Erred(Len(perRun) + 1) <=> raised
      BY <1>12, <2>7, <2>8, <3>1, <3>2
    <3>. QED
      BY <1>2, <3>3
  <2>13. \A i \in 1 .. Len(perRun') : (ErrorsSoFar(i))' = Erred(i)
    BY DEF ErrorsSoFar
  <2>14. ErrorsSoFar(Len(observed))' = Erred(Len(observed'))
    BY DEF ErrorsSoFar
  <2>. HIDE DEF Erred
  <2>11. \A i \in 1 .. Len(perRun') : perRun'[i] = [observed'[i] EXCEPT !.error = Erred(i)]
    <3>1. ASSUME NEW i \in 1 .. Len(perRun) PROVE perRun'[i] = [observed'[i] EXCEPT !.error = Erred(i)]
      <4>1. perRun[i] = [observed[i] EXCEPT !.error = ErrorsSoFar(i)] /\ Erred(i) = ErrorsSoFar(i)
        BY <2>1, <2>9
      <4>2. perRun'[i] = perRun[i] /\ observed'[i] = observed[i]
        BY <2>3, <2>8
      <4>. QED
        BY <4>1, <4>2
    <3>2. perRun'[Len(perRun) + 1] = [observed'[Len(perRun) + 1] EXCEPT !.error = Erred(Len(perRun) + 1)]
      BY <2>3, <2>7, <2>8, <2>10
    <3>. QED
      BY <2>4, <3>1, <3>2
  <2>12. error' = Erred(Len(observed'))
    <3>1. error' = raised
      <4>1. error' = (error \/ n < Len(Stages))
        BY DEF AskQuestion
      <4>. QED
        BY <4>1 DEF raised, own
    <3>. QED
      BY <2>8, <2>10, <3>1
  <2>15. /\ \A i \in 1 .. Len(perRun') : perRun'[i] = [observed'[i] EXCEPT !.error = (ErrorsSoFar(i))']
         /\ error' = ErrorsSoFar(Len(observed))'
    BY <2>11, <2>12, <2>13, <2>14
  <2>16. Len(perRun') = Len(observed') /\ Len(perRun') > 0
    BY <2>3, <2>8
  <2>. QED
    BY <2>3, <2>5, <2>8, <2>15, <2>16 DEF ReadInv
<1>11. ResultsInv' /\ RoundsInv'
  BY <1>3 DEF BenchInv, ResultsInv, RoundsInv
<1>. QED
  BY <1>8, <1>9, <1>10, <1>11 DEF BenchInv

\* What was read is not disturbed by a step that asks no question.
LEMMA ErrorsAreKept ==
  ASSUME UNCHANGED observed
  PROVE  /\ \A i \in 1 .. Len(perRun) : (ErrorsSoFar(i))' = ErrorsSoFar(i)
         /\ ErrorsSoFar(Len(observed))' = ErrorsSoFar(Len(observed))
  BY DEF ErrorsSoFar

LEMMA ReadIsKept ==
  ASSUME BenchInv, UNCHANGED <<perRun, observed, error>>, bphase' # "score"
  PROVE  ReadInv'
  BY ErrorsAreKept DEF BenchInv, ReadInv

LEMMA ScoreKeeps ==
  ASSUME BenchInv, NEW found \in BOOLEAN, ScoreCase(found)
  PROVE  BenchInv'
<1>. DEFINE x == Score(perRun, found)
<1>1. /\ bphase = "score" /\ results' = Append(results, x)
      /\ UNCHANGED <<counters, before, observed, perRun, error>>
  BY DEF ScoreCase
<1>2. /\ Listed(perRun) /\ Len(perRun) > 0
      /\ Len(perRun) \in Nat \ {0} /\ DOMAIN perRun = 1 .. Len(perRun)
      /\ \A i \in 1 .. Len(perRun) : Reading(perRun[i]) /\ perRun[i].right \in BOOLEAN
  <2>1. /\ Listed(perRun) /\ Len(perRun) > 0
        /\ \A i \in 1 .. Len(perRun) : Reading(perRun[i]) /\ perRun[i].right \in BOOLEAN
    BY <1>1 DEF BenchInv, ReadInv
  <2>2. PICK M : perRun \in Seq(M)
    BY <2>1 DEF Listed
  <2>. QED
    BY <2>1, <2>2
<1>3. Outcome(x)
  <2>1. LastOf(perRun).right \in BOOLEAN
    BY <1>2 DEF LastOf
  <2>. QED
    BY <1>2, <2>1, ScoreIsOutcome
<1>. HIDE DEF x
<1>4. /\ Listed(results') /\ Len(results) \in Nat /\ Len(results') = Len(results) + 1 /\ Len(results) = at - 1
      /\ results'[Len(results) + 1] = x /\ \A i \in 1 .. Len(results) : results'[i] = results[i]
  BY <1>1, OneLonger DEF BenchInv, ResultsInv
<1>5. \A i \in 1 .. Len(results') : Outcome(results'[i])
  <2>1. \A i \in 1 .. Len(results') : i \in 1 .. Len(results) \/ i = Len(results) + 1
    BY <1>4
  <2>. QED
    BY <1>3, <1>4, <2>1 DEF BenchInv, ResultsInv
<1>6. /\ at \in 1 .. Len(Cases) /\ round \in 1 .. Rounds /\ Len(Cases) \in Nat /\ Rounds \in Nat
      /\ error \in BOOLEAN
  BY BenchmarkBounds DEF BenchInv, PlacesInv
<1>7. Listed(metrics) /\ Len(metrics) = round - 1 /\ \A i \in 1 .. Len(metrics) : Metric(metrics[i])
  BY <1>1 DEF BenchInv, RoundsInv
<1>8. AddsUp(counters)
  BY DEF BenchInv, CountersInv
<1>9. CASE at < Len(Cases)
  <2>1. at' = at + 1 /\ bphase' = "preload" /\ UNCHANGED <<round, metrics>>
    BY <1>9 DEF ScoreCase
  <2>2. PlacesInv'
    BY <1>1, <1>6, <1>9, <2>1 DEF PlacesInv
  <2>3. CountersInv' /\ RoundsInv'
    BY <1>1, <1>7, <1>8, <2>1 DEF CountersInv, RoundsInv
  <2>4. ReadInv'
    BY <1>1, <2>1, ReadIsKept
  <2>5. ResultsInv'
    BY <1>4, <1>5, <1>6, <2>1 DEF ResultsInv
  <2>. QED
    BY <2>2, <2>3, <2>4, <2>5 DEF BenchInv
<1>10. CASE at = Len(Cases)
  <2>1. /\ metrics' = Append(metrics, FromResults(results')) /\ UNCHANGED at
        /\ (round < Rounds => round' = round + 1 /\ bphase' = "reset")
        /\ (round = Rounds => bphase' = "done" /\ round' = round)
    BY <1>6, <1>10 DEF ScoreCase
  <2>2. Metric(FromResults(results'))
    <3>1. Len(results') = Len(Cases)
      BY <1>4, <1>6, <1>10
    <3>2. DOMAIN results' = 1 .. Len(results')
      BY <1>4 DEF Listed
    <3>. QED
      BY <1>5, <3>1, <3>2, ResultsAddUp
  <2>. DEFINE y == FromResults(results')
  <2>3. metrics' = Append(metrics, y)
    BY <2>1
  <2>. HIDE DEF y
  <2>4. /\ Listed(metrics') /\ Len(metrics) \in Nat /\ Len(metrics') = Len(metrics) + 1
        /\ metrics'[Len(metrics) + 1] = y /\ \A i \in 1 .. Len(metrics) : metrics'[i] = metrics[i]
    BY <1>7, <2>3, OneLonger
  <2>5. \A i \in 1 .. Len(metrics') : Metric(metrics'[i])
    <3>1. \A i \in 1 .. Len(metrics') : i \in 1 .. Len(metrics) \/ i = Len(metrics) + 1
      BY <2>4
    <3>. QED
      BY <1>7, <2>2, <2>4, <3>1 DEF y
  <2>6. round < Rounds \/ round = Rounds
    BY <1>6
  <2>7. PlacesInv'
    BY <1>1, <1>6, <2>1, <2>6 DEF PlacesInv
  <2>8. RoundsInv'
    BY <1>6, <1>7, <2>1, <2>4, <2>5, <2>6 DEF RoundsInv
  <2>9. CountersInv' /\ ReadInv'
    BY <1>1, <1>8, <2>1, <2>6, ReadIsKept DEF CountersInv
  <2>10. ResultsInv'
    BY <1>4, <1>5, <2>1, <2>6 DEF ResultsInv
  <2>. QED
    BY <2>7, <2>8, <2>9, <2>10 DEF BenchInv
<1>. QED
  BY <1>6, <1>9, <1>10

LEMMA BenchKeeps == BenchInv /\ [BenchNext]_benchvars => BenchInv'
<1>. SUFFICES ASSUME BenchInv, [BenchNext]_benchvars PROVE BenchInv'
  OBVIOUS
<1>1. CASE UNCHANGED benchvars
  BY <1>1, ErrorsAreKept DEF benchvars, BenchInv, PlacesInv, CountersInv, ReadInv, ResultsInv, RoundsInv
<1>. QED
  BY <1>1, ResetKeeps, PreloadKeeps, SnapshotKeeps, AskKeeps, ScoreKeeps DEF BenchNext

(* CasesAreTheirOwn: for any dataset and any turns, what the benchmark reads off
   the counters for a turn is what that turn did, but for its error, which is
   that of the turns of its case so far; and the metrics add up
   (runner.py:62-128, metrics.py:111-167). *)
THEOREM CasesKeepApart == BenchSpec => []CasesAreTheirOwn
<1>1. BenchInv => CasesAreTheirOwn
  <2>. SUFFICES ASSUME BenchInv PROVE CasesAreTheirOwn
    OBVIOUS
  <2>1. /\ DOMAIN perRun = DOMAIN observed
        /\ \A i \in DOMAIN perRun : perRun[i] = [observed[i] EXCEPT !.error = ErrorsSoFar(i)]
    <3>1. PICK M : perRun \in Seq(M)
      BY DEF BenchInv, ReadInv, Listed
    <3>2. PICK N : observed \in Seq(N)
      BY DEF BenchInv, ReadInv, Listed
    <3>3. DOMAIN perRun = 1 .. Len(perRun) /\ DOMAIN observed = 1 .. Len(observed)
      BY <3>1, <3>2
    <3>. QED
      BY <3>3 DEF BenchInv, ReadInv
  <2>2. PICK M : metrics \in Seq(M)
    BY DEF BenchInv, RoundsInv, Listed
  <2>3. DOMAIN metrics = 1 .. Len(metrics) /\ Len(metrics) \in Nat
    BY <2>2
  <2>4. \A i \in 1 .. Len(metrics) : Metric(metrics[i])
    BY DEF BenchInv, RoundsInv
  <2>5. ASSUME bphase = "done" PROVE FromRuns(metrics).cases = Rounds * Len(Cases)
    <3>1. Len(metrics) = Rounds /\ Len(Cases) \in Nat
      BY <2>5, BenchmarkBounds DEF BenchInv, RoundsInv
    <3>2. \A i \in 1 .. Len(metrics) : metrics[i].total = Len(Cases)
      BY <2>4 DEF Metric
    <3>. QED
      BY <2>3, <3>1, <3>2, EachAddsTheSame
  <2>. QED
    BY <2>1, <2>3, <2>4, <2>5 DEF CasesAreTheirOwn, Metric
<1>. QED
  BY <1>1, BenchBegins, BenchKeeps, PTL DEF BenchSpec

=============================================================================
