--------------------------- MODULE DagRunnerProofs ---------------------------
(***************************************************************************)
(* Proofs about DagRunner for every graph, every number of nodes and every *)
(* max_concurrent: what a run does, and what it returns.                   *)
(***************************************************************************)
EXTENDS DagRunnerProps, FiniteSetTheorems, TLAPS

-----------------------------------------------------------------------------
(* Lemmas on the operators the model is built from.                        *)

\* Appending a node to execution_order adds exactly that node to the set of
\* nodes gone through.
LEMMA ProcessedAppend ==
  ASSUME order \in Seq(Node), NEW n \in Node, order' = Append(order, n)
  PROVE  Processed' = Processed \cup {n}
<1>1. /\ Len(order') = Len(order) + 1
      /\ \A i \in 1..Len(order) : order'[i] = order[i]
      /\ order'[Len(order) + 1] = n
      /\ DOMAIN order' = 1..(Len(order) + 1)
      /\ DOMAIN order = 1..Len(order)
      /\ Len(order) \in Nat
  OBVIOUS
<1>2. ASSUME NEW x \in Processed' PROVE x \in Processed \cup {n}
  <2>1. PICK i \in DOMAIN order' : x = order'[i]
    BY <1>2 DEF Processed
  <2>2. CASE i = Len(order) + 1
    BY <2>1, <2>2, <1>1
  <2>3. CASE i # Len(order) + 1
    <3>1. i \in DOMAIN order
      BY <2>1, <2>3, <1>1
    <3>2. QED
      BY <3>1, <2>1, <1>1 DEF Processed
  <2>4. QED
    BY <2>2, <2>3
<1>3. ASSUME NEW x \in Processed PROVE x \in Processed'
  <2>1. PICK i \in DOMAIN order : x = order[i]
    BY <1>3 DEF Processed
  <2>2. i \in DOMAIN order' /\ x = order'[i]
    BY <2>1, <1>1
  <2>3. QED
    BY <2>2 DEF Processed
<1>4. n \in Processed'
  <2>1. Len(order) + 1 \in DOMAIN order'
    BY <1>1
  <2>2. QED
    BY <2>1, <1>1 DEF Processed
<1>5. QED
  BY <1>2, <1>3, <1>4

\* The nodes a graph assigns to a node are nodes, and finitely many.
LEMMA DepsFinite ==
  ASSUME TypeOK
  PROVE  /\ deps \in [Node -> SUBSET Node]
         /\ DOMAIN deps = Node
         /\ \A n \in Node : IsFiniteSet(deps[n] \ context)
<1>1. deps \in [Node -> SUBSET Node]
  BY GraphsAssumption DEF TypeOK
<1>2. ASSUME NEW n \in Node PROVE IsFiniteSet(deps[n] \ context)
  <2>1. deps[n] \ context \in SUBSET Node
    BY <1>1
  <2>2. QED
    BY <2>1, NodeAssumption, FS_Subset
<1>3. QED
  BY <1>1, <1>2

\* Counting down: removing a member of a finite set lowers its cardinality by
\* one, and a set of cardinality one has no other member.
LEMMA CountDown ==
  ASSUME NEW S, NEW x, IsFiniteSet(S)
  PROVE  /\ Cardinality(S) \in Nat
         /\ x \in S => Cardinality(S \ {x}) = Cardinality(S) - 1
         /\ x \in S /\ Cardinality(S) = 1 => S = {x}
         /\ x \notin S => Cardinality(S \ {x}) = Cardinality(S)
         /\ Cardinality(S) = 0 <=> S = {}
<1>1. Cardinality(S) \in Nat
  BY FS_CardinalityType
<1>2. IsFiniteSet(S \ {x}) /\ Cardinality(S \ {x}) =
         IF x \in S THEN Cardinality(S) - 1 ELSE Cardinality(S)
  BY FS_RemoveElement
<1>3. \A T : IsFiniteSet(T) => (Cardinality(T) = 0 <=> T = {})
  BY FS_EmptySet
<1>4. ASSUME x \in S, Cardinality(S) = 1 PROVE S = {x}
  <2>1. S \ {x} = {}
    BY <1>2, <1>3, <1>4
  <2>2. QED
    BY <2>1, <1>4
<1>5. QED
  BY <1>1, <1>2, <1>3, <1>4

\* What a step of a node's task does to the state that the invariant speaks
\* of: run() does not move, the task was alive, and a task that gets past
\* "created" has copied the context.
LEMMA TaskEffect ==
  ASSUME TypeOK, NEW n \in Node, TaskStep(n)
  PROVE  /\ UNCHANGED <<deps, mainVars>>
         /\ batch = {}
         /\ phase[n] \in Live
         /\ phase'[n] \in Over \cup (Live \ {"created"})
         /\ phase' = [phase EXCEPT ![n] = phase'[n]]
         /\ \/ inputs' = inputs /\ phase[n] # "created"
            \/ inputs' = inputs /\ phase'[n] = "cancelled"
            \/ phase[n] = "created" /\ inputs' = [inputs EXCEPT ![n] = context]
<1> USE DEF TypeOK, Phase, Live, Over, Goto, Notify, mainVars
<1>1. CASE Begin(n)
  BY <1>1 DEF Begin, Resumes
<1>2. CASE Notified(n)
  BY <1>2 DEF Notified, Resumes
<1>3. CASE BackoffOver(n)
  BY <1>3 DEF BackoffOver, Resumes
<1>4. CASE Acquire(n)
  BY <1>4 DEF Acquire, Resumes
<1>5. CASE AttemptOk(n)
  BY <1>5 DEF AttemptOk, AttemptEnds
<1>6. CASE AttemptFails(n)
  BY <1>6 DEF AttemptFails, AttemptEnds
<1>7. CASE CancelDelivered(n)
  BY <1>7 DEF CancelDelivered
<1>8. QED
  BY <1>1, <1>2, <1>3, <1>4, <1>5, <1>6, <1>7 DEF TaskStep

\* A node released by n misses n and nothing else, so it is idle and has all
\* its dependencies once n is in the context.
LEMMA ReleasedIdle ==
  ASSUME TypeOK, Counting, Bookkeeping, NEW n \in Node, n \in active,
         NEW m \in Released(n)
  PROVE  /\ m \in Node /\ n \in deps[m]
         /\ phase[m] = "idle"
         /\ deps[m] \subseteq context \cup {n}
<1>1. m \in Node /\ n \in deps[m] /\ inDegree[m] = 1
  BY DepsFinite DEF Released, Successors
<1>2. n \notin context
  BY DEF Counting, Bookkeeping
<1>3. Cardinality(deps[m] \ context) = 1 /\ n \in deps[m] \ context
  BY <1>1, <1>2 DEF Counting
<1>4. deps[m] \ context = {n}
  <2> DEFINE missing == deps[m] \ context
  <2>1. IsFiniteSet(missing) /\ n \in missing /\ Cardinality(missing) = 1
    BY <1>1, <1>3, DepsFinite
  <2> HIDE DEF missing
  <2>2. missing = {n}
    BY <2>1, CountDown
  <2>3. QED
    BY <2>2 DEF missing
<1>5. QED
  BY <1>1, <1>2, <1>4 DEF Counting

-----------------------------------------------------------------------------
(* Type correctness.                                                       *)

\* The fields of a fresh run have their types.
LEMMA InitTypeOK == Init => TypeOK
<1> SUFFICES ASSUME Init PROVE TypeOK
  OBVIOUS
<1>1. \A n \in Node : Cardinality(deps[n]) \in Nat
  <2> TAKE n \in Node
  <2>1. deps[n] \in SUBSET Node
    BY GraphsAssumption DEF Init
  <2>2. QED
    BY <2>1, NodeAssumption, FS_Subset, FS_CardinalityType
<1>2. QED
  BY <1>1, MaxConcurrentAssumption DEF Init, TypeOK, MainState, Phase

\* Every action of the runner keeps the types.
LEMMA StepTypeOK == TypeOK /\ [Next]_vars => TypeOK'
<1> SUFFICES ASSUME TypeOK, [Next]_vars PROVE TypeOK'
  OBVIOUS
<1> USE DEF TypeOK, mainVars, taskVars
<1>1. CASE Start
  BY <1>1 DEF Start, CreateTasks, MainState, Phase, Live
<1>2. CASE Wake
  BY <1>2 DEF Wake
<1>3. ASSUME NEW n \in Node, ProcessError(n) PROVE TypeOK'
  BY <1>3 DEF ProcessError, MainState
<1>4. ASSUME NEW n \in Node, ProcessOk(n) PROVE TypeOK'
  <2>1. /\ order' \in Seq(Node) /\ context' \subseteq Node
        /\ inDegree' \in [Node -> Int] /\ batch' \subseteq Node
    BY <1>4 DEF ProcessOk
  <2>2. Released(n) \subseteq Node
    BY DepsFinite DEF Released, Successors
  <2>3. /\ phase' \in [Node -> Phase] /\ active' \subseteq Node
        /\ ready' \subseteq Node /\ main' \in MainState
    BY <1>4, <2>2 DEF ProcessOk, CreateTasks, MainState, Phase, Live
  <2>4. QED
    BY <1>4, <2>1, <2>3 DEF ProcessOk
<1>5. CASE AbortDone
  BY <1>5 DEF AbortDone, MainState
<1>6. CASE Stop
  BY <1>6 DEF Stop, MainState
<1>7. ASSUME NEW n \in Node, TaskStep(n) PROVE TypeOK'
  <2> USE DEF Phase, Live, Over, Goto, Notify, NotifiedState
  <2>1. CASE Begin(n)
    BY <1>7, <2>1 DEF Begin, Resumes
  <2>2. CASE Notified(n)
    BY <1>7, <2>2 DEF Notified, Resumes
  <2>3. CASE BackoffOver(n)
    BY <1>7, <2>3 DEF BackoffOver, Resumes
  <2>4. CASE Acquire(n)
    BY <1>7, <2>4 DEF Acquire, Resumes
  <2>5. CASE AttemptOk(n)
    BY <1>7, <2>5 DEF AttemptOk, AttemptEnds
  <2>6. CASE AttemptFails(n)
    <3>1. attempt' \in [Node -> Nat]
      <4>1. attempt' = attempt \/ attempt' = [attempt EXCEPT ![n] = attempt[n] + 1]
        BY <2>6 DEF AttemptFails
      <4>2. attempt[n] + 1 \in Nat
        BY <1>7
      <4>3. QED
        BY <1>7, <4>1, <4>2
    <3>2. /\ errors' \subseteq Node
          /\ phase' \in [Node -> Phase]
          /\ nodeStates' \in [Node -> NotifiedState \cup {"none"}]
      <4>1. /\ phase' = [phase EXCEPT ![n] = "notifying"]
            /\ \/ nodeStates' = [nodeStates EXCEPT ![n] = "error"]
               \/ nodeStates' = [nodeStates EXCEPT ![n] = "retrying"]
            /\ errors' = errors \/ errors' = errors \cup {n}
        BY <2>6 DEF AttemptFails
      <4>2. QED
        BY <1>7, <4>1
    <3>3. QED
      BY <1>7, <2>6, <3>1, <3>2 DEF AttemptFails, AttemptEnds
  <2>7. CASE CancelDelivered(n)
    BY <1>7, <2>7 DEF CancelDelivered
  <2>8. QED
    BY <1>7, <2>1, <2>2, <2>3, <2>4, <2>5, <2>6, <2>7 DEF TaskStep
<1>8. CASE UNCHANGED vars
  BY <1>8 DEF vars
<1>9. QED
  BY <1>1, <1>2, <1>3, <1>4, <1>5, <1>6, <1>7, <1>8 DEF Next, MainStep, Quiescent

\* Every reachable state of the runner is type correct, whatever the graph.
THEOREM TypeCorrect == Spec => []TypeOK
<1>1. QED
  BY InitTypeOK, StepTypeOK, PTL DEF Spec

-----------------------------------------------------------------------------
(* The semaphore.                                                          *)

\* The running tasks are finitely many, and their number follows a task
\* that starts or stops running.
LEMMA RunningCount ==
  ASSUME TypeOK, NEW n \in Node, phase' = [phase EXCEPT ![n] = phase'[n]]
  PROVE  /\ Cardinality(Running) \in Nat
         /\ Cardinality(Running') =
              IF phase[n] = "running" /\ phase'[n] # "running"
              THEN Cardinality(Running) - 1
              ELSE IF phase[n] # "running" /\ phase'[n] = "running"
                   THEN Cardinality(Running) + 1
                   ELSE Cardinality(Running)
<1>1. IsFiniteSet(Running) /\ Cardinality(Running) \in Nat
  BY NodeAssumption, FS_Subset, FS_CardinalityType DEF Running
<1>2. \A m \in Node : m # n => phase'[m] = phase[m]
  BY DEF TypeOK
<1>3. CASE phase[n] = "running" /\ phase'[n] # "running"
  <2>1. Running' = Running \ {n} /\ n \in Running
    BY <1>2, <1>3 DEF Running
  <2>2. QED
    BY <1>1, <1>3, <2>1, FS_RemoveElement
<1>4. CASE phase[n] # "running" /\ phase'[n] = "running"
  <2>1. Running' = Running \cup {n} /\ n \notin Running
    BY <1>2, <1>4 DEF Running
  <2>2. QED
    BY <1>1, <1>4, <2>1, FS_AddElement
<1>5. CASE phase[n] = "running" <=> phase'[n] = "running"
  <2>1. Running' = Running
    BY <1>2, <1>5 DEF Running
  <2>2. QED
    BY <1>1, <1>5, <2>1
<1>6. QED
  BY <1>3, <1>4, <1>5

\* A task takes a permit exactly when it starts running and gives one back
\* exactly when it stops, however the attempt ends.
LEMMA PermitEffect ==
  ASSUME TypeOK, NEW n \in Node, TaskStep(n)
  PROVE  sem' = IF phase[n] = "running" /\ phase'[n] # "running"
                THEN sem + 1
                ELSE IF phase[n] # "running" /\ phase'[n] = "running"
                     THEN sem - 1
                     ELSE sem
<1> USE DEF TypeOK, Phase, Live, Over, Goto, Notify
<1>1. CASE Begin(n)
  BY <1>1 DEF Begin, Resumes
<1>2. CASE Notified(n)
  BY <1>2 DEF Notified, Resumes
<1>3. CASE BackoffOver(n)
  BY <1>3 DEF BackoffOver, Resumes
<1>4. CASE Acquire(n)
  BY <1>4 DEF Acquire, Resumes
<1>5. CASE AttemptOk(n)
  BY <1>5 DEF AttemptOk, AttemptEnds
<1>6. CASE AttemptFails(n)
  BY <1>6 DEF AttemptFails, AttemptEnds, Exhausted
<1>7. CASE CancelDelivered(n)
  BY <1>7 DEF CancelDelivered
<1>8. QED
  BY <1>1, <1>2, <1>3, <1>4, <1>5, <1>6, <1>7 DEF TaskStep

\* All permits are free before the first task runs.
LEMMA InitSemaphore == Init => SemaphoreConserved
<1> SUFFICES ASSUME Init PROVE sem + Cardinality(Running) = MaxConcurrent
  BY DEF SemaphoreConserved
<1>1. Running = {} /\ sem = MaxConcurrent
  BY DEF Init, Running
<1>2. Cardinality(Running) = 0
  BY <1>1, FS_EmptySet
<1>3. QED
  BY <1>1, <1>2, MaxConcurrentAssumption

\* run() creates tasks only out of idle nodes or on nodes that are not
\* running, so the running set does not change when it moves.
LEMMA StepSemaphore ==
  TypeOK /\ IndInv /\ SemaphoreConserved /\ [Next]_vars => SemaphoreConserved'
<1> SUFFICES ASSUME TypeOK, IndInv, SemaphoreConserved, [Next]_vars
             PROVE SemaphoreConserved'
  OBVIOUS
<1> USE DEF SemaphoreConserved
<1>1. ASSUME NEW N, \A m \in Node : m \in N => phase[m] = "idle",
             phase' = [m \in Node |-> IF m \in N THEN "created" ELSE phase[m]],
             sem' = sem
      PROVE  SemaphoreConserved'
  <2>1. Running' = Running
    BY <1>1 DEF Running, TypeOK
  <2>2. QED
    BY <1>1, <2>1
<1>2. CASE Start
  <2>1. CASE Acyclic(deps)
    <3>1. \A m \in Node : phase[m] = "idle"
      BY <1>2 DEF Start, IndInv, Bookkeeping
    <3>2. QED
      BY <1>1, <1>2, <2>1, <3>1 DEF Start, CreateTasks
  <2>2. CASE ~Acyclic(deps)
    BY <1>2, <2>2 DEF Start, Running
  <2>3. QED
    BY <2>1, <2>2
<1>3. CASE Wake \/ AbortDone \/ Stop
  BY <1>3 DEF Wake, AbortDone, Stop, taskVars, Running
<1>4. ASSUME NEW n \in Node, ProcessError(n) PROVE SemaphoreConserved'
  BY <1>4 DEF ProcessError, taskVars, Running
<1>5. ASSUME NEW n \in Node, ProcessOk(n) PROVE SemaphoreConserved'
  <2>a. n \in active /\ Counting /\ Bookkeeping
    BY <1>5 DEF ProcessOk, IndInv, Bookkeeping
  <2>b. \A m \in Released(n) : phase[m] = "idle"
    BY <2>a, ReleasedIdle
  <2>1. \A m \in Node : m \in ready \cup Released(n) => phase[m] = "idle"
    BY <2>a, <2>b DEF Counting
  <2>2. CASE batch' = {}
    BY <1>1, <1>5, <2>1, <2>2 DEF ProcessOk, CreateTasks
  <2>3. CASE batch' # {}
    BY <1>5, <2>3 DEF ProcessOk, Running
  <2>4. QED
    BY <2>2, <2>3
<1>6. ASSUME NEW n \in Node, TaskStep(n) PROVE SemaphoreConserved'
  <2>1. /\ Cardinality(Running) \in Nat /\ sem \in Nat /\ MaxConcurrent \in Nat
        /\ Cardinality(Running') =
             IF phase[n] = "running" /\ phase'[n] # "running"
             THEN Cardinality(Running) - 1
             ELSE IF phase[n] # "running" /\ phase'[n] = "running"
                  THEN Cardinality(Running) + 1
                  ELSE Cardinality(Running)
    BY <1>6, TaskEffect, RunningCount, MaxConcurrentAssumption DEF TypeOK
  <2>2. sem' = IF phase[n] = "running" /\ phase'[n] # "running"
               THEN sem + 1
               ELSE IF phase[n] # "running" /\ phase'[n] = "running"
                    THEN sem - 1
                    ELSE sem
    BY <1>6, PermitEffect
  <2>3. QED
    BY <2>1, <2>2
<1>7. CASE UNCHANGED vars
  BY <1>7 DEF vars, taskVars, Running
<1>8. QED
  BY <1>2, <1>3, <1>4, <1>5, <1>6, <1>7 DEF Next, MainStep, Quiescent

-----------------------------------------------------------------------------
(* The inductive invariant, one lemma per action.                          *)

\* The invariant holds before run() is called.
LEMMA InitIndInv == Init => IndInv
<1> SUFFICES ASSUME Init PROVE IndInv
  OBVIOUS
<1>1. Processed = {}
  BY DEF Init, Processed
<1>2. \A n \in Node : deps[n] \ context = deps[n]
  BY DEF Init
<1>3. Bookkeeping
  BY <1>1 DEF Init, Bookkeeping, LiveNodes, Live
<1>4. Counting
  BY <1>1, <1>2 DEF Init, Counting
<1>5. NothingForgotten /\ DependencyInputs
  BY DEF Init, NothingForgotten, DependencyInputs
<1>6. QED
  BY <1>3, <1>4, <1>5 DEF IndInv

\* Start: exactly the nodes without dependencies are created.
LEMMA StartIndInv == TypeOK /\ IndInv /\ Start => IndInv'
<1> SUFFICES ASSUME TypeOK, IndInv, Start PROVE IndInv'
  OBVIOUS
<1> USE DEF IndInv
<1>1. /\ order = <<>> /\ order' = order /\ Processed = {} /\ Processed' = {}
      /\ active = {} /\ batch = {} /\ ready = {} /\ context = {}
      /\ \A n \in Node : phase[n] = "idle"
      /\ UNCHANGED <<deps, batch, order, context, inDegree, inputs>>
  BY DEF Start, Bookkeeping, Counting, Processed
<1>2. CASE ~Acyclic(deps)
  <2>1. UNCHANGED <<phase, active, ready>> /\ main' = "rejected"
    BY <1>2 DEF Start
  <2>2. QED
    BY <1>1, <2>1 DEF Bookkeeping, Counting, NothingForgotten, DependencyInputs,
                      LiveNodes, Live, Over
<1>3. CASE Acyclic(deps)
  <2> DEFINE roots == {n \in Node : inDegree[n] = 0}
  <2>1. /\ phase' = [n \in Node |-> IF n \in roots THEN "created" ELSE phase[n]]
        /\ active' = roots /\ ready' = {}
        /\ main' = IF roots = {} THEN "success" ELSE "waiting"
    BY <1>3 DEF Start, CreateTasks
  <2>2. \A n \in Node : n \in roots <=> deps[n] \subseteq context
    <3> TAKE n \in Node
    <3>1. IsFiniteSet(deps[n] \ context) /\ inDegree[n] = Cardinality(deps[n] \ context)
      BY DepsFinite DEF Counting
    <3>2. inDegree[n] = 0 <=> deps[n] \ context = {}
      BY <3>1, FS_EmptySet
    <3>3. QED
      BY <3>2
  <2>3. Bookkeeping'
    BY <1>1, <2>1 DEF Bookkeeping, LiveNodes, Live, Over
  <2>4. Counting'
    BY <1>1, <2>1, <2>2 DEF Counting
  <2>5. NothingForgotten'
    BY <1>1, <1>3, <2>1, <2>2 DEF NothingForgotten
  <2>6. DependencyInputs'
    BY <1>1, <2>1, <2>2 DEF DependencyInputs
  <2>7. QED
    BY <2>3, <2>4, <2>5, <2>6
<1>4. QED
  BY <1>2, <1>3

\* Steps that move only run(): Wake, AbortDone and Stop.
LEMMA WaitIndInv ==
  TypeOK /\ IndInv /\ (Wake \/ AbortDone \/ Stop) => IndInv'
<1> SUFFICES ASSUME TypeOK, IndInv, Wake \/ AbortDone \/ Stop PROVE IndInv'
  OBVIOUS
<1> USE DEF IndInv
<1>1. /\ UNCHANGED <<deps, active, ready, inDegree, order, context, phase, inputs>>
      /\ Processed' = Processed /\ LiveNodes' = LiveNodes
  BY DEF Wake, AbortDone, Stop, taskVars, Processed, LiveNodes
<1>2. Bookkeeping'
  <2>1. CASE Wake
    BY <1>1, <2>1 DEF Wake, Bookkeeping
  <2>2. CASE AbortDone
    <3>1. LiveNodes = {}
      BY <2>2 DEF AbortDone, Bookkeeping, LiveNodes, Live, Over
    <3>2. QED
      BY <1>1, <2>2, <3>1 DEF AbortDone, Bookkeeping
  <2>3. CASE Stop
    BY <1>1, <2>3 DEF Stop, Bookkeeping
  <2>4. QED
    BY <2>1, <2>2, <2>3
<1>3. Counting'
  BY <1>1 DEF Wake, AbortDone, Stop, Counting
<1>4. NothingForgotten'
  BY <1>1 DEF Wake, AbortDone, Stop, NothingForgotten
<1>5. DependencyInputs'
  BY <1>1 DEF DependencyInputs
<1>6. QED
  BY <1>2, <1>3, <1>4, <1>5

\* Taking a failed node off the notifications keeps the invariant: run()
\* turns to aborting, and nothing is released.
LEMMA ProcessErrorIndInv ==
  ASSUME TypeOK, IndInv, NEW n \in Node, ProcessError(n)
  PROVE  IndInv'
<1> USE DEF IndInv
<1>1. /\ UNCHANGED <<deps, ready, inDegree, context, phase, inputs>>
      /\ LiveNodes' = LiveNodes
      /\ Processed' = Processed \cup {n}
      /\ n \in active /\ phase[n] \in Over
      /\ active' = active \ {n} /\ batch' = {} /\ main' = "aborting"
      /\ main = "waiting"
  BY ProcessedAppend DEF ProcessError, taskVars, LiveNodes, Bookkeeping, TypeOK
<1>2. Bookkeeping'
  BY <1>1 DEF Bookkeeping, LiveNodes, Live, Over
<1>3. Counting'
  BY <1>1 DEF Counting
<1>4. NothingForgotten' /\ DependencyInputs'
  BY <1>1 DEF NothingForgotten, DependencyInputs
<1>5. QED
  BY <1>2, <1>3, <1>4

\* ProcessOk: the context grows by n, the in-degrees of its successors go
\* down by one, and what reaches zero is queued or created.
LEMMA ProcessOkIndInv ==
  ASSUME TypeOK, IndInv, NEW n \in Node, ProcessOk(n)
  PROVE  IndInv'
<1> USE DEF IndInv
<1> DEFINE fresh == ready \cup Released(n)
<1>1. /\ UNCHANGED <<deps, inputs>>
      /\ Processed' = Processed \cup {n}
      /\ context' = context \cup {n}
      /\ batch' = batch \ {n}
      /\ n \in active /\ phase[n] \in Over /\ n \notin context
      /\ main = "waiting" /\ context = Processed /\ Acyclic(deps)
  BY ProcessedAppend DEF ProcessOk, Bookkeeping, Counting, NothingForgotten, TypeOK
<1>2. \A m \in Released(n) : /\ m \in Node /\ n \in deps[m] /\ phase[m] = "idle"
                              /\ deps[m] \subseteq context'
  BY <1>1, ReleasedIdle
<1>3. \A m \in fresh : m \in Node /\ phase[m] = "idle" /\ deps[m] \subseteq context'
  BY <1>1, <1>2 DEF Counting, TypeOK
<1>4. \A m \in Node : inDegree'[m] = Cardinality(deps[m] \ context')
  <2> TAKE m \in Node
  <2> DEFINE missing == deps[m] \ context
  <2>1. IsFiniteSet(missing) /\ inDegree[m] = Cardinality(missing)
    BY DepsFinite DEF Counting
  <2>2. deps[m] \ context' = missing \ {n}
    BY <1>1
  <2>3. inDegree'[m] = IF n \in missing THEN inDegree[m] - 1 ELSE inDegree[m]
    BY <1>1, DepsFinite DEF ProcessOk, Successors
  <2> HIDE DEF missing
  <2>4. Cardinality(missing \ {n}) =
          IF n \in missing THEN Cardinality(missing) - 1 ELSE Cardinality(missing)
    BY <2>1, CountDown
  <2>5. QED
    BY <2>1, <2>2, <2>3, <2>4
<1>5. \A m \in Node : /\ ~(deps[m] \subseteq context)
                      /\ deps[m] \subseteq context'
                      => m \in Released(n)
  <2> TAKE m \in Node
  <2> HAVE ~(deps[m] \subseteq context) /\ deps[m] \subseteq context'
  <2>1. deps[m] \ context = {n} /\ n \in deps[m]
    BY <1>1
  <2>2. Cardinality(deps[m] \ context) = 1
    BY <2>1, FS_Singleton
  <2>3. QED
    BY <2>1, <2>2, DepsFinite DEF Released, Successors, Counting
<1>6. CASE batch' = {}
  <2>1. /\ phase' = [m \in Node |-> IF m \in fresh THEN "created" ELSE phase[m]]
        /\ active' = (active \ {n}) \cup fresh /\ ready' = {}
        /\ main' = IF active' = {} THEN "success" ELSE "waiting"
    BY <1>6 DEF ProcessOk, CreateTasks
  <2>2. Bookkeeping'
    <3>1. \A m \in Processed' : phase'[m] \in Over
      BY <1>1, <1>3, <2>1 DEF Bookkeeping, Over, TypeOK, Processed
    <3>2. \A m \in active' : phase'[m] # "idle"
      BY <1>3, <2>1 DEF Bookkeeping, TypeOK
    <3>3. active' \cap Processed' = {}
      BY <1>1, <1>3, <2>1 DEF Bookkeeping, Over
    <3>4. LiveNodes' \subseteq active'
      BY <1>1, <1>3, <2>1 DEF Bookkeeping, LiveNodes, Live, Over
    <3>5. QED
      BY <1>1, <1>6, <2>1, <3>1, <3>2, <3>3, <3>4 DEF Bookkeeping
  <2>3. Counting'
    BY <1>1, <1>3, <1>4, <2>1 DEF Counting
  <2>4. NothingForgotten'
    BY <1>1, <1>3, <1>5, <2>1 DEF NothingForgotten, TypeOK
  <2>5. DependencyInputs'
    BY <1>1, <1>3, <2>1 DEF DependencyInputs, Counting
  <2>6. QED
    BY <2>2, <2>3, <2>4, <2>5
<1>7. CASE batch' # {}
  <2>1. /\ UNCHANGED <<phase, main>> /\ ready' = fresh /\ active' = active \ {n}
        /\ LiveNodes' = LiveNodes
    BY <1>7 DEF ProcessOk, LiveNodes
  <2>2. Bookkeeping'
    BY <1>1, <1>7, <2>1 DEF Bookkeeping, LiveNodes, Live, Over
  <2>3. Counting'
    BY <1>1, <1>3, <1>4, <2>1 DEF Counting
  <2>4. NothingForgotten'
    BY <1>1, <1>3, <1>5, <2>1 DEF NothingForgotten, TypeOK
  <2>5. DependencyInputs'
    BY <1>1, <2>1 DEF DependencyInputs
  <2>6. QED
    BY <2>2, <2>3, <2>4, <2>5
<1>8. QED
  BY <1>6, <1>7

\* A step of a node's task keeps the invariant.
LEMMA TaskIndInv ==
  ASSUME TypeOK, IndInv, NEW n \in Node, TaskStep(n)
  PROVE  IndInv'
<1> USE DEF IndInv
<1>1. /\ UNCHANGED <<deps, main, batch, active, ready, inDegree, order, context>>
      /\ Processed' = Processed
      /\ batch = {} /\ phase[n] \in Live
      /\ phase'[n] \in Over \cup (Live \ {"created"})
      /\ \A m \in Node : m # n => phase'[m] = phase[m]
      /\ \A m \in Node : m # n => inputs'[m] = inputs[m]
      /\ \/ inputs'[n] = inputs[n] /\ phase[n] # "created"
         \/ inputs'[n] = inputs[n] /\ phase'[n] = "cancelled"
         \/ phase[n] = "created" /\ inputs'[n] = context
  BY TaskEffect DEF mainVars, TypeOK, Processed
<1>2. LiveNodes' \subseteq LiveNodes /\ n \in LiveNodes
  BY <1>1 DEF LiveNodes, Live, Over
<1>3. Bookkeeping'
  <2>1. main \notin {"start", "rejected", "success", "failure"}
    BY <1>1, <1>2 DEF Bookkeeping, Live
  <2>2. n \notin Processed
    BY <1>1 DEF Bookkeeping, Live, Over
  <2>3. \A m \in Processed' : phase'[m] \in Over
    BY <1>1, <2>2 DEF Bookkeeping, TypeOK, Processed
  <2>4. \A m \in active' : phase'[m] # "idle"
    BY <1>1 DEF Bookkeeping, Live, Over, TypeOK
  <2>5. QED
    BY <1>1, <1>2, <2>1, <2>3, <2>4 DEF Bookkeeping
<1>4. Counting'
  BY <1>1 DEF Counting, Live, TypeOK
<1>5. NothingForgotten'
  BY <1>1 DEF NothingForgotten, Live, Over
<1>6. DependencyInputs'
  BY <1>1 DEF DependencyInputs, Live, Over, Counting
<1>7. QED
  BY <1>3, <1>4, <1>5, <1>6

\* Every action keeps the invariant.
LEMMA StepIndInv == TypeOK /\ IndInv /\ [Next]_vars => IndInv'
<1> SUFFICES ASSUME TypeOK, IndInv, [Next]_vars PROVE IndInv'
  OBVIOUS
<1>1. CASE UNCHANGED vars
  BY <1>1 DEF vars, mainVars, taskVars, IndInv, Bookkeeping, Counting,
              NothingForgotten, DependencyInputs, LiveNodes, Processed
<1>2. CASE MainStep \/ Stop
  BY <1>2, StartIndInv, WaitIndInv, ProcessErrorIndInv, ProcessOkIndInv DEF MainStep
<1>3. ASSUME NEW n \in Node, TaskStep(n) PROVE IndInv'
  BY <1>3, TaskIndInv
<1>4. QED
  BY <1>1, <1>2, <1>3 DEF Next, Quiescent

\* The invariant holds in every reachable state of the runner, with the types
\* and the balance of the semaphore.
THEOREM Invariance == Spec => [](TypeOK /\ IndInv /\ SemaphoreConserved)
<1> DEFINE Inv == TypeOK /\ IndInv /\ SemaphoreConserved
<1>1. Init => Inv
  BY InitTypeOK, InitIndInv, InitSemaphore
<1>2. Inv /\ [Next]_vars => Inv'
  BY StepTypeOK, StepIndInv, StepSemaphore
<1>3. QED
  BY <1>1, <1>2, PTL DEF Spec
-----------------------------------------------------------------------------
(* The results.                                                            *)

\* The permits of the semaphore are conserved, so at most max_concurrent
\* runners execute at any time.
THEOREM SemaphoreSafe ==
  Spec => [](SemaphoreConserved /\ Cardinality(Running) <= MaxConcurrent)
<1>1. TypeOK /\ SemaphoreConserved => Cardinality(Running) <= MaxConcurrent
  <2> SUFFICES ASSUME TypeOK, SemaphoreConserved
               PROVE Cardinality(Running) <= MaxConcurrent
    OBVIOUS
  <2>1. Cardinality(Running) \in Nat
    BY NodeAssumption, FS_Subset, FS_CardinalityType DEF Running
  <2>2. sem + Cardinality(Running) = MaxConcurrent /\ sem \in Nat
    BY DEF SemaphoreConserved, TypeOK
  <2>3. QED
    BY <2>1, <2>2, MaxConcurrentAssumption
<1>2. QED
  BY <1>1, Invariance, PTL

\* Every node works on a snapshot that holds all its dependencies.
THEOREM InputsComplete == Spec => []DependencyInputs
<1>1. IndInv => DependencyInputs
  BY DEF IndInv
<1>2. QED
  BY <1>1, Invariance, PTL

\* Whenever run() has returned a result, no task it created is alive.
THEOREM ReturnsQuiet == Spec => []VerdictIsQuiet
<1>1. IndInv => VerdictIsQuiet
  BY DEF IndInv, Bookkeeping, VerdictIsQuiet
<1>2. QED
  BY <1>1, Invariance, PTL

\* Success is returned only when every node of the graph was gone through:
\* an acyclic graph leaves no node waiting for ever.
LEMMA SuccessIsComplete ==
  /\ TypeOK /\ IndInv
  /\ main \in {"waiting", "success"} /\ active = {} /\ ready = {}
  => context = Node
<1> SUFFICES ASSUME TypeOK, IndInv, main \in {"waiting", "success"},
                    active = {}, ready = {}
             PROVE  context = Node
  OBVIOUS
<1> DEFINE S == Node \ context
<1>1. SUFFICES ASSUME S # {} PROVE FALSE
  BY DEF TypeOK
<1>2. S \in SUBSET DOMAIN deps
  BY DepsFinite
<1>3. PICK m \in S : deps[m] \cap S = {}
  BY <1>1, <1>2 DEF IndInv, NothingForgotten, Acyclic
<1>4. deps[m] \subseteq context
  BY <1>3, DepsFinite
<1>5. QED
  BY <1>3, <1>4 DEF IndInv, NothingForgotten

\* The same of the state after a step.
LEMMA SuccessIsCompleteNext ==
  (/\ TypeOK /\ IndInv
   /\ main \in {"waiting", "success"} /\ active = {} /\ ready = {}
   => context = Node)'
<1>1. QED
  BY SuccessIsComplete, PTL

\* Each step of the runner is a step of the abstract execution, or none.
LEMMA StepRefines ==
  TypeOK /\ IndInv /\ TypeOK' /\ IndInv' /\ [Next]_vars
    => [Execution!ANext]_(Execution!avars)
<1> SUFFICES ASSUME TypeOK, IndInv, TypeOK', IndInv', [Next]_vars
             PROVE Execution!ANext \/ UNCHANGED Execution!avars
  OBVIOUS
<1> USE DEF Execution!avars, Execution!Executing
<1>1. CASE Start
  <2>1. CASE ~Acyclic(deps)
    <3>1. \A n \in Node : phase[n] = "idle"
      BY <1>1 DEF Start, IndInv, Bookkeeping
    <3>2. UNCHANGED <<deps, phase, context>> /\ main = "start" /\ main' = "rejected"
      BY <1>1, <2>1 DEF Start
    <3>3. Execution!Reject
      BY <2>1, <3>1, <3>2 DEF Execution!Reject, Execution!Acyclic, Acyclic, Over
    <3>4. QED
      BY <3>3 DEF Execution!ANext
  <2>2. CASE Acyclic(deps)
    <3>1. context' # Node
      BY <1>1, NodeAssumption DEF Start, IndInv, Counting, Bookkeeping, Processed
    <3>2. main' = "waiting"
      BY <1>1, <2>2, <3>1, SuccessIsCompleteNext DEF Start, CreateTasks
    <3>3. Execution!Advance
      BY <1>1, <2>2, <3>1, <3>2
         DEF Start, CreateTasks, IndInv, Bookkeeping, Counting, Over, TypeOK,
             Execution!Advance
    <3>4. QED
      BY <3>3 DEF Execution!ANext
  <2>3. QED
    BY <2>1, <2>2
<1>2. CASE Wake
  BY <1>2 DEF Wake, taskVars
<1>3. ASSUME NEW n \in Node, ProcessError(n)
      PROVE Execution!ANext \/ UNCHANGED Execution!avars
  BY <1>3 DEF ProcessError, taskVars, IndInv, Bookkeeping
<1>4. ASSUME NEW n \in Node, ProcessOk(n)
      PROVE Execution!ANext \/ UNCHANGED Execution!avars
  <2>1. /\ main = "waiting" /\ UNCHANGED deps
        /\ context' = context \cup {n}
        /\ main' \in {"waiting", "success"}
        /\ phase[n] \in Over
    BY <1>4 DEF ProcessOk, CreateTasks, IndInv, Bookkeeping
  <2>2. main' = "success" <=> context' = Node
    <3>1. ASSUME main' = "success" PROVE context' = Node
      BY <1>4, <2>1, <3>1, SuccessIsCompleteNext DEF ProcessOk, CreateTasks
    <3>2. ASSUME context' = Node PROVE main' = "success"
      <4>1. active' = {}
        BY <3>2, <2>1 DEF IndInv, Bookkeeping, Counting, TypeOK
      <4>2. QED
        BY <1>4, <4>1 DEF ProcessOk, CreateTasks, IndInv, Bookkeeping
    <3>3. QED
      BY <3>1, <3>2
  <2>3. \A m \in Node :
          \/ phase'[m] = phase[m]
          \/ phase[m] = "idle" /\ phase'[m] = "created"
    <3>1. n \in active /\ Counting /\ Bookkeeping
      BY <1>4 DEF ProcessOk, IndInv, Bookkeeping
    <3>2. \A m \in ready \cup Released(n) : phase[m] = "idle"
      BY <3>1, ReleasedIdle DEF Counting
    <3>3. \/ phase' = phase
          \/ phase' = [m \in Node |-> IF m \in ready \cup Released(n)
                                      THEN "created" ELSE phase[m]]
      BY <1>4 DEF ProcessOk, CreateTasks
    <3> TAKE m \in Node
    <3>4. CASE m \in ready \cup Released(n)
      BY <3>2, <3>3, <3>4
    <3>5. CASE m \notin ready \cup Released(n)
      BY <3>3, <3>5
    <3>6. QED
      BY <3>4, <3>5
  <2>4. context \subseteq context' /\ \A m \in context' : m \in Node /\ phase[m] \in Over
    BY <2>1 DEF IndInv, Bookkeeping, Counting, TypeOK
  <2>5. Execution!Advance
    BY <2>1, <2>2, <2>3, <2>4
       DEF Execution!Advance, IndInv, Counting, Over
  <2>6. QED
    BY <2>5 DEF Execution!ANext
<1>5. CASE AbortDone
  <2>1. LiveNodes = {}
    BY <1>5 DEF AbortDone, IndInv, Bookkeeping, LiveNodes, Live, Over
  <2>2. \A n \in Node : phase[n] # "idle" => phase[n] \in Over
    BY <2>1 DEF LiveNodes, TypeOK, Phase
  <2>3. Execution!Fail \/ Execution!Halt
    BY <1>5, <2>2 DEF AbortDone, taskVars, Execution!Fail, Execution!Halt
  <2>4. QED
    BY <2>3 DEF Execution!ANext
<1>6. CASE Stop
  <2>1. Execution!Halt \/ UNCHANGED Execution!avars
    BY <1>6 DEF Stop, taskVars, Execution!Halt
  <2>2. QED
    BY <2>1 DEF Execution!ANext
<1>7. ASSUME NEW n \in Node, TaskStep(n)
      PROVE Execution!ANext \/ UNCHANGED Execution!avars
  <2>1. /\ UNCHANGED <<deps, main, context>>
        /\ phase[n] \in Live
        /\ phase'[n] \in Over \cup Live
        /\ \A m \in Node : m # n => phase'[m] = phase[m]
    BY <1>7, TaskEffect DEF mainVars, TypeOK
  <2>2. main \notin {"rejected", "success", "failure"}
    BY <2>1 DEF IndInv, Bookkeeping, LiveNodes
  <2>3. Execution!End
    BY <2>1, <2>2 DEF Execution!End, Live, Over
  <2>4. QED
    BY <2>3 DEF Execution!ANext
<1>8. CASE UNCHANGED vars
  BY <1>8 DEF vars, mainVars, taskVars
<1>9. QED
  BY <1>1, <1>2, <1>3, <1>4, <1>5, <1>6, <1>7, <1>8 DEF Next, MainStep, Quiescent

\* The runner implements the abstract execution: every node begins after its
\* dependencies, success means every node, a verdict is final and quiet.
THEOREM RunnerImplementsExecution == Spec => ImplementsExecution
<1>1. Init => Execution!AInit
  BY DEF Init, Execution!AInit, Over
<1>2. QED
  BY <1>1, StepRefines, Invariance, PTL DEF Spec, ImplementsExecution, Execution!ASpec

--------------------------------------------------------------------------------
(* What the run returns: the abort is final and the result agrees with what
   happened.  First what a step may touch. *)

\* A task's step touches the records of its own node only, ends cancelled
\* only when that was asked for, and at once if it has not begun.
LEMMA TaskTouches ==
  ASSUME TypeOK, NEW n \in Node, TaskStep(n)
  PROVE  /\ UNCHANGED <<deps, mainVars>>
         /\ cancelReq \ {n} = cancelReq' \ {n} /\ cancelReq' \subseteq cancelReq
         /\ \A m \in Node \ {n} :
              /\ phase'[m] = phase[m] /\ nodeStates'[m] = nodeStates[m]
              /\ attempt'[m] = attempt[m]
              /\ m \in results' <=> m \in results
              /\ m \in skipped' <=> m \in skipped
              /\ m \in errors' <=> m \in errors
         /\ phase'[n] = "cancelled" => n \in cancelReq
         /\ phase[n] = "created" /\ n \in cancelReq => phase'[n] = "cancelled"
<1> USE DEF TypeOK, Goto, Notify, mainVars
<1>1. CASE Begin(n)
  BY <1>1 DEF Begin, Resumes
<1>2. CASE Notified(n)
  BY <1>2 DEF Notified, Resumes
<1>3. CASE BackoffOver(n)
  BY <1>3 DEF BackoffOver, Resumes
<1>4. CASE Acquire(n)
  BY <1>4 DEF Acquire, Resumes
<1>5. CASE AttemptOk(n)
  BY <1>5 DEF AttemptOk, AttemptEnds
<1>6. CASE AttemptFails(n)
  BY <1>6 DEF AttemptFails, AttemptEnds
<1>7. CASE CancelDelivered(n)
  BY <1>7 DEF CancelDelivered
<1>8. QED
  BY <1>1, <1>2, <1>3, <1>4, <1>5, <1>6, <1>7 DEF TaskStep

\* run() touches no record, and of the tasks it only creates idle ones.
LEMMA MainTouches ==
  ASSUME TypeOK, IndInv, MainStep \/ Stop
  PROVE  /\ UNCHANGED <<deps, inputs, attempt, nodeStates, results, skipped, errors>>
         /\ \A m \in Node : \/ phase'[m] = phase[m]
                            \/ phase[m] = "idle" /\ phase'[m] = "created"
<1>1. CASE Start
  <2>1. \A m \in Node : phase[m] = "idle"
    BY <1>1 DEF Start, IndInv, Bookkeeping
  <2>2. QED
    BY <1>1, <2>1 DEF Start, CreateTasks
<1>2. CASE Wake \/ AbortDone \/ Stop
  BY <1>2 DEF Wake, AbortDone, Stop, taskVars
<1>3. ASSUME NEW n \in Node, ProcessError(n)
      PROVE  UNCHANGED <<deps, taskVars>>
  BY <1>3 DEF ProcessError
<1>4. ASSUME NEW n \in Node, ProcessOk(n)
      PROVE  /\ UNCHANGED <<deps, inputs, attempt, nodeStates, results, skipped, errors>>
             /\ \A m \in Node : \/ phase'[m] = phase[m]
                                \/ phase[m] = "idle" /\ phase'[m] = "created"
  <2>1. n \in active /\ Counting /\ Bookkeeping
    BY <1>4 DEF ProcessOk, IndInv, Bookkeeping
  <2>2. \A m \in ready \cup Released(n) : phase[m] = "idle"
    BY <2>1, ReleasedIdle DEF Counting
  <2>3. \/ phase' = phase
        \/ phase' = [m \in Node |-> IF m \in ready \cup Released(n)
                                    THEN "created" ELSE phase[m]]
    BY <1>4 DEF ProcessOk, CreateTasks
  <2>4. QED
    BY <1>4, <2>2, <2>3 DEF ProcessOk
<1>5. QED
  BY <1>1, <1>2, <1>3, <1>4 DEF MainStep, taskVars

-----------------------------------------------------------------------------
(* The invariant, conjunct by conjunct.                                    *)

\* The records of a node stay what Recorded says of them.
LEMMA StepRecorded ==
  ASSUME TypeOK, IndInv, [Next]_vars, \A n \in Node : Recorded(n)
  PROVE  (\A n \in Node : Recorded(n))'
<1>1. CASE UNCHANGED vars
  BY <1>1 DEF vars, taskVars, Recorded
<1>2. CASE MainStep \/ Stop
  <2>1. \A m \in Node : \/ phase'[m] = phase[m]
                        \/ phase[m] = "idle" /\ phase'[m] = "created"
    BY <1>2, MainTouches
  <2>2. UNCHANGED <<attempt, nodeStates, results, skipped, errors>>
    BY <1>2, MainTouches
  <2>3. QED
    BY <2>1, <2>2 DEF Recorded
<1>3. ASSUME NEW n \in Node, TaskStep(n) PROVE (\A m \in Node : Recorded(m))'
  <2>1. ASSUME NEW m \in Node \ {n} PROVE Recorded(m)'
    BY <1>3, <2>1, TaskTouches DEF Recorded
  <2>2. Recorded(n)'
    <3> USE <1>3, RetriesAssumption DEF TypeOK, Goto, Notify
    <3>0. Recorded(n)
      OBVIOUS
    <3>1. CASE Begin(n)
      BY <3>0, <3>1 DEF Begin, Resumes, Recorded
    <3>2. CASE Notified(n) \/ BackoffOver(n) \/ Acquire(n)
      BY <3>0, <3>2 DEF Notified, BackoffOver, Acquire, Resumes, Recorded
    <3>3. CASE AttemptOk(n)
      BY <3>0, <3>3 DEF AttemptOk, AttemptEnds, Recorded
    <3>4. CASE AttemptFails(n)
      <4>1. phase[n] = "running" /\ n \notin errors /\ attempt[n] \in Nat /\ Retries[n] \in Nat
        BY <3>0, <3>4 DEF AttemptFails, AttemptEnds, Recorded
      <4>2. /\ phase'[n] = "notifying" /\ n \in Node
            /\ \/ /\ attempt[n] >= Retries[n] /\ errors' = errors \cup {n}
                  /\ nodeStates'[n] = "error" /\ attempt'[n] = attempt[n]
               \/ /\ ~(attempt[n] >= Retries[n]) /\ errors' = errors
                  /\ nodeStates'[n] = "retrying" /\ attempt'[n] = attempt[n] + 1
        BY <3>4 DEF AttemptFails, Exhausted
      <4>3. QED
        BY <3>0, <4>1, <4>2 DEF Recorded
    <3>5. CASE CancelDelivered(n)
      BY <3>0, <3>5 DEF CancelDelivered, Recorded, Live
    <3>6. QED
      BY <3>1, <3>2, <3>3, <3>4, <3>5 DEF TaskStep
  <2>3. QED
    BY <2>1, <2>2
<1>4. QED
  BY <1>1, <1>2, <1>3 DEF Next, Quiescent

\* A failure asks for the cancellation of whatever has been created, and
\* nothing before it asks for any.
LEMMA StepCancelled ==
  ASSUME TypeOK, IndInv, [Next]_vars, CancelledInTime
  PROVE  CancelledInTime'
<1>1. CASE UNCHANGED vars
  BY <1>1 DEF vars, mainVars, taskVars, CancelledInTime
<1>2. CASE Start
  BY <1>2 DEF Start, CreateTasks, CancelledInTime, IndInv, Bookkeeping
<1>3. CASE Wake \/ AbortDone
  BY <1>3 DEF Wake, AbortDone, taskVars, CancelledInTime
<1>4. CASE Stop
  BY <1>4 DEF Stop, taskVars, CancelledInTime, IndInv, Bookkeeping, LiveNodes, Live
<1>5. ASSUME NEW n \in Node, ProcessError(n) PROVE CancelledInTime'
  <2>1. /\ phase[n] \in Over /\ main # "stopped" /\ main' = "aborting" /\ phase' = phase
        /\ cancelReq' = {m \in active \ {n} : phase[m] \in Live}
    BY <1>5 DEF ProcessError, taskVars, IndInv, Bookkeeping
  <2>2. \A m \in Node : phase[m] = "created" => m \in active \ {n} /\ phase[m] \in Live
    BY <2>1 DEF IndInv, Bookkeeping, LiveNodes, Live, Over
  <2>3. QED
    BY <2>1, <2>2 DEF CancelledInTime
<1>6. ASSUME NEW n \in Node, ProcessOk(n) PROVE CancelledInTime'
  <2>1. main = "waiting" /\ main' \in {"waiting", "success"} /\ cancelReq' = cancelReq
    BY <1>6 DEF ProcessOk, CreateTasks, IndInv, Bookkeeping
  <2>2. \A m \in Node : \/ phase'[m] = phase[m]
                        \/ phase[m] = "idle" /\ phase'[m] = "created"
    BY <1>6, MainTouches DEF MainStep
  <2>3. QED
    BY <2>1, <2>2 DEF CancelledInTime
<1>7. ASSUME NEW n \in Node, TaskStep(n) PROVE CancelledInTime'
  <2>1. phase'[n] # "created" /\ main' = main
    BY <1>7, TaskEffect DEF Live, Over, mainVars
  <2>2. QED
    BY <1>7, <2>1, TaskTouches DEF CancelledInTime
<1>8. QED
  BY <1>1, <1>2, <1>3, <1>4, <1>5, <1>6, <1>7 DEF Next, MainStep, Quiescent

\* The last node of an execution order after Append.
LEMMA LastAppended ==
  ASSUME order \in Seq(Node), NEW n \in Node, order' = Append(order, n)
  PROVE  order' # <<>> /\ order'[Len(order')] = n
OBVIOUS

\* The context and the inputs taken from it stay settled.
LEMMA StepSettled ==
  ASSUME TypeOK, IndInv, TypeOK', IndInv', [Next]_vars, CancelledInTime, Settled
  PROVE  Settled'
<1>1. CASE UNCHANGED vars
  BY <1>1 DEF vars, mainVars, taskVars, Settled, Processed
<1>2. CASE Start
  <2>1. /\ UNCHANGED <<inputs, context, errors, order>> /\ context = {}
        /\ main' \in {"rejected", "success", "waiting"}
    BY <1>2 DEF Start, CreateTasks, IndInv, Counting, Bookkeeping, Processed
  <2>2. main' = "success" => context' = Node
    BY <1>2, SuccessIsCompleteNext DEF Start, CreateTasks
  <2>3. QED
    BY <2>1, <2>2 DEF Settled
<1>3. CASE Wake \/ AbortDone \/ Stop
  BY <1>3 DEF Wake, AbortDone, Stop, taskVars, Settled, Processed
<1>4. ASSUME NEW n \in Node, ProcessError(n) PROVE Settled'
  <2>1. /\ UNCHANGED <<inputs, context, errors, phase>> /\ order' = Append(order, n)
        /\ main = "waiting" /\ main' = "aborting" /\ n \in errors
    BY <1>4 DEF ProcessError, taskVars, Aborts, IndInv, Bookkeeping
  <2>2. Processed' = Processed \cup {n} /\ order' # <<>> /\ order'[Len(order')] = n
    BY <2>1, ProcessedAppend, LastAppended DEF TypeOK
  <2>3. Processed = context
    BY <2>1 DEF IndInv, Counting
  <2>4. QED
    BY <2>1, <2>2, <2>3 DEF Settled
<1>5. ASSUME NEW n \in Node, ProcessOk(n) PROVE Settled'
  <2>1. /\ UNCHANGED <<inputs, errors>> /\ context' = context \cup {n}
        /\ main = "waiting" /\ main' \in {"waiting", "success"}
        /\ n \notin errors /\ phase[n] \in Over
    BY <1>5 DEF ProcessOk, CreateTasks, Aborts, IndInv, Bookkeeping
  <2>2. phase[n] \in {"finished", "dead"}
    BY <2>1 DEF CancelledInTime, Over
  <2>3. \A m \in Node : \/ phase'[m] = phase[m]
                        \/ phase[m] = "idle" /\ phase'[m] = "created"
    BY <1>5, MainTouches DEF MainStep
  <2>4. \A m \in context' : phase'[m] \in {"finished", "dead"} /\ m \notin errors'
    BY <2>1, <2>2, <2>3 DEF Settled, TypeOK
  <2>5. main' = "success" => context' = Node
    <3> SUFFICES ASSUME main' = "success" PROVE context' = Node
      OBVIOUS
    <3>1. active' = {} /\ ready' = {}
      BY <1>5, <2>1 DEF ProcessOk, CreateTasks
    <3>2. QED
      BY <3>1, SuccessIsCompleteNext
  <2>6. QED
    BY <2>1, <2>4, <2>5 DEF Settled
<1>6. ASSUME NEW n \in Node, TaskStep(n) PROVE Settled'
  <2>1. /\ UNCHANGED <<main, order, context>> /\ Processed' = Processed
        /\ phase[n] \in Live
    BY <1>6, TaskEffect DEF mainVars, Processed
  <2>2. n \notin context
    BY <2>1 DEF Settled, Live
  <2>3. ASSUME NEW m \in Node PROVE inputs'[m] \subseteq context
    <3>1. inputs[m] \subseteq context
      BY DEF Settled
    <3>2. inputs' = inputs \/ inputs' = [inputs EXCEPT ![n] = context]
      BY <1>6, TaskEffect
    <3>3. CASE inputs' = inputs
      BY <3>1, <3>3
    <3>4. CASE inputs' = [inputs EXCEPT ![n] = context]
      BY <3>1, <3>4 DEF TypeOK
    <3>5. QED
      BY <3>2, <3>3, <3>4
  <2>4. \A m \in context' : phase'[m] \in {"finished", "dead"} /\ m \notin errors'
    BY <1>6, <2>1, <2>2, TaskTouches DEF Settled, TypeOK
  <2>5. main' \in {"aborting", "stopping", "failure"} =>
          order' # <<>> /\ order'[Len(order')] \in errors'
    <3> SUFFICES ASSUME main \in {"aborting", "stopping", "failure"}
                 PROVE  order # <<>> /\ order[Len(order)] \in errors'
      BY <2>1
    <3>1. order # <<>> /\ order[Len(order)] \in errors
      BY DEF Settled
    <3>2. order[Len(order)] \in Processed
      BY <3>1 DEF Processed, TypeOK
    <3>3. order[Len(order)] # n /\ order[Len(order)] \in Node
      BY <2>1, <3>1, <3>2 DEF IndInv, Bookkeeping, Live, Over, TypeOK
    <3>4. QED
      BY <1>6, <3>1, <3>3, TaskTouches
  <2>6. QED
    BY <2>1, <2>3, <2>4, <2>5 DEF Settled
<1>7. QED
  BY <1>1, <1>2, <1>3, <1>4, <1>5, <1>6 DEF Next, MainStep, Quiescent

\* A node is appended to the order after its dependencies, and once.
LEMMA StepTopological ==
  ASSUME TypeOK, IndInv, [Next]_vars, ExecutionOrderTopological
  PROVE  ExecutionOrderTopological'
<1>1. CASE UNCHANGED <<deps, order>>
  BY <1>1 DEF ExecutionOrderTopological
<1>2. ASSUME NEW n \in Node, order' = Append(order, n), deps' = deps,
             n \in batch
      PROVE  ExecutionOrderTopological'
  <2>1. main = "waiting" /\ n \in active /\ phase[n] # "idle" /\ n \notin Processed
    BY <1>2 DEF IndInv, Bookkeeping
  <2>2. deps[n] \subseteq Processed
    BY <2>1 DEF IndInv, Counting
  <2>3. /\ Len(order) \in Nat /\ Len(order') = Len(order) + 1
        /\ DOMAIN order = 1..Len(order) /\ DOMAIN order' = 1..(Len(order) + 1)
        /\ \A i \in 1..Len(order) : order'[i] = order[i]
        /\ order'[Len(order) + 1] = n
    BY <1>2 DEF TypeOK
  <2>4. Processed = {order'[i] : i \in 1..Len(order)}
    BY <2>3 DEF Processed
  <2>5. ASSUME NEW j \in DOMAIN order'
        PROVE  /\ deps[order'[j]] \subseteq {order'[i] : i \in 1..(j - 1)}
               /\ \A i \in 1..(j - 1) : order'[i] # order'[j]
    <3>1. CASE j = Len(order) + 1
      <4>1. order'[j] = n /\ j - 1 = Len(order)
        BY <2>3, <3>1
      <4>2. QED
        BY <2>1, <2>2, <2>4, <4>1
    <3>2. CASE j # Len(order) + 1
      <4>1. j \in DOMAIN order /\ 1..(j - 1) \subseteq 1..Len(order) /\ j \in 1..Len(order)
        BY <2>3, <3>2
      <4>2. /\ deps[order[j]] \subseteq {order[i] : i \in 1..(j - 1)}
            /\ \A i \in 1..(j - 1) : order[i] # order[j]
        BY <4>1 DEF ExecutionOrderTopological
      <4>3. {order[i] : i \in 1..(j - 1)} = {order'[i] : i \in 1..(j - 1)}
        BY <2>3, <4>1
      <4>4. QED
        BY <2>3, <4>1, <4>2, <4>3
    <3>3. QED
      BY <3>1, <3>2
  <2>6. QED
    BY <1>2, <2>5 DEF ExecutionOrderTopological
<1>3. CASE Start \/ Wake \/ AbortDone \/ Stop
  BY <1>1, <1>3 DEF Start, Wake, AbortDone, Stop
<1>4. ASSUME NEW n \in Node, ProcessError(n) \/ ProcessOk(n)
      PROVE  ExecutionOrderTopological'
  BY <1>2, <1>4 DEF ProcessError, ProcessOk
<1>5. ASSUME NEW n \in Node, TaskStep(n) PROVE ExecutionOrderTopological'
  BY <1>1, <1>5, TaskTouches DEF mainVars
<1>6. CASE UNCHANGED vars
  BY <1>1, <1>6 DEF vars, mainVars
<1>7. QED
  BY <1>3, <1>4, <1>5, <1>6 DEF Next, MainStep, Quiescent

\* The invariant holds before run() is called.
LEMMA InitResultInv == Init => ResultInv
<1> SUFFICES ASSUME Init PROVE ResultInv
  OBVIOUS
<1>1. \A n \in Node : Recorded(n)
  BY RetriesAssumption DEF Init, Recorded
<1>2. CancelledInTime /\ Settled
  BY DEF Init, CancelledInTime, Settled
<1>3. ExecutionOrderTopological
  BY DEF Init, ExecutionOrderTopological
<1>4. QED
  BY <1>1, <1>2, <1>3 DEF ResultInv

\* It holds in every reachable state.
THEOREM ResultInvariance == Spec => [](TypeOK /\ IndInv /\ ResultInv)
<1>1. TypeOK /\ IndInv /\ TypeOK' /\ IndInv' /\ ResultInv /\ [Next]_vars => ResultInv'
  BY StepRecorded, StepCancelled, StepSettled, StepTopological DEF ResultInv
<1>2. QED
  BY <1>1, InitResultInv, Invariance, PTL DEF Spec

-----------------------------------------------------------------------------
(* The results.                                                            *)

\* A quotient below the dividend's bound.
LEMMA QuotientBelow ==
  ASSUME NEW t \in Nat \ {0}, NEW a \in Nat
  PROVE  /\ a < 100 * t => a \div t < 100
         /\ a = 100 * t => a \div t = 100
<1>1. /\ a \div t \in Int
      /\ t * (a \div t) <= a /\ a < t * (a \div t) + t
  OBVIOUS
<1>2. QED
  BY <1>1

\* The confidence of a nonempty order is full exactly when no node failed and
\* none was retried.
LEMMA ConfidenceFull ==
  ASSUME TypeOK, order # <<>>
  PROVE  Confidence = 100 <=> errors = {} /\ Retried = {}
<1> DEFINE total == Len(order)
           failed == Cardinality(errors)
           retried == Cardinality(Retried)
           score == 100 * (total - failed) - 3 * retried * total
<1>1. total \in Nat \ {0}
  BY DEF TypeOK
<1>2. /\ IsFiniteSet(errors) /\ IsFiniteSet(Retried)
      /\ failed \in Nat /\ retried \in Nat
      /\ (failed = 0 <=> errors = {})
      /\ (retried = 0 <=> Retried = {})
  BY NodeAssumption, FS_Subset, FS_CardinalityType, FS_EmptySet DEF TypeOK, Retried
<1>3. Confidence = IF score < 0 THEN 0 ELSE score \div total
  BY <1>1 DEF Confidence, ConfidenceOf
<1> HIDE DEF total, failed, retried
<1>4. retried * total \in Nat /\ (retried * total = 0 <=> retried = 0)
  BY <1>1, <1>2
<1>5. /\ score \in Int
      /\ failed = 0 /\ retried = 0 => score = 100 * total
      /\ ~(failed = 0 /\ retried = 0) => score < 100 * total
  BY <1>1, <1>2, <1>4
<1> HIDE DEF score
<1>6. Confidence = 100 <=> failed = 0 /\ retried = 0
  BY <1>1, <1>3, <1>5, QuotientBelow
<1>7. QED
  BY <1>2, <1>6

\* What the invariant says of a returned result.
LEMMA InvSound == TypeOK /\ IndInv /\ ResultInv => ResultSound
<1> SUFFICES ASSUME TypeOK, IndInv, ResultInv PROVE ResultSound
  OBVIOUS
<1> USE DEF ResultInv
<1>1. InputsAreSettled
  BY DEF InputsAreSettled, Settled, TypeOK
<1>2. ASSUME main = "success" PROVE Processed = Node /\ errors = {}
  <2>1. context = Node /\ context \subseteq Processed /\ Processed \subseteq Node
    BY <1>2 DEF Settled, IndInv, Counting, Processed, TypeOK
  <2>2. QED
    BY <2>1 DEF Settled, TypeOK
<1>3. SuccessMeansCompleted
  <2> SUFFICES ASSUME main = "success"
               PROVE  results \cup skipped \cup {n \in Node : phase[n] = "dead"} = Node
    BY <1>2 DEF SuccessMeansCompleted
  <2>1. \A n \in Node : phase[n] \in {"finished", "dead"}
    BY DEF Settled
  <2>2. QED
    BY <1>2, <2>1 DEF Recorded, TypeOK
<1>4. FailureEndsOrder
  <2> SUFFICES ASSUME main = "failure"
               PROVE  /\ order # <<>>
                      /\ Processed \cap errors = {order[Len(order)]}
                      /\ \A n \in Processed \cap errors : n \in Conditional \/ attempt[n] = Retries[n]
    BY DEF FailureEndsOrder
  <2>1. /\ order # <<>> /\ order[Len(order)] \in errors
        /\ Processed = context \cup {order[Len(order)]}
        /\ \A n \in context : n \notin errors
    BY DEF Settled
  <2>2. \A n \in errors : n \in Conditional \/ attempt[n] = Retries[n]
    BY DEF Recorded, TypeOK
  <2>3. QED
    BY <2>1, <2>2
<1>5. ConfidenceMeaning
  <2>1. CASE main = "success"
    <3>1. order # <<>>
      <4>1. Processed # {}
        BY <1>2, <2>1, NodeAssumption
      <4>2. QED
        BY <4>1 DEF Processed
    <3>2. Retried = {} <=> \A n \in results : attempt[n] = 0
      BY <1>2, <2>1 DEF Retried, TypeOK
    <3>3. \A n \in Node \ results : n \in skipped \/ phase[n] = "dead"
      BY <1>3, <2>1 DEF SuccessMeansCompleted
    <3>4. results \subseteq Node
      BY DEF TypeOK
    <3>5. QED
      BY <1>2, <2>1, <3>1, <3>2, <3>3, <3>4, ConfidenceFull DEF ConfidenceMeaning
  <2>2. CASE main = "failure"
    <3>1. order # <<>> /\ errors # {}
      BY <2>2 DEF Settled
    <3>2. QED
      BY <2>2, <3>1, ConfidenceFull DEF ConfidenceMeaning
  <2>3. QED
    BY <2>1, <2>2 DEF ConfidenceMeaning
<1>6. QED
  BY <1>1, <1>3, <1>4, <1>5 DEF ResultSound

\* Whatever graph is run, the result agrees with what happened.
THEOREM ResultIsSound == Spec => []ResultSound
<1>1. QED
  BY InvSound, ResultInvariance, PTL

\* What a step does during an abort or after a result.
LEMMA AbortStep ==
  ASSUME TypeOK, IndInv, ResultInv, [Next]_vars
  PROVE  /\ main \in {"aborting", "stopping"} =>
              \A n \in Node : phase[n] \in {"idle", "created"} =>
                phase'[n] \in {phase[n], "cancelled"}
         /\ main \in {"success", "failure"} =>
              UNCHANGED <<results, skipped, errors, order, attempt>>
<1>1. CASE UNCHANGED vars
  BY <1>1 DEF vars, mainVars, taskVars
<1>2. CASE Start \/ Wake \/ AbortDone \/ Stop
  BY <1>2 DEF Start, Wake, AbortDone, Stop, taskVars
<1>3. ASSUME NEW n \in Node, ProcessError(n) \/ ProcessOk(n) PROVE main = "waiting"
  BY <1>3 DEF ProcessError, ProcessOk, IndInv, Bookkeeping
<1>4. ASSUME NEW n \in Node, TaskStep(n)
      PROVE  /\ main \notin {"success", "failure"}
             /\ main \in {"aborting", "stopping"} =>
                  \A m \in Node : phase[m] \in {"idle", "created"} =>
                    phase'[m] \in {phase[m], "cancelled"}
  <2>1. phase[n] \in Live
    BY <1>4, TaskEffect
  <2>2. main \notin {"success", "failure"}
    BY <2>1 DEF IndInv, Bookkeeping, LiveNodes
  <2>3. main \in {"aborting", "stopping"} /\ phase[n] = "created" => phase'[n] = "cancelled"
    BY <1>4, TaskTouches DEF ResultInv, CancelledInTime
  <2>4. \A m \in Node \ {n} : phase'[m] = phase[m]
    BY <1>4, TaskTouches
  <2>5. QED
    BY <2>1, <2>2, <2>3, <2>4 DEF Live
<1>5. QED
  BY <1>1, <1>2, <1>3, <1>4 DEF Next, MainStep, Quiescent

\* An abort is final, whatever is still on its way when it begins, and a
\* returned result stays as it is.
THEOREM AbortStaysFinal == Spec => AbortIsFinal
<1>1. TypeOK /\ IndInv /\ ResultInv /\ [Next]_vars =>
        [(main \in {"aborting", "stopping"}) =>
           \A n \in Node : phase[n] \in {"idle", "created"} =>
             phase'[n] \in {phase[n], "cancelled"}]_vars
  BY AbortStep
<1>2. TypeOK /\ IndInv /\ ResultInv /\ [Next]_vars =>
        [(main \in {"success", "failure"}) =>
           UNCHANGED <<results, skipped, errors, order, attempt>>]_vars
  BY AbortStep
<1>3. QED
  BY <1>1, <1>2, ResultInvariance, PTL DEF Spec, AbortIsFinal, NoStartAfterAbort, ResultFrozen
================================================================================
