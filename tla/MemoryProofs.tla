----------------------------- MODULE MemoryProofs -----------------------------
(***************************************************************************)
(* Proofs about the three memories, for any number of tasks, agents,       *)
(* turns, entries, trims, starts and failures: the permanent memory keeps  *)
(* what was promoted, the working memory is the end of the conversation,   *)
(* and index, cache and drain of the episodic one are true to it.          *)
(***************************************************************************)
EXTENDS PermanentMemory, WorkingMemory, EpisodicMemory, SequenceTheorems, FiniteSetTheorems, TLAPS

-----------------------------------------------------------------------------
(* The permanent memory.  Its type invariant in parts.                     *)

L1Server ==
  /\ live \subseteq 1 .. born /\ born \in 0 .. MaxAgents /\ block \subseteq live /\ facts \in [Ids -> SUBSET Keys]
  /\ cached \in Ids \cup {NoId}
L1Tasks ==
  /\ step \in [Tasks -> Requests \cup {"idle", "list", "create"}]
  /\ want \in [Tasks -> Requests] /\ agent \in [Tasks -> Ids \cup {NoId}]
L1Data ==
  /\ op \in [Tasks -> Ops] /\ seen \in [Tasks -> SUBSET Keys] /\ said \subseteq Keys
  /\ fails \in 0 .. MaxFails /\ ops \in 0 .. MaxOps
  /\ blame \subseteq {"overlap", "twin", "rebuild"}

(* One writer at a time and one agent, unless the ghost says otherwise. *)
OneWriter == "overlap" \notin blame => \A t, u \in Tasks : Writes(t) /\ Writes(u) => t = u
OneAgent == "twin" \notin blame => \A a, b \in live : a = b

(* Each request belongs to its operation. *)
L1Kinds ==
  \A t \in Tasks :
    /\ Aim(t) = "read" => op[t].kind = "recall"
    /\ Aim(t) = "check" => op[t].kind = "promote" /\ op[t].key \in Keys
    /\ Aim(t) \in {"get", "patch"} => op[t].kind \in {"promote", "forget"} /\ op[t].key \in Keys
    /\ Aim(t) \in {"identity"} \cup Rebuilding => op[t].kind = "identity"

(* What is stored, and what a writer is about to store, is within the cap. *)
Clean == "overlap" \notin blame /\ "twin" \notin blame
Small(held) == IsFiniteSet(held) /\ Cardinality(held) <= FactsCap
L1Cap ==
  Clean =>
    /\ \A a \in live : Small(facts[a])
    /\ \A t \in Tasks : Aim(t) \in {"patch", "delete", "restore"} => Small(seen[t])
    /\ \A t \in Tasks : Aim(t) = "get" /\ op[t].kind = "promote" =>
         FactsCap >= 1 /\ \A a \in live : Small(facts[a] \cup {op[t].key})
Unborn == \A a \in Ids : a > born => facts[a] = {}

(* While nothing went wrong, the requests of a writer go to the one agent, and
   the confirmed facts are there, or with the writer that rebuilds it. *)
L1Aims ==
  blame = {} =>
    /\ cached # NoId => cached \in live
    /\ \A t \in Tasks : Writes(t) /\ step[t] \notin {"list", "create"} => agent[t] = cached /\ cached \in live
Restoring == \E t \in Tasks : Aim(t) = "restore"
L1Kept ==
  blame = {} =>
    /\ \A t \in Tasks :
         /\ Aim(t) \in {"patch", "delete", "restore"} => said \subseteq seen[t]
         /\ Aim(t) = "patch" /\ op[t].kind = "promote" => op[t].key \in seen[t]
         /\ Aim(t) \in {"get", "patch"} /\ op[t].kind = "forget" => op[t].key \notin said
    /\ ~Restoring => (\A a \in live : said \subseteq facts[a]) /\ (live = {} => said = {})

L1Inv == L1Server /\ L1Tasks /\ L1Data /\ OneWriter /\ OneAgent /\ L1Kinds /\ L1Cap /\ Unborn /\ L1Aims /\ L1Kept

LEMMA L1TypesSuffice == L1Server /\ L1Tasks /\ L1Data => L1TypeOK
BY DEF L1Server, L1Tasks, L1Data, L1TypeOK

LEMMA L1Constants ==
  FactsCap \in Nat /\ MaxAgents \in Nat \ {0} /\ NoId \notin Ids /\ Ids \subseteq Nat /\ MaxOps \in Nat /\ MaxFails \in Nat
BY L1Assumption DEF Ids

LEMMA FewAreSmall ==
  /\ Small({})
  /\ FactsCap >= 1 => \A k : Small({} \cup {k})
  /\ \A held, k : Small(held) => Small(held \ {k}) /\ IsFiniteSet(held \cup {k})
  /\ \A held, k : IsFiniteSet(held) /\ Cardinality(held \cup {k}) <= FactsCap => FactsCap >= 1 /\ Small(held \cup {k})
<1>1. FactsCap \in Nat
  BY L1Constants
<1>2. Small({})
  BY <1>1, FS_EmptySet DEF Small
<1>3. ASSUME NEW k PROVE IsFiniteSet({} \cup {k}) /\ Cardinality({} \cup {k}) = 1
  <2>1. {} \cup {k} = {k}
    OBVIOUS
  <2>2. QED
    BY <2>1, FS_Singleton
<1>4. ASSUME NEW held, NEW k, IsFiniteSet(held)
      PROVE  /\ IsFiniteSet(held \cup {k}) /\ Cardinality(held \cup {k}) \in Nat /\ Cardinality(held \cup {k}) >= 1
             /\ IsFiniteSet(held \ {k}) /\ Cardinality(held \ {k}) \in Nat /\ Cardinality(held \ {k}) <= Cardinality(held)
  <2>1. IsFiniteSet(held \cup {k}) /\ Cardinality(held \cup {k}) \in Nat
    BY <1>4, FS_AddElement, FS_CardinalityType
  <2>2. {k} \subseteq held \cup {k}
    OBVIOUS
  <2>3. Cardinality(held \cup {k}) >= 1
    <3>1. Cardinality({k}) <= Cardinality(held \cup {k})
      BY <2>1, <2>2, FS_Subset
    <3>2. Cardinality({k}) = 1
      BY FS_Singleton
    <3>3. QED
      BY <2>1, <3>1, <3>2
  <2>4. IsFiniteSet(held \ {k}) /\ Cardinality(held \ {k}) <= Cardinality(held)
    <3>1. held \ {k} \subseteq held
      OBVIOUS
    <3>2. QED
      BY <1>4, <3>1, FS_Subset
  <2>5. Cardinality(held \ {k}) \in Nat
    BY <2>4, FS_CardinalityType
  <2>6. QED
    BY <2>1, <2>3, <2>4, <2>5
<1>5. ASSUME NEW held, NEW k, Small(held) PROVE Small(held \ {k}) /\ IsFiniteSet(held \cup {k})
  <2>1. IsFiniteSet(held) /\ Cardinality(held) <= FactsCap /\ Cardinality(held) \in Nat
    BY <1>5, FS_CardinalityType DEF Small
  <2>2. /\ IsFiniteSet(held \ {k}) /\ Cardinality(held \ {k}) <= Cardinality(held) /\ Cardinality(held \ {k}) \in Nat
        /\ IsFiniteSet(held \cup {k})
    BY <2>1, <1>4
  <2>3. Cardinality(held \ {k}) <= FactsCap
    BY <1>1, <2>1, <2>2
  <2>4. QED
    BY <2>2, <2>3 DEF Small
<1>6. ASSUME NEW held, NEW k, IsFiniteSet(held), Cardinality(held \cup {k}) <= FactsCap
      PROVE  FactsCap >= 1 /\ Small(held \cup {k})
  <2>1. IsFiniteSet(held \cup {k}) /\ Cardinality(held \cup {k}) \in Nat /\ Cardinality(held \cup {k}) >= 1
    BY <1>4, <1>6
  <2>2. FactsCap >= 1
    BY <1>1, <1>6, <2>1
  <2>3. QED
    BY <1>6, <2>1, <2>2 DEF Small
<1>7. FactsCap >= 1 => \A k : Small({} \cup {k})
  BY <1>3 DEF Small
<1>8. QED
  BY <1>2, <1>5, <1>6, <1>7

\* Where the ghost says nothing of a twin there is but one agent.
LEMMA NoTwin ==
  ASSUME NEW agents \in SUBSET Ids, ~(Cardinality(agents) > 1), NEW a \in agents, NEW b \in agents
  PROVE  a = b
<1>1. IsFiniteSet(agents)
  <2>1. IsFiniteSet(Ids)
    BY L1Constants, FS_Interval DEF Ids
  <2>2. QED
    BY <2>1, FS_Subset
<1>2. SUFFICES ASSUME a # b PROVE FALSE
  OBVIOUS
<1>3. Cardinality({a}) = 1 /\ IsFiniteSet({a})
  BY FS_Singleton
<1>4. Cardinality({a} \cup {b}) = 2
  <2>1. Cardinality({a} \cup {b}) = Cardinality({a}) + 1
    BY <1>2, <1>3, FS_AddElement
  <2>2. QED
    BY <1>3, <2>1
<1>5. Cardinality({a} \cup {b}) <= Cardinality(agents) /\ Cardinality(agents) \in Nat
  <2>1. {a} \cup {b} \subseteq agents
    OBVIOUS
  <2>2. QED
    BY <1>1, <2>1, FS_Subset, FS_CardinalityType
<1>6. QED
  BY <1>4, <1>5

-----------------------------------------------------------------------------
(* Where a task goes.                                                      *)

\* Task t now aims at request r, the others stay.
Goes(t, r) ==
  /\ L1Tasks' /\ Aim(t)' = r /\ (step'[t] = "idle" <=> r = "idle")
  /\ \A u \in Tasks : u # t => Aim(u)' = Aim(u) /\ step'[u] = step[u] /\ agent'[u] = agent[u]

LEMMA SendEffect ==
  ASSUME L1Tasks, NEW t \in Tasks, NEW r \in Requests, NEW a \in Ids \cup {NoId}, Send(t, r, a), UNCHANGED want
  PROVE  Goes(t, r) /\ step'[t] = r /\ agent'[t] = a
<1>1. /\ step'[t] = r /\ agent'[t] = a /\ r \notin {"idle", "list", "create"}
      /\ \A u \in Tasks : u # t => step'[u] = step[u] /\ agent'[u] = agent[u]
  BY DEF Send, L1Tasks, Requests
<1>2. L1Tasks'
  BY DEF Send, L1Tasks
<1>3. QED
  BY <1>1, <1>2 DEF Goes, Aim

LEMMA ReturnEffect ==
  ASSUME L1Tasks, NEW t \in Tasks, Return(t)
  PROVE  Goes(t, "idle")
<1>1. step'[t] = "idle" /\ UNCHANGED <<want, agent>> /\ \A u \in Tasks : u # t => step'[u] = step[u]
  BY DEF Return, L1Tasks
<1>2. L1Tasks'
  BY DEF Return, L1Tasks
<1>3. QED
  BY <1>1, <1>2 DEF Goes, Aim

LEMMA AskEffect ==
  ASSUME L1Tasks, NEW t \in Tasks, NEW r \in Requests, Ask(t, r), cached \in Ids \cup {NoId}
  PROVE  /\ Goes(t, r)
         /\ step'[t] \notin {"list", "create"} => agent'[t] = cached /\ cached # NoId
<1>1. CASE cached # NoId /\ Send(t, r, cached) /\ UNCHANGED want
  BY <1>1, SendEffect
<1>2. CASE cached = NoId /\ Send(t, "list", NoId) /\ want' = [want EXCEPT ![t] = r]
  <2>1. /\ step'[t] = "list" /\ want'[t] = r /\ r # "idle"
        /\ \A u \in Tasks : u # t => step'[u] = step[u] /\ agent'[u] = agent[u] /\ want'[u] = want[u]
    BY <1>2 DEF Send, L1Tasks, Requests
  <2>2. L1Tasks'
    BY <1>2 DEF Send, L1Tasks
  <2>3. QED
    BY <2>1, <2>2 DEF Goes, Aim
<1>3. QED
  BY <1>1, <1>2 DEF Ask

\* An aim is idle for a task that is, and a writer's when it writes.
LEMMA AimsOfWriters ==
  ASSUME L1Tasks, L1Kinds, NEW t \in Tasks
  PROVE  /\ Aim(t) = "idle" <=> step[t] = "idle"
         /\ Aim(t) \in {"check", "get", "patch", "identity"} \cup Rebuilding => Writes(t)
         /\ Aim(t) \in Requests \cup {"idle"}
<1>1. Aim(t) = "idle" <=> step[t] = "idle"
  BY DEF Aim, L1Tasks, Requests
<1>2. QED
  BY <1>1 DEF L1Kinds, Writes, Aim, L1Tasks, Requests, Rebuilding

-----------------------------------------------------------------------------
(* The steps.                                                              *)

\* A tool call or a recall begins.
Opened(t, o, r) ==
  /\ step[t] = "idle" /\ ops < MaxOps /\ ops' = ops + 1 /\ Goes(t, r) /\ op' = [op EXCEPT ![t] = o]
  /\ step'[t] \notin {"list", "create"} => agent'[t] = cached /\ cached # NoId
  /\ blame' = IF o.kind # "recall" /\ \E u \in Tasks : Writes(u) THEN blame \cup {"overlap"} ELSE blame
  /\ UNCHANGED <<server, cached, seen, fails>> /\ said' \subseteq said

LEMMA BeginEffect ==
  ASSUME L1Inv, NEW t \in Tasks, Promote(t) \/ Forget(t) \/ SetIdentity(t) \/ Recall(t)
  PROVE  \E o \in Ops, r \in Requests :
           /\ Opened(t, o, r)
           /\ \/ o.kind = "promote" /\ r = "check" /\ o.key \in Keys
              \/ o.kind = "forget" /\ r = "get" /\ o.key \in Keys /\ o.key \notin said'
              \/ o.kind = "identity" /\ r = "identity"
              \/ o.kind = "recall" /\ r = "read"
<1>1. ASSUME NEW o, NEW r \in Requests, Begin(t, o, r), said' \subseteq said PROVE Opened(t, o, r)
  <2>1. L1Tasks /\ cached \in Ids \cup {NoId}
    BY DEF L1Inv, L1Server
  <2>2. Ask(t, r)
    BY <1>1 DEF Begin
  <2>3. Goes(t, r) /\ (step'[t] \notin {"list", "create"} => agent'[t] = cached /\ cached # NoId)
    BY <2>1, <2>2, AskEffect
  <2>4. QED
    BY <1>1, <2>3 DEF Begin, Opened
<1>2. CASE Promote(t)
  <2>1. PICK k \in Keys : Begin(t, [kind |-> "promote", key |-> k], "check") /\ said' = said
    BY <1>2 DEF Promote
  <2>2. [kind |-> "promote", key |-> k] \in Ops /\ "check" \in Requests
    BY DEF Ops, Requests
  <2>3. Opened(t, [kind |-> "promote", key |-> k], "check")
    BY <1>1, <2>1, <2>2
  <2>4. QED
    BY <2>2, <2>3
<1>3. CASE Forget(t)
  <2>1. PICK k \in Keys : Begin(t, [kind |-> "forget", key |-> k], "get") /\ said' = said \ {k}
    BY <1>3 DEF Forget
  <2>2. [kind |-> "forget", key |-> k] \in Ops /\ "get" \in Requests
    BY DEF Ops, Requests
  <2>3. Opened(t, [kind |-> "forget", key |-> k], "get") /\ k \notin said'
    BY <1>1, <2>1, <2>2
  <2>4. QED
    BY <2>2, <2>3
<1>4. CASE SetIdentity(t)
  <2>1. Begin(t, [kind |-> "identity"], "identity") /\ said' = said
    BY <1>4 DEF SetIdentity
  <2>2. [kind |-> "identity"] \in Ops /\ "identity" \in Requests
    BY DEF Ops, Requests
  <2>3. Opened(t, [kind |-> "identity"], "identity")
    BY <1>1, <2>1, <2>2
  <2>4. QED
    BY <2>2, <2>3
<1>5. CASE Recall(t)
  <2>1. Begin(t, [kind |-> "recall"], "read") /\ said' = said
    BY <1>5 DEF Recall
  <2>2. [kind |-> "recall"] \in Ops /\ "read" \in Requests
    BY DEF Ops, Requests
  <2>3. Opened(t, [kind |-> "recall"], "read")
    BY <1>1, <2>1, <2>2
  <2>4. QED
    BY <2>2, <2>3
<1>6. QED
  BY <1>2, <1>3, <1>4, <1>5

LEMMA BeginKeeps ==
  ASSUME L1Inv, NEW t \in Tasks, Promote(t) \/ Forget(t) \/ SetIdentity(t) \/ Recall(t)
  PROVE  L1Inv'
<1>1. PICK o \in Ops, r \in Requests :
        /\ Opened(t, o, r)
        /\ \/ o.kind = "promote" /\ r = "check" /\ o.key \in Keys
           \/ o.kind = "forget" /\ r = "get" /\ o.key \in Keys /\ o.key \notin said'
           \/ o.kind = "identity" /\ r = "identity"
           \/ o.kind = "recall" /\ r = "read"
  BY BeginEffect
<1>2. /\ UNCHANGED <<live, born, facts, block, cached, seen, fails>> /\ said' \subseteq said
      /\ op'[t] = o /\ Aim(t)' = r /\ r \notin {"patch", "restore", "idle"} /\ step[t] = "idle" /\ step'[t] # "idle"
      /\ step'[t] \notin {"list", "create"} => agent'[t] = cached /\ cached # NoId
      /\ blame' \in {blame, blame \cup {"overlap"}}
  BY <1>1 DEF Opened, Goes, server, L1Inv, L1Data
<1>3. \A u \in Tasks : u # t => Aim(u)' = Aim(u) /\ step'[u] = step[u] /\ agent'[u] = agent[u] /\ op'[u] = op[u]
  BY <1>1 DEF Opened, Goes, L1Inv, L1Data
<1>4. L1Server' /\ L1Tasks' /\ L1Data'
  BY <1>1, <1>2, L1Constants DEF Opened, Goes, L1Inv, L1Server, L1Data
<1>5. OneWriter'
  <2>1. "overlap" \notin blame' => "overlap" \notin blame /\ (o.kind = "recall" \/ \A u \in Tasks : ~Writes(u))
    BY <1>1 DEF Opened
  <2>2. \A u \in Tasks : u # t => (Writes(u)' <=> Writes(u))
    BY <1>3 DEF Writes
  <2>3. Writes(t)' => o.kind # "recall"
    BY <1>2 DEF Writes
  <2>4. QED
    BY <2>1, <2>2, <2>3 DEF OneWriter, L1Inv
<1>6. OneAgent' /\ Unborn'
  BY <1>2 DEF OneAgent, Unborn, L1Inv
<1>7. L1Kinds'
  BY <1>1, <1>2, <1>3 DEF L1Kinds, Rebuilding, L1Inv
<1>8. L1Cap'
  BY <1>1, <1>2, <1>3 DEF L1Cap, Clean, L1Inv
<1>9. L1Aims'
  BY <1>2, <1>3 DEF L1Aims, Writes, L1Inv
<1>10. L1Kept'
  <2>1. Aim(t) # "restore"
    BY <1>2 DEF Aim
  <2>2. Restoring' <=> Restoring
    BY <2>1, <1>2, <1>3 DEF Restoring
  <2>3. QED
    BY <1>1, <1>2, <1>3, <2>2 DEF L1Kept, L1Inv
<1>11. QED
  BY <1>4, <1>5, <1>6, <1>7, <1>8, <1>9, <1>10 DEF L1Inv

LEMMA AgentsAreIds ==
  ASSUME L1Server
  PROVE  live \subseteq Ids /\ born \in Nat /\ born <= MaxAgents /\ \A a \in live : a \in Nat /\ a >= 1 /\ a <= born
<1>1. live \subseteq 1 .. born /\ born \in Nat /\ born <= MaxAgents /\ MaxAgents \in Nat
  BY L1Constants DEF L1Server
<1>2. \A a \in live : a \in Nat /\ a >= 1 /\ a <= born
  BY <1>1
<1>3. QED
  BY <1>1, <1>2 DEF Ids

\* A writer is the only one when the ghost says nothing of an overlap.
LEMMA WriterIsAlone ==
  ASSUME L1Inv, "overlap" \notin blame, NEW t \in Tasks,
         Aim(t) \in {"check", "get", "patch", "identity"} \cup Rebuilding
  PROVE  /\ Writes(t) /\ \A u \in Tasks : u # t => ~Writes(u)
         /\ \A u \in Tasks : u # t => Aim(u) \in {"idle", "read"}
<1>1. Writes(t) /\ \A u \in Tasks : u # t => ~Writes(u)
  BY AimsOfWriters DEF L1Inv, OneWriter
<1>2. \A u \in Tasks : u # t => Aim(u) \in {"idle", "read"}
  BY <1>1, AimsOfWriters DEF L1Inv, Requests, Rebuilding
<1>3. QED
  BY <1>1, <1>2

LEMMA ListAgentsKeeps ==
  ASSUME L1Inv, NEW t \in Tasks, ListAgents(t)
  PROVE  L1Inv'
<1>1. /\ UNCHANGED <<live, born, facts, block, want, op, seen, said, fails, ops, blame>> /\ step[t] = "list"
      /\ want[t] \in Requests /\ Aim(t) = want[t] /\ want[t] # "idle" /\ want[t] \notin {"list", "create"}
      /\ L1Server /\ L1Tasks /\ L1Data /\ live \subseteq Ids
  BY AgentsAreIds DEF ListAgents, server, Aim, L1Inv, L1Tasks, Requests
<1>2. /\ Aim(t)' = Aim(t) /\ step'[t] # "idle" /\ L1Tasks' /\ cached' \in Ids \cup {NoId}
      /\ \A u \in Tasks : u # t => Aim(u)' = Aim(u) /\ step'[u] = step[u] /\ agent'[u] = agent[u]
      /\ \/ cached' \in live /\ agent'[t] = cached'
         \/ cached' = cached /\ step'[t] = "create"
  <2>1. CASE \E a \in live : cached' = a /\ Send(t, want[t], a)
    <3>1. PICK a \in live : cached' = a /\ Send(t, want[t], a)
      BY <2>1
    <3>2. a \in Ids \cup {NoId}
      BY <1>1
    <3>3. Goes(t, want[t]) /\ agent'[t] = a
      BY <1>1, <3>1, <3>2, SendEffect
    <3>4. QED
      BY <1>1, <3>1, <3>2, <3>3 DEF Goes
  <2>2. CASE Send(t, "create", NoId) /\ UNCHANGED cached
    <3>1. /\ step'[t] = "create" /\ \A u \in Tasks : u # t => step'[u] = step[u] /\ agent'[u] = agent[u]
      BY <1>1, <2>2 DEF Send, L1Tasks
    <3>2. L1Tasks'
      BY <1>1, <2>2 DEF Send, L1Tasks
    <3>3. QED
      BY <1>1, <2>2, <3>1, <3>2 DEF Aim, L1Server
  <2>3. QED
    BY <2>1, <2>2 DEF ListAgents
<1>3. \A u \in Tasks : Aim(u)' = Aim(u) /\ (Writes(u)' <=> Writes(u))
  BY <1>1, <1>2 DEF Writes
<1>4. L1Server' /\ L1Tasks' /\ L1Data'
  BY <1>1, <1>2 DEF L1Server, L1Data
<1>5. OneWriter' /\ OneAgent' /\ Unborn'
  BY <1>1, <1>3 DEF OneWriter, OneAgent, Unborn, L1Inv
<1>6. L1Kinds'
  BY <1>1, <1>3 DEF L1Kinds, L1Inv
<1>7. L1Cap'
  BY <1>1, <1>3 DEF L1Cap, Clean, L1Inv
<1>8. L1Aims'
  <2>1. SUFFICES ASSUME blame = {} PROVE L1Aims'
    BY <1>1 DEF L1Aims
  <2>2. cached' # NoId => cached' \in live
    BY <1>2, <2>1 DEF L1Aims, L1Inv
  <2>3. ASSUME NEW u \in Tasks, Writes(u)', step'[u] \notin {"list", "create"} PROVE agent'[u] = cached' /\ cached' \in live
    <3>1. CASE u = t
      BY <1>2, <2>3, <3>1
    <3>2. CASE u # t
      <4>1. agent[u] = cached /\ cached \in live
        BY <1>2, <1>3, <2>1, <2>3, <3>2 DEF L1Aims, L1Inv
      <4>2. cached' = cached
        BY <1>2, <2>1, <4>1 DEF OneAgent, L1Inv
      <4>3. QED
        BY <1>2, <3>2, <4>1, <4>2
    <3>3. QED
      BY <3>1, <3>2
  <2>4. QED
    BY <1>1, <2>2, <2>3 DEF L1Aims
<1>9. L1Kept'
  <2>1. Restoring' <=> Restoring
    BY <1>3 DEF Restoring
  <2>2. QED
    BY <1>1, <1>3, <2>1 DEF L1Kept, L1Inv
<1>10. QED
  BY <1>4, <1>5, <1>6, <1>7, <1>8, <1>9 DEF L1Inv

\* An agent is created, by a request that may fail all the same.
Born ==
  /\ NewAgent /\ UNCHANGED <<op, said>> /\ blame \subseteq blame' /\ ("twin" \in blame' <=> "twin" \in blame \cup Twins)

LEMMA BornEffect ==
  ASSUME L1Inv, Born, "overlap" \in blame' <=> "overlap" \in blame
  PROVE  /\ born' \in live' /\ born' \in Ids /\ live' = live \cup {born'} /\ UNCHANGED facts /\ facts[born'] = {}
         /\ live' \subseteq 1 .. born' /\ born' \in 0 .. MaxAgents /\ block' \subseteq live'
         /\ OneAgent' /\ Unborn' /\ ("twin" \notin blame' => live = {})
         /\ Clean' => Clean /\ \A a \in live' : Small(facts[a])
         /\ Clean' => \A t \in Tasks : Aim(t) = "get" /\ op[t].kind = "promote" =>
              FactsCap >= 1 /\ \A a \in live' : Small(facts[a] \cup {op[t].key})
         /\ blame' = {} => (~Restoring => said = {})
<1>1. L1Server /\ born \in Nat /\ OneAgent /\ Unborn /\ L1Cap /\ L1Kept
  BY DEF L1Inv, L1Server
<1>2. /\ born < MaxAgents /\ born' = born + 1 /\ live' = live \cup {born'} /\ block' = block \cup {born'} /\ UNCHANGED facts
  BY DEF Born, NewAgent
<1>3. born' \in Ids /\ born' \notin live /\ facts[born'] = {} /\ born' \in 0 .. MaxAgents
  BY <1>1, <1>2, L1Constants DEF L1Server, Ids, Unborn
<1>4. live' \subseteq 1 .. born' /\ block' \subseteq live' /\ live' \subseteq Ids
  <2>1. \A a \in live : a \in 1 .. born' /\ a \in Ids
    BY <1>1, <1>2, AgentsAreIds
  <2>2. born' \in 1 .. born'
    BY <1>1, <1>2, L1Constants
  <2>3. QED
    BY <1>1, <1>2, <1>3, <2>1, <2>2 DEF L1Server
<1>5. ASSUME "twin" \notin blame' PROVE \A a, b \in live' : a = b
  <2>1. ~(Cardinality(live') > 1)
    BY <1>5 DEF Born, Twins
  <2>2. QED
    BY <1>4, <2>1, NoTwin
<1>6. OneAgent' /\ ("twin" \notin blame' => live = {})
  BY <1>2, <1>3, <1>5 DEF OneAgent
<1>7. Unborn'
  BY <1>1, <1>2 DEF Unborn, Ids
<1>8. ASSUME Clean' PROVE Clean
  BY <1>8 DEF Clean, Born
<1>9. ASSUME Clean' PROVE \A a \in live' : Small(facts[a])
  BY <1>1, <1>2, <1>3, <1>8, <1>9, FewAreSmall DEF L1Cap
<1>10. ASSUME Clean', NEW t \in Tasks, Aim(t) = "get" /\ op[t].kind = "promote"
       PROVE  FactsCap >= 1 /\ \A a \in live' : Small(facts[a] \cup {op[t].key})
  BY <1>1, <1>2, <1>3, <1>8, <1>10, FewAreSmall DEF L1Cap
<1>11. ASSUME blame' = {}, ~Restoring PROVE said = {}
  BY <1>1, <1>6, <1>11 DEF Born, L1Kept
<1>12. QED
  BY <1>2, <1>3, <1>4, <1>6, <1>7, <1>8, <1>9, <1>10, <1>11

LEMMA CreateAgentKeeps ==
  ASSUME L1Inv, NEW t \in Tasks, CreateAgent(t)
  PROVE  L1Inv'
<1>1. /\ UNCHANGED <<want, op, seen, said, fails, ops>> /\ step[t] = "create" /\ blame' = blame \cup Twins
      /\ want[t] \in Requests /\ Aim(t) = want[t] /\ want[t] # "idle" /\ want[t] \notin {"list", "create"}
      /\ L1Server /\ L1Tasks /\ L1Data /\ cached' = born' /\ Send(t, want[t], born')
  BY DEF CreateAgent, Aim, L1Inv, L1Tasks, Requests
<1>2. Born /\ ("overlap" \in blame' <=> "overlap" \in blame) /\ Twins \subseteq {"twin"}
  BY <1>1 DEF CreateAgent, Born, Twins
<1>3. /\ born' \in live' /\ born' \in Ids /\ live' = live \cup {born'} /\ UNCHANGED facts /\ facts[born'] = {}
      /\ live' \subseteq 1 .. born' /\ born' \in 0 .. MaxAgents /\ block' \subseteq live'
      /\ OneAgent' /\ Unborn' /\ ("twin" \notin blame' => live = {})
      /\ Clean' => Clean /\ \A a \in live' : Small(facts[a])
      /\ Clean' => \A u \in Tasks : Aim(u) = "get" /\ op[u].kind = "promote" =>
           FactsCap >= 1 /\ \A a \in live' : Small(facts[a] \cup {op[u].key})
      /\ blame' = {} => (~Restoring => said = {})
  BY <1>2, BornEffect
<1>4. Goes(t, want[t]) /\ agent'[t] = born'
  BY <1>1, <1>3, SendEffect
<1>5. \A u \in Tasks : Aim(u)' = Aim(u) /\ (Writes(u)' <=> Writes(u)) /\ (u # t => step'[u] = step[u] /\ agent'[u] = agent[u])
  BY <1>1, <1>4 DEF Goes, Writes
<1>6. L1Server' /\ L1Tasks' /\ L1Data'
  BY <1>1, <1>2, <1>3, <1>4 DEF L1Server, L1Data, Goes
<1>7. OneWriter'
  BY <1>2, <1>5 DEF OneWriter, L1Inv
<1>8. L1Kinds'
  BY <1>1, <1>5 DEF L1Kinds, L1Inv
<1>9. L1Cap'
  BY <1>1, <1>3, <1>5 DEF L1Cap, L1Inv
<1>10. L1Aims'
  <2>1. ASSUME blame' = {}, NEW u \in Tasks, Writes(u)', step'[u] \notin {"list", "create"} PROVE u = t
    BY <1>1, <1>3, <1>5, <2>1 DEF L1Aims, L1Inv
  <2>2. QED
    BY <1>1, <1>3, <1>4, <2>1 DEF L1Aims
<1>11. L1Kept'
  <2>1. Restoring' <=> Restoring
    BY <1>5 DEF Restoring
  <2>2. blame' = {} => blame = {}
    BY <1>1
  <2>3. QED
    BY <1>1, <1>3, <1>5, <2>1, <2>2 DEF L1Kept, L1Inv
<1>12. QED
  BY <1>3, <1>6, <1>7, <1>8, <1>9, <1>10, <1>11 DEF L1Inv

\* A request of a writer answers, and no block changes: the writer goes on to r.
WentOn(t, r) ==
  /\ UNCHANGED <<live, born, facts, block, cached, op, said, fails, ops, blame>> /\ Goes(t, r)
  /\ \A u \in Tasks : u # t => seen'[u] = seen[u]
  /\ step'[t] \notin {"idle", "list", "create"} => agent'[t] = cached

\* What holds of any such step; what it does to the facts its action shows.
LEMMA GoingOnKeeps ==
  ASSUME L1Inv, NEW t \in Tasks, NEW r \in Requests \cup {"idle"}, WentOn(t, r), seen' \in [Tasks -> SUBSET Keys],
         r # "idle" => Writes(t), blame = {} => (r # "idle" => cached \in live),
         r = "get" => op[t].kind \in {"promote", "forget"} /\ op[t].key \in Keys,
         r = "patch" => op[t].kind \in {"promote", "forget"} /\ op[t].key \in Keys,
         r \in {"identity"} \cup Rebuilding => op[t].kind = "identity", r \notin {"read", "check", "restore"},
         Clean /\ r \in {"patch", "delete"} => Small(seen'[t]),
         Clean /\ r = "get" /\ op[t].kind = "promote" => FactsCap >= 1 /\ \A a \in live : Small(facts[a] \cup {op[t].key}),
         blame = {} /\ r \in {"patch", "delete"} => said \subseteq seen'[t],
         blame = {} /\ r = "patch" /\ op[t].kind = "promote" => op[t].key \in seen'[t],
         blame = {} /\ r \in {"get", "patch"} /\ op[t].kind = "forget" => op[t].key \notin said,
         Aim(t) # "restore"
  PROVE  L1Inv'
<1> USE DEF WentOn, Goes
<1>1. L1Server' /\ L1Tasks' /\ L1Data'
  BY DEF L1Inv, L1Server, L1Data
<1>2. \A u \in Tasks : (Writes(u)' => Writes(u)) /\ (u # t => (Writes(u)' <=> Writes(u)))
  BY DEF Writes
<1>3. OneWriter' /\ OneAgent' /\ Unborn'
  BY <1>2 DEF OneWriter, OneAgent, Unborn, L1Inv
<1>4. L1Kinds'
  BY DEF L1Kinds, L1Inv, Rebuilding
<1>5. L1Cap'
  BY DEF L1Cap, Clean, L1Inv
<1>6. L1Aims'
  BY <1>2 DEF L1Aims, L1Inv, Writes
<1>7. L1Kept'
  <2>1. Restoring' <=> Restoring
    BY DEF Restoring
  <2>2. QED
    BY <2>1 DEF L1Kept, L1Inv
<1>8. QED
  BY <1>1, <1>3, <1>4, <1>5, <1>6, <1>7 DEF L1Inv

LEMMA WriterIsServed ==
  ASSUME L1Inv, NEW t \in Tasks, blame = {}, Writes(t), step[t] \notin {"list", "create"}
  PROVE  agent[t] = cached /\ cached \in live /\ \A a \in live : a = cached
BY DEF L1Inv, L1Aims, OneAgent

LEMMA ReadBlocksKeeps ==
  ASSUME L1Inv, NEW t \in Tasks, ReadBlocks(t) \/ Label(t)
  PROVE  L1Inv'
<1>1. /\ Return(t) /\ UNCHANGED <<live, born, facts, block, cached, op, seen, said, fails, ops, blame>>
      /\ step[t] \in {"read", "label"}
  BY DEF ReadBlocks, Label, Answers, server
<1>2. WentOn(t, "idle") /\ seen' \in [Tasks -> SUBSET Keys]
  BY <1>1, ReturnEffect DEF WentOn, Goes, L1Inv, L1Data
<1>3. Aim(t) # "restore"
  BY <1>1 DEF Aim
<1>4. QED
  BY <1>2, <1>3, GoingOnKeeps DEF Rebuilding

LEMMA CheckCapKeeps ==
  ASSUME L1Inv, NEW t \in Tasks, CheckCap(t)
  PROVE  L1Inv'
<1>1. /\ UNCHANGED <<live, born, facts, block, cached, op, seen, said, fails, ops, blame>>
      /\ step[t] = "check" /\ agent[t] \in live /\ Aim(t) = "check" /\ L1Tasks
      /\ cached \in Ids \cup {NoId} /\ seen' \in [Tasks -> SUBSET Keys]
  BY DEF CheckCap, Answers, server, Aim, L1Inv, L1Data, L1Server
<1>2. op[t].kind = "promote" /\ op[t].key \in Keys /\ Writes(t)
  BY <1>1, AimsOfWriters DEF L1Kinds, L1Inv
<1>3. CASE Return(t)
  <2>1. WentOn(t, "idle")
    BY <1>1, <1>3, ReturnEffect DEF WentOn, Goes
  <2>2. QED
    BY <1>1, <2>1, GoingOnKeeps DEF Rebuilding
<1>4. CASE Cardinality(facts[agent[t]] \cup {op[t].key}) <= FactsCap /\ Ask(t, "get")
  <2>1. WentOn(t, "get") /\ "get" \in Requests
    BY <1>1, <1>4, AskEffect DEF WentOn, Requests
  <2>2. Clean => FactsCap >= 1 /\ \A a \in live : Small(facts[a] \cup {op[t].key})
    BY <1>1, <1>4, FewAreSmall DEF L1Inv, L1Cap, Small, Clean, OneAgent
  <2>3. blame = {} => cached \in live
    BY <1>1, <1>2, WriterIsServed
  <2>4. QED
    BY <1>1, <1>2, <2>1, <2>2, <2>3, GoingOnKeeps DEF Rebuilding
<1>5. QED
  BY <1>3, <1>4 DEF CheckCap

LEMMA GetFactsKeeps ==
  ASSUME L1Inv, NEW t \in Tasks, GetFacts(t)
  PROVE  L1Inv'
<1> DEFINE held == facts[agent[t]]
<1>1. /\ UNCHANGED <<live, born, facts, block, cached, op, said, fails, ops, blame>>
      /\ step[t] = "get" /\ agent[t] \in live /\ Aim(t) = "get" /\ L1Tasks /\ L1Data
      /\ cached \in Ids \cup {NoId} /\ held \in SUBSET Keys
  BY AgentsAreIds DEF GetFacts, Answers, server, Aim, L1Inv, L1Server
<1>2. op[t].kind \in {"promote", "forget"} /\ op[t].key \in Keys /\ Writes(t)
  BY <1>1, AimsOfWriters DEF L1Kinds, L1Inv
<1>3. Clean => Small(held) /\ (op[t].kind = "promote" => Small(held \cup {op[t].key}))
  BY <1>1 DEF L1Inv, L1Cap
<1>4. blame = {} => said \subseteq held /\ cached \in live /\ (op[t].kind = "forget" => op[t].key \notin said)
  <2>1. SUFFICES ASSUME blame = {} PROVE said \subseteq held /\ cached \in live /\ (op[t].kind = "forget" => op[t].key \notin said)
    OBVIOUS
  <2>2. ~Restoring
    BY <1>1, <2>1, WriterIsAlone DEF Restoring
  <2>3. QED
    BY <1>1, <1>2, <2>1, <2>2, WriterIsServed DEF L1Inv, L1Kept
<1>5. CASE op[t].kind = "forget" /\ Return(t) /\ UNCHANGED seen
  <2>1. WentOn(t, "idle") /\ seen' \in [Tasks -> SUBSET Keys]
    BY <1>1, <1>5, ReturnEffect DEF WentOn, Goes, L1Data
  <2>2. QED
    BY <1>1, <2>1, GoingOnKeeps DEF Rebuilding
<1>6. ASSUME NEW new \in SUBSET Keys, seen' = [seen EXCEPT ![t] = new], Ask(t, "patch"), Clean => Small(new),
             blame = {} => said \subseteq new, op[t].kind = "promote" => op[t].key \in new
      PROVE  L1Inv'
  <2>1. WentOn(t, "patch") /\ "patch" \in Requests /\ seen'[t] = new /\ seen' \in [Tasks -> SUBSET Keys]
    BY <1>1, <1>6, AskEffect DEF WentOn, Requests, L1Data
  <2>2. QED
    BY <1>1, <1>2, <1>4, <1>6, <2>1, GoingOnKeeps DEF Rebuilding
<1>7. CASE op[t].kind = "promote" /\ seen' = [seen EXCEPT ![t] = held \cup {op[t].key}] /\ Ask(t, "patch")
  BY <1>1, <1>2, <1>3, <1>4, <1>6, <1>7
<1>8. CASE op[t].kind = "forget" /\ seen' = [seen EXCEPT ![t] = held \ {op[t].key}] /\ Ask(t, "patch")
  <2>1. Clean => Small(held \ {op[t].key})
    BY <1>3, FewAreSmall
  <2>2. held \ {op[t].key} \in SUBSET Keys /\ (blame = {} => said \subseteq held \ {op[t].key}) /\ op[t].kind # "promote"
    BY <1>1, <1>4, <1>8
  <2>3. QED
    BY <1>6, <1>8, <2>1, <2>2
<1>9. QED
  BY <1>5, <1>7, <1>8 DEF GetFacts

LEMMA PatchIdentityKeeps ==
  ASSUME L1Inv, NEW t \in Tasks, PatchIdentity(t)
  PROVE  L1Inv'
<1>1. /\ UNCHANGED <<live, born, facts, block, cached, op, seen, said, fails, ops, blame>>
      /\ step[t] = "identity" /\ Aim(t) = "identity" /\ L1Tasks
      /\ cached \in Ids \cup {NoId} /\ seen' \in [Tasks -> SUBSET Keys]
  BY DEF PatchIdentity, server, Aim, L1Inv, L1Data, L1Server
<1>2. op[t].kind = "identity" /\ Writes(t)
  BY <1>1, AimsOfWriters DEF L1Kinds, L1Inv
<1>3. CASE Return(t)
  <2>1. WentOn(t, "idle")
    BY <1>1, <1>3, ReturnEffect DEF WentOn, Goes
  <2>2. QED
    BY <1>1, <2>1, GoingOnKeeps DEF Rebuilding
<1>4. CASE Ask(t, "rescue")
  <2>1. WentOn(t, "rescue") /\ "rescue" \in Requests
    BY <1>1, <1>4, AskEffect DEF WentOn, Requests
  <2>2. blame = {} => cached \in live
    BY <1>1, <1>2, WriterIsServed
  <2>3. QED
    BY <1>1, <1>2, <2>1, <2>2, GoingOnKeeps DEF Rebuilding
<1>5. QED
  BY <1>3, <1>4 DEF PatchIdentity

LEMMA RescueKeeps ==
  ASSUME L1Inv, NEW t \in Tasks, Rescue(t)
  PROVE  L1Inv'
<1>1. /\ UNCHANGED <<live, born, facts, block, cached, op, said, fails, ops, blame, want>>
      /\ step[t] = "rescue" /\ agent[t] \in live /\ Aim(t) = "rescue" /\ L1Tasks /\ L1Data
      /\ cached \in Ids \cup {NoId} /\ facts[agent[t]] \in SUBSET Keys
      /\ Send(t, "delete", cached) /\ seen' = [seen EXCEPT ![t] = facts[agent[t]]]
  BY AgentsAreIds DEF Rescue, Answers, server, Aim, L1Inv, L1Server
<1>2. op[t].kind = "identity" /\ Writes(t)
  BY <1>1, AimsOfWriters DEF L1Kinds, L1Inv, Rebuilding
<1>3. WentOn(t, "delete") /\ "delete" \in Requests /\ seen'[t] = facts[agent[t]] /\ seen' \in [Tasks -> SUBSET Keys]
  BY <1>1, SendEffect DEF WentOn, Requests, L1Data
<1>4. Clean => Small(seen'[t])
  BY <1>1, <1>3 DEF L1Inv, L1Cap
<1>5. blame = {} => said \subseteq seen'[t] /\ cached \in live
  <2>1. SUFFICES ASSUME blame = {} PROVE said \subseteq seen'[t] /\ cached \in live
    OBVIOUS
  <2>2. ~Restoring
    BY <1>1, <2>1, WriterIsAlone DEF Restoring, Rebuilding
  <2>3. QED
    BY <1>1, <1>2, <1>3, <2>1, <2>2, WriterIsServed DEF L1Inv, L1Kept
<1>6. QED
  BY <1>1, <1>2, <1>3, <1>4, <1>5, GoingOnKeeps DEF Rebuilding

\* The facts of an agent are replaced by what a task saw and changed.
LEMMA StoreEffect ==
  ASSUME L1Inv, NEW t \in Tasks, agent[t] \in live, facts' = [facts EXCEPT ![agent[t]] = seen[t]], UNCHANGED <<live, born, block>>,
         Aim(t) \in {"patch", "restore"}
  PROVE  /\ facts' \in [Ids -> SUBSET Keys] /\ Unborn'
         /\ Clean => \A a \in live : Small(facts'[a])
         /\ Clean => \A u \in Tasks : Aim(u) = "get" => u # t /\ op[u].kind # "promote"
         /\ blame = {} => (\A a \in live : facts'[a] = seen[t]) /\ said \subseteq seen[t]
         /\ blame = {} => \A u \in Tasks : u # t => Aim(u) \in {"idle", "read"}
<1>1. agent[t] \in Ids /\ agent[t] <= born /\ seen[t] \in SUBSET Keys /\ facts \in [Ids -> SUBSET Keys] /\ live \subseteq Ids
  BY AgentsAreIds DEF L1Inv, L1Data, L1Server
<1>2. facts' \in [Ids -> SUBSET Keys] /\ facts'[agent[t]] = seen[t] /\ \A a \in Ids : a # agent[t] => facts'[a] = facts[a]
  BY <1>1
<1>3. born \in Nat /\ \A a \in Ids : a \in Nat
  BY L1Constants, AgentsAreIds DEF L1Inv
<1>4. Unborn'
  BY <1>1, <1>2, <1>3 DEF Unborn, L1Inv
<1>5. Clean => \A a \in live : Small(facts'[a])
  BY <1>1, <1>2 DEF L1Cap, L1Inv
<1>6. "overlap" \notin blame => \A u \in Tasks : u # t => Aim(u) \in {"idle", "read"}
  BY WriterIsAlone DEF Rebuilding
<1>7. blame = {} => (\A a \in live : a = agent[t]) /\ said \subseteq seen[t]
  BY DEF L1Kept, L1Inv, OneAgent
<1>8. QED
  BY <1>1, <1>2, <1>4, <1>5, <1>6, <1>7 DEF Clean

LEMMA PatchFactsKeeps ==
  ASSUME L1Inv, NEW t \in Tasks, PatchFacts(t)
  PROVE  L1Inv'
<1>1. /\ UNCHANGED <<live, born, block, cached, op, seen, fails, ops, blame>> /\ step[t] = "patch" /\ Aim(t) = "patch"
      /\ agent[t] \in live /\ facts' = [facts EXCEPT ![agent[t]] = seen[t]] /\ Return(t)
      /\ said' = IF op[t].kind = "promote" THEN said \cup {op[t].key} ELSE said
      /\ L1Server /\ L1Tasks /\ L1Data
  BY DEF PatchFacts, Answers, Aim, L1Inv
<1>2. /\ facts' \in [Ids -> SUBSET Keys] /\ Unborn'
      /\ Clean => \A a \in live : Small(facts'[a])
      /\ Clean => \A u \in Tasks : Aim(u) = "get" => u # t /\ op[u].kind # "promote"
      /\ blame = {} => (\A a \in live : facts'[a] = seen[t]) /\ said \subseteq seen[t]
      /\ blame = {} => \A u \in Tasks : u # t => Aim(u) \in {"idle", "read"}
  BY <1>1, StoreEffect
<1>3. Goes(t, "idle")
  BY <1>1, ReturnEffect
<1>4. op[t].key \in Keys
  BY <1>1 DEF L1Kinds, L1Inv
<1>5. L1Server' /\ L1Tasks' /\ L1Data'
  BY <1>1, <1>2, <1>3, <1>4 DEF L1Server, L1Data, Goes
<1>6. \A u \in Tasks : Writes(u)' => Writes(u)
  BY <1>1, <1>3 DEF Goes, Writes
<1>7. OneWriter' /\ OneAgent'
  BY <1>1, <1>6 DEF OneWriter, OneAgent, L1Inv
<1>8. L1Kinds'
  BY <1>1, <1>3 DEF L1Kinds, L1Inv, Goes, Rebuilding
<1>9. L1Cap'
  BY <1>1, <1>2, <1>3 DEF L1Cap, Clean, L1Inv, Goes
<1>10. L1Aims'
  BY <1>1, <1>3, <1>6 DEF L1Aims, L1Inv, Goes, Writes
<1>11. L1Kept'
  <2>1. blame = {} /\ op[t].kind = "promote" => op[t].key \in seen[t]
    BY <1>1 DEF L1Kept, L1Inv
  <2>2. blame = {} => said' \subseteq seen[t]
    BY <1>1, <1>2, <2>1
  <2>3. blame = {} => \A u \in Tasks : Aim(u)' \in {"idle", "read"}
    BY <1>2, <1>3 DEF Goes
  <2>4. QED
    BY <1>1, <1>2, <2>2, <2>3 DEF L1Kept
<1>12. QED
  BY <1>2, <1>5, <1>7, <1>8, <1>9, <1>10, <1>11 DEF L1Inv

LEMMA RestoreKeeps ==
  ASSUME L1Inv, NEW t \in Tasks, Restore(t)
  PROVE  L1Inv'
<1>1. /\ UNCHANGED <<live, born, block, cached, op, seen, said, fails, ops, blame, want>> /\ step[t] = "restore" /\ Aim(t) = "restore"
      /\ agent[t] \in live /\ facts' = [facts EXCEPT ![agent[t]] = seen[t]] /\ Send(t, "label", cached)
      /\ L1Server /\ L1Tasks /\ L1Data /\ cached \in Ids \cup {NoId} /\ "label" \in Requests
  BY DEF Restore, Answers, Aim, L1Inv, L1Server, Requests
<1>2. /\ facts' \in [Ids -> SUBSET Keys] /\ Unborn'
      /\ Clean => \A a \in live : Small(facts'[a])
      /\ Clean => \A u \in Tasks : Aim(u) = "get" => u # t /\ op[u].kind # "promote"
      /\ blame = {} => (\A a \in live : facts'[a] = seen[t]) /\ said \subseteq seen[t]
      /\ blame = {} => \A u \in Tasks : u # t => Aim(u) \in {"idle", "read"}
  BY <1>1, StoreEffect
<1>3. Goes(t, "label") /\ agent'[t] = cached /\ Writes(t)
  BY <1>1, SendEffect, AimsOfWriters DEF Rebuilding, L1Inv
<1>4. L1Server' /\ L1Tasks' /\ L1Data'
  BY <1>1, <1>2, <1>3 DEF L1Server, L1Data, Goes
<1>5. \A u \in Tasks : Writes(u)' => Writes(u)
  BY <1>1, <1>3 DEF Goes, Writes
<1>6. OneWriter' /\ OneAgent'
  BY <1>1, <1>5 DEF OneWriter, OneAgent, L1Inv
<1>7. L1Kinds'
  BY <1>1, <1>3 DEF L1Kinds, L1Inv, Goes, Rebuilding
<1>8. L1Cap'
  BY <1>1, <1>2, <1>3 DEF L1Cap, Clean, L1Inv, Goes
<1>9. L1Aims'
  BY <1>1, <1>3, <1>5, WriterIsServed DEF L1Aims, L1Inv, Goes, Writes
<1>10. L1Kept'
  <2>1. blame = {} => \A u \in Tasks : Aim(u)' \in {"idle", "read", "label"}
    BY <1>2, <1>3 DEF Goes
  <2>2. QED
    BY <1>1, <1>2, <2>1 DEF L1Kept
<1>11. QED
  BY <1>2, <1>4, <1>6, <1>7, <1>8, <1>9, <1>10 DEF L1Inv

LEMMA DeleteAgentKeeps ==
  ASSUME L1Inv, NEW t \in Tasks, DeleteAgent(t)
  PROVE  L1Inv'
<1> DEFINE next == IF seen[t] # {} THEN "restore" ELSE "label"
<1>1. /\ UNCHANGED <<born, facts, op, seen, said, fails, ops, blame>> /\ step[t] = "delete" /\ Aim(t) = "delete"
      /\ live' = live \ {agent[t]} /\ block' = block \ {agent[t]} /\ cached' = NoId /\ agent[t] \in live
      /\ Send(t, "list", NoId) /\ want' = [want EXCEPT ![t] = next]
      /\ L1Server /\ L1Tasks /\ L1Data
  BY DEF DeleteAgent, Answers, Aim, L1Inv
<1>2. /\ Aim(t)' = next /\ step'[t] = "list" /\ L1Tasks'
      /\ \A u \in Tasks : u # t => Aim(u)' = Aim(u) /\ step'[u] = step[u] /\ agent'[u] = agent[u]
  <2>1. /\ step'[t] = "list" /\ want'[t] = next
        /\ \A u \in Tasks : u # t => step'[u] = step[u] /\ agent'[u] = agent[u] /\ want'[u] = want[u]
    BY <1>1 DEF Send, L1Tasks
  <2>2. L1Tasks'
    BY <1>1 DEF Send, L1Tasks, Requests
  <2>3. QED
    BY <2>1, <2>2 DEF Aim
<1>3. next \in {"restore", "label"} /\ (next = "label" => seen[t] = {})
  OBVIOUS
<1> HIDE DEF next
<1>4. L1Server' /\ L1Data'
  BY <1>1 DEF L1Server, L1Data
<1>5. Writes(t) /\ \A u \in Tasks : Writes(u)' <=> Writes(u)
  BY <1>1, <1>2, AimsOfWriters DEF Writes, Rebuilding, L1Inv
<1>6. OneWriter' /\ OneAgent' /\ Unborn'
  BY <1>1, <1>5 DEF OneWriter, OneAgent, Unborn, L1Inv
<1>7. L1Kinds'
  BY <1>1, <1>2, <1>3 DEF L1Kinds, L1Inv, Rebuilding
<1>8. L1Cap'
  BY <1>1, <1>2, <1>3 DEF L1Cap, Clean, L1Inv
<1>9. L1Aims'
  BY <1>1, <1>2, <1>5 DEF L1Aims, OneWriter, L1Inv
<1>10. L1Kept'
  <2>1. SUFFICES ASSUME blame = {} PROVE L1Kept'
    BY <1>1 DEF L1Kept
  <2>2. said \subseteq seen[t] /\ \A u \in Tasks : u # t => Aim(u) \in {"idle", "read"}
    BY <1>1, <2>1, WriterIsAlone DEF L1Kept, L1Inv, Rebuilding
  <2>3. \A u \in Tasks : u # t => Aim(u)' \in {"idle", "read"}
    BY <1>2, <2>2
  <2>4. next = "restore" => Restoring'
    BY <1>2 DEF Restoring
  <2>5. QED
    BY <1>1, <1>2, <1>3, <2>2, <2>3, <2>4 DEF L1Kept
<1>11. QED
  BY <1>2, <1>4, <1>6, <1>7, <1>8, <1>9, <1>10 DEF L1Inv

LEMMA RebootKeeps == L1Inv /\ Reboot => L1Inv'
<1> SUFFICES ASSUME L1Inv, Reboot PROVE L1Inv'
  OBVIOUS
<1>1. /\ UNCHANGED <<live, born, facts, block, want, agent, op, seen, said, fails, ops>> /\ cached' = NoId
      /\ step' = [t \in Tasks |-> "idle"]
      /\ blame' = blame \cup {"rebuild" : t \in {u \in Tasks : Aim(u) \in Rebuilding}}
  BY DEF Reboot, server
<1>2. /\ blame \subseteq blame' /\ blame' \subseteq blame \cup {"rebuild"}
      /\ blame' = {} => ~Restoring
  BY <1>1 DEF Restoring, Rebuilding
<1>3. \A u \in Tasks : Aim(u)' = "idle" /\ ~Writes(u)'
  BY <1>1 DEF Aim, Writes
<1>4. L1Server' /\ L1Tasks' /\ L1Data'
  BY <1>1, <1>2 DEF L1Inv, L1Server, L1Tasks, L1Data
<1>5. OneWriter' /\ OneAgent' /\ Unborn'
  BY <1>1, <1>2, <1>3 DEF OneWriter, OneAgent, Unborn, L1Inv
<1>6. L1Kinds' /\ L1Cap' /\ L1Aims'
  BY <1>1, <1>2, <1>3 DEF L1Kinds, L1Cap, L1Aims, Clean, Rebuilding, L1Inv
<1>7. L1Kept'
  <2>1. blame' = {} => blame = {}
    BY <1>2
  <2>2. QED
    BY <1>1, <1>2, <1>3, <2>1 DEF L1Kept, L1Inv
<1>8. QED
  BY <1>4, <1>5, <1>6, <1>7 DEF L1Inv

\* What a failing request leaves on the server.
LEMMA EffectOfFailing ==
  ASSUME L1Inv, NEW t \in Tasks, Fail(t)
  PROVE  /\ live' \subseteq 1 .. born' /\ born' \in 0 .. MaxAgents /\ block' \subseteq live' /\ facts' \in [Ids -> SUBSET Keys]
         /\ OneAgent' /\ Unborn'
         /\ Clean' => \A a \in live' : Small(facts'[a])
         /\ Clean' => \A u \in Tasks : u # t /\ Aim(u) = "get" /\ op[u].kind = "promote" =>
              FactsCap >= 1 /\ \A a \in live' : Small(facts'[a] \cup {op[u].key})
         /\ blame' = {} => (cached \in live => cached \in live')
         /\ blame' = {} /\ ~Restoring => (\A a \in live' : said \subseteq facts'[a]) /\ (live' = {} => said = {})
<1>1. /\ UNCHANGED <<cached, op, said, ops>> /\ step[t] # "idle" /\ (Effect(t) \/ UNCHANGED server)
      /\ blame' = blame \cup Twins \cup (IF Aim(t) \in Rebuilding THEN {"rebuild"} ELSE {})
      /\ L1Server /\ L1Cap /\ L1Kept /\ Unborn /\ OneAgent
  BY DEF Fail, L1Inv
<1>2. /\ blame \subseteq blame' /\ (Clean' => Clean) /\ (blame' = {} => blame = {} /\ Aim(t) \notin Rebuilding)
      /\ "overlap" \in blame' <=> "overlap" \in blame
  BY <1>1 DEF Clean, Twins
<1>3. CASE UNCHANGED server
  BY <1>1, <1>2, <1>3 DEF server, L1Server, OneAgent, Unborn, L1Cap, L1Kept
<1>4. CASE /\ step[t] \in {"patch", "restore"} /\ agent[t] \in live
           /\ facts' = [facts EXCEPT ![agent[t]] = seen[t]] /\ UNCHANGED <<live, born, block>>
  <2>1. Aim(t) = step[t]
    BY <1>4 DEF Aim
  <2>2. /\ facts' \in [Ids -> SUBSET Keys] /\ Unborn'
        /\ Clean => \A a \in live : Small(facts'[a])
        /\ Clean => \A u \in Tasks : Aim(u) = "get" => u # t /\ op[u].kind # "promote"
        /\ blame = {} => (\A a \in live : facts'[a] = seen[t]) /\ said \subseteq seen[t]
    BY <1>4, <2>1, StoreEffect
  <2>3. OneAgent'
    BY <1>1, <1>2, <1>4 DEF OneAgent
  <2>4. QED
    BY <1>1, <1>2, <1>4, <2>2, <2>3 DEF L1Server
<1>5. CASE /\ step[t] = "delete" /\ agent[t] \in live
           /\ live' = live \ {agent[t]} /\ block' = block \ {agent[t]} /\ UNCHANGED <<born, facts>>
  <2>1. Aim(t) = "delete" /\ blame' # {}
    BY <1>1, <1>5 DEF Aim, Rebuilding
  <2>2. QED
    BY <1>1, <1>2, <1>5, <2>1 DEF L1Server, OneAgent, Unborn, L1Cap
<1>6. CASE step[t] = "create" /\ NewAgent
  <2>1. Born
    <3>1. "twin" \in blame' <=> "twin" \in blame \cup Twins
      BY <1>1
    <3>2. QED
      BY <1>1, <1>2, <1>6, <3>1 DEF Born
  <2>2. /\ live' = live \cup {born'} /\ UNCHANGED facts /\ facts[born'] = {} /\ born' \in live'
        /\ live' \subseteq 1 .. born' /\ born' \in 0 .. MaxAgents /\ block' \subseteq live'
        /\ OneAgent' /\ Unborn' /\ ("twin" \notin blame' => live = {})
        /\ Clean' => Clean /\ \A a \in live' : Small(facts[a])
        /\ Clean' => \A u \in Tasks : Aim(u) = "get" /\ op[u].kind = "promote" =>
             FactsCap >= 1 /\ \A a \in live' : Small(facts[a] \cup {op[u].key})
        /\ blame' = {} => (~Restoring => said = {})
    BY <1>2, <2>1, BornEffect
  <2>3. QED
    BY <1>1, <1>2, <2>2 DEF L1Server
<1>7. QED
  BY <1>1, <1>3, <1>4, <1>5, <1>6 DEF Effect

LEMMA FailKeeps ==
  ASSUME L1Inv, NEW t \in Tasks, Fail(t)
  PROVE  L1Inv'
<1>1. /\ UNCHANGED <<cached, op, said, ops>> /\ step[t] # "idle" /\ fails' \in 0 .. MaxFails
      /\ blame' = blame \cup Twins \cup (IF Aim(t) \in Rebuilding THEN {"rebuild"} ELSE {})
      /\ L1Server /\ L1Tasks /\ L1Data /\ cached \in Ids \cup {NoId} /\ "delete" \in Requests
  BY L1Constants DEF Fail, L1Inv, L1Data, L1Server, Requests
<1>2. /\ live' \subseteq 1 .. born' /\ born' \in 0 .. MaxAgents /\ block' \subseteq live' /\ facts' \in [Ids -> SUBSET Keys]
      /\ OneAgent' /\ Unborn'
      /\ Clean' => \A a \in live' : Small(facts'[a])
      /\ Clean' => \A u \in Tasks : u # t /\ Aim(u) = "get" /\ op[u].kind = "promote" =>
           FactsCap >= 1 /\ \A a \in live' : Small(facts'[a] \cup {op[u].key})
      /\ blame' = {} => (cached \in live => cached \in live')
      /\ blame' = {} /\ ~Restoring => (\A a \in live' : said \subseteq facts'[a]) /\ (live' = {} => said = {})
  BY EffectOfFailing
<1>3. /\ blame \subseteq blame' /\ blame' \subseteq {"overlap", "twin", "rebuild"} /\ (Clean' => Clean)
      /\ blame' = {} => blame = {} /\ Aim(t) \notin Rebuilding
      /\ "overlap" \in blame' <=> "overlap" \in blame
  BY <1>1 DEF Clean, Twins, L1Data
<1>4. \/ Aim(t) = "rescue" /\ Goes(t, "delete") /\ seen' = [seen EXCEPT ![t] = {}]
      \/ Aim(t) # "rescue" /\ Goes(t, "idle") /\ UNCHANGED seen
  BY <1>1, SendEffect, ReturnEffect DEF Fail
<1>5. /\ seen' \in [Tasks -> SUBSET Keys] /\ \A u \in Tasks : u # t => seen'[u] = seen[u]
      /\ \/ Aim(t)' = "delete" /\ Aim(t) = "rescue" /\ seen'[t] = {}
         \/ Aim(t)' = "idle"
      /\ Aim(t)' = "idle" => step'[t] = "idle"
      /\ L1Tasks' /\ \A u \in Tasks : u # t => Aim(u)' = Aim(u) /\ step'[u] = step[u] /\ agent'[u] = agent[u]
  BY <1>1, <1>4 DEF Goes, L1Data
<1>6. L1Server' /\ L1Tasks' /\ L1Data'
  BY <1>1, <1>2, <1>3, <1>5 DEF L1Server, L1Data
<1>7. \A u \in Tasks : (Writes(u)' => Writes(u)) /\ (u # t => (Writes(u)' <=> Writes(u)))
  BY <1>1, <1>5 DEF Writes
<1>8. OneWriter'
  BY <1>3, <1>7 DEF OneWriter, L1Inv
<1>9. L1Kinds'
  BY <1>1, <1>5 DEF L1Kinds, L1Inv, Rebuilding
<1>10. L1Cap'
  BY <1>1, <1>2, <1>3, <1>5, FewAreSmall DEF L1Cap, L1Inv
<1>11. L1Aims'
  <2>1. SUFFICES ASSUME blame' = {} PROVE L1Aims'
    BY DEF L1Aims
  <2>2. Aim(t)' = "idle" /\ ~Writes(t)' /\ blame = {}
    BY <1>3, <1>5, <2>1 DEF Rebuilding, Writes
  <2>3. QED
    BY <1>1, <1>2, <1>5, <1>7, <2>1, <2>2 DEF L1Aims, L1Inv
<1>12. L1Kept'
  <2>1. SUFFICES ASSUME blame' = {} PROVE L1Kept'
    BY DEF L1Kept
  <2>2. Aim(t)' = "idle" /\ blame = {} /\ Aim(t) # "restore"
    BY <1>3, <1>5, <2>1 DEF Rebuilding
  <2>3. Restoring' <=> Restoring
    BY <1>5, <2>2 DEF Restoring
  <2>4. QED
    BY <1>1, <1>2, <1>5, <2>1, <2>2, <2>3 DEF L1Kept, L1Inv
<1>13. QED
  BY <1>2, <1>6, <1>8, <1>9, <1>10, <1>11, <1>12 DEF L1Inv

LEMMA L1InvAtStart == L1Init => L1Inv
<1> SUFFICES ASSUME L1Init PROVE L1Inv
  OBVIOUS
<1> USE L1Constants DEF L1Init
<1>1. \A t \in Tasks : Aim(t) = "idle" /\ ~Writes(t)
  BY DEF Aim, Writes
<1>2. L1Server
  BY DEF L1Server, Ids
<1>3. L1Tasks /\ L1Data
  BY DEF L1Tasks, L1Data, Ops, Requests
<1>4. OneWriter /\ L1Kinds /\ Unborn
  BY <1>1 DEF OneWriter, L1Kinds, Unborn, Rebuilding
<1>5. OneAgent
  BY <1>2 DEF OneAgent
<1>6. L1Cap
  BY <1>1, <1>2, FewAreSmall, AgentsAreIds DEF L1Cap
<1>7. L1Aims /\ L1Kept
  BY <1>1 DEF L1Aims, L1Kept
<1>8. QED
  BY <1>2, <1>3, <1>4, <1>5, <1>6, <1>7 DEF L1Inv

LEMMA L1InvKept == L1Inv /\ [L1Next]_l1vars => L1Inv'
<1> SUFFICES ASSUME L1Inv, [L1Next]_l1vars PROVE L1Inv'
  OBVIOUS
<1>1. CASE Reboot
  BY <1>1, RebootKeeps
<1>2. ASSUME NEW t \in Tasks, L1Step(t) PROVE L1Inv'
  BY <1>2, BeginKeeps, ListAgentsKeeps, CreateAgentKeeps, ReadBlocksKeeps, CheckCapKeeps, GetFactsKeeps, PatchFactsKeeps,
     PatchIdentityKeeps, RescueKeeps, DeleteAgentKeeps, RestoreKeeps, FailKeeps DEF L1Step
<1>3. CASE UNCHANGED l1vars
  BY <1>3 DEF l1vars, server, L1Inv, L1Server, L1Tasks, L1Data, OneWriter, OneAgent, L1Kinds, L1Cap, Clean, Unborn, L1Aims,
              Restoring, L1Kept, Writes, Aim
<1>4. QED
  BY <1>1, <1>2, <1>3 DEF L1Next

\* The invariant holds in every run of the permanent memory (permanent.py and the tools that write it).
THEOREM L1InvHolds == L1Spec => []L1Inv
BY L1InvAtStart, L1InvKept, PTL DEF L1Spec

LEMMA L1InvSuffices == L1Inv => PromotedKept
<1> SUFFICES ASSUME L1Inv PROVE PromotedKept
  OBVIOUS
<1>1. L1TypeOK
  BY L1TypesSuffice DEF L1Inv
<1>2. ASSUME L1Quiet, blame = {}, NEW k \in said PROVE Remembered(k)
  <2>1. ~Restoring
    BY <1>2 DEF L1Quiet, Restoring, Aim
  <2>2. QED
    BY <1>2, <2>1 DEF L1Inv, L1Kept, L1Aims, Remembered
<1>3. CapHeld
  BY DEF CapHeld, L1Inv, L1Cap, Clean, Small
<1>4. QED
  BY <1>1, <1>2, <1>3 DEF PromotedKept, PromotedStays

\* A fact whose promotion was confirmed (promote_fact, store_fact) is what the next turn reads, whatever request fails or
\* process restarts, unless the ghost names what went wrong; and the block stays below its cap.
THEOREM PromotedIsKept == L1Spec => []PromotedKept
BY L1InvHolds, L1InvSuffices, PTL

-----------------------------------------------------------------------------
(* The working memory.  First what a list is of another.                   *)

Msg == 1 .. 2 * MaxAppends

\* s is the end of w.
EndOf(s, w) ==
  /\ Len(s) <= Len(w)
  /\ \A i \in 1 .. Len(s) : s[i] = w[Len(w) - Len(s) + i]

(* What is in Redis, and in the copy of who holds the lock, is the end of the
   conversation; a turn has added its messages to its copy. *)
EndInv ==
  /\ EndOf(kept, written)
  /\ \A n \in Numbers : trim[n] \in {"save", "yield"} => EndOf(copy, written)
  /\ turnAt = "save" => EndOf(copy, written \o Messages(appends))

(* Without upsets: the conversation is counted through, copy and list differ by
   what their holder is about to save, ... *)
Begun == IF turnAt = "idle" THEN appends ELSE appends - 1
CountInv ==
  /\ Len(written) = 2 * Begun /\ \A i \in 1 .. Len(written) : written[i] = i
  /\ turnAt # "idle" => appends >= 1
  /\ turnAt = "save" => copy = kept \o Messages(appends)
  /\ \A n \in Numbers : trim[n] = "yield" => copy = kept

(* ... what is no longer in the list was handed over or is about to be, by one
   task, once; and a list that is too long has its task. *)
Trimming(n) == trim[n] \in {"save", "yield"}
Carries(n) == trim[n] \in {"save", "yield", "enrich"}
Gone == Len(written) - IF \E n \in Numbers : Trimming(n) THEN Len(copy) ELSE Len(kept)
Once(s) == \A i, j \in 1 .. Len(s) : s[i] = s[j] => i = j
TrimInv ==
  /\ \A n \in Numbers : trim[n] \in {"none", "lock", "load"} => dropped[n] = <<>>
  /\ Once(handed) /\ Elements(handed) \subseteq 1 .. Gone
  /\ \A n \in Numbers : Carries(n) =>
       Once(dropped[n]) /\ Elements(dropped[n]) \subseteq 1 .. Gone /\ Elements(dropped[n]) \cap Elements(handed) = {}
  /\ \A m, n \in Numbers : Carries(m) /\ Carries(n) /\ m # n => Elements(dropped[m]) \cap Elements(dropped[n]) = {}
  /\ \A x \in 1 .. Gone : x \in Elements(handed) \/ \E n \in Numbers : Carries(n) /\ x \in Elements(dropped[n])
DueInv ==
  Len(kept) < MaxKept + MinSurplus \/ \E n \in Numbers : trim[n] \in {"lock", "load", "save", "yield"}

(* The types, with the mutual exclusion that the lock gives. *)
L2Control ==
  /\ chatLock \in 0 .. Turn /\ turnAt \in {"idle", "lock", "load", "save"}
  /\ trim \in [Numbers -> {"none", "lock", "load", "save", "yield", "enrich", "over"}]
  /\ appends \in 0 .. MaxAppends /\ upsets \in 0 .. MaxUpsets
  /\ turnAt # "idle" => appends >= 1
  /\ \A n \in Numbers : trim[n] # "none" => n <= Begun
L2Locks ==
  /\ chatLock = Turn <=> turnAt \in {"load", "save"}
  /\ \A n \in Numbers : chatLock = n <=> trim[n] \in {"load", "save", "yield"}
L2Lists ==
  /\ kept \in Seq(Msg) /\ copy \in Seq(Msg) /\ handed \in Seq(Msg) /\ written \in Seq(Msg)
  /\ dropped \in [Numbers -> Seq(Msg)]

L2Inv ==
  /\ L2Control /\ L2Locks /\ L2Lists /\ EndInv
  /\ upsets = 0 => CountInv /\ TrimInv /\ DueInv

LEMMA L2Constants ==
  /\ MaxKept \in Nat /\ MinSurplus \in Nat \ {0} /\ ChunkSize \in Nat \ {0} /\ MaxAppends \in Nat /\ MaxUpsets \in Nat
  /\ Turn \in Nat /\ 0 # Turn /\ \A n \in Numbers : n \in Nat /\ n # 0 /\ n # Turn /\ n \in 0 .. Turn
BY L2Assumption DEF Turn, Numbers

LEMMA L2TypesSuffice == L2Control /\ L2Locks /\ L2Lists => L2TypeOK
BY DEF L2Control, L2Locks, L2Lists, L2TypeOK, Msg

LEMMA MessagesOfATurn ==
  ASSUME NEW n \in Numbers
  PROVE  /\ Messages(n) \in Seq(Msg) /\ Len(Messages(n)) = 2
         /\ Messages(n)[1] = 2 * n - 1 /\ Messages(n)[2] = 2 * n
<1>1. 2 * n - 1 \in Msg /\ 2 * n \in Msg
  BY L2Constants DEF Numbers, Msg
<1>2. QED
  BY <1>1 DEF Messages

-----------------------------------------------------------------------------
(* Lemmas on lists.                                                        *)

LEMMA WithoutFirst ==
  ASSUME NEW S, NEW s \in Seq(S), NEW k \in 0 .. Len(s)
  PROVE  /\ SubSeq(s, k + 1, Len(s)) \in Seq(S)
         /\ Len(SubSeq(s, k + 1, Len(s))) = Len(s) - k
         /\ \A i \in 1 .. Len(s) - k : SubSeq(s, k + 1, Len(s))[i] = s[k + i]
<1>1. Len(s) \in Nat /\ k + 1 \in Int /\ \A i \in k + 1 .. Len(s) : s[i] \in S
  BY LenProperties, ElementOfSeq
<1>2. /\ SubSeq(s, k + 1, Len(s)) \in Seq(S)
      /\ Len(SubSeq(s, k + 1, Len(s))) = IF k + 1 <= Len(s) THEN Len(s) - (k + 1) + 1 ELSE 0
      /\ \A i \in 1 .. Len(s) - (k + 1) + 1 : SubSeq(s, k + 1, Len(s))[i] = s[k + 1 + i - 1]
  BY <1>1, SubSeqProperties
<1>3. QED
  BY <1>1, <1>2

LEMMA FirstOnes ==
  ASSUME NEW S, NEW s \in Seq(S), NEW k \in 0 .. Len(s)
  PROVE  /\ SubSeq(s, 1, k) \in Seq(S) /\ Len(SubSeq(s, 1, k)) = k
         /\ \A i \in 1 .. k : SubSeq(s, 1, k)[i] = s[i]
<1>1. Len(s) \in Nat /\ k \in Int /\ \A i \in 1 .. k : s[i] \in S
  BY LenProperties, ElementOfSeq
<1>2. /\ SubSeq(s, 1, k) \in Seq(S)
      /\ Len(SubSeq(s, 1, k)) = IF 1 <= k THEN k - 1 + 1 ELSE 0
      /\ \A i \in 1 .. k - 1 + 1 : SubSeq(s, 1, k)[i] = s[1 + i - 1]
  BY <1>1, SubSeqProperties
<1>3. QED
  BY <1>1, <1>2

LEMMA EndOfLonger ==
  ASSUME NEW S, NEW s \in Seq(S), NEW w \in Seq(S), NEW m \in Seq(S), EndOf(s, w)
  PROVE  EndOf(s \o m, w \o m)
<1>1. Len(s) \in Nat /\ Len(w) \in Nat /\ Len(m) \in Nat
  BY LenProperties
<1>2. /\ Len(s \o m) = Len(s) + Len(m) /\ Len(w \o m) = Len(w) + Len(m)
      /\ \A i \in 1 .. Len(s) + Len(m) : (s \o m)[i] = IF i <= Len(s) THEN s[i] ELSE m[i - Len(s)]
      /\ \A i \in 1 .. Len(w) + Len(m) : (w \o m)[i] = IF i <= Len(w) THEN w[i] ELSE m[i - Len(w)]
  BY ConcatProperties
<1>3. ASSUME NEW i \in 1 .. Len(s \o m) PROVE (s \o m)[i] = (w \o m)[Len(w \o m) - Len(s \o m) + i]
  <2>1. Len(w \o m) - Len(s \o m) + i = Len(w) - Len(s) + i /\ Len(w) - Len(s) + i \in 1 .. Len(w) + Len(m)
    BY <1>1, <1>2, <1>3 DEF EndOf
  <2>2. CASE i <= Len(s)
    BY <2>1, <2>2, <1>1, <1>2 DEF EndOf
  <2>3. CASE i > Len(s)
    <3>1. (w \o m)[Len(w) - Len(s) + i] = m[Len(w) - Len(s) + i - Len(w)]
      BY <2>1, <2>3, <1>1, <1>2
    <3>2. Len(w) - Len(s) + i - Len(w) = i - Len(s) /\ (s \o m)[i] = m[i - Len(s)]
      BY <2>3, <1>1, <1>2
    <3>3. QED
      BY <2>1, <3>1, <3>2
  <2>4. QED
    <3>1. i \in Nat
      BY <1>3
    <3>2. i <= Len(s) \/ i > Len(s)
      BY <3>1, <1>1
    <3>3. QED
      BY <3>2, <2>2, <2>3
<1>4. QED
  BY <1>1, <1>2, <1>3 DEF EndOf

LEMMA EndOfShorter ==
  ASSUME NEW S, NEW s \in Seq(S), NEW w \in Seq(S), EndOf(s, w), NEW k \in 0 .. Len(s)
  PROVE  EndOf(SubSeq(s, k + 1, Len(s)), w)
<1>1. Len(s) \in Nat /\ Len(w) \in Nat
  BY LenProperties
<1> DEFINE t == SubSeq(s, k + 1, Len(s))
<1>2. Len(t) = Len(s) - k /\ \A i \in 1 .. Len(s) - k : t[i] = s[k + i]
  BY WithoutFirst
<1>3. ASSUME NEW i \in 1 .. Len(s) - k PROVE t[i] = w[Len(w) - (Len(s) - k) + i]
  <2>1. k + i \in 1 .. Len(s) /\ Len(w) - Len(s) + (k + i) = Len(w) - (Len(s) - k) + i
    BY <1>1
  <2>2. QED
    BY <1>2, <2>1 DEF EndOf
<1> HIDE DEF t
<1>4. EndOf(t, w)
  BY <1>1, <1>2, <1>3 DEF EndOf
<1>5. QED
  BY <1>4 DEF t

LEMMA EndOfIsSuffix ==
  ASSUME NEW S, NEW s \in Seq(S), NEW w \in Seq(S), EndOf(s, w)
  PROVE  \E n \in 0 .. Len(w) : s = SubSeq(w, n + 1, Len(w))
<1>1. Len(s) \in Nat /\ Len(w) \in Nat
  BY LenProperties
<1> DEFINE n == Len(w) - Len(s)
<1>2. n \in 0 .. Len(w)
  BY <1>1 DEF EndOf
<1>3. /\ SubSeq(w, n + 1, Len(w)) \in Seq(S) /\ Len(SubSeq(w, n + 1, Len(w))) = Len(w) - n
      /\ \A i \in 1 .. Len(w) - n : SubSeq(w, n + 1, Len(w))[i] = w[n + i]
  BY <1>2, WithoutFirst
<1>4. Len(w) - n = Len(s)
  BY <1>1
<1>5. \A i \in 1 .. Len(s) : s[i] = SubSeq(w, n + 1, Len(w))[i]
  BY <1>3, <1>4 DEF EndOf
<1>6. s = SubSeq(w, n + 1, Len(w))
  BY <1>3, <1>4, <1>5, SeqEqual
<1>7. QED
  BY <1>2, <1>6

\* The elements of two lists, one after the other.
LEMMA ElementsOfBoth ==
  ASSUME NEW S, NEW s \in Seq(S), NEW t \in Seq(S)
  PROVE  /\ Elements(s \o t) = Elements(s) \cup Elements(t)
         /\ Once(s) /\ Once(t) /\ Elements(s) \cap Elements(t) = {} => Once(s \o t)
<1>1. /\ Len(s) \in Nat /\ Len(t) \in Nat /\ DOMAIN s = 1 .. Len(s) /\ DOMAIN t = 1 .. Len(t)
      /\ s \o t \in Seq(S) /\ Len(s \o t) = Len(s) + Len(t) /\ DOMAIN (s \o t) = 1 .. Len(s) + Len(t)
  BY LenProperties, ConcatProperties
<1>2. \A i \in 1 .. Len(s) + Len(t) : (s \o t)[i] = IF i <= Len(s) THEN s[i] ELSE t[i - Len(s)]
  BY ConcatProperties
<1>3. ASSUME NEW i \in 1 .. Len(s) PROVE i \in 1 .. Len(s) + Len(t) /\ (s \o t)[i] = s[i]
  BY <1>1, <1>2
<1>4. ASSUME NEW i \in 1 .. Len(t) PROVE Len(s) + i \in 1 .. Len(s) + Len(t) /\ (s \o t)[Len(s) + i] = t[i]
  <2>1. Len(s) + i \in 1 .. Len(s) + Len(t) /\ ~(Len(s) + i <= Len(s)) /\ Len(s) + i - Len(s) = i
    BY <1>1
  <2>2. QED
    BY <2>1, <1>2
<1>5. ASSUME NEW i \in 1 .. Len(s) + Len(t), ~(i <= Len(s)) PROVE i - Len(s) \in 1 .. Len(t) /\ (s \o t)[i] = t[i - Len(s)]
  BY <1>1, <1>2, <1>5
<1>6. Elements(s \o t) \subseteq Elements(s) \cup Elements(t)
  <2>1. SUFFICES ASSUME NEW i \in 1 .. Len(s) + Len(t) PROVE (s \o t)[i] \in Elements(s) \cup Elements(t)
    BY <1>1 DEF Elements
  <2>2. CASE i <= Len(s)
    BY <2>2, <1>1, <1>3 DEF Elements
  <2>3. CASE ~(i <= Len(s))
    BY <2>3, <1>1, <1>5 DEF Elements
  <2>4. QED
    BY <2>2, <2>3
<1>7. Elements(s) \cup Elements(t) \subseteq Elements(s \o t)
  BY <1>1, <1>3, <1>4 DEF Elements
<1>8. ASSUME Once(s), Once(t), Elements(s) \cap Elements(t) = {},
             NEW i \in 1 .. Len(s \o t), NEW j \in 1 .. Len(s \o t), (s \o t)[i] = (s \o t)[j]
      PROVE  i = j
  <2>1. i \in 1 .. Len(s) + Len(t) /\ j \in 1 .. Len(s) + Len(t)
    BY <1>1
  <2>2. CASE i <= Len(s) /\ j <= Len(s)
    <3>1. i \in 1 .. Len(s) /\ j \in 1 .. Len(s)
      BY <2>1, <2>2, <1>1
    <3>2. QED
      BY <3>1, <1>3, <1>8 DEF Once
  <2>3. CASE ~(i <= Len(s)) /\ ~(j <= Len(s))
    <3>1. i - Len(s) = j - Len(s)
      BY <2>1, <2>3, <1>5, <1>8 DEF Once
    <3>2. QED
      BY <3>1, <1>1, <2>1
  <2>4. CASE i <= Len(s) /\ ~(j <= Len(s))
    <3>1. i \in 1 .. Len(s)
      BY <2>1, <2>4, <1>1
    <3>2. (s \o t)[i] \in Elements(s) /\ (s \o t)[j] \in Elements(t)
      BY <3>1, <2>1, <2>4, <1>1, <1>3, <1>5 DEF Elements
    <3>3. QED
      BY <3>2, <1>8
  <2>5. CASE ~(i <= Len(s)) /\ j <= Len(s)
    <3>1. j \in 1 .. Len(s)
      BY <2>1, <2>5, <1>1
    <3>2. (s \o t)[j] \in Elements(s) /\ (s \o t)[i] \in Elements(t)
      BY <3>1, <2>1, <2>5, <1>1, <1>3, <1>5 DEF Elements
    <3>3. QED
      BY <3>2, <1>8
  <2>6. QED
    BY <2>2, <2>3, <2>4, <2>5
<1>9. QED
  BY <1>6, <1>7, <1>8 DEF Once

\* A list without repetition of the numbers up to g has length g.
LEMMA CountedOnce ==
  ASSUME NEW S, NEW s \in Seq(S), NEW g \in Nat, Once(s), Elements(s) = 1 .. g
  PROVE  Len(s) = g
<1>1. Len(s) \in Nat /\ DOMAIN s = 1 .. Len(s) /\ s \in [1 .. Len(s) -> S]
  BY LenProperties
<1>2. s \in [1 .. Len(s) -> 1 .. g]
  BY <1>1 DEF Elements
<1>3. s \in Bijection(1 .. Len(s), 1 .. g)
  <2>1. \A x \in 1 .. g : \E i \in 1 .. Len(s) : s[i] = x
    BY <1>1 DEF Elements
  <2>2. QED
    BY <1>2, <2>1 DEF Bijection, Injection, Surjection, IsInjective, Once
<1>4. Cardinality(1 .. g) = Cardinality(1 .. Len(s))
  BY <1>1, <1>3, FS_Interval, FS_Bijection DEF ExistsBijection
<1>5. Cardinality(1 .. g) = g /\ Cardinality(1 .. Len(s)) = Len(s)
  <2>1. \A n \in Nat : Cardinality(1 .. n) = IF 1 > n THEN 0 ELSE n - 1 + 1
    BY FS_Interval
  <2>2. QED
    BY <1>1, <2>1
<1>6. QED
  BY <1>4, <1>5

-----------------------------------------------------------------------------
(* The steps.                                                              *)

\* A chunk is dropped, or the loop ends.
LEMMA ChunkEffect ==
  ASSUME NEW n \in Numbers, NEW list \in Seq(Msg), NEW gone \in Seq(Msg), NextChunk(n, list, gone)
  PROVE  \/ \E size \in 1 .. Len(list) - MaxKept :
              /\ copy' = SubSeq(list, size + 1, Len(list))
              /\ dropped' = [dropped EXCEPT ![n] = gone \o SubSeq(list, 1, size)]
              /\ trim' = [trim EXCEPT ![n] = "save"] /\ chatLock' = chatLock
         \/ /\ Len(list) <= MaxKept /\ copy' = list /\ dropped' = dropped
            /\ trim' = [trim EXCEPT ![n] = "enrich"] /\ chatLock' = 0
<1>1. Len(list) \in Nat
  BY LenProperties
<1>2. CASE Len(list) > MaxKept
  <2>1. Chunk(list) \in 1 .. Len(list) - MaxKept
    BY <1>1, <1>2, L2Constants DEF Chunk
  <2>2. QED
    BY <1>1, <1>2, <2>1, L2Constants DEF NextChunk
<1>3. CASE Len(list) <= MaxKept
  BY <1>1, <1>3, L2Constants DEF NextChunk
<1>4. Len(list) > MaxKept \/ Len(list) <= MaxKept
  BY <1>1, L2Constants
<1>5. QED
  BY <1>2, <1>3, <1>4

(* A step keeps the control state in its bounds ... *)
LEMMA L2ControlKept == L2Inv /\ [L2Next]_l2vars => L2Control'
<1> SUFFICES ASSUME L2Inv, [L2Next]_l2vars PROVE L2Control'
  OBVIOUS
<1> USE L2Constants DEF L2Inv, L2Control, L2Locks, Begun, Upset, Numbers
<1>1. CASE BeginAppend
  BY <1>1 DEF BeginAppend
<1>2. CASE LockForAppend
  BY <1>2 DEF LockForAppend
<1>3. CASE LoadForAppend
  BY <1>3 DEF LoadForAppend
<1>4. CASE SaveAppended
  BY <1>4 DEF SaveAppended
<1>5. CASE AppendFails
  BY <1>5 DEF AppendFails
<1>6. ASSUME NEW n \in Numbers, LockForTrim(n) PROVE L2Control'
  BY <1>6 DEF LockForTrim
<1>7. ASSUME NEW n \in Numbers, LoadForTrim(n) PROVE L2Control'
  <2>1. /\ UNCHANGED <<turnAt, appends, upsets>> /\ trim[n] = "load"
        /\ \E p \in {"save", "enrich", "over"} : trim' = [trim EXCEPT ![n] = p]
        /\ chatLock' \in {0, chatLock}
    BY <1>7 DEF LoadForTrim, NextChunk
  <2>2. QED
    BY <2>1
<1>8. ASSUME NEW n \in Numbers, SaveTrimmed(n) PROVE L2Control'
  BY <1>8 DEF SaveTrimmed
<1>9. ASSUME NEW n \in Numbers, Yield(n) PROVE L2Control'
  <2>1. /\ UNCHANGED <<turnAt, appends, upsets>> /\ trim[n] = "yield"
        /\ \E p \in {"save", "enrich", "over"} : trim' = [trim EXCEPT ![n] = p]
        /\ chatLock' \in {0, chatLock}
    BY <1>9 DEF Yield, NextChunk
  <2>2. QED
    BY <2>1
<1>10. ASSUME NEW n \in Numbers, HandOver(n) PROVE L2Control'
  BY <1>10 DEF HandOver
<1>11. ASSUME NEW n \in Numbers, TrimFails(n) PROVE L2Control'
  BY <1>11 DEF TrimFails
<1>12. CASE L2Restart
  BY <1>12 DEF L2Restart
<1>13. CASE Expire
  BY <1>13 DEF Expire
<1>14. CASE UNCHANGED l2vars
  BY <1>14 DEF l2vars
<1>15. QED
  BY <1>1, <1>2, <1>3, <1>4, <1>5, <1>6, <1>7, <1>8, <1>9, <1>10, <1>11, <1>12, <1>13, <1>14 DEF L2Next

(* ... and the lock with the one who is at work. *)
LEMMA LocksKept == L2Inv /\ [L2Next]_l2vars => L2Locks'
<1> SUFFICES ASSUME L2Inv, [L2Next]_l2vars PROVE L2Locks'
  OBVIOUS
<1> USE L2Constants DEF L2Inv, L2Control, L2Locks, Begun, Upset
<1>1. CASE BeginAppend
  BY <1>1 DEF BeginAppend
<1>2. CASE LockForAppend
  BY <1>2 DEF LockForAppend
<1>3. CASE LoadForAppend
  BY <1>3 DEF LoadForAppend
<1>4. CASE SaveAppended
  BY <1>4 DEF SaveAppended
<1>5. CASE AppendFails
  BY <1>5 DEF AppendFails
<1>6. ASSUME NEW n \in Numbers, LockForTrim(n) PROVE L2Locks'
  BY <1>6 DEF LockForTrim
<1>7. ASSUME NEW n \in Numbers, LoadForTrim(n) PROVE L2Locks'
  <2>1. /\ UNCHANGED <<turnAt, appends, upsets>> /\ trim[n] = "load"
        /\ \/ trim' = [trim EXCEPT ![n] = "save"] /\ chatLock' = chatLock
           \/ \E p \in {"enrich", "over"} : trim' = [trim EXCEPT ![n] = p] /\ chatLock' = 0
    BY <1>7 DEF LoadForTrim, NextChunk
  <2>2. QED
    BY <2>1
<1>8. ASSUME NEW n \in Numbers, SaveTrimmed(n) PROVE L2Locks'
  BY <1>8 DEF SaveTrimmed
<1>9. ASSUME NEW n \in Numbers, Yield(n) PROVE L2Locks'
  <2>1. /\ UNCHANGED <<turnAt, appends, upsets>> /\ trim[n] = "yield"
        /\ \/ trim' = [trim EXCEPT ![n] = "save"] /\ chatLock' = chatLock
           \/ \E p \in {"enrich", "over"} : trim' = [trim EXCEPT ![n] = p] /\ chatLock' = 0
    BY <1>9 DEF Yield, NextChunk
  <2>2. QED
    BY <2>1
<1>10. ASSUME NEW n \in Numbers, HandOver(n) PROVE L2Locks'
  BY <1>10 DEF HandOver
<1>11. ASSUME NEW n \in Numbers, TrimFails(n) PROVE L2Locks'
  BY <1>11 DEF TrimFails
<1>12. CASE L2Restart
  BY <1>12 DEF L2Restart
<1>13. CASE Expire
  BY <1>13 DEF Expire
<1>14. CASE UNCHANGED l2vars
  BY <1>14 DEF l2vars
<1>15. QED
  BY <1>1, <1>2, <1>3, <1>4, <1>5, <1>6, <1>7, <1>8, <1>9, <1>10, <1>11, <1>12, <1>13, <1>14 DEF L2Next

\* What a promotion does with the list it has under way.
ListOf(n) == IF trim[n] = "load" THEN kept ELSE copy
GoneOf(n) == IF trim[n] = "load" THEN <<>> ELSE dropped[n]
Chops(n, size) ==
  /\ copy' = SubSeq(ListOf(n), size + 1, Len(ListOf(n)))
  /\ dropped' = [dropped EXCEPT ![n] = GoneOf(n) \o SubSeq(ListOf(n), 1, size)]
  /\ trim' = [trim EXCEPT ![n] = "save"]
Leaves(n) ==
  /\ trim[n] = "yield" /\ Len(copy) <= MaxKept /\ UNCHANGED <<copy, dropped>> /\ trim' = [trim EXCEPT ![n] = "enrich"]
Passes(n) ==
  /\ trim[n] = "load" /\ Len(kept) < MaxKept + MinSurplus /\ UNCHANGED <<copy, dropped>>
  /\ trim' = [trim EXCEPT ![n] = "over"]

LEMMA TrimEffect ==
  ASSUME L2Inv, NEW n \in Numbers, LoadForTrim(n) \/ Yield(n)
  PROVE  /\ UNCHANGED <<kept, turnAt, handed, appends, upsets, written>> /\ trim[n] \in {"load", "yield"}
         /\ ListOf(n) \in Seq(Msg) /\ GoneOf(n) \in Seq(Msg) /\ Len(ListOf(n)) \in Nat /\ dropped[n] \in Seq(Msg)
         /\ (\E size \in 1 .. Len(ListOf(n)) : Chops(n, size)) \/ Leaves(n) \/ Passes(n)
<1>1. /\ kept \in Seq(Msg) /\ copy \in Seq(Msg) /\ dropped[n] \in Seq(Msg) /\ <<>> \in Seq(Msg)
      /\ Len(kept) \in Nat /\ Len(copy) \in Nat
  BY EmptySeq, LenProperties DEF L2Inv, L2Lists
<1>2. CASE Yield(n)
  <2>1. trim[n] = "yield" /\ ListOf(n) = copy /\ GoneOf(n) = dropped[n] /\ NextChunk(n, copy, dropped[n])
    BY <1>2 DEF Yield, ListOf, GoneOf
  <2>2. CASE \E size \in 1 .. Len(copy) - MaxKept :
              /\ copy' = SubSeq(copy, size + 1, Len(copy))
              /\ dropped' = [dropped EXCEPT ![n] = dropped[n] \o SubSeq(copy, 1, size)]
              /\ trim' = [trim EXCEPT ![n] = "save"] /\ chatLock' = chatLock
    <3>1. PICK size \in 1 .. Len(copy) - MaxKept : Chops(n, size)
      BY <2>1, <2>2 DEF Chops
    <3>2. size \in 1 .. Len(copy)
      BY <1>1, L2Constants
    <3>3. QED
      BY <1>1, <1>2, <2>1, <3>1, <3>2 DEF Yield
  <2>3. CASE Leaves(n)
    BY <1>1, <1>2, <2>1, <2>3 DEF Yield
  <2>4. QED
    BY <1>1, <2>1, <2>2, <2>3, ChunkEffect DEF Leaves
<1>3. CASE LoadForTrim(n)
  <2>1. trim[n] = "load" /\ ListOf(n) = kept /\ GoneOf(n) = <<>>
    BY <1>3 DEF LoadForTrim, ListOf, GoneOf
  <2>2. CASE Len(kept) - MaxKept < MinSurplus
    <3>1. Passes(n) /\ UNCHANGED <<kept, turnAt, handed, appends, upsets, written>>
      BY <1>1, <1>3, <2>2, L2Constants DEF LoadForTrim, Passes, L2Inv
    <3>2. QED
      BY <1>1, <2>1, <3>1
  <2>3. CASE Len(kept) - MaxKept >= MinSurplus
    <3>1. NextChunk(n, kept, <<>>) /\ ~(Len(kept) <= MaxKept)
      BY <1>1, <1>3, <2>3, L2Constants DEF LoadForTrim
    <3>2. PICK size \in 1 .. Len(kept) - MaxKept :
              /\ copy' = SubSeq(kept, size + 1, Len(kept))
              /\ dropped' = [dropped EXCEPT ![n] = <<>> \o SubSeq(kept, 1, size)]
              /\ trim' = [trim EXCEPT ![n] = "save"] /\ chatLock' = chatLock
      BY <1>1, <3>1, ChunkEffect
    <3>3. Chops(n, size) /\ size \in 1 .. Len(kept)
      BY <1>1, <2>1, <3>2, L2Constants DEF Chops
    <3>4. QED
      BY <1>1, <1>3, <2>1, <3>3 DEF LoadForTrim
  <2>4. QED
    BY <1>1, <2>2, <2>3, L2Constants
<1>4. QED
  BY <1>2, <1>3

\* Who holds the lock is alone at work.
LEMMA HolderIsAlone ==
  ASSUME L2Inv
  PROVE  /\ turnAt \in {"load", "save"} => \A n \in Numbers : ~(trim[n] \in {"load", "save", "yield"})
         /\ \A n \in Numbers : trim[n] \in {"load", "save", "yield"} =>
              /\ ~(turnAt \in {"load", "save"})
              /\ \A m \in Numbers : m # n => ~(trim[m] \in {"load", "save", "yield"})
BY L2Constants DEF L2Inv, L2Control, L2Locks

(* A step keeps the lists lists of messages. *)
LEMMA ListsKept == L2Inv /\ [L2Next]_l2vars => L2Lists'
<1> SUFFICES ASSUME L2Inv, [L2Next]_l2vars PROVE L2Lists'
  OBVIOUS
<1> USE DEF L2Inv, L2Lists
<1>1. CASE BeginAppend
  BY <1>1 DEF BeginAppend
<1>2. CASE LockForAppend
  BY <1>2 DEF LockForAppend
<1>3. CASE LoadForAppend
  <2>1. Messages(appends) \in Seq(Msg)
    BY <1>3, MessagesOfATurn DEF LoadForAppend, L2Control, Numbers
  <2>2. kept \o Messages(appends) \in Seq(Msg) /\ written \o Messages(appends) \in Seq(Msg)
    BY <2>1, ConcatProperties
  <2>3. QED
    BY <1>3, <2>2 DEF LoadForAppend
<1>4. CASE SaveAppended
  <2>1. Messages(appends) \in Seq(Msg)
    BY <1>4, MessagesOfATurn DEF SaveAppended, L2Control, Numbers
  <2>2. kept \o Messages(appends) \in Seq(Msg) /\ written \o Messages(appends) \in Seq(Msg)
    BY <2>1, ConcatProperties
  <2>3. QED
    BY <1>4, <2>2 DEF SaveAppended
<1>5. CASE AppendFails
  <2>1. Messages(appends) \in Seq(Msg)
    BY <1>5, MessagesOfATurn DEF AppendFails, L2Control, Numbers
  <2>2. kept \o Messages(appends) \in Seq(Msg) /\ written \o Messages(appends) \in Seq(Msg)
    BY <2>1, ConcatProperties
  <2>3. QED
    BY <1>5, <2>2 DEF AppendFails
<1>6. ASSUME NEW n \in Numbers, LockForTrim(n) PROVE L2Lists'
  BY <1>6 DEF LockForTrim
<1>7. ASSUME NEW n \in Numbers, LoadForTrim(n) PROVE L2Lists'
  <2>1. /\ UNCHANGED <<kept, turnAt, handed, appends, upsets, written>> /\ trim[n] \in {"load", "yield"}
        /\ ListOf(n) \in Seq(Msg) /\ GoneOf(n) \in Seq(Msg) /\ Len(ListOf(n)) \in Nat
        /\ (\E size \in 1 .. Len(ListOf(n)) : Chops(n, size)) \/ Leaves(n) \/ Passes(n)
    BY <1>7, TrimEffect
  <2>2. ASSUME NEW size \in 1 .. Len(ListOf(n)), Chops(n, size) PROVE L2Lists'
    <3>1. /\ SubSeq(ListOf(n), size + 1, Len(ListOf(n))) \in Seq(Msg)
          /\ GoneOf(n) \o SubSeq(ListOf(n), 1, size) \in Seq(Msg)
      BY <2>1, WithoutFirst, FirstOnes, ConcatProperties
    <3>2. QED
      BY <2>1, <2>2, <3>1 DEF Chops
  <2>3. CASE Leaves(n)
    BY <2>1, <2>3 DEF Leaves
  <2>4. CASE Passes(n)
    BY <2>1, <2>4 DEF Passes
  <2>5. QED
    BY <2>1, <2>2, <2>3, <2>4
<1>8. ASSUME NEW n \in Numbers, SaveTrimmed(n) PROVE L2Lists'
  BY <1>8 DEF SaveTrimmed
<1>9. ASSUME NEW n \in Numbers, Yield(n) PROVE L2Lists'
  <2>1. /\ UNCHANGED <<kept, turnAt, handed, appends, upsets, written>> /\ trim[n] \in {"load", "yield"}
        /\ ListOf(n) \in Seq(Msg) /\ GoneOf(n) \in Seq(Msg) /\ Len(ListOf(n)) \in Nat
        /\ (\E size \in 1 .. Len(ListOf(n)) : Chops(n, size)) \/ Leaves(n) \/ Passes(n)
    BY <1>9, TrimEffect
  <2>2. ASSUME NEW size \in 1 .. Len(ListOf(n)), Chops(n, size) PROVE L2Lists'
    <3>1. /\ SubSeq(ListOf(n), size + 1, Len(ListOf(n))) \in Seq(Msg)
          /\ GoneOf(n) \o SubSeq(ListOf(n), 1, size) \in Seq(Msg)
      BY <2>1, WithoutFirst, FirstOnes, ConcatProperties
    <3>2. QED
      BY <2>1, <2>2, <3>1 DEF Chops
  <2>3. CASE Leaves(n)
    BY <2>1, <2>3 DEF Leaves
  <2>4. CASE Passes(n)
    BY <2>1, <2>4 DEF Passes
  <2>5. QED
    BY <2>1, <2>2, <2>3, <2>4
<1>10. ASSUME NEW n \in Numbers, HandOver(n) PROVE L2Lists'
  <2>1. handed \o dropped[n] \in Seq(Msg)
    BY ConcatProperties
  <2>2. QED
    BY <1>10, <2>1 DEF HandOver
<1>11. ASSUME NEW n \in Numbers, TrimFails(n) PROVE L2Lists'
  BY <1>11 DEF TrimFails
<1>12. CASE L2Restart
  BY <1>12 DEF L2Restart
<1>13. CASE Expire
  BY <1>13, EmptySeq DEF Expire
<1>14. CASE UNCHANGED l2vars
  BY <1>14 DEF l2vars
<1>15. QED
  BY <1>1, <1>2, <1>3, <1>4, <1>5, <1>6, <1>7, <1>8, <1>9, <1>10, <1>11, <1>12, <1>13, <1>14 DEF L2Next

(* A step keeps what is in Redis the end of the conversation. *)
LEMMA EndKept == L2Inv /\ [L2Next]_l2vars => EndInv'
<1> SUFFICES ASSUME L2Inv, [L2Next]_l2vars PROVE EndInv'
  OBVIOUS
<1> USE DEF L2Inv, L2Lists, EndInv
<1>1. CASE BeginAppend
  BY <1>1 DEF BeginAppend
<1>2. CASE LockForAppend
  BY <1>2 DEF LockForAppend
<1>3. CASE LoadForAppend
  <2>1. Messages(appends) \in Seq(Msg) /\ \A n \in Numbers : ~(trim[n] \in {"save", "yield"})
    <3>1. appends \in Numbers
      BY <1>3 DEF LoadForAppend, L2Control, Numbers
    <3>2. \A n \in Numbers : ~(trim[n] \in {"save", "yield"})
      BY <1>3, HolderIsAlone DEF LoadForAppend
    <3>3. QED
      BY <3>1, <3>2, MessagesOfATurn
  <2>2. EndOf(kept \o Messages(appends), written \o Messages(appends))
    BY <2>1, EndOfLonger
  <2>3. \A n \in Numbers : trim'[n] \in {"save", "yield"} => trim[n] = trim'[n]
    BY <1>3 DEF LoadForAppend, L2Control
  <2>4. QED
    BY <1>3, <2>1, <2>2, <2>3 DEF LoadForAppend
<1>4. CASE SaveAppended
  <2>1. Messages(appends) \in Seq(Msg) /\ \A n \in Numbers : ~(trim[n] \in {"save", "yield"})
    <3>1. appends \in Numbers
      BY <1>4 DEF SaveAppended, L2Control, Numbers
    <3>2. \A n \in Numbers : ~(trim[n] \in {"save", "yield"})
      BY <1>4, HolderIsAlone DEF SaveAppended
    <3>3. QED
      BY <3>1, <3>2, MessagesOfATurn
  <2>2. EndOf(kept \o Messages(appends), written \o Messages(appends))
    BY <2>1, EndOfLonger
  <2>3. \A n \in Numbers : trim'[n] \in {"save", "yield"} => trim[n] = trim'[n]
    BY <1>4 DEF SaveAppended, L2Control
  <2>4. QED
    BY <1>4, <2>1, <2>2, <2>3 DEF SaveAppended
<1>5. CASE AppendFails
  <2>1. Messages(appends) \in Seq(Msg) /\ \A n \in Numbers : ~(trim[n] \in {"save", "yield"})
    BY <1>5, MessagesOfATurn, HolderIsAlone DEF AppendFails, L2Control, Numbers
  <2>2. EndOf(kept \o Messages(appends), written \o Messages(appends))
    BY <2>1, EndOfLonger
  <2>3. \A n \in Numbers : trim'[n] \in {"save", "yield"} => trim[n] = trim'[n]
    BY <1>5 DEF AppendFails, L2Control
  <2>4. QED
    BY <1>5, <2>1, <2>2, <2>3 DEF AppendFails
<1>6. ASSUME NEW n \in Numbers, LockForTrim(n) PROVE EndInv'
  BY <1>6, L2Constants DEF LockForTrim, L2Locks, L2Control
<1>7. ASSUME NEW n \in Numbers, LoadForTrim(n) PROVE EndInv'
  <2>1. /\ UNCHANGED <<kept, turnAt, handed, appends, upsets, written>> /\ trim[n] \in {"load", "yield"}
        /\ ListOf(n) \in Seq(Msg) /\ GoneOf(n) \in Seq(Msg) /\ Len(ListOf(n)) \in Nat
        /\ (\E size \in 1 .. Len(ListOf(n)) : Chops(n, size)) \/ Leaves(n) \/ Passes(n)
    BY <1>7, TrimEffect
  <2>2. ASSUME NEW size \in 1 .. Len(ListOf(n)), Chops(n, size) PROVE EndInv'
    <3>1. EndOf(ListOf(n), written)
      BY <1>7, <2>1 DEF ListOf
    <3>2. EndOf(copy', written)
      BY <2>1, <2>2, <3>1, EndOfShorter DEF Chops
    <3>3. turnAt' # "save"
      BY <2>1, HolderIsAlone
    <3>4. QED
      BY <2>1, <2>2, <3>2, <3>3 DEF Chops
  <2>3. CASE Leaves(n)
    BY <2>1, <2>3 DEF Leaves
  <2>4. CASE Passes(n)
    BY <2>1, <2>4 DEF Passes
  <2>5. QED
    BY <2>1, <2>2, <2>3, <2>4
<1>8. ASSUME NEW n \in Numbers, SaveTrimmed(n) PROVE EndInv'
  BY <1>8, L2Constants DEF SaveTrimmed, L2Locks, L2Control
<1>9. ASSUME NEW n \in Numbers, Yield(n) PROVE EndInv'
  <2>1. /\ UNCHANGED <<kept, turnAt, handed, appends, upsets, written>> /\ trim[n] \in {"load", "yield"}
        /\ ListOf(n) \in Seq(Msg) /\ GoneOf(n) \in Seq(Msg) /\ Len(ListOf(n)) \in Nat
        /\ (\E size \in 1 .. Len(ListOf(n)) : Chops(n, size)) \/ Leaves(n) \/ Passes(n)
    BY <1>9, TrimEffect
  <2>2. ASSUME NEW size \in 1 .. Len(ListOf(n)), Chops(n, size) PROVE EndInv'
    <3>1. EndOf(ListOf(n), written)
      BY <1>9, <2>1 DEF ListOf
    <3>2. EndOf(copy', written)
      BY <2>1, <2>2, <3>1, EndOfShorter DEF Chops
    <3>3. turnAt' # "save"
      BY <2>1, HolderIsAlone
    <3>4. QED
      BY <2>1, <2>2, <3>2, <3>3 DEF Chops
  <2>3. CASE Leaves(n)
    BY <2>1, <2>3 DEF Leaves
  <2>4. CASE Passes(n)
    BY <2>1, <2>4 DEF Passes
  <2>5. QED
    BY <2>1, <2>2, <2>3, <2>4
<1>10. ASSUME NEW n \in Numbers, HandOver(n) PROVE EndInv'
  BY <1>10 DEF HandOver
<1>11. ASSUME NEW n \in Numbers, TrimFails(n) PROVE EndInv'
  BY <1>11 DEF TrimFails
<1>12. CASE L2Restart
  BY <1>12 DEF L2Restart
<1>13. CASE Expire
  <2>1. EndOf(<<>>, written)
    <3>1. Len(written) \in Nat /\ Len(<<>>) = 0
      BY LenProperties, EmptySeq
    <3>2. QED
      BY <3>1 DEF EndOf
  <2>2. QED
    BY <1>13, <2>1 DEF Expire
<1>14. CASE UNCHANGED l2vars
  BY <1>14 DEF l2vars
<1>15. QED
  BY <1>1, <1>2, <1>3, <1>4, <1>5, <1>6, <1>7, <1>8, <1>9, <1>10, <1>11, <1>12, <1>13, <1>14 DEF L2Next

LEMMA TwoMore ==
  ASSUME NEW w \in Seq(Msg), NEW m \in Seq(Msg), Len(m) = 2
  PROVE  /\ Len(w \o m) = Len(w) + 2
         /\ \A i \in 1 .. Len(w) + 2 : (w \o m)[i] = IF i <= Len(w) THEN w[i] ELSE m[i - Len(w)]
<1>1. /\ Len(w \o m) = Len(w) + Len(m)
      /\ \A i \in 1 .. Len(w) + Len(m) : (w \o m)[i] = IF i <= Len(w) THEN w[i] ELSE m[i - Len(w)]
  BY ConcatProperties
<1>2. QED
  BY <1>1

LEMMA NoUpsetBefore == L2Inv /\ [L2Next]_l2vars /\ upsets' = 0 => upsets = 0
<1> SUFFICES ASSUME L2Inv, [L2Next]_l2vars, upsets' = 0 PROVE upsets = 0
  OBVIOUS
<1>1. upsets' = upsets \/ Upset
  BY DEF L2Next, l2vars, BeginAppend, LockForAppend, LoadForAppend, SaveAppended, AppendFails, LockForTrim,
         LoadForTrim, SaveTrimmed, Yield, HandOver, TrimFails, L2Restart, Expire
<1>2. QED
  BY <1>1 DEF Upset, L2Inv, L2Control

(* Without upsets a step keeps the count of the conversation ... *)
LEMMA CountKept == L2Inv /\ [L2Next]_l2vars /\ upsets' = 0 => CountInv'
<1> SUFFICES ASSUME L2Inv, [L2Next]_l2vars, upsets' = 0 PROVE CountInv'
  OBVIOUS
<1>0. upsets = 0 /\ CountInv /\ TrimInv /\ DueInv
  BY NoUpsetBefore DEF L2Inv
<1> USE DEF L2Inv, CountInv, Begun, L2Control
<1>1. CASE BeginAppend
  BY <1>0, <1>1 DEF BeginAppend, L2Control
<1>2. CASE LockForAppend
  BY <1>0, <1>2 DEF LockForAppend
<1>3. CASE LoadForAppend
  BY <1>0, <1>3, HolderIsAlone DEF LoadForAppend
<1>4. CASE SaveAppended
  <2>1. appends \in Numbers /\ appends \in Nat /\ turnAt = "save" /\ Len(written) \in Nat
    BY <1>4, LenProperties DEF SaveAppended, L2Control, Numbers, L2Lists
  <2>2. Messages(appends) \in Seq(Msg) /\ Len(Messages(appends)) = 2
        /\ Messages(appends)[1] = 2 * appends - 1 /\ Messages(appends)[2] = 2 * appends
    BY <2>1, MessagesOfATurn
  <2>3. written \in Seq(Msg) /\ Len(written) = 2 * (appends - 1)
    BY <1>0, <2>1 DEF L2Lists
  <2>4. /\ Len(written') = Len(written) + 2
        /\ \A i \in 1 .. Len(written) + 2 : written'[i] = IF i <= Len(written) THEN written[i] ELSE Messages(appends)[i - Len(written)]
    <3>1. written' = written \o Messages(appends)
      BY <1>4 DEF SaveAppended
    <3>2. QED
      BY <2>2, <2>3, <3>1, TwoMore
  <2>5. ASSUME NEW i \in 1 .. Len(written) + 2 PROVE written'[i] = i
    <3>1. CASE i <= Len(written)
      BY <1>0, <2>4, <3>1
    <3>2. CASE i = Len(written) + 1
      BY <2>1, <2>2, <2>3, <2>4, <3>2
    <3>3. CASE i = Len(written) + 2
      BY <2>1, <2>2, <2>3, <2>4, <3>3
    <3>4. QED
      BY <2>1, <3>1, <3>2, <3>3
  <2>6. \A m \in Numbers : trim'[m] # "yield"
    BY <1>4, <2>1, HolderIsAlone DEF SaveAppended, L2Control
  <2>7. Len(written') = 2 * Begun' /\ turnAt' = "idle"
    BY <1>4, <2>1, <2>3, <2>4 DEF SaveAppended
  <2>8. QED
    BY <2>4, <2>5, <2>6, <2>7
<1>5. CASE AppendFails
  BY <1>0, <1>5 DEF AppendFails, Upset
<1>6. ASSUME NEW n \in Numbers, LockForTrim(n) PROVE CountInv'
  BY <1>0, <1>6 DEF LockForTrim
<1>7. ASSUME NEW n \in Numbers, LoadForTrim(n) PROVE CountInv'
  <2>1. UNCHANGED <<kept, turnAt, handed, appends, upsets, written>> /\ trim[n] \in {"load", "yield"}
    BY <1>7, TrimEffect
  <2>2. \E p \in {"save", "enrich", "over"} : trim' = [trim EXCEPT ![n] = p]
    BY <1>7, TrimEffect DEF Chops, Leaves, Passes
  <2>3. turnAt' # "save" /\ \A m \in Numbers : trim'[m] # "yield"
    BY <2>1, <2>2, HolderIsAlone DEF L2Control
  <2>4. QED
    BY <1>0, <2>1, <2>3
<1>8. ASSUME NEW n \in Numbers, SaveTrimmed(n) PROVE CountInv'
  <2>1. turnAt' # "save" /\ turnAt # "save" /\ \A m \in Numbers : m # n => trim'[m] # "yield"
    BY <1>8, HolderIsAlone DEF SaveTrimmed, L2Control
  <2>2. QED
    BY <1>0, <1>8, <2>1 DEF SaveTrimmed
<1>9. ASSUME NEW n \in Numbers, Yield(n) PROVE CountInv'
  <2>1. UNCHANGED <<kept, turnAt, handed, appends, upsets, written>> /\ trim[n] \in {"load", "yield"}
    BY <1>9, TrimEffect
  <2>2. \E p \in {"save", "enrich", "over"} : trim' = [trim EXCEPT ![n] = p]
    BY <1>9, TrimEffect DEF Chops, Leaves, Passes
  <2>3. turnAt' # "save" /\ \A m \in Numbers : trim'[m] # "yield"
    BY <2>1, <2>2, HolderIsAlone DEF L2Control
  <2>4. QED
    BY <1>0, <2>1, <2>3
<1>10. ASSUME NEW n \in Numbers, HandOver(n) PROVE CountInv'
  BY <1>0, <1>10 DEF HandOver
<1>11. ASSUME NEW n \in Numbers, TrimFails(n) PROVE CountInv'
  BY <1>0, <1>11 DEF TrimFails, Upset
<1>12. CASE L2Restart
  BY <1>0, <1>12 DEF L2Restart, Upset
<1>13. CASE Expire
  BY <1>0, <1>13 DEF Expire, Upset
<1>14. CASE UNCHANGED l2vars
  BY <1>0, <1>14 DEF l2vars
<1>15. QED
  BY <1>1, <1>2, <1>3, <1>4, <1>5, <1>6, <1>7, <1>8, <1>9, <1>10, <1>11, <1>12, <1>13, <1>14 DEF L2Next

(* ... and a task for a list that is too long. *)
LEMMA DueKept == L2Inv /\ [L2Next]_l2vars /\ upsets' = 0 => DueInv'
<1> SUFFICES ASSUME L2Inv, [L2Next]_l2vars, upsets' = 0 PROVE DueInv'
  OBVIOUS
<1>0. upsets = 0 /\ CountInv /\ TrimInv /\ DueInv
  BY NoUpsetBefore DEF L2Inv
<1> USE DEF L2Inv, DueInv
<1>1. CASE BeginAppend
  BY <1>0, <1>1 DEF BeginAppend
<1>2. CASE LockForAppend
  BY <1>0, <1>2 DEF LockForAppend
<1>3. CASE LoadForAppend
  BY <1>0, <1>3 DEF LoadForAppend
<1>4. CASE SaveAppended
  <2>1. appends \in Numbers /\ trim'[appends] = "lock"
    BY <1>4 DEF SaveAppended, L2Control, Numbers
  <2>2. QED
    BY <2>1
<1>5. CASE AppendFails
  BY <1>0, <1>5 DEF AppendFails, Upset
<1>6. ASSUME NEW n \in Numbers, LockForTrim(n) PROVE DueInv'
  <2>1. trim'[n] = "load"
    BY <1>6 DEF LockForTrim, L2Control
  <2>2. QED
    BY <2>1
<1>7. ASSUME NEW n \in Numbers, LoadForTrim(n) PROVE DueInv'
  <2>1. /\ UNCHANGED <<kept, turnAt, handed, appends, upsets, written>> /\ trim[n] \in {"load", "yield"}
        /\ ListOf(n) \in Seq(Msg) /\ GoneOf(n) \in Seq(Msg) /\ Len(ListOf(n)) \in Nat
        /\ (\E size \in 1 .. Len(ListOf(n)) : Chops(n, size)) \/ Leaves(n) \/ Passes(n)
    BY <1>7, TrimEffect
  <2>2. ASSUME NEW size \in 1 .. Len(ListOf(n)), Chops(n, size) PROVE DueInv'
    <3>1. trim'[n] = "save"
      BY <2>2 DEF Chops, L2Control
    <3>2. QED
      BY <3>1
  <2>3. CASE Leaves(n)
    <3>1. Len(kept) <= MaxKept /\ kept' = kept /\ Len(kept) \in Nat
      BY <1>0, <2>1, <2>3, LenProperties DEF Leaves, CountInv, L2Lists
    <3>2. QED
      BY <3>1, L2Constants
  <2>4. CASE Passes(n)
    BY <2>1, <2>4 DEF Passes
  <2>5. QED
    BY <2>1, <2>2, <2>3, <2>4
<1>8. ASSUME NEW n \in Numbers, SaveTrimmed(n) PROVE DueInv'
  <2>1. trim'[n] = "yield"
    BY <1>8 DEF SaveTrimmed, L2Control
  <2>2. QED
    BY <2>1
<1>9. ASSUME NEW n \in Numbers, Yield(n) PROVE DueInv'
  <2>1. /\ UNCHANGED <<kept, turnAt, handed, appends, upsets, written>> /\ trim[n] \in {"load", "yield"}
        /\ ListOf(n) \in Seq(Msg) /\ GoneOf(n) \in Seq(Msg) /\ Len(ListOf(n)) \in Nat
        /\ (\E size \in 1 .. Len(ListOf(n)) : Chops(n, size)) \/ Leaves(n) \/ Passes(n)
    BY <1>9, TrimEffect
  <2>2. ASSUME NEW size \in 1 .. Len(ListOf(n)), Chops(n, size) PROVE DueInv'
    <3>1. trim'[n] = "save"
      BY <2>2 DEF Chops, L2Control
    <3>2. QED
      BY <3>1
  <2>3. CASE Leaves(n)
    <3>1. Len(kept) <= MaxKept /\ kept' = kept /\ Len(kept) \in Nat
      BY <1>0, <2>1, <2>3, LenProperties DEF Leaves, CountInv, L2Lists
    <3>2. QED
      BY <3>1, L2Constants
  <2>4. CASE Passes(n)
    BY <2>1, <2>4 DEF Passes
  <2>5. QED
    BY <2>1, <2>2, <2>3, <2>4
<1>10. ASSUME NEW n \in Numbers, HandOver(n) PROVE DueInv'
  <2>1. trim[n] = "enrich" /\ \A m \in Numbers : m # n => trim'[m] = trim[m]
    BY <1>10 DEF HandOver, L2Control
  <2>2. QED
    BY <1>0, <1>10, <2>1 DEF HandOver
<1>11. ASSUME NEW n \in Numbers, TrimFails(n) PROVE DueInv'
  BY <1>0, <1>11 DEF TrimFails, Upset
<1>12. CASE L2Restart
  BY <1>0, <1>12 DEF L2Restart, Upset
<1>13. CASE Expire
  BY <1>0, <1>13 DEF Expire, Upset
<1>14. CASE UNCHANGED l2vars
  BY <1>0, <1>14 DEF l2vars
<1>15. QED
  BY <1>1, <1>2, <1>3, <1>4, <1>5, <1>6, <1>7, <1>8, <1>9, <1>10, <1>11, <1>12, <1>13, <1>14 DEF L2Next

-----------------------------------------------------------------------------
(* The account of what was dropped.                                        *)

LEMMA ChunkOfTheEnd ==
  ASSUME NEW w \in Seq(Msg), NEW list \in Seq(Msg), EndOf(list, w), \A i \in 1 .. Len(w) : w[i] = i,
         NEW size \in 1 .. Len(list)
  PROVE  /\ Once(SubSeq(list, 1, size))
         /\ Elements(SubSeq(list, 1, size)) = Len(w) - Len(list) + 1 .. Len(w) - Len(list) + size
<1> DEFINE c == SubSeq(list, 1, size)
           g == Len(w) - Len(list)
<1>1. Len(list) \in Nat /\ Len(w) \in Nat /\ size \in 0 .. Len(list) /\ g \in Nat
  BY LenProperties DEF EndOf
<1>2. c \in Seq(Msg) /\ Len(c) = size /\ DOMAIN c = 1 .. size /\ \A i \in 1 .. size : c[i] = list[i]
  BY <1>1, FirstOnes, LenProperties
<1>3. ASSUME NEW i \in 1 .. size PROVE c[i] = g + i
  <2>1. i \in 1 .. Len(list) /\ g + i \in 1 .. Len(w)
    BY <1>1 DEF EndOf
  <2>2. QED
    BY <1>2, <2>1 DEF EndOf
<1> HIDE DEF c, g
<1>4. Once(c)
  BY <1>1, <1>2, <1>3 DEF Once
<1>5. Elements(c) = g + 1 .. g + size
  <2>1. \A x \in g + 1 .. g + size : x - g \in 1 .. size /\ c[x - g] = x
    BY <1>1, <1>3
  <2>2. \A i \in 1 .. size : c[i] \in g + 1 .. g + size
    BY <1>1, <1>3
  <2>3. QED
    BY <1>2, <2>1, <2>2 DEF Elements
<1>6. QED
  BY <1>4, <1>5 DEF c, g

LEMMA GoneIsKnown ==
  ASSUME L2Inv, upsets = 0
  PROVE  /\ Gone \in Nat /\ Gone <= Len(written)
         /\ \A n \in Numbers : Trimming(n) => Gone = Len(written) - Len(copy)
         /\ (\A n \in Numbers : ~Trimming(n)) => Gone = Len(written) - Len(kept)
<1>1. Len(written) \in Nat /\ Len(kept) \in Nat /\ Len(copy) \in Nat
  BY LenProperties DEF L2Inv, L2Lists
<1>2. Len(kept) <= Len(written) /\ \A n \in Numbers : Trimming(n) => Len(copy) <= Len(written)
  BY DEF L2Inv, EndInv, EndOf, Trimming
<1>3. CASE \E n \in Numbers : Trimming(n)
  BY <1>1, <1>2, <1>3 DEF Gone
<1>4. CASE ~\E n \in Numbers : Trimming(n)
  BY <1>1, <1>2, <1>4 DEF Gone
<1>5. QED
  BY <1>3, <1>4

\* What one who holds the list has dropped so far.
LEMMA HeldList ==
  ASSUME L2Inv, upsets = 0, NEW n \in Numbers, trim[n] \in {"load", "yield"}
  PROVE  /\ Gone = Len(written) - Len(ListOf(n)) /\ EndOf(ListOf(n), written) /\ GoneOf(n) = dropped[n]
         /\ Once(dropped[n]) /\ Elements(dropped[n]) \subseteq 1 .. Gone /\ Elements(dropped[n]) \cap Elements(handed) = {}
         /\ \A m \in Numbers : m # n /\ Carries(m) => Elements(dropped[m]) \cap Elements(dropped[n]) = {}
         /\ \A m \in Numbers : m # n => ~Trimming(m)
<1>1. TrimInv /\ EndInv
  BY DEF L2Inv
<1>2. \A m \in Numbers : m # n => ~Trimming(m)
  BY HolderIsAlone DEF Trimming
<1>3. CASE trim[n] = "load"
  <2>1. dropped[n] = <<>> /\ ListOf(n) = kept /\ GoneOf(n) = dropped[n]
    BY <1>1, <1>3 DEF TrimInv, ListOf, GoneOf
  <2>2. Once(<<>>) /\ Elements(<<>>) = {}
    BY DEF Once, Elements
  <2>3. \A m \in Numbers : ~Trimming(m)
    BY <1>2, <1>3 DEF Trimming
  <2>4. QED
    BY <1>1, <1>2, <2>1, <2>2, <2>3, GoneIsKnown DEF EndInv
<1>4. CASE trim[n] = "yield"
  <2>1. Trimming(n) /\ Carries(n) /\ ListOf(n) = copy /\ GoneOf(n) = dropped[n] /\ EndOf(copy, written)
    BY <1>1, <1>4 DEF Trimming, Carries, ListOf, GoneOf, EndInv
  <2>2. QED
    BY <1>1, <1>2, <2>1, GoneIsKnown DEF TrimInv
<1>5. QED
  BY <1>3, <1>4

\* Nothing was dropped and nothing handed over: the account is as it was.
LEMMA SameAccount ==
  ASSUME TrimInv, Gone' = Gone, UNCHANGED handed, \A n \in Numbers : Carries(n)' <=> Carries(n),
         \A n \in Numbers : (Carries(n) => dropped'[n] = dropped[n]) /\
                            (trim'[n] \in {"none", "lock", "load"} => dropped'[n] = <<>>)
  PROVE  TrimInv'
BY DEF TrimInv

\* A chunk is dropped: it follows what is gone, and joins what its task carries.
LEMMA ChopKeepsAccount ==
  ASSUME L2Inv, upsets = 0, NEW n \in Numbers, trim[n] \in {"load", "yield"},
         NEW size \in 1 .. Len(ListOf(n)), Chops(n, size), UNCHANGED <<handed, written>>
  PROVE  TrimInv'
<1> DEFINE c == SubSeq(ListOf(n), 1, size)
<1>1. /\ ListOf(n) \in Seq(Msg) /\ dropped[n] \in Seq(Msg) /\ written \in Seq(Msg) /\ handed \in Seq(Msg)
      /\ dropped \in [Numbers -> Seq(Msg)] /\ trim \in [Numbers -> {"none", "lock", "load", "save", "yield", "enrich", "over"}]
      /\ CountInv /\ TrimInv
  BY DEF L2Inv, L2Lists, L2Control, ListOf
<1>2. Len(ListOf(n)) \in Nat /\ Len(written) \in Nat /\ size \in Nat /\ size \in 0 .. Len(ListOf(n)) /\ Gone \in Nat
  BY <1>1, LenProperties, GoneIsKnown
<1>3. Gone = Len(written) - Len(ListOf(n))
  BY HeldList
<1>4. c \in Seq(Msg) /\ Once(c) /\ Elements(c) = Gone + 1 .. Gone + size
  <2>1. c \in Seq(Msg)
    BY <1>1, <1>2, FirstOnes
  <2>2. EndOf(ListOf(n), written) /\ \A i \in 1 .. Len(written) : written[i] = i
    BY <1>1, HeldList DEF CountInv
  <2>3. Once(c) /\ Elements(c) = Len(written) - Len(ListOf(n)) + 1 .. Len(written) - Len(ListOf(n)) + size
    <3>1. ListOf(n) \in Seq(Msg) /\ written \in Seq(Msg)
      BY <1>1
    <3>2. QED
      BY <2>2, <3>1, ChunkOfTheEnd
  <2>4. QED
    BY <1>3, <2>1, <2>3
<1>5. /\ trim'[n] = "save" /\ dropped'[n] = dropped[n] \o c
      /\ \A m \in Numbers : m # n => trim'[m] = trim[m] /\ dropped'[m] = dropped[m]
  BY <1>1, HeldList DEF Chops
<1>6. Gone' = Gone + size
  <2>1. Len(copy') = Len(ListOf(n)) - size
    BY <1>1, <1>2, WithoutFirst DEF Chops
  <2>2. Gone' = Len(written) - Len(copy')
    BY <1>5 DEF Gone, Trimming
  <2>3. QED
    BY <1>2, <1>3, <2>1, <2>2
<1> HIDE DEF c
<1>7. \A x \in 1 .. Gone : ~(x \in Elements(c)) /\ x \in 1 .. Gone'
  BY <1>2, <1>4, <1>6
<1>8. /\ Elements(dropped[n]) \subseteq 1 .. Gone /\ Elements(handed) \subseteq 1 .. Gone
      /\ \A m \in Numbers : m # n /\ Carries(m) => Elements(dropped[m]) \subseteq 1 .. Gone
  BY <1>1, HeldList DEF TrimInv
<1>9. Elements(dropped'[n]) = Elements(dropped[n]) \cup Elements(c) /\ Once(dropped'[n])
  <2>1. Elements(dropped[n]) \cap Elements(c) = {}
    BY <1>7, <1>8
  <2>2. QED
    BY <1>1, <1>4, <1>5, <2>1, HeldList, ElementsOfBoth
<1>10. Elements(c) \subseteq 1 .. Gone'
  BY <1>2, <1>4, <1>6
<1>11. \A m \in Numbers : m # n => (Carries(m)' <=> Carries(m))
  BY <1>5 DEF Carries
<1>12. Carries(n)'
  BY <1>5 DEF Carries
<1>13. \A m \in Numbers : trim'[m] \in {"none", "lock", "load"} => dropped'[m] = <<>>
  BY <1>1, <1>5 DEF TrimInv
<1>14. Once(handed') /\ Elements(handed') \subseteq 1 .. Gone'
  BY <1>1, <1>7, <1>8 DEF TrimInv
<1>15. ASSUME NEW m \in Numbers, Carries(m)'
       PROVE  /\ Once(dropped'[m]) /\ Elements(dropped'[m]) \subseteq 1 .. Gone'
              /\ Elements(dropped'[m]) \cap Elements(handed') = {}
  <2>1. CASE m = n
    BY <2>1, <1>7, <1>8, <1>9, <1>10, HeldList
  <2>2. CASE m # n
    BY <2>2, <1>1, <1>5, <1>7, <1>8, <1>11, <1>15 DEF TrimInv
  <2>3. QED
    BY <2>1, <2>2
<1>16. ASSUME NEW l \in Numbers, NEW m \in Numbers, Carries(l)', Carries(m)', l # m
       PROVE  Elements(dropped'[l]) \cap Elements(dropped'[m]) = {}
  <2>1. \A k \in Numbers : k # n /\ Carries(k) => Elements(dropped[k]) \cap Elements(dropped'[n]) = {}
    BY <1>7, <1>8, <1>9, HeldList
  <2>2. CASE l = n \/ m = n
    BY <2>1, <2>2, <1>5, <1>11, <1>16
  <2>3. CASE l # n /\ m # n
    BY <2>3, <1>1, <1>5, <1>11, <1>16 DEF TrimInv
  <2>4. QED
    BY <2>2, <2>3
<1>17. ASSUME NEW x \in 1 .. Gone'
       PROVE  x \in Elements(handed') \/ \E m \in Numbers : Carries(m)' /\ x \in Elements(dropped'[m])
  <2>1. x \in 1 .. Gone \/ x \in Elements(c)
    BY <1>2, <1>4, <1>6
  <2>2. CASE x \in Elements(c)
    BY <2>2, <1>9, <1>12
  <2>3. CASE x \in 1 .. Gone
    <3>1. x \in Elements(handed) \/ \E m \in Numbers : Carries(m) /\ x \in Elements(dropped[m])
      BY <1>1, <2>3 DEF TrimInv
    <3>2. QED
      BY <3>1, <1>5, <1>9, <1>11, <1>12
  <2>4. QED
    BY <2>1, <2>2, <2>3
<1>18. QED
  BY <1>13, <1>14, <1>15, <1>16, <1>17 DEF TrimInv

\* What a task carries is handed over.
LEMMA HandOverKeepsAccount ==
  ASSUME L2Inv, upsets = 0, NEW n \in Numbers, HandOver(n)
  PROVE  TrimInv'
<1>1. /\ dropped[n] \in Seq(Msg) /\ handed \in Seq(Msg) /\ TrimInv
      /\ trim \in [Numbers -> {"none", "lock", "load", "save", "yield", "enrich", "over"}]
  BY DEF L2Inv, L2Lists, L2Control
<1>2. /\ trim[n] = "enrich" /\ trim'[n] = "over" /\ UNCHANGED dropped /\ handed' = handed \o dropped[n]
      /\ \A m \in Numbers : m # n => trim'[m] = trim[m]
  BY <1>1 DEF HandOver
<1>3. Carries(n) /\ ~Carries(n)' /\ \A m \in Numbers : m # n => (Carries(m)' <=> Carries(m))
  BY <1>2 DEF Carries
<1>4. Gone' = Gone
  <2>1. \A m \in Numbers : Trimming(m)' <=> Trimming(m)
    BY <1>2 DEF Trimming
  <2>2. QED
    BY <2>1 DEF Gone, HandOver
<1>5. Elements(handed') = Elements(handed) \cup Elements(dropped[n]) /\ Once(handed')
  BY <1>1, <1>2, <1>3, ElementsOfBoth DEF TrimInv
<1>6. \A m \in Numbers : trim'[m] \in {"none", "lock", "load"} => dropped'[m] = <<>>
  BY <1>1, <1>2 DEF TrimInv
<1>7. Elements(handed') \subseteq 1 .. Gone
  BY <1>1, <1>3, <1>5 DEF TrimInv
<1>8. ASSUME NEW m \in Numbers, Carries(m)'
      PROVE  /\ Once(dropped[m]) /\ Elements(dropped[m]) \subseteq 1 .. Gone
             /\ Elements(dropped[m]) \cap Elements(handed') = {} /\ m # n
  BY <1>1, <1>3, <1>5, <1>8 DEF TrimInv
<1>9. \A l, m \in Numbers : Carries(l)' /\ Carries(m)' /\ l # m => Elements(dropped[l]) \cap Elements(dropped[m]) = {}
  BY <1>1, <1>3 DEF TrimInv
<1>10. \A x \in 1 .. Gone : x \in Elements(handed') \/ \E m \in Numbers : Carries(m)' /\ x \in Elements(dropped[m])
  BY <1>1, <1>3, <1>5 DEF TrimInv
<1>11. QED
  BY <1>2, <1>4, <1>5, <1>6, <1>7, <1>8, <1>9, <1>10 DEF TrimInv

\* A step keeps the account of what was dropped.
LEMMA AccountKept == L2Inv /\ [L2Next]_l2vars /\ upsets' = 0 => TrimInv'
<1> SUFFICES ASSUME L2Inv, [L2Next]_l2vars, upsets' = 0 PROVE TrimInv'
  OBVIOUS
<1>0. upsets = 0 /\ CountInv /\ TrimInv /\ DueInv
  BY NoUpsetBefore DEF L2Inv
<1>1. CASE BeginAppend
  <2>1. \A m \in Numbers : (Trimming(m)' <=> Trimming(m)) /\ (Carries(m)' <=> Carries(m))
    BY <1>1 DEF BeginAppend, Trimming, Carries, L2Inv, L2Control
  <2>2. Gone' = Gone
    BY <1>1, <2>1 DEF Gone, BeginAppend
  <2>3. QED
    BY <1>0, <1>1, <2>1, <2>2, SameAccount DEF BeginAppend, TrimInv, L2Inv, L2Control
<1>2. CASE LockForAppend
  <2>1. \A m \in Numbers : (Trimming(m)' <=> Trimming(m)) /\ (Carries(m)' <=> Carries(m))
    BY <1>2 DEF LockForAppend, Trimming, Carries, L2Inv, L2Control
  <2>2. Gone' = Gone
    BY <1>2, <2>1 DEF Gone, LockForAppend
  <2>3. QED
    BY <1>0, <1>2, <2>1, <2>2, SameAccount DEF LockForAppend, TrimInv, L2Inv, L2Control
<1>3. CASE LoadForAppend
  <2>1. \A m \in Numbers : ~Trimming(m) /\ ~Trimming(m)' /\ (Carries(m)' <=> Carries(m))
    BY <1>3, HolderIsAlone DEF LoadForAppend, Trimming, Carries
  <2>2. Gone' = Gone
    BY <1>3, <2>1 DEF Gone, LoadForAppend
  <2>3. QED
    BY <1>0, <1>3, <2>1, <2>2, SameAccount DEF LoadForAppend, TrimInv
<1>4. CASE SaveAppended
  <2>1. /\ turnAt = "save" /\ appends \in Numbers /\ appends \in Nat /\ kept' = kept \o Messages(appends)
        /\ written' = written \o Messages(appends) /\ trim[appends] = "none" /\ UNCHANGED <<dropped, handed>>
        /\ trim' = [trim EXCEPT ![appends] = "lock"]
    BY <1>0, <1>4 DEF SaveAppended, L2Inv, L2Control, CountInv, Begun, Numbers
  <2>2. /\ written \in Seq(Msg) /\ kept \in Seq(Msg) /\ Len(written) \in Nat /\ Len(kept) \in Nat
        /\ Messages(appends) \in Seq(Msg) /\ Len(Messages(appends)) = 2
    BY <2>1, MessagesOfATurn, LenProperties DEF L2Inv, L2Lists
  <2>3. Len(kept') = Len(kept) + 2 /\ Len(written') = Len(written) + 2
    BY <2>1, <2>2, TwoMore
  <2>4. \A m \in Numbers : ~Trimming(m) /\ ~Trimming(m)' /\ (Carries(m)' <=> Carries(m)) /\ (m # appends => trim'[m] = trim[m])
    BY <2>1, HolderIsAlone DEF Trimming, Carries, L2Inv, L2Control
  <2>5. Gone = Len(written) - Len(kept) /\ Gone' = Len(written') - Len(kept')
    BY <2>4 DEF Gone
  <2>6. Gone' = Gone
    BY <2>2, <2>3, <2>5
  <2>7. QED
    BY <1>0, <2>1, <2>4, <2>6, SameAccount DEF TrimInv
<1>5. CASE AppendFails
  BY <1>0, <1>5 DEF AppendFails, Upset
<1>6. ASSUME NEW n \in Numbers, LockForTrim(n) PROVE TrimInv'
  <2>1. \A m \in Numbers : (Trimming(m)' <=> Trimming(m)) /\ (Carries(m)' <=> Carries(m))
    BY <1>6 DEF LockForTrim, Trimming, Carries, L2Inv, L2Control
  <2>2. Gone' = Gone
    BY <1>6, <2>1 DEF Gone, LockForTrim
  <2>3. QED
    BY <1>0, <1>6, <2>1, <2>2, SameAccount DEF LockForTrim, TrimInv, L2Inv, L2Control
<1>7. ASSUME NEW n \in Numbers, LoadForTrim(n) PROVE TrimInv'
  <2>1. /\ UNCHANGED <<kept, turnAt, handed, appends, upsets, written>> /\ trim[n] \in {"load", "yield"}
        /\ ListOf(n) \in Seq(Msg) /\ GoneOf(n) \in Seq(Msg) /\ Len(ListOf(n)) \in Nat
        /\ (\E size \in 1 .. Len(ListOf(n)) : Chops(n, size)) \/ Leaves(n) \/ Passes(n)
    BY <1>7, TrimEffect
  <2>2. ASSUME NEW size \in 1 .. Len(ListOf(n)), Chops(n, size) PROVE TrimInv'
    <3>1. QED
      BY <1>0, <2>1, <2>2, ChopKeepsAccount
  <2>3. CASE Leaves(n)
    <3>1. \A m \in Numbers : (m # n => trim'[m] = trim[m]) /\ ~Trimming(m)' /\ (Carries(m)' <=> Carries(m))
      BY <2>1, <2>3, HeldList, <1>0 DEF Leaves, L2Inv, L2Control, Trimming, Carries
    <3>2. Gone' = Len(written) - Len(kept)
      BY <2>1, <3>1 DEF Gone
    <3>3. Gone' = Gone
      BY <1>0, <2>1, <2>3, <3>2, HeldList DEF Leaves, CountInv, ListOf
    <3>4. QED
      BY <1>0, <2>1, <2>3, <3>1, <3>3, SameAccount DEF Leaves, TrimInv, L2Inv, L2Control
  <2>4. CASE Passes(n)
    <3>1. \A m \in Numbers : (Trimming(m)' <=> Trimming(m)) /\ (Carries(m)' <=> Carries(m))
      BY <2>1, <2>4 DEF Passes, L2Inv, L2Control, Trimming, Carries
    <3>2. Gone' = Gone
      BY <2>1, <2>4, <3>1 DEF Gone, Passes
    <3>3. QED
      BY <1>0, <2>1, <2>4, <3>1, <3>2, SameAccount DEF Passes, TrimInv, L2Inv, L2Control
  <2>5. QED
    BY <2>1, <2>2, <2>3, <2>4
<1>8. ASSUME NEW n \in Numbers, SaveTrimmed(n) PROVE TrimInv'
  <2>1. \A m \in Numbers : (Trimming(m)' <=> Trimming(m)) /\ (Carries(m)' <=> Carries(m)) /\ (m # n => trim'[m] = trim[m])
    BY <1>8 DEF SaveTrimmed, Trimming, Carries, L2Inv, L2Control
  <2>2. Gone' = Gone
    BY <1>8, <2>1 DEF Gone, SaveTrimmed, Trimming
  <2>3. QED
    BY <1>0, <1>8, <2>1, <2>2, SameAccount DEF SaveTrimmed, TrimInv, L2Inv, L2Control
<1>9. ASSUME NEW n \in Numbers, Yield(n) PROVE TrimInv'
  <2>1. /\ UNCHANGED <<kept, turnAt, handed, appends, upsets, written>> /\ trim[n] \in {"load", "yield"}
        /\ ListOf(n) \in Seq(Msg) /\ GoneOf(n) \in Seq(Msg) /\ Len(ListOf(n)) \in Nat
        /\ (\E size \in 1 .. Len(ListOf(n)) : Chops(n, size)) \/ Leaves(n) \/ Passes(n)
    BY <1>9, TrimEffect
  <2>2. ASSUME NEW size \in 1 .. Len(ListOf(n)), Chops(n, size) PROVE TrimInv'
    <3>1. QED
      BY <1>0, <2>1, <2>2, ChopKeepsAccount
  <2>3. CASE Leaves(n)
    <3>1. \A m \in Numbers : (m # n => trim'[m] = trim[m]) /\ ~Trimming(m)' /\ (Carries(m)' <=> Carries(m))
      BY <2>1, <2>3, HeldList, <1>0 DEF Leaves, L2Inv, L2Control, Trimming, Carries
    <3>2. Gone' = Len(written) - Len(kept)
      BY <2>1, <3>1 DEF Gone
    <3>3. Gone' = Gone
      BY <1>0, <2>1, <2>3, <3>2, HeldList DEF Leaves, CountInv, ListOf
    <3>4. QED
      BY <1>0, <2>1, <2>3, <3>1, <3>3, SameAccount DEF Leaves, TrimInv, L2Inv, L2Control
  <2>4. CASE Passes(n)
    <3>1. \A m \in Numbers : (Trimming(m)' <=> Trimming(m)) /\ (Carries(m)' <=> Carries(m))
      BY <2>1, <2>4 DEF Passes, L2Inv, L2Control, Trimming, Carries
    <3>2. Gone' = Gone
      BY <2>1, <2>4, <3>1 DEF Gone, Passes
    <3>3. QED
      BY <1>0, <2>1, <2>4, <3>1, <3>2, SameAccount DEF Passes, TrimInv, L2Inv, L2Control
  <2>5. QED
    BY <2>1, <2>2, <2>3, <2>4
<1>10. ASSUME NEW n \in Numbers, HandOver(n) PROVE TrimInv'
  BY <1>0, <1>10, HandOverKeepsAccount
<1>11. ASSUME NEW n \in Numbers, TrimFails(n) PROVE TrimInv'
  BY <1>0, <1>11 DEF TrimFails, Upset
<1>12. CASE L2Restart
  BY <1>0, <1>12 DEF L2Restart, Upset
<1>13. CASE Expire
  BY <1>0, <1>13 DEF Expire, Upset
<1>14. CASE UNCHANGED l2vars
  <2>1. \A m \in Numbers : (Trimming(m)' <=> Trimming(m)) /\ (Carries(m)' <=> Carries(m))
    BY <1>14 DEF l2vars, Trimming, Carries, L2Inv, L2Control
  <2>2. Gone' = Gone
    BY <1>14, <2>1 DEF Gone, l2vars
  <2>3. QED
    BY <1>0, <1>14, <2>1, <2>2, SameAccount DEF l2vars, TrimInv, L2Inv, L2Control
<1>15. QED
  BY <1>1, <1>2, <1>3, <1>4, <1>5, <1>6, <1>7, <1>8, <1>9, <1>10, <1>11, <1>12, <1>13, <1>14 DEF L2Next

-----------------------------------------------------------------------------
LEMMA L2InvAtStart == L2Init => L2Inv
<1> SUFFICES ASSUME L2Init PROVE L2Inv
  OBVIOUS
<1> USE L2Constants DEF L2Init
<1>1. L2Control
  BY DEF L2Control, Begun, Numbers
<1>2. L2Locks
  BY DEF L2Locks
<1>3. <<>> \in Seq(Msg) /\ Len(<<>>) = 0 /\ Elements(<<>>) = {} /\ Once(<<>>)
  BY EmptySeq DEF Elements, Once
<1>4. L2Lists
  BY <1>3 DEF L2Lists
<1>5. EndInv
  BY <1>3 DEF EndInv, EndOf
<1>6. CountInv
  BY <1>3 DEF CountInv, Begun
<1>7. Gone = 0
  BY <1>3 DEF Gone, Trimming
<1>8. TrimInv
  BY <1>3, <1>7 DEF TrimInv, Carries
<1>9. DueInv
  BY <1>3 DEF DueInv
<1>10. QED
  BY <1>1, <1>2, <1>4, <1>5, <1>6, <1>8, <1>9 DEF L2Inv

LEMMA L2InvKept == L2Inv /\ [L2Next]_l2vars => L2Inv'
BY L2ControlKept, LocksKept, ListsKept, EndKept, CountKept, AccountKept, DueKept DEF L2Inv

\* The invariant holds in every run of the working memory (working.py, auto_promote.py).
THEOREM L2InvHolds == L2Spec => []L2Inv
BY L2InvAtStart, L2InvKept, PTL DEF L2Spec

LEMMA L2InvSuffices == L2Inv => HistoryKept
<1> SUFFICES ASSUME L2Inv PROVE HistoryKept
  OBVIOUS
<1>1. L2TypeOK
  BY L2TypesSuffice DEF L2Inv
<1>2. HistoryIsSuffix
  BY EndOfIsSuffix DEF L2Inv, EndInv, L2Lists, HistoryIsSuffix
<1>3. ASSUME L2Quiet, upsets = 0
      PROVE  /\ Elements(handed \o kept) = Elements(written) /\ Len(handed \o kept) = Len(written)
             /\ Len(kept) < MaxKept + MinSurplus
  <2>1. /\ CountInv /\ TrimInv /\ DueInv /\ EndOf(kept, written)
        /\ kept \in Seq(Msg) /\ handed \in Seq(Msg) /\ written \in Seq(Msg)
    BY <1>3 DEF L2Inv, L2Lists, EndInv
  <2>2. Len(kept) \in Nat /\ Len(written) \in Nat /\ Len(handed) \in Nat /\ DOMAIN kept = 1 .. Len(kept) /\ DOMAIN written = 1 .. Len(written)
    BY <2>1, LenProperties
  <2>3. \A n \in Numbers : ~Trimming(n) /\ ~Carries(n)
    BY <1>3 DEF L2Quiet, Trimming, Carries
  <2>4. Gone = Len(written) - Len(kept) /\ Gone \in Nat
    BY <1>3, <2>3, GoneIsKnown
  <2>5. Elements(handed) = 1 .. Gone /\ Once(handed)
    BY <2>1, <2>3 DEF TrimInv
  <2>6. Len(handed) = Gone
    BY <2>1, <2>4, <2>5, CountedOnce
  <2>7. Elements(written) = 1 .. Len(written)
    BY <2>1, <2>2 DEF CountInv, Elements
  <2>8. Elements(kept) = Gone + 1 .. Len(written)
    <3>1. ASSUME NEW i \in 1 .. Len(kept) PROVE kept[i] = Gone + i
      <4>1. Len(written) - Len(kept) + i \in 1 .. Len(written)
        BY <2>2, <2>1 DEF EndOf
      <4>2. QED
        BY <2>1, <2>4, <4>1 DEF EndOf, CountInv
    <3>2. \A x \in Gone + 1 .. Len(written) : x - Gone \in 1 .. Len(kept) /\ kept[x - Gone] = x
      BY <2>2, <2>4, <3>1
    <3>3. \A i \in 1 .. Len(kept) : kept[i] \in Gone + 1 .. Len(written)
      BY <2>2, <2>4, <3>1
    <3>4. QED
      BY <2>2, <3>2, <3>3 DEF Elements
  <2>9. Elements(handed \o kept) = Elements(handed) \cup Elements(kept)
    BY <2>1, ElementsOfBoth
  <2>10. 1 .. Gone \cup (Gone + 1 .. Len(written)) = 1 .. Len(written)
    BY <2>2, <2>4
  <2>11. Len(handed \o kept) = Len(written)
    <3>1. Len(handed \o kept) = Len(handed) + Len(kept)
      BY <2>1, ConcatProperties
    <3>2. QED
      BY <3>1, <2>2, <2>4, <2>6
  <2>12. Len(kept) < MaxKept + MinSurplus
    BY <1>3, <2>1 DEF DueInv, L2Quiet
  <2>13. QED
    BY <2>5, <2>7, <2>8, <2>9, <2>10, <2>11, <2>12
<1>4. QED
  BY <1>1, <1>2, <1>3 DEF HistoryKept, TrimAccounts

\* Whatever turns, promotions, failures and restarts overlap (append_and_save_working_context and
\* maybe_auto_promote), the working memory is the end of the conversation, and without upsets nothing
\* that was dropped is lost or handed over twice.
THEOREM HistoryIsKept == L2Spec => []HistoryKept
BY L2InvHolds, L2InvSuffices, PTL

-----------------------------------------------------------------------------
(* The episodic memory.  Its type invariant in parts.                      *)

L3Control ==
  /\ phase \in {"up", "drainTurns", "drainLayers", "down"} /\ starts \in 0 .. MaxStarts /\ faults3 \in 0 .. MaxFaults3
L3Store == col \subseteq Entries /\ chunked \subseteq Entries /\ marked \subseteq col
L3Tasks ==
  /\ archive \in [Entries -> {"none", "store", "index", "over"}]
  /\ enrich \in [Entries -> {"none", "update", "post", "over"}]
  /\ trimmed \in [Entries -> {"none", "update", "scan", "delete", "over"}]
  /\ draining \subseteq Entries /\ early \subseteq Entries
  /\ phase = "down" => \A d \in Entries :
       archive[d] \in {"none", "over"} /\ enrich[d] \in {"none", "over"} /\ trimmed[d] \in {"none", "over"}
L3Index ==
  /\ markedDocs \subseteq Entries /\ built \in {"none", "warm", "late"} /\ snapshot \in Views \cup {Nothing}
  /\ docs \in [Entries -> 0 .. 2] /\ \A d \in Entries : archive[d] # "over" => docs[d] <= 1
L3Cache ==
  /\ race \in {"clear", "crossed"} /\ cleared \subseteq Entries
  /\ cache \in [rich : SUBSET Entries] \cup {Nothing} /\ fetched \in [rich : SUBSET Entries] \cup {Nothing}
L3Types == L3Control /\ L3Store /\ L3Tasks /\ L3Index /\ L3Cache

(* What is cleared was enriched; and what was read for the cache, unless it
   was crossed, was read after what is cleared. *)
CacheInv ==
  /\ cleared \subseteq marked /\ CacheFresh
  /\ fetched # Nothing /\ race = "clear" => cleared \subseteq fetched.rich

(* How far an entry has come. *)
OrderInv ==
  \A d \in Entries :
    /\ d \in col => archive[d] \in {"index", "over"}
    /\ archive[d] = "index" => d \in col
    /\ archive[d] # "over" => enrich[d] = "none"
    /\ enrich[d] \in {"update", "post"} => d \in col

(* While nothing failed, the drains wait for every early turn that is under
   way, and what is over has reached its end. *)
EarlyOn(d) ==
  /\ archive[d] # "none"
  /\ archive[d] = "over" => d \in chunked /\ enrich[d] # "none"
  /\ enrich[d] = "over" => d \in marked
  /\ phase = "drainTurns" /\ archive[d] # "over" => d \in draining
  /\ phase \in {"drainLayers", "down"} => archive[d] = "over"
  /\ phase = "drainLayers" /\ enrich[d] # "over" => d \in draining
  /\ phase = "down" => enrich[d] = "over"
DrainInv ==
  faults3 = 0 =>
    /\ \A d \in Entries : archive[d] = "index" => d \in chunked
    /\ \A d \in Entries : enrich[d] = "post" => d \in marked
    /\ \A d \in early : EarlyOn(d)

(* The index that was built at the start has each entry of the collection but
   those on their way to it. *)
IndexInv ==
  phase = "up" /\ built = "warm" =>
    /\ \A d \in Entries : d \in col /\ archive[d] # "index" => docs[d] = 1
    /\ \A d \in Entries : d \notin col \/ archive[d] = "index" => docs[d] = 0
    /\ faults3 = 0 => markedDocs \subseteq marked
    /\ faults3 = 0 => \A d \in marked \ markedDocs :
         enrich[d] = "post" \/ trimmed[d] \in {"scan", "delete", "over"}

L3Inv == L3Types /\ CacheInv /\ OrderInv /\ DrainInv /\ IndexInv

LEMMA L3Constants == /\ MaxEntries \in Nat /\ MaxStarts \in Nat /\ MaxFaults3 \in Nat
  BY L3Assumption

LEMMA SearchIsSomething == \A s \in [rich : SUBSET Entries] : s # Nothing
<1>1. SUFFICES ASSUME NEW s \in [rich : SUBSET Entries] PROVE DOMAIN s # DOMAIN Nothing
  OBVIOUS
<1>2. DOMAIN s = {"rich"} /\ DOMAIN Nothing = {"none"}
  BY DEF Nothing
<1>3. QED
  BY <1>2

LEMMA L3TypesSuffice == L3Types => L3TypeOK
BY L3Constants DEF L3Types, L3Control, L3Store, L3Tasks, L3Index, L3Cache, L3TypeOK, Archiving, Enriching, Entries

LEMMA L3Starts == L3Init => L3Inv
<1> SUFFICES ASSUME L3Init PROVE L3Inv
  OBVIOUS
<1>1. L3Types
  BY L3Constants DEF L3Init, L3Types, L3Control, L3Store, L3Tasks, L3Index, L3Cache, Views, Nothing
<1>2. CacheInv /\ OrderInv /\ DrainInv /\ IndexInv
  BY DEF L3Init, CacheInv, CacheFresh, OrderInv, DrainInv, IndexInv
<1>3. QED
  BY <1>1, <1>2 DEF L3Inv

(* Every step keeps the types ... *)
LEMMA L3TypesKept == L3Inv /\ [L3Next]_l3vars => L3Types'
<1> SUFFICES ASSUME L3Inv, [L3Next]_l3vars PROVE L3Types'
  OBVIOUS
<1> USE DEF L3Inv, L3Types, L3Control, L3Store, L3Tasks, L3Index, L3Cache, Fault3, tasks3, index3, cache3, Views, Nothing, Entries
<1>1. ASSUME NEW d \in Entries, Archive(d) PROVE L3Types'
  BY <1>1, L3Constants DEF Archive
<1>2. ASSUME NEW d \in Entries, Store(d) PROVE L3Types'
  <2>1. L3Control'
    BY <1>2, L3Constants DEF Store
  <2>2. L3Store'
    BY <1>2, L3Constants DEF Store
  <2>3. L3Tasks'
    BY <1>2, L3Constants DEF Store
  <2>4. L3Index'
    BY <1>2, L3Constants DEF Store
  <2>5. L3Cache'
    BY <1>2, L3Constants DEF Store
  <2> QED
    BY <2>1, <2>2, <2>3, <2>4, <2>5
<1>3. ASSUME NEW d \in Entries, StoreFails(d) PROVE L3Types'
  BY <1>3, L3Constants DEF StoreFails
<1>4. ASSUME NEW d \in Entries, AddDoc(d) PROVE L3Types'
  <2>1. L3Control'
    BY <1>4, L3Constants DEF AddDoc
  <2>2. L3Store'
    BY <1>4, L3Constants DEF AddDoc
  <2>3. L3Tasks'
    BY <1>4, L3Constants DEF AddDoc
  <2>4. L3Index'
    <3>1. docs[d] \in 0 .. 1 /\ docs[d] + 1 \in 0 .. 2
      BY <1>4 DEF AddDoc
    <3>2. docs' = [docs EXCEPT ![d] = docs[d] + 1] /\ archive' = [archive EXCEPT ![d] = "over"]
            /\ UNCHANGED <<markedDocs, built, snapshot>>
      BY <1>4 DEF AddDoc
    <3>3. QED
      BY <3>1, <3>2, <1>4
  <2>5. L3Cache'
    BY <1>4, L3Constants DEF AddDoc
  <2> QED
    BY <2>1, <2>2, <2>3, <2>4, <2>5
<1>5. ASSUME NEW d \in Entries, EnrichEntry(d) PROVE L3Types'
  <2>1. L3Control'
    BY <1>5, L3Constants DEF EnrichEntry, UpdateMetadata
  <2>2. L3Store'
    BY <1>5, L3Constants DEF EnrichEntry, UpdateMetadata
  <2>3. L3Tasks'
    BY <1>5, L3Constants DEF EnrichEntry, UpdateMetadata
  <2>4. L3Index'
    BY <1>5, L3Constants DEF EnrichEntry, UpdateMetadata
  <2>5. L3Cache'
    BY <1>5, L3Constants DEF EnrichEntry, UpdateMetadata
  <2> QED
    BY <2>1, <2>2, <2>3, <2>4, <2>5
<1>6. ASSUME NEW d \in Entries, EnrichDoc(d) PROVE L3Types'
  BY <1>6, L3Constants DEF EnrichDoc
<1>7. ASSUME NEW d \in Entries, ExtractFails(d) PROVE L3Types'
  BY <1>7, L3Constants DEF ExtractFails
<1>8. ASSUME NEW d \in Entries, Trim(d) PROVE L3Types'
  BY <1>8, L3Constants DEF Trim
<1>9. ASSUME NEW d \in Entries, TrimEnrich(d) PROVE L3Types'
  <2>1. L3Control'
    BY <1>9, L3Constants DEF TrimEnrich, UpdateMetadata
  <2>2. L3Store'
    BY <1>9, L3Constants DEF TrimEnrich, UpdateMetadata
  <2>3. L3Tasks'
    BY <1>9, L3Constants DEF TrimEnrich, UpdateMetadata
  <2>4. L3Index'
    BY <1>9, L3Constants DEF TrimEnrich, UpdateMetadata
  <2>5. L3Cache'
    BY <1>9, L3Constants DEF TrimEnrich, UpdateMetadata
  <2> QED
    BY <2>1, <2>2, <2>3, <2>4, <2>5
<1>10. ASSUME NEW d \in Entries, ScanCache(d) PROVE L3Types'
  BY <1>10, L3Constants DEF ScanCache, Race
<1>11. ASSUME NEW d \in Entries, DeleteCache(d) PROVE L3Types'
  BY <1>11, L3Constants DEF DeleteCache, Race
<1>12. CASE StartUp
  <2>1. L3Control'
    BY <1>12, L3Constants DEF StartUp, IndexOf, CatchUp, View
  <2>2. L3Store'
    BY <1>12, L3Constants DEF StartUp, IndexOf, CatchUp, View
  <2>3. L3Tasks'
    BY <1>12, L3Constants DEF StartUp, IndexOf, CatchUp, View
  <2>4. L3Index'
    <3>1. PICK view \in {View, [found |-> {}, rich |-> {}]} :
            IndexOf(view, "warm") /\ snapshot' = Nothing /\ archive' = archive /\ view.rich \subseteq Entries
      BY <1>12 DEF StartUp, View, tasks3
    <3>2. \A e \in Entries : docs'[e] \in 0 .. 1
      BY <3>1 DEF IndexOf
    <3>3. docs' \in [Entries -> 0 .. 2]
      BY <3>1 DEF IndexOf
    <3>4. QED
      BY <3>1, <3>2, <3>3 DEF IndexOf
  <2>5. L3Cache'
    BY <1>12, L3Constants DEF StartUp, IndexOf, CatchUp, View
  <2> QED
    BY <2>1, <2>2, <2>3, <2>4, <2>5
<1>13. CASE SearchMiss
  BY <1>13, L3Constants DEF SearchMiss, Answer
<1>14. CASE FillCache
  BY <1>14, L3Constants DEF FillCache
<1>15. CASE CacheExpires
  BY <1>15, L3Constants DEF CacheExpires
<1>16. CASE BeginBuild
  BY <1>16, L3Constants DEF BeginBuild, View
<1>17. CASE EndBuild
  BY <1>17, L3Constants DEF EndBuild, IndexOf
<1>18. CASE ShutDown
  BY <1>18, L3Constants DEF ShutDown, Archiving
<1>19. CASE TurnsDrained
  BY <1>19, L3Constants DEF TurnsDrained, Archiving, Enriching
<1>20. CASE DrainTimesOut
  BY <1>20, L3Constants DEF DrainTimesOut, Archiving, Enriching
<1>21. CASE LayersDrained
  BY <1>21, L3Constants DEF LayersDrained, Off, Enriching
<1>22. CASE Cut
  BY <1>22, L3Constants DEF Cut, Off
<1>23. CASE UNCHANGED l3vars
  BY <1>23 DEF l3vars, View, Answer
<1>24. QED
  BY <1>1, <1>2, <1>3, <1>4, <1>5, <1>6, <1>7, <1>8, <1>9, <1>10, <1>11, <1>12, <1>13, <1>14, <1>15, <1>16, <1>17, <1>18, <1>19, <1>20, <1>21, <1>22, <1>23 DEF L3Next

(* ... what is known of the cache ... *)
LEMMA CacheKept == L3Inv /\ [L3Next]_l3vars => CacheInv'
<1> SUFFICES ASSUME L3Inv, [L3Next]_l3vars PROVE CacheInv'
  OBVIOUS
<1> USE DEF L3Inv, CacheInv, CacheFresh, L3Types, L3Store, L3Cache, Fault3, tasks3, index3, cache3
<1>1. ASSUME NEW d \in Entries, Archive(d) PROVE CacheInv'
  BY <1>1, SearchIsSomething DEF Archive
<1>2. ASSUME NEW d \in Entries, Store(d) PROVE CacheInv'
  BY <1>2, SearchIsSomething DEF Store
<1>3. ASSUME NEW d \in Entries, StoreFails(d) PROVE CacheInv'
  BY <1>3, SearchIsSomething DEF StoreFails
<1>4. ASSUME NEW d \in Entries, AddDoc(d) PROVE CacheInv'
  BY <1>4, SearchIsSomething DEF AddDoc
<1>5. ASSUME NEW d \in Entries, EnrichEntry(d) PROVE CacheInv'
  BY <1>5, SearchIsSomething DEF EnrichEntry, UpdateMetadata
<1>6. ASSUME NEW d \in Entries, EnrichDoc(d) PROVE CacheInv'
  BY <1>6, SearchIsSomething DEF EnrichDoc
<1>7. ASSUME NEW d \in Entries, ExtractFails(d) PROVE CacheInv'
  BY <1>7, SearchIsSomething DEF ExtractFails
<1>8. ASSUME NEW d \in Entries, Trim(d) PROVE CacheInv'
  BY <1>8, SearchIsSomething DEF Trim
<1>9. ASSUME NEW d \in Entries, TrimEnrich(d) PROVE CacheInv'
  BY <1>9, SearchIsSomething DEF TrimEnrich, UpdateMetadata
<1>10. ASSUME NEW d \in Entries, ScanCache(d) PROVE CacheInv'
  BY <1>10, SearchIsSomething DEF ScanCache, Race
<1>11. ASSUME NEW d \in Entries, DeleteCache(d) PROVE CacheInv'
  BY <1>11, SearchIsSomething DEF DeleteCache, Race
<1>12. CASE StartUp
  BY <1>12, SearchIsSomething DEF StartUp, IndexOf, CatchUp, View
<1>13. CASE SearchMiss
  BY <1>13, SearchIsSomething DEF SearchMiss, Answer
<1>14. CASE FillCache
  BY <1>14, SearchIsSomething DEF FillCache
<1>15. CASE CacheExpires
  BY <1>15, SearchIsSomething DEF CacheExpires
<1>16. CASE BeginBuild
  BY <1>16, SearchIsSomething DEF BeginBuild, View
<1>17. CASE EndBuild
  BY <1>17, SearchIsSomething DEF EndBuild, IndexOf
<1>18. CASE ShutDown
  BY <1>18, SearchIsSomething DEF ShutDown, Archiving
<1>19. CASE TurnsDrained
  BY <1>19, SearchIsSomething DEF TurnsDrained, Archiving, Enriching
<1>20. CASE DrainTimesOut
  BY <1>20, SearchIsSomething DEF DrainTimesOut, Archiving, Enriching
<1>21. CASE LayersDrained
  BY <1>21, SearchIsSomething DEF LayersDrained, Off, Enriching
<1>22. CASE Cut
  BY <1>22, SearchIsSomething DEF Cut, Off
<1>23. CASE UNCHANGED l3vars
  BY <1>23 DEF l3vars, View, Answer
<1>24. QED
  BY <1>1, <1>2, <1>3, <1>4, <1>5, <1>6, <1>7, <1>8, <1>9, <1>10, <1>11, <1>12, <1>13, <1>14, <1>15, <1>16, <1>17, <1>18, <1>19, <1>20, <1>21, <1>22, <1>23 DEF L3Next

(* ... the order in which an entry is stored, indexed and enriched ... *)
LEMMA OrderKept == L3Inv /\ [L3Next]_l3vars => OrderInv'
<1> SUFFICES ASSUME L3Inv, [L3Next]_l3vars PROVE OrderInv'
  OBVIOUS
<1> USE DEF L3Inv, OrderInv, L3Types, L3Store, L3Tasks, Fault3, tasks3, index3, cache3
<1>1. ASSUME NEW d \in Entries, Archive(d) PROVE OrderInv'
  BY <1>1 DEF Archive
<1>2. ASSUME NEW d \in Entries, Store(d) PROVE OrderInv'
  BY <1>2 DEF Store
<1>3. ASSUME NEW d \in Entries, StoreFails(d) PROVE OrderInv'
  BY <1>3 DEF StoreFails
<1>4. ASSUME NEW d \in Entries, AddDoc(d) PROVE OrderInv'
  BY <1>4 DEF AddDoc
<1>5. ASSUME NEW d \in Entries, EnrichEntry(d) PROVE OrderInv'
  BY <1>5 DEF EnrichEntry, UpdateMetadata
<1>6. ASSUME NEW d \in Entries, EnrichDoc(d) PROVE OrderInv'
  BY <1>6 DEF EnrichDoc
<1>7. ASSUME NEW d \in Entries, ExtractFails(d) PROVE OrderInv'
  BY <1>7 DEF ExtractFails
<1>8. ASSUME NEW d \in Entries, Trim(d) PROVE OrderInv'
  BY <1>8 DEF Trim
<1>9. ASSUME NEW d \in Entries, TrimEnrich(d) PROVE OrderInv'
  BY <1>9 DEF TrimEnrich, UpdateMetadata
<1>10. ASSUME NEW d \in Entries, ScanCache(d) PROVE OrderInv'
  BY <1>10 DEF ScanCache, Race
<1>11. ASSUME NEW d \in Entries, DeleteCache(d) PROVE OrderInv'
  BY <1>11 DEF DeleteCache, Race
<1>12. CASE StartUp
  BY <1>12 DEF StartUp, IndexOf, CatchUp, View
<1>13. CASE SearchMiss
  BY <1>13 DEF SearchMiss, Answer
<1>14. CASE FillCache
  BY <1>14 DEF FillCache
<1>15. CASE CacheExpires
  BY <1>15 DEF CacheExpires
<1>16. CASE BeginBuild
  BY <1>16 DEF BeginBuild, View
<1>17. CASE EndBuild
  BY <1>17 DEF EndBuild, IndexOf
<1>18. CASE ShutDown
  BY <1>18 DEF ShutDown, Archiving
<1>19. CASE TurnsDrained
  BY <1>19 DEF TurnsDrained, Archiving, Enriching
<1>20. CASE DrainTimesOut
  BY <1>20 DEF DrainTimesOut, Archiving, Enriching
<1>21. CASE LayersDrained
  BY <1>21 DEF LayersDrained, Off, Enriching
<1>22. CASE Cut
  BY <1>22 DEF Cut, Off
<1>23. CASE UNCHANGED l3vars
  BY <1>23 DEF l3vars, View, Answer
<1>24. QED
  BY <1>1, <1>2, <1>3, <1>4, <1>5, <1>6, <1>7, <1>8, <1>9, <1>10, <1>11, <1>12, <1>13, <1>14, <1>15, <1>16, <1>17, <1>18, <1>19, <1>20, <1>21, <1>22, <1>23 DEF L3Next

(* ... what the drains wait for ... *)
LEMMA DrainKept == L3Inv /\ [L3Next]_l3vars => DrainInv'
<1> SUFFICES ASSUME L3Inv, [L3Next]_l3vars PROVE DrainInv'
  OBVIOUS
<1> USE DEF L3Inv, DrainInv, EarlyOn, OrderInv, L3Types, L3Control, L3Store, L3Tasks, Fault3, tasks3, index3, cache3
<1>1. ASSUME NEW d \in Entries, Archive(d) PROVE DrainInv'
  BY <1>1, L3Constants DEF Archive
<1>2. ASSUME NEW d \in Entries, Store(d) PROVE DrainInv'
  BY <1>2, L3Constants DEF Store
<1>3. ASSUME NEW d \in Entries, StoreFails(d) PROVE DrainInv'
  BY <1>3, L3Constants DEF StoreFails
<1>4. ASSUME NEW d \in Entries, AddDoc(d) PROVE DrainInv'
  BY <1>4, L3Constants DEF AddDoc
<1>5. ASSUME NEW d \in Entries, EnrichEntry(d) PROVE DrainInv'
  BY <1>5, L3Constants DEF EnrichEntry, UpdateMetadata
<1>6. ASSUME NEW d \in Entries, EnrichDoc(d) PROVE DrainInv'
  BY <1>6, L3Constants DEF EnrichDoc
<1>7. ASSUME NEW d \in Entries, ExtractFails(d) PROVE DrainInv'
  BY <1>7, L3Constants DEF ExtractFails
<1>8. ASSUME NEW d \in Entries, Trim(d) PROVE DrainInv'
  BY <1>8, L3Constants DEF Trim
<1>9. ASSUME NEW d \in Entries, TrimEnrich(d) PROVE DrainInv'
  BY <1>9, L3Constants DEF TrimEnrich, UpdateMetadata
<1>10. ASSUME NEW d \in Entries, ScanCache(d) PROVE DrainInv'
  BY <1>10, L3Constants DEF ScanCache, Race
<1>11. ASSUME NEW d \in Entries, DeleteCache(d) PROVE DrainInv'
  BY <1>11, L3Constants DEF DeleteCache, Race
<1>12. CASE StartUp
  BY <1>12, L3Constants DEF StartUp, IndexOf, CatchUp, View
<1>13. CASE SearchMiss
  BY <1>13, L3Constants DEF SearchMiss, Answer
<1>14. CASE FillCache
  BY <1>14, L3Constants DEF FillCache
<1>15. CASE CacheExpires
  BY <1>15, L3Constants DEF CacheExpires
<1>16. CASE BeginBuild
  BY <1>16, L3Constants DEF BeginBuild, View
<1>17. CASE EndBuild
  BY <1>17, L3Constants DEF EndBuild, IndexOf
<1>18. CASE ShutDown
  BY <1>18, L3Constants DEF ShutDown, Archiving
<1>19. CASE TurnsDrained
  BY <1>19, L3Constants DEF TurnsDrained, Archiving, Enriching
<1>20. CASE DrainTimesOut
  BY <1>20, L3Constants DEF DrainTimesOut, Archiving, Enriching
<1>21. CASE LayersDrained
  BY <1>21, L3Constants DEF LayersDrained, Off, Enriching
<1>22. CASE Cut
  BY <1>22, L3Constants DEF Cut, Off
<1>23. CASE UNCHANGED l3vars
  BY <1>23 DEF l3vars, View, Answer
<1>24. QED
  BY <1>1, <1>2, <1>3, <1>4, <1>5, <1>6, <1>7, <1>8, <1>9, <1>10, <1>11, <1>12, <1>13, <1>14, <1>15, <1>16, <1>17, <1>18, <1>19, <1>20, <1>21, <1>22, <1>23 DEF L3Next

(* ... and the agreement of the index. *)
LEMMA IndexStays == L3Inv /\ [L3Next]_l3vars => IndexInv'
<1> SUFFICES ASSUME L3Inv, [L3Next]_l3vars PROVE IndexInv'
  OBVIOUS
<1> USE DEF L3Inv, IndexInv, OrderInv, DrainInv, L3Types, L3Control, L3Store, L3Tasks, L3Index, Fault3, tasks3, index3, cache3
<1>1. ASSUME NEW d \in Entries, Archive(d) PROVE IndexInv'
  BY <1>1, L3Constants DEF Archive
<1>2. ASSUME NEW d \in Entries, Store(d) PROVE IndexInv'
  BY <1>2, L3Constants DEF Store
<1>3. ASSUME NEW d \in Entries, StoreFails(d) PROVE IndexInv'
  BY <1>3, L3Constants DEF StoreFails
<1>4. ASSUME NEW d \in Entries, AddDoc(d) PROVE IndexInv'
  BY <1>4, L3Constants DEF AddDoc
<1>5. ASSUME NEW d \in Entries, EnrichEntry(d) PROVE IndexInv'
  BY <1>5, L3Constants DEF EnrichEntry, UpdateMetadata
<1>6. ASSUME NEW d \in Entries, EnrichDoc(d) PROVE IndexInv'
  BY <1>6, L3Constants DEF EnrichDoc
<1>7. ASSUME NEW d \in Entries, ExtractFails(d) PROVE IndexInv'
  BY <1>7, L3Constants DEF ExtractFails
<1>8. ASSUME NEW d \in Entries, Trim(d) PROVE IndexInv'
  BY <1>8, L3Constants DEF Trim
<1>9. ASSUME NEW d \in Entries, TrimEnrich(d) PROVE IndexInv'
  BY <1>9, L3Constants DEF TrimEnrich, UpdateMetadata
<1>10. ASSUME NEW d \in Entries, ScanCache(d) PROVE IndexInv'
  BY <1>10, L3Constants DEF ScanCache, Race
<1>11. ASSUME NEW d \in Entries, DeleteCache(d) PROVE IndexInv'
  BY <1>11, L3Constants DEF DeleteCache, Race
<1>12. CASE StartUp
  BY <1>12, L3Constants DEF StartUp, IndexOf, CatchUp, View
<1>13. CASE SearchMiss
  BY <1>13, L3Constants DEF SearchMiss, Answer
<1>14. CASE FillCache
  BY <1>14, L3Constants DEF FillCache
<1>15. CASE CacheExpires
  BY <1>15, L3Constants DEF CacheExpires
<1>16. CASE BeginBuild
  BY <1>16, L3Constants DEF BeginBuild, View
<1>17. CASE EndBuild
  BY <1>17, L3Constants DEF EndBuild, IndexOf
<1>18. CASE ShutDown
  BY <1>18, L3Constants DEF ShutDown, Archiving
<1>19. CASE TurnsDrained
  BY <1>19, L3Constants DEF TurnsDrained, Archiving, Enriching
<1>20. CASE DrainTimesOut
  BY <1>20, L3Constants DEF DrainTimesOut, Archiving, Enriching
<1>21. CASE LayersDrained
  <2>1. phase' = "down"
    BY <1>21 DEF LayersDrained, Off
  <2> QED
    BY <2>1
<1>22. CASE Cut
  <2>1. phase' = "down"
    BY <1>22 DEF Cut, Off
  <2> QED
    BY <2>1
<1>23. CASE UNCHANGED l3vars
  BY <1>23 DEF l3vars, View, Answer
<1>24. QED
  BY <1>1, <1>2, <1>3, <1>4, <1>5, <1>6, <1>7, <1>8, <1>9, <1>10, <1>11, <1>12, <1>13, <1>14, <1>15, <1>16, <1>17, <1>18, <1>19, <1>20, <1>21, <1>22, <1>23 DEF L3Next

LEMMA L3Steps == L3Inv /\ [L3Next]_l3vars => L3Inv'
BY L3TypesKept, CacheKept, OrderKept, DrainKept, IndexStays DEF L3Inv

\* The invariant holds in every run of the episodic memory (episodic.py, bm25_index.py, session_cache.py, layers.py).
THEOREM L3InvHolds == L3Spec => []L3Inv
BY L3Starts, L3Steps, PTL DEF L3Spec

LEMMA L3InvSuffices == L3Inv => CacheFresh /\ DrainComplete /\ IndexKept
<1> SUFFICES ASSUME L3Inv PROVE CacheFresh /\ DrainComplete /\ IndexKept
  OBVIOUS
<1>1. CacheFresh
  BY DEF L3Inv, CacheInv
<1>2. DrainComplete
  BY DEF L3Inv, DrainInv, EarlyOn, DrainComplete, L3Types, L3Tasks
<1>3. IndexAgrees
  <2>1. ASSUME NEW d \in Entries, Archiving = {} PROVE archive[d] # "index"
    BY <2>1 DEF Archiving
  <2>2. ASSUME NEW d \in Entries, Enriching = {}
        PROVE  enrich[d] # "post" /\ trimmed[d] \notin {"scan", "delete"}
    BY <2>2 DEF Enriching
  <2>3. QED
    BY <2>1, <2>2 DEF IndexAgrees, L3Inv, IndexInv, L3Types, L3Store
<1>4. QED
  BY <1>1, <1>2, <1>3, L3TypesSuffice DEF L3Inv, IndexKept

\* A cached search shows what was enriched at a trim before it was cleared,
\* whatever is stored, enriched, cleared, shut down or cut meanwhile.
THEOREM CacheStaysFresh == L3Spec => []CacheFresh
BY L3InvHolds, L3InvSuffices, PTL

\* A shutdown without faults loses nothing of the turns answered before it.
THEOREM DrainLosesNothing == L3Spec => []DrainComplete
BY L3InvHolds, L3InvSuffices, PTL

\* The index that was built at the start agrees with the collection.
THEOREM IndexStaysTrue == L3Spec => []IndexKept
BY L3InvHolds, L3InvSuffices, PTL
===============================================================================
