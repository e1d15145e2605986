---------------------------- MODULE PermanentMemory ----------------------------
(***************************************************************************)
(* The permanent memory L1 (memory/permanent/permanent.py), a block of     *)
(* facts kept by an agent of an external server, and the tools that write  *)
(* it: promote_memory (memory/promote.py), forget_fact and set_identity.   *)
(* Nothing locks the block: a write is a read, a change and a write back.  *)
(* An agent without the identity block is deleted and created again.       *)
(*                                                                         *)
(* A task is a turn; its program counter names the HTTP request it waits   *)
(* for, agent[t] the agent in the URL of that request.  An action is the   *)
(* request together with the code up to the next one.                      *)
(***************************************************************************)
EXTENDS Integers, FiniteSets

CONSTANTS
  Tasks,      \* turns that use the memory at the same time
  Writers,    \* those of them that call the tools
  Keys,       \* keys of facts
  FactsCap,   \* L1_FACTS_MAX_TOKENS, in facts
  MaxAgents,  \* bound: agents ever created
  MaxOps,     \* bound: operations
  MaxFails,   \* bound: requests that fail
  NoId        \* _agent_id is None

ASSUME L1Assumption ==
  /\ Writers \subseteq Tasks /\ FactsCap \in Nat /\ MaxAgents \in Nat \ {0} /\ NoId \notin 1 .. MaxAgents
  /\ MaxOps \in Nat /\ MaxFails \in Nat

VARIABLES
  live,    \* agents on the server
  born,    \* the newest agent
  facts,   \* the facts block of each
  block,   \* those that have an identity block
  cached,  \* _agent_id
  step,    \* the request a task waits for
  want,    \* the request to make once _resolve_agent_id has the id
  agent,   \* the agent in the URL of the request
  op,      \* the operation of the task
  seen,    \* the facts it read, changed by then
  said,    \* keys confirmed by promote_memory and not asked to be forgotten since
  fails, ops,
  blame    \* ghost: what happened that may cost facts

server == <<live, born, facts, block>>
l1vars == <<server, cached, step, want, agent, op, seen, said, fails, ops, blame>>

Ids == 1 .. MaxAgents
Ops == [kind : {"promote", "forget"}, key : Keys] \cup [kind : {"identity", "recall"}]
Requests == {"read", "check", "get", "patch", "identity", "rescue", "delete", "restore", "label"}
Rebuilding == {"rescue", "delete", "restore", "label"}
Writes(t) == step[t] # "idle" /\ op[t].kind # "recall"

L1TypeOK ==
  /\ live \subseteq 1 .. born /\ born \in 0 .. MaxAgents /\ block \subseteq live /\ facts \in [Ids -> SUBSET Keys]
  /\ cached \in Ids \cup {NoId}
  /\ step \in [Tasks -> Requests \cup {"idle", "list", "create"}]
  /\ want \in [Tasks -> Requests] /\ agent \in [Tasks -> Ids \cup {NoId}]
  /\ op \in [Tasks -> Ops] /\ seen \in [Tasks -> SUBSET Keys] /\ said \subseteq Keys
  /\ fails \in 0 .. MaxFails /\ ops \in 0 .. MaxOps
  /\ blame \subseteq {"overlap", "twin", "rebuild"}

L1Init ==
  /\ born \in {0, 1} /\ live = 1 .. born
  /\ block \in SUBSET live
  /\ facts = [a \in Ids |-> {}] /\ cached = NoId
  /\ step = [t \in Tasks |-> "idle"] /\ want = [t \in Tasks |-> "read"]
  /\ agent = [t \in Tasks |-> NoId] /\ op = [t \in Tasks |-> [kind |-> "recall"]]
  /\ seen = [t \in Tasks |-> {}] /\ said = {}
  /\ fails = 0 /\ ops = 0 /\ blame = {}

--------------------------------------------------------------------------------
\* The request goes to agent a.
Send(t, request, a) == step' = [step EXCEPT ![t] = request] /\ agent' = [agent EXCEPT ![t] = a]

\* Resolve the id, then make the request.
Ask(t, request) ==
  \/ cached # NoId /\ Send(t, request, cached) /\ UNCHANGED want
  \/ cached = NoId /\ Send(t, "list", NoId) /\ want' = [want EXCEPT ![t] = request]

Return(t) == step' = [step EXCEPT ![t] = "idle"] /\ UNCHANGED <<want, agent>>

\* A task begins an operation with its first request.
Begin(t, o, request) ==
  /\ step[t] = "idle" /\ ops < MaxOps /\ ops' = ops + 1
  /\ op' = [op EXCEPT ![t] = o] /\ Ask(t, request)
  /\ blame' = IF o.kind # "recall" /\ \E u \in Tasks : Writes(u) THEN blame \cup {"overlap"} ELSE blame
  /\ UNCHANGED <<server, cached, seen, fails>>

Promote(t) ==
  /\ t \in Writers /\ \E k \in Keys : Begin(t, [kind |-> "promote", key |-> k], "check")
  /\ UNCHANGED said

Forget(t) ==
  /\ t \in Writers
  /\ \E k \in Keys : Begin(t, [kind |-> "forget", key |-> k], "get") /\ said' = said \ {k}

SetIdentity(t) == t \in Writers /\ Begin(t, [kind |-> "identity"], "identity") /\ UNCHANGED said

\* A turn reads the facts, or the identity, for its prompt; it does both at once,
\* which is two tasks here.
Recall(t) == Begin(t, [kind |-> "recall"], "read") /\ UNCHANGED said

\* The first agent the server lists; which one of several, it decides.
ListAgents(t) ==
  /\ step[t] = "list"
  /\ \/ \E a \in live : cached' = a /\ Send(t, want[t], a)
     \/ live = {} /\ Send(t, "create", NoId) /\ UNCHANGED cached
  /\ UNCHANGED <<server, want, op, seen, said, fails, ops, blame>>

NewAgent ==
  /\ born < MaxAgents /\ born' = born + 1 /\ live' = live \cup {born'} /\ block' = block \cup {born'}
  /\ UNCHANGED facts

Twins == IF Cardinality(live') > 1 THEN {"twin"} ELSE {}

CreateAgent(t) ==
  /\ step[t] = "create" /\ NewAgent /\ cached' = born' /\ Send(t, want[t], born')
  /\ blame' = blame \cup Twins
  /\ UNCHANGED <<want, op, seen, said, fails, ops>>

Answers(t, request) == step[t] = request /\ agent[t] \in live

ReadBlocks(t) == Answers(t, "read") /\ Return(t) /\ UNCHANGED <<server, cached, op, seen, said, fails, ops, blame>>

\* promote_fact's own look at the facts: is there room?
CheckCap(t) ==
  /\ Answers(t, "check")
  /\ \/ Cardinality(facts[agent[t]] \cup {op[t].key}) > FactsCap /\ Return(t)
     \/ Cardinality(facts[agent[t]] \cup {op[t].key}) <= FactsCap /\ Ask(t, "get")
  /\ UNCHANGED <<server, cached, op, seen, said, fails, ops, blame>>

\* store_fact and delete_fact read the block once more and change their copy.
GetFacts(t) ==
  /\ Answers(t, "get")
  /\ LET held == facts[agent[t]] IN
       \/ /\ op[t].kind = "promote"
          /\ seen' = [seen EXCEPT ![t] = held \cup {op[t].key}] /\ Ask(t, "patch")
       \/ /\ op[t].kind = "forget" /\ op[t].key \in held
          /\ seen' = [seen EXCEPT ![t] = held \ {op[t].key}] /\ Ask(t, "patch")
       \/ op[t].kind = "forget" /\ op[t].key \notin held /\ Return(t) /\ UNCHANGED seen
  /\ UNCHANGED <<server, cached, op, said, fails, ops, blame>>

PatchFacts(t) ==
  /\ Answers(t, "patch") /\ facts' = [facts EXCEPT ![agent[t]] = seen[t]]
  /\ said' = IF op[t].kind = "promote" THEN said \cup {op[t].key} ELSE said
  /\ Return(t)
  /\ UNCHANGED <<live, born, block, cached, op, seen, fails, ops, blame>>

\* set_identity_override; 404 when the block or the whole agent is missing.
PatchIdentity(t) ==
  /\ step[t] = "identity"
  /\ \/ agent[t] \in block /\ Return(t)
     \/ agent[t] \notin block /\ Ask(t, "rescue")
  /\ UNCHANGED <<server, cached, op, seen, said, fails, ops, blame>>

\* _recreate_with_identity
Rescue(t) ==
  /\ Answers(t, "rescue") /\ seen' = [seen EXCEPT ![t] = facts[agent[t]]]
  /\ Send(t, "delete", cached)
  /\ UNCHANGED <<server, cached, want, op, said, fails, ops, blame>>

\* Mutant: the facts that were rescued are not restored.
DeleteAgentForGood(t) ==
  /\ Answers(t, "delete")
  /\ live' = live \ {agent[t]} /\ block' = block \ {agent[t]}
  /\ cached' = NoId /\ Send(t, "list", NoId) /\ want' = [want EXCEPT ![t] = "label"]
  /\ UNCHANGED <<born, facts, op, seen, said, fails, ops, blame>>

DeleteAgent(t) ==
  /\ Answers(t, "delete")
  /\ live' = live \ {agent[t]} /\ block' = block \ {agent[t]}
  /\ cached' = NoId /\ Send(t, "list", NoId)
  /\ want' = [want EXCEPT ![t] = IF seen[t] # {} THEN "restore" ELSE "label"]
  /\ UNCHANGED <<born, facts, op, seen, said, fails, ops, blame>>

Restore(t) ==
  /\ Answers(t, "restore") /\ facts' = [facts EXCEPT ![agent[t]] = seen[t]]
  /\ Send(t, "label", cached)
  /\ UNCHANGED <<live, born, block, cached, want, op, seen, said, fails, ops, blame>>

Label(t) ==
  /\ Answers(t, "label") /\ agent[t] \in block /\ Return(t)
  /\ UNCHANGED <<server, cached, op, seen, said, fails, ops, blame>>

\* What a failing request may have done on the server all the same.
Effect(t) ==
  \/ UNCHANGED server
  \/ step[t] \in {"patch", "restore"} /\ agent[t] \in live
     /\ facts' = [facts EXCEPT ![agent[t]] = seen[t]] /\ UNCHANGED <<live, born, block>>
  \/ step[t] = "delete" /\ agent[t] \in live
     /\ live' = live \ {agent[t]} /\ block' = block \ {agent[t]} /\ UNCHANGED <<born, facts>>
  \/ step[t] = "create" /\ NewAgent

\* The request of a task, also while it resolves the id for it.
Aim(t) == IF step[t] \in {"list", "create"} THEN want[t] ELSE step[t]

NotFound(t) ==
  /\ step[t] \notin {"idle", "list", "create", "identity"}
  /\ agent[t] \notin IF step[t] = "label" THEN block ELSE live

\* A request fails, or finds nothing.  Only the rescue of the facts goes on
\* without its answer, as if there were none.
Fail(t) ==
  /\ step[t] # "idle"
  /\ \/ NotFound(t) /\ UNCHANGED <<server, fails>>
     \/ fails < MaxFails /\ fails' = fails + 1 /\ Effect(t)
  /\ blame' = blame \cup Twins \cup (IF Aim(t) \in Rebuilding THEN {"rebuild"} ELSE {})
  /\ \/ /\ Aim(t) = "rescue" /\ seen' = [seen EXCEPT ![t] = {}]
        /\ Send(t, "delete", cached) /\ UNCHANGED want
     \/ Aim(t) # "rescue" /\ Return(t) /\ UNCHANGED seen
  /\ UNCHANGED <<cached, op, said, ops>>

L1Quiet == \A t \in Tasks : step[t] = "idle"

\* The process restarts: what is on the server stays.
Reboot ==
  /\ ~L1Quiet \/ cached # NoId
  /\ cached' = NoId
  /\ blame' = blame \cup {"rebuild" : t \in {u \in Tasks : Aim(u) \in Rebuilding}}
  /\ step' = [t \in Tasks |-> "idle"]
  /\ UNCHANGED <<server, want, agent, op, seen, said, fails, ops>>

L1Step(t) ==
  \/ Promote(t) \/ Forget(t) \/ SetIdentity(t) \/ Recall(t) \/ ListAgents(t) \/ CreateAgent(t)
  \/ ReadBlocks(t) \/ CheckCap(t) \/ GetFacts(t) \/ PatchFacts(t) \/ PatchIdentity(t)
  \/ Rescue(t) \/ DeleteAgent(t) \/ Restore(t) \/ Label(t) \/ Fail(t)

L1Next == Reboot \/ \E t \in Tasks : L1Step(t)

--------------------------------------------------------------------------------
\* What a turn that begins now may find: the facts of the agent it will use.
Remembered(k) ==
  /\ cached # NoId => cached \in live /\ k \in facts[cached]
  /\ cached = NoId => live # {} /\ \A a \in live : k \in facts[a]

\* A fact whose promotion was confirmed is in the memory that the next turn
\* reads, until somebody forgets it - whatever request fails and whenever the
\* process restarts - unless two tools wrote at the same time, two agents of
\* the one name were created, or a request failed within a rebuild.
PromotedStays == L1Quiet /\ blame = {} => \A k \in said : Remembered(k)

\* The block stays below its cap unless two tools wrote at the same time, or
\* two agents of the one name were created: then the cap may be looked up in
\* the one and the fact stored in the other.
CapHeld == blame \subseteq {"rebuild"} => \A a \in live : Cardinality(facts[a]) <= FactsCap

\* What the user was told is remembered stays so, within the cap.
PromotedKept == L1TypeOK /\ PromotedStays /\ CapHeld

\* _recreate_with_identity says "Delete and recreate the Letta agent [...], then
\* restore facts": when it ends without an exception, the confirmed facts are in
\* the new agent.
RebuildKeepsFacts == [][\A t \in Tasks : Label(t) => said \subseteq facts[agent[t]]]_l1vars

L1Spec == L1Init /\ [][L1Next]_l1vars
================================================================================
