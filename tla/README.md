# Verification of GOAT 2.0

GOAT 2.0 is an agent that talks to its user over Telegram. A message becomes a
*turn* of an orchestrator: the turn recalls what the memory holds on the subject,
calls a language model, lets the model use tools, answers, and leaves work behind
for the background. A tool may start a *workflow*, a DAG of agents that runs beside
the conversation and reports back to the chat when it is over.

This directory holds TLA+ models of the program, the TLC runs that check them on
small instances and TLAPS proofs for every value of the constants. Paths in this
file are relative to the repository's root. `PROJECT.json` says, definition by
definition, which lines each module stands for.

    cd tla
    tlc -config MCDagRunner.cfg MCDagRunner     # one run
    tlapm DagRunnerProofs.tla                   # the proofs of one module

Contents

1. The system: an inventory
2. The modules and the code they stand for
3. The runs
4. Fairness
5. What is proved
6. What the code says and does not do
7. What is left out, and what the models take for granted
8. The plan

---

## 1. The system: an inventory

Everything runs on one asyncio event loop in one process, so the code between two
`await`s is atomic; operations on the vector store and on files run in threads. What
outlives the process is in Redis (activation, working memory, caches, DAG status), in
an episodic vector store, in the blocks of an agent of the permanent memory's server,
and in files.

### Workflow runner: `workflow/runner.py`, `workflow/models.py`

*State.* Per run: `in_degree`, the ready queue, the tasks in flight, the shared
context, `results`, `skipped`, `errors`, `retry_counts`, `execution_order`, a
semaphore of `max_concurrent` permits, and the dict of node states.
*Operations.* `run`, one `_execute_node` task per node (condition, permit, attempt
under `wait_for`, retry with a delay), `_notify`, `_assert_acyclic`,
`_compute_confidence`. *Talks to* the node's runner, the DAG's channel, the callback
`on_node_state`. *Hard.* Several tasks end in one turn of the loop; a failure cancels
tasks that have not begun, wait for a permit, sleep before a retry or are inside an
attempt; `run` can be cancelled at any of its awaits; the retry budget. *Correct when*
a node sees the outputs of all its dependencies and never those of a failed node; no
permit is lost; the result agrees with what happened and never changes once returned;
nothing works on behind a returned result; the run ends.

### DAG manager, channel and tools: `workflow/dag_manager.py`, `workflow/dag_channel.py`, `tools/workflow_tools.py`

*State.* `_tasks`, `_channels` and `_results` by DAG id; in Redis the keys status,
result, spec, inbox and outbox of each id, with a TTL. *Operations.* `start`, `stop`,
the background task `_run`, its done callback `_cleanup`, `restart_failed`, the
mailbox, the events published. *Talks to* the runner, Redis, and the chat through
`on_complete`. *Hard.* `stop` cancels a task at an arbitrary await, in the middle of
an operation on Redis whose effect nobody knows; two operations record one verdict and
either can fail; ids are used again; nodes of a cancelled run go on writing; a restart
works from what the first run left. *Correct when* a chat is never told "done" of a
run that did not succeed, the verdict and the result are recorded together, every run
ends and frees its id, every `stop` returns, and a restart repeats no work.

### Agents and their nodes: `agents/`, `workflow/agent_node.py`, `workflow/routing.py`, `tools/dag_tools/`, `tools/agent_dag_tools.py`, `tools/agent_file_tools.py`

*State.* The history of one chat of an agent; the router's cached agents and the fresh
ones of tasks with the tools bound to them; the run's inbox, outbox and memory in
Redis; the files of the workspace. *Operations.* A loop of model and tools with limits
of its own; the results of the dependencies handed to it; every tool of a task.
*Hard.* Tasks of one role run at once over shared objects. *Correct when* every call is
answered in place, the chat ends within its bound, no task's tools, files or messages
reach another, and messages are taken once, in order.

### Telegram bot: `telegram_interface/bot.py`, `telegram_interface/tg_format.py`

*State.* One lock per chat, the set of update ids in Redis, the work tree and its
installed requirements. *Operations.* handlers of messages and commands,
`_on_dag_complete`, `_on_coord_messages`, `/update` and `/rollback` (which replace the
process with `os.execv`), rendering and splitting of replies, shutdown. *Hard.* User
messages, completions of workflows and coordination messages compete for one chat;
Telegram redelivers updates; the process is replaced while work is in progress; a reply
is refused half way. *Correct when* the turns of a chat follow each other, the lock
comes back whatever ends a turn, each message is handled at most once, started code has
its requirements, and a reply arrives whole.

### Coordination poller and plugins: `telegram_interface/_coord_poller.py`, `telegram_interface/_plugin_scanner.py`, `plugins/`

*State.* The hub's mark of what was read; the modules, their mtimes and the tools that
work. *Operations.* fetch, cut to a digest, deliver, acknowledge; scan, import, reload,
build, swap. *Hard.* Failures between delivery and acknowledgement, shutdown; a file
that changes into something that does not load, between the stat and the import.
*Correct when* a message is acknowledged only after it was put before the admin and all of
them are in the end; the tools offered are those of the last version that worked.

### Orchestrator turn and activation: `orchestrator/orchestrator.py`, `orchestrator/activation_manager.py`, `orchestrator/prefetch.py`, `memory/activation.py`

*State.* The activation of a chat: one JSON blob in Redis with the time `ts` of the
turn that wrote it, centroid, recent queries, retrieved items, `topic_id`,
`turn_count` and the archived topics; the set of pending background tasks.
*Operations.* `run` (read, embed, classify cold/warm/drift, search, model, tools,
save), `_enriching_refresh`, the prefetch task, `CAS` in Lua, `drain_background`.
*Hard.* The activation is read at the start of a turn and written after it by a task
that nobody waits for; several such tasks may be pending; a turn may fail after it
stored facts. *Correct when* a late write never undoes a newer one, the blob is never
a mixture of turns, the topic archive stays a set, and what a turn learnt is served
to the next.

### Tool loop: `orchestrator/orchestrator.py`, `orchestrator/dsml.py`, `orchestrator/llm_response.py`

*State.* The conversation of the turn, the calls made so far, the volume of their
output, the facts stored. *Operations.* rounds of structured tool calls, rounds of
calls the model writes in its text (DSML), forced synthesis, stripping of markup,
continuation of replies that were cut. *Hard.* Two loops call each other and share a
budget; a model may go on for ever; what the last call returns. *Correct when* the
number of model calls is bounded, no markup and no empty text reaches the user, and
every call that was executed is in the summary and every fact stored is reported.

### The three memories: `memory/permanent/`, `memory/working/`, `memory/episodic/`, `memory/bm25_index.py`, `memory/session_cache.py`, `memory/auto_promote.py`, `memory/enrichment.py`, `memory/layers.py`

*State.* L1: the facts and the identity in blocks of an agent on another server. L2: the
list of a chat's messages in Redis, a lock per chat. L3: the collection, its chunks, the
lexical index in memory, the cache of searches, the background tasks that write them.
*Operations.* promote, forget, set identity, rebuild the agent; append, trim, hand over
what was trimmed; store, enrich, index, search, cache, clear, drain, catch up at the
start. *Hard.* Read-modify-write without a lock over a network; delete-then-create; two
writers of one list; a build of the index that overlaps a store; `SCAN` and `DEL` racing
with a write; shutdown with tasks in flight. *Correct when* what was said to be
remembered is, the working memory is the end of the conversation and what left it was
handed over once, collection and index agree, and no cached search outlives the fact that
refutes it.

### Retrieval, assembly, budgets: `memory/retrieval.py` and its rankers, `memory/wave2.py`, `memory/l3_pack.py`, `memory/context_assembler.py`, `memory/context_budget.py`, `memory/aits.py`, `memory/temporal_route.py`, `memory/episodic/chunks.py`

Pure computation from what was found to what is shown. *Hard.* Each step reorders and
cuts; the exceptions (what a named date found, the neighbours of a seed, the pinned
opening) must survive all of them; the window of time is guessed in several attempts.
*Correct when* the second wave takes nothing from the first, shares keep to the budget
and their guarantees, spans lose no word, the window is around a moment the query names.

### Around the bot: `memory/observability*.py`, `memory/analytics.py`, `benchmark/`, `scripts/`, `setup/`, `run.sh`, `tools/goat_skills/`

What turns write down of themselves and the totals they share; a benchmark that reads
differences of these totals; two scripts that rewrite the live collection; the wizard and
its files; the skills that write and read the host's files. *Hard.* Overlap, exceptions
half way, kills between two writes. *Correct when* totals are what the turns did, a case
is measured by its own turns, no row, key or acknowledged write is lost.

### The rest

The service registry is a set of lazy singletons; the admin panel (`admin_panel/`) and
the MCP server (`mcp_server/`) read the stores and change nothing; the other skills wrap
one call of a service each; the configuration is read once.

---

## 2. The modules and the code they stand for

    DagGraph ---- CycleCheck ................................... PartsProofs
       |  \------ AffectedSubgraph ---- DagRestart ..................... PartsProofs
       |--------- DagExecution <......(refinement)
       |                             :
       '--------- DagRunner -- DagRunnerProps -- DagRunnerProofs

    DagManager -- DagManagerProps -- DagManagerProofs
    ActivationTurn ----------------- ActivationTurnProofs
    ToolLoop -- ToolLoopProps ------ ToolLoopProofs
    HostFiles ..........................'

    Agents ---- AgentChat .......... PartsProofs
       '------- AgentNodes ......... PartsProofs

    PermanentMemory    WorkingMemory    EpisodicMemory ......... MemoryProofs
    BotUpdates         BotRuntime       PluginHost ............. ServicesProofs
    Replies .................................................... ServicesProofs
    PromptBudget       ChunkSpans       TemporalRoute .......... PartsProofs
    Observations ---- Measurements ............................. PartsProofs
       '------------- Benchmark ................................ PartsProofs
    EpisodicScripts    Setup ................................... PartsProofs
    Retrieval .................................................. RetrievalProofs

The `MC...` modules and the `.cfg` files give the constants values for TLC. Modules
whose state has nothing in common are checked in one run, one beside the other:
`MCMemory`, `MCServices` and `MCParts` have a variable (`tier`, `part`) that says which
module a behaviour is of and leave the state of the others alone. The sum of their
state spaces is explored, not the product.

### Workflows

**`DagGraph`.** A DAG is a function from its nodes to the sets of their dependencies, as in
`DAGGraph.dependency_map`. Acyclic is defined without recursion: no nonempty set of
nodes each of which depends on another of the set. That is the reference for
`_assert_acyclic` and is what the proofs can reason about.

**`CycleCheck`: `_assert_acyclic`.** Kahn's loop step by step: the queue, the in-degrees,
the count of visited nodes, and the verdict with the nodes it names. `DagRunner` uses
the reference `Acyclic`; `CycleCheckCorrect` is what allows it to.

**`AffectedSubgraph`: the search of `restart_failed`.** `_compute_affected_subgraph`
(breadth-first search from the failed nodes over the dependents) and
`_build_subgraph_specs` (dependencies outside of the subgraph are cut). The reference is
the smallest set that holds the failed nodes and is closed downstream. The specs may
spell the dependencies under two keys, of which the search reads one: the constant
`Aliased` is the set of nodes spelled the other way, and the run takes it empty, as the
tools write the specs (see section 6).

**`DagRestart`: `restart_failed` over two runs.** What the first run has in Redis is followed
from moment to moment. The status carries the node states from the time they change
(`_notify`), and since several nodes write it at once, `erring` is that of any write so far
(`writes`). The results are written once, at the end of a run that failed; until then the key
holds those of an earlier run of the id, or none (`kept`, `fresh`). The first run may go on,
fail, be stopped, with its nodes working on, or die. At any of these moments `restart_failed`
reads the status (`told`) and, in a second step, the results (`seeded`), and starts the
second run with the affected nodes, the reduced specs and, as its initial context, these
results. `begun2[n]` is what node `n` of the second run sees.

**`DagRunner`: one `WorkflowRunner.run`.** `main` is where the coroutine `run` is, `phase[n]`
where the task of node `n` is, at the awaits of `_execute_node`:

| `phase[n]`  | the code |
|-------------|----------|
| `created`   | the task exists and has not begun |
| `notifying` | inside `_notify`, the state being `nodeStates[n]` |
| `acquiring` | `async with sem` |
| `running`   | inside `wait_for(runner)`, holding a permit |
| `backoff`   | `asyncio.sleep(retry_delay)` |
| `finished`, `cancelled`, `dead` | over: returned, cancelled, or ended by an exception of its own |

`batch` is the set `done` of `asyncio.wait` that `run` is going through; no other
coroutine moves meanwhile, which is why every task action has `batch = {}` as its
guard. `cancelReq` holds the tasks on which `cancel()` was called and into which the
exception was not thrown yet: `Resumes` says that such a task does nothing else, and
`AttemptEnds` that `wait_for` is the exception, handing over a result that is ready.
`Stop` is the cancellation of `run` itself, which `asyncio.wait` does not pass on to the
node tasks and `gather` does.

**`DagExecution`: what the runner promises.** Five variables and five actions: nodes begin
when their dependencies completed, the verdict is success only when every node was gone
through (its end was taken up, and it was no failure), success and failure come only when
nothing executes, a cyclic graph is rejected before
anything begins, a stopped execution only promises not to begin anything.
`DagRunnerProps!Execution` is the refinement mapping: `begun` are the nodes with a task,
`ended` those whose task is over, `completed` the keys of the context.

**`DagManager`: `_run`, `start`, `stop`, the status and result keys, the chat's lock.**
`phase[d]` is the await that the task `_run` of DAG `d` is in, from `spec`
(`set_graph_spec`) to `ended` (over, the done callback not called yet). Every await on
Redis ends in one of three ways, given by the three tables `AfterOk`, `AfterError` and
`AfterCancel`; a failing or cancelled operation may or may not have taken effect. What a
run wrote bears its number, `gen[d]`, so that what a previous run of the id left is told
apart. `alive[d]` are the runs with a node task alive, the orphans that `DagRunner` shows
a cancelled run leaves included; they go on writing "running". The lock of a chat is
held by a user turn or by the completion turn of a DAG; a turn may start and stop
DAGs. `wait[c]` is the `gather` of a `stop` called by the turn of chat `c`; a
cancellation that arrives in a turn that is itself waiting is passed on to the task
waited for, as `gather` does. `DagManager` uses of `DagRunner` only what is shown there: a
result is returned when no node task is alive (`ReturnsQuiet`), and a cancellation may
leave some (`runner_stop`).

**`Agents`, `AgentChat`, `AgentNodes`.** `Agents` is the table of the seven agents: the tools each
registers and those its `execute` offers. `AgentChat` is one `execute` (`base_agent.py`):
the model is asked, calls tools or writes them as markup, each call is answered by a
result or an error, and so on until a text or the last round; the model is a choice, its
service may raise. Markup without a whole call in it (`torn`) is the answer as it stands;
arguments that are JSON but no object end the chat with an exception and the call
unanswered. `AgentNodes` is several tasks of one run at once, from the moment their
runner picks an agent (the router's cached one, or a fresh one whose tools are bound to
the node's sandbox): pushes to the outbox, `dag_check_inbox`, the run's memory, the file
tools, with the await between the look and the write of `file_create`. A file tool resolves the
path it is given; what the pattern of a search matches is a choice, inside of the root or out.

### The turn

**`ActivationTurn`: the life of a chat's activation.** `stored` is the blob in Redis, `cur`
what the current turn read, `job[t]` what the prefetch task of turn `t` was given and
`bg[t]` how far it is. The number of a turn stands for its origin time. A turn begins with
the read, the embedding (which may fail) and the classification; a cold or drifting turn
searches; the model answers and may have stored a fact; the turn may fold it in with
`_enriching_refresh` (search, then write under the old `ts`); it leaves its prefetch task
behind, which writes at any later time, fails, or is lost at shutdown. `CompareAndSet` is
the Lua script. The blob keeps topic, results, recent queries, `turn_count` and archive;
the numbers behind the classification are a choice of the model, as is what a search
finds among the facts. `Sifted` is the loop that takes a topic out of the archive before it
is put in at the end.

**`ToolLoop`: the model and its tools within a turn.** `pc` goes from the first call through
the structured loop (`tools`, `ask`), the DSML loop (`dsml`, `dsmlTools`, `synthesis`), or
the one and then the other, to the last guard (`reply`). Tool calls are numbered in the
order they are executed; `log` and `found` are `calls_and_results` and `stored_contents` of
the current loop, `summary` and `stored` those of the turn. A content is abstracted to
whether it holds prose, what markup it holds, and whether it ends within a tag (`cut`). The output of a tool is a size; `spent`
counts it as the code does, across both loops. `late` is a counter of the model only:
answers executed although the cap was exceeded.

**`Observations`, `Measurements`, `Benchmark`.** `Observations` has no state: the record a turn
fills in and how it is folded into the counters, stage by stage (`AfterStage`), for a turn that
follows a given *course*: what it searched, kept and injected, and where it raised. A warm turn is
served what the activation holds, and one that names a date searches for it after that and
keeps what the size filter leaves of both. `Measurements` overlaps turns that may raise at any stage and fold into
one `MemoryAnalytics`. `Benchmark` runs its cases in sequence and reads what a turn did
off two snapshots of those counters; a turn may raise. What a turn really did, its own error
included (`OwnOf`), is kept beside what the benchmark read for it.

### The memories

**`PermanentMemory` (L1).** An action is one HTTP request with the code up to the next one:
`step[t]` is the request task `t` waits for, `agent[t]` the agent in its URL. The agent is
looked up by name (or created), checked for its identity block, and deleted and created
again without it. `promote`, `forget` and `identity` read the block, change it and write it
back; a request may fail, the process may start again. `blame` is a ghost: what happened
that may cost facts (overlapping writers, two agents of one name, a failure within a
rebuild).

**`WorkingMemory` (L2).** The list of one chat: each turn reads, appends its two messages and
writes; a background task per turn drops chunks beyond the cap and hands them to the
enrichment. Both hold the lock of the chat. A write may fail after it took effect or
before, the key may expire, the process may start again. `written` and `handed` are the
conversation and what left the list.

**`EpisodicMemory` (L3).** Three kinds of background task per entry (archive, enrichment after
the write, enrichment at the trim), the lexical index (`built`, `docs`) whose lazy build
reads the collection in a thread while stores go on, the cached search and the search
that will fill it, `drain_background` in its two stages, a crash, and the next start with
its catch-up of chunks.

**`Retrieval`, `PromptBudget`, `ChunkSpans`, `TemporalRoute`.** Algorithms as steps over small
inputs. `Retrieval` takes every pattern of candidates of three mechanisms (the dense searches are one)
through fusion, boost, reranking, the second wave, the cuts and the packing, or into the answer of
`search_memory`, with its own limit and its own `after` and `before`. A loop of the code is
a `Fold`, a comprehension `Only` of a set, `list.sort` is `Sorted`: insertion by a key, stable as
Python's sort is, which matters, because equal scores keep their order through four sorts. `PromptBudget` begins with
the settings: what `memory.toml` gives over the defaults, refused or accepted by the
validator (`config_validator.py` looks at a part of them; the floor of L2 and the guarantee of
L3 it never sees, and a cap alone it does not compare with the base). What was accepted
splits a turn's tokens and trims the conversation. `ChunkSpans` cuts an entry into spans of
words, each of a cost of its own (`Sums`), and rebuilds the text around one. `TemporalRoute` finds
the window a query asks for in what the date parser returns: the first fragment with an hour, and
where its year cannot be meant, the first of whatever a second reading finds.

**`EpisodicScripts`.** The repair (export, backup, drop, create, add back in batches, verify)
and the deduplication of the collection, killed at any step and started again, with a
bot that may still be storing rows.

### The bot and the host

**`BotUpdates`.** Updates are offered by Telegram until confirmed, fetched into a queue,
recognised by the set of ids in Redis, handled. `/update` and `/rollback` move the work
tree, install the requirements and replace the process; the command line does the same
without the process. `tree`, `deps` and `running` are the versions of the three; any step
may fail, and the process may crash at any time.

**`BotRuntime`.** The warm-ups of the start, the turns that share the lock of the admin's chat
(user messages, notices, completions), the poller of the coordination hub whose batches
are cut into digests and become turns, the background tasks that turns leave, and the
shutdown that stops the poller, waits and drains.

**`PluginHost`.** `disk` is the newest version of each file, `kindOf` what an import of it does;
a scan notes the mtimes and imports, an import reads whatever is there by then. A module
is the pair of the versions its first statements and its `build()` come from.

**`Replies`.** Blocks of HTML packed into messages, cut when too long, and what is sent in
plain text after a refusal, which may hit any message. A block is its text as rendered; what
Markdown itself leaves out of it is not followed. A reply that renders to no block (`bare`) is
one message, its text cut at the limit.

**`HostFiles`.** Calls of `write_file` and `read_file` in threads of their own, over inodes, paths
and temporary names: each system call an action that may fail, and the process may end
between any two. A content is the sequence of the halves written to it, so that order,
repetition and mixture are seen (`Holds`, `Lacks`, `Unmixed`). `overlapped` are the paths on
which an overwrite met another write.

**`Setup`.** `run.sh`, the checks and the wizard with the two files it writes; it may be left at
a question and killed at any step, and a file being written stays cut.

---

## 3. The runs

A property is worth its run when a plausible mistake in the code breaks it. Each one has
a *mutant*, an operator beside the definition it alters (a dropped guard, a wrong
table entry, a missing reset), with which TLC finds the property violated. A property
that is a conjunction of named parts has the parts, with their comments, above it.

| run | what it asks | bounds | distinct states |
|-----|--------------|--------|-----------------|
| `runner` | scheduling, permits, results, refinement of `DagExecution`, termination | 3 nodes, every acyclic shape and one cycle, 2 permits, one conditional node, one node that may retry after a delay, sandboxes that may fail, a stop at any moment | 44 thousand |
| `manager` | lock, verdict, result, stops | 2 ids, 2 chats, 2 stops; one scene with 2 runs of one id and 2 faults, one with a run of each id and 1 fault, after a successful run of each | 977 thousand |
| `manager_live` | runs end, stops return, chats are told | 1 id, 2 runs, another chat stops it, 2 stops, 1 fault | 16 thousand |
| `activation` | the store under late writes | 4 turns, 2 facts, window 2, archive 3 | 1.8 million |
| `memory` | L1, L2, L3 | L1: 2 tasks, 2 keys, cap of 1 fact, 3 operations, 1 failure, 5 agents. L2: 4 turns, cap of 2, surplus 2, chunks of 1, 1 upset. L3: 2 entries, 1 trimmed, 2 starts, 1 fault | 2.2 million |
| `services` | tool loop, updates, runtime, plugins | loop: 3 iterations, continuation of 2, 2 calls per answer, small results and oversized ones, 2 stored facts. updates: 3 updates, 2 versions, a crash, an update by hand, a failing step. runtime: 3 messages on the hub, 2 to a batch, 1 user turn, 1 stop, 1 failure. plugins: 2 files, 3 edits | 879 thousand |
| `parts` | fifteen small parts | see `MCParts.cfg` and below | 1.06 million |
| `manager_deadlock`, `runner_stop`, `activation_fold`, `l1_rebuild`, `restart_inputs` | violated: section 6 | | |

Why these bounds are enough to be interesting:

- *Three nodes* give every way two dependencies can meet (chain, fork, join, triangle,
  independent), a node with two dependencies that end in the same or in different turns of
  the event loop, and a node left waiting for a permit when two are taken. Two permits
  for three roots make the semaphore matter. One retry with a delay reaches every
  phase of a node. The conditional node may be skipped or raise. The cycle check, the search
  of a restart and the restart itself see all 512 graphs on three nodes, and the search
  every set of failed ones.
- *Two runs of one id* is what makes stale status and results possible; *two ids* let the
  completion turn of one stop the other and be cancelled while it waits. *Two stops*
  make a cancellation arrive in the handler of another; *two faults* make a handler's
  own write fail. Two chats let one start and another stop.
- *Four turns* let a prefetch task be overtaken by two later ones and let the
  conversation leave a topic, come back and leave it again, which is what it takes to
  archive a topic twice. The window of 2 and an archive of 3 make the first trim and
  the second not.
- *Three iterations and a continuation of two* differ, so that a budget taken for the other
  shows; the cap of 7 is reached by one large result or by eight small ones, before, at
  and after the last iteration of either loop.
- *L1.* A cap of one fact makes the second promotion refused; two tasks interleave in every
  request; five agents allow a twin, a rebuild, and a restart in one behaviour.
- *L2.* Four turns of two messages against a cap of two give up to three trims, so that a
  trim overlaps a later turn and a later trim; chunks of one take several saves each.
- *L3.* Two entries allow one to be stored while the index is built from the other; two
  starts, because what a crash leaves is repaired at the second.
- *Updates.* Three updates against a queue let one be confirmed, one be handled and one be
  fetched when the process is replaced; two versions are one step forward and one back.
- *Runtime.* Three messages with room for two make two digests, of which the first may be
  delivered and the second fail.
- *Plugins.* Three edits are good, broken and good again, or a file that goes and comes back.
- *An agent's chat* has two rounds of up to two calls. *Two tasks* with two calls of tools
  and two messages interleave take with take and look with write.
- *Retrieval* has five entries (`Entries`) in two topics, of which one is too small to show and one is
  from the named date, budgets of 2 and 4 tokens and scores that pass or fail the threshold.
- *Budgets* are the defaults of the code and files that change some of them: as shipped, with a
  cap below the base, with values the validator refuses. The lengths of the parts are chosen
  below, at and above each of them.
- *Files.* Four writers (create, overwrite, append) and a reader on two paths, with one kill.

What the properties mean:

- `runner`. `DependencyInputs`: a node sees all its dependencies and nothing of a node that
  failed or still works. `SemaphoreConserved`: free permits and running attempts add up.
  `ResultSound`: the result agrees with itself and with what happened (`InputsAreSettled`,
  `ExecutionOrderTopological`, `SuccessMeansCompleted`, `FailureEndsOrder`,
  `ConfidenceMeaning`). A node whose directory cannot be made is nowhere in the result: both the
  success and the confidence say nothing of such nodes, by name in the formula
  (`SuccessHasOutcomes`, without them, does not hold). `VerdictIsQuiet`, `AbortIsFinal`: nothing works on behind a returned
  result, nothing begins during an abort, and what was returned stays as it is.
  `ImplementsExecution`, `Termination`.
- `manager`. `ChatSerialized`: the lock is held by the one turn of the chat, however
  turns end. `NeverFalseDone`: "done" is never said of a run that did not succeed,
  whatever fails, stops or was left by an earlier run. `VerdictKept`: with a working Redis
  the verdict and the result of that very run are there. `StoppedRunWindsDown`: after a
  stop was delivered the run records no verdict.
- `manager_live`. `RunsAndStopsEnd`, `ChatIsTold`.
- `activation`. `NeverClobbered`: an update that landed is never undone by an older
  one. `ActivationSound`: the turn whose time the blob bears asked its newest query and is
  archived under its topic (`BlobIsOneTurn`), count and archive are right across breaks and
  returns (`CountWithinTopic`, `ArchivedDistinct`), what a warm turn folds in is served to
  the next turn (`WarmFoldServed`).
- `memory`. `PromotedKept`: a fact promised stays until it is forgotten, unless two tools wrote
  at once, two agents of the name exist or a request failed within a rebuild; the block keeps to
  its cap but for the first two of these. `HistoryKept`: the list is the end of what was written, whatever
  overlaps, fails or starts again; and if nothing failed, what is missing from it was handed
  to the enrichment, once.
  `IndexKept`: collection and index agree once tasks are over, unless the index was built
  while turns ran. `DrainComplete`: a clean shutdown leaves nothing of the turns answered
  before it undone. `CacheFresh`: the cached search shows what was cleared for.
- `services`. `LoopBounded`: one call for the question, one per iteration, one per iteration
  of the continuation, and past the cap on output at most one more answer is executed.
  `ReplyIsClean`: on no path empty, or with a block or a whole tag of markup; a tag that the end of
  the reply cuts may be left (`NoRawMarkup` does not hold). `EvidenceKept`: every call and
  every fact is recorded once, over both loops. That a turn ends follows from the bound,
  since every state but the last has a successor. `UpdatesSafe`: no update is handled
  twice across crashes and restarts, and what is started has its requirements.
  `CoordHeard`: what is acknowledged was shown to the admin or refused by Telegram, and everything
  comes that far while the bot stays up; a refused one is acknowledged too (`CoordReaches` does
  not hold).
  `PluginsSound`: after a scan of files at rest, tools are of the newest version, and a
  plugin's tools vanish only with its file.
- `parts`. `VerdictCorrect`: a graph is accepted exactly when acyclic. `RestartSound`: the
  search finds the failed nodes and all that depends on them, and the second run repeats
  none of the first's work, at whatever moment of the first it is started: no node that is
  over with an outcome runs again, nor one that is still at work, and results that are of the
  first run go to the second complete. `ChatSound`: every call is answered before the next
  request, within the bound of requests, and a whole call in markup is the answer only when
  no tool could be called any more.
  `NodesSound`: tools act for the task that called them, and write and name paths in its
  workspace only (what a pattern matches is free: `SearchesStayInside` does not hold); messages are
  taken once, the oldest first. `RetrievalSound`: the second wave takes nothing of the first
  from the prompt or from the tool's answer (`WaveTakesNothing`); what was found, by its date or
  otherwise, is lost before the packing only to a cut that is full (`CutWhenFull`); a neighbour
  comes with its seed, and of what the named date found and the cuts left, a line is missing
  only for want of room (`PromptIsSound`).
  `SharesKept`: settings that are accepted are positive where they must be, the shares stay
  within the budget, the conversation kept is recent and without holes, and L3 has its guarantee
  less the stamps, unless a single message is larger than the share of L2. `SpansSound`: the spans leave out no word, go
  forward, outgrow their size only by a single word, and what is shown for a chunk holds it. `WindowIsMeant`: a window never
  comes from a filler word, a digest or a year that cannot be meant; where the first hour named can be
  meant it is the narrow one around it, whatever days are named beside it; and a query with hours
  gets a day's window only by the retry (which may pass over an hour: `HourComesFirst` does not hold).
  `TurnsAccounted`: each turn is in the totals once and the shares of the report add up, wherever turns
  raise; a warm turn that was served counts as a success too, unless the date it names left it with nothing.
  `CasesAreTheirOwn`: each question is measured by what its own turn did, but for the error of an
  earlier repetition, which stays (`ErrorIsTheTurns` does not hold); and the metrics add up over the cases. `RowsSurvive`: a row that a script
  has read is in the collection or in a backup, wherever it is killed, unless a backup of the same
  name was written over; a duplicate is removed beside an equal row only. `SetupKept`: the old
  files or their copies survive a session left at any step, and a complete one wrote both
  files from the same answers. `RepliesWhole`: every character arrives, once, in order, but for
  a reply without a block that is longer than a message (`NothingIsCut` does not hold).
  `FilesWhole`: an overwrite is seen whole or not at all, and an acknowledged write is there,
  on every path on which no overwrite met another write.

Deadlock is checked in `runner`, `manager_live` and `activation`, where `Quiescent` is the
state in which everything has come to its end. In `manager` the system really can stop
(section 6), and the modules beside each other in `memory`, `services` and `parts` simply
come to their end.

Properties that are stated and have no run, because what the code says of them does not hold
(section 6): TLC finds each of them violated in a short behaviour as soon as the `.cfg` of its
module's run names it.

| stated in | property |
|-----------|----------|
| `DagRunnerProps` | `SuccessHasOutcomes` |
| `DagRestart` | `CompletedAreInjected` |
| `AgentChat`, `AgentNodes` | `FailuresAreAnswered`, `SearchesStayInside` |
| `ToolLoopProps` | `NoRawMarkup` |
| `TemporalRoute` | `HourComesFirst` |
| `Benchmark` | `ErrorIsTheTurns` |
| `Replies` | `NothingIsCut` |
| `BotRuntime` | `CoordReaches`, `ShutdownLosesNothing` |
| `PluginHost` | `NewFilesAreImported` |

## 4. Fairness

- `DagRunner`: weak fairness of `run` and of each node task, because the event loop serves
  every coroutine that can go on, and because an attempt is bounded by `wait_for`.
  None for `Stop`.
- `DagManager`: weak fairness of each DAG's task, of the end of a user turn (the model is
  called a bounded number of times, each with a timeout of the client) and of the return of
  `stop`; strong fairness of `EnterChat`, because `asyncio.Lock` wakes its waiters in
  order, so a completion that waits gets the lock however many messages follow. None for
  starting, stopping, or faults.
- `BotRuntime`: weak fairness of the poller, whose loop sleeps a fixed time between two
  polls, and of the end of a turn, for the reason above. None for messages, failures or
  the shutdown.
- The other modules have no liveness properties and assume no fairness.

## 5. What is proved

TLAPS proves these for every value of the constants: any finite set of nodes and graphs,
any number of permits, retries, DAGs, chats, runs, stops, faults, turns, iterations, entries,
writers and files. The assumptions are those named in the modules, and nothing else; each is
evaluated by TLC in the run of its module. Every safety property of the passing runs has its
theorem.

| theorem | module | from |
|---------|--------|------|
| `TypeCorrect`, `SemaphoreSafe`, `InputsComplete`, `ReturnsQuiet`, `RunnerImplementsExecution` | `DagRunnerProofs` | `IndInv` |
| `ResultIsSound`, `AbortStaysFinal` | `DagRunnerProofs` | `IndInv`, `ResultInv` |
| `CycleCheckCorrect` | `PartsProofs` | its loop invariant |
| `TypeCorrect`, `OneTurnPerChat`, `DoneIsTrue` | `DagManagerProofs` | `Started`, `DoneInv` |
| `VerdictIsKept`, `StoppedWindsDown` | `DagManagerProofs` | `ManagerInv` |
| `LateWritesLose` | `ActivationTurnProofs` | `TimesInv` |
| `ActivationIsSound` | `ActivationTurnProofs` | `BlobInv` |
| `PromotedIsKept` | `MemoryProofs` | `L1Inv` |
| `HistoryIsKept` | `MemoryProofs` | `L2Inv` |
| `CacheStaysFresh`, `DrainLosesNothing`, `IndexStaysTrue` | `MemoryProofs` | `L3Inv` |
| `UpdatesAreSafe` | `ServicesProofs` | `UpdatesInv` |
| `PluginsAreSound` | `ServicesProofs` | `PHInv` |
| `AdminHearsTheHub` | `ServicesProofs` | `BRInv` |
| `RepliesArriveWhole` | `ServicesProofs` | `RepliesInv` |
| `CallsAreBounded`, `OneLateAnswer`, `LoopIsBounded`, `CleanReply`, `EvidenceComplete`, `FactsReported`, `EvidenceIsKept` | `ToolLoopProofs` | `CallsInv`, `LateInv`, `RecordInv` |
| `FilesAreWhole` | `ToolLoopProofs` | `FilesInv` |
| `RestartIsSound` | `PartsProofs` | `WalkInv`, `RestartInv` |
| `ChatIsSound`, `NodesAreSound` | `PartsProofs` | `ChatInv`, `NodesInv` |
| `SharesAreKept`, `SpansAreSound`, `WindowIsOfTheQuery` | `PartsProofs` | `BudgetInv`, `SpanInv`, `TempInv` |
| `TurnsAddUp`, `CasesKeepApart` | `PartsProofs` | `MeasInv`, `BenchInv` |
| `RetrievalIsSound` | `RetrievalProofs` | `RetrievalInv` |
| `RowsDoSurvive`, `SetupIsKept` | `PartsProofs` | `ScriptInv`, `SetupInv` |

*The runner.* `TypeOK` is inductive, apart from the permits, which need
`SemaphoreConserved` to be natural: the two are proved together, each step moving one
node in or out of `Running`. `DependencyInputs` is not inductive, because why a node is
created when its count reaches zero lies in three other facts. `IndInv` adds them:
`Counting` (the in-degree is the number of dependencies missing from the context;
nothing is created before it is zero), `Bookkeeping` (how batch, active tasks and the
order fit together: a task in the batch is over, every live task is active until the run
is stopped), and `NothingForgotten` (while the run goes on every node is created,
queued, or misses a dependency). The last is why a run with nothing left to do has
completed every node: the nodes not completed would each wait for another one of them,
which `Acyclic` excludes. Refinement follows action by action.

*The runner's result.* What a result says speaks of all that happened before it, so
`ResultInv` carries it along, in four parts. `Recorded`: a task that is over by itself left
exactly the record it should, and one in `errors` has used up its attempts and tries no more.
`CancelledInTime`: no task is cancelled until a node fails, and from the moment the abort
begins every task that was created and has not begun is. `Settled`: the context holds what
finished without failing, inputs come from it, and the abort's order is the context and the
node that failed. `ExecutionOrderTopological` is inductive on top of `IndInv`, which has the
dependencies of a node in the context before the node is created. From these follow
`ResultSound` at the return and, step by step, `AbortIsFinal`: a task created but cancelled
can only end, and after the return nothing is live that could touch the records. That the
confidence is full exactly when nothing failed or was retried is arithmetic: the sum is
below 100 times the length of the order, or equal to it, and so the quotient.

*The cycle check.* The invariant relates the count of a node to the dependencies not yet
visited; at the end the nodes that were not visited wait for each other, or there are
none and the order of visits excludes any such set.

*The manager.* That "done" is true needs to know, phase by phase, which run wrote the
status: before the runner returns it cannot be the current run, and between the verdict
and the report the current run has written, or the status is not "done" (`DoneInv`).
A number of earlier runs bounds what the orphans may write. The lock is inductive by
itself, with the type invariant. The proofs start from `Init`, in which no id was used; the
run `manager` starts from states with earlier runs, which `Init` leads to.

*The manager's verdicts.* A task is out of the working phases once its cancellation was
delivered, and only a new run brings the id back into them; that the run waited for is not
one to come, and that the waiting turn keeps its lock, is `WaitsRight`, which makes
`StoppedRunWindsDown` inductive. `VerdictKept` speaks of states without a fault and with one
stop at most, so its invariant has to say what one stop can do: `OneStop`, a single DAG is
cancelled, and once, because the turn that would pass a cancellation on would have to wait
for its own DAG, against `WaitsRight` and `ChatSerialized`. `VerdictInv` then follows the
verdict from the runner's return through the keys to the report, phase by phase; it needs
`DoneInv` for a cancellation between a failure and its record.

*The updates.* What was handled stays in the set of seen ids, which no restart empties
(`Guarded`). `Installed` and `Noticed` say that between pip and the restart the tree is the
one pip installed for, unless the shell and the bot were at it together, and that this does
not go unnoticed. The type invariant is proved in parts, since a step touches few of them.

*The plugins.* That the tools are the newest after a quiet scan follows from what a scan knows of
a file half way through. `Agreed`: a module whose mtime is that of a good file is that file, whole,
since a broken reload keeps the old mtime and an edit after the stat gets a newer one.
`QuietScan`: the good files a scan has passed are loaded as they are. `Working`: a plugin without
a module has tools only between the loss of its file and the swap of the same scan.

*The hub.* `CoordSeen` needs that a batch is shown or refused before it is acknowledged, at each
await of the poller (`Batched`). That every message comes that far is liveness, and stays with TLC.

*The replies.* `RepliesInv`: what has arrived and what is still to come, without their line breaks,
are what the reply comes to (`ComesTo`): its text, or, of a reply without a block, what the cut at
the limit leaves (`CutIsShown`, `BareIsItsText`). That each way of cutting keeps this is said by lemmas about the operators:
a piece and what is beyond it are the text (`PieceIsCutOff`), so all pieces are
(`PiecesAreTheText`), each within the limit (`PiecesAreShort`); what has been gathered and what is
in hand carry the blocks so far (`PackGoesOn`), so the messages carry the reply
(`ChunksAreTheText`), and cutting what is left of them loses nothing (`PlainIsTheRest`). They rest
on the algebra of `FlattenSeq` and `Solid` (`FlattenTwo`, `SolidTwo`), which take a
concatenation to a concatenation.

*The activation.* `TimesInv` says that the blob and everything that turns and tasks have
read bear times of turns before them; with it, the compare-and-set makes the time of the
blob grow, and never fall below a write that landed. `ActivationSound` speaks of the blob only;
`BlobInv` says the same of every copy: what the turn and each pending task have read is a blob
that was stored once (`ReadOK`), bears no time newer than the stored one, and was filed under the
topic of its work (`BlobsInv`). `UpdateIsRead` shows that the update computed from such a copy is
such a blob again, and the compare-and-set stores one or the other. The fold of a warm turn is
followed to the next turn by `FoldsInv`, which needs that the task had nothing left to wait for
(`Calm`). That the archive holds no topic twice is a fact of `Sifted`, a recursive function whose
existence and meaning are proved by a smallest counterexample (`SiftedBuilds`, `SiftedKeeps`).

*Permanent memory.* `PromotedKept` excepts what `blame` names, so the invariant says what holds
without each entry of it: one writer (`OneWriter`), one agent (`OneAgent`), every request of a
writer aimed at the agent in the cache (`L1Aims`), and the confirmed facts in that agent or,
between deletion and restoring, in the hands of the writer that rebuilds it (`L1Kept`). The cap is
kept by a claim on what a writer is about to store (`L1Cap`).

*Working memory.* That the list is the end of the conversation is inductive with the mutual
exclusion of the lock, whatever fails (`EndInv`). That what is missing was handed over once is the
account `TrimInv`: the messages gone are those handed over and those that one task carries, and no
message is with two of them. `CountInv` numbers the messages, so that the account can speak of
numbers, and `DueInv` finds the task of a list that is too long.

*Episodic memory.* `OrderInv` says how far each entry is; `DrainInv` that both drains wait for what
is under way of every early turn; `IndexInv` that an index built at the start misses only entries
on their way to it; `CacheInv` that a search that will fill the cache has read what was cleared for,
unless the clearing crossed it.

*The restart.* The search is a least fixed point: what was taken are descendants, and what left the
frontier left its children behind (`WalkInv`), so at the end the set is closed. In the first
run no node begins before its dependencies are settled, so nothing downstream of a failure can be,
at whatever moment the status is read; every status written names only nodes that had failed by
then and fail for good; and the results are of this run only when nothing of it is at work
(`FirstRunInv`, which each step of the first run keeps by `FirstRunGoesOn`). What the
second run was given follows from it (`SecondRunInv`). The hypothesis `Aliased = {}` is that the specs spell dependencies one way;
section 6 says what happens otherwise.

*An agent's chat.* The history is an answer of the model followed by the results of its calls, in
order, before the next answer (`HistoryInv`); what is missing of the last group is what the loop is
about to add (`WaitingInv`). *Tasks of one run.* Tools bound to the object of a task name that task
(`EquipInv`); numbers of messages fall in the inbox, rise in what was taken, and everything taken is
before everything that waits (`LineInv`), which is the order in which they were sent.

*Budget.* `ShareInv` and `TrimInv` relate the kept messages to the share of this turn; that they fit
needs the sum the trim carries along, since the stamps of the rendering are not in it.
*Spans.* What `SpansSound` says of the spans is not inductive. `SpanInv` adds where the next one
begins, within the last, and that it will end no earlier: `EndsRise`, from `CostRises`, which is
about the recursive sum of the words' costs (`SumExists`, `SumsBuild`).
*The window.* `TempInv` follows the picked fragment: kept, and the first with an hour where there is
one, or of the second reading, and then only if what the first gave could not be meant.

*Retrieval.* That the second wave takes nothing from the first compares two computations, the one
with neighbours and the one without, through the cut, the packing and the budget. The argument is
algebra. `Only` goes through concatenation (`OnlyBoth`) and composes (`OnlyTwice`). A
descending sequence is, for any bound, what is above it followed by the rest (`SplitAt`); so an
insertion changes places with `Only` (`InsertOnly`), and so does the stable sort (`SortedOnly`).
With it the originals in what is filtered and packed are what would be filtered and packed of the
originals alone (`GapFilterIs`, `PackOrderIs`), and the budget adds neighbours only to what
`pack_lines` chose without them (`FitIs`). The invariant `RetrievalInv` holds what this needs of the
earlier stages: fusion, boost and reranking give originals, each entry once (`Firsts`), and what is merged is the
first `Limit` of them followed by neighbours whose seed is among them and which repeat nothing
(`Followed`). That nothing is lost but to a full cut goes through the stages too: merging, boost and
reranking keep the entries they are given (`MergedHas`, `BoostedHas`, `RerankedHas`) unless one is cut, and
a cut that loses something leaves exactly its limit (`CutIsFull`). The tool's range goes through the
sequence as `Only` does (`WithinIs`). `FusedOK` and `MergedOK` say so stage by stage, and `ShownOK` ties the prompt and the
listing to the sequence they were made of. That a repeated entry would break it is why each lemma
carries `Distinct`: the tokens of the chosen lines are those of the choice only where none is there
twice (`TokensOfChosen`). The results themselves are by induction on a sequence, from the least
length at which the claim would fail (`SeqInduction`). Nothing is assumed of
the constants but their types: limits, sizes and budgets are naturals, what is found are entries, the
scores of the cross-encoder are integers; of `Topic`, `Significance` and `Window` not even that.

*Accounts of the turns.* `After(o, n)` says what an observation holds after `n` stages, for each `n`,
so that `Observed` covers a turn that raises anywhere. `RecordAddsUp` folds one such observation into
totals that add up and moves each sum by what the turn did; `TallyInv` then ties the totals to
the number of turns that ended and that reached a stage, and `ServedOrEmptied` a warm turn that was
served to a success or to a date that left it with nothing. *Benchmark.* While a turn is under way the
first snapshot is the counters (`CountersInv`), so the difference is the turn's own
(`DifferenceIsOwn`), but for the error, which is that of the turns so far (`ErrorsAreKept`,
`ReadIsKept`); the metrics of a repetition are cardinalities of disjoint sets of results
(`ResultsAddUp`).

*Scripts.* `RowsInv` says step by step where the rows read are: in the collection, in the backup of
this start, or in one of an earlier start, unless one of a given name was written over.
*Setup.* `FilesStand`: what stood when the form began is the file, or its backup, at each stage.

*Files.* `FilesWhole` speaks of the file that has a path now, but an overwrite gives the path to
another inode and a reader keeps the old one. So every inode has one path it belongs to (`HomeInv`),
a temporary file is nobody's until it is moved (`ApartInv`), an overwrite that met no other
write runs alone (`AloneInv`), and contents are followed in the temporary file (`TempInv`), in the
file that is appended to (`AddsInv`), at the path (`NamedInv`) and in what a reader has so far
(`ReadInv`).

*The tool loop.* `CallsInv` says what is left of the budget: in the structured loop one call was
made per iteration, in the DSML loop the calls made and the iterations left stay within the
sum. `LateInv`: nothing is late before the last round of the DSML loop, since it goes round
again only below the cap. `CleanReply` has no hypothesis: every way to the end goes through the
stripping, and a text that it empties is replaced. `RecordInv`: summary and log, one after the other, count from
1 to `executed`.

*Recursive definitions.* The prover cannot use a library induction theorem, which takes an operator.
Where a proof needs what a recursive function computes, the function's existence and equation are
proved for it by the well-foundedness of the order on the naturals: of the lengths at which the claim
fails there would be a least one (`LeastOf`).

*Only model-checked.* Liveness (`Termination`, `RunsAndStopsEnd`, `ChatIsTold`, the draining in
`CoordHeard`), which the prover cannot show under fairness. The runs of section 6, which end in a violation.

## 6. What the code says and does not do

Runs that end in a violation, each of one sentence of the code:

1. `manager_deadlock`. `telegram_interface/bot.py` says of the chat's lock that "there is no
   deadlock risk". A turn that calls `stop_workflow` for a DAG of its own chat waits in
   `gather` for the task; the task, cancelled, goes through its handlers to
   `on_complete`, which waits for the lock that the turn holds. Neither has a timeout, and
   the chat answers no more. Without a stop from a turn of the same chat everything ends
   (`manager_live`).
2. `runner_stop`. `DagManager.stop` says "cancel a running DAG and wait for it to
   terminate". `asyncio.wait` does not cancel what it waits for and `run` has no handler,
   so the nodes of the DAG work on after `stop` returned, and write "running" over
   "cancelled".
3. `activation_fold`. `orchestrator.py` says that on-thread facts are folded in now, so that
   "the next turn sees them". On a drifting turn the prefetch task then writes the search that
   was made before the fact was stored, with a newer time, over the refreshed activation.
   A warm turn does not have this problem (`WarmFoldServed`).
4. `l1_rebuild`. `_recreate_with_identity` is to delete the agent, create it and "restore facts".
   It reads the facts first; if that request fails it takes them for empty, deletes the agent
   all the same, restores nothing, and the tool reports success.
5. `restart_inputs`. `restart_failed` promises the restarted nodes "the same inputs" they would have
   had. A node that was cancelled because a sibling failed is neither failed nor downstream:
   it is not run again, has no result, and a node that depends on both starts without it.
   This is so even where the first run failed and saved its results in full.

Differences met while modelling that no run is about. Where one is stated as a property, its name
is given.

*Workflows*

- `SuccessHasOutcomes`. `WorkflowResult.success` is "True if every node completed without error"
  (`workflow/models.py:203`), and a confidence of 1.0 "means every node succeeded on first attempt"
  (`:217`). The directory of a node is made outside of any `try` (`workflow/runner.py:232`); if that
  fails the task dies with no result, skip or error, `run` never looks at its exception, and the
  run succeeds with full confidence.
- `CompletedAreInjected`. "Completed node results injected as initial context"
  (`workflow/dag_manager.py:166`). The status shows a failed node from the moment it fails, the
  results are written only when the run has come to its end. While the run goes on, after a
  crash, and where the saving fails, a restart finds the failed nodes and injects the results of
  an earlier run of the id, or none.
- `FailuresAreAnswered`. `_dispatch_tool` "Returns an error string on failure so the model can recover
  gracefully" (`agents/base_agent.py:437`). Arguments that are JSON but no object (`null`, a number)
  raise in its first line, and the exception leaves the chat with the call unanswered.
- `SearchesStayInside`. "Any path that resolves outside *workspace_root* returns an ERROR string"
  (`tools/agent_file_tools.py:62`). `file_search` and `file_grep` resolve the directory and hand the
  pattern to `rglob` as it is; what it matches is shown.
- `execution_order` is said to list the nodes in order of execution; after a failure it
  misses those that completed in the same batch and those that were cancelled.
- `build_graph` accepts the dependencies of a node under `deps` or `dependencies`
  (`workflow/dag_manager.py:264`), `_compute_affected_subgraph` reads only `deps`
  (`:304`). Specs with the other key make a restart miss dependents. The constant `Aliased`
  of `AffectedSubgraph` is there to show it.
- `on_complete` can be told "cancelled", or nothing that is known, where its description
  (`workflow/dag_manager.py:67`) names two states.
- A run that is stopped or fails leaves the result of an earlier run of its id in the result
  key; the chat is then told its own state with the other's results.
- Channels are said to be closed (`workflow/dag_manager.py:10`); nothing closes them.
- `agents/base_agent.py:311-313` says that a model with `tool_calling=False` skips tools entirely; nothing
  in `chat` looks at it, and some agents pass theirs all the same (`Agents`). Agents whose
  `execute` offers no tools are never offered those of the channel. `memory_recent` shows the last keys of the alphabet, not the newest entries. Two
  tasks of one file may both pass the look of `file_create`; one process has one
  `DAG_WORKSPACE`.

*The turn*

- The search a warm turn hands to its prefetch task is never used by `update_activation`,
  although `orchestrator/prefetch.py:5` says that it is written into the activation.
- When a turn reads the activation before an older prefetch task wrote, its own task
  writes without what the older one contributed to `recent_queries`, `turn_count` and
  the topic. `BlobIsOneTurn` and `CountWithinTopic` say how little that can break.
- `NoRawMarkup`. `orchestrator/dsml.py:29` counts a "cut-off reply" among what the stripping removes, and
  the DSML round says that raw markup must never reach the user, "full stop"
  (`orchestrator/orchestrator.py:853`). The pattern wants the bracket that closes a tag, so a reply that
  `max_tokens` cuts within a tag keeps that tag's beginning, and is sent so.
- `_call_tool` truncates results so that "no single call, from any tool, can ever exceed the round
  budget" (`orchestrator/orchestrator.py:1005`); the DSML round calls the handlers itself
  and does not truncate.
- `_run_tool_round` puts the worst case of a turn at 1 + `AGENTIC_MAX_ITERATIONS` calls; with a
  continuation it is three more (`CallsBounded`).
- `_run_dsml_tool_round` calls itself a loop of the same shape, but each of its calls of
  the model sees the results of one round only, and a continuation none of those
  gathered by the structured loop.
- `run` may raise after the reply was made and the facts stored, if the refresh fails; no
  prefetch task is left then, and the activation keeps its old state.
- The interval report is said to come every so many requests; a request that raises at the right
  count skips it. A warm turn that looked nothing up counts as a miss of the cache; a cold one
  reports the hit or miss of its last lookup only; for turns that failed the tokens of "other"
  may be negative.

*The memories*

- A search in flight while the cache is cleared fills it with what it had read; `CacheFresh`
  excepts it. Enrichment at the trim never reaches the lexical index. An archive task that a
  crash interrupts is not done again.
- Two starts of L1 at once may create two agents of one name; `blame` excepts them.
- `memory/l3_pack.py` keeps a neighbour with its seed, but on a warm turn with a date the link is made
  over results of two searches, and the drift's group "prediction" relabels neighbours.
- The guarantee of L3 is less by stamps and headers, and gone with one message larger than the share
  of L2 (`SharesKept` says so). A pinned opening can cost the newest message. Neighbours of
  the second wave are not filtered by size. Without the reranker almost nothing passes the
  threshold of the blended score.
- `HourComesFirst`. "A bare day reference must not shadow a more specific time-of-day fragment"
  (`memory/temporal_route.py:152`). The retry takes the first fragment of the second reading, day or hour.
- The span of a chunk may be a suffix of the one before it.

*The bot and the host*

- `telegram_interface/bot.py:470-480` drains "in-flight L3 archive writes on clean shutdown"; a turn that
  ends after the drain began leaves its task behind (`ShutdownLosesNothing` does not hold).
- `reconcile` says that it imports what is new (`plugins/_loader.py:36`). A file that went away and came
  back is new to it, and `import_module` answers with the old module from `sys.modules` (`:57`): the
  new code runs only after its next edit (`NewFilesAreImported` does not hold).
- `CoordReaches`. "the admin must always see that new coordination activity happened"
  (`telegram_interface/bot.py:241-242`). A digest whose sending fails is logged, and acknowledged all
  the same; the hub does not deliver it again.
- `NothingIsCut`. `tg_format` "splits long replies at block boundaries instead of cutting them"
  (`telegram_interface/tg_format.py:5-6`). A text that renders to no block (link definitions only, a table
  without a row) is cut at the limit (`:171`), and what is beyond is not sent.
- `ErrorIsTheTurns`. `diff_analytics` is to "compute one run's contribution" (`benchmark/runner.py:268`).
  The error of a repetition is set outside of the loop and never cleared: those that answer after it
  carry it, and the case with a right answer too.
- A cancelled turn is not recorded. The stash a rollback makes is never popped. The bot and the shell may install at once, which
  `StartsInstalled` excepts.
- `run.sh` starts `python3 setup/wizard.py`, whose `from setup.checks import` (`setup/wizard.py:98`) finds no
  package unless the root is on the path; `SETUP.md` says that the first launch starts the
  wizard. Interrupting the question for the default provider writes "None". A file cut by a
  kill counts as existing, a kill between the files leaves new keys with an old toml, and a
  second reconfiguration writes over the first backup.
- Concurrent calls of `write_file` for one path share a temporary name
  (`tools/goat_skills/write_file.py:62-75`), append to a file that does not exist is decided as an
  overwrite, and an append to an inode that is being replaced is lost; `FilesWhole` excepts
  overlapping overwrites.
- A repair killed after the drop leaves an empty collection that a second start probes as
  "clean": the rows are only in the backup. The same `--backup` path twice writes over it, and
  rows stored between the export and the drop are lost.
- In the benchmark an answer can be grounded by its own archive (`benchmark/runner.py:170-185`), and the
  cases stay in the live collection.

## 7. What is left out, and what the models take for granted

- *Data.* Messages, outputs, embeddings and scores are abstracted to their existence or to
  the choice they lead to.
- *Redis.* A command is atomic. When its await is cancelled or raises, it has been
  executed by then or never will be. The working memory and the cache may expire at any moment;
  that of the status and result keys is left out: a status that expires reads as none, which no
  property speaks of.
- *Time.* The origin times of the turns of a chat increase: the clock is not set back between
  two of them.
- *A completion turn that stops its own DAG.* `StopWorkflow` has the guard `lock[c] # d`. During
  such a turn the DAG is still registered, so `stop` accepts it, cancels the task it runs in
  and waits for that task in `gather`: the cancellation goes round between the task and
  its own `gather` until asyncio raises `RecursionError` in the event loop, and the task is
  never resumed (seen with Python 3.11). The turn keeps the lock for good, as in the deadlock
  of section 6.
- *The process.* A restart is in `PermanentMemory`, `WorkingMemory`, `EpisodicMemory` and `BotUpdates`. In
  `ActivationTurn` it is the loss of pending prefetch tasks. Workflows do not survive one, and
  nothing takes them up again.
- *`WorkflowRegistry` and `make_stub_runner`* are not used by the bot. The MCP server's `query_state` reads
  records of an older architecture.
- *The registry, the admin panel, the MCP server and the configuration* are views and singletons
  without a protocol of their own. The other skills wrap one call of a service each.
- *Quality.* What the model answers, what is similar to what, and which words a stemmer or a
  parser finds are choices of the models.

## 8. The plan

Done: the workflow runner with its abstract specification; the manager and the chat's
lock; the turn and its activation; the tool loop; the restart; the three memories; retrieval
and the budgets; updates, runtime, plugins and replies of the bot; agents and their nodes;
what turns write down, the benchmark, the scripts, the setup and the files.

Worth doing next, in this order:

1. *Composition.* One model of `BotRuntime` with `ActivationTurn` and `EpisodicMemory`, in which the
   drain meets the tasks of real turns; `DagManager` with the restarts of `DagRestart`.
2. *A turn that waits for itself*, as a third scene of `manager` (section 7).
3. *The rest of the benchmark* (datasets, evaluator, report).
