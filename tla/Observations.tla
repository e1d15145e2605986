------------------------------ MODULE Observations ------------------------------
(***************************************************************************)
(* What a turn writes down of itself (memory/observability.py and          *)
(* memory/observability_collector.py) and the counters it is folded into   *)
(* (memory/analytics.py).  No state: the operators are used by the turns   *)
(* of the bot (Measurements) and by the benchmark (Benchmark).             *)
(*                                                                         *)
(* The course of a turn is a record that says what it meets:               *)
(*   confidence in tenths; state: cold, warm, drift; held: results of the  *)
(*   activation; found: results of the search; dated: what a warm turn     *)
(*   finds by the date it names; mixed: what is left of both once merged,  *)
(*   cut and reranked; looked: whether the cache was consulted; hit;       *)
(*   sizes: tokens of the blocks present; used; guidance, tools: tokens;   *)
(*   calls, sent: calls of the model and the tokens of all their prompts;  *)
(*   thread: whether there was an activation; kind: of the write of the    *)
(*   turn.                                                                 *)
(***************************************************************************)
EXTENDS Integers, Sequences, FiniteSets

Tiers == {"permanent", "working", "episodic"}
Intents == {"recall", "greeting", "conversational"}
TurnStates == {"cold", "warm", "drift"}
OfTiers(f) == f["permanent"] + f["working"] + f["episodic"]

\* An observation before its turn has done anything.
NewObservation ==
  [intent |-> "conversational", attempted |-> FALSE, succeeded |-> FALSE, hit |-> FALSE, miss |-> FALSE,
   keyed |-> FALSE, warmServed |-> FALSE, thematic |-> 0, found |-> 0, used |-> 0,
   tokens |-> [t \in Tiers |-> 0], present |-> {}, source |-> "unset", guidance |-> 0, tools |-> 0, injected |-> 0,
   prompt |-> 0, calls |-> 0, state |-> "unset", broke |-> FALSE, kind |-> "unset", refreshed |-> FALSE]

\* categorize_intent: from the tier of the confidence.
CategorizeIntent(tenths) == IF tenths >= 4 THEN "recall" ELSE IF tenths < 3 THEN "greeting" ELSE "conversational"

Classified(o, c) == [o EXCEPT !.intent = CategorizeIntent(c.confidence)]

(* A turn that is not warm has what it searched.  A warm one has what its
   thread holds, unless it names a date and something is found by it: then what
   is left of both when they are merged, tiny results are dropped and the rest
   is reranked, which may be nothing. *)
ResultsOf(c) == IF c.state # "warm" THEN c.found ELSE IF c.dated > 0 THEN c.mixed ELSE c.held

\* What a turn may meet: the prompt has no more results than there are.
IsCourse(c) ==
  /\ c.confidence \in 0 .. 10 /\ c.state \in TurnStates /\ c.kind \in {"none", "filing", "enriching"}
  /\ c.looked \in BOOLEAN /\ c.hit \in BOOLEAN /\ c.thread \in BOOLEAN
  /\ {c.held, c.found, c.dated, c.mixed, c.used, c.guidance, c.tools, c.calls, c.sent} \subseteq Nat
  /\ c.mixed <= c.held + c.dated
  /\ DOMAIN c.sizes \subseteq Tiers /\ c.sizes \in [DOMAIN c.sizes -> Nat]
  /\ c.used <= ResultsOf(c)

(* set_cache, set_prefetch, set_prefetch_mechanisms: only a cold search looks
   into the cache; a warm turn is served by what its thread held before the
   date it names was looked for. *)
Searched(o, c) ==
  LET hit == c.state = "cold" /\ c.looked /\ c.hit
  IN  [o EXCEPT !.hit = hit, !.miss = ~hit, !.keyed = (c.state = "cold" /\ c.looked),
                !.attempted = TRUE, !.succeeded = ResultsOf(c) > 0,
                !.warmServed = (c.state = "warm" /\ c.held > 0), !.thematic = ResultsOf(c)]

\* set_context_from_blocks: the tier that comes first of episodic, working, permanent.
SourceTier(present) ==
  IF "episodic" \in present THEN "episodic"
  ELSE IF "working" \in present THEN "working"
  ELSE IF "permanent" \in present THEN "permanent" ELSE "none"

ContextFromBlocks(o, c) ==
  LET size == [t \in Tiers |-> IF t \in DOMAIN c.sizes THEN c.sizes[t] ELSE 0]
  IN  [o EXCEPT !.tokens = size, !.present = DOMAIN c.sizes,
                !.source = SourceTier(DOMAIN c.sizes), !.injected = OfTiers(size),
                !.found = ResultsOf(c), !.used = c.used]

\* Mutant: the extras of every call of the model are added.
PromptExtrasOfEachCall(o, c) ==
  [o EXCEPT !.guidance = c.guidance, !.tools = c.tools, !.injected = @ + c.calls * (c.guidance + c.tools)]

\* add_prompt_extras: what the prompt carries besides the blocks.
PromptExtras(o, c) ==
  [o EXCEPT !.guidance = c.guidance, !.tools = c.tools, !.injected = @ + c.guidance + c.tools]

LlmUsage(o, c) == [o EXCEPT !.calls = c.calls, !.prompt = c.sent]

\* set_activation: a cold turn with an activation breaks its thread.
Activated(o, c) ==
  [o EXCEPT !.state = c.state, !.broke = (c.state = "cold" /\ c.thread),
            !.kind = IF c.thread THEN c.kind ELSE "none", !.refreshed = (c.thread /\ c.kind = "enriching")]

\* The stages of Orchestrator.run in their order; a turn that raises keeps those before.
Stages == <<"classify", "search", "assemble", "inject", "llm", "save">>
AfterStage(c) ==      \* what has been observed after none of them, after one, ...
  LET classified == Classified(NewObservation, c)
      searched == Searched(classified, c)
      assembled == ContextFromBlocks(searched, c)
      injected == PromptExtras(assembled, c)
      called == LlmUsage(injected, c)
  IN  <<NewObservation, classified, searched, assembled, injected, called, Activated(called, c)>>
ObservationOf(c, far) == AfterStage(c)[far + 1]

--------------------------------------------------------------------------------
\* MemoryAnalytics: every aggregate at zero.
NoTotals ==
  [requests |-> 0, attempts |-> 0, successes |-> 0, lookups |-> 0, hits |-> 0, misses |-> 0,
   source |-> [t \in Tiers \cup {"none"} |-> 0], presence |-> [t \in Tiers |-> 0], intents |-> [i \in Intents |-> 0],
   injected |-> 0, tokens |-> [t \in Tiers |-> 0], guidance |-> 0, tools |-> 0, resent |-> 0, toolResults |-> 0,
   found |-> 0, used |-> 0, prompt |-> 0, calls |-> 0, states |-> [s \in TurnStates |-> 0], breaks |-> 0,
   enriching |-> 0, filing |-> 0, refreshes |-> 0, warmServed |-> 0, thematic |-> 0]

One(condition) == IF condition THEN 1 ELSE 0

\* record: one observation into the aggregates.
Record(totals, o) ==
  LET calls == IF o.calls > 1 THEN o.calls ELSE 1
      rest == o.prompt - calls * o.injected
  IN  [requests |-> totals.requests + 1,
       attempts |-> totals.attempts + One(o.attempted), successes |-> totals.successes + One(o.attempted /\ o.succeeded),
       lookups |-> totals.lookups + One(o.keyed), hits |-> totals.hits + One(o.hit), misses |-> totals.misses + One(o.miss),
       source |-> [t \in Tiers \cup {"none"} |-> totals.source[t] + One(t = o.source)],
       presence |-> [t \in Tiers |-> totals.presence[t] + One(t \in o.present)],
       intents |-> [i \in Intents |-> totals.intents[i] + One(i = o.intent)],
       injected |-> totals.injected + o.injected, tokens |-> [t \in Tiers |-> totals.tokens[t] + o.tokens[t]],
       guidance |-> totals.guidance + o.guidance, tools |-> totals.tools + o.tools,
       resent |-> totals.resent + (calls - 1) * o.injected,
       toolResults |-> totals.toolResults + (IF rest > 0 THEN rest ELSE 0),
       found |-> totals.found + o.found, used |-> totals.used + o.used,
       prompt |-> totals.prompt + o.prompt, calls |-> totals.calls + o.calls,
       states |-> [s \in TurnStates |-> totals.states[s] + One(s = o.state)], breaks |-> totals.breaks + One(o.broke),
       enriching |-> totals.enriching + One(o.kind = "enriching"), filing |-> totals.filing + One(o.kind = "filing"),
       refreshes |-> totals.refreshes + One(o.refreshed), warmServed |-> totals.warmServed + One(o.warmServed),
       thematic |-> totals.thematic + o.thematic]

(* get_report, without the division by the number of requests: a rate is the
   pair of a count and what it is taken over. *)
Report(t) ==
  LET n == IF t.requests = 0 THEN 1 ELSE t.requests
  IN  [hitRate |-> <<t.hits, n>>, hitRateOnLookups |-> <<t.hits, t.lookups>>, lookupRate |-> <<t.lookups, n>>,
       missRate |-> <<t.misses, n>>, attemptRate |-> <<t.attempts, n>>, successRate |-> <<t.successes, t.attempts>>,
       warmServedRate |-> <<t.warmServed, n>>,
       tierRates |-> [k \in Tiers |-> <<t.presence[k], n>>], stateRates |-> [s \in TurnStates |-> <<t.states[s], n>>],
       other |-> t.prompt - OfTiers(t.tokens),
       unattributed |-> t.injected - OfTiers(t.tokens) - t.guidance - t.tools,
       resent |-> t.resent, toolResults |-> t.toolResults]
================================================================================
