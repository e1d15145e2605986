-------------------------------- MODULE MCParts --------------------------------
(***************************************************************************)
(* The parts of the system that share no state, one beside the other.  Of  *)
(* a workflow: the check for cycles, the search of a restart and the two   *)
(* runs of one, an agent's chat, the nodes of a run.  Of a prompt: the     *)
(* retrieval, the budget, the chunks, the window of time.  Around the bot: *)
(* the report on its turns, the benchmark, the scripts, the setup, the     *)
(* sending of a reply, the files it writes and reads.  part says which of  *)
(* them a behaviour is of.                                                 *)
(***************************************************************************)
EXTENDS CycleCheck, DagRestart, AgentChat, AgentNodes, Retrieval, PromptBudget, ChunkSpans, TemporalRoute,
        Measurements, Benchmark, EpisodicScripts, Setup, Replies,
        HostFiles

VARIABLE part

AllGraphs == [Task -> SUBSET Task]
ShortTexts == UNION {[1 .. n -> 1 .. 4] : n \in 0 .. 5}
Shipped ==
  [budget_base |-> 2000, budget_confidence_multiplier |-> 4000, budget_complexity_max_bonus |-> 2000,
   budget_hard_cap |-> 12000, l2_floor_tokens |-> 500, l3_min_guarantee_tokens |-> 1200,
   temporal_l3_guarantee_tokens |-> 4000, l2_context_cap |-> 8000, l3_reserve_fraction |-> 30,
   max_results_per_search |-> 15, max_messages |-> 20, timeout |-> 150, max_results |-> 15,
   recency_window_days |-> 30, top_k |-> 20, drift_warm |-> 80, drift_cold |-> 30,
   topic_return_threshold |-> 75, enriching_sim |-> 55]
SomeFiles ==
  {[k \in {} |-> 0], [budget_hard_cap |-> 1500], [budget_base |-> 3000, budget_hard_cap |-> 4000, l2_floor_tokens |-> 0],
   [budget_base |-> 3000, budget_hard_cap |-> 2500], [budget_base |-> 0], [l3_min_guarantee_tokens |-> 0],
   [drift_warm |-> 20, drift_cold |-> 30], [enriching_sim |-> 101], [l3_reserve_fraction |-> 100], [top_k |-> 0],
   [temporal_l3_guarantee_tokens |-> -1]}
Talks == UNION {[1 .. n -> {50, 900, 5000}] : n \in 0 .. 2} \cup {<<50, 900, 900>>, <<50, 5000, 900>>, <<900, 50, 5000>>, <<50, 900, 50>>}
Found == UNION {[1 .. n -> Fragments] : n \in 0 .. 2}
FoundOnce == UNION {[1 .. n -> Fragments] : n \in 0 .. 1}
AllQueries ==
  [flags : {{"trailing"}}, found : Found, again : Found]
    \cup [flags : SUBSET {"digest", "trailing", "raises"}, found : FoundOnce, again : FoundOnce]
FiveTopics == <<"a", "a", "a", "b", "b">>
FiveSizes == <<1, 2, 1, 3, 1>>
SomeHits == {<<>>, <<1>>, <<2, 4>>, <<4, 1>>, <<3, 4>>, <<1, 5>>}
SomeLogits == {0, Scale \div 4, Scale}
TwoKeys == <<"a", "b">>

Course(tenths, state, held, found, looked, hit, sizes, used, calls, tokens, thread, kind) ==
  [confidence |-> tenths, state |-> state, held |-> held, found |-> found, dated |-> 0, mixed |-> 0, looked |-> looked, hit |-> hit,
   sizes |-> sizes, used |-> used, guidance |-> 2, tools |-> 3, calls |-> calls, sent |-> tokens,
   thread |-> thread, kind |-> kind]
NoBlocks == [t \in {} |-> 0]
Identity == [permanent |-> 1]
History == [permanent |-> 1, working |-> 2]
AllBlocks == [permanent |-> 1, working |-> 2, episodic |-> 4]
L3Only == [episodic |-> 4]
ColdFiled == Course(3, "cold", 0, 2, TRUE, TRUE, AllBlocks, 1, 1, 12, TRUE, "filing")
WarmServed == Course(4, "warm", 2, 0, TRUE, TRUE, AllBlocks, 2, 2, 20, TRUE, "enriching")
WarmEmptied == [WarmServed EXCEPT !.dated = 1, !.used = 0]
WarmDated == [WarmServed EXCEPT !.held = 0, !.dated = 3, !.mixed = 2]
FewCourses == {ColdFiled, WarmEmptied}
SomeCourses ==
  {ColdFiled, WarmServed, WarmEmptied, WarmDated,
   Course(2, "cold", 0, 0, FALSE, FALSE, NoBlocks, 0, 1, 5, FALSE, "none"),
   Course(4, "cold", 0, 2, TRUE, FALSE, L3Only, 2, 3, 40, FALSE, "none"),
   Course(2, "warm", 0, 0, FALSE, FALSE, History, 0, 1, 0, TRUE, "none"),
   Course(3, "drift", 1, 2, TRUE, TRUE, AllBlocks, 1, 2, 30, TRUE, "filing"),
   Course(4, "drift", 0, 0, FALSE, FALSE, Identity, 0, 1, 7, TRUE, "none")}
TwoCases == <<[repeat |-> 2, episodic |-> TRUE], [repeat |-> 1, episodic |-> FALSE]>>

Doubles == <<"k", "k", "l", "k">>
Stamps == <<11, 12, 5, 20>>

Block(text, extra, dense) == [text |-> [k \in DOMAIN text |-> <<text[k], text[k]>>], extra |-> extra, dense |-> dense]
SomeBlocks ==
  {Block(<<1>>, 0, FALSE), Block(<<1, 1>>, 2, FALSE), Block(<<1, 0, 1, 1>>, 1, TRUE), Block(<<1, 1, 1>>, 4, FALSE),
   Block(<<1, 1, 1, 1, 1, 1, 1, 1>>, 0, FALSE), Block(<<1, 1, 1, 1, 0, 0, 1, 1, 1, 0, 1>>, 1, TRUE)}

PlaceOf == [p \in Spots |-> IF p = "dir" THEN "directory" ELSE "orphan"]
PathOf == [c \in Writers \cup Readers |-> IF c = 4 THEN "dir" ELSE "note"]
ModeOf == [w \in Writers |-> IF w = 3 THEN "append" ELSE "overwrite"]

NoDeps == [n \in Task |-> {}]

flow == <<vars, searchvars, restartvars, chatvars, nodevars>>
prompting == <<retvars, budvars, chunkvars, tempvars>>
around == <<measvars, benchvars, scriptvars, setupvars, replyvars, filevars>>
parts == <<part, flow, prompting, around>>

\* Of a part that is not looked at, one initial state will do.
PartsInit ==
  /\ part \in {"cycles", "search", "restart", "chat", "nodes", "retrieval", "budget", "chunks", "temporal",
               "turns", "benchmark", "scripts", "setup", "reply", "files"}
  /\ IF part = "cycles" THEN Init
     ELSE deps = NoDeps /\ degree = <<>> /\ queue = {} /\ visited = 0 /\ verdict = "open" /\ remaining = {}
  /\ IF part = "search" THEN SearchInit
     ELSE specs = NoDeps /\ failed = {} /\ affected = {} /\ frontier = {} /\ subgraph = <<>>
  /\ IF part = "restart" THEN RestartInit
     ELSE /\ spec = NoDeps /\ run = "first" /\ node = [n \in Task |-> "waiting"] /\ left1 = node
          /\ writes = {{}} /\ erring = {} /\ kept = {} /\ fresh = FALSE /\ told = {}
          /\ nodes2 = {} /\ seeded = {} /\ begun2 = [n \in Task |-> NotBegun]
  /\ ChatInit /\ (part # "chat" => job.role = "coder" /\ job.calling /\ job.rounds = 0 /\ job.given["dep"] = "none")
  /\ NodesInit /\ (part # "nodes" => handed = {"channel", "workspace"} /\ noderole = [n \in Nodes |-> "coder"])
  /\ RetrievalInit
  /\ IF part = "budget" THEN BudgetInit
     ELSE /\ file = <<>> /\ settings = <<>> /\ bstage = "unloaded" /\ turn = <<>>
          /\ share = [l2 |-> 0, l3 |-> 0] /\ keeps = {} /\ total = 0 /\ left = 0 /\ spent = 0
  /\ IF part = "chunks" THEN ChunkInit ELSE words = <<>> /\ from = 0 /\ spans = <<>>
  /\ IF part = "temporal" THEN TempInit ELSE tstage = "asked" /\ query = <<>> /\ picked = <<>> /\ interval = NoInterval
  /\ IF part = "turns" THEN MeasInit
     ELSE /\ course = [t \in Turns |-> ColdFiled] /\ far = [t \in Turns |-> 0]
          /\ ending = [t \in Turns |-> "runs"] /\ totals = NoTotals /\ reports = <<>>
  /\ BenchInit
  /\ ScriptInit /\ (part # "scripts" => collection = {} /\ ~broken)
  /\ SetupInit
  /\ IF part = "reply" THEN RepliesInit
     ELSE reply = <<>> /\ bare = FALSE /\ messages = <<>> /\ rest = <<>> /\ delivered = <<>> /\ sending = "render"
  /\ FilesInit

FlowNext ==
  \/ part = "cycles" /\ Next /\ UNCHANGED <<searchvars, restartvars, chatvars, nodevars>>
  \/ part = "search" /\ SearchNext /\ UNCHANGED <<vars, restartvars, chatvars, nodevars>>
  \/ part = "restart" /\ RestartNext /\ UNCHANGED <<vars, searchvars, chatvars, nodevars>>
  \/ part = "chat" /\ ChatNext /\ UNCHANGED <<vars, searchvars, restartvars, nodevars>>
  \/ part = "nodes" /\ NodesNext /\ UNCHANGED <<vars, searchvars, restartvars, chatvars>>

PromptNext ==
  \/ part = "retrieval" /\ RetrievalNext /\ UNCHANGED <<budvars, chunkvars, tempvars>>
  \/ part = "budget" /\ BudgetNext /\ UNCHANGED <<retvars, chunkvars, tempvars>>
  \/ part = "chunks" /\ ChunkNext /\ UNCHANGED <<retvars, budvars, tempvars>>
  \/ part = "temporal" /\ TempNext /\ UNCHANGED <<retvars, budvars, chunkvars>>

AroundNext ==
  \/ part = "turns" /\ MeasNext /\ UNCHANGED <<benchvars, scriptvars, setupvars, replyvars, filevars>>
  \/ part = "benchmark" /\ BenchNext /\ UNCHANGED <<measvars, scriptvars, setupvars, replyvars, filevars>>
  \/ part = "scripts" /\ ScriptNext /\ UNCHANGED <<measvars, benchvars, setupvars, replyvars, filevars>>
  \/ part = "setup" /\ SetupNext /\ UNCHANGED <<measvars, benchvars, scriptvars, replyvars, filevars>>
  \/ part = "reply" /\ RepliesNext /\ UNCHANGED <<measvars, benchvars, scriptvars, setupvars, filevars>>
  \/ part = "files" /\ FilesNext /\ UNCHANGED <<measvars, benchvars, scriptvars, setupvars, replyvars>>

PartsNext ==
  /\ UNCHANGED part
  /\ \/ FlowNext /\ UNCHANGED <<prompting, around>>
     \/ PromptNext /\ UNCHANGED <<flow, around>>
     \/ AroundNext /\ UNCHANGED <<flow, prompting>>

PartsSpec == PartsInit /\ [][PartsNext]_parts
RestartOnly == PartsInit /\ part = "restart" /\ [][PartsNext]_parts
================================================================================
