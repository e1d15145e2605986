------------------------------- MODULE ToolLoop -------------------------------
(***************************************************************************)
(* The model and the tools within one turn of the orchestrator             *)
(* (orchestrator/orchestrator.py): the first call, the loop of structured  *)
(* tool calls (_run_tool_round), the loop of calls the model writes into   *)
(* its text as DSML markup (_run_dsml_tool_round), which stands in for the *)
(* first or continues it, and what becomes of the last content.            *)
(*                                                                         *)
(* Tool calls are numbered in the order they are executed.  A content is   *)
(* abstracted to whether there is prose in it, what markup: a complete     *)
(* block with some calls that can be parsed, or tags that make no block,   *)
(* and whether it ends within a tag, as a content does that max_tokens     *)
(* cuts there.  Sizes are counted in units.                                *)
(***************************************************************************)
EXTENDS Integers, Sequences, FiniteSets

CONSTANTS
  MaxIterations,    \* AGENTIC_MAX_ITERATIONS
  MaxContinuation,  \* _DSML_CONTINUATION_MAX_ITERATIONS
  MaxOutput,        \* TOOL_ROUND_MAX_OUTPUT_CHARS
  Sizes,            \* the sizes a tool's output may have
  MaxBatch,         \* bound: tool calls in one answer of the model
  MaxStores         \* bound: calls of store_memory

ASSUME LoopAssumption == MaxIterations \in Nat \ {0} /\ MaxContinuation \in Nat \ {0}
ASSUME OutputAssumption == MaxOutput \in Nat \ {0} /\ Sizes \subseteq Nat
ASSUME BatchAssumption == MaxBatch \in Nat \ {0} /\ MaxStores \in Nat

VARIABLES
  pc,         \* where the turn is
  pending,    \* tool calls of the current answer still to be executed
  iteration,  \* of the current loop
  limit,      \* of the current loop
  spent,      \* _round_output_chars, with chars_already_spent
  calls,      \* calls made to the model
  executed,   \* tool calls executed, and which of them stored a fact
  stores,
  log,        \* calls_and_results of the current loop
  found,      \* stored_contents of the current loop
  summary,    \* tool_summary of the turn
  stored,     \* stored_contents of the turn
  content,    \* the content the DSML loop works on
  reply,      \* the reply so far
  late        \* answers executed though the output was over its cap

loopVars == <<iteration, limit, content>>
outVars == <<summary, stored, reply>>
toolVars == <<spent, executed, stores, log, found>>
vars == <<pc, pending, loopVars, outVars, toolVars, calls, late>>

Markup == {"none", "block", "tags"}

\* What the model may write, or a tool may return.  cut: it ends within a tag,
\* and not of a block that is open, which would go with the block.
Contents ==
  {c \in [prose : BOOLEAN, markup : Markup, invokes : 0 .. MaxBatch, cut : BOOLEAN] :
     c.markup # "block" => c.invokes = 0}

Plain(prose) == [prose |-> prose, markup |-> "none", invokes |-> 0, cut |-> FALSE]
IsEmpty(c) == ~c.prose /\ c.markup = "none" /\ ~c.cut

Init ==
  /\ pc = "start" /\ pending = 0 /\ calls = 0 /\ late = 0
  /\ iteration = 0 /\ limit = MaxIterations /\ content = Plain(FALSE)
  /\ spent = 0 /\ executed = 0 /\ stores = {} /\ log = <<>> /\ found = {}
  /\ summary = <<>> /\ stored = {} /\ reply = Plain(FALSE)

SizeCapHit == spent > MaxOutput
-----------------------------------------------------------------------------
(* Steps that several places take.                                         *)

\* The model answers with n tool calls, of iteration i of the loop.
Calls(n, i) ==
  /\ pending' = n /\ iteration' = i
  /\ late' = IF SizeCapHit THEN late + 1 ELSE late

\* A DSML round begins on c.
EnterDsml(c, max) ==
  /\ pc' = "dsml" /\ content' = c /\ iteration' = 0 /\ limit' = max

\* strip_dsml: blocks and tags go; the tag that the end cut off matches none of
\* the patterns, for they want its closing bracket.
StripDsml(c) == [Plain(c.prose) EXCEPT !.cut = c.cut]

\* Mutant: the summary of the continuation replaces that of the loop.
FoldReplaced == summary' = log /\ stored' = stored \cup found

\* What a loop has done is added to the record of the turn.
Fold == summary' = summary \o log /\ stored' = stored \cup found

\* A DSML round ends with c.
LeaveDsml(c) ==
  /\ pc' = "reply"
  /\ reply' = IF c.markup = "none" THEN c
              ELSE IF IsEmpty(StripDsml(c)) THEN Plain(TRUE) ELSE StripDsml(c)
  /\ Fold
  /\ log' = <<>> /\ found' = {}
-----------------------------------------------------------------------------
(* The turn.                                                               *)

\* The first call decides which loop the turn takes.
FirstCall ==
  /\ pc = "start"
  /\ calls' = calls + 1
  /\ \/ /\ \E n \in 1 .. MaxBatch : Calls(n, 0)
        /\ pc' = "tools"
        /\ UNCHANGED <<limit, content, reply>>
     \/ \E c \in Contents :
          /\ IF c.markup = "block"
             THEN EnterDsml(c, MaxIterations) /\ UNCHANGED reply
             ELSE pc' = "reply" /\ reply' = c /\ UNCHANGED loopVars
          /\ UNCHANGED <<pending, late>>
  /\ UNCHANGED <<summary, stored, toolVars>>

\* A tool is called; what it raises becomes its result.
Execute(size, isStore) ==
  /\ executed' = executed + 1
  /\ spent' = spent + size
  /\ log' = Append(log, executed + 1)
  /\ stores' = IF isStore THEN stores \cup {executed + 1} ELSE stores
  /\ found' = IF isStore THEN found \cup {executed + 1} ELSE found

\* The next tool call of the answer, in either loop.
Tool ==
  /\ pc \in {"tools", "dsmlTools"}
  /\ \E size \in Sizes, isStore \in BOOLEAN :
       /\ isStore => Cardinality(stores) < MaxStores
       /\ Execute(size, isStore)
  /\ pending' = pending - 1
  /\ pc' = IF pending > 1 THEN pc ELSE IF pc = "tools" THEN "ask" ELSE "synthesis"
  /\ UNCHANGED <<loopVars, outVars, calls, late>>

\* The model is offered tools again: neither cap is reached.
OffersTools == iteration + 1 < MaxIterations /\ ~SizeCapHit

\* Mutant: the continuation is given a whole budget of its own.
EndOfToolRoundFresh(c) ==
  /\ Fold /\ log' = <<>> /\ found' = {}
  /\ IF c.markup = "block"
     THEN EnterDsml(c, MaxIterations) /\ UNCHANGED reply
     ELSE pc' = "reply" /\ reply' = c /\ UNCHANGED loopVars

\* The structured loop ends with c; markup in it is another round.
EndOfToolRound(c) ==
  /\ Fold /\ log' = <<>> /\ found' = {}
  /\ IF c.markup = "block"
     THEN EnterDsml(c, MaxContinuation) /\ UNCHANGED reply
     ELSE pc' = "reply" /\ reply' = c /\ UNCHANGED loopVars

\* The model is called with all results so far.
Ask ==
  /\ pc = "ask"
  /\ calls' = calls + 1
  /\ \/ /\ OffersTools
        /\ \E n \in 1 .. MaxBatch : Calls(n, iteration + 1)
        /\ pc' = "tools"
        /\ UNCHANGED <<limit, content, outVars, log, found>>
     \/ /\ \E c \in Contents : EndOfToolRound(c)
        /\ UNCHANGED <<pending, late>>
  /\ UNCHANGED <<spent, executed, stores>>

\* The DSML loop makes no further round.
DsmlCap == iteration + 1 >= limit \/ SizeCapHit

\* The calls written into the content are parsed.
ParseDsml ==
  /\ pc = "dsml"
  /\ IF content.invokes = 0
     THEN LeaveDsml(Plain(FALSE)) /\ UNCHANGED <<pending, iteration, late>>
     ELSE /\ Calls(content.invokes, iteration)
          /\ pc' = "dsmlTools"
          /\ UNCHANGED <<outVars, log, found>>
  /\ UNCHANGED <<limit, content, spent, executed, stores, calls>>

\* The model is called with the results of this round.  When it fails, or
\* answers nothing, the results themselves are the reply.
Synthesis ==
  /\ pc = "synthesis"
  /\ calls' = calls + 1
  /\ \E c \in Contents, failed \in BOOLEAN :
       IF failed \/ c.markup # "block" \/ DsmlCap
       THEN LeaveDsml(c) /\ UNCHANGED loopVars
       ELSE /\ pc' = "dsml" /\ content' = c /\ iteration' = iteration + 1
            /\ UNCHANGED <<limit, outVars, log, found>>
  /\ UNCHANGED <<pending, spent, executed, stores, late>>

\* Mutant: an empty reply is returned as it is.
FinishSilent ==
  /\ pc = "reply"
  /\ reply' = StripDsml(reply)
  /\ pc' = "done"
  /\ UNCHANGED <<pending, loopVars, summary, stored, toolVars, calls, late>>

\* The last guard before the reply is saved and returned.
Finish ==
  /\ pc = "reply"
  /\ reply' = IF IsEmpty(StripDsml(reply)) THEN Plain(TRUE) ELSE StripDsml(reply)
  /\ pc' = "done"
  /\ UNCHANGED <<pending, loopVars, summary, stored, toolVars, calls, late>>

\* A call of the model raises outside the DSML round, and with it the turn.
TurnFails ==
  /\ pc \in {"start", "ask"}
  /\ calls' = calls + 1
  /\ pc' = "failed"
  /\ UNCHANGED <<pending, loopVars, outVars, toolVars, late>>

Over == pc \in {"done", "failed"} /\ UNCHANGED vars

Next == FirstCall \/ Tool \/ Ask \/ ParseDsml \/ Synthesis \/ Finish \/ TurnFails \/ Over

Spec == Init /\ [][Next]_vars
=============================================================================
