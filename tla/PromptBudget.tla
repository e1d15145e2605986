------------------------------ MODULE PromptBudget ------------------------------
(***************************************************************************)
(* How the tokens of one prompt are shared out: the settings the process   *)
(* starts with (memory/config.py), the budget of the turn                  *)
(* (memory/aits.py), its split between conversation and recalled memories  *)
(* (memory/context_budget.py), and the trim of the conversation            *)
(* (memory/context_assembler.py).  What L3 packs is in Retrieval.          *)
(***************************************************************************)
EXTENDS Integers, FiniteSets, Sequences

CONSTANTS
  Defaults,          \* memory/config_defaults.py: a value for each key of config/memory.toml
  TomlFiles,             \* bound: what the file may say, [] where there is none
  Cues, Lengths,     \* bounds: words that ask for depth, characters of a query
  Mandatory,         \* bound: tokens of identity and facts
  Conversations,     \* bound: the tokens of each message, oldest first
  Stamp              \* tokens that the rendering adds to a message

VARIABLES file, settings, bstage, turn, share, keeps, total, left, spent

budvars == <<file, settings, bstage, turn, share, keeps, total, left, spent>>

Budgeted == {"budget_base", "budget_confidence_multiplier", "budget_complexity_max_bonus", "budget_hard_cap",
             "l2_floor_tokens", "l3_min_guarantee_tokens", "temporal_l3_guarantee_tokens"}
Positive == {"budget_base", "l3_min_guarantee_tokens", "l2_context_cap", "max_results_per_search", "max_messages",
             "timeout", "max_results", "recency_window_days", "top_k", "drift_cold"}
Shares == {"topic_return_threshold", "enriching_sim"}          \* in hundredths

(* validate_config: only what the file gives is looked at, a pair only when it
   gives both; a wrong value stops the import and with it the process. *)
Accepted(given) ==
  LET Both(k, l) == {k, l} \subseteq DOMAIN given
  IN  /\ \A k \in Positive \cap DOMAIN given : given[k] > 0
      /\ \A k \in Shares \cap DOMAIN given : given[k] \in 1 .. 100
      /\ "l3_reserve_fraction" \in DOMAIN given => given["l3_reserve_fraction"] \in 1 .. 99
      /\ Both("drift_warm", "drift_cold") => given["drift_warm"] > given["drift_cold"]
      /\ Both("budget_base", "budget_hard_cap") => given["budget_hard_cap"] >= given["budget_base"]

\* The constants of memory/config.py, key by key.
Effective(given) == [k \in DOMAIN Defaults |-> IF k \in DOMAIN given THEN given[k] ELSE Defaults[k]]

ASSUME BudgetAssumption ==
  /\ Defaults \in [DOMAIN Defaults -> Int] /\ Budgeted \cup Positive \subseteq DOMAIN Defaults
  /\ Accepted(Defaults)
  /\ \A given \in TomlFiles : given \in [DOMAIN given -> Int]
  /\ Cues \cup Lengths \cup Mandatory \cup {Stamp} \subseteq Nat /\ Conversations \subseteq Seq(Nat)

Least(a, b) == IF a < b THEN a ELSE b
Most(a, b) == IF a > b THEN a ELSE b

\* calculate_confidence_from_query, in tenths: an empty query, or a number of cues.
Confidence(words, cues) == IF ~words THEN 2 ELSE IF cues > 0 THEN Least(8 + (cues - 1), 10) ELSE 5

\* calculate_complexity_from_query, in hundredths.
Complexity(length, compound) == Least((Least(length, 200) * 70) \div 200 + (IF compound THEN 30 ELSE 0), 100)

\* calculate_intent_budget
IntentBudget(confidence, complexity) ==
  Least((100 * settings["budget_base"] + confidence * 10 * settings["budget_confidence_multiplier"]
           + complexity * settings["budget_complexity_max_bonus"]) \div 100,
        settings["budget_hard_cap"])

\* Mutant: L2 takes its floor and L3 keeps its guarantee.
AllocateTwice(available, wanted, floor) ==
  [l2 |-> Most(Most(available - wanted, 0), Least(floor, available)), l3 |-> wanted]

(* allocate_context_budget: L3 has the first claim, and the floor of L2 wins
   where there is not enough for both. *)
Allocate(available, wanted, floor) ==
  LET rest == Most(available - wanted, 0)
      l2 == IF rest < floor THEN Least(floor, available) ELSE rest
  IN  [l2 |-> l2, l3 |-> IF rest < floor THEN Most(available - l2, 0) ELSE wanted]

Available == Most(turn.budget - turn.mandatory, 0)

--------------------------------------------------------------------------------
BudgetInit ==
  /\ file \in TomlFiles /\ settings = <<>> /\ bstage = "unloaded" /\ turn = <<>>
  /\ share = [l2 |-> 0, l3 |-> 0] /\ keeps = {} /\ total = 0 /\ left = 0 /\ spent = 0

\* _load, when memory.config is imported.
Load ==
  /\ bstage = "unloaded"
  /\ \/ Accepted(file) /\ bstage' = "loaded" /\ settings' = Effective(file)
     \/ ~Accepted(file) /\ bstage' = "refused" /\ UNCHANGED settings
  /\ UNCHANGED <<file, turn, share, keeps, total, left, spent>>

\* A query that names a date has the wider claim of L3.
AskTurn ==
  /\ bstage = "loaded" /\ bstage' = "asked"
  /\ \E cues \in Cues, length \in Lengths, compound, words \in BOOLEAN, mandatory \in Mandatory,
        msgs \in Conversations, claim \in {"l3_min_guarantee_tokens", "temporal_l3_guarantee_tokens"} :
       /\ words => length > 0
       /\ turn' = [budget |-> IntentBudget(Confidence(words, cues), Complexity(length, compound)),
                   mandatory |-> mandatory, claim |-> claim, msgs |-> msgs]
  /\ UNCHANGED <<file, settings, share, keeps, total, left, spent>>

\* assemble_blocks: the split ...
SplitShares ==
  /\ bstage = "asked" /\ bstage' = "split"
  /\ share' = Allocate(Available, settings[turn.claim], settings["l2_floor_tokens"])
  /\ UNCHANGED <<file, settings, turn, keeps, total, left, spent>>

(* ... then trim_recent_messages: the first message is pinned if it is small;
   then the newest ones, back to the first that does not fit.  One is always
   kept. *)
Pinned(msgs, cap) == Len(msgs) > 1 /\ msgs[1] * 4 < cap
TrimBegins ==
  /\ bstage = "split" /\ bstage' = "trim" /\ left' = Len(turn.msgs)
  /\ \/ Pinned(turn.msgs, share.l2) /\ keeps' = {1} /\ total' = turn.msgs[1]
     \/ ~Pinned(turn.msgs, share.l2) /\ UNCHANGED <<keeps, total>>
  /\ UNCHANGED <<file, settings, turn, share, spent>>

Remains == left \in (1 .. Len(turn.msgs)) \ keeps
Fits == total + turn.msgs[left] <= share.l2 \/ keeps = {}
TrimTakes ==
  /\ bstage = "trim" /\ Remains /\ Fits
  /\ keeps' = keeps \cup {left} /\ total' = total + turn.msgs[left] /\ left' = left - 1
  /\ UNCHANGED <<file, settings, bstage, turn, share, spent>>

\* What is kept is rendered: its lines may have stamps, which the trim did not count.
TrimEnds ==
  /\ bstage = "trim" /\ (Remains => ~Fits) /\ bstage' = "written"
  /\ \E stamps \in {0, Stamp * Cardinality(keeps)} : spent' = total + stamps
  /\ UNCHANGED <<file, settings, turn, share, keeps, total, left>>

BudgetNext == Load \/ AskTurn \/ SplitShares \/ TrimBegins \/ TrimTakes \/ TrimEnds
BudgetSpec == BudgetInit /\ [][BudgetNext]_budvars

LeftForL3 == Most(turn.budget - turn.mandatory - spent, 0)

(* memory/config_validator.py: whatever the file says, a process that starts has
   a positive value for each key that is guarded; and if the file gives base and
   cap, no turn has less than the base.  (A cap alone may lie below the base.) *)
SettingsSound ==
  bstage \notin {"unloaded", "refused"} =>
    /\ \A k \in Positive : settings[k] > 0
    /\ bstage # "loaded" /\ {"budget_base", "budget_hard_cap"} \subseteq DOMAIN file
         /\ settings["budget_confidence_multiplier"] >= 0 /\ settings["budget_complexity_max_bonus"] >= 0
       => turn.budget >= file["budget_base"]

(* memory/context_budget.py, memory/context_assembler.py: the split spends what
   there is and no more (with a positive floor and a claim that is not negative:
   the validator looks at neither); the conversation that is kept is recent,
   without holes but the one after its opening; and L3 has its guarantee, less
   the stamps that the trim does not count, unless one single message is larger
   than the whole share of L2. *)
Honoured == settings["l2_floor_tokens"] > 0 /\ settings[turn.claim] >= 0
SplitSound ==
  bstage \in {"split", "trim", "written"} /\ Honoured =>
    /\ share.l2 \in Least(settings["l2_floor_tokens"], Available) .. Available
    /\ share.l3 \in 0 .. Least(settings[turn.claim], Available - share.l2)
TrimSound ==
  bstage = "written" =>
    /\ turn.msgs # <<>> => keeps # {}
    /\ \A i \in keeps \ {1} : i .. Len(turn.msgs) \subseteq keeps
    /\ Honoured /\ LeftForL3 + Stamp * Cardinality(keeps) < share.l3 =>
         \E m \in keeps : keeps = {m} /\ turn.msgs[m] > share.l2
SharesKept == SettingsSound /\ SplitSound /\ TrimSound
================================================================================
