-------------------------------- MODULE Benchmark --------------------------------
(***************************************************************************)
(* The benchmark (benchmark/runner.py, metrics.py and __main__.py): it     *)
(* runs the cases of a dataset one after the other through an orchestrator *)
(* of its own, asks the question of each one or more times, and reads what *)
(* a turn did off the difference between two snapshots of the counters     *)
(* that all turns share.                                                   *)
(***************************************************************************)
EXTENDS Observations

CONSTANTS Cases,      \* a sequence of cases: [repeat, episodic]
          Asked,      \* bound: the courses of the turns that the benchmark runs
          Reaches,    \* bound: how far a turn may get: of the six stages
          Rounds      \* --runs

ASSUME BenchmarkBounds ==
  /\ Rounds \in Nat \ {0} /\ Len(Cases) \in Nat \ {0} /\ Reaches \subseteq 0 .. 6
  /\ \A c \in Asked : IsCourse(c)
  /\ \A i \in DOMAIN Cases : Cases[i].repeat \in Nat \ {0}

VARIABLES bphase,     \* reset, preload, snapshot, turn, score, done or aborted
          round, at,  \* which repetition of the dataset, which case
          counters,   \* the MemoryAnalytics of the benchmark's registry
          before,     \* the snapshot taken before the turn
          observed,   \* what each measured turn of the case really did
          perRun,     \* what the benchmark read for it
          error,      \* whether a turn of the case raised
          results,    \* of the cases of this repetition
          metrics     \* of the repetitions done

benchvars == <<bphase, round, at, counters, before, observed, perRun, error, results, metrics>>

--------------------------------------------------------------------------------
\* snapshot_analytics and diff_analytics: one turn, from the counters before and after it.
SnapshotAnalytics(t) == t
NewTier(b, a) == {k \in DOMAIN a.source : a.source[k] > b.source[k]}
DiffAnalytics(b, a, right, raised) ==
  [hit |-> a.hits # b.hits, miss |-> a.misses # b.misses,
   attempted |-> a.attempts # b.attempts, succeeded |-> a.successes # b.successes,
   found |-> a.found - b.found, used |-> a.used - b.used, injected |-> a.injected - b.injected,
   tokens |-> [k \in Tiers |-> a.tokens[k] - b.tokens[k]],
   source |-> IF NewTier(b, a) = {} THEN "unset" ELSE CHOOSE k \in NewTier(b, a) : TRUE,
   warmServed |-> a.warmServed # b.warmServed, right |-> right, error |-> raised]

\* The same, from the turn's own observation and its own failure: what it should be.
OwnOf(o, right, raised) ==
  [hit |-> o.hit, miss |-> o.miss, attempted |-> o.attempted, succeeded |-> o.succeeded, found |-> o.found,
   used |-> o.used, injected |-> o.injected, tokens |-> o.tokens, source |-> o.source,
   warmServed |-> o.warmServed, right |-> right, error |-> raised]

RunningSum(of, N) == LET sum[n \in 0 .. N] == IF n = 0 THEN 0 ELSE sum[n - 1] + of[n] IN sum
SumOver(s, F(_)) == RunningSum([i \in DOMAIN s |-> F(s[i])], Len(s))[Len(s)]
AnyOf(s, F(_)) == \E i \in DOMAIN s : F(s[i])
LastOf(s) == s[Len(s)]

\* _score: flags of any of the turns, sums, averages rounded down; the verdict is of the last.
Score(runs, grounded) ==
  [correct |-> LastOf(runs).right, grounded |-> grounded, error |-> LastOf(runs).error,
   hit |-> AnyOf(runs, LAMBDA r : r.hit), miss |-> AnyOf(runs, LAMBDA r : r.miss),
   attempted |-> AnyOf(runs, LAMBDA r : r.attempted), succeeded |-> AnyOf(runs, LAMBDA r : r.succeeded),
   found |-> SumOver(runs, LAMBDA r : r.found), used |-> SumOver(runs, LAMBDA r : r.used),
   injected |-> SumOver(runs, LAMBDA r : r.injected) \div Len(runs),
   tokens |-> [k \in Tiers |-> SumOver(runs, LAMBDA r : r.tokens[k]) \div Len(runs)],
   source |-> LastOf(runs).source, warmServed |-> LastOf(runs).warmServed]

\* BenchmarkMetrics.from_results: counts over the cases; a rate is a count over another.
Number(s, F(_)) == Cardinality({i \in DOMAIN s : F(s[i])})
FromResults(rs) ==
  LET correct == Number(rs, LAMBDA r : r.correct)
      grounded == Number(rs, LAMBDA r : r.correct /\ r.grounded)
      successes == Number(rs, LAMBDA r : r.succeeded)
      tier(r) == IF r.source = "unset" THEN "none" ELSE r.source
  IN  [total |-> Len(rs), correct |-> correct, accuracy |-> <<correct, Len(rs)>>,
       hits |-> Number(rs, LAMBDA r : r.hit), misses |-> Number(rs, LAMBDA r : r.miss),
       attempts |-> Number(rs, LAMBDA r : r.attempted), successes |-> successes,
       useful |-> Number(rs, LAMBDA r : r.succeeded /\ r.used > 0),
       grounded |-> grounded, ungrounded |-> Number(rs, LAMBDA r : r.correct /\ ~r.grounded),
       fidelity |-> <<grounded, correct>>,
       byTier |-> [k \in Tiers \cup {"none"} |-> Number(rs, LAMBDA r : tier(r) = k)],
       injected |-> SumOver(rs, LAMBDA r : r.injected)]

\* AggregatedMetrics.from_runs: the totals of the repetitions.
FromRuns(ms) == [runs |-> Len(ms), cases |-> SumOver(ms, LAMBDA m : m.total), correct |-> SumOver(ms, LAMBDA m : m.correct)]

--------------------------------------------------------------------------------
BenchInit ==
  /\ bphase = "reset" /\ round = 1 /\ at = 1  /\ counters = NoTotals /\ before = NoTotals
  /\ observed = <<>> /\ perRun = <<>> /\ error = FALSE /\ results = <<>> /\ metrics = <<>>

\* run_dataset: the aggregates are cleared before each repetition.
ResetAnalytics ==
  /\ bphase = "reset"
  /\ counters' = NoTotals /\ results' = <<>> /\ at' = 1 /\ bphase' = "preload"
  /\ UNCHANGED <<round, before, observed, perRun, error, metrics>>

\* _preload: the conversation into the working memory or the facts into L3; a tier that is down ends it all.
Preload ==
  /\ bphase = "preload"
  /\ observed' = <<>> /\ perRun' = <<>> /\ error' = FALSE
  /\ bphase' \in {"aborted", "snapshot"}
  /\ UNCHANGED <<round, at, counters, before, results, metrics>>

\* Mutant: the snapshot is the one of the case's first turn.
SnapshotOfTheCase ==
  /\ bphase = "snapshot"
  /\ before' = (IF perRun = <<>> THEN SnapshotAnalytics(counters) ELSE before) /\ bphase' = "turn"
  /\ UNCHANGED <<round, at, counters, observed, perRun, error, results, metrics>>

Snapshot ==
  /\ bphase = "snapshot"
  /\ before' = SnapshotAnalytics(counters) /\ bphase' = "turn"
  /\ UNCHANGED <<round, at, counters, observed, perRun, error, results, metrics>>

\* run_single: the question is asked; a turn that raises has no answer, and the case keeps its error.
AskQuestion(c, far, right) ==
  /\ bphase = "turn"
  /\ LET o == ObservationOf(c, far)
         raised == error \/ far < Len(Stages)
     IN  /\ counters' = Record(counters, o)
         /\ error' = raised
         /\ observed' = Append(observed, OwnOf(o, right, far < Len(Stages)))
         /\ perRun' = Append(perRun, DiffAnalytics(before, counters', right, raised))
  /\ bphase' = IF Len(perRun') = Cases[at].repeat THEN "score" ELSE "snapshot"
  /\ UNCHANGED <<round, at, before, results, metrics>>

\* Only a case of L3 alone is checked for what L3 finds.
ScoreCase(found) ==
  /\ bphase = "score" /\ (~Cases[at].episodic => found)
  /\ results' = Append(results, Score(perRun, found))
  /\ IF at < Len(Cases)
     THEN at' = at + 1 /\ bphase' = "preload" /\ UNCHANGED <<round, metrics>>
     ELSE /\ metrics' = Append(metrics, FromResults(results'))
          /\ IF round < Rounds THEN round' = round + 1 /\ bphase' = "reset" ELSE bphase' = "done" /\ UNCHANGED round
          /\ UNCHANGED at
  /\ UNCHANGED <<counters, before, observed, perRun, error>>

BenchNext ==
  \/ ResetAnalytics \/ Preload \/ Snapshot
  \/ \E c \in Asked, far \in Reaches, right \in BOOLEAN :
        (right => far = Len(Stages)) /\ AskQuestion(c, far, right)
  \/ \E found \in BOOLEAN : ScoreCase(found)

BenchSpec == BenchInit /\ [][BenchNext]_benchvars

--------------------------------------------------------------------------------
(* What the benchmark reads off the counters for a turn is what that turn did
   and nothing of the turns before it, although they are never cleared between
   the turns of a repetition; only its error is, once a turn of the case has
   raised, that of a turn before it.  And the metrics add up over the cases:
   every case in one tier, every right answer grounded or not
   (runner.py:62-128, 240-290, metrics.py:111-167). *)
ErrorsSoFar(i) == \E j \in 1 .. i : observed[j].error
CasesAreTheirOwn ==
  /\ DOMAIN perRun = DOMAIN observed
  /\ \A i \in DOMAIN perRun : perRun[i] = [observed[i] EXCEPT !.error = ErrorsSoFar(i)]
  /\ \A i \in DOMAIN metrics :
       LET m == metrics[i]
       IN  /\ m.total = Len(Cases) /\ m.grounded + m.ungrounded = m.correct
           /\ OfTiers(m.byTier) + m.byTier["none"] = m.total
           /\ m.useful <= m.successes /\ m.successes <= m.attempts /\ m.attempts <= m.total
  /\ bphase = "done" => FromRuns(metrics).cases = Rounds * Len(Cases)

(* diff_analytics says "Compute one run's contribution" (runner.py:268): the
   error kept for a turn is the turn's own.  But the variable is set outside the
   loop over the repetitions and never cleared: once one has raised, those that
   answer after it carry its error too (runner.py:80, 91, 96), and the result of
   the case has the error of the last (runner.py:224). *)
ErrorIsTheTurns == \A i \in DOMAIN perRun : perRun[i].error = observed[i].error
================================================================================
