------------------------------ MODULE Measurements ------------------------------
(***************************************************************************)
(* The turns of the bot and the one MemoryAnalytics they share             *)
(* (orchestrator/orchestrator.py, run): turns of several chats overlap,    *)
(* each may raise at any of its stages, and each is folded into the        *)
(* aggregates once, as far as it got.                                      *)
(***************************************************************************)
EXTENDS Observations

CONSTANTS Turns,       \* turns of different chats
          Courses,     \* bound: what a turn may meet
          Interval     \* ANALYTICS_LOG_INTERVAL

ASSUME MeasurementsBounds == Interval \in Nat \ {0} /\ IsFiniteSet(Turns) /\ \A c \in Courses : IsCourse(c)

VARIABLES course,   \* of each turn
          far,      \* how many of the stages it has done
          ending,   \* whether it runs, has answered, has raised
          totals,
          reports   \* how many requests there were at each report logged

measvars == <<course, far, ending, totals, reports>>

MeasInit ==
  /\ course \in [Turns -> Courses] /\ far = [t \in Turns |-> 0] /\ ending = [t \in Turns |-> "runs"]
  /\ totals = NoTotals /\ reports = <<>>

Advance(t) ==
  /\ ending[t] = "runs" /\ far[t] < Len(Stages)
  /\ far' = [far EXCEPT ![t] = @ + 1]
  /\ UNCHANGED <<course, ending, totals, reports>>

Recorded(t) == totals' = Record(totals, ObservationOf(course[t], far[t]))

\* The observation is recorded; every so often a report is logged.
Reply(t) ==
  /\ ending[t] = "runs" /\ far[t] = Len(Stages)
  /\ Recorded(t)
  /\ ending' = [ending EXCEPT ![t] = "answered"]
  /\ reports' = IF totals'.requests % Interval = 0 THEN Append(reports, totals'.requests) ELSE reports
  /\ UNCHANGED <<course, far>>

\* What was observed so far is recorded, and the exception goes on; no report is logged.
Raise(t) ==
  /\ ending[t] = "runs" /\ far[t] < Len(Stages)
  /\ Recorded(t)
  /\ ending' = [ending EXCEPT ![t] = "raised"]
  /\ UNCHANGED <<course, far, reports>>

MeasNext == \E t \in Turns : Advance(t) \/ Reply(t) \/ Raise(t)

MeasSpec == MeasInit /\ [][MeasNext]_measvars

--------------------------------------------------------------------------------
Count(S) == Cardinality(S)
Ended == {t \in Turns : ending[t] # "runs"}
Reached(n) == {t \in Ended : far[t] >= n}

(* A turn counted as served by its thread and as a search without success: it
   named a date, and nothing was left of what it held and what it found. *)
Emptied(c) == c.state = "warm" /\ c.held > 0 /\ c.dated > 0 /\ c.mixed = 0
LeftWithNothing == {t \in Reached(2) : Emptied(course[t])}

(* However the turns overlap and wherever they raise, the report adds up: each
   turn is counted once; its state is one of three, its search one hit or one
   miss, a hit only of a cache that was consulted; a warm turn that was served
   consulted none, and it succeeded unless the date it named left it with
   nothing; what was injected is the sum of its parts (analytics.py:84-213,
   orchestrator.py:331-337, 359-398, 421-434, 468, 597-602, 624-633). *)
TurnsAccounted ==
  LET r == Report(totals)
  IN  /\ totals.requests = Count(Ended)
      /\ totals.states["cold"] + totals.states["warm"] + totals.states["drift"] = Count({t \in Ended : ending[t] = "answered"})
      /\ totals.intents["recall"] + totals.intents["greeting"] + totals.intents["conversational"] = totals.requests
      /\ totals.hits + totals.misses = totals.attempts /\ totals.attempts = Count(Reached(2))
      /\ totals.hits <= totals.lookups /\ totals.lookups + totals.warmServed <= totals.attempts
      /\ totals.successes <= totals.attempts
      /\ totals.warmServed <= totals.successes + Count(LeftWithNothing)
      /\ OfTiers(totals.source) + totals.source["none"] = Count(Reached(3))
      /\ \A k \in Tiers : totals.source[k] <= totals.presence[k]
      /\ totals.used <= totals.found /\ totals.breaks <= totals.states["cold"]
      /\ r.unattributed = 0
      /\ r.toolResults + r.resent >= totals.prompt - totals.injected
================================================================================
