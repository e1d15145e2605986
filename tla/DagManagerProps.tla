--------------------------- MODULE DagManagerProps ---------------------------
(***************************************************************************)
(* The properties of DagManager that the runs check and DagManagerProofs   *)
(* proves.                                                                 *)
(***************************************************************************)
EXTENDS DagManager

\* Every variable stays within the values the code gives it.
TypeOK ==
  /\ phase \in [Dag -> Phase]
  /\ gen \in [Dag -> 0 .. MaxRuns]
  /\ chat \in [Dag -> Chat]
  /\ outcome \in [Dag -> [Run -> {"none", "success", "failure"}]]
  /\ alive \in [Dag -> SUBSET Run]
  /\ cancelReq \subseteq Dag
  /\ status \in [Dag -> [state : State, by : 0 .. MaxRuns]]
  /\ result \in [Dag -> 0 .. MaxRuns]
  /\ told \in [Dag -> [state : State, by : 0 .. MaxRuns, result : 0 .. MaxRuns]]
  /\ lock \in [Chat -> {"free", "user"} \cup Dag]
  /\ wait \in [Chat -> {NoOne} \cup Dag \X Run]
  /\ stops \in Nat /\ faults \in Nat

InTurnOf(d) == phase[d] \in {"turn", "dropped"}

\* The lock of a chat is held by the one turn of the orchestrator that is
\* going on in it, and by nothing that is over, however the turn ended.
ChatSerialized ==
  /\ \A d \in Dag : InTurnOf(d) => lock[chat[d]] = d
  /\ \A c \in Chat : lock[c] \in Dag => InTurnOf(lock[c]) /\ chat[lock[c]] = c

\* Neither the status key nor the report to the chat ever says "done" of a
\* run whose runner did not return success: not after a failure, a stop or a
\* broken Redis, nor because an earlier run of the same id succeeded.
NeverFalseDone ==
  \A d \in Dag :
    /\ status[d].state = "done" => outcome[d][status[d].by] = "success"
    /\ told[d].state = "done" =>
         told[d].by = gen[d] /\ outcome[d][gen[d]] = "success"

\* While Redis works and nothing was stopped twice, a chat told "done" is
\* given the results of that very run.
DoneComesWithResult ==
  \A d \in Dag :
    faults = 0 /\ stops <= 1 /\ phase[d] \in {"calling", "turn"}
      /\ told[d].state = "done" => told[d].result = gen[d]

\* While Redis works, a run nobody stopped leaves its verdict and its result
\* behind.
VerdictRecorded ==
  \A d \in Dag :
    faults = 0 /\ stops = 0 /\ gen[d] > 0 /\ phase[d] = "none" =>
      /\ status[d].by = gen[d]
      /\ status[d].state = (IF outcome[d][gen[d]] = "success" THEN "done" ELSE "failed")
      /\ outcome[d][gen[d]] # "none" => result[d] = gen[d]

\* Without faults the verdict of a run is neither lost nor passed on to
\* another: the status and the result left behind, and the ones the chat is
\* given, are those of that run.
VerdictKept == DoneComesWithResult /\ VerdictRecorded

\* A run somebody waits to see stopped winds down: once its cancellation was
\* delivered, wherever that was, it neither runs nor records a verdict.
StoppedRunWindsDown ==
  \A c \in Chat : wait[c] # NoOne =>
    LET d == wait[c][1]
    IN gen[d] = wait[c][2] /\ d \notin cancelReq =>
         phase[d] \notin {"spec", "announce", "running", "closing", "saving", "failing"}

\* Every run that is started is over in the end, and its id is free again.
RunsEnd == \A d \in Dag : (phase[d] # "none") ~> (phase[d] = "none")

\* Every run that gets as far as the runner has its chat told, in a turn of
\* its own, unless somebody stops it or Redis fails.
ChatIsTold ==
  \A d \in Dag : (phase[d] = "running") ~> (phase[d] = "turn" \/ stops + faults > 0)

\* A stop call returns.
StopReturnsAtLast == \A c \in Chat : (wait[c] # NoOne) ~> (wait[c] = NoOne)

\* Whatever ends a run, its id comes free and whoever stops it gets on.
RunsAndStopsEnd == RunsEnd /\ StopReturnsAtLast
-----------------------------------------------------------------------------
(* The strengthening that makes NeverFalseDone inductive.                  *)

\* A DAG that is registered has had a run.
Started == \A d \in Dag : phase[d] # "none" => gen[d] \in Run

\* What is known of a "done" in the status key, or about to be reported, in
\* each phase: the run that wrote it, and that it is true.
DoneInv(d) ==
  /\ \A g \in alive[d] : g <= gen[d]
  /\ status[d].by <= gen[d]
  /\ status[d].state = "done" =>
       /\ outcome[d][status[d].by] = "success"
       /\ phase[d] \in {"spec", "announce", "running"} => status[d].by # gen[d]
       /\ phase[d] \in {"running", "closing", "saving", "failing", "cancelling", "reporting"} =>
            status[d].by = gen[d]
  /\ told[d].state = "done" =>
       /\ told[d].by = gen[d] /\ outcome[d][gen[d]] = "success"
       /\ phase[d] \in {"fetching", "calling", "turn", "dropped", "ended", "none"}

-----------------------------------------------------------------------------
(* The strengthening that makes StoppedRunWindsDown and VerdictKept        *)
(* inductive.                                                              *)

\* The turn that waits for a run is going on, is not of that run's DAG, and the
\* run is not one to come.
WaitsRight ==
  \A c \in Chat : wait[c] # NoOne =>
    lock[c] # "free" /\ lock[c] # wait[c][1] /\ wait[c][2] <= gen[wait[c][1]]

\* A single stop cancels a single DAG, and once.
OneStop ==
  /\ stops = 0 => cancelReq = {} /\ \A c \in Chat : wait[c] = NoOne
  /\ stops = 0 => \A d \in Dag : phase[d] # "cancelling"
  /\ stops <= 1 =>
       /\ \A d \in Dag : phase[d] # "dropped" /\ (phase[d] = "cancelling" => cancelReq = {})
       /\ \A d \in cancelReq : cancelReq = {d} /\ \A c \in Chat : wait[c] # NoOne => wait[c][1] = d

\* The verdict of the current run is in its keys.
VerdictIn(d) ==
  /\ status[d].by = gen[d]
  /\ status[d].state = IF outcome[d][gen[d]] = "success" THEN "done" ELSE "failed"

\* What is known of outcome and keys in each phase: of any run; while Redis
\* works and nothing was stopped twice; and while nothing was stopped at all.
VerdictInv(d) ==
  /\ \A g \in Run : g > gen[d] => outcome[d][g] = "none"
  /\ phase[d] \in {"spec", "announce", "running"} => outcome[d][gen[d]] = "none"
  /\ faults = 0 /\ stops <= 1 =>
       /\ phase[d] = "failing" => outcome[d][gen[d]] = "none"
       /\ phase[d] = "reporting" /\ status[d].state = "done" => result[d] = gen[d]
       /\ phase[d] = "fetching" /\ told[d].state = "done" => result[d] = gen[d]
       /\ phase[d] \in {"calling", "turn"} /\ told[d].state = "done" => told[d].result = gen[d]
  /\ faults = 0 /\ stops = 0 =>
       /\ alive[d] \subseteq IF phase[d] = "running" THEN {gen[d]} ELSE {}
       /\ phase[d] = "saving" => VerdictIn(d)
       /\ phase[d] \in {"reporting", "fetching", "calling", "turn", "ended", "none"} /\ gen[d] > 0 =>
            VerdictIn(d) /\ (outcome[d][gen[d]] # "none" => result[d] = gen[d])

-----------------------------------------------------------------------------
(* What the code says of itself and does not keep.                         *)

\* bot.py: the completion of a DAG waits for the lock of its chat without a
\* timeout, and there is no deadlock risk.  So no turn waits for a DAG that
\* waits for that turn to end.
NoDeadlock ==
  \A c \in Chat : wait[c] # NoOne =>
    LET d == wait[c][1]
    IN ~(phase[d] = "calling" /\ d \notin cancelReq /\ gen[d] = wait[c][2] /\ chat[d] = c)
=============================================================================
