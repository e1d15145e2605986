---------------------------- MODULE MCDagScenes ----------------------------
(***************************************************************************)
(* DagManager on two DAG ids in two scenes.  In the first all runs are of  *)
(* one id, so that what an earlier run left behind meets a later one.  In  *)
(* the second each id has one run to go, so that the completion turn of    *)
(* one DAG may stop the other and be stopped in turn.  The runs an id had  *)
(* before were successful and left their keys.                             *)
(***************************************************************************)
EXTENDS MCDagManager

OneId == \E d \in Dag : gen = [e \in Dag |-> IF e = d THEN 0 ELSE MaxRuns]

OneRunEach == gen = [d \in Dag |-> MaxRuns - 1]

Left(d) == IF gen[d] = 0 THEN "none" ELSE "done"

SceneInit ==
  /\ gen \in [Dag -> 0 .. MaxRuns]
  /\ \/ OneId /\ faults = 0
     \/ OneRunEach /\ faults = MaxFaults - 1
  /\ stops = 0
  /\ phase = [d \in Dag |-> "none"] /\ alive = [d \in Dag |-> {}] /\ cancelReq = {}
  /\ chat \in [Dag -> Starters]
  /\ outcome = [d \in Dag |-> [g \in Run |-> IF g <= gen[d] THEN "success" ELSE "none"]]
  /\ status = [d \in Dag |-> [state |-> Left(d), by |-> gen[d]]]
  /\ result = gen
  /\ told = [d \in Dag |-> [state |-> Left(d), by |-> gen[d], result |-> gen[d]]]
  /\ lock = [c \in Chat |-> "free"] /\ wait = [c \in Chat |-> NoOne]

SceneSpec == SceneInit /\ [][Next]_vars
=============================================================================
