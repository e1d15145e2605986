----------------------------- MODULE MCDagRunner -----------------------------
(***************************************************************************)
(* Instances of DagRunner for TLC.                                         *)
(***************************************************************************)
EXTENDS DagRunnerProps

CONSTANTS n1, n2, n3

ThreeNodes == {n1, n2, n3}

\* Every acyclic graph on three nodes up to renaming, and a cyclic one.
SmallGraphs ==
  {[n \in ThreeNodes |-> IF n = n1 THEN {} ELSE IF n = n2 THEN a ELSE b] :
     a \in SUBSET {n1}, b \in SUBSET {n1, n2}}
  \cup {[n \in ThreeNodes |-> IF n = n1 THEN {n2} ELSE IF n = n2 THEN {n1} ELSE {}]}

\* n3 may retry once, the others fail at once.
OneRetry == [n \in ThreeNodes |-> IF n = n3 THEN 1 ELSE 0]
=============================================================================
