------------------------------- MODULE MCMemory -------------------------------
(***************************************************************************)
(* The three memories, which share no state: a run checks them one beside  *)
(* the other.  tier says which of them a behaviour is of.                  *)
(***************************************************************************)
EXTENDS PermanentMemory, WorkingMemory, EpisodicMemory

VARIABLE tier

memory == <<tier, l1vars, l2vars, l3vars>>

Init ==
  /\ tier \in {"L1", "L2", "L3"} /\ L1Init /\ L2Init /\ L3Init
  /\ tier # "L1" => live = {}     \* one of L1's initial states will do

Next ==
  \/ tier = "L1" /\ L1Next /\ UNCHANGED <<tier, l2vars, l3vars>>
  \/ tier = "L2" /\ L2Next /\ UNCHANGED <<tier, l1vars, l3vars>>
  \/ tier = "L3" /\ L3Next /\ UNCHANGED <<tier, l1vars, l2vars>>

Spec == Init /\ [][Next]_memory
================================================================================
