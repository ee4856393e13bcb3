----------------------------- MODULE MCScheduler -----------------------------
(* Instances of Scheduler for TLC: prompts, lengths and priorities.        *)
EXTENDS Scheduler

ThreePrompts == <<5, 3, 2>>
FourPrompts == <<5, 3, 2, 1>>
ThreeEach == [r \in Requests |-> 3]
Falling == [r \in Requests |-> Cardinality(Requests) - r]
=============================================================================
