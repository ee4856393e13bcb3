------------------------------- MODULE Rounds -------------------------------
(***************************************************************************)
(* What a line of collectives over all ranks promises: nobody gets past    *)
(* one before everybody has got past those before it, and nobody misses    *)
(* one.                                                                    *)
(***************************************************************************)
EXTENDS Integers

CONSTANTS
    Members,   \* the ranks of the world
    Last       \* collectives of the whole world in one test

VARIABLE round   \* of each rank: how many of them it has got past

Init == round = [r \in Members |-> 0]

Advance(r) ==
    /\ round[r] < Last
    /\ \A m \in Members : round[m] >= round[r]
    /\ round' = [round EXCEPT ![r] = @ + 1]

Next == \E r \in Members : Advance(r)

Spec == Init /\ [][Next]_round

=============================================================================
