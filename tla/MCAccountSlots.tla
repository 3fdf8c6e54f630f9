--------------------------- MODULE MCAccountSlots ---------------------------
(* Two fixed jobs on account a1, and two dynamic jobs: d1 may use a1 and   *)
(* a2, the other one only a1.                                              *)
EXTENDS AccountSlots

CONSTANTS a1, a2, d1

MCHome == [j \in Jobs |-> a1]
MCEligible == [j \in Jobs |-> IF j = d1 THEN {a1, a2} ELSE {a1}]

=============================================================================
