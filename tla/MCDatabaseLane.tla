--------------------------- MODULE MCDatabaseLane ---------------------------
(* DatabaseLane for TLC: three calls, all on one lane (its semaphore and     *)
(* queue) or one of them on the other (the write lock they share).           *)
EXTENDS DatabaseLane

CONSTANTS fg, bg, j1, j2, j3

MCPlans ==
    {[j \in {j1, j2, j3} |-> fg],
     [j \in {j1, j2, j3} |-> IF j = j3 THEN bg ELSE fg]}
=============================================================================
