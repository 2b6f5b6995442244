----------------------------- MODULE MCWorkers -----------------------------
(* A small instance of Workers: two workers, and for each a request more   *)
(* than it has connections.                                                *)
EXTENDS Workers, TLC

CONSTANTS r1, r2, r3, r4, w1, w2, nobody

MCTwoWorkers == [r \in {r1, r2, r3, r4} |-> IF r \in {r1, r2} THEN w1 ELSE w2]

=============================================================================
