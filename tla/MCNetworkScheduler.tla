------------------------- MODULE MCNetworkScheduler -------------------------
(* Instances of NetworkScheduler for TLC: one policy.                      *)
EXTENDS NetworkScheduler

CONSTANTS p1, w1, w2, o1

MCInterval == [p \in Policies |-> 2]

=============================================================================
