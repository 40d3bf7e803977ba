----------------------- MODULE MCContinuousValidation -----------------------
(* Instances of ContinuousValidation for TLC.                              *)
EXTENDS ContinuousValidation

CONSTANTS p1, p2, w1, w2

MCIntervalOne == [p \in Policies |-> 2]
=============================================================================
