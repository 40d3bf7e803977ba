---------------------------- MODULE MCNetworkRun ----------------------------
(* Instances of NetworkRun for TLC.                                        *)
EXTENDS NetworkRun

CONSTANTS r1, r2, a1, a2
=============================================================================
