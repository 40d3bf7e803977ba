----------------------- MODULE MCValidationExecution ------------------------
(* Instances of ValidationExecution for TLC.                               *)
EXTENDS ValidationExecution

CONSTANTS c1, c2

MCBaselinePlans == {p \in StepPlans : Len(p) # 2}
MCDiscoveryPlan == {p \in StepPlans : Len(p) = 2}

MCWebTriggers == {"PORT_443_TLS_HTTPS", "PORT_80_HTTP"}
MCAllTriggers == RuleIds

MCAllPlans == StepPlans
=============================================================================
