--------------------------- MODULE MCAuthorization ---------------------------
(* Instances of Authorization for TLC.                                     *)
EXTENDS Authorization, TLC

CONSTANTS alice, bob, carol, target, foreign, s1, s2

Draft(who, classes, scope, from, until) ==
  [requester |-> who, classes |-> classes, scope |-> scope, from |-> from, until |-> until]

(* One that ends before the other begins, the later one with the class that*)
(* needs the stronger approval; two that create() refuses.                 *)
MCContents ==
  {Draft(alice, {"safe_validation"}, {target}, 0, 1),
   Draft(alice, {"safe_validation", "credential_validation"}, {target}, 1, 2),
   Draft(bob, {"exploit_execution"}, {target}, 0, 2),
   Draft(bob, {"safe_validation"}, {target, foreign}, 0, 2)}

MCRequests ==
  {[class |-> "safe_validation", refs |-> {target}],
   [class |-> "credential_validation", refs |-> {target}],
   [class |-> "exploit_execution", refs |-> {target}],
   [class |-> "safe_validation", refs |-> {target, foreign}]}

SubmitterSymmetry == Permutations(Submitters)
=============================================================================
