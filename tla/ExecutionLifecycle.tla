------------------------- MODULE ExecutionLifecycle -------------------------
(***************************************************************************)
(* What a validation execution promises to whoever reads its row: the      *)
(* status moves along a fixed graph and stops in a terminal status, a      *)
(* cancellation request sticks and is accepted only while the execution is *)
(* open, and CANCELLED is reached only from a RUNNING execution somebody   *)
(* asked to cancel.  The coroutine that carries an execution may be lost;  *)
(* nobody takes it over, so the status then stays what it is, for ever,    *)
(* although a request to cancel is still accepted.                         *)
(***************************************************************************)

VARIABLES
  status,      \* validation_executions.status, "absent" before the insert
  requested,   \* validation_executions.cancellation_requested
  abandoned    \* nobody is left who would move the status on

Terminal == {"completed", "partially_completed", "failed", "cancelled", "denied"}

(* The edges the aggregate takes by itself.                                *)
Edges == { <<"absent", "pending">>,
           <<"pending", "policy_checking">>,
           <<"policy_checking", "authorized">>,
           <<"policy_checking", "denied">>,
           <<"authorized", "denied">>,
           <<"authorized", "failed">>,
           <<"authorized", "running">>,
           <<"running", "completed">>,
           <<"running", "partially_completed">>,
           <<"running", "failed">> }

Init == status = "absent" /\ requested = FALSE /\ abandoned = FALSE

Move == /\ ~abandoned
        /\ <<status, status'>> \in Edges
        /\ UNCHANGED <<requested, abandoned>>

Cancel == /\ ~abandoned
          /\ status = "running"
          /\ requested
          /\ status' = "cancelled"
          /\ UNCHANGED <<requested, abandoned>>

RequestCancellation == /\ status \notin Terminal \cup {"absent"}
                       /\ requested' = TRUE
                       /\ UNCHANGED <<status, abandoned>>

Abandon == /\ status \notin Terminal
           /\ abandoned' = TRUE
           /\ UNCHANGED <<status, requested>>

Next == Move \/ Cancel \/ RequestCancellation \/ Abandon

Spec == Init /\ [][Next]_<<status, requested, abandoned>>
=============================================================================
