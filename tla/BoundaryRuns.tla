---------------------------- MODULE BoundaryRuns ----------------------------
(***************************************************************************)
(* What a scheduler promises about the due boundaries of its policies,     *)
(* with no claims, leases, clocks or operators in sight.  A boundary gets  *)
(* one row in its whole life; its run is under way from that insert until  *)
(* it ends or is lost; and only the run that inserted the row can end it.  *)
(* The index on (policy, due boundary) makes the row unique, and no code   *)
(* takes an open row up again.                                             *)
(***************************************************************************)
EXTENDS TLAPS

CONSTANT Boundaries   \* pairs of a policy and a due instant

VARIABLES
  rows,     \* boundaries that have a row
  results,  \* those of them whose row has a terminal status
  active    \* those of them whose run is under way

vars == <<rows, results, active>>

Init == rows = {} /\ results = {} /\ active = {}

(* The insert, which the unique index admits once.                         *)
Begin(b) ==
  /\ b \notin rows
  /\ rows' = rows \cup {b}
  /\ active' = active \cup {b}
  /\ UNCHANGED results

(* The run saves its terminal status.                                      *)
End(b) ==
  /\ b \in active
  /\ results' = results \cup {b}
  /\ active' = active \ {b}
  /\ UNCHANGED rows

(* The run raises, is cancelled or dies with its process.                  *)
Lose(b) ==
  /\ b \in active
  /\ active' = active \ {b}
  /\ UNCHANGED <<rows, results>>

Next == \E b \in Boundaries : Begin(b) \/ End(b) \/ Lose(b)

Spec == Init /\ [][Next]_vars

-----------------------------------------------------------------------------
(* A run under way has an open row.                                        *)
Consistent == /\ results \subseteq rows
              /\ active \subseteq rows \ results

(* An open row whose run is gone is an orphan for good: it never gets a    *)
(* result and no run for its boundary is ever under way again.             *)
OrphansStay ==
  [][\A b \in rows \ (results \cup active) : b \in rows' \ (results' \cup active')]_vars

(* The state of the abstract scheduler is consistent.                      *)
THEOREM RunsConsistent == Spec => []Consistent
<1>1. Init => Consistent
  BY DEF Init, Consistent
<1>2. Consistent /\ [Next]_vars => Consistent'
  BY DEF Consistent, Next, Begin, End, Lose, vars
<1> QED
  BY <1>1, <1>2, PTL DEF Spec

(* A boundary whose run was lost is never validated.                       *)
THEOREM OrphansAreForever == Spec => OrphansStay
<1> DEFINE Stay == \A b \in rows \ (results \cup active) : b \in rows' \ (results' \cup active')
<1>1. [Next]_vars => [Stay]_vars
  BY DEF Next, Begin, End, Lose, vars
<1> QED
  BY <1>1, PTL DEF Spec, OrphansStay
=============================================================================
