-------------------------- MODULE NetworkRunProofs --------------------------
(***************************************************************************)
(* Theorems about network validation runs, for every number of runs,       *)
(* addresses, ports and places in the semaphore.                           *)
(*                                                                         *)
(* Every step is first reduced to its effect: which phase, status and      *)
(* probes one run has afterwards.  The invariants are proved about the     *)
(* effects.                                                                *)
(***************************************************************************)
EXTENDS NetworkRun, FiniteSetTheorems, TLAPS

(* The other runs keep what they hold; r is in phase f with probes g.      *)
Execd(r, f, g) ==
  /\ exec' \in [Runs -> Exec]
  /\ \A q \in Runs \ {r} : exec'[q] = exec[q]
  /\ exec'[r].phase = f
  /\ exec'[r].probe = g

(* The status of r becomes s.                                              *)
Rowed(r, s) ==
  /\ row' \in [Runs -> Row]
  /\ \A q \in Runs \ {r} : row'[q] = row[q]
  /\ row'[r].status = s
  /\ row'[r].cancellation_requested = row[r].cancellation_requested

(* What create_and_run() does next in phase e: the phase f it goes to and  *)
(* the status s the row then has.                                          *)
Passage(r, e, f, s) ==
  \/ e = "created" /\ f = "checking" /\ s = "policy_checking"
  \/ e = "checking" /\ f = "checking" /\ s = row[r].status
  \/ e = "checking" /\ f = "authorized" /\ s = "authorized"
  \/ e = "checking" /\ f = "over" /\ s = "denied"
  \/ e = "authorized" /\ f = "running" /\ s = "running"
  \/ e = "running" /\ f \in {"planning", "probed"} /\ s = row[r].status
  \/ e = "probing" /\ f = "probing" /\ s = row[r].status
  \/ e = "probing" /\ f = "probed" /\ s = row[r].status /\ Quiet(r)
  \/ e = "failing" /\ f = "over" /\ s = "failed"
  \/ e = "probed" /\ f = "over" /\ s = "cancelled" /\ row[r].cancellation_requested
  \/ e = "probed" /\ f = "finishing" /\ s = row[r].status /\ ~row[r].cancellation_requested
  \/ e = "finishing" /\ f = "reconciling" /\ s \in {"completed", "partially_completed"}
  \/ e = "reconciling" /\ f \in {"discovered", "over"} /\ s = row[r].status
  \/ e = "discovered" /\ f = "built" /\ s = row[r].status
  \/ e = "built" /\ f = "over" /\ s = row[r].status

-----------------------------------------------------------------------------
(* The invariant.                                                          *)

(* The row lags never behind the coroutine.                                *)
InStep(r) ==
  /\ exec[r].phase = "idle" => ~row[r].cancellation_requested
  /\ exec[r].phase = "created" => row[r].status = "pending"
  /\ exec[r].phase = "checking" => row[r].status = "policy_checking"
  /\ exec[r].phase = "authorized" => row[r].status = "authorized"
  /\ exec[r].phase \in {"running", "planning", "probing", "probed", "failing", "finishing"} =>
       row[r].status = "running"
  /\ exec[r].phase \in {"reconciling", "discovered", "built"} =>
       row[r].status \in {"completed", "partially_completed"}

Before == {"idle", "created", "checking", "authorized", "running", "planning"}

After == {"probed", "finishing", "reconciling", "discovered", "built"}

(* There are no probes before the plan, and none is under way after        *)
(* gather() unless it raised.                                              *)
ProbesInStep(r) ==
  /\ exec[r].phase \in Before => exec[r].probe = NoProbes
  /\ exec[r].phase \in After => Quiet(r)
  /\ row[r].status \in Terminal \ {"failed"} => Quiet(r)

(* A skipped probe proves a request, and the last check saw it or will.    *)
SkipsSeen(r) ==
  /\ (\E p \in Probes : exec[r].probe[p] = "skipped") =>
       /\ row[r].cancellation_requested
       /\ exec[r].phase # "finishing"
       /\ row[r].status \notin {"completed", "partially_completed"}
  /\ snapshot[r] # NoSnapshot => row[r].status \in {"completed", "partially_completed"}

VoidIsDenied(r) == void[r] => row[r].status = "denied" /\ row[r].cancellation_requested

Inv ==
  /\ TypeOK
  /\ \A r \in Runs : InStep(r) /\ ProbesInStep(r) /\ SkipsSeen(r) /\ VoidIsDenied(r)

-----------------------------------------------------------------------------
(* Effects of the steps.                                                   *)

LEMMA StatusEffect ==
  ASSUME NEW r \in Runs, NEW s \in Statuses, row \in [Runs -> Row],
         row' = [row EXCEPT ![r].status = s]
  PROVE  Rowed(r, s)
BY DEF Row, Rowed

LEMMA NoStatusEffect ==
  ASSUME NEW r \in Runs, row \in [Runs -> Row], row' = row
  PROVE  Rowed(r, row[r].status)
BY DEF Rowed

LEMMA PhaseEffect ==
  ASSUME NEW r \in Runs, NEW f \in Phases, exec \in [Runs -> Exec],
         exec' = [exec EXCEPT ![r].phase = f]
  PROVE  Execd(r, f, exec[r].probe)
BY DEF Exec, Execd

LEMMA ProbeEffect ==
  ASSUME NEW r \in Runs, exec \in [Runs -> Exec], NEW p \in Probes, NEW to \in ProbeStates,
         exec' = [exec EXCEPT ![r].probe[p] = to]
  PROVE  Execd(r, exec[r].phase, [exec[r].probe EXCEPT ![p] = to])
BY DEF Exec, Execd

LEMMA RaiseEffect ==
  ASSUME NEW r \in Runs, exec \in [Runs -> Exec], NEW p \in Probes, NEW to \in ProbeStates,
         NEW f \in Phases, exec' = [exec EXCEPT ![r].probe[p] = to, ![r].phase = f]
  PROVE  Execd(r, f, [exec[r].probe EXCEPT ![p] = to])
BY DEF Exec, Execd

LEMMA ProbesEffect ==
  ASSUME NEW r \in Runs, exec \in [Runs -> Exec], NEW g \in [Probes -> ProbeStates],
         NEW f \in Phases, exec' = [exec EXCEPT ![r].phase = f, ![r].probe = g]
  PROVE  Execd(r, f, g)
BY DEF Exec, Execd

LEMMA CheckingEffect ==
  ASSUME NEW r \in Runs, NEW f \in Phases, exec \in [Runs -> Exec], NEW S \in SUBSET Addresses,
         exec' = [exec EXCEPT ![r].phase = f, ![r].unchecked = S]
  PROVE  Execd(r, f, exec[r].probe)
BY DEF Exec, Execd

LEMMA AddressEffect ==
  ASSUME NEW r \in Runs, exec \in [Runs -> Exec], NEW S \in SUBSET Addresses,
         NEW T \in SUBSET Addresses,
         exec' = [exec EXCEPT ![r].unchecked = S, ![r].addresses = T]
  PROVE  Execd(r, exec[r].phase, exec[r].probe)
BY DEF Exec, Execd

LEMMA DeadlineEffect ==
  ASSUME NEW r \in Runs, exec \in [Runs -> Exec], exec' = [exec EXCEPT ![r].expired = TRUE]
  PROVE  Execd(r, exec[r].phase, exec[r].probe)
BY DEF Exec, Execd

LEMMA Typed ==
  ASSUME TypeOK
  PROVE  /\ row \in [Runs -> Row] /\ exec \in [Runs -> Exec]
         /\ \A r \in Runs : /\ exec[r].unchecked \in SUBSET Addresses
                            /\ exec[r].addresses \in SUBSET Addresses
                            /\ exec[r].probe \in [Probes -> ProbeStates]
                            /\ exec[r].phase \in Phases
                            /\ row[r].status \in Statuses
                            /\ row[r].cancellation_requested \in BOOLEAN
BY DEF TypeOK, Row, Exec

LEMMA ReachableTyped == ASSUME NEW r PROVE ReachablePorts(r) \in SUBSET Ports
BY DEF ReachablePorts, Probes

(* A step of create_and_run() other than the plan.                         *)
Passed(r) ==
  /\ \E f \in Phases, s \in Statuses :
       /\ Passage(r, exec[r].phase, f, s)
       /\ Execd(r, f, exec[r].probe)
       /\ Rowed(r, s)
  /\ UNCHANGED <<allowed, conditions, AfterRequest, barred, void>>
  /\ services' \subseteq Ports
  /\ captures' \in Seq(Runs)
  /\ \/ snapshot' = snapshot
     \/ exec[r].phase = "built" /\ snapshot' = [snapshot EXCEPT ![r] = ReachablePorts(r)]

LEMMA PassageEffect ==
  ASSUME TypeOK, NEW r \in Runs, RunStep(r) \/ Expire(r)
  PROVE  Plan(r) \/ Passed(r)
<1> DEFINE Effect(f, s) == /\ Execd(r, f, exec[r].probe)
                           /\ Rowed(r, s)
                           /\ Passage(r, exec[r].phase, f, s)
<1>t. /\ row \in [Runs -> Row] /\ exec \in [Runs -> Exec]
      /\ exec[r].unchecked \in SUBSET Addresses /\ exec[r].addresses \in SUBSET Addresses
      /\ exec[r].phase \in Phases /\ row[r].status \in Statuses
      /\ services \subseteq Ports /\ captures \in Seq(Runs)
  BY Typed DEF TypeOK
<1>a. ASSUME NEW f \in Phases, NEW s \in Statuses, Effect(f, s), UNCHANGED AtResults
      PROVE  Passed(r)
  BY <1>a, <1>t DEF Passed, AtResults, AfterRequest
<1>1. CASE BeginPolicyCheck(r)
  <2>1. "checking" \in Phases /\ "policy_checking" \in Statuses
    BY DEF Phases, Statuses
  <2>2. Effect("checking", "policy_checking")
    BY <1>1, <1>t, <2>1, CheckingEffect, StatusEffect DEF BeginPolicyCheck, Passage
  <2> QED
    BY <1>1, <1>a, <2>1, <2>2 DEF BeginPolicyCheck
<1>2. ASSUME NEW a \in Addresses, CheckAddress(r, a) PROVE Passed(r)
  <2>1. /\ Execd(r, exec[r].phase, exec[r].probe)
        /\ Rowed(r, row[r].status)
    <3> DEFINE S == exec[r].unchecked \ {a}
               T == IF a \in allowed THEN exec[r].addresses \cup {a} ELSE exec[r].addresses
    <3>1. exec' = [exec EXCEPT ![r].unchecked = S, ![r].addresses = T] /\ row' = row
      BY <1>2 DEF CheckAddress
    <3>2. S \in SUBSET Addresses /\ T \in SUBSET Addresses
      BY <1>t
    <3> HIDE DEF S, T
    <3> QED
      BY <3>1, <3>2, <1>t, AddressEffect, NoStatusEffect
  <2>2. Passage(r, exec[r].phase, exec[r].phase, row[r].status)
    BY <1>2 DEF CheckAddress, Passage
  <2> QED
    BY <1>2, <1>a, <1>t, <2>1, <2>2 DEF CheckAddress
<1>3. CASE Authorize(r)
  <2>1. "authorized" \in Phases /\ "authorized" \in Statuses
    BY DEF Phases, Statuses
  <2>2. Effect("authorized", "authorized")
    BY <1>3, <1>t, <2>1, PhaseEffect, StatusEffect DEF Authorize, Become, Passage
  <2> QED
    BY <1>3, <1>a, <2>1, <2>2 DEF Authorize
<1>4. CASE Deny(r)
  <2>1. "over" \in Phases /\ "denied" \in Statuses
    BY DEF Phases, Statuses
  <2>2. Effect("over", "denied")
    BY <1>4, <1>t, <2>1, PhaseEffect, StatusEffect DEF Deny, Become, Passage
  <2> QED
    BY <1>4, <1>a, <2>1, <2>2 DEF Deny
<1>5. CASE Start(r)
  <2>1. "running" \in Phases /\ "running" \in Statuses
    BY DEF Phases, Statuses
  <2>2. Effect("running", "running")
    BY <1>5, <1>t, <2>1, PhaseEffect, StatusEffect DEF Start, Become, Passage
  <2> QED
    BY <1>5, <1>a, <2>1, <2>2 DEF Start
<1>6. CASE CheckCancelled(r)
  <2> DEFINE f == IF row[r].cancellation_requested THEN "probed" ELSE "planning"
  <2>1. f \in Phases /\ f \in {"planning", "probed"}
    BY DEF Phases
  <2>2. exec[r].phase = "running" /\ exec' = [exec EXCEPT ![r].phase = f] /\ row' = row
    BY <1>6 DEF CheckCancelled
  <2> HIDE DEF f
  <2>3. Effect(f, row[r].status)
    BY <1>t, <2>1, <2>2, PhaseEffect, NoStatusEffect DEF Passage
  <2> QED
    BY <1>6, <1>a, <1>t, <2>1, <2>3 DEF CheckCancelled
<1>7. CASE Expire(r)
  <2>1. Effect(exec[r].phase, row[r].status)
    BY <1>7, <1>t, DeadlineEffect, NoStatusEffect DEF Expire, Passage
  <2> QED
    BY <1>7, <1>a, <1>t, <2>1 DEF Expire
<1>8. CASE Gather(r)
  <2>1. "probed" \in Phases
    BY DEF Phases
  <2>2. Effect("probed", row[r].status)
    BY <1>8, <1>t, <2>1, PhaseEffect, NoStatusEffect DEF Gather, Passage
  <2> QED
    BY <1>8, <1>a, <1>t, <2>1, <2>2 DEF Gather
<1>9. CASE Fail(r)
  <2>1. "over" \in Phases /\ "failed" \in Statuses
    BY DEF Phases, Statuses
  <2>2. Effect("over", "failed")
    BY <1>9, <1>t, <2>1, PhaseEffect, StatusEffect DEF Fail, Become, Passage
  <2> QED
    BY <1>9, <1>a, <2>1, <2>2 DEF Fail
<1>10. CASE LastCheck(r)
  <2>1. "over" \in Phases /\ "cancelled" \in Statuses /\ "finishing" \in Phases
    BY DEF Phases, Statuses
  <2>2. CASE row[r].cancellation_requested
    <3>1. Effect("over", "cancelled")
      BY <1>10, <1>t, <2>1, <2>2, PhaseEffect, StatusEffect DEF LastCheck, Passage
    <3> QED
      BY <1>10, <1>a, <2>1, <3>1 DEF LastCheck
  <2>3. CASE ~row[r].cancellation_requested
    <3>1. Effect("finishing", row[r].status)
      BY <1>10, <1>t, <2>1, <2>3, PhaseEffect, NoStatusEffect DEF LastCheck, Passage
    <3> QED
      BY <1>10, <1>a, <1>t, <2>1, <3>1 DEF LastCheck
  <2> QED
    BY <2>2, <2>3
<1>11. CASE Finish(r)
  <2> DEFINE s == IF exec[r].addresses = Addresses THEN "completed" ELSE "partially_completed"
  <2>1. s \in Statuses /\ s \in {"completed", "partially_completed"} /\ "reconciling" \in Phases
    BY DEF Statuses, Phases
  <2>2. /\ exec[r].phase = "finishing"
        /\ exec' = [exec EXCEPT ![r].phase = "reconciling"]
        /\ row' = [row EXCEPT ![r].status = s]
    BY <1>11 DEF Finish, Become
  <2> HIDE DEF s
  <2>3. Effect("reconciling", s)
    BY <1>t, <2>1, <2>2, PhaseEffect, StatusEffect DEF Passage
  <2> QED
    BY <1>11, <1>a, <2>1, <2>3 DEF Finish
<1>12. CASE Discover(r)
  <2> DEFINE f == IF row[r].scheduled THEN "discovered" ELSE "over"
  <2>1. f \in Phases /\ f \in {"discovered", "over"}
    BY DEF Phases
  <2>2. exec[r].phase = "reconciling" /\ exec' = [exec EXCEPT ![r].phase = f] /\ row' = row
    BY <1>12 DEF Discover
  <2> HIDE DEF f
  <2>3. Effect(f, row[r].status)
    BY <1>t, <2>1, <2>2, PhaseEffect, NoStatusEffect DEF Passage
  <2> QED
    BY <1>12, <1>t, <2>1, <2>3, ReachableTyped DEF Discover, Passed
<1>13. CASE Capture(r)
  <2>1. "built" \in Phases
    BY DEF Phases
  <2>2. Effect("built", row[r].status)
    BY <1>13, <1>t, <2>1, PhaseEffect, NoStatusEffect DEF Capture, Passage
  <2> QED
    BY <1>13, <1>t, <2>1, <2>2 DEF Capture, Passed
<1>14. CASE SaveSnapshot(r)
  <2>1. "over" \in Phases
    BY DEF Phases
  <2>2. Effect("over", row[r].status)
    BY <1>14, <1>t, <2>1, PhaseEffect, NoStatusEffect DEF SaveSnapshot, Passage
  <2> QED
    BY <1>14, <1>t, <2>1, <2>2 DEF SaveSnapshot, Passed
<1> HIDE DEF Effect
<1> QED
  BY <1>1, <1>2, <1>3, <1>4, <1>5, <1>6, <1>7, <1>8, <1>9, <1>10, <1>11, <1>12, <1>13, <1>14
  DEF RunStep

(* What _probe() does next: from one state of the probe to another.        *)
Hop(r, p, from, to) ==
  \/ from = "queued" /\ to = "expired"
  \/ from = "queued" /\ to = "skipped" /\ row[r].cancellation_requested
  \/ from = "queued" /\ to = "waiting" /\ ~row[r].cancellation_requested
  \/ from = "waiting" /\ to = "inside" /\ Cardinality(Holders(r)) < MaxConcurrency
  \/ from = "inside" /\ to = "verified" /\ p[1] \in allowed
  \/ from = "inside" /\ to = "revoked"
  \/ from = "verified" /\ to = "skipped" /\ row[r].cancellation_requested
  \/ from = "verified" /\ to = "cleared" /\ ~row[r].cancellation_requested
  \/ from = "cleared" /\ to \in {"reached", "unreached"}
  \/ from = "reached" /\ to = "validated"
  \/ from \notin Ended \cup {"none"} /\ to = "raised"

(* The history new of run r has at most p more than old, if p was in state *)
(* from and the request was committed.                                     *)
Grown(r, p, from, old, new) ==
  /\ new \in [Runs -> SUBSET Probes]
  /\ \A q \in Runs \ {r} : new[q] = old[q]
  /\ \/ new[r] = old[r]
     \/ row[r].cancellation_requested /\ exec[r].probe[p] = from /\ new[r] = old[r] \cup {p}

LEMMA GrownBy ==
  ASSUME NEW r \in Runs, NEW p \in Probes, NEW from, exec[r].probe[p] = from,
         NEW old \in [Runs -> SUBSET Probes], NEW new,
         new = [old EXCEPT ![r] = IF row[r].cancellation_requested THEN @ \cup {p} ELSE @]
  PROVE  Grown(r, p, from, old, new)
BY DEF Grown

LEMMA NotGrown ==
  ASSUME NEW r \in Runs, NEW p \in Probes, NEW from,
         NEW old \in [Runs -> SUBSET Probes], NEW new, new = old
  PROVE  Grown(r, p, from, old, new)
BY DEF Grown

Hopped(r, p) ==
  /\ \E to \in ProbeStates, f \in Phases :
       /\ Hop(r, p, exec[r].probe[p], to)
       /\ f = exec[r].phase \/ (exec[r].phase = "probing" /\ f = "failing")
       /\ Execd(r, f, [exec[r].probe EXCEPT ![p] = to])
  /\ Grown(r, p, "cleared", connects, connects')
  /\ Grown(r, p, "reached", validates, validates')
  /\ conditions' \subseteq Probes
  /\ UNCHANGED <<row, allowed, services, captures, snapshot, past, barred, void>>

LEMMA HopEffect ==
  ASSUME TypeOK, NEW r \in Runs, NEW p \in Probes, ProbeStep(r, p) \/ Raise(r, p)
  PROVE  Hopped(r, p)
<1>t. exec \in [Runs -> Exec] /\ exec[r].phase \in Phases
      /\ connects \in [Runs -> SUBSET Probes] /\ validates \in [Runs -> SUBSET Probes]
      /\ conditions \subseteq Probes
  BY Typed DEF TypeOK
<1>n. \A s \in {"expired", "skipped", "waiting", "inside", "verified", "revoked", "cleared",
                "reached", "unreached", "validated", "raised"} : s \in ProbeStates
  BY DEF ProbeStates, Ended
<1>a. ASSUME NEW from, NEW to \in ProbeStates, Move(r, p, from, to), Hop(r, p, from, to),
             UNCHANGED <<row, AtResults>>
      PROVE  Hopped(r, p)
  <2>1. /\ Execd(r, exec[r].phase, [exec[r].probe EXCEPT ![p] = to])
        /\ exec[r].probe[p] = from
    BY <1>a, <1>t, ProbeEffect DEF Move
  <2> QED
    BY <1>a, <1>t, <2>1, NotGrown DEF Hopped, AtResults, AfterRequest
<1>1. CASE Begin(r, p)
  <2> DEFINE to == IF exec[r].expired THEN "expired"
                   ELSE IF row[r].cancellation_requested THEN "skipped" ELSE "waiting"
  <2>1. to \in ProbeStates /\ Hop(r, p, "queued", to)
    BY <1>n DEF Hop
  <2> QED
    BY <1>1, <1>a, <2>1 DEF Begin
<1>2. CASE Acquire(r, p)
  <2>1. Hop(r, p, "waiting", "inside")
    BY <1>2 DEF Hop, Acquire
  <2> QED
    BY <1>2, <1>a, <1>n, <2>1 DEF Acquire
<1>3. CASE Reverify(r, p)
  <2> DEFINE to == IF p[1] \in allowed THEN "verified" ELSE "revoked"
  <2>1. to \in ProbeStates /\ Hop(r, p, "inside", to)
    BY <1>n DEF Hop
  <2> QED
    BY <1>3, <1>a, <2>1 DEF Reverify
<1>4. CASE Clear(r, p)
  <2> DEFINE to == IF row[r].cancellation_requested THEN "skipped" ELSE "cleared"
  <2>1. to \in ProbeStates /\ Hop(r, p, "verified", to)
    BY <1>n DEF Hop
  <2> QED
    BY <1>4, <1>a, <2>1 DEF Clear
<1>5. CASE Connect(r, p)
  <2>1. PICK to \in {"reached", "unreached"} : Move(r, p, "cleared", to)
    BY <1>5 DEF Connect
  <2>2. /\ Execd(r, exec[r].phase, [exec[r].probe EXCEPT ![p] = to])
        /\ exec[r].probe[p] = "cleared"
        /\ Hop(r, p, "cleared", to)
    BY <1>t, <1>n, <2>1, ProbeEffect DEF Move, Hop
  <2>3. Grown(r, p, "cleared", connects, connects') /\ Grown(r, p, "reached", validates, validates')
    BY <1>5, <1>t, <2>2, GrownBy, NotGrown DEF Connect, Connecting
  <2> QED
    BY <1>5, <1>t, <1>n, <2>1, <2>2, <2>3 DEF Connect, Hopped
<1>6. CASE Validate(r, p)
  <2>1. /\ Execd(r, exec[r].phase, [exec[r].probe EXCEPT ![p] = "validated"])
        /\ exec[r].probe[p] = "reached"
        /\ Hop(r, p, "reached", "validated")
    BY <1>6, <1>t, <1>n, ProbeEffect DEF Validate, Move, Hop
  <2>2. Grown(r, p, "cleared", connects, connects') /\ Grown(r, p, "reached", validates, validates')
    BY <1>6, <1>t, <2>1, GrownBy, NotGrown DEF Validate, Validating
  <2>3. conditions' \subseteq Probes
    BY <1>6, <1>t DEF Validate
  <2> QED
    BY <1>6, <1>t, <1>n, <2>1, <2>2, <2>3 DEF Validate, Hopped
<1>7. CASE Raise(r, p)
  <2> DEFINE f == IF exec[r].phase = "probing" THEN "failing" ELSE exec[r].phase
  <2>1. f \in Phases
    BY <1>t DEF Phases
  <2>2. exec' = [exec EXCEPT ![r].probe[p] = "raised", ![r].phase = f]
    BY <1>7, <1>t DEF Raise, Exec
  <2>3. f = exec[r].phase \/ (exec[r].phase = "probing" /\ f = "failing")
    OBVIOUS
  <2> HIDE DEF f
  <2>4. /\ Execd(r, f, [exec[r].probe EXCEPT ![p] = "raised"])
        /\ Hop(r, p, exec[r].probe[p], "raised")
    BY <1>7, <1>t, <1>n, <2>1, <2>2, RaiseEffect DEF Raise, Hop
  <2>5. Grown(r, p, "cleared", connects, connects') /\ Grown(r, p, "reached", validates, validates')
    BY <1>7, <1>t, GrownBy, NotGrown DEF Raise, Connecting, Validating
  <2> QED
    BY <1>7, <1>t, <1>n, <2>1, <2>3, <2>4, <2>5 DEF Raise, Hopped
<1> QED
  BY <1>1, <1>2, <1>3, <1>4, <1>5, <1>6, <1>7 DEF ProbeStep

Planned(r, g) ==
  /\ exec[r].phase = "planning"
  /\ g \in [Probes -> {"queued", "none"}]
  /\ Execd(r, "probing", g)
  /\ barred' = [barred EXCEPT ![r] = {p \in Probes : p[1] \notin allowed}]
  /\ UNCHANGED <<row, allowed, services, captures, snapshot, conditions, AfterRequest, void>>

LEMMA PlanEffect ==
  ASSUME TypeOK, NEW r \in Runs, Plan(r)
  PROVE  \E g : Planned(r, g)
<1> DEFINE g == [p \in Probes |->
                   IF p[1] \in exec[r].addresses
                      /\ p[2] \in BuildPlan(row[r].profile, PreviouslyKnownPorts(r))
                   THEN "queued" ELSE "none"]
<1>1. g \in [Probes -> {"queued", "none"}] /\ g \in [Probes -> ProbeStates]
  BY DEF ProbeStates
<1>2. /\ exec[r].phase = "planning"
      /\ exec' = [exec EXCEPT ![r].phase = "probing", ![r].probe = g]
      /\ barred' = [barred EXCEPT ![r] = {p \in Probes : p[1] \notin allowed}]
      /\ UNCHANGED <<row, allowed, services, captures, snapshot, conditions, AfterRequest, void>>
  BY DEF Plan
<1> HIDE DEF g
<1>3. Execd(r, "probing", g)
  <2>1. "probing" \in Phases
    BY DEF Phases
  <2> QED
    BY <1>1, <1>2, <2>1, Typed, ProbesEffect
<1> QED
  BY <1>1, <1>2, <1>3 DEF Planned

(* The process is lost.                                                    *)
LEMMA LoseEffect ==
  ASSUME TypeOK, NEW r \in Runs, Lose(r)
  PROVE  /\ exec[r].phase # "idle"
         /\ Execd(r, "over", NoProbes)
         /\ UNCHANGED <<row, AtResults>>
<1>1. "over" \in Phases /\ NoProbes \in [Probes -> ProbeStates]
  BY DEF Phases, ProbeStates, NoProbes
<1> QED
  BY <1>1, Typed, ProbesEffect DEF Lose

LEMMA CreateEffect ==
  ASSUME TypeOK, NEW r \in Runs, Create(r)
  PROVE  /\ exec[r].phase = "idle"
         /\ Execd(r, "created", exec[r].probe)
         /\ row' \in [Runs -> Row]
         /\ \A q \in Runs \ {r} : row'[q] = row[q]
         /\ row'[r].status = "pending" /\ row'[r].cancellation_requested = FALSE
         /\ UNCHANGED AtResults
<1>1. "created" \in Phases /\ "pending" \in Statuses
  BY DEF Phases, Statuses
<1>2. PICK profile \in Profiles, scheduled \in BOOLEAN :
        row' = [row EXCEPT ![r] = [status |-> "pending", cancellation_requested |-> FALSE,
                                   profile |-> profile, scheduled |-> scheduled]]
  BY DEF Create
<1>3. /\ row' \in [Runs -> Row]
      /\ \A q \in Runs \ {r} : row'[q] = row[q]
      /\ row'[r].status = "pending" /\ row'[r].cancellation_requested = FALSE
  BY <1>1, <1>2, Typed DEF Row
<1> QED
  BY <1>1, <1>3, Typed, PhaseEffect DEF Create

LEMMA RequestEffect ==
  ASSUME TypeOK, NEW r \in Runs, RequestCancellation(r)
  PROVE  /\ row[r].status \notin (Terminal \ {"denied"}) \cup {"absent"}
         /\ row' \in [Runs -> Row]
         /\ \A q \in Runs \ {r} : row'[q] = row[q]
         /\ row'[r].status = row[r].status /\ row'[r].cancellation_requested = TRUE
         /\ void' = [void EXCEPT ![r] = @ \/ (row[r].status = "denied"
                                              /\ ~row[r].cancellation_requested)]
         /\ past' = [past EXCEPT ![r] = IF row[r].cancellation_requested THEN @
                                     ELSE {p \in Probes : exec[r].probe[p] \in {"cleared", "reached"}}]
         /\ UNCHANGED <<exec, allowed, services, captures, snapshot, conditions, connects, validates,
                        barred>>
BY Typed DEF RequestCancellation, Asked, Row

LEMMA NextCases ==
  ASSUME TypeOK, Next
  PROVE  \/ \E r \in Runs : \/ Create(r) \/ Passed(r) \/ (\E g : Planned(r, g))
                            \/ RequestCancellation(r) \/ Lose(r)
         \/ \E r \in Runs, p \in Probes : Hopped(r, p)
         \/ \E a \in Addresses : Revoke(a) \/ Approve(a)
BY PassageEffect, PlanEffect, HopEffect DEF Next

-----------------------------------------------------------------------------
(* The invariant holds.                                                    *)

RunInv(r) == InStep(r) /\ ProbesInStep(r) /\ SkipsSeen(r) /\ VoidIsDenied(r)

LEMMA InvInit == Init => Inv
<1> SUFFICES ASSUME Init PROVE Inv
  OBVIOUS
<1>1. TypeOK
  <2>1. row \in [Runs -> Row]
    BY DEF Init, Row, Statuses
  <2>2. exec \in [Runs -> Exec]
    BY DEF Init, Exec, Phases, ProbeStates, NoProbes
  <2>3. \A r \in Runs : exec[r].phase = "idle" /\ row[r].status = "absent"
    BY DEF Init
  <2>4. /\ allowed \subseteq Addresses /\ services \subseteq Ports /\ captures \in Seq(Runs)
        /\ snapshot \in [Runs -> (SUBSET Ports) \cup {NoSnapshot}] /\ conditions \subseteq Probes
        /\ past \in [Runs -> SUBSET Probes] /\ connects \in [Runs -> SUBSET Probes]
        /\ validates \in [Runs -> SUBSET Probes]
        /\ barred \in [Runs -> SUBSET Probes] /\ void \in [Runs -> BOOLEAN]
    BY DEF Init
  <2> QED
    BY <2>1, <2>2, <2>3, <2>4 DEF TypeOK
<1>2. ASSUME NEW r \in Runs PROVE InStep(r) /\ ProbesInStep(r) /\ SkipsSeen(r) /\ VoidIsDenied(r)
  BY DEF Init, InStep, ProbesInStep, SkipsSeen, VoidIsDenied, Before, After, Terminal, NoProbes
<1> QED
  BY <1>1, <1>2 DEF Inv

(* What a step leaves alone of run q.                                      *)
Same(q) == /\ row'[q] = row[q] /\ exec'[q] = exec[q] /\ snapshot'[q] = snapshot[q]
           /\ void'[q] = void[q]

LEMMA SameRun ==
  ASSUME NEW q \in Runs, RunInv(q), Same(q)
  PROVE  RunInv(q)'
BY DEF Same, RunInv, InStep, ProbesInStep, SkipsSeen, VoidIsDenied, Quiet

LEMMA TypeByEffect ==
  ASSUME TypeOK, NEW r \in Runs,
         row' \in [Runs -> Row], \A q \in Runs \ {r} : row'[q] = row[q],
         exec' \in [Runs -> Exec], \A q \in Runs \ {r} : exec'[q] = exec[q],
         exec'[r].phase # "idle", row'[r].status # "absent",
         allowed' = allowed, services' \subseteq Ports, captures' \in Seq(Runs),
         snapshot' \in [Runs -> (SUBSET Ports) \cup {NoSnapshot}],
         conditions' \subseteq Probes, past' \in [Runs -> SUBSET Probes],
         connects' \in [Runs -> SUBSET Probes], validates' \in [Runs -> SUBSET Probes],
         barred' \in [Runs -> SUBSET Probes],
         void' \in [Runs -> BOOLEAN]
  PROVE  TypeOK'
<1>1. \A q \in Runs : exec'[q].phase = "idle" <=> row'[q].status = "absent"
  BY DEF TypeOK
<1> QED
  BY <1>1 DEF TypeOK

LEMMA PassageKeepsInv ==
  ASSUME Inv, NEW r \in Runs, Passed(r)
  PROVE  Inv'
<1>t. TypeOK /\ RunInv(r) /\ snapshot \in [Runs -> (SUBSET Ports) \cup {NoSnapshot}]
  BY DEF Inv, TypeOK, RunInv
<1>1. PICK f \in Phases, s \in Statuses :
        Passage(r, exec[r].phase, f, s) /\ Execd(r, f, exec[r].probe) /\ Rowed(r, s)
  BY DEF Passed
<1>s. /\ snapshot' \in [Runs -> (SUBSET Ports) \cup {NoSnapshot}]
      /\ \A q \in Runs \ {r} : snapshot'[q] = snapshot[q]
      /\ snapshot' = snapshot \/ exec[r].phase = "built"
  BY <1>t, ReachableTyped DEF Passed
<1>2. TypeOK'
  <2>1. f # "idle" /\ s # "absent"
    <3>1. exec[r].phase # "idle"
      BY <1>1 DEF Passage
    <3> QED
      BY <1>1, <1>t, <3>1 DEF Passage, TypeOK
  <2> QED
    BY <1>t, <1>s, <1>1, <2>1, TypeByEffect DEF Passed, AfterRequest, Execd, Rowed, TypeOK
<1>3. /\ exec'[r].phase = f /\ exec'[r].probe = exec[r].probe
      /\ row'[r].status = s /\ row'[r].cancellation_requested = row[r].cancellation_requested
      /\ void' = void
  BY <1>1 DEF Execd, Rowed, Passed
<1>4. InStep(r)'
  BY <1>t, <1>1, <1>3 DEF RunInv, InStep, Passage
<1>5. ProbesInStep(r)'
  <2>1. exec'[r].phase \in Before => exec'[r].probe = NoProbes
    BY <1>t, <1>1, <1>3 DEF RunInv, ProbesInStep, Before, Passage
  <2>2. exec'[r].phase \in After => Quiet(r)
    <3>1. exec[r].phase = "running" => Quiet(r)
      BY <1>t DEF RunInv, ProbesInStep, Before, NoProbes, Quiet
    <3> QED
      BY <1>t, <1>1, <1>3, <3>1 DEF RunInv, ProbesInStep, After, Passage
  <2>3. row'[r].status \in Terminal \ {"failed"} => Quiet(r)
    <3>1. exec[r].phase = "checking" => Quiet(r)
      BY <1>t DEF RunInv, ProbesInStep, Before, NoProbes, Quiet
    <3> QED
      BY <1>t, <1>1, <1>3, <3>1 DEF RunInv, ProbesInStep, After, Passage, Terminal
  <2> QED
    BY <1>3, <2>1, <2>2, <2>3 DEF ProbesInStep, Quiet
<1>6. SkipsSeen(r)'
  <2>1. ASSUME NEW p \in Probes, exec'[r].probe[p] = "skipped"
        PROVE  /\ row'[r].cancellation_requested
               /\ exec'[r].phase # "finishing"
               /\ row'[r].status \notin {"completed", "partially_completed"}
    BY <2>1, <1>t, <1>1, <1>3 DEF RunInv, SkipsSeen, Passage
  <2>2. snapshot'[r] # NoSnapshot => row'[r].status \in {"completed", "partially_completed"}
    BY <1>t, <1>s, <1>1, <1>3 DEF RunInv, SkipsSeen, InStep, Passage
  <2> QED
    BY <2>1, <2>2 DEF SkipsSeen
<1>7. VoidIsDenied(r)'
  BY <1>t, <1>1, <1>3 DEF RunInv, VoidIsDenied, InStep, Passage
<1>8. ASSUME NEW q \in Runs \ {r} PROVE RunInv(q)'
  <2>1. Same(q)
    BY <1>1, <1>s, <1>3 DEF Same, Execd, Rowed
  <2> QED
    BY <2>1, SameRun DEF Inv, RunInv
<1> QED
  BY <1>2, <1>4, <1>5, <1>6, <1>7, <1>8 DEF Inv, RunInv

LEMMA HopKeepsInv ==
  ASSUME Inv, NEW r \in Runs, NEW p \in Probes, Hopped(r, p)
  PROVE  Inv'
<1>t. TypeOK /\ RunInv(r) /\ exec[r].probe \in [Probes -> ProbeStates]
  BY Typed DEF Inv, RunInv
<1>1. PICK to \in ProbeStates, f \in Phases :
        /\ Hop(r, p, exec[r].probe[p], to)
        /\ f = exec[r].phase \/ (exec[r].phase = "probing" /\ f = "failing")
        /\ Execd(r, f, [exec[r].probe EXCEPT ![p] = to])
  BY DEF Hopped
<1>3. /\ exec'[r].phase = f /\ exec'[r].probe = [exec[r].probe EXCEPT ![p] = to]
      /\ row' = row /\ void' = void /\ snapshot' = snapshot
  BY <1>1 DEF Execd, Hopped
<1>4. ~Quiet(r) /\ exec[r].probe # NoProbes
  BY <1>1 DEF Hop, Quiet, Ended, NoProbes
<1>5. /\ exec[r].phase \notin Before \cup After
      /\ row[r].status \notin Terminal \ {"failed"}
  BY <1>t, <1>4 DEF RunInv, ProbesInStep
<1>2. TypeOK'
  <2>1. f # "idle" /\ row[r].status # "absent"
    BY <1>t, <1>1, <1>5 DEF Before, TypeOK
  <2>2. connects' \in [Runs -> SUBSET Probes] /\ validates' \in [Runs -> SUBSET Probes]
    BY DEF Hopped, Grown
  <2> QED
    BY <1>t, <1>1, <2>1, <2>2, TypeByEffect DEF Hopped, Execd, TypeOK
<1>6. InStep(r)'
  BY <1>t, <1>1, <1>3, <1>5 DEF RunInv, InStep
<1>7. ProbesInStep(r)'
  BY <1>1, <1>3, <1>5 DEF ProbesInStep, Before, After, Quiet
<1>8. SkipsSeen(r)'
  <2>1. ASSUME NEW q \in Probes, exec'[r].probe[q] = "skipped"
        PROVE  row[r].cancellation_requested
    <3>1. CASE q = p
      BY <3>1, <2>1, <1>t, <1>1, <1>3 DEF Hop
    <3>2. CASE q # p
      BY <3>2, <2>1, <1>t, <1>3 DEF RunInv, SkipsSeen
    <3> QED
      BY <3>1, <3>2
  <2>2. f # "finishing" /\ row[r].status \notin {"completed", "partially_completed"}
    BY <1>1, <1>5 DEF After, Terminal
  <2>3. snapshot[r] # NoSnapshot => row[r].status \in {"completed", "partially_completed"}
    BY <1>t DEF RunInv, SkipsSeen
  <2> QED
    BY <1>3, <2>1, <2>2, <2>3 DEF SkipsSeen
<1>9. VoidIsDenied(r)'
  BY <1>t, <1>3 DEF RunInv, VoidIsDenied
<1>10. ASSUME NEW q \in Runs \ {r} PROVE RunInv(q)'
  <2>1. Same(q)
    BY <1>1, <1>3 DEF Same, Execd
  <2> QED
    BY <2>1, SameRun DEF Inv, RunInv
<1> QED
  BY <1>2, <1>6, <1>7, <1>8, <1>9, <1>10 DEF Inv, RunInv

LEMMA InvStep == Inv /\ [Next]_vars => Inv'
<1> SUFFICES ASSUME Inv, [Next]_vars PROVE Inv'
  OBVIOUS
<1>t. TypeOK /\ \A r \in Runs : RunInv(r)
  BY DEF Inv, RunInv
<1>i. ASSUME TypeOK', \A r \in Runs : RunInv(r)' PROVE Inv'
  BY <1>i DEF Inv, RunInv
<1>1. CASE UNCHANGED vars
  BY <1>1, <1>t, <1>i, SameRun DEF vars, Same, TypeOK
<1>2. ASSUME NEW r \in Runs, Create(r) PROVE Inv'
  <2>1. /\ exec[r].phase = "idle"
        /\ Execd(r, "created", exec[r].probe)
        /\ row' \in [Runs -> Row]
        /\ \A q \in Runs \ {r} : row'[q] = row[q]
        /\ row'[r].status = "pending" /\ row'[r].cancellation_requested = FALSE
        /\ UNCHANGED AtResults
    BY <1>2, <1>t, CreateEffect
  <2>2. TypeOK'
    BY <1>t, <2>1, TypeByEffect DEF Execd, AtResults, AfterRequest, TypeOK
  <2>3. /\ exec'[r].phase = "created" /\ exec'[r].probe = NoProbes
        /\ snapshot'[r] = NoSnapshot /\ void'[r] = FALSE
    <3>1. row[r].status = "absent" /\ void[r] \in BOOLEAN
      BY <1>t, <2>1 DEF TypeOK
    <3> QED
      BY <1>t, <2>1, <3>1
      DEF Execd, AtResults, RunInv, ProbesInStep, SkipsSeen, VoidIsDenied, Before
  <2>4. RunInv(r)'
    BY <2>1, <2>3 DEF RunInv, InStep, ProbesInStep, SkipsSeen, VoidIsDenied, Before, After,
                      Terminal, NoProbes
  <2>5. ASSUME NEW q \in Runs \ {r} PROVE RunInv(q)'
    <3>1. Same(q)
      BY <2>1 DEF Same, Execd, AtResults
    <3> QED
      BY <1>t, <3>1, SameRun
  <2> QED
    BY <1>i, <2>2, <2>4, <2>5
<1>3. ASSUME NEW r \in Runs, NEW g, Planned(r, g) PROVE Inv'
  <2>1. exec'[r].phase = "probing" /\ exec'[r].probe = g /\ row' = row
        /\ void' = void /\ snapshot' = snapshot
    BY <1>3 DEF Planned, Execd
  <2>2. TypeOK'
    <3>1. barred' \in [Runs -> SUBSET Probes]
      BY <1>3, <1>t DEF Planned, TypeOK
    <3>2. row[r].status # "absent"
      BY <1>3, <1>t DEF Planned, TypeOK
    <3> QED
      BY <1>3, <1>t, <3>1, <3>2, TypeByEffect DEF Planned, AfterRequest, Execd, TypeOK
  <2>3. InStep(r)' /\ VoidIsDenied(r)' /\ row[r].status = "running"
    BY <1>3, <1>t, <2>1 DEF Planned, RunInv, InStep, VoidIsDenied
  <2>4. ProbesInStep(r)'
    BY <2>1, <2>3 DEF ProbesInStep, Before, After, Terminal
  <2>5. SkipsSeen(r)'
    BY <1>3, <1>t, <2>1, <2>3 DEF Planned, RunInv, SkipsSeen
  <2>6. ASSUME NEW q \in Runs \ {r} PROVE RunInv(q)'
    <3>1. Same(q)
      BY <1>3, <2>1 DEF Same, Planned, Execd
    <3> QED
      BY <1>t, <3>1, SameRun
  <2> QED
    BY <1>i, <2>2, <2>3, <2>4, <2>5, <2>6 DEF RunInv
<1>4. ASSUME NEW r \in Runs, RequestCancellation(r) PROVE Inv'
  <2>1. /\ row[r].status \notin (Terminal \ {"denied"}) \cup {"absent"}
        /\ row' \in [Runs -> Row]
        /\ \A q \in Runs \ {r} : row'[q] = row[q]
        /\ row'[r].status = row[r].status /\ row'[r].cancellation_requested = TRUE
        /\ void' = [void EXCEPT ![r] = @ \/ (row[r].status = "denied"
                                             /\ ~row[r].cancellation_requested)]
        /\ past' = [past EXCEPT ![r] = IF row[r].cancellation_requested THEN @
                                    ELSE {p \in Probes : exec[r].probe[p] \in {"cleared", "reached"}}]
        /\ UNCHANGED <<exec, allowed, services, captures, snapshot, conditions, connects, validates,
                       barred>>
    BY <1>4, <1>t, RequestEffect
  <2>7. past' \in [Runs -> SUBSET Probes]
    BY <1>t, <2>1 DEF TypeOK
  <2>2. TypeOK'
    BY <1>t, <2>1, <2>7, TypeByEffect DEF TypeOK
  <2>3. void'[r] => row[r].status = "denied"
    BY <1>t, <2>1 DEF RunInv, VoidIsDenied, TypeOK
  <2>6. exec[r].phase # "idle"
    BY <1>t, <2>1 DEF TypeOK
  <2>4. RunInv(r)'
    BY <1>t, <2>1, <2>3, <2>6 DEF RunInv, InStep, ProbesInStep, SkipsSeen, VoidIsDenied, Quiet
  <2>5. ASSUME NEW q \in Runs \ {r} PROVE RunInv(q)'
    <3>1. Same(q)
      BY <1>t, <2>1 DEF Same, TypeOK
    <3> QED
      BY <1>t, <3>1, SameRun
  <2> QED
    BY <1>i, <2>2, <2>4, <2>5
<1>5. ASSUME NEW r \in Runs, Lose(r) PROVE Inv'
  <2>1. /\ exec[r].phase # "idle"
        /\ Execd(r, "over", NoProbes)
        /\ UNCHANGED <<row, AtResults>>
    BY <1>5, <1>t, LoseEffect
  <2>2. TypeOK'
    BY <1>t, <2>1, TypeByEffect DEF Execd, AtResults, AfterRequest, TypeOK
  <2>3. /\ exec'[r].phase = "over" /\ exec'[r].probe = NoProbes /\ row' = row
        /\ void' = void /\ snapshot' = snapshot
    BY <2>1 DEF Execd, AtResults
  <2>4. RunInv(r)'
    BY <1>t, <2>3 DEF RunInv, InStep, ProbesInStep, SkipsSeen, VoidIsDenied, Quiet, Before, After,
                      NoProbes
  <2>5. ASSUME NEW q \in Runs \ {r} PROVE RunInv(q)'
    <3>1. Same(q)
      BY <2>1, <2>3 DEF Same, Execd
    <3> QED
      BY <1>t, <3>1, SameRun
  <2> QED
    BY <1>i, <2>2, <2>4, <2>5
<1>6. ASSUME NEW a \in Addresses, Revoke(a) \/ Approve(a) PROVE Inv'
  <2>1. UNCHANGED <<row, exec, services, captures, snapshot, conditions, past, connects, validates,
                    void>>
    BY <1>6 DEF Revoke, Approve, AfterRequest
  <2>2. allowed' \subseteq Addresses /\ barred' \in [Runs -> SUBSET Probes]
    BY <1>6, <1>t DEF Revoke, Approve, TypeOK
  <2> QED
    BY <1>t, <1>i, <2>1, <2>2, SameRun DEF Same, TypeOK
<1> QED
  BY <1>1, <1>2, <1>3, <1>4, <1>5, <1>6, <1>t, NextCases, PassageKeepsInv, HopKeepsInv

LEMMA InvHolds == Spec => []Inv
BY InvInit, InvStep, PTL DEF Spec

(* Every reachable state is well typed, and a run is in memory exactly if  *)
(* its row was inserted (create_and_run()).                                *)
THEOREM RunsWellTyped == Spec => []TypeOK
<1>1. Inv => TypeOK
  BY DEF Inv
<1> QED
  BY <1>1, InvHolds, PTL

(* A run applies nothing of what it found when one of its probes was       *)
(* skipped, whenever the request to cancel came (create_and_run()).        *)
THEOREM PartialResultsDropped == Spec => []SkippedIsNotApplied
<1>1. Inv => SkippedIsNotApplied
  BY DEF Inv, SkippedIsNotApplied, SkipsSeen, InStep
<1> QED
  BY <1>1, InvHolds, PTL

(* A run that ended and did not FAIL has left no probe behind, whatever was*)
(* raised, cancelled or revoked (gather()).                                *)
THEOREM NoOrphans == Spec => []EndsQuietly
<1>1. Inv => EndsQuietly
  BY DEF Inv, EndsQuietly, ProbesInStep
<1> QED
  BY <1>1, InvHolds, PTL

-----------------------------------------------------------------------------
(* The row of a run implements the life cycle of an execution.             *)

LifecycleStep(r) ==
  Lifecycle(r)!Next \/ UNCHANGED <<row[r].status, Requested(r), Abandoned(r)>>

LEMMA LifecycleStutter ==
  ASSUME NEW r \in Runs, row'[r].status = row[r].status,
         row'[r].cancellation_requested = row[r].cancellation_requested, void'[r] = void[r],
         (exec'[r].phase = "over" <=> exec[r].phase = "over") \/ row[r].status \in Terminal
  PROVE  LifecycleStep(r)
<1>1. Abandoned(r)' = Abandoned(r)
  BY DEF Abandoned
<1> QED
  BY <1>1 DEF LifecycleStep, Requested

LEMMA LifecycleEdge ==
  ASSUME NEW r \in Runs, <<row[r].status, row'[r].status>> \in Lifecycle(r)!Edges,
         row'[r].cancellation_requested = row[r].cancellation_requested, void'[r] = void[r],
         exec[r].phase # "over", exec'[r].phase = "over" => row'[r].status \in Terminal
  PROVE  LifecycleStep(r)
<1>1. Abandoned(r) = FALSE /\ Abandoned(r)' = FALSE
  BY DEF Abandoned
<1> QED
  BY <1>1 DEF LifecycleStep, Requested, Lifecycle!Next, Lifecycle!Move

LEMMA LifecyclePreserved == Inv /\ [Next]_vars => \A q \in Runs : LifecycleStep(q)
<1> SUFFICES ASSUME Inv, [Next]_vars, NEW q \in Runs PROVE LifecycleStep(q)
  OBVIOUS
<1>t. TypeOK /\ InStep(q) /\ VoidIsDenied(q)
  BY DEF Inv
<1>1. CASE UNCHANGED vars
  BY <1>1, LifecycleStutter DEF vars
<1>2. ASSUME NEW r \in Runs, Create(r) PROVE LifecycleStep(q)
  <2>1. CASE q = r
    <3>1. row[q].status = "absent" /\ ~row[q].cancellation_requested /\ void' = void
      BY <1>2, <2>1, <1>t, CreateEffect DEF TypeOK, InStep, AtResults
    <3>2. row'[q].status = "pending" /\ row'[q].cancellation_requested = FALSE
      BY <1>2, <2>1, <1>t, CreateEffect
    <3>3. row[q].cancellation_requested = FALSE
      BY <3>1, <1>t, Typed
    <3>4. exec[q].phase = "idle" /\ exec'[q].phase = "created"
      BY <1>2, <2>1, <1>t, CreateEffect DEF Execd
    <3> QED
      BY <3>1, <3>2, <3>3, <3>4, LifecycleEdge DEF Lifecycle!Edges
  <2>2. CASE q # r
    BY <1>2, <2>2, <1>t, CreateEffect, LifecycleStutter DEF AtResults, Execd
  <2> QED
    BY <2>1, <2>2
<1>3. ASSUME NEW r \in Runs, Passed(r) PROVE LifecycleStep(q)
  <2>1. PICK f \in Phases, s \in Statuses :
          /\ Passage(r, exec[r].phase, f, s) /\ Rowed(r, s) /\ void' = void
          /\ Execd(r, f, exec[r].probe)
    BY <1>3 DEF Passed
  <2>2. CASE q = r
    <3>1. /\ row'[q].status = s /\ void'[q] = void[q]
          /\ row'[q].cancellation_requested = row[q].cancellation_requested
          /\ exec'[q].phase = f
      BY <2>1, <2>2 DEF Rowed, Execd
    <3>a. exec[q].phase # "over" /\ (f = "over" => s \in Terminal)
      BY <2>1, <2>2, <1>t DEF Passage, InStep, Terminal
    <3>2. \/ s = row[q].status
          \/ <<row[q].status, s>> \in Lifecycle(q)!Edges
          \/ row[q].status = "running" /\ s = "cancelled" /\ row[q].cancellation_requested
      BY <2>1, <2>2, <1>t DEF Passage, InStep, Lifecycle!Edges
    <3>3. CASE row[q].status = "running" /\ s = "cancelled" /\ row[q].cancellation_requested
      <4>1. Requested(q) /\ Requested(q)' = Requested(q)
        BY <3>1, <3>3, <1>t DEF Requested, VoidIsDenied
      <4>2. Abandoned(q) = FALSE /\ Abandoned(q)' = FALSE
        BY <3>1, <3>a DEF Abandoned
      <4> QED
        BY <3>1, <3>3, <4>1, <4>2 DEF LifecycleStep, Lifecycle!Next, Lifecycle!Cancel
    <3> QED
      BY <3>1, <3>2, <3>3, <3>a, LifecycleStutter, LifecycleEdge
  <2>3. CASE q # r
    BY <2>1, <2>3, LifecycleStutter DEF Rowed, Execd
  <2> QED
    BY <2>2, <2>3
<1>4. ASSUME NEW r \in Runs, RequestCancellation(r) PROVE LifecycleStep(q)
  <2>1. /\ row[r].status \notin (Terminal \ {"denied"}) \cup {"absent"}
        /\ \A x \in Runs \ {r} : row'[x] = row[x]
        /\ row'[r].status = row[r].status /\ row'[r].cancellation_requested = TRUE
        /\ void' = [void EXCEPT ![r] = @ \/ (row[r].status = "denied"
                                             /\ ~row[r].cancellation_requested)]
        /\ void \in [Runs -> BOOLEAN] /\ row[r].cancellation_requested \in BOOLEAN
        /\ exec' = exec
    BY <1>4, <1>t, RequestEffect, Typed DEF TypeOK
  <2>a. Abandoned(r)' = Abandoned(r)
    BY <2>1 DEF Abandoned
  <2>2. CASE q = r /\ row[q].status = "denied"
    BY <2>1, <2>2, <2>a, <1>t DEF LifecycleStep, Requested, VoidIsDenied
  <2>3. CASE q = r /\ row[q].status # "denied"
    <3>1. ~void[q] /\ ~void'[q]
      BY <2>1, <2>3, <1>t DEF VoidIsDenied
    <3> QED
      BY <2>1, <2>3, <2>a, <3>1
      DEF LifecycleStep, Requested, Lifecycle!Next, Lifecycle!RequestCancellation,
          Lifecycle!Terminal, Terminal
  <2>4. CASE q # r
    BY <2>1, <2>4, LifecycleStutter
  <2> QED
    BY <2>2, <2>3, <2>4
<1>5. ASSUME \/ \E r \in Runs : \E g : Planned(r, g)
             \/ \E r \in Runs, p \in Probes : Hopped(r, p)
             \/ \E a \in Addresses : Revoke(a) \/ Approve(a)
      PROVE  LifecycleStep(q)
  <2>1. row' = row /\ void' = void /\ (exec'[q].phase = "over" <=> exec[q].phase = "over")
    BY <1>5 DEF Planned, Hopped, Execd, Revoke, Approve
  <2> QED
    BY <2>1, LifecycleStutter
<1>6. ASSUME NEW r \in Runs, Lose(r) PROVE LifecycleStep(q)
  <2>1. /\ row' = row /\ void' = void /\ exec'[r].phase = "over"
        /\ \A x \in Runs \ {r} : exec'[x] = exec[x]
    BY <1>6, <1>t, LoseEffect DEF AtResults, Execd
  <2>2. CASE q = r /\ row[q].status \notin Terminal
    <3>1. Abandoned(q)' = TRUE
      BY <2>1, <2>2 DEF Abandoned
    <3> QED
      BY <2>1, <2>2, <3>1 DEF LifecycleStep, Requested, Lifecycle!Next, Lifecycle!Abandon,
         Lifecycle!Terminal, Terminal
  <2>3. CASE q # r \/ row[q].status \in Terminal
    BY <2>1, <2>3, LifecycleStutter
  <2> QED
    BY <2>2, <2>3
<1> QED
  BY <1>1, <1>2, <1>3, <1>4, <1>5, <1>6, <1>t, NextCases

(* The row of every network run moves as the row of a validation execution *)
(* does: "mirrors ExecutionStatus's exact transition graph"                *)
(* (NetworkRunStatus).                                                     *)
THEOREM RunImplementsLifecycle == Spec => RefinesLifecycle
<1>1. Init => \A r \in Runs : Lifecycle(r)!Init
  BY DEF Init, Lifecycle!Init, Requested, Abandoned
<1>2. Inv /\ [Next]_vars =>
        [\A r \in Runs : Lifecycle(r)!Next \/ UNCHANGED <<row[r].status, Requested(r), Abandoned(r)>>]_vars
  BY LifecyclePreserved DEF LifecycleStep
<1> QED
  BY <1>1, <1>2, InvHolds, PTL DEF Spec, RefinesLifecycle

-----------------------------------------------------------------------------
(* What the network scheduler takes a run for: BoundaryRuns, with a        *)
(* boundary for every run.                                                 *)

Opened == {r \in Runs : row[r].status # "absent"}

Closed == {r \in Runs : row[r].status \in Terminal}

GoingOn == {r \in Runs : row[r].status \notin Terminal \cup {"absent"} /\ ~Abandoned(r)}

Boundary == INSTANCE BoundaryRuns
              WITH Boundaries <- Runs, rows <- Opened, results <- Closed, active <- GoingOn

Still(r) == row'[r].status = row[r].status /\ Abandoned(r)' = Abandoned(r)

(* No step moves the rows of two runs.                                     *)
LEMMA OneRunMoves ==
  ASSUME Inv, [Next]_vars
  PROVE  \/ \A q \in Runs : Still(q)
         \/ \E r \in Runs : \A q \in Runs \ {r} : Still(q)
<1>t. TypeOK
  BY DEF Inv
<1>a. ASSUME NEW q \in Runs, row'[q] = row[q], exec'[q] = exec[q] PROVE Still(q)
  BY <1>a DEF Still, Abandoned
<1>1. CASE UNCHANGED vars
  BY <1>1, <1>a DEF vars
<1>2. ASSUME NEW r \in Runs,
             \/ Create(r) \/ Passed(r) \/ (\E g : Planned(r, g))
             \/ RequestCancellation(r) \/ Lose(r) \/ (\E p \in Probes : Hopped(r, p))
      PROVE  \A q \in Runs \ {r} : row'[q] = row[q] /\ exec'[q] = exec[q]
  <2>1. CASE Create(r)
    BY <2>1, <1>t, CreateEffect DEF Execd
  <2>2. CASE Lose(r)
    BY <2>2, <1>t, LoseEffect DEF Execd
  <2>3. CASE RequestCancellation(r)
    BY <2>3, <1>t, RequestEffect
  <2>4. CASE Passed(r) \/ (\E g : Planned(r, g)) \/ \E p \in Probes : Hopped(r, p)
    BY <2>4 DEF Passed, Planned, Hopped, Execd, Rowed
  <2> QED
    BY <1>2, <2>1, <2>2, <2>3, <2>4
<1>3. CASE \E a \in Addresses : Revoke(a) \/ Approve(a)
  <2>1. row' = row /\ exec' = exec
    BY <1>3 DEF Revoke, Approve
  <2> QED
    BY <2>1, <1>a
<1>4. CASE \E r \in Runs : \/ Create(r) \/ Passed(r) \/ (\E g : Planned(r, g))
                           \/ RequestCancellation(r) \/ Lose(r) \/ (\E p \in Probes : Hopped(r, p))
  <2>1. PICK r \in Runs : \/ Create(r) \/ Passed(r) \/ (\E g : Planned(r, g))
                          \/ RequestCancellation(r) \/ Lose(r) \/ (\E p \in Probes : Hopped(r, p))
    BY <1>4
  <2>2. \A q \in Runs \ {r} : row'[q] = row[q] /\ exec'[q] = exec[q]
    BY <2>1, <1>2
  <2> QED
    BY <2>2, <1>a
<1> QED
  BY <1>1, <1>3, <1>4, <1>t, NextCases

(* If no other row moves, a move of one life cycle is a move of its        *)
(* boundary.                                                               *)
LEMMA BoundaryMoves ==
  ASSUME NEW r \in Runs, LifecycleStep(r), \A q \in Runs \ {r} : Still(q)
  PROVE  \/ Boundary!Begin(r) \/ Boundary!End(r) \/ Boundary!Lose(r)
         \/ UNCHANGED <<Opened, Closed, GoingOn>>
<1>o. /\ Opened' \ {r} = Opened \ {r}
      /\ Closed' \ {r} = Closed \ {r}
      /\ GoingOn' \ {r} = GoingOn \ {r}
  BY DEF Still, Opened, Closed, GoingOn
<1>r. /\ r \in Opened <=> row[r].status # "absent"
      /\ r \in Opened' <=> row'[r].status # "absent"
      /\ r \in Closed <=> row[r].status \in Terminal
      /\ r \in Closed' <=> row'[r].status \in Terminal
      /\ r \in GoingOn <=> row[r].status \notin Terminal \cup {"absent"} /\ ~Abandoned(r)
      /\ r \in GoingOn' <=> row'[r].status \notin Terminal \cup {"absent"} /\ ~Abandoned(r)'
  BY DEF Opened, Closed, GoingOn
<1>s. ASSUME r \in Opened' <=> r \in Opened, r \in Closed' <=> r \in Closed,
             r \in GoingOn' <=> r \in GoingOn
      PROVE  UNCHANGED <<Opened, Closed, GoingOn>>
  BY <1>o, <1>s
<1> USE DEF Terminal
<1>1. CASE UNCHANGED <<row[r].status, Abandoned(r)>> \/ Lifecycle(r)!RequestCancellation
  <2>1. row'[r].status = row[r].status /\ Abandoned(r)' = Abandoned(r)
    BY <1>1 DEF Lifecycle!RequestCancellation
  <2> QED
    BY <2>1, <1>r, <1>s
<1>2. CASE Lifecycle(r)!Abandon
  <2>1. /\ row[r].status \notin Terminal /\ row'[r].status = row[r].status
        /\ Abandoned(r)' = TRUE
    BY <1>2 DEF Lifecycle!Abandon, Lifecycle!Terminal
  <2>2. CASE row[r].status = "absent" \/ Abandoned(r)
    BY <2>1, <2>2, <1>r, <1>s
  <2>3. CASE row[r].status # "absent" /\ ~Abandoned(r)
    BY <2>1, <2>3, <1>r, <1>o DEF Boundary!Lose
  <2> QED
    BY <2>2, <2>3
<1>3. CASE Lifecycle(r)!Move \/ Lifecycle(r)!Cancel
  <2>1. /\ ~Abandoned(r) /\ ~Abandoned(r)'
        /\ row[r].status \notin Terminal
        /\ row'[r].status # "absent"
    BY <1>3 DEF Lifecycle!Move, Lifecycle!Cancel, Lifecycle!Edges
  <2>2. CASE row[r].status = "absent"
    <3>1. row'[r].status = "pending"
      BY <1>3, <2>2 DEF Lifecycle!Move, Lifecycle!Cancel, Lifecycle!Edges
    <3> QED
      BY <2>1, <2>2, <3>1, <1>r, <1>o DEF Boundary!Begin
  <2>3. CASE row[r].status # "absent" /\ row'[r].status \in Terminal
    BY <2>1, <2>3, <1>r, <1>o DEF Boundary!End
  <2>4. CASE row[r].status # "absent" /\ row'[r].status \notin Terminal
    BY <2>1, <2>4, <1>r, <1>s
  <2> QED
    BY <2>2, <2>3, <2>4
<1> QED
  BY <1>1, <1>2, <1>3 DEF LifecycleStep, Lifecycle!Next

(* Network runs keep the contract their scheduler relies on, however many  *)
(* of them go on at once: each inserts its row once, ends it or is lost,   *)
(* and neither opens it again nor touches another's.  Finish, RunRaises    *)
(* and Abandon of the scheduler are therefore all that a run can do to its *)
(* boundary (create_and_run(), process_one_due_policy()).                  *)
THEOREM RunsKeepContract == Spec => Boundary!Spec
<1>1. Init => Boundary!Init
  BY DEF Init, Boundary!Init, Opened, Closed, GoingOn, Terminal
<1>2. Inv /\ [Next]_vars => [Boundary!Next]_<<Opened, Closed, GoingOn>>
  <2> SUFFICES ASSUME Inv, [Next]_vars PROVE [Boundary!Next]_<<Opened, Closed, GoingOn>>
    OBVIOUS
  <2>1. CASE \A q \in Runs : Still(q)
    BY <2>1 DEF Still, Opened, Closed, GoingOn
  <2>2. CASE \E r \in Runs : \A q \in Runs \ {r} : Still(q)
    BY <2>2, LifecyclePreserved, BoundaryMoves DEF Boundary!Next
  <2> QED
    BY <2>1, <2>2, OneRunMoves
<1> QED
  BY <1>1, <1>2, InvHolds, PTL DEF Spec, Boundary!Spec, Boundary!vars

-----------------------------------------------------------------------------
(* Revoked addresses, and connections after a request to cancel.           *)

(* A barred probe has not asked again yet, and would be refused.           *)
BarredOK(r) ==
  \A p \in barred[r] : /\ p[1] \notin allowed
                       /\ exec[r].probe[p] \notin {"verified", "cleared"} \cup Connected

AllBarred == \A r \in Runs : BarredOK(r)

LEMMA BarredStep == Inv /\ AllBarred /\ [Next]_vars => AllBarred'
<1> SUFFICES ASSUME Inv, \A r \in Runs : BarredOK(r), [Next]_vars, NEW q \in Runs
             PROVE  BarredOK(q)'
  BY DEF AllBarred
<1>t. /\ TypeOK /\ barred \in [Runs -> SUBSET Probes] /\ exec[q].probe \in [Probes -> ProbeStates]
      /\ BarredOK(q)
  BY Typed DEF Inv, TypeOK
<1>a. ASSUME allowed' = allowed, barred' = barred, exec'[q].probe = exec[q].probe
      PROVE  BarredOK(q)'
  BY <1>a, <1>t DEF BarredOK
<1>1. CASE UNCHANGED vars
  BY <1>1, <1>a DEF vars
<1>2. ASSUME NEW r \in Runs, Create(r) \/ Passed(r) \/ RequestCancellation(r)
      PROVE  BarredOK(q)'
  BY <1>2, <1>a, <1>t, CreateEffect, RequestEffect DEF Passed, Execd, AtResults
<1>3. ASSUME NEW r \in Runs, NEW g, Planned(r, g) PROVE BarredOK(q)'
  <2>1. CASE q = r
    BY <1>3, <1>t, <2>1 DEF Planned, Execd, BarredOK, Connected
  <2>2. CASE q # r
    BY <1>3, <1>t, <2>2 DEF Planned, Execd, BarredOK
  <2> QED
    BY <2>1, <2>2
<1>4. ASSUME NEW r \in Runs, Lose(r) PROVE BarredOK(q)'
  <2>1. Execd(r, "over", NoProbes) /\ allowed' = allowed /\ barred' = barred
    BY <1>4, <1>t, LoseEffect DEF AtResults
  <2> QED
    BY <2>1, <1>t DEF Execd, NoProbes, BarredOK, Connected
<1>5. ASSUME NEW r \in Runs, NEW p \in Probes, Hopped(r, p) PROVE BarredOK(q)'
  <2>1. PICK to \in ProbeStates, f \in Phases :
          /\ Hop(r, p, exec[r].probe[p], to)
          /\ Execd(r, f, [exec[r].probe EXCEPT ![p] = to])
          /\ allowed' = allowed /\ barred' = barred
    BY <1>5 DEF Hopped
  <2>2. CASE q = r
    <3>1. exec'[q].probe = [exec[q].probe EXCEPT ![p] = to]
      BY <2>1, <2>2 DEF Execd
    <3>2. p \in barred[q] => to \notin {"verified", "cleared"} \cup Connected
      BY <2>1, <2>2, <1>t DEF Hop, BarredOK, Connected
    <3> QED
      BY <1>t, <2>1, <3>1, <3>2 DEF BarredOK
  <2>3. CASE q # r
    BY <1>a, <2>1, <2>3 DEF Execd
  <2> QED
    BY <2>2, <2>3
<1>6. ASSUME NEW a \in Addresses, Revoke(a) PROVE BarredOK(q)'
  BY <1>6, <1>t DEF Revoke, BarredOK, Connected
<1>7. ASSUME NEW a \in Addresses, Approve(a) PROVE BarredOK(q)'
  BY <1>7, <1>t DEF Approve, BarredOK
<1> QED
  BY <1>1, <1>2, <1>3, <1>4, <1>5, <1>6, <1>7, <1>t, NextCases

(* No probe connects to an address that lost its authorization before the  *)
(* probe asked again, however the revocations, approvals and probes of all *)
(* runs interleave (_reverify_address()).                                  *)
THEOREM NoRevokedProbe == Spec => []RevokedNeverProbed
<1>1. Init => AllBarred
  BY DEF Init, AllBarred, BarredOK
<1>2. AllBarred => RevokedNeverProbed
  BY DEF AllBarred, BarredOK, RevokedNeverProbed
<1> QED
  BY <1>1, <1>2, BarredStep, InvHolds, PTL DEF Spec

HoldersOf(g) == {p \in Probes : g[p] \in {"inside", "verified", "cleared"}}

ClearedOf(g) == {p \in Probes : g[p] = "cleared"}

ReachedOf(g) == {p \in Probes : g[p] = "reached"}

(* The semaphore; once the request is committed, the probes that connected *)
(* since and those that can no longer be stopped share its places, and     *)
(* nobody passes the last look: c, v and P are the run's connects,         *)
(* validates and past.                                                     *)
StopOK(c, v, P, flag, g) ==
  /\ Cardinality(HoldersOf(g)) <= MaxConcurrency
  /\ ~flag => c = {} /\ v = {}
  /\ flag => /\ Cardinality(c \cup ClearedOf(g)) <= MaxConcurrency
             /\ c \cup v \cup ClearedOf(g) \cup ReachedOf(g) \subseteq P

LEMMA FiniteProbes ==
  ASSUME NEW S \in SUBSET Probes
  PROVE  IsFiniteSet(S) /\ Cardinality(S) \in Nat
<1>1. IsFiniteSet(Probes)
  BY FiniteAssumption, FS_Product DEF Probes, Ports
<1> QED
  BY <1>1, FS_Subset, FS_CardinalityType

LEMMA FewerProbes ==
  ASSUME NEW S \in SUBSET Probes, NEW T \in SUBSET S
  PROVE  Cardinality(T) <= Cardinality(S) /\ Cardinality(T) \in Nat /\ Cardinality(S) \in Nat
BY FiniteProbes, FS_Subset

LEMMA NobodyHolds ==
  ASSUME NEW g, \A p \in Probes : g[p] \in {"none", "queued"}
  PROVE  /\ Cardinality(HoldersOf(g)) = 0
         /\ HoldersOf(g) = {} /\ ClearedOf(g) = {} /\ ReachedOf(g) = {}
<1>1. HoldersOf(g) = {} /\ ClearedOf(g) = {} /\ ReachedOf(g) = {}
  BY DEF HoldersOf, ClearedOf, ReachedOf
<1> QED
  BY <1>1, FS_EmptySet

(* asyncio.Semaphore: a hop never puts more than MAX_CONCURRENCY inside.   *)
LEMMA HopHolds ==
  ASSUME NEW r \in Runs, NEW p \in Probes, NEW g \in [Probes -> ProbeStates],
         NEW to \in ProbeStates, Hop(r, p, g[p], to), g = exec[r].probe,
         Cardinality(HoldersOf(g)) <= MaxConcurrency
  PROVE  Cardinality(HoldersOf([g EXCEPT ![p] = to])) <= MaxConcurrency
<1> DEFINE h == [g EXCEPT ![p] = to]
           H == HoldersOf(g)
<1>1. H \in SUBSET Probes
  BY DEF HoldersOf
<1>2. Cardinality(H) \in Nat /\ IsFiniteSet(H) /\ MaxConcurrency \in Nat
  BY <1>1, FiniteProbes, LimitsAssumption
<1>3. CASE to = "inside"
  <2>1. HoldersOf(h) = H \cup {p} /\ p \notin H
    BY <1>3 DEF HoldersOf, Hop
  <2>2. Cardinality(H) < MaxConcurrency
    BY <1>3 DEF Hop, Holders, HoldersOf
  <2>3. Cardinality(HoldersOf(h)) = Cardinality(H) + 1
    BY <1>2, <2>1, FS_AddElement
  <2> QED
    BY <1>2, <2>2, <2>3
<1>4. CASE to # "inside"
  <2>1. to \in {"verified", "cleared"} => g[p] \in {"inside", "verified"}
    BY DEF Hop
  <2>2. HoldersOf(h) \in SUBSET H
    BY <1>4, <2>1 DEF HoldersOf
  <2>3. Cardinality(HoldersOf(h)) <= Cardinality(H) /\ Cardinality(HoldersOf(h)) \in Nat
    BY <1>1, <2>2, FewerProbes
  <2> QED
    BY <1>2, <2>3
<1> QED
  BY <1>3, <1>4

(* After the request a hop only takes away from those who may connect.     *)
LEMMA HopStops ==
  ASSUME NEW r \in Runs, NEW p \in Probes, NEW g \in [Probes -> ProbeStates],
         NEW to \in ProbeStates, Hop(r, p, g[p], to), g = exec[r].probe,
         NEW flag \in BOOLEAN, flag = row[r].cancellation_requested,
         NEW c \in SUBSET Probes, NEW v \in SUBSET Probes, NEW P, NEW c2, NEW v2,
         c2 = c \/ (flag /\ g[p] = "cleared" /\ c2 = c \cup {p}),
         v2 = v \/ (flag /\ g[p] = "reached" /\ v2 = v \cup {p}),
         StopOK(c, v, P, flag, g)
  PROVE  StopOK(c2, v2, P, flag, [g EXCEPT ![p] = to])
<1> DEFINE h == [g EXCEPT ![p] = to]
<1>1. Cardinality(HoldersOf(h)) <= MaxConcurrency
  BY HopHolds DEF StopOK
<1>2. CASE ~flag
  BY <1>1, <1>2 DEF StopOK
<1>3. CASE flag
  <2>1. to # "cleared" /\ (to = "reached" => g[p] = "cleared")
    BY <1>3 DEF Hop
  <2>2. c2 \cup ClearedOf(h) \in SUBSET (c \cup ClearedOf(g)) /\ c \cup ClearedOf(g) \in SUBSET Probes
    BY <2>1 DEF ClearedOf
  <2>3. /\ Cardinality(c2 \cup ClearedOf(h)) <= Cardinality(c \cup ClearedOf(g))
        /\ Cardinality(c2 \cup ClearedOf(h)) \in Nat /\ Cardinality(c \cup ClearedOf(g)) \in Nat
    BY <2>2, FewerProbes
  <2>4. c2 \cup v2 \cup ClearedOf(h) \cup ReachedOf(h)
          \subseteq c \cup v \cup ClearedOf(g) \cup ReachedOf(g)
    BY <2>1 DEF ClearedOf, ReachedOf
  <2>5. /\ Cardinality(c \cup ClearedOf(g)) <= MaxConcurrency
        /\ c \cup v \cup ClearedOf(g) \cup ReachedOf(g) \subseteq P
    BY <1>3 DEF StopOK
  <2>6. Cardinality(c2 \cup ClearedOf(h)) <= MaxConcurrency
    BY <2>3, <2>5, LimitsAssumption
  <2>7. c2 \cup v2 \cup ClearedOf(h) \cup ReachedOf(h) \subseteq P
    BY <2>4, <2>5
  <2> QED
    BY <1>1, <1>3, <2>6, <2>7 DEF StopOK
<1> QED
  BY <1>2, <1>3

RunStopOK(r) ==
  StopOK(connects[r], validates[r], past[r], row[r].cancellation_requested, exec[r].probe)

AllStop == \A r \in Runs : RunStopOK(r)

LEMMA StopStep == Inv /\ AllStop /\ [Next]_vars => AllStop'
<1> SUFFICES ASSUME Inv, \A r \in Runs : RunStopOK(r), [Next]_vars, NEW q \in Runs
             PROVE  RunStopOK(q)'
  BY DEF AllStop
<1>t. /\ TypeOK /\ exec[q].probe \in [Probes -> ProbeStates]
      /\ past \in [Runs -> SUBSET Probes]
      /\ connects[q] \in SUBSET Probes /\ validates[q] \in SUBSET Probes
      /\ row[q].cancellation_requested \in BOOLEAN /\ InStep(q)
      /\ StopOK(connects[q], validates[q], past[q], row[q].cancellation_requested, exec[q].probe)
  BY Typed DEF Inv, TypeOK, RunStopOK
<1>a. ASSUME past'[q] = past[q], connects'[q] = connects[q], validates'[q] = validates[q],
             exec'[q].probe = exec[q].probe,
             row'[q].cancellation_requested = row[q].cancellation_requested
      PROVE  RunStopOK(q)'
  BY <1>a, <1>t DEF RunStopOK
<1>b. ASSUME past'[q] = past[q], connects'[q] = connects[q], validates'[q] = validates[q],
             \A p \in Probes : exec'[q].probe[p] \in {"none", "queued"},
             row'[q].cancellation_requested = row[q].cancellation_requested
      PROVE  RunStopOK(q)'
  <2> DEFINE g == exec[q].probe
             h == exec'[q].probe
  <2>1. Cardinality(HoldersOf(h)) = 0 /\ ClearedOf(h) = {} /\ ReachedOf(h) = {}
    BY <1>b, NobodyHolds
  <2>2. connects[q] \cup ClearedOf(g) \in SUBSET Probes
    BY <1>t DEF ClearedOf
  <2>3. /\ Cardinality(connects[q]) <= Cardinality(connects[q] \cup ClearedOf(g))
        /\ Cardinality(connects[q]) \in Nat /\ Cardinality(connects[q] \cup ClearedOf(g)) \in Nat
    BY <2>2, FewerProbes
  <2>4. Cardinality(connects[q] \cup ClearedOf(h)) = Cardinality(connects[q])
    <3>1. connects[q] \cup ClearedOf(h) = connects[q]
      BY <2>1
    <3> QED
      BY <3>1, Zenon
  <2>5. StopOK(connects[q], validates[q], past[q], row[q].cancellation_requested, h)
    <3>1. CASE ~row[q].cancellation_requested
      BY <1>t, <2>1, <3>1, LimitsAssumption DEF StopOK
    <3>2. CASE row[q].cancellation_requested
      <4>1. /\ Cardinality(connects[q] \cup ClearedOf(g)) <= MaxConcurrency
            /\ connects[q] \cup validates[q] \subseteq past[q]
        BY <1>t, <3>2 DEF StopOK
      <4>2. Cardinality(connects[q] \cup ClearedOf(h)) <= MaxConcurrency
        BY <2>3, <2>4, <4>1, LimitsAssumption
      <4>3. connects[q] \cup validates[q] \cup ClearedOf(h) \cup ReachedOf(h) \subseteq past[q]
        BY <2>1, <4>1
      <4> QED
        BY <2>1, <3>2, <4>2, <4>3, LimitsAssumption DEF StopOK
    <3> QED
      BY <3>1, <3>2
  <2> QED
    BY <1>b, <2>5 DEF RunStopOK
<1>1. CASE UNCHANGED vars
  BY <1>1, <1>a DEF vars
<1>2. ASSUME NEW r \in Runs, Create(r) PROVE RunStopOK(q)'
  <2>1. q = r => row[q].cancellation_requested = FALSE
    BY <1>2, <1>t, CreateEffect DEF InStep
  <2> QED
    BY <1>2, <1>a, <1>t, <2>1, CreateEffect DEF Execd, AtResults, AfterRequest
<1>3. ASSUME NEW r \in Runs, Passed(r) PROVE RunStopOK(q)'
  BY <1>3, <1>a DEF Passed, AfterRequest, Execd, Rowed
<1>4. ASSUME NEW r \in Runs, NEW g, Planned(r, g) PROVE RunStopOK(q)'
  <2>1. CASE q = r
    BY <1>4, <1>b, <2>1 DEF Planned, AfterRequest, Execd
  <2>2. CASE q # r
    BY <1>4, <1>a, <2>2 DEF Planned, AfterRequest, Execd
  <2> QED
    BY <2>1, <2>2
<1>5. ASSUME NEW r \in Runs, Lose(r) PROVE RunStopOK(q)'
  <2>1. Execd(r, "over", NoProbes) /\ UNCHANGED <<row, past, connects, validates>>
    BY <1>5, <1>t, LoseEffect DEF AtResults, AfterRequest
  <2>2. CASE q = r
    BY <1>b, <2>1, <2>2 DEF Execd, NoProbes
  <2>3. CASE q # r
    BY <1>a, <2>1, <2>3 DEF Execd
  <2> QED
    BY <2>2, <2>3
<1>6. ASSUME NEW r \in Runs, RequestCancellation(r) PROVE RunStopOK(q)'
  <2>e. UNCHANGED <<exec, connects, validates>>
    BY <1>6, <1>t, RequestEffect
  <2>1. CASE q = r /\ ~row[q].cancellation_requested
    <3> DEFINE g == exec[q].probe
    <3>1. /\ row'[q].cancellation_requested = TRUE
          /\ past'[q] = ClearedOf(g) \cup ReachedOf(g)
      <4>1. past'[q] = {p \in Probes : exec[q].probe[p] \in {"cleared", "reached"}}
        BY <1>6, <2>1, <1>t, RequestEffect
      <4> QED
        BY <1>6, <2>1, <1>t, <4>1, RequestEffect DEF ClearedOf, ReachedOf
    <3>2. connects[q] = {} /\ validates[q] = {} /\ Cardinality(HoldersOf(g)) <= MaxConcurrency
      BY <1>t, <2>1 DEF StopOK
    <3>3. HoldersOf(g) \in SUBSET Probes /\ ClearedOf(g) \in SUBSET HoldersOf(g)
      BY DEF HoldersOf, ClearedOf
    <3>4. /\ Cardinality(ClearedOf(g)) <= Cardinality(HoldersOf(g))
          /\ Cardinality(ClearedOf(g)) \in Nat /\ Cardinality(HoldersOf(g)) \in Nat
      BY <3>3, FewerProbes
    <3>5. connects[q] \cup ClearedOf(g) = ClearedOf(g)
      BY <3>2
    <3>6. Cardinality(connects[q] \cup ClearedOf(g)) <= MaxConcurrency
      BY <3>2, <3>4, <3>5, LimitsAssumption
    <3>7. StopOK(connects[q], validates[q], ClearedOf(g) \cup ReachedOf(g), TRUE, g)
      BY <3>2, <3>6 DEF StopOK
    <3> QED
      BY <2>e, <3>1, <3>7 DEF RunStopOK
  <2>2. CASE q # r \/ row[q].cancellation_requested
    <3>1. past'[q] = past[q] /\ row'[q].cancellation_requested = row[q].cancellation_requested
      BY <1>6, <2>2, <1>t, RequestEffect
    <3> QED
      BY <1>a, <2>e, <3>1
  <2> QED
    BY <2>1, <2>2
<1>7. ASSUME NEW r \in Runs, NEW p \in Probes, Hopped(r, p) PROVE RunStopOK(q)'
  <2>1. PICK to \in ProbeStates, f \in Phases :
          /\ Hop(r, p, exec[r].probe[p], to)
          /\ Execd(r, f, [exec[r].probe EXCEPT ![p] = to])
    BY <1>7 DEF Hopped
  <2>2. UNCHANGED <<row, past>>
    BY <1>7 DEF Hopped
  <2>3. CASE q = r
    <3>1. exec'[q].probe = [exec[q].probe EXCEPT ![p] = to]
      BY <2>1, <2>3 DEF Execd
    <3>2. /\ \/ connects'[q] = connects[q]
             \/ /\ row[q].cancellation_requested /\ exec[q].probe[p] = "cleared"
                /\ connects'[q] = connects[q] \cup {p}
          /\ \/ validates'[q] = validates[q]
             \/ /\ row[q].cancellation_requested /\ exec[q].probe[p] = "reached"
                /\ validates'[q] = validates[q] \cup {p}
      BY <1>7, <2>3 DEF Hopped, Grown
    <3>3. StopOK(connects'[q], validates'[q], past[q], row[q].cancellation_requested,
                 [exec[q].probe EXCEPT ![p] = to])
      <4> DEFINE g == exec[q].probe
                 flag == row[q].cancellation_requested
                 c == connects[q]
                 v == validates[q]
                 P == past[q]
                 c2 == connects'[q]
                 v2 == validates'[q]
      <4>1. /\ g \in [Probes -> ProbeStates] /\ flag \in BOOLEAN
            /\ c \in SUBSET Probes /\ v \in SUBSET Probes
            /\ StopOK(c, v, P, flag, g)
            /\ Hop(q, p, g[p], to) /\ g = exec[q].probe
            /\ flag = row[q].cancellation_requested
        BY <1>t, <2>1, <2>3
      <4>2. /\ c2 = c \/ (flag /\ g[p] = "cleared" /\ c2 = c \cup {p})
            /\ v2 = v \/ (flag /\ g[p] = "reached" /\ v2 = v \cup {p})
        BY <3>2
      <4> HIDE DEF g, flag, c, v, P, c2, v2
      <4>3. StopOK(c2, v2, P, flag, [g EXCEPT ![p] = to])
        BY <4>1, <4>2, HopStops
      <4> QED
        BY <4>3 DEF g, flag, c, v, P, c2, v2
    <3> QED
      BY <2>2, <3>1, <3>3 DEF RunStopOK
  <2>4. CASE q # r
    BY <1>7, <1>a, <2>1, <2>2, <2>4 DEF Execd, Hopped, Grown
  <2> QED
    BY <2>3, <2>4
<1>8. ASSUME NEW a \in Addresses, Revoke(a) \/ Approve(a) PROVE RunStopOK(q)'
  BY <1>8, <1>a DEF Revoke, Approve, AfterRequest
<1> QED
  BY <1>1, <1>2, <1>3, <1>4, <1>5, <1>6, <1>7, <1>8, <1>t, NextCases

(* Whatever the number of addresses and ports, a request to cancel leaves  *)
(* at most MAX_CONCURRENCY TCP connects to come, and only the probes that  *)
(* were past their last look when it was committed still connect at all,   *)
(* to their port or to validate what answered there (_probe()).            *)
THEOREM CancelBounded == Spec => []CancelStopsProbes
<1>1. Init => AllStop
  <2> SUFFICES ASSUME Init, NEW r \in Runs PROVE RunStopOK(r)
    BY DEF AllStop
  <2>1. /\ connects[r] = {} /\ validates[r] = {} /\ row[r].cancellation_requested = FALSE
        /\ \A p \in Probes : exec[r].probe[p] \in {"none", "queued"}
    BY DEF Init, NoProbes
  <2>2. Cardinality(HoldersOf(exec[r].probe)) = 0
    BY <2>1, NobodyHolds
  <2> QED
    BY <2>1, <2>2, LimitsAssumption DEF RunStopOK, StopOK
<1>2. Inv /\ AllStop => CancelStopsProbes
  <2> SUFFICES ASSUME Inv, NEW r \in Runs, RunStopOK(r)
               PROVE  /\ Cardinality(connects[r]) <= MaxConcurrency
                      /\ connects[r] \cup validates[r] \subseteq past[r]
    BY DEF AllStop, CancelStopsProbes
  <2>1. connects[r] \in SUBSET Probes /\ row[r].cancellation_requested \in BOOLEAN
    BY Typed DEF Inv, TypeOK
  <2>2. CASE ~row[r].cancellation_requested
    <3>1. connects[r] = {} /\ validates[r] = {}
      BY <2>2 DEF RunStopOK, StopOK
    <3> QED
      BY <3>1, FS_EmptySet, LimitsAssumption
  <2>3. CASE row[r].cancellation_requested
    <3>1. connects[r] \cup ClearedOf(exec[r].probe) \in SUBSET Probes
      BY <2>1 DEF ClearedOf
    <3>2. /\ Cardinality(connects[r]) <= Cardinality(connects[r] \cup ClearedOf(exec[r].probe))
          /\ Cardinality(connects[r]) \in Nat
          /\ Cardinality(connects[r] \cup ClearedOf(exec[r].probe)) \in Nat
      BY <3>1, FewerProbes
    <3>3. /\ Cardinality(connects[r] \cup ClearedOf(exec[r].probe)) <= MaxConcurrency
          /\ connects[r] \cup validates[r] \subseteq past[r]
      BY <2>3 DEF RunStopOK, StopOK
    <3> QED
      BY <3>2, <3>3, LimitsAssumption
  <2> QED
    BY <2>1, <2>2, <2>3
<1> QED
  BY <1>1, <1>2, StopStep, InvHolds, PTL DEF Spec

-----------------------------------------------------------------------------
(* Runs only go forward.  RunSettles needs fairness; that there is nothing *)
(* a run could repeat for ever does not.                                   *)

PhaseRank ==
  [f \in Phases |->
     CASE f = "idle"        -> 13 [] f = "created"    -> 12 [] f = "checking"   -> 11
       [] f = "authorized"  -> 10 [] f = "running"    -> 9  [] f = "planning"   -> 8
       [] f = "probing"     -> 7  [] f = "failing"    -> 6  [] f = "probed"     -> 5
       [] f = "finishing"   -> 4  [] f = "reconciling" -> 3 [] f = "discovered" -> 2
       [] f = "built"       -> 1  [] OTHER            -> 0]

ProbeRank ==
  [s \in ProbeStates |->
     CASE s = "queued"   -> 6 [] s = "waiting" -> 5 [] s = "inside"  -> 4
       [] s = "verified" -> 3 [] s = "cleared" -> 2 [] s = "reached" -> 1
       [] OTHER          -> 0]

PhaseOf(r) == PhaseRank[exec[r].phase]

ProbeOf(r, p) == ProbeRank[exec[r].probe[p]]

(* The phase falls; or it stays, nothing that is left to do grows (the     *)
(* addresses to check, the time, each probe) and something gets less.      *)
Forward(r) ==
  \/ PhaseOf(r)' < PhaseOf(r)
  \/ /\ PhaseOf(r)' = PhaseOf(r)
     /\ exec'[r].unchecked \subseteq exec[r].unchecked
     /\ exec[r].expired => exec'[r].expired
     /\ \A p \in Probes : ProbeOf(r, p)' <= ProbeOf(r, p)
     /\ \/ exec'[r].unchecked # exec[r].unchecked
        \/ exec'[r].expired /\ ~exec[r].expired
        \/ \E p \in Probes : ProbeOf(r, p)' < ProbeOf(r, p)

LEMMA RanksTyped ==
  /\ \A f \in Phases : PhaseRank[f] \in 0..13
  /\ \A s \in ProbeStates : ProbeRank[s] \in 0..6
BY DEF PhaseRank, ProbeRank

(* Every statement of create_and_run() but the check of one address, and   *)
(* the deadline apart, goes on to a later phase.                           *)
LEMMA PhasesFall ==
  ASSUME TypeOK, NEW r \in Runs,
         RunStep(r), ~\E a \in Addresses : CheckAddress(r, a)
  PROVE  PhaseOf(r)' < PhaseOf(r)
<1>1. exec \in [Runs -> Exec]
  BY DEF TypeOK
<1>2. <<exec[r].phase, exec'[r].phase>> \in
        {<<"created", "checking">>, <<"checking", "authorized">>, <<"checking", "over">>,
         <<"authorized", "running">>, <<"running", "probed">>, <<"running", "planning">>,
         <<"planning", "probing">>, <<"probing", "probed">>, <<"failing", "over">>,
         <<"probed", "over">>, <<"probed", "finishing">>, <<"finishing", "reconciling">>,
         <<"reconciling", "discovered">>, <<"reconciling", "over">>,
         <<"discovered", "built">>, <<"built", "over">>}
  <2>1. CASE BeginPolicyCheck(r) \/ Plan(r)
    BY <1>1, <2>1 DEF BeginPolicyCheck, Plan, Exec
  <2>2. CASE Authorize(r) \/ Deny(r) \/ Start(r) \/ Fail(r) \/ Finish(r)
    BY <1>1, <2>2 DEF Authorize, Deny, Start, Fail, Finish, Become, Exec
  <2>3. CASE CheckCancelled(r) \/ Gather(r) \/ LastCheck(r)
    BY <1>1, <2>3 DEF CheckCancelled, Gather, LastCheck, Exec
  <2>4. CASE Discover(r) \/ Capture(r) \/ SaveSnapshot(r)
    BY <1>1, <2>4 DEF Discover, Capture, SaveSnapshot, Exec
  <2> QED
    BY <2>1, <2>2, <2>3, <2>4 DEF RunStep
<1> QED
  BY <1>2 DEF PhaseOf, PhaseRank, Phases

LEMMA CheckForward ==
  ASSUME TypeOK, NEW r \in Runs, NEW a \in Addresses, CheckAddress(r, a)
  PROVE  Forward(r)
<1>1. exec[r] \in Exec
  BY DEF TypeOK
<1>2. /\ exec'[r].phase = exec[r].phase /\ exec'[r].probe = exec[r].probe
      /\ exec'[r].expired = exec[r].expired
      /\ exec'[r].unchecked = exec[r].unchecked \ {a} /\ a \in exec[r].unchecked
  BY <1>1 DEF CheckAddress, TypeOK, Exec
<1>3. \A p \in Probes : ProbeOf(r, p) \in 0..6
  BY <1>1, RanksTyped DEF ProbeOf, Exec
<1> QED
  BY <1>2, <1>3 DEF Forward, PhaseOf, ProbeOf

LEMMA ExpireForward ==
  ASSUME TypeOK, NEW r \in Runs, Expire(r)
  PROVE  Forward(r)
<1>1. exec[r] \in Exec
  BY DEF TypeOK
<1>2. /\ exec'[r].phase = exec[r].phase /\ exec'[r].probe = exec[r].probe
      /\ exec'[r].unchecked = exec[r].unchecked /\ exec'[r].expired /\ ~exec[r].expired
  BY <1>1 DEF Expire, TypeOK, Exec
<1>3. \A p \in Probes : ProbeOf(r, p) \in 0..6
  BY <1>1, RanksTyped DEF ProbeOf, Exec
<1> QED
  BY <1>2, <1>3 DEF Forward, PhaseOf, ProbeOf

(* _probe() never returns to an earlier statement.                         *)
LEMMA ProbeForward ==
  ASSUME TypeOK, NEW r \in Runs, NEW p \in Probes, ProbeStep(r, p) \/ Raise(r, p)
  PROVE  Forward(r)
<1>1. exec[r] \in Exec
  BY DEF TypeOK
<1>2. PICK to \in ProbeStates, f \in Phases :
        /\ Hop(r, p, exec[r].probe[p], to)
        /\ f = exec[r].phase \/ (exec[r].phase = "probing" /\ f = "failing")
        /\ Execd(r, f, [exec[r].probe EXCEPT ![p] = to])
  BY HopEffect DEF Hopped
<1>3. exec'[r].unchecked = exec[r].unchecked /\ exec'[r].expired = exec[r].expired
  BY <1>1 DEF TypeOK, Exec, ProbeStep, Begin, Acquire, Reverify, Clear, Connect, Validate, Raise,
     Move
<1>4. exec[r].probe \in [Probes -> ProbeStates] /\ exec[r].phase \in Phases
  BY <1>1 DEF Exec
<1>5. ProbeRank[to] < ProbeRank[exec[r].probe[p]]
  BY <1>2, <1>4 DEF Hop, ProbeRank, ProbeStates, Ended
<1>6. /\ ProbeOf(r, p)' < ProbeOf(r, p)
      /\ \A q \in Probes : q # p => ProbeOf(r, q)' = ProbeOf(r, q)
  BY <1>2, <1>4, <1>5 DEF Execd, ProbeOf
<1>7. \A q \in Probes : ProbeOf(r, q) \in 0..6
  BY <1>4, RanksTyped DEF ProbeOf
<1>8. \A q \in Probes : ProbeOf(r, q)' <= ProbeOf(r, q)
  <2> SUFFICES ASSUME NEW q \in Probes PROVE ProbeOf(r, q)' <= ProbeOf(r, q)
    OBVIOUS
  <2>1. CASE q = p
    <3>1. ProbeOf(r, p)' \in 0..6
      BY <1>2, <1>4, RanksTyped DEF Execd, ProbeOf
    <3> QED
      BY <1>6, <1>7, <2>1, <3>1
  <2>2. CASE q # p
    BY <1>6, <1>7, <2>2
  <2> QED
    BY <2>1, <2>2
<1>9. PhaseOf(r)' = PhaseOf(r) \/ PhaseOf(r)' < PhaseOf(r)
  BY <1>2, <1>4 DEF Execd, PhaseOf, PhaseRank, Phases
<1> QED
  BY <1>3, <1>6, <1>8, <1>9 DEF Forward

(* A process that is lost takes its probes with it.                        *)
LEMMA LoseForward ==
  ASSUME TypeOK, NEW r \in Runs, Lose(r)
  PROVE  Forward(r)
<1>1. exec[r] \in Exec
  BY DEF TypeOK
<1>2. /\ exec'[r].phase = "over" /\ exec'[r].probe = NoProbes
      /\ exec'[r].unchecked = exec[r].unchecked /\ exec'[r].expired = exec[r].expired
  BY <1>1 DEF Lose, TypeOK, Exec
<1>3. CASE exec[r].phase # "over"
  BY <1>1, <1>2, <1>3 DEF Exec, Forward, PhaseOf, PhaseRank, Phases
<1>4. CASE exec[r].phase = "over"
  <2>1. \A p \in Probes : ProbeOf(r, p) \in 0..6 /\ ProbeOf(r, p)' = 0
    BY <1>1, <1>2, RanksTyped DEF ProbeOf, Exec, NoProbes, ProbeRank, ProbeStates
  <2>2. PICK p \in Probes : exec[r].probe[p] \notin Ended \cup {"none"}
    BY <1>4 DEF Lose, Quiet
  <2>3. ProbeOf(r, p) # 0
    BY <1>1, <2>2 DEF ProbeOf, Exec, ProbeRank, ProbeStates
  <2>4. ProbeOf(r, p)' < ProbeOf(r, p)
    BY <2>1, <2>3
  <2>5. \A q \in Probes : ProbeOf(r, q)' <= ProbeOf(r, q)
    BY <2>1
  <2>6. PhaseOf(r)' = PhaseOf(r)
    BY <1>2, <1>4 DEF PhaseOf
  <2> QED
    BY <1>2, <2>4, <2>5, <2>6 DEF Forward
<1> QED
  BY <1>3, <1>4

LEMMA OwnStepForward ==
  ASSUME TypeOK, NEW r \in Runs,
         Create(r) \/ RunStep(r) \/ Expire(r) \/ Lose(r)
         \/ (\E p \in Probes : ProbeStep(r, p) \/ Raise(r, p))
  PROVE  Forward(r)
<1>1. CASE Create(r)
  <2>1. exec[r].phase = "idle" /\ exec'[r].phase = "created"
    BY <1>1, CreateEffect DEF Execd
  <2> QED
    BY <2>1 DEF Forward, PhaseOf, PhaseRank, Phases
<1>2. CASE RunStep(r) /\ ~\E a \in Addresses : CheckAddress(r, a)
  BY <1>2, PhasesFall DEF Forward
<1> QED
  BY <1>1, <1>2, CheckForward, ExpireForward, LoseForward, ProbeForward

(* What a run holds changes by its own steps only.                         *)
LEMMA OthersKeepRun ==
  ASSUME TypeOK, [Next]_vars, NEW q \in Runs
  PROVE  exec'[q] = exec[q] \/ Forward(q)
<1>1. CASE UNCHANGED vars
  BY <1>1 DEF vars
<1>2. ASSUME NEW r \in Runs,
             Create(r) \/ RunStep(r) \/ Expire(r) \/ Lose(r)
             \/ (\E p \in Probes : ProbeStep(r, p) \/ Raise(r, p))
      PROVE  exec'[q] = exec[q] \/ Forward(q)
  <2>1. CASE q = r
    BY <1>2, <2>1, OwnStepForward
  <2>2. CASE q # r
    <3>1. CASE Create(r) \/ Lose(r)
      BY <2>2, <3>1, CreateEffect, LoseEffect DEF Execd
    <3>2. CASE RunStep(r) \/ Expire(r)
      <4>1. Passed(r) \/ \E g : Planned(r, g)
        BY <3>2, PassageEffect, PlanEffect
      <4> QED
        BY <2>2, <4>1 DEF Passed, Planned, Execd
    <3>3. ASSUME NEW p \in Probes, ProbeStep(r, p) \/ Raise(r, p) PROVE exec'[q] = exec[q]
      BY <2>2, <3>3, HopEffect DEF Hopped, Execd
    <3> QED
      BY <1>2, <3>1, <3>2, <3>3
  <2> QED
    BY <2>1, <2>2
<1>3. CASE \/ \E r \in Runs : RequestCancellation(r)
           \/ \E a \in Addresses : Revoke(a) \/ Approve(a)
  BY <1>3 DEF RequestCancellation, Revoke, Approve
<1> QED
  BY <1>1, <1>2, <1>3 DEF Next

(* Every statement of create_and_run() and of _probe() leaves less to do,  *)
(* and no request, revocation, failure or other run ever adds work: none   *)
(* of them can keep a run or its semaphore busy for ever.                  *)
THEOREM RunsGoForward ==
  Spec => [][\A r \in Runs :
               /\ exec'[r] = exec[r] \/ Forward(r)
               /\ RunStep(r) \/ (\E p \in Probes : ProbeStep(r, p)) => Forward(r)]_vars
<1>1. Inv /\ [Next]_vars =>
        [\A r \in Runs :
               /\ exec'[r] = exec[r] \/ Forward(r)
               /\ RunStep(r) \/ (\E p \in Probes : ProbeStep(r, p)) => Forward(r)]_vars
  BY OthersKeepRun, OwnStepForward DEF Inv
<1> QED
  BY <1>1, InvHolds, PTL DEF Spec

-----------------------------------------------------------------------------
(* A target that is only ever looked at with the baseline profile.         *)

(* Nothing is probed, reached, captured or known.                          *)
Blind ==
  /\ services = {}
  /\ \A r \in Runs : /\ exec[r].probe = NoProbes
                     /\ snapshot[r] \in {{}, NoSnapshot}
                     /\ row[r].profile \in {"network_baseline", "none"}
                     /\ exec[r].phase # "idle" => row[r].profile = "network_baseline"

LEMMA BlindPlan ==
  ASSUME TypeOK, Blind, NEW r \in Runs, exec[r].phase # "idle", NEW p \in Probes
  PROVE  p[2] \notin BuildPlan(row[r].profile, PreviouslyKnownPorts(r))
<1>1. row[r].profile = "network_baseline"
  BY DEF Blind
<1>2. ProfilePorts(row[r].profile) = {}
  BY <1>1 DEF ProfilePorts
<1>3. \A k \in DOMAIN captures : captures[k] \in Runs
  BY DEF TypeOK
<1>4. PreviouslyKnownPorts(r) \subseteq {NoPort}
  BY <1>3 DEF PreviouslyKnownPorts, LatestSaved, Blind, NoSnapshot
<1>5. p[2] # NoPort
  BY PortsAssumption DEF Probes, Ports, NoPort
<1> QED
  BY <1>2, <1>4, <1>5 DEF BuildPlan

(* Rows keep the profile they were created with.                           *)
LEMMA ProfileKept ==
  ASSUME TypeOK, [Next]_vars, NEW q \in Runs, exec[q].phase # "idle"
  PROVE  row'[q].profile = row[q].profile
<1>1. row \in [Runs -> Row]
  BY DEF TypeOK
<1>2. ASSUME NEW r \in Runs, NEW s, row' = [row EXCEPT ![r].status = s]
      PROVE  row'[q].profile = row[q].profile
  BY <1>1, <1>2 DEF Row
<1>3. ASSUME NEW r \in Runs, Create(r) PROVE row'[q].profile = row[q].profile
  BY <1>1, <1>3 DEF Create
<1>4. ASSUME NEW r \in Runs, RequestCancellation(r) PROVE row'[q].profile = row[q].profile
  BY <1>1, <1>4 DEF RequestCancellation, Row
<1>5. ASSUME NEW r \in Runs, RunStep(r) PROVE row'[q].profile = row[q].profile
  <2>1. row' = row \/ \E s : row' = [row EXCEPT ![r].status = s]
    BY <1>5 DEF RunStep, BeginPolicyCheck, CheckAddress, Authorize, Deny, Start, CheckCancelled,
       Plan, Gather, Fail, LastCheck, Finish, Discover, Capture, SaveSnapshot, Become
  <2> QED
    BY <1>2, <2>1
<1>6. CASE \/ \E r \in Runs : \/ Expire(r) \/ Lose(r)
                              \/ \E p \in Probes : ProbeStep(r, p) \/ Raise(r, p)
           \/ \E a \in Addresses : Revoke(a) \/ Approve(a)
           \/ UNCHANGED vars
  BY <1>6 DEF Expire, Lose, ProbeStep, Begin, Acquire, Reverify, Clear, Connect, Validate, Raise,
     Revoke, Approve, vars
<1> QED
  BY <1>3, <1>4, <1>5, <1>6 DEF Next

(* Who could add a service, a snapshot or a probe.                         *)
LEMMA BlindStep ==
  ASSUME Profiles = {"network_baseline"}
  PROVE  Inv /\ Blind /\ [Next]_vars => Blind'
<1> SUFFICES ASSUME Inv, Blind, [Next]_vars PROVE Blind'
  OBVIOUS
<1>t. /\ TypeOK /\ exec \in [Runs -> Exec] /\ row \in [Runs -> Row]
      /\ snapshot \in [Runs -> (SUBSET Ports) \cup {NoSnapshot}]
  BY DEF Inv, TypeOK
<1>0. ASSUME NEW r \in Runs
      PROVE  /\ ReachablePorts(r) = {}
             /\ \A p \in Probes : ~ProbeStep(r, p) /\ ~Raise(r, p)
  <2>1. \A p \in Probes : exec[r].probe[p] = "none"
    BY DEF Blind, NoProbes
  <2>2. ReachablePorts(r) = {}
    BY <2>1 DEF ReachablePorts
  <2>3. ASSUME NEW p \in Probes, ProbeStep(r, p) \/ Raise(r, p) PROVE FALSE
    BY <1>t, <2>1, <2>3, HopEffect DEF Hopped, Hop
  <2> QED
    BY <2>2, <2>3
<1>1. services' = {}
  BY <1>0 DEF Blind, Next, vars, Create, RunStep, BeginPolicyCheck, CheckAddress, Authorize, Deny,
     Start, CheckCancelled, Plan, Gather, Fail, LastCheck, Finish, Discover, Capture, SaveSnapshot,
     AtResults, Expire, RequestCancellation, Lose, Revoke, Approve
<1>2. ASSUME NEW q \in Runs PROVE snapshot'[q] \in {{}, NoSnapshot}
  <2>1. snapshot' = snapshot \/ \E r \in Runs : snapshot' = [snapshot EXCEPT ![r] = {}]
    BY <1>0 DEF Next, vars, Create, RunStep, BeginPolicyCheck, CheckAddress, Authorize, Deny,
       Start, CheckCancelled, Plan, Gather, Fail, LastCheck, Finish, Discover, Capture,
       SaveSnapshot, AtResults, Expire, RequestCancellation, Lose, Revoke, Approve
  <2> QED
    BY <1>t, <2>1 DEF Blind
<1>3. ASSUME NEW q \in Runs PROVE exec'[q].probe = NoProbes
  <2>1. ASSUME NEW r \in Runs, Plan(r) PROVE exec'[q].probe = NoProbes
    <3> DEFINE g == [p \in Probes |->
                       IF p[1] \in exec[r].addresses
                          /\ p[2] \in BuildPlan(row[r].profile, PreviouslyKnownPorts(r))
                       THEN "queued" ELSE "none"]
    <3>1. exec' = [exec EXCEPT ![r].phase = "probing", ![r].probe = g] /\ exec[r].phase # "idle"
      BY <2>1 DEF Plan
    <3>2. g = NoProbes
      BY <1>t, <3>1, BlindPlan DEF NoProbes
    <3> HIDE DEF g
    <3> QED
      BY <1>t, <3>1, <3>2 DEF Blind, Exec
  <2>2. ASSUME NEW r \in Runs, Passed(r) PROVE exec'[q].probe = NoProbes
    BY <2>2 DEF Passed, Execd, Blind
  <2>3. ASSUME NEW r \in Runs, Create(r) \/ Lose(r) PROVE exec'[q].probe = NoProbes
    <3>1. Execd(r, "created", exec[r].probe) \/ Execd(r, "over", NoProbes)
      BY <1>t, <2>3, CreateEffect, LoseEffect
    <3> QED
      BY <3>1 DEF Execd, Blind
  <2>4. CASE \/ UNCHANGED vars
             \/ \E r \in Runs : RequestCancellation(r)
             \/ \E a \in Addresses : Revoke(a) \/ Approve(a)
    BY <2>4 DEF vars, RequestCancellation, Revoke, Approve, Blind
  <2>5. ASSUME NEW r \in Runs, RunStep(r) \/ Expire(r) PROVE exec'[q].probe = NoProbes
    BY <1>t, <2>1, <2>2, <2>5, PassageEffect
  <2>6. \/ UNCHANGED vars
        \/ \E r \in Runs : Create(r) \/ RunStep(r) \/ Expire(r) \/ RequestCancellation(r) \/ Lose(r)
        \/ \E a \in Addresses : Revoke(a) \/ Approve(a)
    BY <1>0 DEF Next
  <2> QED
    BY <2>3, <2>4, <2>5, <2>6
<1>4. ASSUME NEW q \in Runs
      PROVE  /\ row'[q].profile \in {"network_baseline", "none"}
             /\ exec'[q].phase # "idle" => row'[q].profile = "network_baseline"
  <2>1. CASE exec[q].phase # "idle"
    BY <1>t, <2>1, ProfileKept DEF Blind
  <2>2. CASE exec[q].phase = "idle" /\ Create(q)
    BY <1>t, <2>2 DEF Create
  <2>3. CASE exec[q].phase = "idle" /\ ~Create(q)
    <3>1. row[q].status = "absent"
      BY <1>t, <2>3 DEF TypeOK
    <3>2. row'[q] = row[q] /\ exec'[q] = exec[q]
      <4>1. ASSUME NEW r \in Runs, Create(r) PROVE row'[q] = row[q] /\ exec'[q] = exec[q]
        BY <1>t, <2>3, <4>1, CreateEffect DEF Execd
      <4>2. ASSUME NEW r \in Runs, Passed(r) PROVE row'[q] = row[q] /\ exec'[q] = exec[q]
        BY <2>3, <4>2 DEF Passed, Passage, Execd, Rowed
      <4>3. ASSUME NEW r \in Runs, NEW g, Planned(r, g) PROVE row'[q] = row[q] /\ exec'[q] = exec[q]
        BY <2>3, <4>3 DEF Planned, Execd
      <4>4. ASSUME NEW r \in Runs, RequestCancellation(r)
            PROVE  row'[q] = row[q] /\ exec'[q] = exec[q]
        BY <1>t, <3>1, <4>4, RequestEffect
      <4>5. ASSUME NEW r \in Runs, Lose(r) PROVE row'[q] = row[q] /\ exec'[q] = exec[q]
        BY <1>t, <2>3, <4>5, LoseEffect DEF Execd
      <4>6. ASSUME NEW r \in Runs, NEW p \in Probes, Hopped(r, p)
            PROVE  row'[q] = row[q] /\ exec'[q] = exec[q]
        <5>1. exec[r].probe[p] = "none"
          BY DEF Blind, NoProbes
        <5> QED
          BY <4>6, <5>1 DEF Hopped, Hop
      <4>7. CASE UNCHANGED vars \/ \E a \in Addresses : Revoke(a) \/ Approve(a)
        BY <4>7 DEF vars, Revoke, Approve
      <4> QED
        BY <1>t, <4>1, <4>2, <4>3, <4>4, <4>5, <4>6, <4>7, NextCases
    <3> QED
      BY <2>3, <3>2 DEF Blind
  <2> QED
    BY <2>1, <2>2, <2>3
<1> QED
  BY <1>1, <1>2, <1>3, <1>4 DEF Blind

(* A target whose runs all use network_baseline, a profile that promises   *)
(* to revalidate known services, is never probed: the plan knows the ports *)
(* of earlier snapshots only, and no run of this profile fills one         *)
(* (_previously_known_ports(), build_plan()).                              *)
THEOREM BaselineStaysBlind ==
  ASSUME Profiles = {"network_baseline"}
  PROVE  Spec => [](services = {} /\ \A r \in Runs : exec[r].probe = NoProbes)
<1>1. Init => Blind
  BY DEF Init, Blind
<1>2. Blind => services = {} /\ \A r \in Runs : exec[r].probe = NoProbes
  BY DEF Blind
<1>3. Inv /\ Blind /\ [Next]_vars => Blind'
  BY BlindStep
<1> QED
  BY <1>1, <1>2, <1>3, InvHolds, PTL DEF Spec
=============================================================================
