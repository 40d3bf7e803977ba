------------------------- MODULE AuthorizationProofs -------------------------
(***************************************************************************)
(* Theorems about security authorizations and the policy engine, for every *)
(* number of authorizations, users, concurrent calls and approval rounds.  *)
(***************************************************************************)
EXTENDS Authorization, SequenceTheorems, TLAPS

Decided(a, i) == approvals[a][i].decision # Open

(* Every approval that was given was given properly.                       *)
ApprovalsProper ==
  \A a \in Ids : \A i \in DOMAIN approvals[a] :
    approvals[a][i].decision = "approved" =>
      /\ approvals[a][i].approver # content[a].requester
      /\ \/ content[a].classes \cap StrongClasses = {}
         \/ approvals[a][i].approver \in StrongApprovers

(* Some row of rows is a proper approval of an authorization with contents *)
(* c.                                                                      *)
ProperRows(rows, c) ==
  \E i \in DOMAIN rows :
    /\ rows[i].decision = "approved"
    /\ rows[i].approver # c.requester
    /\ c.classes \cap StrongClasses = {} \/ rows[i].approver \in StrongApprovers

(* What a call has loaded exists, and what it is about to revoke was       *)
(* approved once.                                                          *)
LoadedOK ==
  /\ \A s \in Submitters : submit[s] # NoId => status[submit[s]] # "absent"
  /\ \A r \in Revokers : revoke[r] # NoId =>
       /\ status[revoke[r]] # "absent"
       /\ \E i \in DOMAIN approvals[revoke[r]] : approvals[revoke[r]][i].decision = "approved"

(* An authorization seen terminal is terminal still, or its approval rows  *)
(* have grown past one that is decided.                                    *)
EndedOK ==
  \A e \in Evaluators : eval[e].stage # "idle" =>
    \A a \in eval[e].ended :
      \E i \in DOMAIN approvals[a] :
        Decided(a, i) /\ (status[a] \in Terminal \/ i < Len(approvals[a]))

NeverExpired == \A a \in Ids : status[a] # "expired"

(* create() has verified every scope; evaluate() may do without.           *)
ScopeOwned == \A a \in Ids : content[a].scope \subseteq Owned

Inv ==
  /\ TypeOK
  /\ StatusMatchesApprovals
  /\ ApprovalsProper
  /\ LoadedOK
  /\ NeverExpired
  /\ ScopeOwned

-----------------------------------------------------------------------------
(* What the two kinds of write do to the approval rows.                    *)

LEMMA IdsFacts == NoId \notin Ids /\ Ids \subseteq Int
BY AuthorizationBounds DEF Ids, NoId

(* submit_for_approval() appends one open row.                             *)
LEMMA SubmitEffect ==
  ASSUME TypeOK, NEW s \in Submitters, SubmitCommit(s)
  PROVE  LET a == submit[s] IN
         /\ a \in Ids
         /\ approvals' \in [Ids -> Seq(Approval)]
         /\ \A b \in Ids \ {a} : approvals'[b] = approvals[b]
         /\ Len(approvals'[a]) = Len(approvals[a]) + 1
         /\ \A i \in 1..Len(approvals[a]) : approvals'[a][i] = approvals[a][i]
         /\ approvals'[a][Len(approvals[a]) + 1] = OpenApproval
         /\ DOMAIN approvals'[a] = 1..(Len(approvals[a]) + 1)
<1> DEFINE a == submit[s]
<1>1. a \in Ids /\ approvals[a] \in Seq(Approval)
  BY DEF TypeOK, SubmitCommit
<1>2. OpenApproval \in Approval
  BY DEF OpenApproval, Approval, Open
<1>3. approvals' = [approvals EXCEPT ![a] = Append(approvals[a], OpenApproval)]
  BY DEF SubmitCommit
<1>4. /\ Append(approvals[a], OpenApproval) \in Seq(Approval)
      /\ Len(Append(approvals[a], OpenApproval)) = Len(approvals[a]) + 1
      /\ \A i \in 1..Len(approvals[a]) : Append(approvals[a], OpenApproval)[i] = approvals[a][i]
      /\ Append(approvals[a], OpenApproval)[Len(approvals[a]) + 1] = OpenApproval
      /\ DOMAIN Append(approvals[a], OpenApproval) = 1..(Len(approvals[a]) + 1)
  BY <1>1, <1>2
<1> QED
  BY <1>1, <1>3, <1>4 DEF TypeOK

(* _decide() replaces the newest row of a, which was open.                 *)
NewestDecided(u, a, d) ==
  /\ \A b \in Ids \ {a} : approvals'[b] = approvals[b]
  /\ Len(approvals[a]) \in Nat \ {0}
  /\ Len(approvals'[a]) = Len(approvals[a])
  /\ DOMAIN approvals[a] = 1..Len(approvals[a])
  /\ DOMAIN approvals'[a] = 1..Len(approvals[a])
  /\ \A i \in 1..Len(approvals[a]) : i # Len(approvals[a]) =>
       approvals'[a][i] = approvals[a][i]
  /\ approvals[a][Len(approvals[a])].decision = Open
  /\ approvals'[a][Len(approvals[a])] = [decision |-> d, approver |-> u]

LEMMA DecideEffect ==
  ASSUME TypeOK, NEW u \in Users, NEW a \in Ids, NEW d \in {"approved", "rejected"},
         Decide(u, a, d)
  PROVE  /\ approvals' \in [Ids -> Seq(Approval)]
         /\ NewestDecided(u, a, d)
<1> DEFINE n   == Len(approvals[a])
           rec == [decision |-> d, approver |-> u]
           new == [approvals[a] EXCEPT ![n] = rec]
<1>1. approvals[a] \in Seq(Approval) /\ approvals[a] # <<>>
  BY DEF TypeOK, Decide
<1>2. n \in Nat \ {0} /\ DOMAIN approvals[a] = 1..n
  BY <1>1
<1>3. rec \in Approval
  BY DEF Approval
<1>4. approvals' = [approvals EXCEPT ![a] = new]
  BY DEF Decide
<1>5. \A i \in 1..n : approvals[a][i] \in Approval
  BY <1>1, <1>2
<1>6. new \in [1..n -> Approval]
  BY <1>2, <1>3, <1>5
<1>7. new \in Seq(Approval) /\ Len(new) = n /\ DOMAIN new = 1..n
  <2> HIDE DEF new, n
  <2>1. new \in Seq(Approval)
    BY <1>2, <1>6, IsASeq
  <2> QED
    BY <1>2, <1>6, <2>1
<1>9. new[n] = rec /\ \A i \in 1..n : i # n => new[i] = approvals[a][i]
  BY <1>2
<1>10. approvals[a][n].decision = Open
  BY DEF Decide, Latest
<1>11. approvals'[a] = new /\ \A b \in Ids \ {a} : approvals'[b] = approvals[b]
  BY <1>4 DEF TypeOK
<1>12. approvals' \in [Ids -> Seq(Approval)]
  BY <1>4, <1>7 DEF TypeOK
<1> QED
  BY <1>2, <1>7, <1>9, <1>10, <1>11, <1>12 DEF NewestDecided

-----------------------------------------------------------------------------
(* The invariant.                                                          *)

(* What evaluate() may answer to call v, by what its checker confirms.     *)
AnswersOf(v, confirmed) == Evaluate(v.request.class, v.request.refs, v.now, confirmed)

LEMMA EvaluateType ==
  ASSUME NEW class, NEW refs, NEW now, NEW confirmed,
         NEW x \in Evaluate(class, refs, now, confirmed)
  PROVE  x \in Answer
<1>1. \A S \in SUBSET ({NoId} \cup Ids), d \in {"allow", "deny", "approval_required"} :
        \A reason \in {"ALLOWED_BY_ACTIVE_AUTHORIZATION", "AUTHORIZATION_NOT_FOUND",
                       "AUTHORIZATION_NOT_ACTIVE", "AUTHORIZATION_EXPIRED",
                       "ACTION_NOT_IN_SCOPE", "ENTITY_NOT_IN_SCOPE",
                       "APPROVAL_REQUIRED", "ACTION_CLASS_DENIED", "TENANT_MISMATCH"} :
          \A y \in Naming(S, d, reason) : y \in Answer
  BY DEF Naming, NewestOf, Answer
<1>2. Listed \subseteq Ids
  BY DEF Listed
<1> DEFINE em == {a \in Listed : refs \subseteq content[a].scope}
           am == {a \in em : class \in content[a].classes}
<1>3. em \subseteq Ids /\ am \subseteq Ids
  BY <1>2
<1>4. \/ x \in Naming({NoId}, "deny", "ACTION_CLASS_DENIED")
      \/ x \in Naming({NoId}, "deny", "TENANT_MISMATCH")
      \/ x \in Naming({NoId}, "deny", "AUTHORIZATION_NOT_FOUND")
      \/ x \in Naming(Listed, "deny", "ENTITY_NOT_IN_SCOPE")
      \/ x \in Naming(em, "deny", "ACTION_NOT_IN_SCOPE")
      \/ x \in Naming(am \cap Active, "allow", "ALLOWED_BY_ACTIVE_AUTHORIZATION")
      \/ x \in Naming(am \cap Active, "deny", "AUTHORIZATION_EXPIRED")
      \/ x \in Naming(am \cap Pending, "approval_required", "APPROVAL_REQUIRED")
      \/ x \in Naming(am, "deny", "AUTHORIZATION_NOT_ACTIVE")
  BY Zenon DEF Evaluate
<1> HIDE DEF em, am
<1> QED
  BY <1>1, <1>2, <1>3, <1>4

(* The only answer ALLOW: the newest active covering authorization, in its *)
(* window.                                                                 *)
LEMMA EvaluateAllow ==
  ASSUME TypeOK, ScopeOwned, NEW class, NEW refs, NEW now, NEW confirmed,
         NEW x \in Evaluate(class, refs, now, confirmed), x.decision = "allow"
  PROVE  /\ x.authorization \in Ids
         /\ status[x.authorization] = "active"
         /\ class \in content[x.authorization].classes
         /\ class \notin CategoricallyDenied
         /\ refs \subseteq content[x.authorization].scope
         /\ refs \subseteq Owned
         /\ Contains(x.authorization, now)
<1> DEFINE em == {a \in Listed : refs \subseteq content[a].scope}
           am == {a \in em : class \in content[a].classes}
           deciding == am \cap Active
<1>1. \A S, d, reason : \A y \in Naming(S, d, reason) : y.decision = d
  BY DEF Naming
<1>2. /\ x \in Naming(deciding, "allow", "ALLOWED_BY_ACTIVE_AUTHORIZATION")
      /\ class \notin CategoricallyDenied
      /\ \E a \in NewestOf(deciding) : Contains(a, now)
  <2>1. \A S, reason : x \notin Naming(S, "deny", reason)
    BY <1>1
  <2>2. \A S, reason : x \notin Naming(S, "approval_required", reason)
    BY <1>1
  <2> QED
    BY <2>1, <2>2, Zenon DEF Evaluate
<1>3. x.authorization \in NewestOf(deciding)
  BY <1>2 DEF Naming
<1>4. deciding \subseteq Ids
  BY DEF Listed
<1>5. \A a, b \in NewestOf(deciding) : a = b
  <2> HIDE DEF deciding
  <2> QED
    BY <1>4, IdsFacts DEF NewestOf
<1>6. Contains(x.authorization, now)
  BY <1>2, <1>3, <1>5
<1>7. x.authorization \in deciding
  BY <1>3 DEF NewestOf
<1> QED
  BY <1>2, <1>4, <1>6, <1>7 DEF Active, ScopeOwned

LEMMA InitInv == Init => Inv /\ EndedOK
<1> SUFFICES ASSUME Init PROVE Inv /\ EndedOK
  OBVIOUS
<1>1. \A a \in Ids : approvals[a] = <<>> /\ DOMAIN approvals[a] = {}
  BY DEF Init
<1>2. TypeOK
  BY DEF Init, TypeOK, Statuses
<1>3. StatusMatchesApprovals
  BY <1>1 DEF Init, StatusMatchesApprovals
<1>4. ApprovalsProper
  BY <1>1 DEF ApprovalsProper
<1>5. LoadedOK /\ NeverExpired /\ EndedOK /\ ScopeOwned
  BY DEF Init, LoadedOK, NeverExpired, EndedOK, IdleEval, ScopeOwned, NoContent
<1> QED
  BY <1>2, <1>3, <1>4, <1>5 DEF Inv

(* Steps that change neither status, contents nor approvals.               *)
LEMMA RowsUnchanged ==
  ASSUME Inv, UNCHANGED <<status, content, approvals>>
  PROVE  StatusMatchesApprovals' /\ ApprovalsProper' /\ NeverExpired'
BY DEF Inv, StatusMatchesApprovals, ApprovalsProper, NeverExpired, Latest

LEMMA TypeStep == Inv /\ [Next]_vars => TypeOK'
<1> SUFFICES ASSUME Inv, [Next]_vars PROVE TypeOK'
  OBVIOUS
<1> USE DEF Inv
<1>1. ASSUME NEW a \in Ids, Create(a) PROVE TypeOK'
  BY <1>1 DEF Create, TypeOK, Statuses
<1>2. ASSUME NEW s \in Submitters, NEW a \in Ids, SubmitLoad(s, a) PROVE TypeOK'
  BY <1>2 DEF SubmitLoad, TypeOK
<1>3. ASSUME NEW s \in Submitters, SubmitCommit(s) PROVE TypeOK'
  <2>1. submit[s] \in Ids /\ approvals' \in [Ids -> Seq(Approval)]
    BY <1>3, SubmitEffect
  <2>2. status[submit[s]] # "absent"
    BY <1>3 DEF LoadedOK, SubmitCommit
  <2> QED
    BY <1>3, <2>1, <2>2 DEF SubmitCommit, TypeOK, Statuses
<1>4. ASSUME NEW u \in Users, NEW a \in Ids, NEW d \in {"approved", "rejected"}, Decide(u, a, d)
      PROVE TypeOK'
  <2>1. approvals' \in [Ids -> Seq(Approval)]
    BY <1>4, DecideEffect
  <2> QED
    BY <1>4, <2>1 DEF Decide, TypeOK, Statuses
<1>5. ASSUME NEW r \in Revokers, NEW a \in Ids, RevokeLoad(r, a) PROVE TypeOK'
  BY <1>5 DEF RevokeLoad, TypeOK
<1>6. ASSUME NEW r \in Revokers, RevokeCommit(r) PROVE TypeOK'
  BY <1>6 DEF RevokeCommit, TypeOK, Statuses, LoadedOK
<1>7. ASSUME NEW e \in Evaluators, EvalStart(e) PROVE TypeOK'
  BY <1>7 DEF EvalStart, TypeOK, StartedEval
<1>8. ASSUME NEW e \in Evaluators, EvalDecide(e) PROVE TypeOK'
  <2>1. PICK x \in AnswersOf(eval[e], Owned) \cup AnswersOf(eval[e], Entities) :
          eval' = [eval EXCEPT ![e] =
                     [stage |-> "decided", request |-> eval[e].request, now |-> eval[e].now,
                      ended |-> eval[e].ended, answer |-> x]]
    BY <1>8 DEF EvalDecide, AnswersOf
  <2>2. x \in Answer
    BY EvaluateType DEF AnswersOf
  <2>3. eval[e] \in StartedEval
    BY <1>8 DEF EvalDecide, TypeOK, IdleEval, DecidedEval
  <2> QED
    BY <1>8, <2>1, <2>2, <2>3 DEF EvalDecide, TypeOK, StartedEval, DecidedEval
<1>9. ASSUME NEW e \in Evaluators, EvalRecord(e) PROVE TypeOK'
  BY <1>9 DEF EvalRecord, TypeOK
<1>10. CASE Tick
  BY <1>10 DEF Tick, TypeOK
<1>11. CASE UNCHANGED vars
  BY <1>11 DEF vars, TypeOK
<1> QED
  BY <1>1, <1>2, <1>3, <1>4, <1>5, <1>6, <1>7, <1>8, <1>9, <1>10, <1>11 DEF Next

(* The approval history, the loaded rows and the absence of EXPIRED.       *)
LEMMA HistoryStep ==
  Inv /\ [Next]_vars => StatusMatchesApprovals' /\ ApprovalsProper' /\ LoadedOK' /\ NeverExpired'
<1> DEFINE Goal == StatusMatchesApprovals' /\ ApprovalsProper' /\ LoadedOK' /\ NeverExpired'
<1> SUFFICES ASSUME Inv, [Next]_vars PROVE Goal
  OBVIOUS
<1>0. TypeOK /\ StatusMatchesApprovals /\ ApprovalsProper /\ LoadedOK /\ NeverExpired
  BY DEF Inv
<1>1. ASSUME NEW a \in Ids, Create(a) PROVE Goal
  <2>1. approvals[a] = <<>>
    BY <1>0, <1>1 DEF Create, StatusMatchesApprovals
  <2>2. /\ approvals' = approvals /\ submit' = submit /\ revoke' = revoke
        /\ \A b \in Ids : b # a => status'[b] = status[b] /\ content'[b] = content[b]
        /\ status'[a] = "draft"
    BY <1>0, <1>1 DEF Create, TypeOK
  <2>3. StatusMatchesApprovals'
    BY <1>0, <2>1, <2>2 DEF StatusMatchesApprovals, Latest
  <2>4. ApprovalsProper'
    BY <1>0, <2>1, <2>2 DEF ApprovalsProper
  <2>5. LoadedOK' /\ NeverExpired'
    BY <1>0, <2>2 DEF LoadedOK, NeverExpired, TypeOK
  <2> QED
    BY <2>3, <2>4, <2>5
<1>2. ASSUME NEW s \in Submitters, NEW a \in Ids, SubmitLoad(s, a) PROVE Goal
  BY <1>0, <1>2, RowsUnchanged DEF SubmitLoad, LoadedOK, TypeOK
<1>3. ASSUME NEW s \in Submitters, SubmitCommit(s) PROVE Goal
  <2> DEFINE a == submit[s]
  <2>1. /\ a \in Ids
        /\ \A b \in Ids : b # a => approvals'[b] = approvals[b] /\ status'[b] = status[b]
        /\ status'[a] = "pending_approval"
        /\ content' = content /\ revoke' = revoke
        /\ \A t \in Submitters : submit'[t] # NoId => submit'[t] = submit[t]
    BY <1>0, <1>3, SubmitEffect DEF SubmitCommit, TypeOK
  <2>2. /\ Len(approvals[a]) \in Nat /\ DOMAIN approvals[a] = 1..Len(approvals[a])
        /\ Len(approvals'[a]) = Len(approvals[a]) + 1
        /\ DOMAIN approvals'[a] = 1..(Len(approvals[a]) + 1)
        /\ \A i \in 1..Len(approvals[a]) : approvals'[a][i] = approvals[a][i]
        /\ approvals'[a][Len(approvals[a]) + 1].decision = Open
    BY <1>0, <1>3, <2>1, SubmitEffect DEF TypeOK, OpenApproval
  <2> HIDE DEF a
  <2>3. StatusMatchesApprovals'
    <3> SUFFICES ASSUME NEW b \in Ids PROVE StatusMatchesApprovals!(b)'
      BY DEF StatusMatchesApprovals
    <3>1. CASE b = a
      BY <2>1, <2>2, <3>1 DEF Latest
    <3>2. CASE b # a
      BY <1>0, <2>1, <3>2 DEF StatusMatchesApprovals, Latest
    <3> QED
      BY <3>1, <3>2
  <2>4. ApprovalsProper'
    BY <1>0, <2>1, <2>2 DEF ApprovalsProper, Open
  <2>5. LoadedOK'
    <3>1. \A t \in Submitters : submit'[t] # NoId => status'[submit'[t]] # "absent"
      BY <1>0, <2>1 DEF LoadedOK, TypeOK
    <3>2. ASSUME NEW r \in Revokers, revoke'[r] # NoId
          PROVE  /\ status'[revoke'[r]] # "absent"
                 /\ \E i \in DOMAIN approvals'[revoke'[r]] :
                      approvals'[revoke'[r]][i].decision = "approved"
      <4>1. revoke[r] \in Ids /\ revoke'[r] = revoke[r]
        BY <1>0, <2>1, <3>2 DEF TypeOK
      <4>2. status[revoke[r]] # "absent"
        BY <1>0, <3>2, <4>1 DEF LoadedOK
      <4>3. PICK i \in DOMAIN approvals[revoke[r]] : approvals[revoke[r]][i].decision = "approved"
        BY <1>0, <3>2, <4>1 DEF LoadedOK
      <4>4. i \in DOMAIN approvals'[revoke[r]] /\ approvals'[revoke[r]][i].decision = "approved"
        BY <2>1, <2>2, <4>1, <4>3
      <4> QED
        BY <2>1, <4>1, <4>2, <4>4
    <3> QED
      BY <3>1, <3>2 DEF LoadedOK
  <2>6. NeverExpired'
    BY <1>0, <2>1 DEF NeverExpired
  <2> QED
    BY <2>3, <2>4, <2>5, <2>6
<1>4. ASSUME NEW u \in Users, NEW a \in Ids, NEW d \in {"approved", "rejected"}, Decide(u, a, d)
      PROVE Goal
  <2>0. NewestDecided(u, a, d)
    BY <1>0, <1>4, DecideEffect
  <2>1. /\ \A b \in Ids : b # a => approvals'[b] = approvals[b] /\ status'[b] = status[b]
        /\ status'[a] = IF d = "approved" THEN "active" ELSE "rejected"
        /\ content' = content /\ revoke' = revoke /\ submit' = submit
    BY <1>0, <1>4, <2>0 DEF Decide, TypeOK, NewestDecided
  <2>2. /\ Len(approvals[a]) \in Nat \ {0} /\ DOMAIN approvals[a] = 1..Len(approvals[a])
        /\ Len(approvals'[a]) = Len(approvals[a])
        /\ DOMAIN approvals'[a] = 1..Len(approvals[a])
        /\ \A i \in 1..Len(approvals[a]) : i # Len(approvals[a]) =>
             approvals'[a][i] = approvals[a][i]
        /\ approvals[a][Len(approvals[a])].decision = Open
        /\ approvals'[a][Len(approvals[a])].decision = d
        /\ approvals'[a][Len(approvals[a])].approver = u
    BY <2>0 DEF NewestDecided
  <2>3. StatusMatchesApprovals'
    <3> SUFFICES ASSUME NEW b \in Ids PROVE StatusMatchesApprovals!(b)'
      BY DEF StatusMatchesApprovals
    <3>1. CASE b = a
      <4>1. Len(approvals'[a]) # 0 /\ approvals'[a] # <<>>
        BY <2>2
      <4>2. Latest(a)'.decision = d
        BY <2>2 DEF Latest
      <4> QED
        BY <2>1, <3>1, <4>1, <4>2
    <3>2. CASE b # a
      BY <1>0, <2>1, <3>2 DEF StatusMatchesApprovals, Latest
    <3> QED
      BY <3>1, <3>2
  <2>4. ApprovalsProper'
    <3>1. \/ content[a].classes \cap StrongClasses = {}
          \/ u \in StrongApprovers
      BY <1>4 DEF Decide, MayDecide
    <3>2. u # content[a].requester
      BY <1>4 DEF Decide, MayDecide
    <3> QED
      BY <1>0, <2>1, <2>2, <3>1, <3>2 DEF ApprovalsProper
  <2>5. LoadedOK'
    <3>1. \A t \in Submitters : submit'[t] # NoId => status'[submit'[t]] # "absent"
      BY <1>0, <2>1 DEF LoadedOK, TypeOK
    <3>2. ASSUME NEW r \in Revokers, revoke'[r] # NoId
          PROVE  /\ status'[revoke'[r]] # "absent"
                 /\ \E i \in DOMAIN approvals'[revoke'[r]] :
                      approvals'[revoke'[r]][i].decision = "approved"
      <4>1. revoke[r] \in Ids /\ revoke'[r] = revoke[r]
        BY <1>0, <2>1, <3>2 DEF TypeOK
      <4>2. status[revoke[r]] # "absent"
        BY <1>0, <3>2, <4>1 DEF LoadedOK
      <4>3. PICK i \in DOMAIN approvals[revoke[r]] : approvals[revoke[r]][i].decision = "approved"
        BY <1>0, <3>2, <4>1 DEF LoadedOK
      <4>4. i \in DOMAIN approvals'[revoke[r]] /\ approvals'[revoke[r]][i].decision = "approved"
        BY <2>1, <2>2, <4>1, <4>3 DEF Open
      <4> QED
        BY <2>1, <4>1, <4>2, <4>4
    <3> QED
      BY <3>1, <3>2 DEF LoadedOK
  <2>6. NeverExpired'
    BY <1>0, <2>1 DEF NeverExpired
  <2> QED
    BY <2>3, <2>4, <2>5, <2>6
<1>5. ASSUME NEW r \in Revokers, NEW a \in Ids, RevokeLoad(r, a) PROVE Goal
  <2>1. Len(approvals[a]) \in DOMAIN approvals[a] /\ Latest(a).decision = "approved"
    <3>1. approvals[a] \in Seq(Approval) /\ approvals[a] # <<>> /\ Latest(a).decision = "approved"
      BY <1>0, <1>5 DEF RevokeLoad, StatusMatchesApprovals, TypeOK
    <3> QED
      BY <3>1
  <2>2. LoadedOK'
    BY <1>0, <1>5, <2>1 DEF RevokeLoad, LoadedOK, TypeOK, Latest
  <2> QED
    BY <1>5, <2>2, RowsUnchanged DEF RevokeLoad
<1>6. ASSUME NEW r \in Revokers, RevokeCommit(r) PROVE Goal
  <2> DEFINE a == revoke[r]
  <2>1. /\ a \in Ids
        /\ \A b \in Ids : b # a => status'[b] = status[b]
        /\ status'[a] = "revoked"
        /\ content' = content /\ submit' = submit /\ approvals' = approvals
        /\ \A t \in Revokers : revoke'[t] # NoId => revoke'[t] = revoke[t]
        /\ \E i \in DOMAIN approvals[a] : approvals[a][i].decision = "approved"
    BY <1>0, <1>6 DEF RevokeCommit, TypeOK, LoadedOK
  <2> HIDE DEF a
  <2>2. StatusMatchesApprovals'
    BY <1>0, <2>1 DEF StatusMatchesApprovals, Latest
  <2>3. ApprovalsProper' /\ NeverExpired'
    BY <1>0, <2>1 DEF ApprovalsProper, NeverExpired
  <2>4. LoadedOK'
    BY <1>0, <2>1 DEF LoadedOK, TypeOK
  <2> QED
    BY <2>2, <2>3, <2>4
<1>7. CASE \/ UNCHANGED vars \/ Tick
           \/ \E e \in Evaluators : EvalStart(e) \/ EvalDecide(e) \/ EvalRecord(e)
  <2>1. UNCHANGED <<status, content, approvals, submit, revoke>>
    BY <1>7 DEF vars, Tick, EvalStart, EvalDecide, EvalRecord
  <2> QED
    BY <1>0, <2>1, RowsUnchanged DEF LoadedOK
<1> QED
  BY <1>1, <1>2, <1>3, <1>4, <1>5, <1>6, <1>7 DEF Next

(* Only create() writes a scope, and it has verified it.                   *)
LEMMA ScopeStep == Inv /\ [Next]_vars => ScopeOwned'
<1> SUFFICES ASSUME Inv, [Next]_vars PROVE ScopeOwned'
  OBVIOUS
<1>1. ASSUME NEW a \in Ids, Create(a) PROVE ScopeOwned'
  BY <1>1 DEF Create, Inv, TypeOK, ScopeOwned
<1>2. (\E a \in Ids : Create(a)) \/ content' = content
  BY DEF Next, SubmitLoad, SubmitCommit, Decide, RevokeLoad, RevokeCommit, EvalStart,
         EvalDecide, EvalRecord, Tick, vars
<1> QED
  BY <1>1, <1>2 DEF Inv, ScopeOwned

LEMMA InvStep == Inv /\ [Next]_vars => Inv'
BY TypeStep, HistoryStep, ScopeStep DEF Inv

(* Every reachable state is well typed, and its approval rows agree with   *)
(* its statuses.                                                           *)
THEOREM AuthorizationsWellTyped == Spec => []TypeOK
<1>1. Inv => TypeOK
  BY DEF Inv
<1> QED
  BY InitInv, InvStep, <1>1, PTL DEF Spec

THEOREM ApprovalHistory == Spec => []StatusMatchesApprovals
<1>1. Inv => StatusMatchesApprovals
  BY DEF Inv
<1> QED
  BY InitInv, InvStep, <1>1, PTL DEF Spec

-----------------------------------------------------------------------------
(* The policy engine.                                                      *)

(* Approval rows only accumulate: a decided row stays where it is.         *)
LEMMA RowsGrow ==
  ASSUME Inv, [Next]_vars, NEW a \in Ids
  PROVE  /\ Len(approvals[a]) \in Nat /\ DOMAIN approvals[a] = 1..Len(approvals[a])
         /\ Len(approvals'[a]) \in Nat /\ DOMAIN approvals'[a] = 1..Len(approvals'[a])
         /\ Len(approvals[a]) <= Len(approvals'[a])
         /\ \A i \in DOMAIN approvals[a] : Decided(a, i) => approvals'[a][i] = approvals[a][i]
<1>0. approvals[a] \in Seq(Approval) /\ approvals'[a] \in Seq(Approval)
  BY TypeStep DEF Inv, TypeOK
<1>1. /\ Len(approvals[a]) \in Nat /\ DOMAIN approvals[a] = 1..Len(approvals[a])
      /\ Len(approvals'[a]) \in Nat /\ DOMAIN approvals'[a] = 1..Len(approvals'[a])
  BY <1>0
<1>2. ASSUME NEW s \in Submitters, SubmitCommit(s)
      PROVE  /\ Len(approvals[a]) <= Len(approvals'[a])
             /\ \A i \in DOMAIN approvals[a] : approvals'[a][i] = approvals[a][i]
  <2>1. CASE submit[s] = a
    BY <1>1, <1>2, <2>1, SubmitEffect DEF Inv
  <2>2. CASE submit[s] # a
    BY <1>1, <1>2, <2>2, SubmitEffect DEF Inv
  <2> QED
    BY <2>1, <2>2
<1>3. ASSUME NEW u \in Users, NEW b \in Ids, NEW d \in {"approved", "rejected"}, Decide(u, b, d)
      PROVE  /\ Len(approvals[a]) <= Len(approvals'[a])
             /\ \A i \in DOMAIN approvals[a] : Decided(a, i) => approvals'[a][i] = approvals[a][i]
  <2>0. NewestDecided(u, b, d)
    BY <1>3, DecideEffect DEF Inv
  <2>1. CASE b = a
    BY <1>1, <2>0, <2>1 DEF Decided, NewestDecided
  <2>2. CASE b # a
    BY <1>1, <2>0, <2>2 DEF NewestDecided
  <2> QED
    BY <2>1, <2>2
<1>4. \/ \E s \in Submitters : SubmitCommit(s)
      \/ \E u \in Users, b \in Ids, d \in {"approved", "rejected"} : Decide(u, b, d)
      \/ approvals' = approvals
  BY DEF Next, Create, SubmitLoad, RevokeLoad, RevokeCommit, EvalStart, EvalDecide,
         EvalRecord, Tick, vars
<1> QED
  BY <1>1, <1>2, <1>3, <1>4

(* What a step does to the status of an authorization that has ended.      *)
LEMMA EndedStep ==
  ASSUME Inv, [Next]_vars, NEW a \in Ids, status[a] \in Terminal
  PROVE  status'[a] \in Terminal \/ Len(approvals[a]) < Len(approvals'[a])
<1>1. ASSUME NEW s \in Submitters, SubmitCommit(s) PROVE
        status'[a] \in Terminal \/ Len(approvals[a]) < Len(approvals'[a])
  <2>1. CASE submit[s] = a
    <3>1. Len(approvals'[a]) = Len(approvals[a]) + 1 /\ Len(approvals[a]) \in Nat
      BY <1>1, <2>1, SubmitEffect DEF Inv, TypeOK
    <3> QED
      BY <3>1
  <2>2. CASE submit[s] # a
    BY <1>1, <2>2 DEF SubmitCommit, Inv, TypeOK
  <2> QED
    BY <2>1, <2>2
<1>2. ASSUME NEW r \in Revokers, RevokeCommit(r) PROVE status'[a] \in Terminal
  BY <1>2 DEF RevokeCommit, Terminal, Inv, TypeOK
<1>3. ASSUME NEW u \in Users, NEW b \in Ids, NEW d \in {"approved", "rejected"}, Decide(u, b, d)
      PROVE status'[a] = status[a]
  BY <1>3 DEF Decide, Terminal, Inv, TypeOK
<1>4. ASSUME NEW b \in Ids, Create(b) PROVE status'[a] = status[a]
  BY <1>4 DEF Create, Terminal, Inv, TypeOK
<1>5. \/ \E s \in Submitters : SubmitCommit(s)
      \/ \E r \in Revokers : RevokeCommit(r)
      \/ \E u \in Users, b \in Ids, d \in {"approved", "rejected"} : Decide(u, b, d)
      \/ \E b \in Ids : Create(b)
      \/ status' = status
  BY DEF Next, SubmitLoad, RevokeLoad, EvalStart, EvalDecide, EvalRecord, Tick, vars
<1> QED
  BY <1>1, <1>2, <1>3, <1>4, <1>5

(* How the record of an evaluate() call changes.                           *)
LEMMA EvalMoves ==
  ASSUME Inv, [Next]_vars, NEW e \in Evaluators
  PROVE  \/ eval'[e] = eval[e]
         \/ eval'[e].stage = "idle"
         \/ /\ eval'[e].stage = "started"
            /\ eval'[e].ended = {a \in Ids : status[a] \in Terminal}
            /\ UNCHANGED <<status, content, approvals>>
         \/ /\ eval[e].stage = "started" /\ eval'[e].stage = "decided"
            /\ eval'[e].request = eval[e].request
            /\ eval'[e].now = eval[e].now
            /\ eval'[e].ended = eval[e].ended
            /\ eval'[e].answer \in AnswersOf(eval[e], Owned) \cup AnswersOf(eval[e], Entities)
            /\ UNCHANGED <<status, content, approvals>>
<1>1. eval \in [Evaluators -> {IdleEval} \cup StartedEval \cup DecidedEval]
  BY DEF Inv, TypeOK
<1>2. CASE \E f \in Evaluators : EvalStart(f)
  BY <1>1, <1>2 DEF EvalStart
<1>3. ASSUME NEW f \in Evaluators, EvalDecide(f)
      PROVE  f = e => /\ eval[e].stage = "started" /\ eval'[e].stage = "decided"
                      /\ eval'[e].request = eval[e].request
                      /\ eval'[e].now = eval[e].now
                      /\ eval'[e].ended = eval[e].ended
                      /\ eval'[e].answer \in AnswersOf(eval[e], Owned) \cup AnswersOf(eval[e], Entities)
                      /\ UNCHANGED <<status, content, approvals>>
  <2>1. PICK x \in AnswersOf(eval[f], Owned) \cup AnswersOf(eval[f], Entities) :
          eval' = [eval EXCEPT ![f] =
                     [stage |-> "decided", request |-> eval[f].request, now |-> eval[f].now,
                      ended |-> eval[f].ended, answer |-> x]]
    BY <1>3 DEF EvalDecide, AnswersOf
  <2>2. f = e => eval'[e] = [stage |-> "decided", request |-> eval[e].request,
                             now |-> eval[e].now, ended |-> eval[e].ended, answer |-> x]
    BY <1>1, <2>1
  <2> QED
    BY <1>3, <2>1, <2>2 DEF EvalDecide
<1>4. ASSUME NEW f \in Evaluators, EvalDecide(f)
      PROVE  f # e => eval'[e] = eval[e]
  BY <1>1, <1>4 DEF EvalDecide
<1>5. CASE \E f \in Evaluators : EvalRecord(f)
  BY <1>1, <1>5 DEF EvalRecord, IdleEval
<1>6. \/ \E f \in Evaluators : EvalStart(f) \/ EvalDecide(f) \/ EvalRecord(f)
      \/ eval' = eval
  BY DEF Next, Create, SubmitLoad, SubmitCommit, Decide, RevokeLoad, RevokeCommit, Tick, vars
<1> QED
  BY <1>2, <1>3, <1>4, <1>5, <1>6

LEMMA EndedOKStep == Inv /\ EndedOK /\ [Next]_vars => EndedOK'
<1> SUFFICES ASSUME Inv, EndedOK, [Next]_vars, NEW e \in Evaluators, eval'[e].stage # "idle",
                    NEW a \in eval'[e].ended
             PROVE  \E i \in DOMAIN approvals'[a] :
                      Decided(a, i)' /\ (status'[a] \in Terminal \/ i < Len(approvals'[a]))
  BY DEF EndedOK
<1>1. CASE eval'[e].stage = "started" /\ eval'[e].ended = {b \in Ids : status[b] \in Terminal}
           /\ UNCHANGED <<status, content, approvals>>
  <2>1. a \in Ids /\ status[a] \in {"rejected", "revoked"}
    BY <1>1 DEF Terminal, Inv, NeverExpired
  <2>2. \E i \in DOMAIN approvals[a] : Decided(a, i)
    <3>1. CASE status[a] = "revoked"
      BY <2>1, <3>1 DEF Inv, StatusMatchesApprovals, Decided, Open
    <3>2. CASE status[a] = "rejected"
      <4>1. approvals[a] \in Seq(Approval) /\ approvals[a] # <<>>
        BY <2>1, <3>2 DEF Inv, StatusMatchesApprovals, TypeOK
      <4>2. Len(approvals[a]) \in DOMAIN approvals[a]
        BY <4>1
      <4>3. approvals[a][Len(approvals[a])].decision = "rejected"
        BY <2>1, <3>2 DEF Inv, StatusMatchesApprovals, Latest
      <4> QED
        BY <4>2, <4>3 DEF Decided, Open
    <3> QED
      BY <2>1, <3>1, <3>2
  <2> QED
    BY <1>1, <2>1, <2>2 DEF Decided
<1>2. CASE eval[e].stage # "idle" /\ eval'[e].ended = eval[e].ended
  <2>1. a \in Ids
    BY <1>2 DEF Inv, TypeOK, StartedEval, DecidedEval, IdleEval
  <2>2. PICK i \in DOMAIN approvals[a] :
          Decided(a, i) /\ (status[a] \in Terminal \/ i < Len(approvals[a]))
    BY <1>2 DEF EndedOK
  <2>3. /\ Len(approvals[a]) \in Nat /\ DOMAIN approvals[a] = 1..Len(approvals[a])
        /\ Len(approvals'[a]) \in Nat /\ DOMAIN approvals'[a] = 1..Len(approvals'[a])
        /\ Len(approvals[a]) <= Len(approvals'[a])
        /\ approvals'[a][i] = approvals[a][i]
    BY <2>1, <2>2, RowsGrow
  <2>4. i \in DOMAIN approvals'[a] /\ Decided(a, i)'
    BY <2>2, <2>3 DEF Decided
  <2>5. status'[a] \in Terminal \/ i < Len(approvals'[a])
    BY <2>1, <2>2, <2>3, EndedStep
  <2> QED
    BY <2>4, <2>5
<1> QED
  BY <1>1, <1>2, EvalMoves

(* An approval that was proper stays proper.                               *)
LEMMA ProperStep ==
  ASSUME Inv, [Next]_vars, NEW a \in Ids, approvals[a] # <<>>
  PROVE  /\ content'[a] = content[a]
         /\ ProperRows(approvals[a], content[a]) => ProperRows(approvals'[a], content'[a])
<1>1. status[a] # "absent"
  BY DEF Inv, StatusMatchesApprovals
<1>2. content'[a] = content[a]
  <2>1. ASSUME NEW b \in Ids, Create(b) PROVE content'[a] = content[a]
    BY <1>1, <2>1 DEF Create, Inv, TypeOK
  <2>2. (\E b \in Ids : Create(b)) \/ content' = content
    BY DEF Next, SubmitLoad, SubmitCommit, Decide, RevokeLoad, RevokeCommit, EvalStart,
           EvalDecide, EvalRecord, Tick, vars
  <2> QED
    BY <2>1, <2>2
<1>3. ASSUME ProperRows(approvals[a], content[a]) PROVE ProperRows(approvals'[a], content'[a])
  <2>1. PICK i \in DOMAIN approvals[a] :
          /\ approvals[a][i].decision = "approved"
          /\ approvals[a][i].approver # content[a].requester
          /\ \/ content[a].classes \cap StrongClasses = {}
             \/ approvals[a][i].approver \in StrongApprovers
    BY <1>3 DEF ProperRows
  <2>2. i \in DOMAIN approvals'[a] /\ approvals'[a][i] = approvals[a][i]
    BY <2>1, RowsGrow DEF Decided, Open
  <2> QED
    BY <1>2, <2>1, <2>2 DEF ProperRows
<1> QED
  BY <1>2, <1>3

LEMMA AllowStep == Inv /\ AllowJustified /\ [Next]_vars => AllowJustified'
<1> SUFFICES ASSUME Inv, AllowJustified, [Next]_vars, NEW e \in Evaluators,
                    eval'[e].stage = "decided", eval'[e].answer.decision = "allow"
             PROVE  LET v == eval'[e]
                        a == v.answer.authorization
                    IN  /\ a \in Ids
                        /\ v.request.class \in content'[a].classes \ CategoricallyDenied
                        /\ v.request.refs \subseteq content'[a].scope \cap Owned
                        /\ content'[a].from <= v.now /\ v.now < content'[a].until
                        /\ ProperRows(approvals'[a], content'[a])
  BY DEF AllowJustified, ProperlyApproved, ProperRows
<1> DEFINE a == eval'[e].answer.authorization
<1>1. CASE eval'[e] = eval[e]
  <2>1. /\ a \in Ids
        /\ eval[e].request.class \in content[a].classes \ CategoricallyDenied
        /\ eval[e].request.refs \subseteq content[a].scope \cap Owned
        /\ content[a].from <= eval[e].now /\ eval[e].now < content[a].until
        /\ ProperRows(approvals[a], content[a])
    BY <1>1 DEF AllowJustified, ProperlyApproved, ProperRows
  <2>2. approvals[a] # <<>>
    BY <2>1 DEF ProperRows
  <2> QED
    BY <1>1, <2>1, <2>2, ProperStep
<1>2. CASE /\ eval[e].stage = "started" /\ eval'[e].stage = "decided"
           /\ eval'[e].request = eval[e].request
           /\ eval'[e].now = eval[e].now
           /\ eval'[e].answer \in AnswersOf(eval[e], Owned) \cup AnswersOf(eval[e], Entities)
           /\ UNCHANGED <<status, content, approvals>>
  <2>1. /\ a \in Ids /\ status[a] = "active"
        /\ eval[e].request.class \in content[a].classes \ CategoricallyDenied
        /\ eval[e].request.refs \subseteq content[a].scope \cap Owned
        /\ content[a].from <= eval[e].now /\ eval[e].now < content[a].until
    BY <1>2, EvaluateAllow DEF Inv, Contains, AnswersOf
  <2>2. ProperRows(approvals[a], content[a])
    <3>1. approvals[a] \in Seq(Approval) /\ approvals[a] # <<>>
      BY <2>1 DEF Inv, StatusMatchesApprovals, TypeOK
    <3>2. Len(approvals[a]) \in DOMAIN approvals[a]
      BY <3>1
    <3>3. approvals[a][Len(approvals[a])].decision = "approved"
      BY <2>1 DEF Inv, StatusMatchesApprovals, Latest
    <3> QED
      BY <2>1, <3>2, <3>3 DEF Inv, ApprovalsProper, ProperRows
  <2>3. ProperRows(approvals'[a], content'[a])
    BY <1>2, <2>2
  <2> QED
    BY <1>2, <2>1, <2>3
<1> QED
  BY <1>1, <1>2, EvalMoves

(* The gate is sound, whoever races whom: every ALLOW of evaluate() names  *)
(* an authorization that covers the request, in its window, approved by a  *)
(* second person with sufficient permission.                               *)
THEOREM GateIsSound == Spec => []AllowJustified
<1>1. Init => AllowJustified
  BY DEF Init, AllowJustified, IdleEval
<1> QED
  BY <1>1, InitInv, InvStep, AllowStep, PTL DEF Spec

LEMMA EndedDenyStep == Inv /\ EndedOK /\ EndedStaysDenied /\ [Next]_vars => EndedStaysDenied'
<1> SUFFICES ASSUME Inv, EndedOK, EndedStaysDenied, [Next]_vars, NEW e \in Evaluators,
                    eval'[e].stage = "decided", eval'[e].answer.decision = "allow",
                    eval'[e].answer.authorization \in eval'[e].ended
             PROVE  LET a == eval'[e].answer.authorization IN
                    \E i, j \in DOMAIN approvals'[a] :
                      i < j /\ approvals'[a][i].decision # Open /\ approvals'[a][j].decision = "approved"
  BY DEF EndedStaysDenied
<1> DEFINE a == eval'[e].answer.authorization
<1>0. a \in Ids
  <2>1. eval'[e] \in DecidedEval
    BY TypeStep DEF TypeOK, StartedEval, IdleEval
  <2> QED
    BY <2>1 DEF DecidedEval
<1>1. CASE eval'[e] = eval[e]
  <2>1. PICK i, j \in DOMAIN approvals[a] :
          i < j /\ approvals[a][i].decision # Open /\ approvals[a][j].decision = "approved"
    BY <1>1 DEF EndedStaysDenied
  <2>2. /\ i \in DOMAIN approvals'[a] /\ approvals'[a][i] = approvals[a][i]
        /\ j \in DOMAIN approvals'[a] /\ approvals'[a][j] = approvals[a][j]
    BY <1>0, <2>1, RowsGrow DEF Decided, Open
  <2> QED
    BY <2>1, <2>2
<1>2. CASE /\ eval[e].stage = "started" /\ eval'[e].stage = "decided"
           /\ eval'[e].ended = eval[e].ended
           /\ eval'[e].answer \in AnswersOf(eval[e], Owned) \cup AnswersOf(eval[e], Entities)
           /\ UNCHANGED <<status, content, approvals>>
  <2>1. status[a] = "active"
    BY <1>2, EvaluateAllow DEF Inv, AnswersOf
  <2>2. PICK i \in DOMAIN approvals[a] :
          Decided(a, i) /\ (status[a] \in Terminal \/ i < Len(approvals[a]))
    BY <1>2 DEF EndedOK
  <2>3. i < Len(approvals[a])
    BY <2>1, <2>2 DEF Terminal
  <2>4. approvals[a] \in Seq(Approval) /\ approvals[a] # <<>>
    BY <1>0, <2>1 DEF Inv, StatusMatchesApprovals, TypeOK
  <2>5. Len(approvals[a]) \in DOMAIN approvals[a]
    BY <2>4
  <2>6. approvals[a][Len(approvals[a])].decision = "approved"
    BY <1>0, <2>1 DEF Inv, StatusMatchesApprovals, Latest
  <2>7. approvals'[a] = approvals[a]
    BY <1>2
  <2> HIDE DEF a
  <2>8. \E x, y \in DOMAIN approvals'[a] :
          x < y /\ approvals'[a][x].decision # Open /\ approvals'[a][y].decision = "approved"
    BY <2>2, <2>3, <2>5, <2>6, <2>7 DEF Decided
  <2> QED
    BY <2>8 DEF a
<1> QED
  BY <1>1, <1>2, EvalMoves

(* Time of use: an authorization that had ended when evaluate() was called *)
(* does not allow, unless it was submitted and approved again.             *)
THEOREM EndedIsDenied == Spec => []EndedStaysDenied
<1>1. Init => EndedStaysDenied
  BY DEF Init, EndedStaysDenied, IdleEval
<1> QED
  BY <1>1, InitInv, InvStep, EndedOKStep, EndedDenyStep, PTL DEF Spec

(* Approval history is immutable once decided.                             *)
THEOREM DecidedForGood == Spec => DecisionsImmutable
<1>1. Inv /\ [Next]_vars =>
        [\A a \in Ids : \A i \in DOMAIN approvals[a] :
           approvals[a][i].decision # Open =>
             i \in DOMAIN approvals'[a] /\ approvals'[a][i] = approvals[a][i]]_vars
  <2> SUFFICES ASSUME Inv, [Next]_vars, NEW a \in Ids, NEW i \in DOMAIN approvals[a],
                      approvals[a][i].decision # Open
               PROVE  i \in DOMAIN approvals'[a] /\ approvals'[a][i] = approvals[a][i]
    OBVIOUS
  <2> QED
    BY RowsGrow DEF Decided
<1> QED
  BY <1>1, InitInv, InvStep, PTL DEF Spec, DecisionsImmutable

-----------------------------------------------------------------------------
(* The missing lock.                                                       *)

(* With at most one submit_for_approval() call at a time, what it loaded is*)
(* still a draft when it commits, and revoke() only overwrites what it may.*)
LoadedIsCurrent ==
  /\ \A s \in Submitters : submit[s] # NoId => status[submit[s]] = "draft"
  /\ \A r \in Revokers : revoke[r] # NoId => status[revoke[r]] \in {"active", "revoked"}

LEMMA LoadedIsCurrentStep ==
  ASSUME \A s, t \in Submitters : s = t, Inv, LoadedIsCurrent, [Next]_vars
  PROVE  LoadedIsCurrent' /\ \A a \in Ids : status[a] \in Terminal => status'[a] = status[a]
<1> DEFINE Goal == LoadedIsCurrent' /\ \A a \in Ids : status[a] \in Terminal => status'[a] = status[a]
<1>0. TypeOK
  BY DEF Inv
<1>1. ASSUME NEW a \in Ids, Create(a) PROVE Goal
  BY <1>0, <1>1 DEF Create, LoadedIsCurrent, TypeOK, Terminal
<1>2. ASSUME NEW s \in Submitters, NEW a \in Ids, SubmitLoad(s, a) PROVE Goal
  BY <1>0, <1>2 DEF SubmitLoad, LoadedIsCurrent, TypeOK
<1>3. ASSUME NEW s \in Submitters, SubmitCommit(s) PROVE Goal
  <2>1. \A t \in Submitters : submit'[t] = NoId
    BY <1>0, <1>3 DEF SubmitCommit, TypeOK
  <2>2. status[submit[s]] = "draft" /\ submit[s] \in Ids
    BY <1>0, <1>3 DEF SubmitCommit, LoadedIsCurrent, TypeOK
  <2> QED
    BY <1>0, <1>3, <2>1, <2>2 DEF SubmitCommit, LoadedIsCurrent, TypeOK, Terminal
<1>4. ASSUME NEW u \in Users, NEW a \in Ids, NEW d \in {"approved", "rejected"}, Decide(u, a, d)
      PROVE Goal
  BY <1>0, <1>4 DEF Decide, LoadedIsCurrent, TypeOK, Terminal
<1>5. ASSUME NEW r \in Revokers, NEW a \in Ids, RevokeLoad(r, a) PROVE Goal
  BY <1>0, <1>5 DEF RevokeLoad, LoadedIsCurrent, TypeOK
<1>6. ASSUME NEW r \in Revokers, RevokeCommit(r) PROVE Goal
  BY <1>0, <1>6 DEF RevokeCommit, LoadedIsCurrent, TypeOK, Terminal
<1>7. CASE \/ UNCHANGED vars \/ Tick
           \/ \E e \in Evaluators : EvalStart(e) \/ EvalDecide(e) \/ EvalRecord(e)
  <2>1. UNCHANGED <<status, submit, revoke>>
    BY <1>7 DEF vars, Tick, EvalStart, EvalDecide, EvalRecord
  <2> QED
    BY <2>1 DEF LoadedIsCurrent
<1> QED
  BY <1>1, <1>2, <1>3, <1>4, <1>5, <1>6, <1>7 DEF Next

(* If submissions are serialized, as a row lock in submit_for_approval()   *)
(* would make them, rejected and revoked authorizations stay so.           *)
THEOREM EndIsFinalIfSerialized ==
  ASSUME \A s, t \in Submitters : s = t
  PROVE  Spec => EndIsFinal
<1>1. Init => LoadedIsCurrent
  BY DEF Init, LoadedIsCurrent
<1>2. Inv /\ LoadedIsCurrent /\ [Next]_vars => LoadedIsCurrent'
  BY LoadedIsCurrentStep
<1>3. Inv /\ LoadedIsCurrent /\ [Next]_vars =>
        [\A a \in Ids : status[a] \in Terminal => status'[a] = status[a]]_vars
  BY LoadedIsCurrentStep
<1> QED
  BY <1>1, <1>2, <1>3, InitInv, InvStep, PTL DEF Spec, EndIsFinal
=============================================================================
