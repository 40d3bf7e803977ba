---------------------------- MODULE Authorization ----------------------------
(***************************************************************************)
(* Security authorizations and the execution policy engine (M10).          *)
(*                                                                         *)
(* A requester drafts an authorization (action classes, scope, validity    *)
(* window) and submits it; somebody else approves or rejects it; an active *)
(* one may be revoked.  ExecutionPolicyService.evaluate() is asked before  *)
(* every dispatch whether an action on some entities is allowed.           *)
(*                                                                         *)
(* _decide() reads under a row lock and is one step.  submit_for_approval()*)
(* and revoke() read without one, so each is a load followed by a commit   *)
(* that overwrites the status column, whatever it holds by then.           *)
(*                                                                         *)
(* One organization: every query filters on organization_id.  EXPIRED is   *)
(* never stored: no code calls mark_expired().                             *)
(***************************************************************************)
EXTENDS Integers, Sequences, FiniteSets

CONSTANTS
  MaxAuthorizations, \* bound: authorizations; an id is its rank by created_at
  Users,
  NoUser,            \* approver_user_id is NULL
  StrongApprovers,   \* users with authorizations:approve_credential
  Entities,          \* entity references a caller may name
  Owned,             \* those EntityOwnershipPort confirms for the organization
  Contents,          \* what create() may be called with
  Requests,          \* what evaluate() may be called with
  ActionClasses,
  CategoricallyDenied,
  StrongClasses,     \* _STRONG_APPROVAL_CLASSES
  Submitters,        \* concurrent submit_for_approval() calls
  Revokers,          \* concurrent revoke() calls
  Evaluators,        \* concurrent evaluate() calls
  ListLimit,         \* limit=1000 of _find_all()
  MaxClock,          \* bound: last modelled instant
  MaxApprovals       \* bound: approval rows per authorization

Ids == 1..MaxAuthorizations

NoId == 0

ASSUME ContentsAssumption ==
  Contents \subseteq [requester : Users, classes : SUBSET ActionClasses,
                      scope : SUBSET Entities, from : Nat, until : Nat]
ASSUME RequestsAssumption ==
  Requests \subseteq [class : ActionClasses, refs : SUBSET Entities]
ASSUME AuthorizationBounds ==
  /\ MaxAuthorizations \in Nat
  /\ MaxClock \in Nat
  /\ MaxApprovals \in Nat
  /\ ListLimit \in Nat
ASSUME AuthorizationSets ==
  /\ Owned \subseteq Entities
  /\ StrongApprovers \subseteq Users
  /\ NoUser \notin Users
  /\ CategoricallyDenied \subseteq ActionClasses
  /\ StrongClasses \subseteq ActionClasses

VARIABLES
  clock,      \* utc_now()
  status,     \* security_authorizations.status, per authorization
  content,    \* its requester, action classes, scope and window
  approvals,  \* security_authorization_approvals, in requested_at order
  submit,     \* per submit_for_approval() call: the draft it has loaded
  revoke,     \* per revoke() call: the active authorization it has loaded
  eval        \* per evaluate() call: its arguments, `now` and its decision

vars == <<clock, status, content, approvals, submit, revoke, eval>>

Statuses == {"absent", "draft", "pending_approval", "active", "rejected",
             "revoked", "expired"}

Terminal == {"rejected", "revoked", "expired"}

NoContent == [scope |-> {}, classes |-> {}]

Approval == [decision : {"open", "approved", "rejected"},
             approver : Users \cup {NoUser}]

Open == "open"

Answer == [decision : {"allow", "deny", "approval_required"},
           reason : {"ALLOWED_BY_ACTIVE_AUTHORIZATION", "AUTHORIZATION_NOT_FOUND",
                     "AUTHORIZATION_NOT_ACTIVE", "AUTHORIZATION_EXPIRED",
                     "ACTION_NOT_IN_SCOPE", "ENTITY_NOT_IN_SCOPE",
                     "APPROVAL_REQUIRED", "ACTION_CLASS_DENIED", "TENANT_MISMATCH"},
           authorization : {NoId} \cup Ids]

IdleEval == [stage |-> "idle"]

(* ended: the authorizations that were terminal when the call began; kept  *)
(* for EndedStaysDenied only.                                              *)
StartedEval == [stage : {"started"}, request : Requests, now : Nat, ended : SUBSET Ids]

DecidedEval == [stage : {"decided"}, request : Requests, now : Nat,
                ended : SUBSET Ids, answer : Answer]

TypeOK ==
  /\ clock \in Nat
  /\ status \in [Ids -> Statuses]
  /\ content \in [Ids -> Contents \cup {NoContent}]
  /\ \A a \in Ids : status[a] # "absent" => content[a] \in Contents
  /\ approvals \in [Ids -> Seq(Approval)]
  /\ submit \in [Submitters -> {NoId} \cup Ids]
  /\ revoke \in [Revokers -> {NoId} \cup Ids]
  /\ eval \in [Evaluators -> {IdleEval} \cup StartedEval \cup DecidedEval]

Init ==
  /\ clock = 0
  /\ status = [a \in Ids |-> "absent"]
  /\ content = [a \in Ids |-> NoContent]
  /\ approvals = [a \in Ids |-> <<>>]
  /\ submit = [s \in Submitters |-> NoId]
  /\ revoke = [r \in Revokers |-> NoId]
  /\ eval = [e \in Evaluators |-> IdleEval]

-----------------------------------------------------------------------------
(* The life cycle: SecurityAuthorizationService.                           *)

(* create(): drafts only.  Denied classes, entities of another tenant and  *)
(* an empty window raise.  A row may commit after one created later.       *)
Create(a) ==
  /\ status[a] = "absent"
  /\ \E c \in Contents :
       /\ c.classes \cap CategoricallyDenied = {}
       /\ c.scope \subseteq Owned
       /\ c.until > c.from
       /\ content' = [content EXCEPT ![a] = c]
  /\ status' = [status EXCEPT ![a] = "draft"]
  /\ UNCHANGED <<clock, approvals, submit, revoke, eval>>

(* submit_for_approval(): _load() without a lock, and the aggregate's      *)
(* checks on what was loaded.                                              *)
SubmitLoad(s, a) ==
  /\ submit[s] = NoId
  /\ status[a] = "draft"
  /\ content[a].scope # {}
  /\ content[a].classes # {}
  /\ submit' = [submit EXCEPT ![s] = a]
  /\ UNCHANGED <<clock, status, content, approvals, revoke, eval>>

(* AuthorizationApproval.create(): requested, decided by nobody.           *)
OpenApproval == [decision |-> Open, approver |-> NoUser]

(* Seeded fault: the approval row is not written with the new status.      *)
SubmitCommitWithoutApproval(s) ==
  /\ submit[s] # NoId
  /\ Len(approvals[submit[s]]) < MaxApprovals
  /\ status' = [status EXCEPT ![submit[s]] = "pending_approval"]
  /\ submit' = [submit EXCEPT ![s] = NoId]
  /\ UNCHANGED <<clock, content, approvals, revoke, eval>>

(* ... then the save, which overwrites the status and takes the row lock,  *)
(* and the approval row, in one transaction.                               *)
SubmitCommit(s) ==
  LET a == submit[s] IN
  /\ a # NoId
  /\ Len(approvals[a]) < MaxApprovals
  /\ status' = [status EXCEPT ![a] = "pending_approval"]
  /\ approvals' = [approvals EXCEPT ![a] = Append(@, OpenApproval)]
  /\ submit' = [submit EXCEPT ![s] = NoId]
  /\ UNCHANGED <<clock, content, revoke, eval>>

Latest(a) == approvals[a][Len(approvals[a])]

(* The stronger permission for credential validation, and never one's own. *)
MayDecide(u, a) ==
  /\ content[a].classes \cap StrongClasses = {} \/ u \in StrongApprovers
  /\ u # content[a].requester

(* _decide(): both rows are read FOR UPDATE and written in one             *)
(* transaction; approve() and reject() of the aggregate and decide() of    *)
(* the newest approval row raise, and roll back, unless all agree.         *)
Decide(u, a, decision) ==
  /\ approvals[a] # <<>>
  /\ MayDecide(u, a)
  /\ status[a] = "pending_approval"
  /\ Latest(a).decision = Open
  /\ status' = [status EXCEPT ![a] = IF decision = "approved" THEN "active" ELSE "rejected"]
  /\ approvals' = [approvals EXCEPT ![a][Len(approvals[a])] =
                     [decision |-> decision, approver |-> u]]
  /\ UNCHANGED <<clock, content, submit, revoke, eval>>

(* Seeded fault: the status of the loaded authorization is not checked.    *)
RevokeLoadUnchecked(r, a) ==
  /\ revoke[r] = NoId
  /\ revoke' = [revoke EXCEPT ![r] = a]
  /\ UNCHANGED <<clock, status, content, approvals, submit, eval>>

(* revoke(): _load() without a lock ...                                    *)
RevokeLoad(r, a) ==
  /\ revoke[r] = NoId
  /\ status[a] = "active"
  /\ revoke' = [revoke EXCEPT ![r] = a]
  /\ UNCHANGED <<clock, status, content, approvals, submit, eval>>

(* ... and the save of the loaded aggregate.                               *)
RevokeCommit(r) ==
  /\ revoke[r] # NoId
  /\ status' = [status EXCEPT ![revoke[r]] = "revoked"]
  /\ revoke' = [revoke EXCEPT ![r] = NoId]
  /\ UNCHANGED <<clock, content, approvals, submit, eval>>

-----------------------------------------------------------------------------
(* The policy engine: ExecutionPolicyService.evaluate().                   *)

(* Seeded fault: an authorization is still valid at valid_until.           *)
ContainsClosed(a, now) == content[a].from <= now /\ now <= content[a].until

(* ValidityWindow.contains(): half-open.                                   *)
Contains(a, now) == content[a].from <= now /\ now < content[a].until

(* Seeded fault: whoever was approved once counts as active.               *)
ActiveOnceApproved ==
  {a \in Ids : \E i \in DOMAIN approvals[a] : approvals[a][i].decision = "approved"}

Active == {a \in Ids : status[a] = "active"}

Pending == {a \in Ids : status[a] = "pending_approval"}

(* list_by_organization(limit): the newest rows by created_at.             *)
Listed ==
  LET existing == {a \in Ids : status[a] # "absent"}
  IN  {a \in existing : Cardinality({b \in existing : b > a}) < ListLimit}

NewestOf(S) == {a \in S : \A b \in S : b <= a}

Naming(S, decision, reason) ==
  {[decision |-> decision, reason |-> reason, authorization |-> a] : a \in NewestOf(S)}

(* The one answer, as a singleton: the checks in their order.  Among the   *)
(* covering authorizations the newest ACTIVE one decides alone: outside its*)
(* window the answer is DENY, even if an older active one would allow.     *)
(* `confirmed` holds the entities the ownership checker confirms.          *)
Evaluate(class, refs, now, confirmed) ==
  LET entityMatched == {a \in Listed : refs \subseteq content[a].scope}
      actionMatched == {a \in entityMatched : class \in content[a].classes}
      deciding      == actionMatched \cap Active
  IN  IF class \in CategoricallyDenied THEN Naming({NoId}, "deny", "ACTION_CLASS_DENIED")
      ELSE IF ~(refs \subseteq confirmed) THEN Naming({NoId}, "deny", "TENANT_MISMATCH")
      ELSE IF Listed = {}               THEN Naming({NoId}, "deny", "AUTHORIZATION_NOT_FOUND")
      ELSE IF entityMatched = {}        THEN Naming(Listed, "deny", "ENTITY_NOT_IN_SCOPE")
      ELSE IF actionMatched = {}        THEN Naming(entityMatched, "deny", "ACTION_NOT_IN_SCOPE")
      ELSE IF deciding # {}
      THEN IF \E a \in NewestOf(deciding) : Contains(a, now)
           THEN Naming(deciding, "allow", "ALLOWED_BY_ACTIVE_AUTHORIZATION")
           ELSE Naming(deciding, "deny", "AUTHORIZATION_EXPIRED")
      ELSE IF actionMatched \cap Pending # {}
      THEN Naming(actionMatched \cap Pending, "approval_required", "APPROVAL_REQUIRED")
      ELSE Naming(actionMatched, "deny", "AUTHORIZATION_NOT_ACTIVE")

(* evaluate() fixes `now` when it is called ...                            *)
EvalStart(e) ==
  /\ eval[e].stage = "idle"
  /\ \E q \in Requests :
       eval' = [eval EXCEPT ![e] =
                  [stage |-> "started", request |-> q, now |-> clock,
                   ended |-> {a \in Ids : status[a] \in Terminal}]]
  /\ UNCHANGED <<clock, status, content, approvals, submit, revoke>>

(* ... reads the authorizations after the ownership checks, which only the *)
(* service of the API has a checker for: the one app.py builds for the     *)
(* scheduler passes every entity ...                                       *)
EvalDecide(e) ==
  LET v == eval[e] IN
  /\ v.stage = "started"
  /\ \E confirmed \in {Owned, Entities} :
       \E answer \in Evaluate(v.request.class, v.request.refs, v.now, confirmed) :
         eval' = [eval EXCEPT ![e] =
                    [stage |-> "decided", request |-> v.request, now |-> v.now,
                     ended |-> v.ended, answer |-> answer]]
  /\ UNCHANGED <<clock, status, content, approvals, submit, revoke>>

(* ... and answers once the decision row is committed (_record()).         *)
EvalRecord(e) ==
  /\ eval[e].stage = "decided"
  /\ eval' = [eval EXCEPT ![e] = IdleEval]
  /\ UNCHANGED <<clock, status, content, approvals, submit, revoke>>

Tick ==
  /\ clock < MaxClock
  /\ clock' = clock + 1
  /\ UNCHANGED <<status, content, approvals, submit, revoke, eval>>

Next ==
  \/ \E a \in Ids : Create(a)
  \/ \E s \in Submitters : SubmitCommit(s) \/ \E a \in Ids : SubmitLoad(s, a)
  \/ \E u \in Users, a \in Ids, d \in {"approved", "rejected"} : Decide(u, a, d)
  \/ \E r \in Revokers : RevokeCommit(r) \/ \E a \in Ids : RevokeLoad(r, a)
  \/ \E e \in Evaluators : EvalStart(e) \/ EvalDecide(e) \/ EvalRecord(e)
  \/ Tick

Spec == Init /\ [][Next]_vars

-----------------------------------------------------------------------------
(* Properties.                                                             *)

(* The approval rows tell the same story as the status column, through     *)
(* every race of submissions, decisions and revocations: a draft has none, *)
(* a pending authorization has a newest row that can still be decided (it  *)
(* cannot hang), an active one was approved last, a rejected one rejected  *)
(* last, a revoked one was approved at some time                           *)
(* (submit_for_approval(), _decide(), revoke()).                           *)
StatusMatchesApprovals ==
  \A a \in Ids :
    /\ status[a] \in {"absent", "draft"} => approvals[a] = <<>>
    /\ status[a] \in {"pending_approval", "active", "rejected"} =>
         /\ approvals[a] # <<>>
         /\ status[a] = "pending_approval" => Latest(a).decision = Open
         /\ status[a] = "active" => Latest(a).decision = "approved"
         /\ status[a] = "rejected" => Latest(a).decision = "rejected"
    /\ status[a] = "revoked" =>
         \E i \in DOMAIN approvals[a] : approvals[a][i].decision = "approved"

(* The approval that permits class on authorization a: given by somebody   *)
(* who is not the requester, and with the stronger permission when a grants*)
(* credential validation.                                                  *)
ProperlyApproved(a) ==
  \E i \in DOMAIN approvals[a] :
    /\ approvals[a][i].decision = "approved"
    /\ approvals[a][i].approver # content[a].requester
    /\ \/ content[a].classes \cap StrongClasses = {}
       \/ approvals[a][i].approver \in StrongApprovers

(* The gate is sound: an ALLOW that evaluate() answers names an            *)
(* authorization that grants the class for every entity asked about, inside*)
(* its half-open window at the instant the call began, and that a second   *)
(* person with sufficient permission approved; a categorically denied class*)
(* or a foreign entity is never allowed.                                   *)
AllowJustified ==
  \A e \in Evaluators :
    (eval[e].stage = "decided" /\ eval[e].answer.decision = "allow") =>
      LET v == eval[e]
          a == v.answer.authorization
      IN  /\ a \in Ids
          /\ v.request.class \in content[a].classes \ CategoricallyDenied
          /\ v.request.refs \subseteq content[a].scope \cap Owned
          /\ content[a].from <= v.now /\ v.now < content[a].until
          /\ ProperlyApproved(a)

(* Time of use: an authorization that had been rejected or revoked when    *)
(* evaluate() was called does not allow, unless a second approval request  *)
(* of it was approved (which only a late submit_for_approval() can cause,  *)
(* see EndIsFinal).                                                   *)
EndedStaysDenied ==
  \A e \in Evaluators :
    (eval[e].stage = "decided" /\ eval[e].answer.decision = "allow") =>
      LET a == eval[e].answer.authorization IN
      a \in eval[e].ended =>
        \E i, j \in DOMAIN approvals[a] :
          i < j /\ approvals[a][i].decision # Open /\ approvals[a][j].decision = "approved"

(* A decided approval row is never changed, moved or lost, whoever races   *)
(* whom (AuthorizationApproval.decide(), approval_repository.save()).      *)
DecisionsImmutable ==
  [][\A a \in Ids : \A i \in DOMAIN approvals[a] :
       approvals[a][i].decision # Open =>
         i \in DOMAIN approvals'[a] /\ approvals'[a][i] = approvals[a][i]]_vars

(* A rejected or revoked authorization stays so (entity.py: "There is no   *)
(* transition back to PENDING_APPROVAL or ACTIVE from any terminal state").*)
(* Overlapping submissions break it; see EndIsFinalIfSerialized.           *)
EndIsFinal ==
  [][\A a \in Ids : status[a] \in Terminal => status'[a] = status[a]]_vars
=============================================================================
