SPECIFICATION Spec
CONSTANTS
  alice = alice
  bob = bob
  carol = carol
  NoUser = NoUser
  target = target
  foreign = foreign
  s1 = s1
  s2 = s2
  MaxAuthorizations = 2
  Users = {alice, bob, carol}
  StrongApprovers = {alice, carol}
  Entities = {target, foreign}
  Owned = {target}
  Contents <- MCContents
  Requests <- MCRequests
  ActionClasses = {"safe_validation", "credential_validation", "exploit_execution"}
  CategoricallyDenied = {"exploit_execution"}
  StrongClasses = {"credential_validation"}
  Submitters = {s1, s2}
  Revokers = {r1}
  Evaluators = {e1}
  ListLimit = 2
  MaxClock = 1
  MaxApprovals = 2
CHECK_DEADLOCK FALSE
SYMMETRY SubmitterSymmetry
INVARIANTS TypeOK StatusMatchesApprovals AllowJustified EndedStaysDenied
