CONSTANTS
  a1 = a1
  a2 = a2
  q1 = q1
  q2 = q2
  l1 = l1
  Stays = {s1}
  Auths = {a1, a2}
  Locks = {l1, l2}
  None = None
  MaxCred = 2
  MaxVer = 1
  Requests = {q1, q2}
  Workers = {w1}
  Ops = {"generate", "long name", "revoke", "edit", "cleanup", "expire", "import", "rebind", "sync", "abort", "restart", "drop"}
  Answers = {"accepted", "lost", "refused"}
  ReviewRevision = 2
  MaxRev = 5
SYMMETRY Symmetry
SPECIFICATION MCSpec
INVARIANTS IdentityIsObserved DeletedIsGone OneClientOneAuthorization
PROPERTY ImplementsManagedCredential
CHECK_DEADLOCK FALSE
