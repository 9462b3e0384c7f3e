CONSTANTS
  a1 = a1
  a2 = a2
  q1 = q1
  q2 = q2
  Stays = {s1}
  Auths = {a1}
  Locks = {l1}
  None = None
  MaxCred = 1
  MaxVer = 0
  Requests = {q1}
  Workers = {w1}
  Ops = {"generate", "revoke"}
  Answers = {"accepted", "refused"}
  ReviewRevision = 3
  MaxRev = 5
SPECIFICATION Spec
INVARIANT AcceptedMeansDispatched
CHECK_DEADLOCK FALSE
