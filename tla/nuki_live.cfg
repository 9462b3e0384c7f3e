CONSTANTS
  a1 = a1
  a2 = a2
  q1 = q1
  q2 = q2
  Stays = {s1}
  Auths = {a1, a2}
  Locks = {l1}
  None = None
  MaxCred = 2
  MaxVer = 1
  Requests = {q1}
  Workers = {w1}
  Ops = {"generate", "long name", "revoke", "abort", "edit", "import", "expire"}
  Answers = {"accepted", "lost"}
  ReviewRevision = 3
  MaxRev = 5
SPECIFICATION LiveSpec
PROPERTIES CreationsResolve DeletionsConverge
CHECK_DEADLOCK FALSE
