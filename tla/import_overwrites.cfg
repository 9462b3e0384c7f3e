CONSTANTS
  s1 = s1
  s2 = s2
  q1 = q1
  q2 = q2
  d1 = d1
  d2 = d2
  Refs = {"a", "b"}
  Guests = {"Ann", "Bob"}
  Stays = {s1, s2}
  NoStay = NoStay
  NoBooking = NoBooking
  Documents = {d1, d2}
  NoDocument = NoDocument
  Contents = {c1, c2}
  Clerks = {q1, q2}
  MaxVersion = 2
  Tokens = {t1, t2, t3}
  t1 = t1
  t2 = t2
  t3 = t3
  Gone = Gone
  Files <- MCFiles
  SourceReference <- MCReference
  MaxResets = 1
  MaxEdits = 1
SPECIFICATION MCSpec
PROPERTY RowsOverwriteNothingNewer
CHECK_DEADLOCK FALSE
