CONSTANTS
  s1 = s1
  s2 = s2
  c1 = c1
  c2 = c2
  b1 = b1
  b2 = b2
  g1 = g1
  None = None
  Stays = {s1, s2}
  Closures = {c1, c2}
  Bookings = {b1, b2}
  Guests = {g1}
  LastDay = 6
  MonthLength = 3
  WeekLength = 4
  Midweek <- MCMidweek
  LeadBounds <- MCLead
  LosBounds <- MCLos
  Horizons <- MCHorizons
  Year = 4
  MinNights = 2
  FeeOn <- MCFee
SPECIFICATION MCSpec
INVARIANTS NightsAgree MoneyAgrees RecognizedExactly PaceFollowsBookings
\* One request is asked of each set of rows.
CHECK_DEADLOCK FALSE
