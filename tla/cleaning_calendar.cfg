CONSTANTS
  s1 = s1
  s2 = s2
  Stays = {s1, s2}
  LastDay = 2
  Bookings <- MCBookings
  Settings <- MCSettings
  Ids = {1, 2, 3}
  None = None
  MaxHands = 1
  MaxFaults = 1
SPECIFICATION MCSpec
INVARIANT OwnEventsOnly
PROPERTIES OthersUntouched PassesInsertOnce DueCleaningsStay RemovedOnlyIfGone CalendarFollowsStays
