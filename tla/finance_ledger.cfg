CONSTANTS
  r1 = r1
  r2 = r2
  Cleaner = cleaner
  Guests = {g1}
  Passes = {p1, p2}
  MaxTime = 3
  DayLength = 2
  MonthLength = 1
  Lookback = 2
  LogBudget = 4
  Fees = {2}
  Adjustments <- MCAdjustments
  MaxAdjusted = 1
  None = None
  Rules = {r1, r2}
  NewRules <- MCNewRules
  Patches <- MCPatches
  Txs = {t1, t2}
  Amounts <- MCAmounts
  LateStays = {s1}
  Requests = {q1, q2}
  Bonus = 1
  Unused = Unused
  Deleted = Deleted
SPECIFICATION MCSpec
INVARIANTS TypeOK LedgerFollowsRules NoOrphans LinkedFilesExist EntriesAreCounted
PROPERTY ResetKeepsCleanerPay
CHECK_DEADLOCK FALSE
