SPECIFICATION FairSpec
CONSTANTS
  None = None
  Items = {i1}
  Returns = {r1, r2}
  Branches = {b1}
  Codes = {k1}
  Clerks = {c1, c2}
  Ticks = {t1}
  WindowDays = 1
  ReminderAge = 1
  EscalationAge = 2
  DisputeAge = 1
  CodeAge = 2
  ExchangeCodeAge = 1
PROPERTIES
  DeadlinesKept
  ItemSpec
  NothingStaysForEver
CHECK_DEADLOCK FALSE
