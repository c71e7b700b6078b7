SPECIFICATION MCSpec
CONSTANTS
  r1 = r1
  r2 = r2
  w1 = w1
  w2 = w2
  d1 = d1
  k1 = k1
  k2 = k2
  k3 = k3
  k4 = k4
  k5 = k5
  Null = Null
  Closed = Closed
  Windows = {w1, w2}
  Dates = {d1}
  Checkouts = {r1, r2}
  Capacities = {1, 2}
  Exceptions = {Closed, 1}
  Hours = {"morning", "evening"}
  Absent = Absent
  Conflict = Conflict
  Error = Error
  Calls <- MCCalls
  PayloadOf <- MCPayloadOf
  MaxTakeover = 1
INVARIANTS PromisedHoursKept EffectOnce
PROPERTY BookingRespectsCapacity
SYMMETRY Retries
CHECK_DEADLOCK FALSE
