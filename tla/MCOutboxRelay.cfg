SPECIFICATION FairSpec
CONSTANTS
  u1 = u1
  u2 = u2
  u3 = u3
  None = None
  Events <- MCEvents
  TypeOf <- MCTypeOf
  Recipients <- MCRecipients
  To <- MCTo
  Workers = {w1, w2}
  MaxAttempts = 3
  BatchSize = 2
  Faults = {"throw", "crash", "stall"}
INVARIANTS
  ChannelAtMostOnce
PROPERTIES
  DeliverySpec
  EventuallySettled
CHECK_DEADLOCK FALSE
