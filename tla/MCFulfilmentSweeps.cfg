SPECIFICATION FairSweepSpec
CONSTANTS
  o1 = o1
  i1 = i1
  i2 = i2
  f1 = f1
  s1 = s1
  s2 = s2
  None = None
  Orders <- MCOrders
  Items <- MCOneItem
  OrderOf <- MCOrderOf
  Offers <- MCOffers
  OfferOf <- MCOfferOf
  Slots <- MCSlots
  SlotStart <- MCSlotStart
  ConfirmReminder = 2
  AutoConfirm = 3
  Timeout = 2
  PrepLead = 1
  ConfirmTicks = {c1}
  ExceptionTicks = {t1}
PROPERTIES
  SweepsKeepDeadlines
  NoOrderWaitsForEver
