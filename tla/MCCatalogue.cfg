SPECIFICATION Spec
CONSTANTS
  Products = {"P", "S", "N"}
  CanonicalVariants = {"c1", "c2", "d1"}
  Offers = {"o1", "o2"}
  Variants = {"v1", "v2", "v3"}
  Reporters = {"m1", "m2"}
  Names = {"n1"}
  Titles = {"o1", "o2", "edited"}
  Structure <- MCStructure
  Resembles <- MCResembles
  Starts <- MCStarts
  Identifiers = {"d1", None}
  ListPrices = {2}
  Windows = {"w"}
  Requests = {r1, r2}
  None = None
  MaxCalls = 3
SYMMETRY MCSymmetry
INVARIANTS OfferFollowsItsVariants MergesEnd PricesOnRecord ToldOnce
PROPERTIES NameIsFirstConfirmed
CHECK_DEADLOCK FALSE
