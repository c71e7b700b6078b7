SPECIFICATION MCSpec
CONSTANTS
  Requests = {r1, r2}
  MaxCalls = 8
  MaxAddresses = 3
  MaxUnits = 3
  Checkouts = {c1, c2}
  Items = {"i1"}
  Reporters = {"author", "c1", "c2"}
  Author = "author"
  Categories = {"c1", "c2", "c3"}
  Groups = {"shop", "set"}
  Stores = {"shop"}
  Entries = {"x1", "x2", "x3"}
  MaxSections = 1
  MaxItems = 2
  RowIds = {1, 2, 3}
  Times = {1, 2}
  PageSize = 1
  Values = {"x"}
  Branches = {"a", "b"}
  Variants = {"x", "y"}
  Savers = {"c1"}
  MaxStock = 2
  Shops = {1, 2}
  Offers = {"x", "y"}
  OfferVariants = {1, 2, 3}
  Products = {"p"}
  ShopOf <- MCShopOf
  OfferOf <- MCOfferOf
  Prices = {1, 2}
  Levels = {0, 1, 4}
  MaxCardLogos = 1
  Lines = {"x", "y"}
  Depots = {1, 2}
  Physical = {1}
  Money = {0, 1, 3}
  NoMoney = NoMoney
  MaxLine = 2
SYMMETRY MCSymmetry
INVARIANTS OneDefaultAddress CartKeepsTheRest ReportedWhilePending CategoriesFormATree LimitsHold PagesNeitherRepeatNorSkip AuditIsAChain ListingsAgree
PROPERTIES AlertedOncePerRestock ReserveHonoursQuote
CHECK_DEADLOCK FALSE
