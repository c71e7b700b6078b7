SPECIFICATION Spec
CONSTANTS
  Vendors = {"v1", "v2"}
  Branches = {"b1", "b2", "b3"}
  OwnerOf <- MCOwnerOf
  Starts <- MCStarts
  Reviewers = {"p1", "admin"}
  People = {"p1"}
  Holds = {"h1"}
  Requests = {r1, r2}
  NoOne = NoOne
  MaxRevisions = 2
  MaxCalls = 4
SYMMETRY MCSymmetry
INVARIANTS DecisionsMatchEvidence QuorumDecides InvitesAreForTheUnemployed ArchivedBranchesTakeNoWork
PROPERTIES NoSelfReview OrdersComeFromOpenShops
CHECK_DEADLOCK FALSE
