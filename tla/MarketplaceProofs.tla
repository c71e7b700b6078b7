------------------------- MODULE MarketplaceProofs -------------------------
(***************************************************************************)
(* MarketplaceProofs: for any vendors, branches, reviewers and concurrent   *)
(* requests, reviews, archives, invitations and checkouts do not overtake    *)
(* each other.  The argument: two requests never hold one lock; what a       *)
(* request has read, and depends on when it commits (Fits), only a holder   *)
(* of one of its locks may change (Steady); so it still holds at the commit.  *)
(***************************************************************************)
EXTENDS Marketplace, TLAPS

Vendor == [status : {"APPLIED", "UNDER_REVIEW", "APPROVED", "REJECTED", "ACTIVE", "SUSPENDED"}, online : BOOLEAN,
           published : BOOLEAN, subscription : {"NONE", "ACTIVE", "EXPIRED"}, lapsed : BOOLEAN, suspensions : Int]
Branch == [exists : BOOLEAN, status : Verdicts \union {"PENDING"}, revision : Nat, decided : Nat, archived : BOOLEAN,
           closure : {"none", "ahead", "now"}]
Member == [branch : Branches, status : {"ACTIVE", "SUSPENDED"}]
Invitation == [branch : Branches, expired : BOOLEAN]
Hold == [branch : Branches, live : BOOLEAN]

Typed ==
  /\ vendors \in [Vendors -> Vendor] /\ branches \in [Branches -> Branch] /\ DOMAIN evidence = Vendors
  /\ staff \in [People -> Member \union {NoOne}] /\ invites \in [People -> Invitation \union {NoOne}]
  /\ holds \in [Holds -> Hold \union {NoOne}] /\ orders \subseteq Branches
  /\ DOMAIN running = Requests /\ DOMAIN held = Requests

Exclusive == \A r, s \in Requests : r # s => held[r] \intersect held[s] = {}

(* What a request knows, and the locks that keep it true.                      *)
Reviewing(q, locks) ==
  /\ q.branch \in Branches /\ ReviewLocks(q.branch) \subseteq locks
  /\ branches[q.branch].exists /\ ~branches[q.branch].archived
FitsReview(q, locks) ==
  /\ q.op = "submit" =>
       /\ Reviewing(q, locks) /\ vendors[OwnerOf[q.branch]].status \in {"APPLIED", "UNDER_REVIEW", "ACTIVE"}
       /\ q.first => vendors[OwnerOf[q.branch]].status = "APPLIED"
  /\ q.op = "decide" =>
       /\ Reviewing(q, locks) /\ q.verdict \in Verdicts /\ ~IsMember(q.reviewer, OwnerOf[q.branch])
       /\ branches[q.branch].status = "PENDING" /\ q.revision = branches[q.branch].revision
       /\ vendors[OwnerOf[q.branch]].status = "UNDER_REVIEW" => (q.last <=> OthersApproved(q.branch))
FitsVendor(q, locks) ==
  /\ q.op \in {"warehouse", "warehouse_decide", "suspend", "reactivate", "activate", "renew"} =>
       q.vendor \in Vendors /\ VendorLock(q.vendor) \in locks
  /\ q.op = "warehouse" => vendors[q.vendor].online /\ vendors[q.vendor].status \in {"APPLIED", "UNDER_REVIEW"}
  /\ q.op = "warehouse_decide" => vendors[q.vendor].online /\ q.verdict \in Verdicts /\ ~IsMember(q.reviewer, q.vendor)
  /\ q.op = "add" => q.vendor \in Vendors /\ ~vendors[q.vendor].online /\ vendors[q.vendor].status \in {"ACTIVE", "SUSPENDED"}
  /\ q.op = "type" => q.vendor \in Vendors /\ q.online = vendors[q.vendor].online
FitsBranch(q, locks) ==
  /\ q.op = "archive" =>
       /\ q.branch \in Branches /\ BranchLock(q.branch) \in locks /\ branches[q.branch].exists /\ HoldsAt(q.branch) = {}
       /\ ~(branches[q.branch].status = "PENDING" /\ branches[q.branch].revision >= 1)
  /\ q.op = "reserve" =>
       /\ q.hold \in Holds /\ q.branch \in Branches /\ {BranchLock(q.branch), HoldLock(q.hold)} \subseteq locks
       /\ branches[q.branch].exists /\ ~branches[q.branch].archived
  /\ q.op = "confirm" =>
       /\ q.hold \in Holds /\ HoldLock(q.hold) \in locks /\ holds[q.hold] # NoOne
       /\ LET v == OwnerOf[holds[q.hold].branch]
          IN /\ VendorLock(v) \in locks /\ vendors[v].published
             /\ vendors[v].status = "ACTIVE" /\ vendors[v].subscription = "ACTIVE"
FitsStaff(q, locks) ==
  /\ q.op = "invite" => q.person \in People /\ q.branch \in Branches /\ PhoneLock(q.person) \in locks /\ staff[q.person] = NoOne
  /\ q.op = "accept" =>
       /\ q.person \in People /\ invites[q.person] # NoOne /\ staff[q.person] = NoOne
       /\ {PhoneLock(q.person), VendorLock(OwnerOf[invites[q.person].branch])} \subseteq locks
  /\ q.op = "transfer" =>
       /\ q.person \in People /\ q.branch \in Branches /\ staff[q.person] # NoOne
       /\ OwnerOf[staff[q.person].branch] = OwnerOf[q.branch]
Fits(q, locks) == FitsReview(q, locks) /\ FitsVendor(q, locks) /\ FitsBranch(q, locks) /\ FitsStaff(q, locks)

WarehousesAreOnline == \A v \in Vendors : evidence[v] # <<>> => vendors[v].online

States ==
  /\ DecisionsMatchEvidence /\ QuorumDecides /\ StoreTypeMatchesBranches /\ WarehousesAreOnline
  /\ ArchivedBranchesTakeNoWork /\ InvitesAreForTheUnemployed
Inv == Typed /\ Exclusive /\ States /\ \A r \in Requests : Fits(running[r], held[r])

----------------------------------------------------------------------------
(* What a step under the locks L leaves to the others.                         *)
SteadyBranches(L) ==
  \A b \in Branches :
    /\ branches[b].exists /\ BranchLock(b) \notin L =>
         /\ branches'[b].exists /\ branches'[b].status = branches[b].status
         /\ branches'[b].revision = branches[b].revision /\ branches'[b].archived = branches[b].archived
    /\ BranchLock(b) \notin L /\ HoldsAt(b) = {} => HoldsAt(b)' = {}
SteadyVendors(L) ==
  \A v \in Vendors :
    /\ VendorLock(v) \notin L =>
         /\ vendors'[v].status = vendors[v].status /\ vendors'[v].published = vendors[v].published
         /\ vendors'[v].subscription = vendors[v].subscription
         /\ \A p : ~IsMember(p, v) => ~IsMember(p, v)'
         /\ vendors[v].status = "UNDER_REVIEW" =>
              \A b \in Branches : OwnerOf[b] = v =>
                branches'[b].exists = branches[b].exists /\ branches'[b].status = branches[b].status
    /\ vendors'[v].online = vendors[v].online
    /\ vendors[v].status \in {"ACTIVE", "SUSPENDED"} => vendors'[v].status \in {"ACTIVE", "SUSPENDED"}
SteadyHolds(L) ==
  \A h \in Holds : HoldLock(h) \notin L /\ holds[h] # NoOne => holds'[h] # NoOne /\ holds'[h].branch = holds[h].branch
SteadyStaff(L) ==
  \A p \in People :
    /\ PhoneLock(p) \notin L =>
         /\ staff[p] = NoOne => staff'[p] = NoOne
         /\ invites[p] # NoOne => invites'[p] # NoOne /\ invites'[p].branch = invites[p].branch
    /\ staff[p] # NoOne => staff'[p] # NoOne /\ OwnerOf[staff'[p].branch] = OwnerOf[staff[p].branch]
Steady(L) == SteadyBranches(L) /\ SteadyVendors(L) /\ SteadyHolds(L) /\ SteadyStaff(L)

LEMMA FitsReviewStays ==
  ASSUME Typed, NEW L, Steady(L), NEW q, NEW locks, locks \intersect L = {}, FitsReview(q, locks)
  PROVE  FitsReview(q, locks)'
<1> USE OwnerAssumption DEF Reviewing, ReviewLocks, Steady
<1>1. CASE q.op = "submit"
  BY <1>1 DEF FitsReview, SteadyBranches, SteadyVendors
<1>2. CASE q.op = "decide"
  <2>0. q.branch \in Branches /\ OwnerOf[q.branch] \in Vendors
    BY <1>2 DEF FitsReview
  <2>1. BranchLock(q.branch) \notin L /\ VendorLock(OwnerOf[q.branch]) \notin L
    BY <1>2 DEF FitsReview
  <2>2. vendors[OwnerOf[q.branch]].status = "UNDER_REVIEW" => (OthersApproved(q.branch) <=> OthersApproved(q.branch)')
    BY <2>0, <2>1 DEF OthersApproved, BranchesOf, SteadyVendors
  <2>3. Reviewing(q, locks)'
    BY <1>2, <2>0, <2>1 DEF FitsReview, SteadyBranches
  <2>4. ~IsMember(q.reviewer, OwnerOf[q.branch])'
    BY <1>2, <2>0, <2>1 DEF FitsReview, SteadyVendors
  <2>5. branches'[q.branch].status = "PENDING" /\ q.revision = branches'[q.branch].revision
    BY <1>2, <2>0, <2>1 DEF FitsReview, SteadyBranches
  <2>6. vendors'[OwnerOf[q.branch]].status = vendors[OwnerOf[q.branch]].status
    BY <2>0, <2>1 DEF SteadyVendors
  <2> QED BY <1>2, <2>2, <2>3, <2>4, <2>5, <2>6 DEF FitsReview
<1> QED BY <1>1, <1>2 DEF FitsReview

LEMMA FitsVendorStays ==
  ASSUME Typed, NEW L, Steady(L), NEW q, NEW locks, locks \intersect L = {}, FitsVendor(q, locks)
  PROVE  FitsVendor(q, locks)'
BY DEF FitsVendor, Steady, SteadyVendors

LEMMA FitsBranchStays ==
  ASSUME Typed, NEW L, Steady(L), NEW q, NEW locks, locks \intersect L = {}, FitsBranch(q, locks)
  PROVE  FitsBranch(q, locks)'
<1>1. CASE q.op = "archive" \/ q.op = "reserve"
  BY <1>1 DEF FitsBranch, Steady, SteadyBranches
<1>2. CASE q.op = "confirm"
  <2>1. OwnerOf[holds[q.hold].branch] \in Vendors
    BY <1>2, OwnerAssumption DEF FitsBranch, Typed, Hold
  <2> QED BY <1>2, <2>1 DEF FitsBranch, Steady, SteadyHolds, SteadyVendors
<1> QED BY <1>1, <1>2 DEF FitsBranch

LEMMA FitsStaffStays ==
  ASSUME Typed, NEW L, Steady(L), NEW q, NEW locks, locks \intersect L = {}, FitsStaff(q, locks)
  PROVE  FitsStaff(q, locks)'
BY DEF FitsStaff, Steady, SteadyStaff

LEMMA FitsStays ==
  ASSUME Typed, NEW L, Steady(L), NEW q, NEW locks, locks \intersect L = {}, Fits(q, locks)
  PROVE  Fits(q, locks)'
BY FitsReviewStays, FitsVendorStays, FitsBranchStays, FitsStaffStays DEF Fits

(* A request that fits begins.                                                *)
LEMMA Begin ==
  ASSUME Inv, NEW r \in Requests, NEW q, NEW locks, Begins(r, q, locks), Fits(q, locks), UNCHANGED <<sellers, market>>
  PROVE  Inv'
<1>1. /\ running'[r] = q /\ held'[r] = locks /\ DOMAIN running' = Requests /\ DOMAIN held' = Requests
      /\ \A s \in Requests \ {r} : running'[s] = running[s] /\ held'[s] = held[s]
  BY DEF Begins, Runs, Inv, Typed
<1>2. Typed'
  BY <1>1 DEF Inv, Typed, sellers, market
<1>3. States'
  BY DEF Inv, States, DecisionsMatchEvidence, QuorumDecides, StoreTypeMatchesBranches, WarehousesAreOnline,
         ArchivedBranchesTakeNoWork, InvitesAreForTheUnemployed, BranchesOf, HoldsAt, Live, sellers, market
<1>4. Exclusive'
  BY <1>1 DEF Inv, Exclusive, Begins, Free
<1>5. Steady({})
  BY DEF Steady, SteadyBranches, SteadyVendors, SteadyHolds, SteadyStaff, IsMember, HoldsAt, Live, sellers, market
<1>6. ASSUME NEW s \in Requests PROVE Fits(running[s], held[s])'
  <2>1. PICK x, l : x = running'[s] /\ l = held'[s]
    OBVIOUS
  <2>2. Fits(x, l)
    BY <1>1, <2>1 DEF Inv
  <2>3. Fits(x, l)'
    BY <1>5, <2>2, FitsStays DEF Inv
  <2> QED BY <2>1, <2>3
<1> QED BY <1>2, <1>3, <1>4, <1>6 DEF Inv

LEMMA IdleFits == Fits(Idle, {}) /\ Fits(Idle, {})'
BY DEF Fits, FitsReview, FitsVendor, FitsBranch, FitsStaff, Idle

(* A request that holds the locks of what it changes ends.                     *)
LEMMA End ==
  ASSUME Inv, NEW r \in Requests, Runs(r, Idle, {}), Typed', States', Steady(held[r])
  PROVE  Inv'
<1>1. /\ running'[r] = Idle /\ held'[r] = {}
      /\ \A s \in Requests \ {r} : running'[s] = running[s] /\ held'[s] = held[s]
  BY DEF Runs, Inv, Typed
<1>2. Exclusive'
  BY <1>1 DEF Inv, Exclusive
<1>3. ASSUME NEW s \in Requests PROVE Fits(running[s], held[s])'
  <2>1. CASE s = r
    BY <1>1, <2>1, IdleFits
  <2>2. CASE s # r
    <3>1. PICK x, l : x = running[s] /\ l = held[s]
      OBVIOUS
    <3>2. Fits(x, l) /\ l \intersect held[r] = {}
      BY <2>2, <3>1 DEF Inv, Exclusive
    <3>3. Fits(x, l)'
      BY <3>2, FitsStays DEF Inv
    <3> QED BY <1>1, <2>2, <3>1, <3>3
  <2> QED BY <2>1, <2>2
<1> QED BY <1>2, <1>3 DEF Inv

(* A statement of its own, or a clock, changes what nobody holds.              *)
LEMMA Aside ==
  ASSUME Inv, NEW L, Free(L), UNCHANGED <<running, held>>, Typed', States', Steady(L)
  PROVE  Inv'
<1>1. ASSUME NEW s \in Requests PROVE Fits(running[s], held[s])'
  <2>1. PICK x, l : x = running[s] /\ l = held[s]
    OBVIOUS
  <2>2. Fits(x, l) /\ l \intersect L = {}
    BY <2>1 DEF Inv, Free
  <2>3. Fits(x, l)'
    BY <2>2, FitsStays DEF Inv
  <2> QED BY <2>1, <2>3
<1> QED BY <1>1 DEF Inv, Exclusive

(* Every request begins with what Fits says it knows.                          *)
LEMMA SubmitBegins ==
  ASSUME Inv, NEW r \in Requests, NEW b \in Branches, SubmitEvidence(r, b), UNCHANGED market PROVE Inv'
<1>1. PICK q : q = [op |-> "submit", branch |-> b, first |-> vendors[OwnerOf[b]].status = "APPLIED"]
  OBVIOUS
<1>2. PICK locks : locks = ReviewLocks(b)
  OBVIOUS
<1>3. Begins(r, q, locks) /\ UNCHANGED <<sellers, market>>
  BY <1>1, <1>2 DEF SubmitEvidence
<1>4. Fits(q, locks)
  BY <1>1, <1>2 DEF Fits, FitsReview, FitsVendor, FitsBranch, FitsStaff, Inv, Typed, SubmitEvidence, Reviewing
<1> QED BY <1>3, <1>4, Begin

LEMMA DecideBegins ==
  ASSUME Inv, NEW r \in Requests, NEW b \in Branches, NEW revision \in 1..branches[b].revision, NEW verdict \in Verdicts, NEW reviewer \in Reviewers, 
         Decide(r, b, revision, verdict, reviewer, IsMember(reviewer, OwnerOf[b])), UNCHANGED market PROVE Inv'
<1>1. PICK q : q = [op |-> "decide", branch |-> b, revision |-> revision, verdict |-> verdict, reviewer |-> reviewer,
                    last |-> OthersApproved(b)]
  OBVIOUS
<1>2. PICK locks : locks = ReviewLocks(b)
  OBVIOUS
<1>3. Begins(r, q, locks) /\ UNCHANGED <<sellers, market>>
  BY <1>1, <1>2 DEF Decide
<1>4. Fits(q, locks)
  BY <1>1, <1>2 DEF Fits, FitsReview, FitsVendor, FitsBranch, FitsStaff, Inv, Typed, Decide, Reviewing, IsCurrent
<1> QED BY <1>3, <1>4, Begin

LEMMA WarehouseBegins ==
  ASSUME Inv, NEW r \in Requests, NEW v \in Vendors, SubmitWarehouse(r, v), UNCHANGED market PROVE Inv'
<1>1. PICK q : q = [op |-> "warehouse", vendor |-> v]
  OBVIOUS
<1>2. PICK locks : locks = {VendorLock(v)}
  OBVIOUS
<1>3. Begins(r, q, locks) /\ UNCHANGED <<sellers, market>>
  BY <1>1, <1>2 DEF SubmitWarehouse
<1>4. Fits(q, locks)
  BY <1>1, <1>2 DEF Fits, FitsReview, FitsVendor, FitsBranch, FitsStaff, Inv, Typed, SubmitWarehouse
<1> QED BY <1>3, <1>4, Begin

LEMMA WarehouseDecisionBegins ==
  ASSUME Inv, NEW r \in Requests, NEW v \in Vendors, NEW e \in DOMAIN evidence[v], NEW verdict \in Verdicts, NEW reviewer \in Reviewers, 
         DecideWarehouse(r, v, e, verdict, reviewer, IsMember(reviewer, v)), UNCHANGED market PROVE Inv'
<1>1. PICK q : q = [op |-> "warehouse_decide", vendor |-> v, evidence |-> e, verdict |-> verdict, reviewer |-> reviewer]
  OBVIOUS
<1>2. PICK locks : locks = {VendorLock(v)}
  OBVIOUS
<1>3. Begins(r, q, locks) /\ UNCHANGED <<sellers, market>>
  BY <1>1, <1>2 DEF DecideWarehouse
<1>4. Fits(q, locks)
  BY <1>1, <1>2 DEF Fits, FitsReview, FitsVendor, FitsBranch, FitsStaff, Inv, Typed, DecideWarehouse, States, WarehousesAreOnline
<1> QED BY <1>3, <1>4, Begin

LEMMA SuspendBegins ==
  ASSUME Inv, NEW r \in Requests, NEW v \in Vendors, Suspend(r, v), UNCHANGED market PROVE Inv'
<1>1. PICK q : q = [op |-> "suspend", vendor |-> v]
  OBVIOUS
<1>2. PICK locks : locks = VendorRow(v)
  OBVIOUS
<1>3. Begins(r, q, locks) /\ UNCHANGED <<sellers, market>>
  BY <1>1, <1>2 DEF Suspend
<1>4. Fits(q, locks)
  BY <1>1, <1>2 DEF Fits, FitsReview, FitsVendor, FitsBranch, FitsStaff, Inv, Typed, Suspend, VendorRow
<1> QED BY <1>3, <1>4, Begin

LEMMA ReactivateBegins ==
  ASSUME Inv, NEW r \in Requests, NEW v \in Vendors, Reactivate(r, v), UNCHANGED market PROVE Inv'
<1>1. PICK q : q = [op |-> "reactivate", vendor |-> v]
  OBVIOUS
<1>2. PICK locks : locks = VendorRow(v)
  OBVIOUS
<1>3. Begins(r, q, locks) /\ UNCHANGED <<sellers, market>>
  BY <1>1, <1>2 DEF Reactivate
<1>4. Fits(q, locks)
  BY <1>1, <1>2 DEF Fits, FitsReview, FitsVendor, FitsBranch, FitsStaff, Inv, Typed, Reactivate, VendorRow
<1> QED BY <1>3, <1>4, Begin

LEMMA ActivateBegins ==
  ASSUME Inv, NEW r \in Requests, NEW v \in Vendors, Activate(r, v), UNCHANGED market PROVE Inv'
<1>1. PICK q : q = [op |-> "activate", vendor |-> v]
  OBVIOUS
<1>2. PICK locks : locks = VendorRow(v)
  OBVIOUS
<1>3. Begins(r, q, locks) /\ UNCHANGED <<sellers, market>>
  BY <1>1, <1>2 DEF Activate
<1>4. Fits(q, locks)
  BY <1>1, <1>2 DEF Fits, FitsReview, FitsVendor, FitsBranch, FitsStaff, Inv, Typed, Activate, VendorRow
<1> QED BY <1>3, <1>4, Begin

LEMMA RenewBegins ==
  ASSUME Inv, NEW r \in Requests, NEW v \in Vendors, Renew(r, v), UNCHANGED market PROVE Inv'
<1>1. PICK q : q = [op |-> "renew", vendor |-> v]
  OBVIOUS
<1>2. PICK locks : locks = VendorRow(v)
  OBVIOUS
<1>3. Begins(r, q, locks) /\ UNCHANGED <<sellers, market>>
  BY <1>1, <1>2 DEF Renew
<1>4. Fits(q, locks)
  BY <1>1, <1>2 DEF Fits, FitsReview, FitsVendor, FitsBranch, FitsStaff, Inv, Typed, Renew, VendorRow
<1> QED BY <1>3, <1>4, Begin

LEMMA AddBranchBegins ==
  ASSUME Inv, NEW r \in Requests, NEW v \in Vendors, AddBranch(r, v), UNCHANGED market PROVE Inv'
<1>1. PICK q : q = [op |-> "add", vendor |-> v]
  OBVIOUS
<1>2. PICK locks : locks = {}
  OBVIOUS
<1>3. Begins(r, q, locks) /\ UNCHANGED <<sellers, market>>
  BY <1>1, <1>2 DEF AddBranch
<1>4. Fits(q, locks)
  BY <1>1, <1>2 DEF Fits, FitsReview, FitsVendor, FitsBranch, FitsStaff, Inv, Typed, AddBranch, MayHaveBranches
<1> QED BY <1>3, <1>4, Begin

LEMMA TypeBegins ==
  ASSUME Inv, NEW r \in Requests, NEW v \in Vendors, NEW online \in BOOLEAN, ChangeStoreType(r, v, online), UNCHANGED market PROVE Inv'
<1>1. PICK q : q = [op |-> "type", vendor |-> v, online |-> online]
  OBVIOUS
<1>2. PICK locks : locks = {}
  OBVIOUS
<1>3. Begins(r, q, locks) /\ UNCHANGED <<sellers, market>>
  BY <1>1, <1>2 DEF ChangeStoreType
<1>4. Fits(q, locks)
  <2>1. vendors[v].online \in BOOLEAN /\ (online <=> vendors[v].online)
    <3>1. vendors[v] \in Vendor
      BY DEF Inv, Typed
    <3> QED BY <3>1 DEF ChangeStoreType, Inv, States, StoreTypeMatchesBranches, Vendor
  <2>2. online = vendors[v].online
    BY <2>1
  <2> QED BY <1>1, <1>2, <2>2 DEF Fits, FitsReview, FitsVendor, FitsBranch, FitsStaff
<1> QED BY <1>3, <1>4, Begin

LEMMA ArchiveBegins ==
  ASSUME Inv, NEW r \in Requests, NEW b \in Branches, Archive(r, b, IsBusy(b)), UNCHANGED market PROVE Inv'
<1>1. PICK q : q = [op |-> "archive", branch |-> b]
  OBVIOUS
<1>2. PICK locks : locks = ArchiveLocks(b)
  OBVIOUS
<1>3. Begins(r, q, locks) /\ UNCHANGED <<sellers, market>>
  BY <1>1, <1>2 DEF Archive
<1>4. Fits(q, locks)
  BY <1>1, <1>2 DEF Fits, FitsReview, FitsVendor, FitsBranch, FitsStaff, Inv, Typed, Archive, ArchiveLocks, IsBusy
<1> QED BY <1>3, <1>4, Begin

LEMMA InviteBegins ==
  ASSUME Inv, NEW r \in Requests, NEW p \in People, NEW b \in Branches, Invite(r, p, b) PROVE Inv'
<1>1. PICK q : q = [op |-> "invite", person |-> p, branch |-> b]
  OBVIOUS
<1>2. PICK locks : locks = InviteLocks(p, b)
  OBVIOUS
<1>3. Begins(r, q, locks) /\ UNCHANGED <<sellers, market>>
  BY <1>1, <1>2 DEF Invite
<1>4. Fits(q, locks)
  BY <1>1, <1>2 DEF Fits, FitsReview, FitsVendor, FitsBranch, FitsStaff, Inv, Typed, Invite, InviteLocks
<1> QED BY <1>3, <1>4, Begin

LEMMA AcceptBegins ==
  ASSUME Inv, NEW r \in Requests, NEW p \in People, Accept(r, p) PROVE Inv'
<1>1. PICK q : q = [op |-> "accept", person |-> p]
  OBVIOUS
<1>2. PICK locks : locks = AcceptLocks(p, invites[p].branch)
  OBVIOUS
<1>3. Begins(r, q, locks) /\ UNCHANGED <<sellers, market>>
  BY <1>1, <1>2 DEF Accept
<1>4. Fits(q, locks)
  BY <1>1, <1>2 DEF Fits, FitsReview, FitsVendor, FitsBranch, FitsStaff, Inv, Typed, Accept, AcceptLocks
<1> QED BY <1>3, <1>4, Begin

LEMMA TransferBegins ==
  ASSUME Inv, NEW r \in Requests, NEW p \in People, NEW b \in Branches, Transfer(r, p, b) PROVE Inv'
<1>1. PICK q : q = [op |-> "transfer", person |-> p, branch |-> b]
  OBVIOUS
<1>2. PICK locks : locks = {BranchLock(b), MemberLock(p)}
  OBVIOUS
<1>3. Begins(r, q, locks) /\ UNCHANGED <<sellers, market>>
  BY <1>1, <1>2 DEF Transfer
<1>4. Fits(q, locks)
  BY <1>1, <1>2 DEF Fits, FitsReview, FitsVendor, FitsBranch, FitsStaff, Inv, Typed, Transfer
<1> QED BY <1>3, <1>4, Begin

LEMMA ReserveBegins ==
  ASSUME Inv, NEW r \in Requests, NEW h \in Holds, NEW b \in Branches, Reserve(r, h, b) PROVE Inv'
<1>1. PICK q : q = [op |-> "reserve", hold |-> h, branch |-> b]
  OBVIOUS
<1>2. PICK locks : locks = ReserveLocks(b) \union {HoldLock(h)}
  OBVIOUS
<1>3. Begins(r, q, locks) /\ UNCHANGED <<sellers, market>>
  BY <1>1, <1>2 DEF Reserve
<1>4. Fits(q, locks)
  BY <1>1, <1>2 DEF Fits, FitsReview, FitsVendor, FitsBranch, FitsStaff, Inv, Typed, Reserve, ReserveLocks
<1> QED BY <1>3, <1>4, Begin

LEMMA ConfirmBegins ==
  ASSUME Inv, NEW r \in Requests, NEW h \in Holds, Confirm(r, h) PROVE Inv'
<1>1. PICK q : q = [op |-> "confirm", hold |-> h]
  OBVIOUS
<1>2. PICK locks : locks = ConfirmLocks(h)
  OBVIOUS
<1>3. Begins(r, q, locks) /\ UNCHANGED <<sellers, market>>
  BY <1>1, <1>2 DEF Confirm
<1>4. Fits(q, locks)
  <2>1. Refreshed(vendors[OwnerOf[holds[h].branch]]).subscription = "ACTIVE" => vendors[OwnerOf[holds[h].branch]].subscription = "ACTIVE"
    <3>1. OwnerOf[holds[h].branch] \in Vendors
      BY OwnerAssumption DEF Confirm, Live, Inv, Typed, Hold
    <3>2. vendors[OwnerOf[holds[h].branch]] \in Vendor
      BY <3>1 DEF Inv, Typed
    <3> QED BY <3>2 DEF Refreshed, Vendor
  <2> QED BY <1>1, <1>2, <2>1 DEF Fits, FitsReview, FitsVendor, FitsBranch, FitsStaff, Confirm, ConfirmLocks, Live, Purchasable
<1> QED BY <1>3, <1>4, Begin

----------------------------------------------------------------------------
LEMMA SteadyMore == ASSUME NEW K, NEW L, K \subseteq L, Steady(K) PROVE Steady(L)
BY DEF Steady, SteadyBranches, SteadyVendors, SteadyHolds, SteadyStaff

LEMMA IsVendor ==
  ASSUME NEW w, NEW x \in Vendor, DOMAIN w = DOMAIN x, w = [f \in DOMAIN w |-> w[f]],
         w.status \in {"APPLIED", "UNDER_REVIEW", "APPROVED", "REJECTED", "ACTIVE", "SUSPENDED"}, w.online \in BOOLEAN,
         w.published \in BOOLEAN, w.subscription \in {"NONE", "ACTIVE", "EXPIRED"}, w.lapsed \in BOOLEAN,
         w.suspensions \in Int
  PROVE  w \in Vendor
<1>1. DOMAIN w = {"status", "online", "published", "subscription", "lapsed", "suspensions"}
  BY DEF Vendor
<1>2. w = [status |-> w.status, online |-> w.online, published |-> w.published, subscription |-> w.subscription,
           lapsed |-> w.lapsed, suspensions |-> w.suspensions]
  BY <1>1
<1> QED BY <1>2 DEF Vendor

(* A vendor's row changes, and nothing about its branches.                     *)
LEMMA VendorChanges ==
  ASSUME Inv, NEW v \in Vendors, NEW w \in Vendor, vendors' = [vendors EXCEPT ![v] = w], w.online = vendors[v].online,
         vendors[v].status \in {"ACTIVE", "SUSPENDED"} => w.status \in {"ACTIVE", "SUSPENDED"},
         w.status = "UNDER_REVIEW" => w.online \/ vendors[v].status = "UNDER_REVIEW",
         w.status = "APPROVED" => w.online \/ vendors[v].status = "APPROVED",
         \A u \in Vendors : evidence'[u] = evidence[u] \/ (u = v /\ w.online = TRUE),
         UNCHANGED <<branches, market>>
  PROVE  vendors' \in [Vendors -> Vendor] /\ States' /\ Steady({VendorLock(v)})
<1>0. vendors' \in [Vendors -> Vendor] /\ vendors'[v] = w /\ \A u \in Vendors \ {v} : vendors'[u] = vendors[u]
  BY DEF Inv, Typed
<1>1. \A u \in Vendors : BranchesOf(u)' = BranchesOf(u) /\ vendors'[u].online = vendors[u].online
  BY <1>0 DEF BranchesOf
<1>2. StoreTypeMatchesBranches' /\ WarehousesAreOnline'
  BY <1>0, <1>1 DEF Inv, States, StoreTypeMatchesBranches, WarehousesAreOnline
<1>3. QuorumDecides'
  <2>1. ASSUME NEW u \in Vendors
        PROVE  /\ vendors'[u].status = "UNDER_REVIEW" /\ ~vendors'[u].online =>
                    \E b \in BranchesOf(u) : branches[b].status # "APPROVED"
               /\ vendors'[u].status = "APPROVED" => \A b \in BranchesOf(u) : branches[b].status = "APPROVED"
    BY <1>0, <1>1 DEF Inv, States, QuorumDecides, StoreTypeMatchesBranches
  <2> QED BY <1>1, <2>1 DEF QuorumDecides
<1>4. DecisionsMatchEvidence' /\ ArchivedBranchesTakeNoWork' /\ InvitesAreForTheUnemployed'
  BY DEF Inv, States, DecisionsMatchEvidence, ArchivedBranchesTakeNoWork, InvitesAreForTheUnemployed, HoldsAt, Live, market
<1>5. SteadyVendors({VendorLock(v)})
  BY <1>0, <1>1 DEF SteadyVendors, IsMember, market
<1>6. SteadyBranches({VendorLock(v)}) /\ SteadyHolds({VendorLock(v)}) /\ SteadyStaff({VendorLock(v)})
  BY DEF SteadyBranches, SteadyHolds, SteadyStaff, HoldsAt, Live, market
<1> QED BY <1>0, <1>2, <1>3, <1>4, <1>5, <1>6 DEF States, Steady

(* Handlers that end with a change of the vendor they hold the lock of.          *)
LEMMA SuspendedEnds ==
  ASSUME Inv, NEW r \in Requests, Suspended(r), UNCHANGED market PROVE Inv'
<1> PICK v : v = running[r].vendor
  OBVIOUS
<1>0. v \in Vendors /\ VendorLock(v) \in held[r] /\ Runs(r, Idle, {}) /\ UNCHANGED <<branches, evidence>>
  BY DEF Inv, Fits, FitsVendor, Suspended, Commits
<1>1. vendors[v] \in Vendor
  BY <1>0 DEF Inv, Typed
<1>2. PICK w : w = [vendors[v] EXCEPT !.status = "SUSPENDED", !.suspensions = @ + 1]
  OBVIOUS
<1>3. vendors' = [vendors EXCEPT ![v] = w]
  BY <1>0, <1>1, <1>2 DEF Suspended, Becomes, Inv, Typed, Vendor
<1>4. /\ DOMAIN w = DOMAIN vendors[v] /\ w = [f \in DOMAIN w |-> w[f]] /\ w.online = vendors[v].online
      /\ w.status = "SUSPENDED" /\ w.subscription = vendors[v].subscription
  BY <1>1, <1>2 DEF Vendor
<1>5. w.online \in BOOLEAN /\ w.published \in BOOLEAN /\ w.lapsed \in BOOLEAN /\ w.suspensions \in Int
  BY <1>1, <1>2 DEF Vendor
<1>6. w \in Vendor
  BY <1>1, <1>4, <1>5, IsVendor DEF Vendor
<1>7. vendors' \in [Vendors -> Vendor] /\ States' /\ Steady({VendorLock(v)})
  <2>1. \A u \in Vendors : evidence'[u] = evidence[u]
    BY <1>0
  <2>2. /\ vendors[v].status \in {"ACTIVE", "SUSPENDED"} => w.status \in {"ACTIVE", "SUSPENDED"}
        /\ w.status = "UNDER_REVIEW" => w.online \/ vendors[v].status = "UNDER_REVIEW"
        /\ w.status = "APPROVED" => w.online \/ vendors[v].status = "APPROVED"
    BY <1>4
  <2> QED BY <1>0, <1>3, <1>4, <1>6, <2>1, <2>2, VendorChanges
<1>8. Steady(held[r])
  BY <1>0, <1>7, SteadyMore
<1>9. Typed'
  BY <1>0, <1>7 DEF Inv, Typed, Runs, market
<1> QED BY <1>0, <1>7, <1>8, <1>9, End

LEMMA ReactivatedEnds ==
  ASSUME Inv, NEW r \in Requests, Reactivated(r), UNCHANGED market PROVE Inv'
<1> PICK v : v = running[r].vendor
  OBVIOUS
<1>0. v \in Vendors /\ VendorLock(v) \in held[r] /\ Runs(r, Idle, {}) /\ UNCHANGED <<branches, evidence>>
  BY DEF Inv, Fits, FitsVendor, Reactivated, Commits
<1>1. vendors[v] \in Vendor
  BY <1>0 DEF Inv, Typed
<1>2. PICK w : w = [vendors[v] EXCEPT !.status = "ACTIVE", !.suspensions = @ - 1]
  OBVIOUS
<1>3. vendors' = [vendors EXCEPT ![v] = w]
  BY <1>0, <1>1, <1>2 DEF Reactivated, Becomes, Inv, Typed, Vendor
<1>4. /\ DOMAIN w = DOMAIN vendors[v] /\ w = [f \in DOMAIN w |-> w[f]] /\ w.online = vendors[v].online
      /\ w.status = "ACTIVE" /\ w.subscription = vendors[v].subscription
  BY <1>1, <1>2 DEF Vendor
<1>5. w.online \in BOOLEAN /\ w.published \in BOOLEAN /\ w.lapsed \in BOOLEAN /\ w.suspensions \in Int
  BY <1>1, <1>2 DEF Vendor
<1>6. w \in Vendor
  BY <1>1, <1>4, <1>5, IsVendor DEF Vendor
<1>7. vendors' \in [Vendors -> Vendor] /\ States' /\ Steady({VendorLock(v)})
  <2>1. \A u \in Vendors : evidence'[u] = evidence[u]
    BY <1>0
  <2>2. /\ vendors[v].status \in {"ACTIVE", "SUSPENDED"} => w.status \in {"ACTIVE", "SUSPENDED"}
        /\ w.status = "UNDER_REVIEW" => w.online \/ vendors[v].status = "UNDER_REVIEW"
        /\ w.status = "APPROVED" => w.online \/ vendors[v].status = "APPROVED"
    BY <1>4
  <2> QED BY <1>0, <1>3, <1>4, <1>6, <2>1, <2>2, VendorChanges
<1>8. Steady(held[r])
  BY <1>0, <1>7, SteadyMore
<1>9. Typed'
  BY <1>0, <1>7 DEF Inv, Typed, Runs, market
<1> QED BY <1>0, <1>7, <1>8, <1>9, End

LEMMA ActivatedEnds ==
  ASSUME Inv, NEW r \in Requests, Activated(r), UNCHANGED market PROVE Inv'
<1> PICK v : v = running[r].vendor
  OBVIOUS
<1>0. v \in Vendors /\ VendorLock(v) \in held[r] /\ Runs(r, Idle, {}) /\ UNCHANGED <<branches, evidence>>
  BY DEF Inv, Fits, FitsVendor, Activated, Commits
<1>1. vendors[v] \in Vendor
  BY <1>0 DEF Inv, Typed
<1>2. PICK w : w = [vendors[v] EXCEPT !.status = "ACTIVE", !.subscription = "ACTIVE", !.lapsed = FALSE]
  OBVIOUS
<1>3. vendors' = [vendors EXCEPT ![v] = w]
  BY <1>0, <1>1, <1>2 DEF Activated, Becomes, Inv, Typed, Vendor
<1>4. /\ DOMAIN w = DOMAIN vendors[v] /\ w = [f \in DOMAIN w |-> w[f]] /\ w.online = vendors[v].online
      /\ w.status = "ACTIVE" /\ w.subscription = "ACTIVE"
  BY <1>1, <1>2 DEF Vendor
<1>5. w.online \in BOOLEAN /\ w.published \in BOOLEAN /\ w.lapsed \in BOOLEAN /\ w.suspensions \in Int
  BY <1>1, <1>2 DEF Vendor
<1>6. w \in Vendor
  BY <1>1, <1>4, <1>5, IsVendor DEF Vendor
<1>7. vendors' \in [Vendors -> Vendor] /\ States' /\ Steady({VendorLock(v)})
  <2>1. \A u \in Vendors : evidence'[u] = evidence[u]
    BY <1>0
  <2>2. /\ vendors[v].status \in {"ACTIVE", "SUSPENDED"} => w.status \in {"ACTIVE", "SUSPENDED"}
        /\ w.status = "UNDER_REVIEW" => w.online \/ vendors[v].status = "UNDER_REVIEW"
        /\ w.status = "APPROVED" => w.online \/ vendors[v].status = "APPROVED"
    BY <1>4
  <2> QED BY <1>0, <1>3, <1>4, <1>6, <2>1, <2>2, VendorChanges
<1>8. Steady(held[r])
  BY <1>0, <1>7, SteadyMore
<1>9. Typed'
  BY <1>0, <1>7 DEF Inv, Typed, Runs, market
<1> QED BY <1>0, <1>7, <1>8, <1>9, End

LEMMA RenewedEnds ==
  ASSUME Inv, NEW r \in Requests, Renewed(r), UNCHANGED market PROVE Inv'
<1> PICK v : v = running[r].vendor
  OBVIOUS
<1>0. v \in Vendors /\ VendorLock(v) \in held[r] /\ Runs(r, Idle, {}) /\ UNCHANGED <<branches, evidence>>
  BY DEF Inv, Fits, FitsVendor, Renewed, Commits
<1>1. vendors[v] \in Vendor
  BY <1>0 DEF Inv, Typed
<1>2. PICK w : w = [vendors[v] EXCEPT !.subscription = "ACTIVE", !.lapsed = FALSE]
  OBVIOUS
<1>3. vendors' = [vendors EXCEPT ![v] = w]
  BY <1>0, <1>1, <1>2 DEF Renewed, Becomes, Inv, Typed, Vendor
<1>4. /\ DOMAIN w = DOMAIN vendors[v] /\ w = [f \in DOMAIN w |-> w[f]] /\ w.online = vendors[v].online
      /\ w.status = vendors[v].status /\ w.subscription = "ACTIVE"
  BY <1>1, <1>2 DEF Vendor
<1>5. w.online \in BOOLEAN /\ w.published \in BOOLEAN /\ w.lapsed \in BOOLEAN /\ w.suspensions \in Int
  BY <1>1, <1>2 DEF Vendor
<1>6. w \in Vendor
  BY <1>1, <1>4, <1>5, IsVendor DEF Vendor
<1>7. vendors' \in [Vendors -> Vendor] /\ States' /\ Steady({VendorLock(v)})
  <2>1. \A u \in Vendors : evidence'[u] = evidence[u]
    BY <1>0
  <2>2. /\ vendors[v].status \in {"ACTIVE", "SUSPENDED"} => w.status \in {"ACTIVE", "SUSPENDED"}
        /\ w.status = "UNDER_REVIEW" => w.online \/ vendors[v].status = "UNDER_REVIEW"
        /\ w.status = "APPROVED" => w.online \/ vendors[v].status = "APPROVED"
    BY <1>4
  <2> QED BY <1>0, <1>3, <1>4, <1>6, <2>1, <2>2, VendorChanges
<1>8. Steady(held[r])
  BY <1>0, <1>7, SteadyMore
<1>9. Typed'
  BY <1>0, <1>7 DEF Inv, Typed, Runs, market
<1> QED BY <1>0, <1>7, <1>8, <1>9, End

LEMMA PromotedTo ==
  ASSUME NEW status, NEW verdict, NEW last \in BOOLEAN
  PROVE  /\ status # "UNDER_REVIEW" => Promoted(status, verdict, last) = status
         /\ status = "UNDER_REVIEW" /\ verdict = "APPROVED" /\ last => Promoted(status, verdict, last) = "APPROVED"
         /\ status = "UNDER_REVIEW" /\ verdict = "APPROVED" /\ ~last => Promoted(status, verdict, last) = "UNDER_REVIEW"
         /\ status = "UNDER_REVIEW" /\ verdict = "REJECTED" => Promoted(status, verdict, last) = "REJECTED"
         /\ status = "UNDER_REVIEW" /\ verdict = "RESUBMISSION_REQUESTED" => Promoted(status, verdict, last) = "UNDER_REVIEW"
<1>1. CASE status # "UNDER_REVIEW"
  BY <1>1 DEF Promoted
<1>2. CASE status = "UNDER_REVIEW" /\ verdict = "APPROVED" /\ last
  BY <1>2 DEF Promoted
<1>3. CASE status = "UNDER_REVIEW" /\ verdict = "APPROVED" /\ ~last
  BY <1>3 DEF Promoted
<1>4. CASE status = "UNDER_REVIEW" /\ verdict # "APPROVED"
  BY <1>4 DEF Promoted
<1> QED BY <1>1, <1>2, <1>3, <1>4

LEMMA WarehouseSubmittedEnds ==
  ASSUME Inv, NEW r \in Requests, WarehouseSubmitted(r), UNCHANGED market PROVE Inv'
<1> PICK v : v = running[r].vendor
  OBVIOUS
<1>0. /\ v \in Vendors /\ VendorLock(v) \in held[r] /\ Runs(r, Idle, {}) /\ UNCHANGED branches /\ vendors[v].online
      /\ vendors[v].status \in {"APPLIED", "UNDER_REVIEW"}
  BY DEF Inv, Fits, FitsVendor, WarehouseSubmitted, Commits
<1>1. vendors[v] \in Vendor
  BY <1>0 DEF Inv, Typed
<1>2. PICK w : w = [vendors[v] EXCEPT !.status = "UNDER_REVIEW"]
  OBVIOUS
<1>3. vendors' = [vendors EXCEPT ![v] = w]
  BY <1>0, <1>1, <1>2 DEF WarehouseSubmitted, Becomes, Inv, Typed, Vendor
<1>4. w \in Vendor /\ w.online = vendors[v].online /\ w.online = TRUE
      /\ (vendors[v].status \in {"ACTIVE", "SUSPENDED"} => w.status \in {"ACTIVE", "SUSPENDED"})
  BY <1>0, <1>1, <1>2 DEF Vendor, Promoted, Verdicts
<1>5. DOMAIN evidence' = Vendors /\ \A u \in Vendors : u # v => evidence'[u] = evidence[u]
  BY <1>0 DEF WarehouseSubmitted, Inv, Typed
<1>6. \A u \in Vendors : evidence'[u] = evidence[u] \/ (u = v /\ w.online = TRUE)
  BY <1>4, <1>5
<1>7. vendors' \in [Vendors -> Vendor] /\ States' /\ Steady({VendorLock(v)})
  BY <1>0, <1>3, <1>4, <1>6, VendorChanges
<1>8. Steady(held[r])
  BY <1>0, <1>7, SteadyMore
<1>9. Typed'
  BY <1>0, <1>5, <1>7 DEF Inv, Typed, Runs, market
<1> QED BY <1>0, <1>7, <1>8, <1>9, End

LEMMA WarehouseDecidedEnds ==
  ASSUME Inv, NEW r \in Requests, WarehouseDecided(r), UNCHANGED market PROVE Inv'
<1> PICK v : v = running[r].vendor
  OBVIOUS
<1>0. /\ v \in Vendors /\ VendorLock(v) \in held[r] /\ Runs(r, Idle, {}) /\ UNCHANGED branches /\ vendors[v].online
      /\ running[r].verdict \in Verdicts
  BY DEF Inv, Fits, FitsVendor, WarehouseDecided, Commits
<1>1. vendors[v] \in Vendor
  BY <1>0 DEF Inv, Typed
<1>2. PICK w : w = [vendors[v] EXCEPT !.status = Promoted(@, running[r].verdict, TRUE)]
  OBVIOUS
<1>3. vendors' = [vendors EXCEPT ![v] = w]
  BY <1>0, <1>1, <1>2 DEF WarehouseDecided, Becomes, Inv, Typed, Vendor
<1>4. w \in Vendor /\ w.online = vendors[v].online /\ w.online = TRUE
      /\ (vendors[v].status \in {"ACTIVE", "SUSPENDED"} => w.status \in {"ACTIVE", "SUSPENDED"})
  <2>1. PICK x : x = Promoted(vendors[v].status, running[r].verdict, TRUE)
    OBVIOUS
  <2>2. x \in {"APPLIED", "UNDER_REVIEW", "APPROVED", "REJECTED", "ACTIVE", "SUSPENDED"}
        /\ (vendors[v].status \in {"ACTIVE", "SUSPENDED"} => x = vendors[v].status)
    <3>1. vendors[v].status \in {"APPLIED", "UNDER_REVIEW", "APPROVED", "REJECTED", "ACTIVE", "SUSPENDED"}
      BY <1>1 DEF Vendor
    <3>2. PICK s, d : s = vendors[v].status /\ d = running[r].verdict
      OBVIOUS
    <3>3. x = Promoted(s, d, TRUE)
      BY <2>1, <3>2
    <3> QED BY <3>1, <3>2, <3>3 DEF Promoted
  <2>3. w = [vendors[v] EXCEPT !.status = x]
    BY <1>2, <2>1
  <2> QED BY <1>0, <1>1, <2>2, <2>3 DEF Vendor
<1>5. DOMAIN evidence' = Vendors /\ \A u \in Vendors : u # v => evidence'[u] = evidence[u]
  BY <1>0 DEF WarehouseDecided, Inv, Typed
<1>6. \A u \in Vendors : evidence'[u] = evidence[u] \/ (u = v /\ w.online = TRUE)
  BY <1>4, <1>5
<1>7. vendors' \in [Vendors -> Vendor] /\ States' /\ Steady({VendorLock(v)})
  BY <1>0, <1>3, <1>4, <1>6, VendorChanges
<1>8. Steady(held[r])
  BY <1>0, <1>7, SteadyMore
<1>9. Typed'
  BY <1>0, <1>5, <1>7 DEF Inv, Typed, Runs, market
<1> QED BY <1>0, <1>7, <1>8, <1>9, End

LEMMA RefreshAside ==
  ASSUME Inv, NEW v \in Vendors, Refresh(v), UNCHANGED market PROVE Inv'
<1>1. vendors[v] \in Vendor
  BY DEF Inv, Typed
<1>2. PICK w : w = Refreshed(vendors[v])
  OBVIOUS
<1>3. vendors' = [vendors EXCEPT ![v] = w] /\ UNCHANGED <<branches, evidence>> /\ UNCHANGED <<running, held>>
  BY <1>1, <1>2 DEF Refresh, Becomes, Writes, transactions, Inv, Typed, Vendor
<1>4. w \in Vendor /\ w.online = vendors[v].online /\ w.status = vendors[v].status
  BY <1>1, <1>2 DEF Vendor, Refreshed
<1>5. \A u \in Vendors : evidence'[u] = evidence[u]
  BY <1>3
<1>6. vendors' \in [Vendors -> Vendor] /\ States' /\ Steady({VendorLock(v)})
  BY <1>3, <1>4, <1>5, VendorChanges
<1>7. Typed'
  BY <1>3, <1>6 DEF Inv, Typed, market
<1> QED BY <1>3, <1>6, <1>7, Aside DEF Refresh, Writes

LEMMA PublishAside ==
  ASSUME Inv, NEW v \in Vendors, Publish(v), UNCHANGED market PROVE Inv'
<1>1. vendors[v] \in Vendor
  BY DEF Inv, Typed
<1>2. PICK w : w = [vendors[v] EXCEPT !.published = ~@]
  OBVIOUS
<1>3. vendors' = [vendors EXCEPT ![v] = w] /\ UNCHANGED <<branches, evidence>> /\ UNCHANGED <<running, held>>
  BY <1>1, <1>2 DEF Publish, Becomes, Writes, transactions, Inv, Typed, Vendor
<1>4. w \in Vendor /\ w.online = vendors[v].online /\ w.status = vendors[v].status
  BY <1>1, <1>2 DEF Vendor, Refreshed
<1>5. \A u \in Vendors : evidence'[u] = evidence[u]
  BY <1>3
<1>6. vendors' \in [Vendors -> Vendor] /\ States' /\ Steady({VendorLock(v)})
  BY <1>3, <1>4, <1>5, VendorChanges
<1>7. Typed'
  BY <1>3, <1>6 DEF Inv, Typed, market
<1> QED BY <1>3, <1>6, <1>7, Aside DEF Publish, Writes

LEMMA PeriodEndsAside ==
  ASSUME Inv, NEW v \in Vendors, PeriodEnds(v), UNCHANGED market PROVE Inv'
<1>1. vendors[v] \in Vendor
  BY DEF Inv, Typed
<1>2. PICK w : w = [vendors[v] EXCEPT !.lapsed = TRUE]
  OBVIOUS
<1>3. vendors' = [vendors EXCEPT ![v] = w] /\ UNCHANGED <<branches, evidence>> /\ UNCHANGED <<running, held>>
  BY <1>1, <1>2 DEF PeriodEnds, Becomes, Writes, transactions, Inv, Typed, Vendor
<1>4. w \in Vendor /\ w.online = vendors[v].online /\ w.status = vendors[v].status
  BY <1>1, <1>2 DEF Vendor, Refreshed
<1>5. \A u \in Vendors : evidence'[u] = evidence[u]
  BY <1>3
<1>6. vendors' \in [Vendors -> Vendor] /\ States' /\ Steady({VendorLock(v)})
  BY <1>3, <1>4, <1>5, VendorChanges
<1>7. Typed'
  BY <1>3, <1>6 DEF Inv, Typed, market
<1>8. \A u \in Vendors : /\ vendors'[u].status = vendors[u].status /\ vendors'[u].online = vendors[u].online
                      /\ vendors'[u].published = vendors[u].published /\ vendors'[u].subscription = vendors[u].subscription
  BY <1>1, <1>2, <1>3 DEF Inv, Typed, Vendor
<1>9. Steady({})
  BY <1>3, <1>8 DEF Steady, SteadyBranches, SteadyVendors, SteadyHolds, SteadyStaff, IsMember, HoldsAt, Live, market
<1> QED BY <1>3, <1>6, <1>7, <1>9, Aside DEF Free

LEMMA Unmoved ==
  ASSUME Inv, UNCHANGED <<sellers, staff, invites, holds>> PROVE States' /\ Steady({})
BY DEF Inv, States, DecisionsMatchEvidence, QuorumDecides, StoreTypeMatchesBranches, WarehousesAreOnline,
       ArchivedBranchesTakeNoWork, InvitesAreForTheUnemployed, BranchesOf, HoldsAt, Live, sellers,
       Steady, SteadyBranches, SteadyVendors, SteadyHolds, SteadyStaff, IsMember

(* updateStoreType() can only write the type that the vendor has.               *)
LEMMA StoreTypeChangedEnds ==
  ASSUME Inv, NEW r \in Requests, StoreTypeChanged(r), UNCHANGED market PROVE Inv'
<1>1. running[r].vendor \in Vendors /\ running[r].online = vendors[running[r].vendor].online
  BY DEF Inv, Fits, FitsVendor, StoreTypeChanged, Commits
<1>2. UNCHANGED vendors
  BY <1>1 DEF StoreTypeChanged, Inv, Typed, Vendor
<1>3. Typed'
  BY <1>2 DEF StoreTypeChanged, Commits, Runs, Inv, Typed, market
<1>4. UNCHANGED <<sellers, staff, invites, holds>>
  BY <1>2 DEF StoreTypeChanged, sellers, market
<1>5. States' /\ Steady({})
  BY <1>4, Unmoved
<1> QED BY <1>3, <1>5, SteadyMore, End DEF StoreTypeChanged, Commits

LEMMA RollsBackEnds ==
  ASSUME Inv, NEW r \in Requests, RollsBack(r), UNCHANGED market PROVE Inv'
<1>1. Typed'
  BY DEF RollsBack, Abandons, Runs, Inv, Typed, sellers, market
<1>2. States' /\ Steady({})
  BY Unmoved DEF RollsBack, market
<1> QED BY <1>1, <1>2, SteadyMore, End DEF RollsBack, Abandons

(* A branch under review changes, and its vendor's status with it.              *)
LEMMA ReviewChanges ==
  ASSUME Inv, NEW b \in Branches, NEW c \in Branch, branches' = [branches EXCEPT ![b] = c],
         branches[b].exists, ~branches[b].archived, c.exists, ~c.archived,
         c.status \in Verdicts => c.decided = c.revision,
         NEW s \in {"APPLIED", "UNDER_REVIEW", "APPROVED", "REJECTED", "ACTIVE", "SUSPENDED"},
         vendors' = [vendors EXCEPT ![OwnerOf[b]].status = s],
         vendors[OwnerOf[b]].status \in {"ACTIVE", "SUSPENDED"} => s \in {"ACTIVE", "SUSPENDED"},
         s = "UNDER_REVIEW" => \E d \in BranchesOf(OwnerOf[b]) : branches'[d].status # "APPROVED",
         s = "APPROVED" => \A d \in BranchesOf(OwnerOf[b]) : branches'[d].status = "APPROVED",
         UNCHANGED <<evidence, market>>
  PROVE  branches' \in [Branches -> Branch] /\ vendors' \in [Vendors -> Vendor] /\ States' /\ Steady(ReviewLocks(b))
<1> PICK v : v = OwnerOf[b]
  OBVIOUS
<1>0. v \in Vendors /\ branches \in [Branches -> Branch] /\ vendors \in [Vendors -> Vendor] /\ vendors[v] \in Vendor
  BY OwnerAssumption DEF Inv, Typed
<1>1. branches' \in [Branches -> Branch] /\ branches'[b] = c /\ \A d \in Branches \ {b} : branches'[d] = branches[d]
  BY <1>0
<1>2. PICK w : w = [vendors[v] EXCEPT !.status = s]
  OBVIOUS
<1>3. w \in Vendor /\ w.status = s /\ w.online = vendors[v].online
  BY <1>0, <1>2 DEF Vendor
<1>4. vendors' = [vendors EXCEPT ![v] = w]
  BY <1>0, <1>2
<1>5. vendors' \in [Vendors -> Vendor] /\ vendors'[v] = w /\ \A u \in Vendors \ {v} : vendors'[u] = vendors[u]
  BY <1>0, <1>3, <1>4
<1>6. \A u \in Vendors : BranchesOf(u)' = BranchesOf(u) /\ vendors'[u].online = vendors[u].online
  BY <1>1, <1>3, <1>5 DEF BranchesOf
<1>7. StoreTypeMatchesBranches' /\ WarehousesAreOnline'
  BY <1>6 DEF Inv, States, StoreTypeMatchesBranches, WarehousesAreOnline
<1>8. DecisionsMatchEvidence' /\ ArchivedBranchesTakeNoWork' /\ InvitesAreForTheUnemployed'
  BY <1>1 DEF Inv, States, DecisionsMatchEvidence, ArchivedBranchesTakeNoWork, InvitesAreForTheUnemployed, HoldsAt, Live, market
<1>9. QuorumDecides'
  <2>1. ASSUME NEW u \in Vendors
        PROVE  /\ vendors'[u].status = "UNDER_REVIEW" /\ ~vendors'[u].online =>
                    \E d \in BranchesOf(u) : branches'[d].status # "APPROVED"
               /\ vendors'[u].status = "APPROVED" => \A d \in BranchesOf(u) : branches'[d].status = "APPROVED"
    <3>1. CASE u = v
      BY <1>3, <1>5, <3>1
    <3>2. CASE u # v
      <4>1. \A d \in BranchesOf(u) : branches'[d] = branches[d]
        BY <1>1, <3>2 DEF BranchesOf
      <4> QED BY <1>5, <3>2, <4>1 DEF Inv, States, QuorumDecides
    <3> QED BY <3>1, <3>2
  <2> QED BY <1>6, <2>1 DEF QuorumDecides
<1>10. SteadyBranches(ReviewLocks(b))
  BY <1>1 DEF SteadyBranches, ReviewLocks, HoldsAt, Live, market
<1>11. SteadyVendors(ReviewLocks(b))
  <2>1. ASSUME NEW u \in Vendors, VendorLock(u) \notin ReviewLocks(b)
        PROVE  /\ vendors'[u] = vendors[u] /\ \A p : ~IsMember(p, u) => ~IsMember(p, u)'
               /\ \A d \in Branches : OwnerOf[d] = u => branches'[d] = branches[d]
    BY <1>1, <1>5, <2>1 DEF ReviewLocks, IsMember, market
  <2>2. vendors[v].status \in {"ACTIVE", "SUSPENDED"} => vendors'[v].status \in {"ACTIVE", "SUSPENDED"}
    BY <1>3, <1>5
  <2>3. \A u \in Vendors : vendors[u].status \in {"ACTIVE", "SUSPENDED"} => vendors'[u].status \in {"ACTIVE", "SUSPENDED"}
    BY <1>5, <2>2
  <2> QED BY <1>6, <2>1, <2>3 DEF SteadyVendors
<1>12. SteadyHolds(ReviewLocks(b)) /\ SteadyStaff(ReviewLocks(b))
  BY DEF SteadyHolds, SteadyStaff, market
<1> QED BY <1>1, <1>5, <1>7, <1>8, <1>9, <1>10, <1>11, <1>12 DEF States, Steady

LEMMA IsBranch ==
  ASSUME NEW w, NEW x \in Branch, DOMAIN w = DOMAIN x, w = [f \in DOMAIN w |-> w[f]],
         w.exists \in BOOLEAN, w.status \in Verdicts \union {"PENDING"}, w.revision \in Nat, w.decided \in Nat,
         w.archived \in BOOLEAN, w.closure \in {"none", "ahead", "now"}
  PROVE  w \in Branch
<1>1. DOMAIN w = {"exists", "status", "revision", "decided", "archived", "closure"}
  BY DEF Branch
<1>2. w = [exists |-> w.exists, status |-> w.status, revision |-> w.revision, decided |-> w.decided,
           archived |-> w.archived, closure |-> w.closure]
  BY <1>1
<1> QED BY <1>2 DEF Branch

LEMMA EvidenceSubmittedEnds ==
  ASSUME Inv, NEW r \in Requests, EvidenceSubmitted(r), UNCHANGED market PROVE Inv'
<1> PICK b : b = running[r].branch
  OBVIOUS
<1>0. /\ b \in Branches /\ OwnerOf[b] \in Vendors /\ ReviewLocks(b) \subseteq held[r] /\ Runs(r, Idle, {}) /\ UNCHANGED evidence
      /\ branches[b].exists /\ ~branches[b].archived /\ vendors[OwnerOf[b]].status \in {"APPLIED", "UNDER_REVIEW", "ACTIVE"}
      /\ branches[b] \in Branch /\ vendors[OwnerOf[b]] \in Vendor
  BY OwnerAssumption DEF Inv, Typed, Fits, FitsReview, Reviewing, EvidenceSubmitted, Commits
<1>1. PICK c : c = [branches[b] EXCEPT !.status = "PENDING", !.revision = @ + 1, !.decided = 0]
  OBVIOUS
<1>2. branches' = [branches EXCEPT ![b] = c]
  BY <1>0, <1>1 DEF EvidenceSubmitted, Inv, Typed, Branch
<1>3. /\ DOMAIN c = DOMAIN branches[b] /\ c = [f \in DOMAIN c |-> c[f]] /\ c.exists = branches[b].exists
      /\ c.archived = branches[b].archived /\ c.status = "PENDING" /\ c.decided = 0 /\ c.revision = branches[b].revision + 1
      /\ c.closure = branches[b].closure
  BY <1>0, <1>1 DEF Branch
<1>4. c \in Branch
  <2>1. c.revision \in Nat /\ c.decided \in Nat /\ c.exists \in BOOLEAN /\ c.archived \in BOOLEAN
    BY <1>0, <1>1 DEF Branch
  <2>2. c.closure \in {"none", "ahead", "now"} /\ c.status \in Verdicts \union {"PENDING"}
    BY <1>0, <1>1 DEF Branch
  <2> QED BY <1>0, <1>3, <2>1, <2>2, IsBranch
<1>5. PICK s : s = IF running[r].first THEN "UNDER_REVIEW" ELSE vendors[OwnerOf[b]].status
  OBVIOUS
<1>6. vendors' = [vendors EXCEPT ![OwnerOf[b]].status = s]
  BY <1>0, <1>5 DEF EvidenceSubmitted, Inv, Typed, Vendor
<1>7. /\ s \in {"APPLIED", "UNDER_REVIEW", "ACTIVE"}
      /\ vendors[OwnerOf[b]].status \in {"ACTIVE", "SUSPENDED"} => s \in {"ACTIVE", "SUSPENDED"}
  BY <1>0, <1>5 DEF Inv, Fits, FitsReview, EvidenceSubmitted, Commits
<1>8. b \in BranchesOf(OwnerOf[b]) /\ branches'[b].status = "PENDING"
  BY <1>0, <1>2, <1>3 DEF BranchesOf, Inv, Typed
<1>9. branches' \in [Branches -> Branch] /\ vendors' \in [Vendors -> Vendor] /\ States' /\ Steady(ReviewLocks(b))
  <2>1. c.exists /\ ~c.archived /\ c.status \notin Verdicts
    BY <1>0, <1>3 DEF Verdicts
  <2>2. \E d \in BranchesOf(OwnerOf[b]) : branches'[d].status # "APPROVED"
    BY <1>8
  <2>3. s \in {"APPLIED", "UNDER_REVIEW", "APPROVED", "REJECTED", "ACTIVE", "SUSPENDED"} /\ s # "APPROVED"
    BY <1>7
  <2> QED BY <1>0, <1>2, <1>4, <1>6, <1>7, <2>1, <2>2, <2>3, ReviewChanges
<1>10. Steady(held[r])
  BY <1>0, <1>9, SteadyMore
<1>11. Typed'
  BY <1>0, <1>9 DEF Inv, Typed, Runs, market
<1> QED BY <1>0, <1>9, <1>10, <1>11, End

LEMMA DecidedEnds ==
  ASSUME Inv, NEW r \in Requests, Decided(r), UNCHANGED market PROVE Inv'
<1> PICK b, d : b = running[r].branch /\ d = running[r].verdict
  OBVIOUS
<1>0. /\ b \in Branches /\ OwnerOf[b] \in Vendors /\ ReviewLocks(b) \subseteq held[r] /\ Runs(r, Idle, {}) /\ UNCHANGED evidence
      /\ branches[b].exists /\ ~branches[b].archived /\ running[r].revision = branches[b].revision /\ d \in Verdicts
      /\ vendors[OwnerOf[b]].status = "UNDER_REVIEW" => (running[r].last <=> OthersApproved(b))
      /\ branches[b] \in Branch /\ vendors[OwnerOf[b]] \in Vendor
  BY OwnerAssumption DEF Inv, Typed, Fits, FitsReview, Reviewing, Decided, Commits
<1>1. PICK c : c = [branches[b] EXCEPT !.status = d, !.decided = branches[b].revision]
  OBVIOUS
<1>2. branches' = [branches EXCEPT ![b] = c]
  BY <1>0, <1>1 DEF Decided, Inv, Typed, Branch
<1>3. /\ DOMAIN c = DOMAIN branches[b] /\ c = [f \in DOMAIN c |-> c[f]] /\ c.exists = branches[b].exists
      /\ c.archived = branches[b].archived /\ c.status = d /\ c.decided = branches[b].revision /\ c.revision = branches[b].revision
      /\ c.closure = branches[b].closure
  BY <1>0, <1>1 DEF Branch
<1>4. c \in Branch
  BY <1>0, <1>3, IsBranch DEF Branch
<1>5. PICK t, s : t = vendors[OwnerOf[b]].status /\ s = Promoted(t, d, running[r].last)
  OBVIOUS
<1>6. vendors' = [vendors EXCEPT ![OwnerOf[b]].status = s]
  BY <1>0, <1>5 DEF Decided, Inv, Typed, Vendor
<1>7. t \in {"APPLIED", "UNDER_REVIEW", "APPROVED", "REJECTED", "ACTIVE", "SUSPENDED"}
  BY <1>0, <1>5 DEF Vendor
<1>8. /\ s \in {"APPLIED", "UNDER_REVIEW", "APPROVED", "REJECTED", "ACTIVE", "SUSPENDED"}
      /\ t \in {"ACTIVE", "SUSPENDED"} => s = t
  BY <1>5, <1>7 DEF Promoted
<1>9. branches'[b] = c /\ \A e \in Branches \ {b} : branches'[e] = branches[e]
  BY <1>0, <1>2 DEF Inv, Typed
<1>10. /\ b \in BranchesOf(OwnerOf[b])
       /\ \A e \in BranchesOf(OwnerOf[b]) : e # b => branches'[e].status = branches[e].status
  BY <1>0, <1>9 DEF BranchesOf
<1>11. s = "UNDER_REVIEW" => \E e \in BranchesOf(OwnerOf[b]) : branches'[e].status # "APPROVED"
  <2> SUFFICES ASSUME s = "UNDER_REVIEW" PROVE \E e \in BranchesOf(OwnerOf[b]) : branches'[e].status # "APPROVED"
    OBVIOUS
  <2>1. CASE d = "APPROVED"
    <3>1. t = "UNDER_REVIEW" /\ ~running[r].last
      BY <1>5, <2>1 DEF Promoted
    <3>2. ~OthersApproved(b)
      BY <1>0, <1>5, <3>1
    <3> QED BY <1>10, <3>2 DEF OthersApproved
  <2>2. CASE d # "APPROVED"
    BY <1>3, <1>9, <1>10, <2>2
  <2> QED BY <2>1, <2>2
<1>12. s = "APPROVED" => \A e \in BranchesOf(OwnerOf[b]) : branches'[e].status = "APPROVED"
  <2> SUFFICES ASSUME s = "APPROVED" PROVE \A e \in BranchesOf(OwnerOf[b]) : branches'[e].status = "APPROVED"
    OBVIOUS
  <2>1. CASE t = "UNDER_REVIEW"
    <3>1. d = "APPROVED" /\ running[r].last
      BY <1>5, <2>1 DEF Promoted
    <3>2. OthersApproved(b)
      BY <1>0, <1>5, <2>1, <3>1
    <3> QED BY <1>3, <1>9, <1>10, <3>1, <3>2 DEF OthersApproved
  <2>2. CASE t # "UNDER_REVIEW"
    <3>1. t = "APPROVED"
      BY <1>5, <2>2 DEF Promoted
    <3>2. branches[b].status = "PENDING" /\ vendors[OwnerOf[b]].status = "APPROVED"
      BY <1>5, <3>1 DEF Inv, Fits, FitsReview, Decided, Commits
    <3> QED BY <1>0, <1>10, <3>2 DEF Inv, States, QuorumDecides
  <2> QED BY <2>1, <2>2
<1>13. branches' \in [Branches -> Branch] /\ vendors' \in [Vendors -> Vendor] /\ States' /\ Steady(ReviewLocks(b))
  <2>1. c.exists /\ ~c.archived /\ c.decided = c.revision
    BY <1>0, <1>3
  <2>2. vendors[OwnerOf[b]].status \in {"ACTIVE", "SUSPENDED"} => s \in {"ACTIVE", "SUSPENDED"}
    BY <1>5, <1>8
  <2> QED BY <1>0, <1>2, <1>4, <1>6, <1>8, <1>11, <1>12, <2>1, <2>2, ReviewChanges
<1>14. Steady(held[r])
  BY <1>0, <1>13, SteadyMore
<1>15. Typed'
  BY <1>0, <1>13 DEF Inv, Typed, Runs, market
<1> QED BY <1>0, <1>13, <1>14, <1>15, End

LEMMA BranchAddedEnds ==
  ASSUME Inv, NEW r \in Requests, NEW b \in Branches, BranchAdded(r, b), UNCHANGED market PROVE Inv'
<1> PICK v : v = OwnerOf[b]
  OBVIOUS
<1>0. /\ v \in Vendors /\ ~branches[b].exists /\ Runs(r, Idle, {}) /\ UNCHANGED <<vendors, evidence>>
      /\ ~vendors[v].online /\ vendors[v].status \in {"ACTIVE", "SUSPENDED"}
  BY DEF Inv, Fits, FitsVendor, BranchAdded, Commits
<1>1. NewBranch \in Branch /\ NewBranch.exists /\ ~NewBranch.archived /\ NewBranch.status = "PENDING"
  BY DEF Branch, NewBranch, Verdicts
<1>2. /\ branches' \in [Branches -> Branch] /\ branches'[b] = NewBranch
      /\ \A d \in Branches \ {b} : branches'[d] = branches[d]
  BY <1>1 DEF BranchAdded, Inv, Typed
<1>3. \A u \in Vendors : u # v => BranchesOf(u)' = BranchesOf(u)
  BY <1>0, <1>2 DEF BranchesOf
<1>4. b \in BranchesOf(v)' /\ BranchesOf(v) \subseteq BranchesOf(v)'
  BY <1>0, <1>1, <1>2 DEF BranchesOf
<1>5. StoreTypeMatchesBranches' /\ WarehousesAreOnline'
  BY <1>0, <1>3, <1>4 DEF Inv, States, StoreTypeMatchesBranches, WarehousesAreOnline
<1>6. QuorumDecides'
  <2>1. ASSUME NEW u \in Vendors, u # v
        PROVE  /\ vendors[u].status = "UNDER_REVIEW" /\ ~vendors[u].online => \E d \in BranchesOf(u) : branches'[d].status # "APPROVED"
               /\ vendors[u].status = "APPROVED" => \A d \in BranchesOf(u) : branches'[d].status = "APPROVED"
    <3>1. \A d \in BranchesOf(u) : branches'[d] = branches[d]
      BY <1>2, <2>1 DEF BranchesOf
    <3> QED BY <3>1 DEF Inv, States, QuorumDecides
  <2> QED BY <1>0, <1>3, <2>1 DEF QuorumDecides
<1>7. DecisionsMatchEvidence' /\ ArchivedBranchesTakeNoWork' /\ InvitesAreForTheUnemployed'
  BY <1>1, <1>2 DEF Inv, States, DecisionsMatchEvidence, ArchivedBranchesTakeNoWork, InvitesAreForTheUnemployed, HoldsAt, Live,
                    market, Verdicts
<1>8. Steady({})
  <2>1. SteadyBranches({})
    BY <1>0, <1>2 DEF SteadyBranches, HoldsAt, Live, market
  <2>2. SteadyVendors({})
    BY <1>0, <1>2 DEF SteadyVendors, IsMember, market
  <2> QED BY <2>1, <2>2 DEF Steady, SteadyHolds, SteadyStaff, market
<1>9. Typed'
  BY <1>0, <1>2 DEF Inv, Typed, Runs, market
<1> QED BY <1>0, <1>5, <1>6, <1>7, <1>8, <1>9, SteadyMore, End DEF States

LEMMA BranchRowChanges ==
  ASSUME Inv, NEW b \in Branches, NEW c \in Branch, branches' = [branches EXCEPT ![b] = c], UNCHANGED <<vendors, evidence, market>>,
         c.exists = branches[b].exists, c.status = branches[b].status, c.revision = branches[b].revision,
         c.decided = branches[b].decided, branches[b].archived => c.archived
  PROVE  /\ branches' \in [Branches -> Branch] /\ DecisionsMatchEvidence' /\ QuorumDecides' /\ StoreTypeMatchesBranches'
         /\ WarehousesAreOnline' /\ InvitesAreForTheUnemployed' /\ Steady({BranchLock(b)})
         /\ c.archived = branches[b].archived => Steady({})
<1>1. /\ branches' \in [Branches -> Branch] /\ branches'[b] = c
      /\ \A d \in Branches : branches'[d].exists = branches[d].exists /\ branches'[d].status = branches[d].status
                             /\ branches'[d].revision = branches[d].revision /\ branches'[d].decided = branches[d].decided
      /\ \A d \in Branches \ {b} : branches'[d] = branches[d]
  BY DEF Inv, Typed
<1>2. \A u \in Vendors : BranchesOf(u)' = BranchesOf(u)
  BY <1>1 DEF BranchesOf
<1>3. QuorumDecides' /\ StoreTypeMatchesBranches' /\ WarehousesAreOnline'
  <2>1. StoreTypeMatchesBranches' /\ WarehousesAreOnline'
    BY <1>2 DEF Inv, States, StoreTypeMatchesBranches, WarehousesAreOnline
  <2>2. \A u \in Vendors : \A d \in BranchesOf(u) : branches'[d].status = branches[d].status
    BY <1>1 DEF BranchesOf
  <2> QED BY <1>2, <2>1, <2>2 DEF Inv, States, QuorumDecides
<1>4. DecisionsMatchEvidence' /\ InvitesAreForTheUnemployed'
  BY <1>1 DEF Inv, States, DecisionsMatchEvidence, InvitesAreForTheUnemployed, market
<1>5. SteadyVendors({BranchLock(b)}) /\ SteadyVendors({})
  BY <1>1 DEF SteadyVendors, IsMember, market
<1>6. SteadyBranches({BranchLock(b)}) /\ (c.archived = branches[b].archived => SteadyBranches({}))
  BY <1>1 DEF SteadyBranches, HoldsAt, Live, market
<1> QED BY <1>1, <1>3, <1>4, <1>5, <1>6 DEF Steady, SteadyHolds, SteadyStaff, market

LEMMA ArchivedEnds ==
  ASSUME Inv, NEW r \in Requests, Archived(r), UNCHANGED market PROVE Inv'
<1> PICK b : b = running[r].branch
  OBVIOUS
<1>0. /\ b \in Branches /\ BranchLock(b) \in held[r] /\ Runs(r, Idle, {}) /\ UNCHANGED <<vendors, evidence>> /\ branches[b].exists
      /\ HoldsAt(b) = {} /\ ~(branches[b].status = "PENDING" /\ branches[b].revision >= 1) /\ branches[b] \in Branch
  BY DEF Inv, Typed, Fits, FitsBranch, Archived, Commits
<1>1. PICK c : c = [branches[b] EXCEPT !.archived = TRUE]
  OBVIOUS
<1>2. branches' = [branches EXCEPT ![b] = c]
  BY <1>0, <1>1 DEF Archived, Inv, Typed, Branch
<1>3. /\ c \in Branch /\ c.archived /\ c.exists = branches[b].exists /\ c.status = branches[b].status
      /\ c.revision = branches[b].revision /\ c.decided = branches[b].decided
  BY <1>0, <1>1 DEF Branch
<1>4. /\ branches' \in [Branches -> Branch] /\ DecisionsMatchEvidence' /\ QuorumDecides' /\ StoreTypeMatchesBranches'
      /\ WarehousesAreOnline' /\ InvitesAreForTheUnemployed' /\ Steady({BranchLock(b)})
  BY <1>0, <1>2, <1>3, BranchRowChanges
<1>5. ArchivedBranchesTakeNoWork'
  BY <1>0, <1>2, <1>3 DEF Inv, Typed, States, ArchivedBranchesTakeNoWork, HoldsAt, Live, market
<1>6. Steady(held[r])
  BY <1>0, <1>4, SteadyMore
<1>7. Typed'
  BY <1>0, <1>4 DEF Inv, Typed, Runs, market
<1> QED BY <1>0, <1>4, <1>5, <1>6, <1>7, End DEF States

LEMMA ClosureAside ==
  ASSUME Inv, NEW b \in Branches, NEW closure \in {"now", "ahead"}, Close(b, closure) \/ ClosurePasses(b), UNCHANGED market
  PROVE  Inv'
<1>0. branches[b] \in Branch /\ UNCHANGED <<vendors, evidence>> /\ UNCHANGED <<running, held>>
  BY DEF Inv, Typed, Close, ClosurePasses, Writes, transactions
<1>1. PICK k \in {"none", "ahead", "now"} : branches' = [branches EXCEPT ![b].closure = k]
  <2>1. CASE Close(b, closure)
    BY <2>1 DEF Close
  <2>2. CASE ClosurePasses(b)
    BY <2>2 DEF ClosurePasses
  <2> QED BY <2>1, <2>2
<1>2. PICK c : c = [branches[b] EXCEPT !.closure = k]
  OBVIOUS
<1>3. branches' = [branches EXCEPT ![b] = c]
  BY <1>0, <1>1, <1>2 DEF Inv, Typed, Branch
<1>4. /\ c \in Branch /\ c.archived = branches[b].archived /\ c.exists = branches[b].exists /\ c.status = branches[b].status
      /\ c.revision = branches[b].revision /\ c.decided = branches[b].decided
  BY <1>0, <1>1, <1>2 DEF Branch
<1>5. /\ branches' \in [Branches -> Branch] /\ DecisionsMatchEvidence' /\ QuorumDecides' /\ StoreTypeMatchesBranches'
      /\ WarehousesAreOnline' /\ InvitesAreForTheUnemployed' /\ Steady({})
  BY <1>0, <1>3, <1>4, BranchRowChanges
<1>6. ArchivedBranchesTakeNoWork'
  BY <1>3, <1>4 DEF Inv, Typed, States, ArchivedBranchesTakeNoWork, HoldsAt, Live, market
<1>7. Typed'
  BY <1>0, <1>5 DEF Inv, Typed, market
<1> QED BY <1>0, <1>5, <1>6, <1>7, Aside DEF States, Free

(* Steps that change only who works where.                                    *)
LEMMA SellersKeep ==
  ASSUME Inv, UNCHANGED <<sellers, holds>>
  PROVE  /\ DecisionsMatchEvidence' /\ QuorumDecides' /\ StoreTypeMatchesBranches' /\ WarehousesAreOnline'
         /\ ArchivedBranchesTakeNoWork'
         /\ \A L : SteadyBranches(L) /\ SteadyHolds(L)
BY DEF Inv, States, DecisionsMatchEvidence, QuorumDecides, StoreTypeMatchesBranches, WarehousesAreOnline,
       ArchivedBranchesTakeNoWork, BranchesOf, HoldsAt, Live, sellers, SteadyBranches, SteadyHolds

LEMMA InvitedEnds ==
  ASSUME Inv, NEW r \in Requests, Invited(r) PROVE Inv'
<1> PICK p, b : p = running[r].person /\ b = running[r].branch
  OBVIOUS
<1>0. /\ p \in People /\ b \in Branches /\ PhoneLock(p) \in held[r] /\ staff[p] = NoOne /\ invites[p] = NoOne
      /\ Runs(r, Idle, {}) /\ UNCHANGED <<sellers, staff, holds, orders>>
  BY DEF Inv, Fits, FitsStaff, Invited, Commits
<1>1. PICK i : i = [branch |-> b, expired |-> FALSE]
  OBVIOUS
<1>2. i \in Invitation
  BY <1>0, <1>1 DEF Invitation
<1>3. invites' = [invites EXCEPT ![p] = i]
  BY <1>0, <1>1 DEF Invited
<1>4. InvitesAreForTheUnemployed'
  BY <1>0, <1>2, <1>3 DEF Inv, Typed, States, InvitesAreForTheUnemployed
<1>5. SteadyVendors(held[r]) /\ SteadyStaff(held[r])
  <2>1. SteadyVendors(held[r])
    BY <1>0 DEF SteadyVendors, sellers, IsMember
  <2>2. SteadyStaff(held[r])
    BY <1>0, <1>3 DEF SteadyStaff, Inv, Typed
  <2> QED BY <2>1, <2>2
<1>6. Typed'
  BY <1>0, <1>2, <1>3 DEF Inv, Typed, Runs, sellers
<1> QED BY <1>0, <1>4, <1>5, <1>6, SellersKeep, End DEF States, Steady

LEMMA AcceptedEnds ==
  ASSUME Inv, NEW r \in Requests, Accepted(r) PROVE Inv'
<1> PICK p, b : p = running[r].person /\ b = invites[p].branch
  OBVIOUS
<1>0. /\ p \in People /\ invites[p] \in Invitation /\ {PhoneLock(p), VendorLock(OwnerOf[b])} \subseteq held[r] /\ staff[p] = NoOne
      /\ Runs(r, Idle, {}) /\ UNCHANGED <<sellers, holds, orders>>
  BY DEF Inv, Typed, Fits, FitsStaff, Accepted, Commits
<1>1. PICK m : m = [branch |-> b, status |-> "ACTIVE"]
  OBVIOUS
<1>2. b \in Branches /\ m \in Member
  BY <1>0, <1>1 DEF Member, Invitation
<1>3. staff' = [staff EXCEPT ![p] = m] /\ invites' = [invites EXCEPT ![p] = NoOne]
  BY <1>0, <1>1 DEF Accepted
<1>4. InvitesAreForTheUnemployed'
  BY <1>0, <1>3 DEF Inv, Typed, States, InvitesAreForTheUnemployed
<1>5. SteadyVendors(held[r])
  <2>1. \A v \in Vendors : \A q : ~IsMember(q, v) /\ v # OwnerOf[b] => ~IsMember(q, v)'
    BY <1>0, <1>1, <1>2, <1>3 DEF IsMember, Inv, Typed
  <2> QED BY <1>0, <2>1 DEF SteadyVendors, sellers
<1>6. SteadyStaff(held[r])
  BY <1>0, <1>3 DEF SteadyStaff, Inv, Typed
<1>7. Typed'
  BY <1>0, <1>2, <1>3 DEF Inv, Typed, Runs, sellers
<1> QED BY <1>0, <1>4, <1>5, <1>6, <1>7, SellersKeep, End DEF States, Steady

(* A membership changes its branch within the vendor, or its status.            *)
LEMMA MemberChanges ==
  ASSUME Inv, NEW p \in People, NEW m \in Member, staff[p] # NoOne, staff' = [staff EXCEPT ![p] = m],
         OwnerOf[m.branch] = OwnerOf[staff[p].branch], UNCHANGED <<sellers, invites, holds, orders>>
  PROVE  staff' \in [People -> Member \union {NoOne}] /\ InvitesAreForTheUnemployed' /\ SteadyVendors({}) /\ SteadyStaff({})
<1>1. m # NoOne
  BY NoOneAssumption DEF Member
<1>2. /\ staff' \in [People -> Member \union {NoOne}] /\ staff'[p] = m /\ staff'[p] # NoOne
      /\ \A q \in People \ {p} : staff'[q] = staff[q]
  BY <1>1 DEF Inv, Typed
<1>3. InvitesAreForTheUnemployed'
  BY <1>2 DEF Inv, States, InvitesAreForTheUnemployed
<1>4. SteadyVendors({})
  <2>1. \A v \in Vendors : \A q : ~IsMember(q, v) => ~IsMember(q, v)'
    BY <1>2 DEF IsMember
  <2> QED BY <2>1 DEF SteadyVendors, sellers
<1>5. SteadyStaff({})
  BY <1>2 DEF SteadyStaff
<1> QED BY <1>2, <1>3, <1>4, <1>5

LEMMA TransferredEnds ==
  ASSUME Inv, NEW r \in Requests, Transferred(r) PROVE Inv'
<1> PICK p, b : p = running[r].person /\ b = running[r].branch
  OBVIOUS
<1>0. /\ p \in People /\ b \in Branches /\ staff[p] \in Member /\ staff[p] # NoOne /\ OwnerOf[staff[p].branch] = OwnerOf[b]
      /\ Runs(r, Idle, {}) /\ UNCHANGED <<sellers, invites, holds, orders>>
  BY DEF Inv, Typed, Fits, FitsStaff, Transferred, Commits
<1>1. PICK m : m = [staff[p] EXCEPT !.branch = b]
  OBVIOUS
<1>2. m \in Member /\ m.branch = b
  BY <1>0, <1>1 DEF Member
<1>3. staff' = [staff EXCEPT ![p] = m]
  BY <1>0, <1>1 DEF Transferred, Inv, Typed, Member
<1>4. staff' \in [People -> Member \union {NoOne}] /\ InvitesAreForTheUnemployed' /\ SteadyVendors({}) /\ SteadyStaff({})
  BY <1>0, <1>2, <1>3, MemberChanges
<1>5. Typed'
  BY <1>0, <1>4 DEF Inv, Typed, Runs, sellers
<1>6. Steady({}) /\ States'
  BY <1>0, <1>4, SellersKeep DEF States, Steady
<1> QED BY <1>0, <1>5, <1>6, SteadyMore, End

LEMMA SetStatusAside ==
  ASSUME Inv, NEW p \in People, NEW status \in {"ACTIVE", "SUSPENDED"}, SetStatus(p, status) PROVE Inv'
<1>0. /\ staff[p] \in Member /\ staff[p] # NoOne /\ UNCHANGED <<running, held>> /\ UNCHANGED <<sellers, invites, holds, orders>>
  BY DEF Inv, Typed, SetStatus, Writes
<1>1. PICK m : m = [staff[p] EXCEPT !.status = status]
  OBVIOUS
<1>2. m \in Member /\ m.branch = staff[p].branch
  BY <1>0, <1>1 DEF Member
<1>3. staff' = [staff EXCEPT ![p] = m]
  BY <1>0, <1>1 DEF SetStatus, Inv, Typed, Member
<1>4. staff' \in [People -> Member \union {NoOne}] /\ InvitesAreForTheUnemployed' /\ SteadyVendors({}) /\ SteadyStaff({})
  BY <1>0, <1>2, <1>3, MemberChanges
<1>5. Typed'
  BY <1>0, <1>4 DEF Inv, Typed, sellers
<1>6. Steady({}) /\ States'
  BY <1>0, <1>4, SellersKeep DEF States, Steady
<1> QED BY <1>0, <1>5, <1>6, Aside DEF Free

LEMMA InviteExpiresAside ==
  ASSUME Inv, NEW p \in People, InviteExpires(p) PROVE Inv'
<1>0. /\ invites[p] \in Invitation /\ invites[p] # NoOne /\ UNCHANGED <<running, held>> /\ UNCHANGED <<sellers, staff, holds, orders>>
  BY DEF Inv, Typed, InviteExpires, transactions
<1>1. PICK i : i = [invites[p] EXCEPT !.expired = TRUE]
  OBVIOUS
<1>2. i \in Invitation /\ i.branch = invites[p].branch
  BY <1>0, <1>1 DEF Invitation
<1>3. invites' = [invites EXCEPT ![p] = i]
  BY <1>0, <1>1 DEF InviteExpires, Inv, Typed, Invitation
<1>4. i # NoOne
  BY <1>2, NoOneAssumption DEF Invitation
<1>5. /\ invites' \in [People -> Invitation \union {NoOne}] /\ InvitesAreForTheUnemployed'
      /\ SteadyVendors({}) /\ SteadyStaff({})
  <2>1. invites' \in [People -> Invitation \union {NoOne}] /\ InvitesAreForTheUnemployed'
    BY <1>0, <1>2, <1>3 DEF Inv, Typed, States, InvitesAreForTheUnemployed
  <2>2. SteadyVendors({})
    BY <1>0 DEF SteadyVendors, sellers, IsMember
  <2>3. SteadyStaff({})
    BY <1>0, <1>2, <1>3, <1>4 DEF Inv, Typed, SteadyStaff
  <2> QED BY <2>1, <2>2, <2>3
<1>6. Typed'
  BY <1>0, <1>5 DEF Inv, Typed, sellers
<1>7. Steady({}) /\ States'
  BY <1>0, <1>5, SellersKeep DEF States, Steady
<1> QED BY <1>0, <1>6, <1>7, Aside DEF Free

(* Steps that change only reservations.                                       *)
LEMMA StaffKeeps ==
  ASSUME Inv, UNCHANGED <<sellers, staff, invites>>
  PROVE  /\ DecisionsMatchEvidence' /\ QuorumDecides' /\ StoreTypeMatchesBranches' /\ WarehousesAreOnline'
         /\ InvitesAreForTheUnemployed' /\ \A L : SteadyVendors(L) /\ SteadyStaff(L)
BY DEF Inv, States, DecisionsMatchEvidence, QuorumDecides, StoreTypeMatchesBranches, WarehousesAreOnline,
       InvitesAreForTheUnemployed, BranchesOf, IsMember, sellers, SteadyVendors, SteadyStaff

LEMMA ReservedEnds ==
  ASSUME Inv, NEW r \in Requests, Reserved(r) PROVE Inv'
<1> PICK h, b : h = running[r].hold /\ b = running[r].branch
  OBVIOUS
<1>0. /\ h \in Holds /\ b \in Branches /\ {BranchLock(b), HoldLock(h)} \subseteq held[r] /\ ~branches[b].archived
      /\ Runs(r, Idle, {}) /\ UNCHANGED <<sellers, staff, invites, orders>>
  BY DEF Inv, Fits, FitsBranch, Reserved, Commits
<1>1. PICK k : k = [branch |-> b, live |-> TRUE]
  OBVIOUS
<1>2. k \in Hold /\ k.branch = b
  BY <1>0, <1>1 DEF Hold
<1>3. holds' = [holds EXCEPT ![h] = k]
  BY <1>0, <1>1 DEF Reserved
<1>4. \A c \in Branches : c # b => HoldsAt(c)' \subseteq HoldsAt(c)
  BY <1>0, <1>2, <1>3 DEF HoldsAt, Live, Inv, Typed
<1>5. ArchivedBranchesTakeNoWork'
  BY <1>0, <1>4 DEF Inv, States, ArchivedBranchesTakeNoWork, sellers
<1>6. SteadyBranches(held[r])
  BY <1>0, <1>4 DEF SteadyBranches, sellers
<1>7. SteadyHolds(held[r])
  BY <1>0, <1>3 DEF SteadyHolds, Inv, Typed
<1>8. Typed'
  BY <1>0, <1>2, <1>3 DEF Inv, Typed, Runs, sellers
<1> QED BY <1>0, <1>5, <1>6, <1>7, <1>8, StaffKeeps, End DEF States, Steady

(* confirm(), cancelReservation() and the sweep: a reservation goes.             *)
LEMMA HoldGoes ==
  ASSUME Inv, NEW h \in Holds, holds' = [holds EXCEPT ![h] = NoOne], UNCHANGED <<sellers, staff, invites>>
  PROVE  holds' \in [Holds -> Hold \union {NoOne}] /\ States' /\ Steady({HoldLock(h)})
<1>1. holds' \in [Holds -> Hold \union {NoOne}] /\ \A c \in Branches : HoldsAt(c)' \subseteq HoldsAt(c)
  BY DEF HoldsAt, Live, Inv, Typed
<1>2. ArchivedBranchesTakeNoWork'
  BY <1>1 DEF Inv, States, ArchivedBranchesTakeNoWork, sellers
<1>3. SteadyBranches({HoldLock(h)}) /\ SteadyHolds({HoldLock(h)})
  BY <1>1 DEF SteadyBranches, SteadyHolds, sellers, Inv, Typed
<1> QED BY <1>1, <1>2, <1>3, StaffKeeps DEF States, Steady

LEMMA ConfirmedEnds ==
  ASSUME Inv, NEW r \in Requests, Confirmed(r) PROVE Inv'
<1> PICK h : h = running[r].hold
  OBVIOUS
<1>0. /\ h \in Holds /\ HoldLock(h) \in held[r] /\ holds[h] \in Hold
      /\ Runs(r, Idle, {}) /\ UNCHANGED <<sellers, staff, invites>>
      /\ holds' = [holds EXCEPT ![h] = NoOne] /\ orders' = orders \union {holds[h].branch}
  BY DEF Inv, Typed, Fits, FitsBranch, Confirmed, Commits
<1>1. holds' \in [Holds -> Hold \union {NoOne}] /\ States' /\ Steady({HoldLock(h)})
  BY <1>0, HoldGoes
<1>2. Steady(held[r])
  BY <1>0, <1>1, SteadyMore
<1>3. Typed'
  BY <1>0, <1>1 DEF Inv, Typed, Runs, sellers, Hold
<1> QED BY <1>0, <1>1, <1>2, <1>3, End

LEMMA ReleaseAside ==
  ASSUME Inv, NEW h \in Holds, Release(h) PROVE Inv'
<1>0. UNCHANGED <<sellers, staff, invites, orders>> /\ UNCHANGED <<running, held>> /\ Free({HoldLock(h)})
  BY DEF Release, transactions
<1>1. holds' \in [Holds -> Hold \union {NoOne}] /\ States' /\ Steady({HoldLock(h)})
  BY <1>0, HoldGoes DEF Release
<1>2. Typed'
  BY <1>0, <1>1 DEF Inv, Typed, sellers
<1> QED BY <1>0, <1>1, <1>2, Aside

LEMMA HoldExpiresAside ==
  ASSUME Inv, NEW h \in Holds, HoldExpires(h) PROVE Inv'
<1>0. /\ UNCHANGED <<sellers, staff, invites, orders>> /\ UNCHANGED <<running, held>>
      /\ holds[h] \in Hold /\ holds[h] # NoOne
  BY DEF HoldExpires, transactions, Live, Inv, Typed
<1>1. PICK k : k = [holds[h] EXCEPT !.live = FALSE]
  OBVIOUS
<1>2. k \in Hold /\ k.branch = holds[h].branch /\ ~k.live
  BY <1>0, <1>1 DEF Hold
<1>3. k # NoOne
  BY <1>2, NoOneAssumption DEF Hold
<1>4. holds' = [holds EXCEPT ![h] = k]
  BY <1>0, <1>1 DEF HoldExpires, Inv, Typed, Hold
<1>5. holds' \in [Holds -> Hold \union {NoOne}] /\ \A c \in Branches : HoldsAt(c)' \subseteq HoldsAt(c)
  BY <1>2, <1>4 DEF HoldsAt, Live, Inv, Typed
<1>6. ArchivedBranchesTakeNoWork'
  BY <1>0, <1>5 DEF Inv, States, ArchivedBranchesTakeNoWork, sellers
<1>7. SteadyBranches({}) /\ SteadyHolds({})
  <2>1. SteadyBranches({})
    BY <1>0, <1>5 DEF SteadyBranches, sellers
  <2>2. SteadyHolds({})
    BY <1>2, <1>3, <1>4 DEF SteadyHolds, Inv, Typed
  <2> QED BY <2>1, <2>2
<1>8. Typed'
  BY <1>0, <1>5 DEF Inv, Typed, sellers
<1> QED BY <1>0, <1>6, <1>7, <1>8, StaffKeeps, Aside DEF States, Steady, Free

LEMMA OrderFinishesAside ==
  ASSUME Inv, NEW b \in Branches, OrderFinishes(b) PROVE Inv'
<1>1. UNCHANGED <<sellers, staff, invites, holds>> /\ UNCHANGED <<running, held>>
  BY DEF OrderFinishes, transactions
<1>2. Typed'
  BY <1>1 DEF OrderFinishes, Inv, Typed, sellers
<1> QED BY <1>1, <1>2, Unmoved, Aside DEF Free

----------------------------------------------------------------------------
LEMMA InitHolds == MarketInit => Inv
<1> SUFFICES ASSUME MarketInit PROVE Inv
  OBVIOUS
<1>1. PICK start \in Starts :
        /\ branches = [b \in Branches |->
             IF b \notin start.branches THEN NoBranch
             ELSE IF start.stage[OwnerOf[b]] # "APPLIED" THEN [NewBranch EXCEPT !.status = "APPROVED", !.revision = 1, !.decided = 1]
             ELSE NewBranch]
        /\ vendors = [v \in Vendors |-> [AtStage(start.stage[v]) EXCEPT !.online = ~\E b \in start.branches : OwnerOf[b] = v]]
  BY DEF MarketInit, Init
<1>2. /\ start.branches \subseteq Branches /\ start.stage \in [Vendors -> {"APPLIED", "APPROVED", "ACTIVE"}]
      /\ OwnerOf \in [Branches -> Vendors]
  BY StartsAssumption, OwnerAssumption
<1>3. ASSUME NEW b \in Branches
      PROVE  /\ branches[b] \in Branch /\ (branches[b].exists <=> b \in start.branches) /\ ~branches[b].archived
             /\ branches[b].status \in Verdicts => branches[b].decided = branches[b].revision
             /\ branches[b].exists => branches[b].status = IF start.stage[OwnerOf[b]] # "APPLIED" THEN "APPROVED" ELSE "PENDING"
  BY <1>1, <1>2 DEF NoBranch, NewBranch, Branch, Verdicts
<1>4. ASSUME NEW v \in Vendors
      PROVE  /\ vendors[v] \in Vendor /\ vendors[v].status = start.stage[v]
             /\ vendors[v].online <=> ~\E b \in start.branches : OwnerOf[b] = v
  <2>1. start.stage[v] \in {"APPLIED", "APPROVED", "ACTIVE"}
    BY <1>2
  <2>2. PICK a : a = AtStage(start.stage[v])
    OBVIOUS
  <2>3. a \in Vendor /\ a.status = start.stage[v]
    <3>1. Applicant \in Vendor
      BY DEF Applicant, Vendor
    <3>2. PICK x, s : x = Applicant /\ s = start.stage[v]
      OBVIOUS
    <3>3. CASE s # "ACTIVE"
      <4>1. a = [x EXCEPT !.status = s]
        BY <2>2, <3>2, <3>3 DEF AtStage
      <4> QED BY <2>1, <3>1, <3>2, <4>1 DEF Vendor
    <3>4. CASE s = "ACTIVE"
      <4>1. a = [x EXCEPT !.status = "ACTIVE", !.published = TRUE, !.subscription = "ACTIVE"]
        BY <2>2, <3>2, <3>4 DEF AtStage
      <4>2. /\ DOMAIN a = DOMAIN x /\ a = [f \in DOMAIN a |-> a[f]] /\ a.status = "ACTIVE" /\ a.online = x.online
            /\ a.published = TRUE /\ a.subscription = "ACTIVE" /\ a.lapsed = x.lapsed
            /\ a.suspensions = x.suspensions
        BY <3>1, <3>2, <4>1 DEF Vendor
      <4>3. x.online \in BOOLEAN /\ x.lapsed \in BOOLEAN /\ x.suspensions \in Int /\ x \in Vendor
        BY <3>1, <3>2 DEF Vendor
      <4>4. /\ a.published \in BOOLEAN /\ a.online \in BOOLEAN /\ a.lapsed \in BOOLEAN
            /\ a.suspensions \in Int
        <5>1. a.online \in BOOLEAN /\ a.lapsed \in BOOLEAN
          BY <4>2, <4>3, Zenon
        <5>2. a.suspensions \in Int
          BY <4>2, <4>3
        <5>3. a.published \in BOOLEAN
          BY <4>2, Zenon
        <5> QED BY <5>1, <5>2, <5>3
      <4>5. a \in Vendor
        BY <4>2, <4>3, <4>4, IsVendor
      <4> QED BY <3>2, <3>4, <4>2, <4>5
    <3> QED BY <3>3, <3>4
  <2>4. PICK o \in BOOLEAN : o <=> ~\E b \in start.branches : OwnerOf[b] = v
    OBVIOUS
  <2>5. o = (~\E b \in start.branches : OwnerOf[b] = v)
    BY <2>4
  <2>6. vendors[v] = [a EXCEPT !.online = o]
    BY <1>1, <2>2, <2>5
  <2> QED BY <2>3, <2>4, <2>6 DEF Vendor
<1>5. \A v \in Vendors : BranchesOf(v) = {b \in start.branches : OwnerOf[b] = v}
  BY <1>2, <1>3 DEF BranchesOf
<1>6. StoreTypeMatchesBranches
  BY <1>4, <1>5 DEF StoreTypeMatchesBranches
<1>7. QuorumDecides
  <2>1. ASSUME NEW v \in Vendors PROVE vendors[v].status # "UNDER_REVIEW"
    BY <1>2, <1>4
  <2>2. ASSUME NEW v \in Vendors, vendors[v].status = "APPROVED" PROVE \A b \in BranchesOf(v) : branches[b].status = "APPROVED"
    BY <1>3, <1>4, <2>2 DEF BranchesOf
  <2> QED BY <2>1, <2>2 DEF QuorumDecides
<1>8. \A b \in Branches : HoldsAt(b) = {}
  BY DEF HoldsAt, Live, MarketInit
<1>9. States
  BY <1>3, <1>6, <1>7 DEF States, DecisionsMatchEvidence, WarehousesAreOnline, ArchivedBranchesTakeNoWork,
                          InvitesAreForTheUnemployed, MarketInit, Init
<1>10. Typed
  <2>1. vendors \in [Vendors -> Vendor] /\ branches \in [Branches -> Branch]
    <3>1. vendors = [v \in Vendors |-> vendors[v]] /\ branches = [b \in Branches |-> branches[b]]
      BY <1>1
    <3> QED BY <1>3, <1>4, <3>1
  <2> QED BY <2>1 DEF Typed, MarketInit, Init, NothingRuns
<1>11. Exclusive /\ \A r \in Requests : running[r] = Idle /\ held[r] = {}
  BY DEF Exclusive, MarketInit, Init, NothingRuns
<1> QED BY <1>9, <1>10, <1>11, IdleFits DEF Inv

LEMMA StutterKeeps == ASSUME Inv, UNCHANGED vars PROVE Inv'
<1>1. UNCHANGED <<sellers, staff, invites, holds, orders>> /\ UNCHANGED <<running, held>>
  BY DEF vars, market, transactions
<1>2. Typed'
  BY <1>1 DEF Inv, Typed, sellers
<1> QED BY <1>1, <1>2, Unmoved, Aside DEF Free

LEMMA NextPreserves == ASSUME Inv, [Next]_vars PROVE Inv'
<1>1. CASE SellerNext(IsMember, IsBusy) /\ UNCHANGED market
  BY <1>1, SubmitBegins, DecideBegins, WarehouseBegins, WarehouseDecisionBegins, SuspendBegins, ReactivateBegins, ActivateBegins,
     RenewBegins, AddBranchBegins, TypeBegins, ArchiveBegins, EvidenceSubmittedEnds, DecidedEnds, WarehouseSubmittedEnds,
     WarehouseDecidedEnds, SuspendedEnds, ReactivatedEnds, ActivatedEnds, RenewedEnds, BranchAddedEnds, StoreTypeChangedEnds,
     ArchivedEnds, RollsBackEnds, RefreshAside, PeriodEndsAside, PublishAside, ClosureAside DEF SellerNext
<1>2. ASSUME NEW r \in Requests, Invited(r) \/ Accepted(r) \/ Transferred(r) \/ Reserved(r) \/ Confirmed(r) PROVE Inv'
  BY <1>2, InvitedEnds, AcceptedEnds, TransferredEnds, ReservedEnds, ConfirmedEnds
<1>3. ASSUME NEW r \in Requests, NEW p \in People, Accept(r, p) \/ \E b \in Branches : Invite(r, p, b) \/ Transfer(r, p, b)
      PROVE  Inv'
  BY <1>3, AcceptBegins, InviteBegins, TransferBegins
<1>4. ASSUME NEW r \in Requests, NEW h \in Holds, Confirm(r, h) \/ \E b \in Branches : Reserve(r, h, b) PROVE Inv'
  BY <1>4, ConfirmBegins, ReserveBegins
<1>5. ASSUME NEW p \in People, InviteExpires(p) \/ \E status \in {"ACTIVE", "SUSPENDED"} : SetStatus(p, status) PROVE Inv'
  BY <1>5, InviteExpiresAside, SetStatusAside
<1>6. ASSUME NEW h \in Holds, Release(h) \/ HoldExpires(h) PROVE Inv'
  BY <1>6, ReleaseAside, HoldExpiresAside
<1>7. ASSUME NEW b \in Branches, OrderFinishes(b) PROVE Inv'
  BY <1>7, OrderFinishesAside
<1>8. CASE UNCHANGED vars
  BY <1>8, StutterKeeps
<1> QED BY <1>1, <1>2, <1>3, <1>4, <1>5, <1>6, <1>7, <1>8 DEF Next

LEMMA InvHolds == Spec => []Inv
<1>1. MarketInit => Inv
  BY InitHolds
<1>2. Inv /\ [Next]_vars => Inv'
  BY NextPreserves
<1> QED BY <1>1, <1>2, PTL DEF Spec

(* However reviews and submissions interleave, a decided branch was decided on  *)
(* its current evidence (decide(), submitEvidence()).                        *)
THEOREM DecisionsFitTheirEvidence == Spec => []DecisionsMatchEvidence
<1>1. Inv => DecisionsMatchEvidence
  BY DEF Inv, States
<1> QED BY <1>1, InvHolds, PTL

(* No number of concurrent reviewers loses the last approval of a vendor, or     *)
(* approves it early (decide()).                                             *)
THEOREM QuorumIsNeverLost == Spec => []QuorumDecides
<1>1. Inv => QuorumDecides
  BY DEF Inv, States
<1> QED BY <1>1, InvHolds, PTL

(* The store type agrees with the branches, though addBranch() and              *)
(* updateStoreType() check it without a lock.                                 *)
THEOREM StoreTypeIsRight == Spec => []StoreTypeMatchesBranches
<1>1. Inv => StoreTypeMatchesBranches
  BY DEF Inv, States
<1> QED BY <1>1, InvHolds, PTL

(* No reservation and no open review is left at an archived branch             *)
(* (archiveBranch(), reserve(), submitEvidence()).                           *)
THEOREM ArchivedBranchesStayQuiet == Spec => []ArchivedBranchesTakeNoWork
<1>1. Inv => ArchivedBranchesTakeNoWork
  BY DEF Inv, States
<1> QED BY <1>1, InvHolds, PTL

(* Whoever works at a branch has no invitation waiting (inviteStaff(),          *)
(* acceptStaffInvite()).                                                     *)
THEOREM EmployeesAreNotInvited == Spec => []InvitesAreForTheUnemployed
<1>1. Inv => InvitesAreForTheUnemployed
  BY DEF Inv, States
<1> QED BY <1>1, InvHolds, PTL

(* No reviewer's decision commits while the vendor employs them                 *)
(* (assertNoPlatformVendorConflict(), acceptStaffInvite()).                   *)
THEOREM NobodyReviewsTheirEmployer == Spec => NoSelfReview
<1>1. ASSUME Inv, NEW r \in Requests, running[r].op \in {"decide", "warehouse_decide"}
      PROVE  ~IsMember(running[r].reviewer, IF running[r].op = "decide" THEN OwnerOf[running[r].branch] ELSE running[r].vendor)
  <2>1. CASE running[r].op = "decide"
    BY <1>1, <2>1 DEF Inv, Fits, FitsReview
  <2>2. CASE running[r].op = "warehouse_decide"
    BY <1>1, <2>2 DEF Inv, Fits, FitsVendor
  <2> QED BY <1>1, <2>1, <2>2
<1>2. Inv /\ [Next]_vars =>
        [\A r \in Requests :
           running[r].op \in {"decide", "warehouse_decide"} /\ sellers' # sellers /\ running'[r] = Idle
             => ~IsMember(running[r].reviewer, IF running[r].op = "decide" THEN OwnerOf[running[r].branch] ELSE running[r].vendor)]_vars
  BY <1>1
<1> QED BY <1>2, InvHolds, PTL DEF Spec, NoSelfReview

(* Every order is created for a shop that is open at that moment               *)
(* (assertItemsPurchasable() in confirm()).                                  *)
THEOREM OrdersAreFromOpenShops == Spec => OrdersComeFromOpenShops
<1>1. ASSUME Inv, Next, NEW b \in orders' \ orders
      PROVE  vendors[OwnerOf[b]].published /\ vendors[OwnerOf[b]].status = "ACTIVE" /\ vendors[OwnerOf[b]].subscription = "ACTIVE"
  <2>1. PICK r \in Requests : Confirmed(r)
    <3>1. CASE SellerNext(IsMember, IsBusy) /\ UNCHANGED market
      BY <1>1, <3>1 DEF market
    <3>2. ASSUME NEW r \in Requests, Invited(r) \/ Accepted(r) \/ Transferred(r) \/ Reserved(r) PROVE FALSE
      BY <1>1, <3>2 DEF Invited, Accepted, Transferred, Reserved
    <3>3. ASSUME NEW r \in Requests, NEW p \in People, Accept(r, p) \/ \E c \in Branches : Invite(r, p, c) \/ Transfer(r, p, c)
          PROVE  FALSE
      BY <1>1, <3>3 DEF Accept, Invite, Transfer, market
    <3>4. ASSUME NEW r \in Requests, NEW h \in Holds, Confirm(r, h) \/ \E c \in Branches : Reserve(r, h, c) PROVE FALSE
      BY <1>1, <3>4 DEF Confirm, Reserve, market
    <3>5. ASSUME NEW p \in People, InviteExpires(p) \/ \E status \in {"ACTIVE", "SUSPENDED"} : SetStatus(p, status) PROVE FALSE
      BY <1>1, <3>5 DEF InviteExpires, SetStatus
    <3>6. ASSUME NEW h \in Holds, Release(h) \/ HoldExpires(h) PROVE FALSE
      BY <1>1, <3>6 DEF Release, HoldExpires
    <3>7. ASSUME NEW c \in Branches, OrderFinishes(c) PROVE FALSE
      BY <1>1, <3>7 DEF OrderFinishes
    <3> QED BY <1>1, <3>1, <3>2, <3>3, <3>4, <3>5, <3>6, <3>7 DEF Next
  <2>2. running[r].op = "confirm" /\ b = holds[running[r].hold].branch
    BY <1>1, <2>1 DEF Confirmed, Commits
  <2> QED BY <1>1, <2>2 DEF Inv, Fits, FitsBranch
<1>2. Inv /\ [Next]_vars =>
        [\A b \in orders' \ orders :
           LET v == vendors[OwnerOf[b]] IN v.published /\ v.status = "ACTIVE" /\ v.subscription = "ACTIVE"]_vars
  BY <1>1
<1> QED BY <1>2, InvHolds, PTL DEF Spec, OrdersComeFromOpenShops
=============================================================================
