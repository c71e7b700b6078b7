------------------------------ MODULE Sellers ------------------------------
(***************************************************************************)
(* Sellers: the life of a vendor and of its branches, from the application  *)
(* to the reviewed branches, the subscription, suspensions, and archived or *)
(* closed branches.  A handler is a transaction that takes its locks and    *)
(* reads in one step, and writes and commits in a later one; the handlers    *)
(* that take no lock read and write the same way.                           *)
(***************************************************************************)
EXTENDS Transactions, Sequences

CONSTANTS Vendors, Branches,
          OwnerOf,      \* [Branches -> Vendors]
          Reviewers,    \* users with a platform role
          Starts,       \* initial states: [branches, stage] records
          MaxRevisions  \* bound: pieces of evidence

ASSUME OwnerAssumption == OwnerOf \in [Branches -> Vendors]
ASSUME StartsAssumption ==
  \A start \in Starts : start.branches \subseteq Branches /\ start.stage \in [Vendors -> {"APPLIED", "APPROVED", "ACTIVE"}]

VARIABLES vendors, branches,
          evidence  \* warehouse evidence of a vendor, oldest first

sellers == <<vendors, branches, evidence>>

BranchLock(b) == <<"branch", b>>
VendorLock(v) == <<"vendor", v>>
BranchesOf(v) == {b \in Branches : OwnerOf[b] = v /\ branches[b].exists}

Applicant == [status |-> "APPLIED", online |-> FALSE, published |-> FALSE,
              subscription |-> "NONE", lapsed |-> FALSE, suspensions |-> 0]
AtStage(stage) ==
  IF stage # "ACTIVE" THEN [Applicant EXCEPT !.status = stage]
  ELSE [Applicant EXCEPT !.status = "ACTIVE", !.published = TRUE, !.subscription = "ACTIVE"]
NewBranch == [exists |-> TRUE, status |-> "PENDING", revision |-> 0, decided |-> 0, archived |-> FALSE, closure |-> "none"]
NoBranch == [NewBranch EXCEPT !.exists = FALSE]

(* apply(): an application with its branches, or none for ONLINE_ONLY; or a   *)
(* vendor that has been through the first of the steps below.                *)
Init ==
  /\ \E start \in Starts :
       /\ branches = [b \in Branches |->
            IF b \notin start.branches THEN NoBranch
            ELSE IF start.stage[OwnerOf[b]] # "APPLIED" THEN [NewBranch EXCEPT !.status = "APPROVED", !.revision = 1, !.decided = 1]
            ELSE NewBranch]
       /\ vendors = [v \in Vendors |->
            [AtStage(start.stage[v]) EXCEPT !.online = ~\E b \in start.branches : OwnerOf[b] = v]]
  /\ evidence = [v \in Vendors |-> <<>>]
  /\ NothingRuns

Becomes(v, vendor) == vendors' = [vendors EXCEPT ![v] = vendor]

(***************************************************************************)
(* Review of branches                                                       *)
(***************************************************************************)
\* Slip: a decision locks its own branch only.
BranchOnly(b) == {BranchLock(b)}
ReviewLocks(b) == {BranchLock(b), VendorLock(OwnerOf[b])}

SubmitEvidence(r, b) ==
  /\ branches[b].exists /\ ~branches[b].archived /\ branches[b].revision < MaxRevisions
  /\ branches[b].status \in {"PENDING", "RESUBMISSION_REQUESTED"}
  /\ vendors[OwnerOf[b]].status \in {"APPLIED", "UNDER_REVIEW", "ACTIVE"}
  /\ Begins(r, [op |-> "submit", branch |-> b, first |-> vendors[OwnerOf[b]].status = "APPLIED"], ReviewLocks(b))
  /\ UNCHANGED sellers

EvidenceSubmitted(r) ==
  /\ Commits(r, "submit")
  /\ LET b == running[r].branch
     IN /\ branches' = [branches EXCEPT ![b].status = "PENDING", ![b].revision = @ + 1, ![b].decided = 0]
        /\ vendors' = [vendors EXCEPT ![OwnerOf[b]].status = IF running[r].first THEN "UNDER_REVIEW" ELSE @]
  /\ UNCHANGED evidence

Verdicts == {"APPROVED", "REJECTED", "RESUBMISSION_REQUESTED"}

\* Slip: the decision applies to whatever evidence the branch has by then.
AnyRevision(b, revision) == revision \in 1..branches[b].revision
(* The reviewer names the revision read with getEvidence(), any earlier one   *)
(* included; a stale one is refused.                                         *)
IsCurrent(b, revision) == revision = branches[b].revision

(* "no physical branch is left pending", archived ones included.              *)
OthersApproved(b) == \A c \in BranchesOf(OwnerOf[b]) \ {b} : branches[c].status = "APPROVED"

(* decide(): the conflict check, the guards and the siblings are read under    *)
(* the locks.                                                                *)
Decide(r, b, revision, verdict, reviewer, isMember) ==
  /\ branches[b].exists /\ ~branches[b].archived /\ branches[b].status = "PENDING"
  /\ vendors[OwnerOf[b]].status \in {"UNDER_REVIEW", "ACTIVE"} /\ ~isMember
  /\ revision > 0 /\ IsCurrent(b, revision)
  /\ Begins(r, [op |-> "decide", branch |-> b, revision |-> revision, verdict |-> verdict, reviewer |-> reviewer,
                last |-> OthersApproved(b)], ReviewLocks(b))
  /\ UNCHANGED sellers

(* The vendor follows only while its application is under review: the last     *)
(* approval approves it, any rejection rejects it.                           *)
Promoted(status, verdict, last) ==
  IF status # "UNDER_REVIEW" THEN status
  ELSE IF verdict = "APPROVED" /\ last THEN "APPROVED"
  ELSE IF verdict = "REJECTED" THEN "REJECTED" ELSE status

Decided(r) ==
  /\ Commits(r, "decide")
  /\ LET q == running[r] b == q.branch
     IN /\ branches' = [branches EXCEPT ![b].status = q.verdict, ![b].decided = q.revision]
        /\ vendors' = [vendors EXCEPT ![OwnerOf[b]].status = Promoted(@, q.verdict, q.last)]
  /\ UNCHANGED evidence

(***************************************************************************)
(* Review of the warehouse of an online-only vendor                          *)
(***************************************************************************)
Pending(v) == \E e \in DOMAIN evidence[v] : evidence[v][e] = "PENDING"

SubmitWarehouse(r, v) ==
  /\ vendors[v].online /\ vendors[v].status \in {"APPLIED", "UNDER_REVIEW"} /\ ~Pending(v)
  /\ Len(evidence[v]) < MaxRevisions
  /\ Begins(r, [op |-> "warehouse", vendor |-> v], {VendorLock(v)})
  /\ UNCHANGED sellers

WarehouseSubmitted(r) ==
  /\ Commits(r, "warehouse")
  /\ LET v == running[r].vendor
     IN evidence' = [evidence EXCEPT ![v] = Append(@, "PENDING")] /\ Becomes(v, [vendors[v] EXCEPT !.status = "UNDER_REVIEW"])
  /\ UNCHANGED branches

(* The decision names a piece of evidence, and it must still be pending.       *)
DecideWarehouse(r, v, e, verdict, reviewer, isMember) ==
  /\ vendors[v].status = "UNDER_REVIEW" /\ ~isMember /\ evidence[v][e] = "PENDING"
  /\ Begins(r, [op |-> "warehouse_decide", vendor |-> v, evidence |-> e, verdict |-> verdict, reviewer |-> reviewer], {VendorLock(v)})
  /\ UNCHANGED sellers

WarehouseDecided(r) ==
  /\ Commits(r, "warehouse_decide")
  /\ LET q == running[r] v == q.vendor
     IN /\ evidence' = [evidence EXCEPT ![v][q.evidence] = q.verdict]
        /\ vendors' = [vendors EXCEPT ![v].status = Promoted(@, q.verdict, TRUE)]
  /\ UNCHANGED branches

(***************************************************************************)
(* Suspension and subscription                                              *)
(***************************************************************************)
VendorRow(v) == {VendorLock(v)}

Suspend(r, v) ==
  /\ vendors[v].status = "ACTIVE"
  /\ Begins(r, [op |-> "suspend", vendor |-> v], VendorRow(v)) /\ UNCHANGED sellers
Suspended(r) ==
  /\ Commits(r, "suspend")
  /\ vendors' = [vendors EXCEPT ![running[r].vendor].status = "SUSPENDED", ![running[r].vendor].suspensions = @ + 1]
  /\ UNCHANGED <<branches, evidence>>

Reactivate(r, v) ==
  /\ vendors[v].status = "SUSPENDED" /\ vendors[v].suspensions > 0
  /\ Begins(r, [op |-> "reactivate", vendor |-> v], VendorRow(v)) /\ UNCHANGED sellers
Reactivated(r) ==
  /\ Commits(r, "reactivate")
  /\ vendors' = [vendors EXCEPT ![running[r].vendor].status = "ACTIVE", ![running[r].vendor].suspensions = @ - 1]
  /\ UNCHANGED <<branches, evidence>>

(* refreshStatus(): a lapsed period is written back by whoever looks first.     *)
Refreshed(vendor) == [vendor EXCEPT !.subscription = IF @ = "ACTIVE" /\ vendor.lapsed THEN "EXPIRED" ELSE @]

Activate(r, v) ==
  /\ vendors[v].status = "APPROVED"
  /\ Begins(r, [op |-> "activate", vendor |-> v], VendorRow(v)) /\ UNCHANGED sellers
Activated(r) ==
  /\ Commits(r, "activate")
  /\ LET v == running[r].vendor
     IN Becomes(v, [vendors[v] EXCEPT !.status = "ACTIVE", !.subscription = "ACTIVE", !.lapsed = FALSE])
  /\ UNCHANGED <<branches, evidence>>

Renew(r, v) ==
  /\ Refreshed(vendors[v]).subscription = "EXPIRED"
  /\ Begins(r, [op |-> "renew", vendor |-> v], VendorRow(v)) /\ UNCHANGED sellers
Renewed(r) ==
  /\ Commits(r, "renew")
  /\ LET v == running[r].vendor IN Becomes(v, [vendors[v] EXCEPT !.subscription = "ACTIVE", !.lapsed = FALSE])
  /\ UNCHANGED <<branches, evidence>>

(* current(), and any other handler that refreshes and commits.               *)
Refresh(v) ==
  /\ Writes({VendorLock(v)}) /\ Refreshed(vendors[v]) # vendors[v] /\ Becomes(v, Refreshed(vendors[v]))
  /\ UNCHANGED <<branches, evidence>>

PeriodEnds(v) ==
  /\ vendors[v].subscription = "ACTIVE" /\ ~vendors[v].lapsed
  /\ vendors' = [vendors EXCEPT ![v].lapsed = TRUE] /\ UNCHANGED <<branches, evidence, transactions>>

(* publish() and unpublish(): refused while suspended.                        *)
Publish(v) ==
  /\ Writes({VendorLock(v)}) /\ vendors[v].status # "SUSPENDED"
  /\ vendors' = [vendors EXCEPT ![v].published = ~@] /\ UNCHANGED <<branches, evidence>>

(***************************************************************************)
(* Branches                                                                 *)
(***************************************************************************)
MayHaveBranches(v) == vendors[v].status = "ACTIVE" /\ ~vendors[v].online

(* addBranch() and updateStoreType() check before they write, with no lock.    *)
AddBranch(r, v) ==
  /\ MayHaveBranches(v) /\ Begins(r, [op |-> "add", vendor |-> v], {}) /\ UNCHANGED sellers
BranchAdded(r, b) ==
  /\ Commits(r, "add") /\ ~branches[b].exists /\ OwnerOf[b] = running[r].vendor
  /\ branches' = [branches EXCEPT ![b] = NewBranch]
  /\ UNCHANGED <<vendors, evidence>>

ChangeStoreType(r, v, online) ==
  /\ online <=> BranchesOf(v) = {}
  /\ Begins(r, [op |-> "type", vendor |-> v, online |-> online], {}) /\ UNCHANGED sellers
StoreTypeChanged(r) ==
  /\ Commits(r, "type") /\ Free({VendorLock(running[r].vendor)})
  /\ vendors' = [vendors EXCEPT ![running[r].vendor].online = running[r].online]
  /\ UNCHANGED <<branches, evidence>>

\* Slip: the branch is archived without the lock the others take.
ArchiveUnlocked(b) == {}
ArchiveLocks(b) == {BranchLock(b)}

(* archiveBranch(): nothing may be left running at the branch.                *)
Archive(r, b, isBusy) ==
  /\ branches[b].exists /\ ~branches[b].archived /\ ~isBusy
  /\ ~(branches[b].status = "PENDING" /\ branches[b].revision >= 1)
  /\ Begins(r, [op |-> "archive", branch |-> b], ArchiveLocks(b)) /\ UNCHANGED sellers
Archived(r) ==
  /\ Commits(r, "archive") /\ branches' = [branches EXCEPT ![running[r].branch].archived = TRUE]
  /\ UNCHANGED <<vendors, evidence>>

(* createClosure(): closures of one branch do not overlap; one may lie ahead.   *)
Close(b, closure) ==
  /\ Writes({BranchLock(b)}) /\ branches[b].exists /\ branches[b].closure = "none" /\ ~branches[b].archived
  /\ branches' = [branches EXCEPT ![b].closure = closure] /\ UNCHANGED <<vendors, evidence>>

ClosurePasses(b) ==
  /\ branches[b].closure # "none"
  /\ branches' = [branches EXCEPT ![b].closure = IF @ = "ahead" THEN "now" ELSE "none"]
  /\ UNCHANGED <<vendors, evidence, transactions>>

(* A handler fails after its reads, or the process dies: all of it rolls back.  *)
RollsBack(r) == Abandons(r) /\ UNCHANGED sellers

SellerNext(IsMember(_, _), IsBusy(_)) ==
  \/ \E r \in Requests, b \in Branches :
       \/ SubmitEvidence(r, b) \/ BranchAdded(r, b) \/ Archive(r, b, IsBusy(b))
       \/ \E revision \in 1..branches[b].revision, verdict \in Verdicts, reviewer \in Reviewers :
            Decide(r, b, revision, verdict, reviewer, IsMember(reviewer, OwnerOf[b]))
  \/ \E r \in Requests, v \in Vendors :
       \/ SubmitWarehouse(r, v) \/ AddBranch(r, v) \/ Suspend(r, v) \/ Reactivate(r, v) \/ Activate(r, v) \/ Renew(r, v)
       \/ \E online \in BOOLEAN : ChangeStoreType(r, v, online)
       \/ \E e \in DOMAIN evidence[v], verdict \in Verdicts, reviewer \in Reviewers :
            DecideWarehouse(r, v, e, verdict, reviewer, IsMember(reviewer, v))
  \/ \E r \in Requests :
       \/ EvidenceSubmitted(r) \/ Decided(r) \/ WarehouseSubmitted(r) \/ WarehouseDecided(r)
       \/ Suspended(r) \/ Reactivated(r) \/ Activated(r) \/ Renewed(r)
       \/ StoreTypeChanged(r) \/ Archived(r) \/ RollsBack(r)
  \/ \E v \in Vendors : Refresh(v) \/ PeriodEnds(v) \/ Publish(v)
  \/ \E b \in Branches : ClosurePasses(b) \/ \E closure \in {"now", "ahead"} : Close(b, closure)

(***************************************************************************)
(* Properties                                                               *)
(***************************************************************************)
(* A branch is decided on the evidence its reviewer read: a submission that    *)
(* overlaps the review leaves the new evidence undecided (decide(),           *)
(* submitEvidence()).                                                        *)
DecisionsMatchEvidence ==
  \A b \in Branches : branches[b].status \in Verdicts => branches[b].decided = branches[b].revision

(* No approval is lost between two reviewers of sibling branches: the vendor    *)
(* is approved exactly when the last of its branches is (comment of decide()). *)
QuorumDecides ==
  \A v \in Vendors :
    /\ vendors[v].status = "UNDER_REVIEW" /\ ~vendors[v].online => \E b \in BranchesOf(v) : branches[b].status # "APPROVED"
    /\ vendors[v].status = "APPROVED" => \A b \in BranchesOf(v) : branches[b].status = "APPROVED"

(* An online-only store has no physical branch, and only it has none, though    *)
(* addBranch() and updateStoreType() decide without a lock.                   *)
StoreTypeMatchesBranches == \A v \in Vendors : vendors[v].online <=> BranchesOf(v) = {}
=============================================================================
