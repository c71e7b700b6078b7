---------------------------- MODULE Marketplace ----------------------------
(***************************************************************************)
(* Marketplace: the sellers with those who work and buy at their branches:  *)
(* staff invitations and memberships, and checkouts that are held, then      *)
(* confirmed.                                                               *)
(***************************************************************************)
EXTENDS Sellers

CONSTANTS People, \* phone numbers that may be invited; one may also be a reviewer
          Holds,  \* reservations of customers
          NoOne

ASSUME NoOneAssumption ==
  NoOne \notin [branch : Branches, status : {"ACTIVE", "SUSPENDED"}] \union [branch : Branches, expired : BOOLEAN]
               \union [branch : Branches, live : BOOLEAN]

VARIABLES staff,   \* vendor_users with role BRANCH_EMPLOYEE, by person
          invites, \* the PENDING invitation of a phone
          holds, orders \* reservations; branches with an order in progress

market == <<staff, invites, holds, orders>>
vars == <<sellers, transactions, market>>

PhoneLock(p) == <<"phone", p>>
MemberLock(p) == <<"member", p>>
HoldLock(h) == <<"hold", h>>
IsMember(p, v) == p \in People /\ staff[p] # NoOne /\ OwnerOf[staff[p].branch] = v
Live(h) == holds[h] # NoOne /\ holds[h].live
HoldsAt(b) == {h \in Holds : Live(h) /\ holds[h].branch = b}
ActiveStaffAt(b) == {p \in People : staff[p] # NoOne /\ staff[p].branch = b /\ staff[p].status = "ACTIVE"}
IsBusy(b) == HoldsAt(b) # {} \/ b \in orders \/ ActiveStaffAt(b) # {}

MarketInit ==
  /\ Init
  /\ staff = [p \in People |-> NoOne] /\ invites = [p \in People |-> NoOne]
  /\ holds = [h \in Holds |-> NoOne] /\ orders = {}

(***************************************************************************)
(* Staff                                                                    *)
(***************************************************************************)
\* Slip: an invitation does not wait for others to the same phone.
InviteByBranch(p, b) == {BranchLock(b)}
InviteLocks(p, b) == {PhoneLock(p), BranchLock(b)}

(* inviteStaff(): the employee check, and after it the pending check, under the *)
(* locks; the pending invitation of a phone is unique.                        *)
Invite(r, p, b) ==
  /\ branches[b].exists /\ ~branches[b].archived /\ staff[p] = NoOne
  /\ Begins(r, [op |-> "invite", person |-> p, branch |-> b], InviteLocks(p, b))
  /\ UNCHANGED <<sellers, market>>

Invited(r) ==
  /\ Commits(r, "invite") /\ invites[running[r].person] = NoOne
  /\ invites' = [invites EXCEPT ![running[r].person] = [branch |-> running[r].branch, expired |-> FALSE]]
  /\ UNCHANGED <<sellers, staff, holds, orders>>

InviteExpires(p) ==
  /\ invites[p] # NoOne /\ ~invites[p].expired
  /\ invites' = [invites EXCEPT ![p].expired = TRUE]
  /\ UNCHANGED <<sellers, transactions, staff, holds, orders>>

\* Slip: the vendor row is not locked before the membership is written.
AcceptWithoutVendor(p, b) == {PhoneLock(p), BranchLock(b)}
AcceptLocks(p, b) == {PhoneLock(p), BranchLock(b), VendorLock(OwnerOf[b])}

Accept(r, p) ==
  /\ invites[p] # NoOne /\ ~invites[p].expired /\ ~branches[invites[p].branch].archived /\ staff[p] = NoOne
  /\ Begins(r, [op |-> "accept", person |-> p], AcceptLocks(p, invites[p].branch))
  /\ UNCHANGED <<sellers, market>>

Accepted(r) ==
  /\ Commits(r, "accept")
  /\ LET p == running[r].person
     IN /\ staff' = [staff EXCEPT ![p] = [branch |-> invites[p].branch, status |-> "ACTIVE"]]
        /\ invites' = [invites EXCEPT ![p] = NoOne]
  /\ UNCHANGED <<sellers, holds, orders>>

Transfer(r, p, b) ==
  /\ branches[b].exists /\ branches[b].status = "APPROVED" /\ ~branches[b].archived
  /\ staff[p] # NoOne /\ OwnerOf[staff[p].branch] = OwnerOf[b] /\ staff[p].branch # b
  /\ Begins(r, [op |-> "transfer", person |-> p, branch |-> b], {BranchLock(b), MemberLock(p)})
  /\ UNCHANGED <<sellers, market>>

Transferred(r) ==
  /\ Commits(r, "transfer")
  /\ staff' = [staff EXCEPT ![running[r].person].branch = running[r].branch]
  /\ UNCHANGED <<sellers, invites, holds, orders>>

(* setStatus(): suspend and reactivate lock the membership, not the branch.     *)
SetStatus(p, status) ==
  /\ Writes({MemberLock(p)}) /\ staff[p] # NoOne /\ staff[p].status # status
  /\ staff' = [staff EXCEPT ![p].status = status]
  /\ UNCHANGED <<sellers, invites, holds, orders>>

(***************************************************************************)
(* Checkout                                                                 *)
(***************************************************************************)
Purchasable(v) ==
  vendors[v].published /\ vendors[v].status = "ACTIVE" /\ Refreshed(vendors[v]).subscription = "ACTIVE"

(* reserve(): branch locks, the branch, then eligibility under the vendor row   *)
(* lock.  A refusal rolls the refreshed status back with everything else.     *)
ReserveLocks(b) == {BranchLock(b), VendorLock(OwnerOf[b])}
Reserve(r, h, b) ==
  /\ holds[h] = NoOne /\ branches[b].exists
  /\ branches[b].status = "APPROVED" /\ ~branches[b].archived /\ branches[b].closure # "now" /\ Purchasable(OwnerOf[b])
  /\ Begins(r, [op |-> "reserve", hold |-> h, branch |-> b], ReserveLocks(b) \union {HoldLock(h)})
  /\ UNCHANGED <<sellers, market>>

Reserved(r) ==
  /\ Commits(r, "reserve")
  /\ holds' = [holds EXCEPT ![running[r].hold] = [branch |-> running[r].branch, live |-> TRUE]]
  /\ UNCHANGED <<sellers, staff, invites, orders>>

\* Slip: eligibility is checked without the vendor row lock.
HoldOnly(h) == {HoldLock(h)}
ConfirmLocks(h) == {HoldLock(h), VendorLock(OwnerOf[holds[h].branch])}

(* confirm(): the reservation and the vendor are locked and read; the branch is *)
(* neither.                                                                  *)
Confirm(r, h) ==
  /\ Live(h) /\ Purchasable(OwnerOf[holds[h].branch])
  /\ Begins(r, [op |-> "confirm", hold |-> h], ConfirmLocks(h))
  /\ UNCHANGED <<sellers, market>>

Confirmed(r) ==
  /\ Commits(r, "confirm")
  /\ orders' = orders \union {holds[running[r].hold].branch}
  /\ holds' = [holds EXCEPT ![running[r].hold] = NoOne]
  /\ UNCHANGED <<sellers, staff, invites>>

(* cancelReservation(), and the sweep of an expired one.                      *)
Release(h) ==
  /\ Free({HoldLock(h)}) /\ holds[h] # NoOne
  /\ holds' = [holds EXCEPT ![h] = NoOne]
  /\ UNCHANGED <<sellers, transactions, staff, invites, orders>>

HoldExpires(h) ==
  /\ Live(h) /\ holds' = [holds EXCEPT ![h].live = FALSE]
  /\ UNCHANGED <<sellers, transactions, staff, invites, orders>>

OrderFinishes(b) ==
  /\ b \in orders /\ orders' = orders \ {b}
  /\ UNCHANGED <<sellers, transactions, staff, invites, holds>>

Next ==
  \/ SellerNext(IsMember, IsBusy) /\ UNCHANGED market
  \/ \E r \in Requests :
       \/ Invited(r) \/ Accepted(r) \/ Transferred(r) \/ Reserved(r) \/ Confirmed(r)
       \/ \E p \in People : Accept(r, p) \/ \E b \in Branches : Invite(r, p, b) \/ Transfer(r, p, b)
       \/ \E h \in Holds : Confirm(r, h) \/ \E b \in Branches : Reserve(r, h, b)
  \/ \E p \in People : InviteExpires(p) \/ \E status \in {"ACTIVE", "SUSPENDED"} : SetStatus(p, status)
  \/ \E h \in Holds : Release(h) \/ HoldExpires(h)
  \/ \E b \in Branches : OrderFinishes(b)

Spec == MarketInit /\ [][Next]_vars

(***************************************************************************)
(* Properties                                                               *)
(***************************************************************************)
(* A reviewer decides nothing about a vendor that employs them by the time the  *)
(* decision commits: the invitation accepted meanwhile waits for it            *)
(* (assertNoPlatformVendorConflict(), acceptStaffInvite()).                  *)
NoSelfReview ==
  [][\A r \in Requests :
       running[r].op \in {"decide", "warehouse_decide"} /\ sellers' # sellers /\ running'[r] = Idle
         => ~IsMember(running[r].reviewer, IF running[r].op = "decide" THEN OwnerOf[running[r].branch] ELSE running[r].vendor)]_vars

(* Nobody who works at a branch has an invitation waiting: two vendors that      *)
(* invite one phone, and its owner who accepts, at the same time               *)
(* (inviteStaff(), acceptStaffInvite()).                                      *)
InvitesAreForTheUnemployed == \A p \in People : staff[p] # NoOne => invites[p] = NoOne

(* No customer holds stock, and no reviewer is waited for, at an archived branch *)
(* (reserve(), submitEvidence() and archiveBranch() share its lock).          *)
ArchivedBranchesTakeNoWork ==
  \A b \in Branches : branches[b].archived => HoldsAt(b) = {} /\ ~(branches[b].status = "PENDING" /\ branches[b].revision >= 1)

(* An order is created only for a vendor that is active, published and          *)
(* subscribed at that moment, whatever changed since the reservation           *)
(* (assertItemsPurchasable() in confirm()).                                  *)
OrdersComeFromOpenShops ==
  [][\A b \in orders' \ orders :
       LET v == vendors[OwnerOf[b]] IN v.published /\ v.status = "ACTIVE" /\ v.subscription = "ACTIVE"]_vars
=============================================================================
