------------------------------- MODULE Returns -------------------------------
(***************************************************************************)
(* Returns and exchanges of items that have arrived: the customer submits, *)
(* withdraws or disputes, the branch and the platform decide, a clerk      *)
(* redeems the code the customer brings, and ReturnSweepService reminds,   *)
(* escalates, closes and expires what nobody acted on.  A transaction      *)
(* locks its row of `returns`; what it did before that (the look-up by     *)
(* code, the candidate queries of a sweep) may be stale by then.           *)
(*                                                                         *)
(* age is the time since a row entered its status.  It stands for          *)
(* createdAt, disputeDeadlineAt and codeExpiresAt: each is compared with   *)
(* the clock in one status only, and no row enters a status twice.         *)
(***************************************************************************)
EXTENDS Integers, FiniteSets

CONSTANTS
  Items,       \* delivered order items
  Returns,     \* rows of `returns`
  Branches,    \* branches that may hold a replacement
  Codes,       \* six-digit codes
  Clerks,      \* concurrent calls of redeem()
  Ticks,       \* concurrent ticks of ReturnSweepService
  WindowDays,  \* returnPolicySnapshotWindowDays of the items' order
  ReminderAge, EscalationAge, DisputeAge, \* 48 hours, 72 hours, 7 days
  CodeAge, ExchangeCodeAge,               \* 7 days, 24 hours
  None

Ages == {ReminderAge, EscalationAge, DisputeAge, CodeAge, ExchangeCodeAge}

ASSUME ReturnsAssumption ==
  /\ IsFiniteSet(Items) /\ IsFiniteSet(Returns)
  /\ WindowDays \in Nat
  /\ Ages \subseteq Nat \ {0}
  /\ ReminderAge < EscalationAge
  /\ None \notin Items \cup Returns \cup Branches \cup Codes

VARIABLES
  policy,   \* outcomes that returnPolicySnapshotMode allows
  arrived,  \* time since deliveredAt or pickedUpAt
  item,     \* branchOrderItemId of a row, None while it does not exist
  status, outcome, code,
  branch,   \* replacementBranchId
  age,
  reminded, \* vendorReminderSentAt is set
  held,     \* units of the replacement reserved at a branch for exchanges
  archived, \* branches with archivedAt set
  refunds,  \* branch_order_refunds rows of an item with reason ITEM_RETURNED
  settlements, \* exchange_settlements rows of an item
  restocked,   \* how often an item went back on a shelf
  redeeming,   \* the row and code a redeem() call has looked up
  phase, todo  \* where a tick stands, and the candidates left in its phase

rowVars == <<item, status, outcome, code, branch, age, reminded>>
stockVars == <<held, archived>>
moneyVars == <<refunds, settlements, restocked>>
tickVars == <<phase, todo>>
returnVars == <<policy, arrived, rowVars, stockVars, moneyVars, redeeming, tickVars>>

Outcomes == {"RETURN", "EXCHANGE"}
Phases == {"idle", "remind", "escalate", "close", "expire"}

\* RESUBMISSION_ALLOWED_STATUSES, and no row at all
Over == {"none", "REJECTED_CLOSED", "EXPIRED", "CANCELLED_BY_CUSTOMER"}
Timed == {"REQUESTED", "REJECTED", "APPROVED_AWAITING_DROPOFF"}
Settled == {"REFUNDED", "EXCHANGED"}
Statuses == Over \cup Timed \cup Settled \cup {"ESCALATED", "ADMIN_REJECTED"}

Init ==
  /\ policy \in SUBSET Outcomes
  /\ arrived = 0
  /\ item = [r \in Returns |-> None]
  /\ status = [r \in Returns |-> "none"]
  /\ outcome = [r \in Returns |-> None]
  /\ code = [r \in Returns |-> None]
  /\ branch = [r \in Returns |-> None]
  /\ age = [r \in Returns |-> 0]
  /\ reminded = [r \in Returns |-> FALSE]
  /\ held = [b \in Branches |-> 0]
  /\ archived = {}
  /\ refunds = [i \in Items |-> 0]
  /\ settlements = [i \in Items |-> 0]
  /\ restocked = [i \in Items |-> 0]
  /\ redeeming = [c \in Clerks |-> None]
  /\ phase = [t \in Ticks |-> "idle"]
  /\ todo = [t \in Ticks |-> {}]

Enter(r, to) ==
  /\ status' = [status EXCEPT ![r] = to]
  /\ age' = [age EXCEPT ![r] = 0]

----------------------------------------------------------------------------
\* The customer

\* Slip: an earlier draft of the partial unique index, which "let both slip
\* through" (the migration's comment).
BlockedBeforeReview(i) ==
  \E r \in Returns : item[r] = i /\ status[r] \notin Over \cup {"REFUNDED", "ADMIN_REJECTED"}

\* returns_open_branch_order_item_id_key, and the look-up that precedes it
Blocked(i) == \E r \in Returns : item[r] = i /\ status[r] \notin Over

\* submit(); the branch is that of the replacement
Submit(r, i, o, b) ==
  /\ item[r] = None
  /\ arrived <= WindowDays
  /\ o \in policy
  /\ o = "EXCHANGE" => b \in Branches \ archived
  /\ o = "RETURN" => b = None
  /\ ~Blocked(i)
  /\ item' = [item EXCEPT ![r] = i]
  /\ outcome' = [outcome EXCEPT ![r] = o]
  /\ branch' = [branch EXCEPT ![r] = b]
  /\ Enter(r, "REQUESTED")
  /\ UNCHANGED <<policy, arrived, code, reminded, stockVars, moneyVars, redeeming, tickVars>>

\* cancel()
CancelReturn(r) ==
  /\ status[r] = "REQUESTED"
  /\ Enter(r, "CANCELLED_BY_CUSTOMER")
  /\ UNCHANGED <<policy, arrived, item, outcome, code, branch, reminded, stockVars,
                 moneyVars, redeeming, tickVars>>

\* dispute()
Dispute(r) ==
  /\ status[r] = "REJECTED"
  /\ age[r] <= DisputeAge
  /\ Enter(r, "ESCALATED")
  /\ UNCHANGED <<policy, arrived, item, outcome, code, branch, reminded, stockVars,
                 moneyVars, redeeming, tickVars>>

----------------------------------------------------------------------------
\* The branch, and the platform after an escalation

Live(r) == status[r] = "APPROVED_AWAITING_DROPOFF"
HoldsAt(b) == {r \in Returns : Live(r) /\ outcome[r] = "EXCHANGE" /\ branch[r] = b}

\* returns_active_code_key; a colliding code is drawn again, up to ten times
FreshCode(k) == k \in Codes /\ \A r \in Returns : Live(r) => code[r] # k

\* What approveReturn() does for an exchange; the stock may not be there, and
\* then, as when no code is found, nothing is approved.
HoldReplacement(r) ==
  IF outcome[r] = "EXCHANGE"
  THEN /\ branch[r] \notin archived
       /\ held' = [held EXCEPT ![branch[r]] = @ + 1]
  ELSE UNCHANGED held

\* approveReturn(), of decide() or of resolveEscalation()
Approve(r, k) ==
  /\ status[r] \in {"REQUESTED", "ESCALATED"}
  /\ HoldReplacement(r)
  /\ FreshCode(k)
  /\ code' = [code EXCEPT ![r] = k]
  /\ Enter(r, "APPROVED_AWAITING_DROPOFF")
  /\ UNCHANGED <<policy, arrived, item, outcome, branch, reminded, archived,
                 moneyVars, redeeming, tickVars>>

Reject(r) ==
  /\ \/ status[r] = "REQUESTED" /\ Enter(r, "REJECTED")
     \/ status[r] = "ESCALATED" /\ Enter(r, "ADMIN_REJECTED")
  /\ UNCHANGED <<policy, arrived, item, outcome, code, branch, reminded, stockVars,
                 moneyVars, redeeming, tickVars>>

\* archiveBranch(), as far as exchanges hinder it
Archive(b) ==
  /\ b \notin archived
  /\ HoldsAt(b) = {}
  /\ archived' = archived \cup {b}
  /\ UNCHANGED <<policy, arrived, rowVars, held, moneyVars, redeeming, tickVars>>

----------------------------------------------------------------------------
\* redeem(): an unlocked look-up by the code, then the row's own transaction

CodeLife(r) == IF outcome[r] = "EXCHANGE" THEN ExchangeCodeAge ELSE CodeAge

LookUpCode(c, r) ==
  /\ redeeming[c] = None
  /\ Live(r)
  /\ redeeming' = [redeeming EXCEPT ![c] = <<r, code[r]>>]
  /\ UNCHANGED <<policy, arrived, rowVars, stockVars, moneyVars, tickVars>>

\* Slip: the status is trusted as it was looked up.
FoundRedeemable(c) == LET r == redeeming[c][1] IN code[r] = redeeming[c][2]

StillRedeemable(c) ==
  LET r == redeeming[c][1] IN Live(r) /\ code[r] = redeeming[c][2] /\ age[r] <= CodeLife(r)

\* The item is resellable, or damaged.
Receive(i) ==
  \E units \in {0, 1} : restocked' = [restocked EXCEPT ![i] = @ + units]

\* branch_order_refunds has one row for an item at most.
RefundReturn(c) ==
  /\ redeeming[c] # None
  /\ StillRedeemable(c)
  /\ LET r == redeeming[c][1] IN
       /\ outcome[r] = "RETURN"
       /\ refunds[item[r]] = 0
       /\ refunds' = [refunds EXCEPT ![item[r]] = @ + 1]
       /\ Receive(item[r])
       /\ Enter(r, "REFUNDED")
  /\ redeeming' = [redeeming EXCEPT ![c] = None]
  /\ UNCHANGED <<policy, arrived, item, outcome, code, branch, reminded, stockVars,
                 settlements, tickVars>>

\* fulfillExchange(), at the branch that holds the replacement
FulfilExchange(c) ==
  /\ redeeming[c] # None
  /\ StillRedeemable(c)
  /\ LET r == redeeming[c][1] IN
       /\ outcome[r] = "EXCHANGE"
       /\ branch[r] \notin archived
       /\ held' = [held EXCEPT ![branch[r]] = @ - 1]
       /\ settlements' = [settlements EXCEPT ![item[r]] = @ + 1]
       /\ Receive(item[r])
       /\ Enter(r, "EXCHANGED")
  /\ redeeming' = [redeeming EXCEPT ![c] = None]
  /\ UNCHANGED <<policy, arrived, item, outcome, code, branch, reminded, archived,
                 refunds, tickVars>>

\* Refused, at another branch than the replacement's for one, or rolled back.
RedeemRefused(c) ==
  /\ redeeming[c] # None
  /\ redeeming' = [redeeming EXCEPT ![c] = None]
  /\ UNCHANGED <<policy, arrived, rowVars, stockVars, moneyVars, tickVars>>

----------------------------------------------------------------------------
\* ReturnSweepService: four phases, each with its candidate query

NeedsReminder(r) == status[r] = "REQUESTED" /\ ~reminded[r]
DisputeOver(r) == status[r] = "REJECTED" /\ age[r] >= DisputeAge
CodeOver(r) == Live(r) /\ age[r] >= CodeLife(r)

Candidates(p) ==
  CASE p = "remind" -> {r \in Returns : NeedsReminder(r) /\ age[r] >= ReminderAge}
    [] p = "escalate" -> {r \in Returns : status[r] = "REQUESTED" /\ age[r] >= EscalationAge}
    [] p = "close" -> {r \in Returns : DisputeOver(r)}
    [] p = "expire" -> {r \in Returns : CodeOver(r)}
    [] p = "idle" -> {}

After(p) ==
  CASE p = "idle" -> "remind" [] p = "remind" -> "escalate" [] p = "escalate" -> "close"
    [] p = "close" -> "expire" [] p = "expire" -> "idle"

EnterPhase(t) ==
  /\ todo[t] = {}
  /\ phase' = [phase EXCEPT ![t] = After(phase[t])]
  /\ todo' = [todo EXCEPT ![t] = Candidates(After(phase[t]))]
  /\ UNCHANGED <<policy, arrived, rowVars, stockVars, moneyVars, redeeming>>

\* A transaction fails, and nothing catches that before the tick's end.
TickFails(t) ==
  /\ todo[t] # {}
  /\ phase' = [phase EXCEPT ![t] = "idle"]
  /\ todo' = [todo EXCEPT ![t] = {}]
  /\ UNCHANGED <<policy, arrived, rowVars, stockVars, moneyVars, redeeming>>

Take(t, r, p) ==
  /\ phase[t] = p
  /\ r \in todo[t]
  /\ todo' = [todo EXCEPT ![t] = @ \ {r}]
  /\ UNCHANGED <<policy, arrived, item, outcome, code, branch, archived, moneyVars,
                 redeeming, phase>>

\* sendVendorReminderOnce()
RemindOnce(t, r) ==
  /\ Take(t, r, "remind")
  /\ reminded' = [reminded EXCEPT ![r] = @ \/ NeedsReminder(r)]
  /\ UNCHANGED <<status, age, held>>

StillRequested(r) == status[r] = "REQUESTED"

\* escalateOnce()
EscalateOnce(t, r) ==
  /\ Take(t, r, "escalate")
  /\ IF StillRequested(r) THEN Enter(r, "ESCALATED") ELSE UNCHANGED <<status, age>>
  /\ UNCHANGED <<reminded, held>>

\* closeDisputeWindowOnce()
CloseOnce(t, r) ==
  /\ Take(t, r, "close")
  /\ IF DisputeOver(r) THEN Enter(r, "REJECTED_CLOSED") ELSE UNCHANGED <<status, age>>
  /\ UNCHANGED <<reminded, held>>

ReleaseHold(r) ==
  IF outcome[r] = "EXCHANGE" THEN held' = [held EXCEPT ![branch[r]] = @ - 1]
                             ELSE UNCHANGED held

\* expireCodeOnce()
ExpireOnce(t, r) ==
  /\ Take(t, r, "expire")
  /\ IF CodeOver(r) THEN Enter(r, "EXPIRED") /\ ReleaseHold(r)
                    ELSE UNCHANGED <<status, age, held>>
  /\ UNCHANGED reminded

SweepStep(t, r) ==
  RemindOnce(t, r) \/ EscalateOnce(t, r) \/ CloseOnce(t, r) \/ ExpireOnce(t, r)

----------------------------------------------------------------------------
\* No age is told apart beyond the last one the code compares it with.
LastAge(r) ==
  CASE status[r] = "REQUESTED" -> EscalationAge
    [] status[r] = "REJECTED" -> DisputeAge + 1
    [] Live(r) -> CodeLife(r) + 1
    [] OTHER -> 0

Older(n, last) == IF n < last THEN n + 1 ELSE n

Pass ==
  /\ arrived' = Older(arrived, WindowDays + 1)
  /\ age' = [r \in Returns |-> Older(age[r], LastAge(r))]
  /\ <<arrived, age>>' # <<arrived, age>>
  /\ UNCHANGED <<policy, item, status, outcome, code, branch, reminded, stockVars,
                 moneyVars, redeeming, tickVars>>

CustomerStep(r) ==
  \/ \E i \in Items : \E o \in Outcomes : \E b \in Branches \cup {None} : Submit(r, i, o, b)
  \/ CancelReturn(r) \/ Dispute(r)

StaffStep(r) == Reject(r) \/ \E k \in Codes : Approve(r, k)

RedeemStep(c) ==
  \/ \E r \in Returns : LookUpCode(c, r)
  \/ RefundReturn(c) \/ FulfilExchange(c) \/ RedeemRefused(c)

TickStep(t) == EnterPhase(t) \/ TickFails(t) \/ \E r \in Returns : SweepStep(t, r)

Next ==
  \/ Pass
  \/ \E r \in Returns : CustomerStep(r) \/ StaffStep(r)
  \/ \E b \in Branches : Archive(b)
  \/ \E c \in Clerks : RedeemStep(c)
  \/ \E t \in Ticks : TickStep(t)

Spec == Init /\ [][Next]_returnVars

\* The clock runs, the timer fires, and a candidate's transaction that is
\* tried again and again does not fail for ever.
Fairness ==
  /\ WF_returnVars(Pass)
  /\ \A t \in Ticks :
       /\ WF_returnVars(EnterPhase(t))
       /\ \A r \in Returns : SF_returnVars(SweepStep(t, r))

FairSpec == Spec /\ Fairness

----------------------------------------------------------------------------
\* Properties

TypeOK ==
  /\ policy \subseteq Outcomes
  /\ arrived \in 0..(WindowDays + 1)
  /\ item \in [Returns -> Items \cup {None}]
  /\ status \in [Returns -> Statuses]
  /\ outcome \in [Returns -> Outcomes \cup {None}]
  /\ code \in [Returns -> Codes \cup {None}]
  /\ branch \in [Returns -> Branches \cup {None}]
  /\ age \in [Returns -> Nat]
  /\ reminded \in [Returns -> BOOLEAN]
  /\ held \in [Branches -> Nat]
  /\ archived \subseteq Branches
  /\ refunds \in [Items -> Nat]
  /\ settlements \in [Items -> Nat]
  /\ restocked \in [Items -> Nat]
  /\ redeeming \in [Clerks -> {None} \cup (Returns \X Codes)]
  /\ phase \in [Ticks -> Phases]
  /\ todo \in [Ticks -> SUBSET Returns]

\* An item is paid for or replaced once, and put back on a shelf once, over
\* all its returns: two clerks with one code, a return submitted again, a
\* refund and then an exchange, which no unique index excludes.
SettledOnce ==
  \A i \in Items : refunds[i] + settlements[i] <= 1 /\ restocked[i] <= 1

\* What is held for exchanges is what approved ones wait for, whichever of a
\* clerk and a sweep ended one; so no archived branch holds a replacement.
HoldsAreLive ==
  \A b \in Branches : /\ held[b] = Cardinality(HoldsAt(b))
                      /\ b \in archived => held[b] = 0

\* No answer is final before its deadline: a code the customer may still use
\* does not expire, a rejection that may be disputed is not closed, a request
\* is not taken from the branch in its first 72 hours, and none is received
\* after its code has expired; however old the sweep's candidate, or the
\* clerk's look-up, has grown.
DeadlinesKept ==
  [][\A r \in Returns :
       /\ status[r] = "REQUESTED" /\ status'[r] = "ESCALATED" => age[r] >= EscalationAge
       /\ status'[r] = "REJECTED_CLOSED" /\ status[r] # status'[r] =>
            status[r] = "REJECTED" /\ age[r] >= DisputeAge
       /\ status'[r] = "EXPIRED" /\ status[r] # status'[r] => age[r] >= CodeLife(r)
       /\ status'[r] \in Settled /\ status[r] # status'[r] => age[r] <= CodeLife(r)]_returnVars

\* Nobody needs to act for a return to move on: the branch's silence, the
\* customer's, or a code never brought all end (the sweep's three timeouts).
NothingStaysForEver ==
  \A r \in Returns : \A s \in Timed : status[r] = s ~> status[r] # s
==============================================================================
