---------------------------- MODULE OutboxRelay ----------------------------
(***************************************************************************)
(* The relay half of the transactional outbox.  dispatchOnce() claims a    *)
(* row of outbox_events in one transaction and processes it in a second    *)
(* one that first re-checks that the row is still its own; the channel is  *)
(* told of new notifications after the commit.  Between the two a worker   *)
(* may stall past its lease or crash, and another worker takes over.       *)
(*                                                                         *)
(* Time: a row whose availableAt lies in the future is cooling, a lease    *)
(* older than LEASE_SECONDS is over; both change when the clock says so.   *)
(* An outbox_delivery_targets row has processedAt set exactly when its     *)
(* notification exists, as one transaction writes both.                    *)
(***************************************************************************)
EXTENDS Integers, FiniteSets

CONSTANTS
  Events,      \* outbox_events rows, numbered in the order of createdAt
  TypeOf,      \* eventType
  Recipients,  \* users
  To,          \* recipient_user_id, or the outbox_delivery_targets rows
  Workers,     \* concurrent dispatchOnce() calls, of any API instance
  None,        \* SQL NULL
  MaxAttempts, \* MAX_ATTEMPTS
  BatchSize,   \* FOLLOWER_BATCH_SIZE
  Faults       \* what can go wrong: "throw", "crash", "stall"

\* EVENT_TYPE_MAP and FOLLOWER_EVENT_TYPE_MAP
EventTypeMap == {
  "stock_movement.owner_notification", "branch_order.delivered_confirm_requested",
  "branch_order.confirm_rerequested", "branch_order.not_received_reported",
  "branch_order.auto_confirmed_72h", "branch_order.confirm_reminder_48h",
  "vendor.suspended", "vendor.reactivated", "branch_order.new_order_for_employee",
  "checkout.low_stock_after_reserve", "branch_order.cancelled",
  "branch_order.rescheduled", "branch_order.delivery_failed",
  "branch_order.refund_requested", "branch_order.refund_approved",
  "branch_order.refund_automatic", "branch_order.slot_missed",
  "branch_order.prep_reminder" }
FollowerEventTypeMap == {
  "offer.published_for_followers", "offer.discount_activated_for_followers",
  "favorite.price_dropped", "favorite.back_in_stock", "favorite.new_offer_matched" }

IsFanOut(e) == TypeOf[e] \in FollowerEventTypeMap
HasMapping(e) == TypeOf[e] \in EventTypeMap \cup FollowerEventTypeMap

ASSUME EventsAssumption ==
  /\ Events \subseteq Nat
  /\ To \in [Events -> SUBSET Recipients]
  /\ IsFiniteSet(Recipients)
  /\ \A e \in Events : IsFanOut(e) \/ Cardinality(To[e]) = 1

ASSUME RelayAssumption ==
  /\ MaxAttempts \in Nat \ {0}
  /\ BatchSize \in Nat \ {0}
  /\ Faults \subseteq {"throw", "crash", "stall"}
  /\ None \notin Events \cup Workers

VARIABLES
  status,     \* OutboxEventStatus, or "absent" before the row is inserted
  attempts,   \* attemptCount
  lockToken,  \* the worker whose claim wrote lockToken, or None
  leaseOver,  \* lockedAt is older than the lease
  cooling,    \* availableAt is in the future
  notified,   \* recipients with a notifications row, per event
  claim,      \* the row a worker claimed and has not processed yet
  toNotify,   \* <<event, recipient>> pairs still to be sent to the channel
  sent        \* calls of NotificationChannelService.notify, per pair

rowVars == <<status, attempts, lockToken, leaseOver, cooling>>
relayVars == <<rowVars, notified, claim, toNotify, sent>>

Pairs == Events \X Recipients
Statuses == {"absent", "PENDING", "PROCESSING", "FAILED", "PUBLISHED", "DEAD_LETTER"}

Init ==
  /\ status = [e \in Events |-> "absent"]
  /\ attempts = [e \in Events |-> 0]
  /\ lockToken = [e \in Events |-> None]
  /\ leaseOver = [e \in Events |-> FALSE]
  /\ cooling = [e \in Events |-> FALSE]
  /\ notified = [e \in Events |-> {}]
  /\ claim = [w \in Workers |-> None]
  /\ toNotify = [w \in Workers |-> {}]
  /\ sent = [p \in Pairs |-> 0]

\* The business transaction that enqueued the event, and its delivery
\* targets, commits.
Enqueue(e) ==
  /\ status[e] = "absent"
  /\ status' = [status EXCEPT ![e] = "PENDING"]
  /\ UNCHANGED <<attempts, lockToken, leaseOver, cooling, notified, claim,
                 toNotify, sent>>

----------------------------------------------------------------------------
\* claim()

\* Slip: the query skips stuck rows that have no attempt left.
ClaimableUnderBudget(e) ==
  \/ status[e] \in {"PENDING", "FAILED"} /\ ~cooling[e]
  \/ status[e] = "PROCESSING" /\ leaseOver[e] /\ attempts[e] < MaxAttempts

Claimable(e) ==
  \/ status[e] \in {"PENDING", "FAILED"} /\ ~cooling[e]
  \/ status[e] = "PROCESSING" /\ leaseOver[e]

\* Its process() transaction may be running and hold the row lock.
MayBeLocked(e) == \E v \in Workers : claim[v] = e

\* ORDER BY createdAt LIMIT 1 FOR UPDATE SKIP LOCKED
Oldest(e) ==
  /\ Claimable(e)
  /\ \A d \in Events : d < e /\ Claimable(d) => MayBeLocked(d)

Free(w) == claim[w] = None /\ toNotify[w] = {}

Exhausted(e) == status[e] = "PROCESSING" /\ attempts[e] >= MaxAttempts

ClaimRow(w, e) ==
  /\ Free(w)
  /\ Oldest(e)
  /\ ~Exhausted(e)
  /\ status' = [status EXCEPT ![e] = "PROCESSING"]
  /\ attempts' = [attempts EXCEPT ![e] = @ + 1]
  /\ lockToken' = [lockToken EXCEPT ![e] = w]
  /\ leaseOver' = [leaseOver EXCEPT ![e] = FALSE]
  /\ claim' = [claim EXCEPT ![w] = e]
  /\ UNCHANGED <<cooling, notified, toNotify, sent>>

DeadLetterStuck(w, e) ==
  /\ Free(w)
  /\ Oldest(e)
  /\ Exhausted(e)
  /\ status' = [status EXCEPT ![e] = "DEAD_LETTER"]
  /\ UNCHANGED <<attempts, lockToken, leaseOver, cooling, notified, claim,
                 toNotify, sent>>

----------------------------------------------------------------------------
\* process()

Release(w) == claim' = [claim EXCEPT ![w] = None]

\* Slip: only the lock token is compared, not the status.
TokenMatches(w, e) == lockToken[e] = w

StillOwns(w, e) == status[e] = "PROCESSING" /\ lockToken[e] = w

\* The lease was lost to another worker: do nothing at all.
DropClaim(w) ==
  /\ claim[w] # None
  /\ ~StillOwns(w, claim[w])
  /\ Release(w)
  /\ UNCHANGED <<rowVars, notified, toNotify, sent>>

Remaining(e) == To[e] \ notified[e]

\* The targets of one drainFollowerBatch(), or the one recipient.
Batches(e) ==
  IF IsFanOut(e)
  THEN {B \in SUBSET Remaining(e) :
          \/ Cardinality(B) = BatchSize
          \/ B = Remaining(e) /\ Cardinality(B) < BatchSize}
  ELSE {To[e]}

\* Slip: the channel is told of every recipient the batch was meant for.
QueueEveryRecipient(w, e, R) ==
  /\ notified' = [notified EXCEPT ![e] = @ \cup R]
  /\ toNotify' = [toNotify EXCEPT ![w] = {e} \X To[e]]

\* createNotification() for each of R: a row that exists already is left
\* alone and is not sent to the channel again.
CreateNotifications(w, e, R) ==
  /\ notified' = [notified EXCEPT ![e] = @ \cup R]
  /\ toNotify' = [toNotify EXCEPT ![w] = {e} \X (R \ notified[e])]

Publish(w, e) ==
  /\ status' = [status EXCEPT ![e] = "PUBLISHED"]
  /\ UNCHANGED <<attempts, lockToken, leaseOver, cooling>>

\* A voluntary yield gives the attempt back: GREATEST(attemptCount - 1, 0).
GiveAttemptBack(e) ==
  attempts' = [attempts EXCEPT ![e] = IF @ = 0 THEN 0 ELSE @ - 1]

Yield(w, e) ==
  /\ status' = [status EXCEPT ![e] = "PENDING"]
  /\ GiveAttemptBack(e)
  /\ lockToken' = [lockToken EXCEPT ![e] = None]
  /\ leaseOver' = [leaseOver EXCEPT ![e] = FALSE]
  /\ cooling' = [cooling EXCEPT ![e] = TRUE]

DispatchBatch(w, e, B) ==
  IF B = Remaining(e) \/ ~IsFanOut(e) THEN Publish(w, e) ELSE Yield(w, e)

ProcessDone(w) ==
  \E e \in Events :
    /\ claim[w] = e
    /\ StillOwns(w, e)
    /\ HasMapping(e)
    /\ \E B \in Batches(e) : CreateNotifications(w, e, B) /\ DispatchBatch(w, e, B)
    /\ Release(w)
    /\ UNCHANGED sent

StatusAfterError(e) == IF attempts[e] >= MaxAttempts THEN "DEAD_LETTER" ELSE "FAILED"

\* dispatchByEventType() throws: at once for a type with no mapping, or after
\* some notifications of the batch, which are committed with the new status.
ProcessFailed(w) ==
  \E e \in Events :
    /\ claim[w] = e
    /\ StillOwns(w, e)
    /\ \/ ~HasMapping(e) /\ CreateNotifications(w, e, {})
       \/ /\ HasMapping(e) /\ "throw" \in Faults
          /\ \E B \in Batches(e) : \E R \in SUBSET B :
               R # B /\ CreateNotifications(w, e, R)
    /\ status' = [status EXCEPT ![e] = StatusAfterError(e)]
    /\ cooling' = [cooling EXCEPT ![e] = TRUE]
    /\ Release(w)
    /\ UNCHANGED <<attempts, lockToken, leaseOver, sent>>

\* notifyBestEffort(), whether or not the channel throws
TellChannel(w) ==
  \E p \in toNotify[w] :
    /\ sent' = [sent EXCEPT ![p] = @ + 1]
    /\ toNotify' = [toNotify EXCEPT ![w] = @ \ {p}]
    /\ UNCHANGED <<rowVars, notified, claim>>

\* The process dies or its transaction is rolled back: what it had claimed
\* stays PROCESSING, what it had still to tell the channel is forgotten.
Crash(w) ==
  /\ "crash" \in Faults
  /\ ~Free(w)
  /\ Release(w)
  /\ toNotify' = [toNotify EXCEPT ![w] = {}]
  /\ UNCHANGED <<rowVars, notified, sent>>

----------------------------------------------------------------------------
\* The clock

\* The worker died with the row, or it is slower than the lease.
LeaseExpires(e) ==
  /\ status[e] = "PROCESSING"
  /\ "stall" \in Faults \/ ~MayBeLocked(e)
  /\ ~leaseOver[e]
  /\ leaseOver' = [leaseOver EXCEPT ![e] = TRUE]
  /\ UNCHANGED <<status, attempts, lockToken, cooling, notified, claim,
                 toNotify, sent>>

BecomesAvailable(e) ==
  /\ cooling[e]
  /\ cooling' = [cooling EXCEPT ![e] = FALSE]
  /\ UNCHANGED <<status, attempts, lockToken, leaseOver, notified, claim,
                 toNotify, sent>>

----------------------------------------------------------------------------
ClaimStep(w) == \E e \in Events : ClaimRow(w, e) \/ DeadLetterStuck(w, e)
ProcessStep(w) == DropClaim(w) \/ ProcessDone(w) \/ ProcessFailed(w)
ClockStep(e) == LeaseExpires(e) \/ BecomesAvailable(e)

Next ==
  \/ \E e \in Events : Enqueue(e) \/ ClockStep(e)
  \/ \E w \in Workers : ClaimStep(w) \/ ProcessStep(w) \/ TellChannel(w) \/ Crash(w)

Spec == Init /\ [][Next]_relayVars

\* The timer keeps calling dispatchOnce(), a call that does not crash ends,
\* and time passes.
Fairness ==
  /\ \A w \in Workers : /\ WF_relayVars(ClaimStep(w))
                        /\ WF_relayVars(ProcessStep(w))
                        /\ WF_relayVars(TellChannel(w))
  /\ \A e \in Events : WF_relayVars(ClockStep(e))

FairSpec == Spec /\ Fairness

----------------------------------------------------------------------------
\* Properties

\* A channel message goes out at most once per notification and only for a
\* notification that is committed, whoever crashed or took over meanwhile.
ChannelAtMostOnce ==
  \A e \in Events : \A r \in Recipients :
    LET p == <<e, r>>
        pending == {w \in Workers : p \in toNotify[w]}
    IN  /\ sent[p] + Cardinality(pending) <= 1
        /\ sent[p] + Cardinality(pending) = 1 => r \in notified[e]

\* Every enqueued event is published or given up in the end, even when every
\* attempt crashes, stalls or throws (dispatchOnce).
EventuallySettled ==
  \A e \in Events :
    status[e] = "PENDING" ~> status[e] \in {"PUBLISHED", "DEAD_LETTER"}

\* How far the delivery of an event is, by its row.
StageOf(e) ==
  CASE status[e] = "absent" -> "absent"
    [] status[e] = "PUBLISHED" -> "published"
    [] status[e] = "DEAD_LETTER" -> "givenUp"
    [] OTHER -> "open"

Stage == [e \in Events |-> StageOf(e)]

Delivery == INSTANCE NotificationDelivery WITH stage <- Stage

\* The relay implements what the outbox promises its callers: nobody but the
\* recipients is notified, nobody twice, PUBLISHED means everybody was, and a
\* worker that wakes up after its row was given up or finished by another
\* changes nothing.
DeliverySpec == Delivery!Spec
=============================================================================
