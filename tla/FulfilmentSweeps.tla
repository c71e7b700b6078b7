-------------------------- MODULE FulfilmentSweeps --------------------------
(***************************************************************************)
(* The periodic sweeps over branch orders.  A tick of FulfilmentSweep or   *)
(* of FulfilmentExceptionSweep queries its candidates with no lock, then   *)
(* resolves them one transaction at a time; between the query and a        *)
(* candidate's transaction anything may happen to the order.  The timer    *)
(* starts a tick whether or not the previous one has ended, and every API  *)
(* instance runs its own: each member of Ticks is one tick at a time.      *)
(***************************************************************************)
EXTENDS BranchOrder

CONSTANTS ConfirmTicks,   \* concurrent ticks of FulfilmentSweepService
          ExceptionTicks  \* concurrent ticks of FulfilmentExceptionSweepService

VARIABLES confirmTodo,  \* candidates a confirmation tick has not resolved yet
          phase,        \* where an exception tick stands
          todo,         \* candidates its current phase has not resolved yet
          failureTodo   \* DELIVERY_FAILURE_TIMEOUT candidates, resolved last

tickVars == <<confirmTodo, phase, todo, failureTodo>>
sweepVars == <<vars, tickVars>>

Phases == {"idle", "prep", "slot", "timeout"}

SweepInit ==
  /\ Init
  /\ confirmTodo = [t \in ConfirmTicks |-> {}]
  /\ phase = [t \in ExceptionTicks |-> "idle"]
  /\ todo = [t \in ExceptionTicks |-> {}]
  /\ failureTodo = [t \in ExceptionTicks |-> {}]

----------------------------------------------------------------------------
\* The candidate queries

ConfirmCandidates ==
  {o \in Orders : /\ AwaitingConfirmation(o)
                  /\ deliveredAge[o] >= ConfirmReminder
                  /\ ~reminded[o] \/ deliveredAge[o] >= AutoConfirm}

Unprepared(o) == status[o] \in {"PLACED", "PREPARING"}
UnpreparedDelivery(o) ==
  Unprepared(o) /\ method[o] = "DELIVERY" /\ slot[o] # None

PrepCandidates ==
  {o \in Orders : /\ UnpreparedDelivery(o)
                  /\ prepSentFor[o] # slot[o]
                  /\ startsIn[slot[o]] \in 1..PrepLead}

SlotMissedCandidates ==
  {o \in Orders : /\ UnpreparedDelivery(o)
                  /\ slotMissedAge[o] = None
                  /\ startsIn[slot[o]] = 0}

SlotTimeoutCandidates ==
  {o \in Orders : Unprepared(o) /\ slotMissedAge[o] = Timeout}

\* Slip: the count before the failure, as canTransition takes it.
FailureCandidatesBefore ==
  {o \in Orders : /\ status[o] = "DELIVERY_FAILED"
                  /\ attempts[o] = 0
                  /\ failedAge[o] = Timeout}

FailureTimeoutCandidates ==
  {o \in Orders : /\ status[o] = "DELIVERY_FAILED"
                  /\ attempts[o] = 1
                  /\ failedAge[o] = Timeout}

----------------------------------------------------------------------------
\* FulfilmentSweepService.sweepOnce

StartConfirmTick(t) ==
  /\ confirmTodo[t] = {}
  /\ ConfirmCandidates # {}
  /\ confirmTodo' = [confirmTodo EXCEPT ![t] = ConfirmCandidates]
  /\ enqueued' = {}
  /\ UNCHANGED <<status, method, termVars, attempts, moneyVars, codVars,
                 confirmVars, slotVars, failedAge, startsIn, phase, todo,
                 failureTodo>>

\* A candidate whose re-check under the lock fails is skipped.
Skip == enqueued' = {}
        /\ UNCHANGED <<status, method, termVars, attempts, moneyVars, codVars,
                       confirmVars, slotVars, failedAge, startsIn>>

ConfirmStep(t) ==
  \E o \in confirmTodo[t] :
    /\ confirmTodo' = [confirmTodo EXCEPT ![t] = @ \ {o}]
    /\ \/ ReconcileOne(o)
       \/ ~AutoConfirmDue(o) /\ ~ConfirmReminderDue(o) /\ Skip
    /\ UNCHANGED <<phase, todo, failureTodo>>

----------------------------------------------------------------------------
\* FulfilmentExceptionSweepService.sweepOnce: prep reminders, then slot-missed
\* detection, then the timeouts; each phase queries when the last one is done

Enter(t, from, to, candidates, failures) ==
  /\ phase[t] = from
  /\ todo[t] = {}
  /\ failureTodo[t] = {}
  /\ phase' = [phase EXCEPT ![t] = to]
  /\ todo' = [todo EXCEPT ![t] = candidates]
  /\ failureTodo' = [failureTodo EXCEPT ![t] = failures]
  /\ Skip
  /\ UNCHANGED confirmTodo

StartExceptionTick(t) == Enter(t, "idle", "prep", PrepCandidates, {})
QuerySlotMissed(t) == Enter(t, "prep", "slot", SlotMissedCandidates, {})
QueryTimeouts(t) == Enter(t, "slot", "timeout", SlotTimeoutCandidates,
                          FailureTimeoutCandidates)
EndExceptionTick(t) == Enter(t, "timeout", "idle", {}, {})

Resolve(t, in, o) ==
  /\ phase[t] = in
  /\ o \in todo[t]
  /\ todo' = [todo EXCEPT ![t] = @ \ {o}]
  /\ UNCHANGED <<confirmTodo, phase, failureTodo>>

PrepStep(t) ==
  \E o \in Orders : /\ Resolve(t, "prep", o)
                    /\ SendPrepReminder(o) \/ (~PrepReminderAccepted(o) /\ Skip)

SlotStep(t) ==
  \E o \in Orders : /\ Resolve(t, "slot", o)
                    /\ MarkSlotMissed(o) \/ (~SlotMissedAccepted(o) /\ Skip)

ResolveOrSkip(o, reason) ==
  ResolveTimeout(o, reason) \/ (~TimeoutAccepted(o, reason) /\ Skip)

SlotTimeoutStep(t) ==
  \E o \in Orders : /\ Resolve(t, "timeout", o)
                    /\ ResolveOrSkip(o, "SLOT_MISSED")

FailureTimeoutStep(t) ==
  \E o \in failureTodo[t] :
    /\ todo[t] = {}
    /\ failureTodo' = [failureTodo EXCEPT ![t] = @ \ {o}]
    /\ ResolveOrSkip(o, "DELIVERY_FAILURE_TIMEOUT")
    /\ UNCHANGED <<confirmTodo, phase, todo>>

ExceptionStep(t) ==
  \/ StartExceptionTick(t)
  \/ PrepStep(t)
  \/ QuerySlotMissed(t)
  \/ SlotStep(t)
  \/ QueryTimeouts(t)
  \/ SlotTimeoutStep(t)
  \/ FailureTimeoutStep(t)
  \/ EndExceptionTick(t)

----------------------------------------------------------------------------
\* The order lists of customer and staff, and ConfirmReceived, reconcile on demand.
ReconcileOnRead == \E o \in Orders : ReconcileOne(o)

SweepNext ==
  \/ (UserNext \/ ReconcileOnRead \/ Tick) /\ UNCHANGED tickVars
  \/ \E t \in ConfirmTicks : StartConfirmTick(t) \/ ConfirmStep(t)
  \/ \E t \in ExceptionTicks : ExceptionStep(t)

SweepSpec == SweepInit /\ [][SweepNext]_sweepVars

\* The timers keep firing and every query and transaction ends; a day passes.
\* Nothing is assumed of customers and staff.
SweepFairness ==
  /\ WF_sweepVars(Tick /\ UNCHANGED tickVars)
  /\ \A t \in ConfirmTicks :
       WF_sweepVars(StartConfirmTick(t)) /\ WF_sweepVars(ConfirmStep(t))
  /\ \A t \in ExceptionTicks : WF_sweepVars(ExceptionStep(t))

FairSweepSpec == SweepSpec /\ SweepFairness

----------------------------------------------------------------------------
\* Properties

Enqueues(o, type) == <<o, type>> \in enqueued'

\* The sweeps close nothing before its time, however stale the candidate: an
\* order is auto-confirmed only after the whole period since its latest request,
\* with no report open, and is reminded once per period (reconcileOne); a failed
\* delivery is closed only 48 hours after a first failure with no reschedule,
\* although the transaction does not look at the age again (resolveTimeoutOnce).
SweepsKeepDeadlines ==
  [][\A o \in Orders :
       /\ Enqueues(o, "branch_order.auto_confirmed_72h") =>
            deliveredAge[o] >= AutoConfirm /\ ~reported[o]
       /\ Enqueues(o, "branch_order.confirm_reminder_48h") =>
            deliveredAge[o] >= ConfirmReminder /\ ~reported[o] /\ ~reminded[o]
       /\ status[o] = "DELIVERY_FAILED" /\ status'[o] \in TerminalStatuses =>
            failedAge[o] = Timeout /\ attempts[o] = 1]_sweepVars

\* With the sweeps running nothing waits for ever: a delivered order completes or
\* is reported not received; a first failed delivery is rescheduled or closed; an
\* unprepared delivery past its slot is noticed, and one that was noticed is
\* rescheduled, prepared and sent, or closed.
NoOrderWaitsForEver ==
  \A o \in Orders :
    /\ status[o] = "DELIVERED" /\ ~reported[o] ~> status[o] = "COMPLETED" \/ reported[o]
    /\ status[o] = "DELIVERY_FAILED" /\ attempts[o] = 1 ~> status[o] # "DELIVERY_FAILED"
    /\ UnpreparedDelivery(o) /\ startsIn[slot[o]] = 0
         ~> slotMissedAge[o] # None \/ ~UnpreparedDelivery(o)
    /\ Unprepared(o) /\ slotMissedAge[o] # None
         ~> slotMissedAge[o] = None \/ ~Unprepared(o)
=============================================================================
