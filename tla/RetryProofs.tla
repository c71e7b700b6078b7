---------------------------- MODULE RetryProofs ----------------------------
(***************************************************************************)
(* Proofs about the two components that do again what may have been done:   *)
(* the outbox relay and the idempotency keys.                              *)
(*                                                                         *)
(* The relay, for any events, recipients and workers, any bound on attempts *)
(* and batches and any mix of faults: the channel is told at most once, and *)
(* the relay implements NotificationDelivery.                              *)
(*                                                                         *)
(* A key, for any number of calls, payloads and lost take-overs: one call   *)
(* at a time holds the claim, and a handler has its effect once.           *)
(***************************************************************************)
EXTENDS OutboxRelay, IdempotencyKey, FiniteSetTheorems, TLAPS

----------------------------------------------------------------------------
\* The outbox relay

RelayTypes ==
  /\ status \in [Events -> Statuses]
  /\ notified \in [Events -> SUBSET Recipients] /\ \A e \in Events : notified[e] \subseteq To[e]
  /\ toNotify \in [Workers -> SUBSET Pairs]
  /\ sent \in [Pairs -> Nat]

\* A pair is sent or waits at one worker, never both, and its notification exists.
ToldOf(p) ==
  /\ sent[p] <= 1
  /\ sent[p] = 1 => p[2] \in notified[p[1]]
  /\ \A w \in Workers : p \in toNotify[w] =>
       /\ sent[p] = 0 /\ p[2] \in notified[p[1]]
       /\ \A v \in Workers \ {w} : p \notin toNotify[v]

ChannelInv == RelayTypes /\ \A p \in Pairs : ToldOf(p)

----------------------------------------------------------------------------
\* What a step does, seen from the event it works on.

\* A row moves on, and notifies nobody.
Moves(e, s) ==
  /\ status' = [status EXCEPT ![e] = s]
  /\ UNCHANGED <<notified, toNotify, sent>>

\* A worker writes new notifications of e and remembers whom to tell.
Writes(w, e, R) ==
  /\ notified' = [notified EXCEPT ![e] = @ \cup R]
  /\ toNotify' = [toNotify EXCEPT ![w] = {e} \X (R \ notified[e])]
  /\ UNCHANGED sent

LEMMA BatchesAreOfRecipients ==
  ASSUME NEW e \in Events, NEW B \in Batches(e) PROVE B \subseteq To[e]
BY DEF Batches, Remaining

LEMMA ChannelInit == Init => ChannelInv
<1> SUFFICES ASSUME Init PROVE ChannelInv
  OBVIOUS
<1>1. RelayTypes
  BY DEF Init, RelayTypes, Statuses
<1>2. \A p \in Pairs : ToldOf(p)
  BY DEF Init, ToldOf
<1> QED BY <1>1, <1>2 DEF ChannelInv

LEMMA MovesKeep ==
  ASSUME ChannelInv, NEW e \in Events, NEW s \in Statuses, Moves(e, s) PROVE ChannelInv'
BY DEF ChannelInv, RelayTypes, ToldOf, Moves

LEMMA WritesKeep ==
  ASSUME ChannelInv, NEW w \in Workers, NEW e \in Events, NEW R \in SUBSET To[e], Writes(w, e, R),
         status' \in [Events -> Statuses]
  PROVE  ChannelInv'
<1>1. To[e] \subseteq Recipients
  BY EventsAssumption
<1>2. {e} \X (R \ notified[e]) \in SUBSET Pairs
  BY <1>1 DEF Pairs
<1>3. RelayTypes'
  BY <1>1, <1>2 DEF ChannelInv, RelayTypes, Writes
<1>4. ASSUME NEW p \in Pairs PROVE ToldOf(p)'
  <2>1. p[1] \in Events /\ notified[p[1]] \subseteq notified'[p[1]]
    BY DEF Pairs, ChannelInv, RelayTypes, Writes
  <2>2. CASE p \in {e} \X (R \ notified[e])
    <3>1. p[1] = e /\ p[2] \in R /\ p[2] \notin notified[e]
      BY <2>2
    <3>2. sent[p] = 0 /\ \A v \in Workers : p \notin toNotify[v]
      BY <3>1 DEF ChannelInv, ToldOf, RelayTypes
    <3>3. p[2] \in notified'[p[1]]
      BY <2>1, <3>1 DEF Writes, ChannelInv, RelayTypes
    <3>4. \A v \in Workers \ {w} : p \notin toNotify'[v]
      BY <3>2 DEF Writes, ChannelInv, RelayTypes
    <3>5. sent'[p] = 0
      BY <3>2 DEF Writes
    <3> QED BY <3>3, <3>4, <3>5 DEF ToldOf
  <2>3. CASE p \notin {e} \X (R \ notified[e])
    <3>1. \A v \in Workers : p \in toNotify'[v] => p \in toNotify[v] /\ v # w
      BY <2>3 DEF Writes, ChannelInv, RelayTypes
    <3>2. ToldOf(p) /\ sent'[p] = sent[p]
      BY DEF ChannelInv, Writes
    <3> QED BY <2>1, <3>1, <3>2 DEF ToldOf
  <2> QED BY <2>2, <2>3
<1> QED BY <1>3, <1>4 DEF ChannelInv

LEMMA TellKeeps == ASSUME ChannelInv, NEW w \in Workers, TellChannel(w) PROVE ChannelInv'
<1>1. PICK q \in toNotify[w] :
        /\ sent' = [sent EXCEPT ![q] = @ + 1]
        /\ toNotify' = [toNotify EXCEPT ![w] = @ \ {q}]
        /\ UNCHANGED <<status, notified>>
  BY DEF TellChannel, rowVars
<1>2. q \in Pairs
  BY DEF ChannelInv, RelayTypes
<1>3. RelayTypes'
  BY <1>1, <1>2 DEF ChannelInv, RelayTypes
<1>4. ASSUME NEW p \in Pairs PROVE ToldOf(p)'
  <2>1. ToldOf(p) /\ ToldOf(q)
    BY <1>2 DEF ChannelInv
  <2>2. \A v \in Workers : p \in toNotify'[v] => p \in toNotify[v]
    BY <1>1 DEF ChannelInv, RelayTypes
  <2>3. CASE p = q
    <3>1. sent'[p] = 1 /\ p[2] \in notified'[p[1]]
      BY <1>1, <1>2, <2>1, <2>3 DEF ToldOf, ChannelInv, RelayTypes
    <3>2. \A v \in Workers : p \notin toNotify'[v]
      BY <1>1, <2>1, <2>3 DEF ToldOf, ChannelInv, RelayTypes
    <3> QED BY <3>1, <3>2 DEF ToldOf
  <2>4. CASE p # q
    <3>1. sent'[p] = sent[p]
      BY <1>1, <2>4 DEF ChannelInv, RelayTypes
    <3> QED BY <1>1, <2>1, <2>2, <3>1 DEF ToldOf
  <2> QED BY <2>3, <2>4
<1> QED BY <1>3, <1>4 DEF ChannelInv

LEMMA ForgetKeeps ==
  ASSUME ChannelInv, NEW w \in Workers, toNotify' = [toNotify EXCEPT ![w] = {}],
         UNCHANGED <<status, notified, sent>>
  PROVE  ChannelInv'
BY DEF ChannelInv, RelayTypes, ToldOf

\* The steps of a worker that has something to process.
Finishes(w, e, R, s) == Writes(w, e, R) /\ status[e] = "PROCESSING" /\ status' = [status EXCEPT ![e] = s]

LEMMA ProcessShape ==
  ASSUME NEW w \in Workers, ProcessDone(w) \/ ProcessFailed(w)
  PROVE  \E e \in Events : \E R \in SUBSET To[e] : \E s \in {"PUBLISHED", "PENDING", "FAILED", "DEAD_LETTER"} :
           /\ Finishes(w, e, R, s)
           /\ s = "PUBLISHED" => Remaining(e) \subseteq R
<1>1. CASE ProcessDone(w)
  <2>1. PICK e \in Events : \E B \in Batches(e) :
          /\ StillOwns(w, e) /\ CreateNotifications(w, e, B) /\ DispatchBatch(w, e, B) /\ UNCHANGED sent
    BY <1>1 DEF ProcessDone
  <2>2. PICK B \in Batches(e) :
          StillOwns(w, e) /\ CreateNotifications(w, e, B) /\ DispatchBatch(w, e, B) /\ UNCHANGED sent
    BY <2>1
  <2>3. B \in SUBSET To[e] /\ Writes(w, e, B) /\ status[e] = "PROCESSING"
    BY <2>2, BatchesAreOfRecipients DEF CreateNotifications, Writes, StillOwns
  <2>4. \/ status' = [status EXCEPT ![e] = "PUBLISHED"] /\ Remaining(e) \subseteq B
        \/ status' = [status EXCEPT ![e] = "PENDING"]
    BY <2>2 DEF DispatchBatch, Publish, Yield, Batches, Remaining
  <2>5. CASE status' = [status EXCEPT ![e] = "PUBLISHED"] /\ Remaining(e) \subseteq B
    BY <2>3, <2>5 DEF Finishes
  <2>6. CASE status' = [status EXCEPT ![e] = "PENDING"]
    BY <2>3, <2>6 DEF Finishes
  <2> QED BY <2>4, <2>5, <2>6
<1>2. CASE ProcessFailed(w)
  <2>1. PICK e \in Events :
          /\ StillOwns(w, e) /\ status' = [status EXCEPT ![e] = StatusAfterError(e)] /\ UNCHANGED sent
          /\ \/ CreateNotifications(w, e, {})
             \/ \E B \in Batches(e) : \E R \in SUBSET B : CreateNotifications(w, e, R)
    BY <1>2 DEF ProcessFailed
  <2>2. PICK R \in SUBSET To[e] : CreateNotifications(w, e, R)
    BY <2>1, BatchesAreOfRecipients
  <2>3. PICK s : s = StatusAfterError(e)
    OBVIOUS
  <2>4. s \in {"FAILED", "DEAD_LETTER"}
    BY <2>3 DEF StatusAfterError
  <2>5. Finishes(w, e, R, s)
    BY <2>1, <2>2, <2>3 DEF Finishes, Writes, CreateNotifications, StillOwns
  <2> QED BY <2>4, <2>5
<1> QED BY <1>1, <1>2

\* Every other step moves a row, tells the channel, forgets, or is quiet.
Quiet == UNCHANGED <<status, notified, toNotify, sent>>

LEMMA StepShape ==
  ASSUME ChannelInv, [Next]_relayVars
  PROVE  \/ \E e \in Events : status[e] = "absent" /\ Moves(e, "PENDING")
         \/ \E e \in Events : status[e] \in {"PENDING", "FAILED", "PROCESSING"} /\ Moves(e, "PROCESSING")
         \/ \E e \in Events : status[e] = "PROCESSING" /\ Moves(e, "DEAD_LETTER")
         \/ \E w \in Workers : ProcessDone(w) \/ ProcessFailed(w)
         \/ \E w \in Workers : TellChannel(w)
         \/ \E w \in Workers : toNotify' = [toNotify EXCEPT ![w] = {}] /\ UNCHANGED <<status, notified, sent>>
         \/ Quiet
<1>1. ASSUME NEW e \in Events, Enqueue(e) PROVE status[e] = "absent" /\ Moves(e, "PENDING")
  BY <1>1 DEF Enqueue, Moves
<1>2. ASSUME NEW e \in Events, ClockStep(e) PROVE Quiet
  BY <1>2 DEF ClockStep, LeaseExpires, BecomesAvailable, Quiet
<1>3. ASSUME NEW w \in Workers, NEW e \in Events, ClaimRow(w, e)
      PROVE  status[e] \in {"PENDING", "FAILED", "PROCESSING"} /\ Moves(e, "PROCESSING")
  BY <1>3 DEF ClaimRow, Oldest, Claimable, Moves
<1>4. ASSUME NEW w \in Workers, NEW e \in Events, DeadLetterStuck(w, e)
      PROVE  status[e] = "PROCESSING" /\ Moves(e, "DEAD_LETTER")
  BY <1>4 DEF DeadLetterStuck, Exhausted, Moves
<1>5. ASSUME NEW w \in Workers, DropClaim(w) PROVE Quiet
  BY <1>5 DEF DropClaim, rowVars, Quiet
<1>6. ASSUME NEW w \in Workers, Crash(w)
      PROVE  toNotify' = [toNotify EXCEPT ![w] = {}] /\ UNCHANGED <<status, notified, sent>>
  BY <1>6 DEF Crash, rowVars
<1>7. ASSUME UNCHANGED relayVars PROVE Quiet
  BY <1>7 DEF relayVars, rowVars, Quiet
<1> QED BY <1>1, <1>2, <1>3, <1>4, <1>5, <1>6, <1>7 DEF Next, ClaimStep, ProcessStep

LEMMA ChannelStep == ChannelInv /\ [Next]_relayVars => ChannelInv'
<1> SUFFICES ASSUME ChannelInv, [Next]_relayVars PROVE ChannelInv'
  OBVIOUS
<1>1. ASSUME NEW e \in Events, NEW s \in Statuses, Moves(e, s) PROVE ChannelInv'
  BY <1>1, MovesKeep
<1>2. ASSUME NEW w \in Workers, ProcessDone(w) \/ ProcessFailed(w) PROVE ChannelInv'
  <2>1. PICK e \in Events : \E R \in SUBSET To[e] : \E s \in {"PUBLISHED", "PENDING", "FAILED", "DEAD_LETTER"} :
          Finishes(w, e, R, s)
    BY <1>2, ProcessShape
  <2>2. status' \in [Events -> Statuses]
    BY <2>1 DEF Finishes, ChannelInv, RelayTypes, Statuses
  <2> QED BY <2>1, <2>2, WritesKeep DEF Finishes
<1>3. CASE Quiet
  BY <1>3 DEF Quiet, ChannelInv, RelayTypes, ToldOf
<1>4. "PENDING" \in Statuses /\ "PROCESSING" \in Statuses /\ "DEAD_LETTER" \in Statuses
  BY DEF Statuses
<1> QED BY <1>1, <1>2, <1>3, <1>4, StepShape, TellKeeps, ForgetKeeps

LEMMA ChannelAlways == Spec => []ChannelInv
BY ChannelInit, ChannelStep, PTL DEF Spec

\* The channel is told of a notification at most once, and only after its
\* commit, for any number of workers, crashes and lost leases
\* (outbox-relay.service.ts process(), createNotification()).
THEOREM ChannelIsToldOnce == Spec => []ChannelAtMostOnce
<1>1. ChannelInv => ChannelAtMostOnce
  <2> SUFFICES ASSUME ChannelInv, NEW e \in Events, NEW r \in Recipients, NEW p, p = <<e, r>>,
                      NEW pending, pending = {w \in Workers : p \in toNotify[w]}
               PROVE  /\ sent[p] + Cardinality(pending) <= 1
                      /\ sent[p] + Cardinality(pending) = 1 => r \in notified[e]
    BY DEF ChannelAtMostOnce
  <2>1. p \in Pairs /\ p[1] = e /\ p[2] = r /\ ToldOf(p) /\ sent[p] \in Nat
    BY DEF Pairs, ChannelInv, RelayTypes
  <2>2. CASE pending = {}
    <3>1. Cardinality(pending) = 0
      BY <2>2, FS_EmptySet
    <3> QED BY <2>1, <3>1 DEF ToldOf
  <2>3. CASE pending # {}
    <3>1. PICK w : w \in pending
      BY <2>3
    <3>2. sent[p] = 0 /\ r \in notified[e] /\ pending = {w}
      BY <2>1, <3>1 DEF ToldOf
    <3>3. Cardinality(pending) = 1
      BY <3>2, FS_Singleton
    <3> QED BY <3>2, <3>3
  <2> QED BY <2>2, <2>3
<1> QED BY <1>1, ChannelAlways, PTL

----------------------------------------------------------------------------
\* The refinement.

LEMMA StageMoves ==
  ASSUME ChannelInv, NEW e \in Events, NEW s \in Statuses, status' = [status EXCEPT ![e] = s]
  PROVE  /\ \A d \in Events \ {e} : StageOf(d)' = StageOf(d)
         /\ s = "absent" => StageOf(e)' = "absent"
         /\ s = "PUBLISHED" => StageOf(e)' = "published"
         /\ s = "DEAD_LETTER" => StageOf(e)' = "givenUp"
         /\ s \in {"PENDING", "PROCESSING", "FAILED"} => StageOf(e)' = "open"
         /\ \A t : StageOf(e)' = t => Stage' = [Stage EXCEPT ![e] = t]
<1>1. status'[e] = s /\ \A d \in Events \ {e} : status'[d] = status[d]
  BY DEF ChannelInv, RelayTypes
<1>2. \A d \in Events \ {e} : StageOf(d)' = StageOf(d)
  BY <1>1 DEF StageOf
<1>3. ASSUME NEW t, StageOf(e)' = t PROVE Stage' = [Stage EXCEPT ![e] = t]
  BY <1>2, <1>3 DEF Stage
<1>4. /\ s = "absent" => StageOf(e)' = "absent"
      /\ s = "PUBLISHED" => StageOf(e)' = "published"
      /\ s = "DEAD_LETTER" => StageOf(e)' = "givenUp"
      /\ s \in {"PENDING", "PROCESSING", "FAILED"} => StageOf(e)' = "open"
  BY <1>1 DEF StageOf
<1> QED BY <1>2, <1>3, <1>4

LEMMA StageIsOpen ==
  ASSUME NEW e \in Events, status[e] \in {"PENDING", "PROCESSING", "FAILED"} PROVE Stage[e] = "open"
BY DEF Stage, StageOf

LEMMA DeliveryInit == Init => Delivery!Init
BY DEF Init, Delivery!Init, Stage, StageOf

LEMMA DeliveryStep == ChannelInv /\ [Next]_relayVars => [Delivery!Next]_(Delivery!deliveryVars)
<1> SUFFICES ASSUME ChannelInv, [Next]_relayVars PROVE [Delivery!Next]_(Delivery!deliveryVars)
  OBVIOUS
<1>0. "PENDING" \in Statuses /\ "PROCESSING" \in Statuses /\ "DEAD_LETTER" \in Statuses
      /\ "FAILED" \in Statuses /\ "PUBLISHED" \in Statuses
  BY DEF Statuses
<1>1. ASSUME NEW e \in Events, status[e] = "absent", Moves(e, "PENDING") PROVE Delivery!Next
  <2>1. Stage[e] = "absent"
    BY <1>1 DEF Stage, StageOf
  <2>2. Stage' = [Stage EXCEPT ![e] = "open"] /\ UNCHANGED notified
    BY <1>0, <1>1, StageMoves DEF Moves
  <2> QED BY <2>1, <2>2 DEF Delivery!Next, Delivery!Accept
<1>2. ASSUME NEW e \in Events, status[e] \in {"PENDING", "FAILED", "PROCESSING"}, Moves(e, "PROCESSING")
      PROVE  UNCHANGED <<Stage, notified>>
  <2>1. Stage[e] = "open"
    BY <1>2, StageIsOpen
  <2>2. Stage' = [Stage EXCEPT ![e] = "open"] /\ UNCHANGED notified
    BY <1>0, <1>2, StageMoves DEF Moves
  <2> QED BY <2>1, <2>2 DEF Stage
<1>3. ASSUME NEW e \in Events, status[e] = "PROCESSING", Moves(e, "DEAD_LETTER") PROVE Delivery!Next
  <2>1. Stage[e] = "open"
    BY <1>3, StageIsOpen
  <2>2. Stage' = [Stage EXCEPT ![e] = "givenUp"] /\ UNCHANGED notified
    BY <1>0, <1>3, StageMoves DEF Moves
  <2>3. notified' = [notified EXCEPT ![e] = @ \cup {}]
    BY <2>2 DEF ChannelInv, RelayTypes
  <2>4. {} \in SUBSET (To[e] \ notified[e])
    OBVIOUS
  <2> QED BY <2>1, <2>2, <2>3, <2>4 DEF Delivery!Next, Delivery!Notify
<1>4. ASSUME NEW w \in Workers, NEW e \in Events, NEW R \in SUBSET To[e],
             NEW s \in {"PUBLISHED", "PENDING", "FAILED", "DEAD_LETTER"},
             Finishes(w, e, R, s), s = "PUBLISHED" => Remaining(e) \subseteq R
      PROVE  Delivery!Next
  <2>1. Stage[e] = "open"
    BY <1>4, StageIsOpen DEF Finishes
  <2>2. PICK N : N = R \ notified[e]
    OBVIOUS
  <2>3. N \in SUBSET (To[e] \ notified[e]) /\ notified' = [notified EXCEPT ![e] = @ \cup N]
    BY <1>4, <2>2 DEF Finishes, Writes, ChannelInv, RelayTypes
  <2>4. s = "PUBLISHED" => notified'[e] = To[e]
    BY <1>4, <2>2, <2>3 DEF Remaining, ChannelInv, RelayTypes
  <2>5. \/ UNCHANGED Stage
        \/ s = "PUBLISHED" /\ Stage' = [Stage EXCEPT ![e] = "published"]
        \/ Stage' = [Stage EXCEPT ![e] = "givenUp"]
    <3>1. s = "PUBLISHED" => Stage' = [Stage EXCEPT ![e] = "published"]
      BY <1>0, <1>4, StageMoves DEF Finishes
    <3>2. s = "DEAD_LETTER" => Stage' = [Stage EXCEPT ![e] = "givenUp"]
      BY <1>0, <1>4, StageMoves DEF Finishes
    <3>3. s \in {"PENDING", "FAILED"} => Stage' = [Stage EXCEPT ![e] = "open"]
      BY <1>0, <1>4, StageMoves DEF Finishes
    <3> QED BY <1>4, <2>1, <3>1, <3>2, <3>3 DEF Stage
  <2> QED BY <2>1, <2>3, <2>4, <2>5 DEF Delivery!Next, Delivery!Notify
<1>5. ASSUME NEW w \in Workers, ProcessDone(w) \/ ProcessFailed(w) PROVE Delivery!Next
  BY <1>4, <1>5, ProcessShape
<1>6. ASSUME UNCHANGED <<status, notified>> PROVE UNCHANGED <<Stage, notified>>
  BY <1>6 DEF Stage, StageOf
<1>7. \A w \in Workers : TellChannel(w) => UNCHANGED <<status, notified>>
  BY DEF TellChannel, rowVars
<1> QED BY <1>1, <1>2, <1>3, <1>5, <1>6, <1>7, StepShape DEF Delivery!deliveryVars, Quiet

\* The relay implements what the outbox promises: an event notifies its own
\* recipients, each once and nobody else, and a published one has notified all,
\* whatever crashes, stalls and take-overs there are (dispatchOnce()).
THEOREM DeliveryIsImplemented == Spec => DeliverySpec
<1>1. Init => Delivery!Init
  BY DeliveryInit
<1>2. ChannelInv /\ [Next]_relayVars => [Delivery!Next]_(Delivery!deliveryVars)
  BY DeliveryStep
<1> QED BY <1>1, <1>2, ChannelAlways, PTL DEF Spec, DeliverySpec, Delivery!Spec

----------------------------------------------------------------------------
\* The idempotency keys

\* The constants, as the steps below use them.
LEMMA Constants ==
  /\ MaxTakeover \in Nat
  /\ Absent \notin Nat /\ Conflict \notin Nat /\ Error \notin Nat
  /\ Absent \notin {"IN_PROGRESS", "FAILED", "COMPLETED"}
BY CallsAssumption

IsOwner(c) == at[c] \in {"running", "ran", "recording", "failing"}

\* A call takes over only what is abandoned when it does: what it read is
\* either no longer in the row, or still abandoned.
TakeoverInv ==
  \A c \in Calls :
    at[c] = "taking" =>
      /\ seen[c] \in {"IN_PROGRESS", "FAILED"} \X Nat
      /\ seen[c][2] <= created
      /\ AsSeen(c) => Abandoned

\* Before the first claim nobody has got anywhere; from then on the row has
\* the payload of every call that got past the look-up.
PayloadInv ==
  \A c \in Calls :
    /\ keyStatus = Absent => at[c] \in {"new", "dead"} /\ answer[c] \notin Nat
    /\ at[c] = "taking" \/ IsOwner(c) \/ answer[c] \in Nat => hash = PayloadOf[c]

\* What the place of an owner says of the row, where the claim outlives it.
OwnerInv ==
  kind # "import" =>
    \A c \in Calls :
      /\ \A d \in Calls : IsOwner(c) /\ IsOwner(d) => c = d
      /\ at[c] = "running" \/ (IsOwner(c) /\ kind = "recorded") =>
           keyStatus = "IN_PROGRESS" /\ ~stale
      /\ IsOwner(c) => Fresh \/ keyStatus = "COMPLETED"
      /\ at[c] \in {"ran", "recording"} => result[c] \in Nat
      /\ kind = "completes" =>
           /\ at[c] # "recording"
           /\ at[c] = "ran" => keyStatus = "COMPLETED" /\ response = result[c]

\* What has been recorded is what everybody was told.
ResponseInv ==
  kind # "import" =>
    /\ keyStatus = "COMPLETED" => response \in Nat
    /\ \A c \in Calls : answer[c] \in Nat => keyStatus = "COMPLETED" /\ answer[c] = response
    /\ kind = "completes" => effects = 0 \/ (effects = 1 /\ keyStatus = "COMPLETED")

KeyInv == TypeOK /\ TakeoverInv /\ PayloadInv /\ OwnerInv /\ ResponseInv

\* It holds before the first call.
LEMMA KeyBegins == KeyInit => KeyInv
<1>. SUFFICES ASSUME KeyInit PROVE KeyInv
  OBVIOUS
<1>. USE Constants DEF KeyInit
<1>1. stale \in BOOLEAN
  OBVIOUS
<1>2. TypeOK
  BY <1>1 DEF TypeOK, Kinds, Places
<1>3. TakeoverInv /\ PayloadInv
  BY DEF TakeoverInv, PayloadInv, IsOwner
<1>4. OwnerInv /\ ResponseInv
  BY DEF OwnerInv, ResponseInv, IsOwner
<1>5. QED
  BY <1>2, <1>3, <1>4 DEF KeyInv

\* Every step keeps the types of the row and of the calls.
LEMMA TypeStep ==
  ASSUME TypeOK, [KeyNext]_keyVars
  PROVE  TypeOK'
<1>. USE Constants DEF TypeOK, Kinds, Places, row, locals, Go, EndsAs, Answer
<1>1. CASE UNCHANGED keyVars
  BY <1>1 DEF keyVars
<1>2. CASE GoStale
  BY <1>2 DEF GoStale
<1>3. ASSUME NEW c \in Calls, CallStep(c) \/ CallDies(c)
      PROVE  TypeOK'
  <2>1. CASE InsertClaim(c) \/ Collide(c)
    <3>1. stale' \in BOOLEAN
      BY <2>1 DEF InsertClaim, Collide
    <3>2. QED
      BY <2>1, <3>1 DEF InsertClaim, Collide
  <2>2. CASE RefuseCall(c)
    BY <2>2 DEF RefuseCall
  <2>3. CASE Replay(c)
    BY <2>3 DEF Replay
  <2>4. CASE TryTakeover(c)
    BY <2>4 DEF TryTakeover, Abandoned
  <2>5. CASE TakeOver(c)
    <3>1. stale' \in BOOLEAN
      BY <2>5 DEF TakeOver
    <3>2. QED
      BY <2>5, <3>1 DEF TakeOver
  <2>6. CASE LoseTakeover(c)
    BY <2>6 DEF LoseTakeover
  <2>7. CASE HandlerCommits(c) \/ HandlerThrows(c)
    BY <2>7 DEF HandlerCommits, HandlerThrows, CompleteInTx, Complete
  <2>8. CASE CheckRecorded(c)
    BY <2>8 DEF CheckRecorded
  <2>9. CASE Record(c) \/ RecordThrows(c)
    BY <2>9 DEF Record, RecordThrows, Complete
  <2>10. CASE AnswerError(c)
    BY <2>10 DEF AnswerError, MarkFailed
  <2>11. CASE CallDies(c)
    BY <2>11 DEF CallDies
  <2>12. QED
    BY <1>3, <2>1, <2>2, <2>3, <2>4, <2>5, <2>6, <2>7, <2>8, <2>9, <2>10, <2>11 DEF CallStep
<1>4. QED
  BY <1>1, <1>2, <1>3 DEF KeyNext

\* Every claim raises createdAt, so that what was read before it is out of date.
LEMMA TakeoverStep ==
  ASSUME KeyInv, TypeOK', [KeyNext]_keyVars
  PROVE  TakeoverInv'
<1>. USE Constants DEF KeyInv, TypeOK, TakeoverInv, PayloadInv, IsOwner, AsSeen, Abandoned, row, locals, Go, EndsAs, Answer
<1>1. CASE UNCHANGED keyVars
  BY <1>1 DEF keyVars
<1>2. CASE GoStale
  BY <1>2 DEF GoStale, Owners
<1>3. ASSUME NEW c \in Calls, CallStep(c) \/ CallDies(c)
      PROVE  TakeoverInv'
  <2>1. CASE InsertClaim(c)
    BY <2>1 DEF InsertClaim
  <2>2. CASE Collide(c)
    BY <2>2 DEF Collide
  <2>3. CASE RefuseCall(c)
    BY <2>3 DEF RefuseCall
  <2>4. CASE Replay(c)
    BY <2>4 DEF Replay
  <2>5. CASE TryTakeover(c)
    BY <2>5 DEF TryTakeover
  <2>6. CASE TakeOver(c)
    BY <2>6 DEF TakeOver
  <2>7. CASE LoseTakeover(c)
    BY <2>7 DEF LoseTakeover
  <2>8. CASE HandlerCommits(c)
    BY <2>8 DEF HandlerCommits, CompleteInTx, Complete
  <2>9. CASE HandlerThrows(c)
    BY <2>9 DEF HandlerThrows
  <2>10. CASE CheckRecorded(c)
    BY <2>10 DEF CheckRecorded, Kinds
  <2>11. CASE Record(c)
    BY <2>11 DEF Record, Complete, Kinds
  <2>12. CASE RecordThrows(c)
    BY <2>12 DEF RecordThrows
  <2>13. CASE AnswerError(c)
    BY <2>13 DEF AnswerError, MarkFailed
  <2>14. CASE CallDies(c)
    BY <2>14 DEF CallDies
  <2>15. QED
    BY <1>3, <2>1, <2>2, <2>3, <2>4, <2>5, <2>6, <2>7, <2>8, <2>9, <2>10, <2>11, <2>12, <2>13, <2>14 DEF CallStep
<1>4. QED
  BY <1>1, <1>2, <1>3 DEF KeyNext

\* The hash is written once, by the first claim; nobody gets past another.
LEMMA PayloadStep ==
  ASSUME KeyInv, TypeOK', [KeyNext]_keyVars
  PROVE  PayloadInv'
<1>. USE Constants DEF KeyInv, TypeOK, TakeoverInv, PayloadInv, IsOwner, SamePayload, row, locals, Go, EndsAs, Answer
<1>1. CASE UNCHANGED keyVars
  BY <1>1 DEF keyVars
<1>2. CASE GoStale
  BY <1>2 DEF GoStale, Owners
<1>3. ASSUME NEW c \in Calls, CallStep(c) \/ CallDies(c)
      PROVE  PayloadInv'
  <2>1. CASE InsertClaim(c)
    BY <2>1 DEF InsertClaim
  <2>2. CASE Collide(c)
    BY <2>2 DEF Collide
  <2>3. CASE RefuseCall(c)
    BY <2>3 DEF RefuseCall
  <2>4. CASE Replay(c)
    BY <2>4 DEF Replay
  <2>5. CASE TryTakeover(c)
    BY <2>5 DEF TryTakeover
  <2>6. CASE TakeOver(c)
    BY <2>6 DEF TakeOver
  <2>7. CASE LoseTakeover(c)
    BY <2>7 DEF LoseTakeover
  <2>8. CASE HandlerCommits(c)
    BY <2>8 DEF HandlerCommits, CompleteInTx, Complete
  <2>9. CASE HandlerThrows(c)
    BY <2>9 DEF HandlerThrows
  <2>10. CASE CheckRecorded(c)
    BY <2>10 DEF CheckRecorded, Kinds
  <2>11. CASE Record(c)
    BY <2>11 DEF Record, Complete, Kinds
  <2>12. CASE RecordThrows(c)
    BY <2>12 DEF RecordThrows
  <2>13. CASE AnswerError(c)
    BY <2>13 DEF AnswerError, MarkFailed
  <2>14. CASE CallDies(c)
    BY <2>14 DEF CallDies
  <2>15. QED
    BY <1>3, <2>1, <2>2, <2>3, <2>4, <2>5, <2>6, <2>7, <2>8, <2>9, <2>10, <2>11, <2>12, <2>13, <2>14 DEF CallStep
<1>4. QED
  BY <1>1, <1>2, <1>3 DEF KeyNext

\* A claim is free for a takeover only when its owner is gone.
LEMMA OwnerStep ==
  ASSUME KeyInv, TypeOK', [KeyNext]_keyVars
  PROVE  OwnerInv'
<1>. USE Constants DEF KeyInv, TypeOK, TakeoverInv, PayloadInv, OwnerInv, IsOwner, AsSeen, Abandoned, Fresh, row, locals, Go, EndsAs, Answer
<1>1. CASE UNCHANGED keyVars
  BY <1>1 DEF keyVars
<1>2. CASE GoStale
  BY <1>2 DEF GoStale, Owners
<1>3. ASSUME NEW c \in Calls, CallStep(c) \/ CallDies(c)
      PROVE  OwnerInv'
  <2>1. CASE InsertClaim(c)
    BY <2>1 DEF InsertClaim
  <2>2. CASE Collide(c)
    BY <2>2 DEF Collide
  <2>3. CASE RefuseCall(c)
    BY <2>3 DEF RefuseCall
  <2>4. CASE Replay(c)
    BY <2>4 DEF Replay
  <2>5. CASE TryTakeover(c)
    BY <2>5 DEF TryTakeover
  <2>6. CASE TakeOver(c)
    BY <2>6 DEF TakeOver
  <2>7. CASE LoseTakeover(c)
    BY <2>7 DEF LoseTakeover
  <2>8. CASE HandlerCommits(c)
    BY <2>8 DEF HandlerCommits, CompleteInTx, Complete
  <2>9. CASE HandlerThrows(c)
    BY <2>9 DEF HandlerThrows
  <2>10. CASE CheckRecorded(c)
    BY <2>10 DEF CheckRecorded, Kinds
  <2>11. CASE Record(c)
    BY <2>11 DEF Record, Complete, Kinds
  <2>12. CASE RecordThrows(c)
    BY <2>12 DEF RecordThrows
  <2>13. CASE AnswerError(c)
    BY <2>13 DEF AnswerError, MarkFailed
  <2>14. CASE CallDies(c)
    BY <2>14 DEF CallDies
  <2>15. QED
    BY <1>3, <2>1, <2>2, <2>3, <2>4, <2>5, <2>6, <2>7, <2>8, <2>9, <2>10, <2>11, <2>12, <2>13, <2>14 DEF CallStep
<1>4. QED
  BY <1>1, <1>2, <1>3 DEF KeyNext

\* Nobody has been answered before the answer is recorded, and then it stays.
LEMMA ResponseStep ==
  ASSUME KeyInv, TypeOK', [KeyNext]_keyVars
  PROVE  ResponseInv'
<1>. USE Constants DEF KeyInv, TypeOK, TakeoverInv, PayloadInv, OwnerInv, ResponseInv, IsOwner, AsSeen, Abandoned, Fresh, row, locals, Go, EndsAs, Answer
<1>1. CASE UNCHANGED keyVars
  BY <1>1 DEF keyVars
<1>2. CASE GoStale
  BY <1>2 DEF GoStale, Owners
<1>3. ASSUME NEW c \in Calls, CallStep(c) \/ CallDies(c)
      PROVE  ResponseInv'
  <2>1. CASE InsertClaim(c)
    BY <2>1 DEF InsertClaim
  <2>2. CASE Collide(c)
    BY <2>2 DEF Collide
  <2>3. CASE RefuseCall(c)
    BY <2>3 DEF RefuseCall
  <2>4. CASE Replay(c)
    BY <2>4 DEF Replay
  <2>5. CASE TryTakeover(c)
    BY <2>5 DEF TryTakeover
  <2>6. CASE TakeOver(c)
    BY <2>6 DEF TakeOver
  <2>7. CASE LoseTakeover(c)
    BY <2>7 DEF LoseTakeover
  <2>8. CASE HandlerCommits(c)
    BY <2>8 DEF HandlerCommits, CompleteInTx, Complete
  <2>9. CASE HandlerThrows(c)
    BY <2>9 DEF HandlerThrows
  <2>10. CASE CheckRecorded(c)
    BY <2>10 DEF CheckRecorded, Kinds
  <2>11. CASE Record(c)
    BY <2>11 DEF Record, Complete, Kinds
  <2>12. CASE RecordThrows(c)
    BY <2>12 DEF RecordThrows
  <2>13. CASE AnswerError(c)
    BY <2>13 DEF AnswerError, MarkFailed
  <2>14. CASE CallDies(c)
    BY <2>14 DEF CallDies
  <2>15. QED
    BY <1>3, <2>1, <2>2, <2>3, <2>4, <2>5, <2>6, <2>7, <2>8, <2>9, <2>10, <2>11, <2>12, <2>13, <2>14 DEF CallStep
<1>4. QED
  BY <1>1, <1>2, <1>3 DEF KeyNext

\* Every state of every run is one of these.
LEMMA InductiveInvariant == KeySpec => []KeyInv
<1>1. KeyInit => KeyInv
  BY KeyBegins
<1>2. KeyInv /\ [KeyNext]_keyVars => KeyInv'
  BY TypeStep, TakeoverStep, PayloadStep, OwnerStep, ResponseStep DEF KeyInv
<1>3. QED
  BY <1>1, <1>2, PTL DEF KeySpec

----------------------------------------------------------------------------
\* The row and the calls always have values of their kinds.
THEOREM TypeCorrect == KeySpec => []TypeOK
<1>1. KeyInv => TypeOK
  BY DEF KeyInv
<1>2. QED
  BY InductiveInvariant, <1>1, PTL

\* IdempotencyInterceptor lets one call at a time past the claim, however many
\* collide, lose a takeover, fail or die, where no claim goes stale in use.
THEOREM OneOwnerRuns == KeySpec => []OneOwner
<1>1. ASSUME KeyInv PROVE OneOwner
  <2>1. CASE kind = "import"
    BY <2>1 DEF OneOwner
  <2>2. CASE kind # "import"
    <3>1. ASSUME NEW c \in Owners, NEW d \in Owners PROVE c = d
      BY <1>1, <2>2, <3>1 DEF KeyInv, OwnerInv, IsOwner, Owners
    <3>2. CASE Owners = {}
      BY <3>2, FS_EmptySet DEF OneOwner
    <3>3. CASE Owners # {}
      <4>1. PICK c \in Owners : TRUE
        BY <3>3
      <4>2. Owners = {c}
        BY <3>1, <4>1
      <4>3. Cardinality(Owners) = 1
        BY <4>2, FS_Singleton
      <4>4. QED
        BY <4>3 DEF OneOwner
    <3>4. QED
      BY <3>2, <3>3
  <2>3. QED
    BY <2>1, <2>2
<1>2. QED
  BY InductiveInvariant, <1>1, PTL

\* A handler that completes its key in its own transaction commits once, also
\* when it dies, or cannot be recorded, just after.
THEOREM EffectHappensOnce == KeySpec => []EffectOnce
<1>1. KeyInv => EffectOnce
  BY DEF KeyInv, ResponseInv, EffectOnce
<1>2. QED
  BY InductiveInvariant, <1>1, PTL

\* A replay, a second winner and the first caller are told the same, and only
\* if they sent the payload that was hashed.
THEOREM AnswersDoAgree == KeySpec => []AnswersAgree
<1>1. ASSUME KeyInv PROVE AnswersAgree
  <2>1. Answers \subseteq Nat
    BY CallsAssumption, FS_CardinalityType DEF Answers
  <2>2. QED
    BY <1>1, <2>1 DEF KeyInv, PayloadInv, ResponseInv, AnswersAgree
<1>2. QED
  BY InductiveInvariant, <1>1, PTL

\* No catchError(), no takeover and no second update() touches what has been
\* recorded as the answer.
THEOREM CompletionIsFinal == KeySpec => CompletedIsFinal
<1>1. ASSUME KeyInv, [KeyNext]_keyVars, keyStatus = "COMPLETED", kind # "import"
      PROVE  keyStatus' = "COMPLETED" /\ response' = response
  <2>. USE <1>1 DEF KeyInv, TypeOK, OwnerInv, IsOwner, TakeoverInv
  <2>1. CASE UNCHANGED keyVars \/ GoStale
    BY <2>1 DEF keyVars, row, GoStale
  <2>2. ASSUME NEW c \in Calls, CallStep(c) \/ CallDies(c)
        PROVE  keyStatus' = "COMPLETED" /\ response' = response
    <3>1. CASE InsertClaim(c) \/ Collide(c) \/ RefuseCall(c) \/ Replay(c) \/ TryTakeover(c)
      BY <3>1, Constants DEF InsertClaim, Collide, RefuseCall, Replay, TryTakeover, row
    <3>2. CASE TakeOver(c)
      BY <3>2 DEF TakeOver, AsSeen, Abandoned
    <3>3. CASE HandlerCommits(c) \/ Record(c)
      BY <3>3 DEF HandlerCommits, Record, Kinds
    <3>4. CASE LoseTakeover(c) \/ HandlerThrows(c) \/ CheckRecorded(c) \/ RecordThrows(c)
      BY <3>4 DEF LoseTakeover, HandlerThrows, CheckRecorded, RecordThrows, row
    <3>5. CASE AnswerError(c) \/ CallDies(c)
      BY <3>5 DEF AnswerError, MarkFailed, CallDies, row
    <3>6. QED
      BY <2>2, <3>1, <3>2, <3>3, <3>4, <3>5 DEF CallStep
  <2>3. QED
    BY <2>1, <2>2 DEF KeyNext
<1>2. KeyInv /\ [KeyNext]_keyVars =>
        [keyStatus = "COMPLETED" /\ kind # "import" =>
           keyStatus' = "COMPLETED" /\ response' = response]_keyVars
  BY <1>1
<1>3. QED
  BY InductiveInvariant, <1>2, PTL DEF KeySpec, CompletedIsFinal
=============================================================================
