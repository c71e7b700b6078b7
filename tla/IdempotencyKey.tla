--------------------------- MODULE IdempotencyKey ---------------------------
(***************************************************************************)
(* One Idempotency-Key of one scope and path, and the calls that carry it: *)
(* the client's retries, double clicks, and calls that reuse the key for   *)
(* another payload.  IdempotencyInterceptor claims the key by an INSERT,   *)
(* runs the handler, and records its answer; a claim that failed, or that  *)
(* nobody finished, is taken over by compare-and-swap.  A handler either   *)
(* records COMPLETED inside its own transaction (IdempotencyCompletion-    *)
(* Service) or leaves that to the interceptor.                             *)
(*                                                                         *)
(* createdAt is a number that every claim raises.  A claim is stale after  *)
(* 30 seconds.  A handler that is one short transaction (Prisma ends it    *)
(* after 5 seconds) has returned by then, so that only the claim of a call *)
(* that died, or could not mark its failure, becomes stale.  An import is  *)
(* a transaction for each of up to 2000 groups of rows, and may still run. *)
(***************************************************************************)
EXTENDS Integers, FiniteSets

CONSTANTS
  Calls,       \* requests with this key
  PayloadOf,   \* method, path and body of a call, as its hash
  MaxTakeover, \* MAX_TAKEOVER_ATTEMPTS
  Conflict,    \* the answer 409
  Error,       \* the answer of a handler, or a statement, that failed
  Absent

ASSUME CallsAssumption ==
  /\ IsFiniteSet(Calls)
  /\ MaxTakeover \in Nat
  /\ {Conflict, Error, Absent} \cap Nat = {}
  /\ Cardinality({Conflict, Error, Absent}) = 3
  /\ Absent \notin {"IN_PROGRESS", "FAILED", "COMPLETED"}

VARIABLES
  kind,     \* how this endpoint's handler works
  keyStatus,   \* the row's status, Absent before it is inserted
  hash,     \* its requestHash
  created,  \* its createdAt
  stale,    \* createdAt is 30 seconds old
  response, \* its responseBody, Absent until it is COMPLETED
  effects,  \* committed runs of the handler; the number of one is its answer
  at,       \* where a call stands
  seen,     \* status and createdAt it read before a takeover
  tries,    \* takeovers it has lost
  result,   \* what its handler returned
  answer    \* what the client gets: a handler's result, or a refusal

row == <<keyStatus, hash, created, stale, response>>
locals == <<seen, tries, result>>
keyVars == <<kind, row, effects, at, locals, answer>>

Payloads == {PayloadOf[c] : c \in Calls}
Kinds == {"completes", \* it records its own completion in its transaction
          "recorded",  \* it leaves that to the interceptor
          "import"}    \* so it does, and it may run for more than 30 seconds
Places == {"new", "looking", "taking", "running", "ran", "recording", "failing",
           "answered", "dead"}

KeyInit ==
  /\ kind \in Kinds
  /\ keyStatus = Absent
  /\ hash = Absent
  /\ created = 0
  /\ stale = FALSE
  /\ response = Absent
  /\ effects = 0
  /\ at = [c \in Calls |-> "new"]
  /\ seen = [c \in Calls |-> Absent]
  /\ tries = [c \in Calls |-> 0]
  /\ result = [c \in Calls |-> Absent]
  /\ answer = [c \in Calls |-> Absent]

Go(c, to) == at' = [at EXCEPT ![c] = to]

\* A call that ends, and with it its local variables.
EndsAs(c, to) ==
  /\ Go(c, to)
  /\ seen' = [seen EXCEPT ![c] = Absent]
  /\ tries' = [tries EXCEPT ![c] = 0]
  /\ result' = [result EXCEPT ![c] = Absent]

Answer(c, a) ==
  /\ EndsAs(c, "answered")
  /\ answer' = [answer EXCEPT ![c] = a]

----------------------------------------------------------------------------
\* claimOrInspect()

InsertClaim(c) ==
  /\ at[c] = "new"
  /\ keyStatus = Absent
  /\ keyStatus' = "IN_PROGRESS"
  /\ hash' = PayloadOf[c]
  /\ created' = created + 1
  /\ stale' = FALSE
  /\ Go(c, "running")
  /\ UNCHANGED <<kind, response, effects, locals, answer>>

\* The unique constraint refuses the INSERT.
Collide(c) ==
  /\ at[c] = "new"
  /\ keyStatus # Absent
  /\ Go(c, "looking")
  /\ UNCHANGED <<kind, row, effects, locals, answer>>

SamePayload(c) == hash = PayloadOf[c]

Fresh == keyStatus = "IN_PROGRESS" /\ ~stale

Abandoned == keyStatus = "FAILED" \/ (keyStatus = "IN_PROGRESS" /\ stale)

\* evaluateExisting()
RefuseCall(c) ==
  /\ at[c] = "looking"
  /\ Fresh \/ ~SamePayload(c)
  /\ Answer(c, Conflict)
  /\ UNCHANGED <<kind, row, effects>>

Replay(c) ==
  /\ at[c] = "looking"
  /\ SamePayload(c)
  /\ keyStatus = "COMPLETED"
  /\ Answer(c, response)
  /\ UNCHANGED <<kind, row, effects>>

TryTakeover(c) ==
  /\ at[c] = "looking"
  /\ SamePayload(c)
  /\ Abandoned
  /\ seen' = [seen EXCEPT ![c] = <<keyStatus, created>>]
  /\ Go(c, "taking")
  /\ UNCHANGED <<kind, row, effects, tries, result, answer>>

AsSeen(c) == seen[c] = <<keyStatus, created>>

\* attemptTakeover(): UPDATE ... WHERE id, status and createdAt are as read
TakeOver(c) ==
  /\ at[c] = "taking"
  /\ AsSeen(c)
  /\ keyStatus' = "IN_PROGRESS"
  /\ created' = created + 1
  /\ stale' = FALSE
  /\ Go(c, "running")
  /\ seen' = [seen EXCEPT ![c] = Absent]
  /\ tries' = [tries EXCEPT ![c] = 0]
  /\ UNCHANGED <<kind, hash, response, effects, result, answer>>

LoseTakeover(c) ==
  /\ at[c] = "taking"
  /\ ~AsSeen(c)
  /\ IF tries[c] >= MaxTakeover
     THEN Answer(c, Conflict)
     ELSE /\ Go(c, "looking")
          /\ tries' = [tries EXCEPT ![c] = @ + 1]
          /\ seen' = [seen EXCEPT ![c] = Absent]
          /\ UNCHANGED <<result, answer>>
  /\ UNCHANGED <<kind, row, effects>>

----------------------------------------------------------------------------
\* The handler, and what the interceptor does after it

Complete(r) ==
  /\ keyStatus' = "COMPLETED"
  /\ response' = r
  /\ UNCHANGED <<hash, created, stale>>

\* Slip: the completion is left to the interceptor after all.
CompleteLater == UNCHANGED row

CompleteInTx == IF kind = "completes" THEN Complete(effects + 1) ELSE UNCHANGED row

HandlerCommits(c) ==
  /\ at[c] = "running"
  /\ effects' = effects + 1
  /\ result' = [result EXCEPT ![c] = effects + 1]
  /\ CompleteInTx
  /\ Go(c, "ran")
  /\ UNCHANGED <<kind, seen, tries, answer>>

\* The handler throws; its transaction has been rolled back.
HandlerThrows(c) ==
  /\ at[c] = "running"
  /\ Go(c, "failing")
  /\ UNCHANGED <<kind, row, effects, locals, answer>>

\* findUnique() of the status ...
CheckRecorded(c) ==
  /\ at[c] = "ran"
  /\ IF keyStatus = "COMPLETED"
     THEN Answer(c, result[c])
     ELSE Go(c, "recording") /\ UNCHANGED <<locals, answer>>
  /\ UNCHANGED <<kind, row, effects>>

\* ... and the interceptor's own update()
Record(c) ==
  /\ at[c] = "recording"
  /\ Complete(result[c])
  /\ Answer(c, result[c])
  /\ UNCHANGED <<kind, effects>>

\* Either statement may fail: catchError() takes it for a failed handler.
RecordThrows(c) ==
  /\ at[c] \in {"ran", "recording"}
  /\ Go(c, "failing")
  /\ UNCHANGED <<kind, row, effects, locals, answer>>

\* updateMany() WHERE status = IN_PROGRESS
MarkFailed ==
  /\ keyStatus' = IF keyStatus = "IN_PROGRESS" THEN "FAILED" ELSE keyStatus
  /\ UNCHANGED <<hash, created, stale, response>>

\* The bookkeeping may itself fail; the client gets the error either way.
AnswerError(c) ==
  /\ at[c] = "failing"
  /\ MarkFailed \/ UNCHANGED row
  /\ Answer(c, Error)
  /\ UNCHANGED <<kind, effects>>

\* The process dies, before or after the commit.
CallDies(c) ==
  /\ at[c] \notin {"new", "answered", "dead"}
  /\ EndsAs(c, "dead")
  /\ UNCHANGED <<kind, row, effects, answer>>

----------------------------------------------------------------------------
Owners == {c \in Calls : at[c] \in {"running", "ran", "recording", "failing"}}

GoStale ==
  /\ keyStatus = "IN_PROGRESS"
  /\ ~stale
  /\ Owners = {} \/ kind = "import"
  /\ stale' = TRUE
  /\ UNCHANGED <<kind, keyStatus, hash, created, response, effects, at, locals, answer>>

CallStep(c) ==
  \/ InsertClaim(c) \/ Collide(c)
  \/ RefuseCall(c) \/ Replay(c) \/ TryTakeover(c)
  \/ TakeOver(c) \/ LoseTakeover(c)
  \/ HandlerCommits(c) \/ HandlerThrows(c)
  \/ CheckRecorded(c) \/ Record(c) \/ RecordThrows(c)
  \/ AnswerError(c)

KeyNext == GoStale \/ \E c \in Calls : CallStep(c) \/ CallDies(c)

KeySpec == KeyInit /\ [][KeyNext]_keyVars

----------------------------------------------------------------------------
\* Properties

Answers == 1..Cardinality(Calls)

TypeOK ==
  /\ kind \in Kinds
  /\ keyStatus \in {Absent, "IN_PROGRESS", "FAILED", "COMPLETED"}
  /\ created \in Nat
  /\ stale \in BOOLEAN
  /\ response \in Nat \cup {Absent}
  /\ effects \in Nat
  /\ at \in [Calls -> Places]
  /\ seen \in [Calls -> {Absent} \cup ({"IN_PROGRESS", "FAILED"} \X Nat)]
  /\ tries \in [Calls -> Nat]
  /\ result \in [Calls -> Nat \cup {Absent}]
  /\ answer \in [Calls -> Nat \cup {Conflict, Error, Absent}]

\* "Only the winner runs the handler": however many calls find the key free,
\* failed or abandoned at the same time, one at most holds the claim, wherever
\* the handler returns before its claim is stale.
OneOwner == kind # "import" => Cardinality(Owners) <= 1

\* A handler that records its completion in its own transaction takes effect
\* once per key, whatever crashes, failed writes and retries follow it.
EffectOnce == kind = "completes" => effects <= 1

\* Two calls that succeed are told the same, and never for another payload.
AnswersAgree ==
  \A c, d \in Calls :
    answer[c] \in Answers =>
      /\ PayloadOf[c] = hash
      /\ kind # "import" /\ answer[d] \in Answers => answer[d] = answer[c]

\* A recorded success is never downgraded nor replaced, by the error path of
\* the call that recorded it or by a late takeover.
CompletedIsFinal ==
  [][keyStatus = "COMPLETED" /\ kind # "import" =>
       keyStatus' = "COMPLETED" /\ response' = response]_keyVars
=============================================================================
