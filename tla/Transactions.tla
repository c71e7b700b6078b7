---------------------------- MODULE Transactions ----------------------------
(***************************************************************************)
(* Handlers as transactions on rows: a handler takes its row locks and       *)
(* reads in one step, and writes and commits in a later one, or rolls back.   *)
(* A lock is held until then; a plain UPDATE waits for it as well.           *)
(***************************************************************************)
EXTENDS Integers, FiniteSets

CONSTANTS Requests,  \* handlers that may run at the same time
          MaxCalls   \* bound: handlers started

VARIABLES running,  \* transactions in progress: the handler, and what it has read
          held,     \* the locks each of them holds
          calls

transactions == <<running, held, calls>>

Idle == [op |-> "idle"]
NothingRuns == running = [r \in Requests |-> Idle] /\ held = [r \in Requests |-> {}] /\ calls = 0

Free(locks) == \A r \in Requests : held[r] \intersect locks = {}
FreeFor(r, locks) == \A s \in Requests \ {r} : held[s] \intersect locks = {}

Runs(r, request, locks) == running' = [running EXCEPT ![r] = request] /\ held' = [held EXCEPT ![r] = locks]
Begins(r, request, locks) ==
  running[r] = Idle /\ calls < MaxCalls /\ calls' = calls + 1 /\ Free(locks) /\ Runs(r, request, locks)
(* A handler that has begun takes the locks of its next statement.            *)
Proceeds(r, request, locks) == FreeFor(r, locks) /\ Runs(r, request, locks) /\ UNCHANGED calls
Commits(r, op) == running[r].op = op /\ Runs(r, Idle, {}) /\ UNCHANGED calls
Abandons(r) == running[r] # Idle /\ Runs(r, Idle, {}) /\ UNCHANGED calls
(* A transaction of one statement.                                           *)
Writes(locks) == Free(locks) /\ calls < MaxCalls /\ calls' = calls + 1 /\ UNCHANGED <<running, held>>
=============================================================================
