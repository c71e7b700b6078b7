------------------------------ MODULE Accounts ------------------------------
(***************************************************************************)
(* Accounts: one-time codes, verification tokens, sessions, and the four    *)
(* changes they gate (registration, password reset, phone change, removal   *)
(* and reactivation).  Rows of Postgres (users, codes) and keys of Redis    *)
(* (tokens, sessions) are written by separate steps of one handler, so      *)
(* every handler is a running request that other handlers overtake.         *)
(***************************************************************************)
EXTENDS Integers, Sequences, FiniteSets

CONSTANTS Users,        \* accounts that exist or may be registered
          Phones, Passwords,
          Requests,     \* handlers that may run at the same time
          Keys,         \* Idempotency-Keys of otp/verify
          Registered,   \* [phone, password] of the account there is at the start
          MaxAttempts,  \* MAX_ATTEMPTS
          MaxCodes, MaxCalls, \* bounds of the model: codes sent, handlers started
          NoOne         \* neither a user, nor a phone, a key or a request

ASSUME NoOneAssumption == NoOne \notin Users \union Phones \union Keys \union Requests
ASSUME RegisteredAssumption == Registered \in [phone : Phones, password : Passwords]

VARIABLES users,    \* the users table
          codes,    \* otp_codes, in the order of issuedSequence
          tokens,   \* phone_verification:* keys in Redis
          index,    \* phone_verification_recovery:* keys in Redis
          sessions, \* session:* keys in Redis
          orders,   \* accounts with an order that is not terminal
          running,  \* the handlers in progress
          lock,     \* holder of the row lock of a user
          handed,   \* ghost: tokens some client was answered with
          uses,     \* ghost: what a code has gated so far
          calls

vars == <<users, codes, tokens, index, sessions, orders, running, lock, handed, uses, calls>>

Purposes == {"SIGNUP", "PASSWORD_RESET", "PHONE_CHANGE", "ACCOUNT_REACTIVATION"}
Absent == [phone |-> NoOne, password |-> NoOne, version |-> 0, removed |-> FALSE, lapsed |-> FALSE, removals |-> 0]
Idle == [op |-> "idle"]
Exists(u) == users[u].phone # NoOne
WithPhone(p) == {u \in Users : users[u].phone = p}

(* What a session stands for: who may use the account, and how.  A ghost:    *)
(* the code compares the version only.                                       *)
Facts(u) == <<users[u].phone, users[u].password, users[u].removals>>
Opened(u) == [user |-> u, version |-> users[u].version, facts |-> Facts(u)]

Init ==
  /\ users \in {[u \in Users |-> IF u = v THEN [Absent EXCEPT !.phone = Registered.phone, !.password = Registered.password]
                                          ELSE Absent] : v \in Users}
  /\ codes = <<>> /\ tokens = {} /\ index = {} /\ sessions = {} /\ orders = {}
  /\ running = [r \in Requests |-> Idle] /\ lock = [u \in Users |-> NoOne]
  /\ handed = {} /\ uses = <<>> /\ calls = 0

(***************************************************************************)
(* Handlers: a call starts one on an idle request; it ends by answering.    *)
(***************************************************************************)
Call(r) == running[r] = Idle /\ calls < MaxCalls /\ calls' = calls + 1
Goes(r, request) == running' = [running EXCEPT ![r] = request]
Ends(r) == Goes(r, Idle)
At(r, op) == running[r].op = op /\ UNCHANGED calls
Rows == <<users, codes, uses>>
Redis == <<tokens, index, sessions, handed>>
Order == <<orders, lock>>

(* SessionAuthGuard: the key exists and its version is the user's.  It does   *)
(* not look at deactivatedAt.                                                *)
Accepts(s) == s \in sessions /\ users[s.user].version = s.version

(***************************************************************************)
(* One-time codes                                                           *)
(***************************************************************************)
Unconsumed(p, purpose) == {c \in DOMAIN codes : codes[c].phone = p /\ codes[c].purpose = purpose /\ codes[c].by = NoOne}
Latest(p, purpose) == CHOOSE c \in Unconsumed(p, purpose) : \A d \in Unconsumed(p, purpose) : d <= c

(* checkCode() with the code that row c was sent with: only the latest        *)
(* unconsumed row of its phone and purpose is looked at.                      *)
CheckCode(c) ==
  LET p == codes[c].phone purpose == codes[c].purpose l == Latest(p, purpose)
  IN CASE Unconsumed(p, purpose) = {}          -> "invalid"
       [] codes[l].attempts >= MaxAttempts     -> "too_many_attempts"
       [] codes[l].expired                     -> "expired"
       [] l # c                                -> "wrong"
       [] OTHER                                -> "ok"

\* Slip: the compare-and-set forgets that the row may have been consumed.
ConsumableUnpinned(c, attempts) == ~codes[c].expired /\ codes[c].attempts = attempts
(* consume(): a compare-and-set on the row as checkCode() read it.            *)
Consumable(c, attempts) == codes[c].by = NoOne /\ ~codes[c].expired /\ codes[c].attempts = attempts

Issue(p, purpose) ==
  /\ Len(codes) < MaxCodes
  /\ codes' = Append(codes, [phone |-> p, purpose |-> purpose, attempts |-> 0, expired |-> FALSE, by |-> NoOne])
  /\ uses' = Append(uses, 0)

(* otp/request, password/reset-request, reactivate-request.                   *)
RequestCode(p, purpose) ==
  /\ calls < MaxCalls /\ calls' = calls + 1
  /\ purpose = "PASSWORD_RESET" => WithPhone(p) # {}
  /\ purpose = "ACCOUNT_REACTIVATION" => \E u \in WithPhone(p) : users[u].removed /\ ~users[u].lapsed
  /\ Issue(p, purpose)
  /\ UNCHANGED <<users, Redis, Order, running>>

WrongCode(c) ==
  LET l == Latest(codes[c].phone, codes[c].purpose)
  IN codes' = [codes EXCEPT ![l].attempts = @ + 1]

(* otp/verify: check; then create the token and its index; then consume.  The *)
(* Idempotency-Key's claim keeps a second call with the same key out.         *)
Claimed(key) == \E r \in Requests : running[r].op \in {"verify", "verify_consumes"} /\ running[r].key = key
VerifyChecks(r, c, key) ==
  /\ Call(r) /\ ~Claimed(key)
  /\ \/ /\ CheckCode(c) = "ok"
        /\ Goes(r, [op |-> "verify", code |-> c, key |-> key, attempts |-> codes[c].attempts])
        /\ UNCHANGED codes
     \/ CheckCode(c) = "wrong" /\ WrongCode(c) /\ UNCHANGED running
  /\ UNCHANGED <<users, uses, Redis, Order>>

VerifyCreatesToken(r) ==
  /\ At(r, "verify")
  /\ LET t == [code |-> running[r].code, key |-> running[r].key]
     IN tokens' = tokens \union {t} /\ index' = index \union {t}
  /\ Goes(r, [running[r] EXCEPT !.op = "verify_consumes"])
  /\ UNCHANGED <<Rows, sessions, handed, Order>>

VerifyConsumes(r) ==
  /\ At(r, "verify_consumes") /\ Ends(r)
  /\ LET c == running[r].code key == running[r].key
     IN IF Consumable(c, running[r].attempts)
        THEN codes' = [codes EXCEPT ![c].by = key] /\ handed' = handed \union {[code |-> c, key |-> key]}
        ELSE UNCHANGED <<codes, handed>>
  /\ UNCHANGED <<users, uses, tokens, index, sessions, Order>>

(* findConsumedRecord(): only the key that consumed the code.                 *)
ConsumedBy(c, key) == codes[c].by = key

(* A retry whose first answer was lost.                                       *)
VerifyRecovers(c, key) ==
  /\ calls < MaxCalls /\ calls' = calls + 1
  /\ CheckCode(c) \in {"invalid", "wrong"} /\ ConsumedBy(c, key) /\ ~Claimed(key)
  /\ IF CheckCode(c) = "wrong" THEN WrongCode(c) ELSE UNCHANGED codes
  /\ handed' = handed \union ({[code |-> c, key |-> key]} \intersect index)
  /\ UNCHANGED <<users, uses, tokens, index, sessions, running, Order>>

(* phoneVerification.consume(): GETDEL, then phone and purpose are compared.  *)
Redeems(t, purpose) ==
  /\ t \in handed \intersect tokens /\ codes[t.code].purpose = purpose
  /\ tokens' = tokens \ {t}

(***************************************************************************)
(* Sessions                                                                 *)
(***************************************************************************)
\* Slip: the session takes the version the account has when it is written.
VersionWhenWritten(s) == [s EXCEPT !.version = users[s.user].version]
(* The version a session carries is the one read with the account's data.     *)
VersionAsRead(s) == s

(* The last step of every handler that issues a session.                      *)
OpenSession(r) ==
  /\ At(r, "open") /\ Ends(r)
  /\ sessions' = sessions \union {VersionAsRead(running[r].session)}
  /\ UNCHANGED <<Rows, tokens, index, handed, Order>>

Login(r, p, password) ==
  /\ Call(r)
  /\ \E u \in WithPhone(p) : /\ users[u].password = password /\ ~users[u].removed
                             /\ Goes(r, [op |-> "open", session |-> Opened(u)])
  /\ UNCHANGED <<Rows, Redis, Order>>

Logout(s) ==
  /\ Accepts(s) /\ sessions' = sessions \ {s}
  /\ UNCHANGED <<Rows, tokens, index, handed, Order, running, calls>>

(***************************************************************************)
(* The changes a code gates                                                 *)
(***************************************************************************)
Gated(c) == uses' = [uses EXCEPT ![c] = @ + 1]

RegisterChecks(r, t, password) ==
  /\ Call(r) /\ Redeems(t, "SIGNUP")
  /\ IF WithPhone(codes[t.code].phone) = {}
     THEN Goes(r, [op |-> "register", code |-> t.code, password |-> password]) ELSE UNCHANGED running
  /\ UNCHANGED <<Rows, index, sessions, handed, Order>>

(* The unique phone of the users table decides between two registrations.     *)
RegisterCreates(r) ==
  /\ At(r, "register")
  /\ LET p == codes[running[r].code].phone
     IN \/ /\ WithPhone(p) = {}
           /\ \E u \in Users :
                /\ ~Exists(u)
                /\ users' = [users EXCEPT ![u] = [Absent EXCEPT !.phone = p, !.password = running[r].password]]
                /\ Goes(r, [op |-> "open", session |-> [user |-> u, version |-> 0, facts |-> <<p, running[r].password, 0>>]])
           /\ Gated(running[r].code)
        \/ WithPhone(p) # {} /\ Ends(r) /\ UNCHANGED <<users, uses>>
  /\ UNCHANGED <<codes, Redis, Order>>

(* Its key, of another path, may be one that otp/verify was called with.       *)
ResetChecks(r, c, key, password) ==
  /\ Call(r) /\ codes[c].purpose = "PASSWORD_RESET"
  /\ \/ /\ CheckCode(c) = "ok" /\ UNCHANGED codes
        /\ IF WithPhone(codes[c].phone) = {} THEN UNCHANGED running
           ELSE \E u \in WithPhone(codes[c].phone) :
             Goes(r, [op |-> "reset", code |-> c, key |-> key, attempts |-> codes[c].attempts, user |-> u, password |-> password])
     \/ CheckCode(c) = "wrong" /\ WrongCode(c) /\ UNCHANGED running
  /\ UNCHANGED <<users, uses, Redis, Order>>

WithNewPassword(user, password) == [user EXCEPT !.password = password, !.version = @ + 1]

(* One transaction: the code is consumed, the password and version change.    *)
ResetCommits(r) ==
  /\ At(r, "reset")
  /\ LET q == running[r]
     IN IF Consumable(q.code, q.attempts)
        THEN /\ lock[q.user] = NoOne
             /\ codes' = [codes EXCEPT ![q.code].by = q.key]
             /\ users' = [users EXCEPT ![q.user] = WithNewPassword(@, q.password)]
             /\ Gated(q.code)
             /\ Goes(r, [op |-> "revoke", user |-> q.user,
                         session |-> [user |-> q.user, version |-> users'[q.user].version,
                                      facts |-> <<users[q.user].phone, q.password, users[q.user].removals>>]])
        ELSE Ends(r) /\ UNCHANGED Rows
  /\ UNCHANGED <<Redis, Order>>

(* revokeAllForUser(): the tokens found are deleted, later ones survive.      *)
RevokeFinds(r) ==
  /\ At(r, "revoke")
  /\ Goes(r, [op |-> "revoke_deletes", session |-> running[r].session, found |-> {s \in sessions : s.user = running[r].user}])
  /\ UNCHANGED <<Rows, Redis, Order>>

RevokeDeletes(r) ==
  /\ At(r, "revoke_deletes")
  /\ sessions' = sessions \ running[r].found
  /\ Goes(r, [op |-> "open", session |-> running[r].session])
  /\ UNCHANGED <<Rows, tokens, index, handed, Order>>

(* patchMe() with a new phone.                                                *)
PhoneChangeChecks(r, s, t) ==
  /\ Call(r) /\ Accepts(s) /\ Redeems(t, "PHONE_CHANGE")
  /\ Goes(r, [op |-> "phone", user |-> s.user, code |-> t.code])
  /\ UNCHANGED <<Rows, index, sessions, handed, Order>>

PhoneChangeCommits(r) ==
  /\ At(r, "phone") /\ lock[running[r].user] = NoOne
  /\ LET u == running[r].user p == codes[running[r].code].phone
     IN IF WithPhone(p) \subseteq {u}
        THEN /\ users' = [users EXCEPT ![u].phone = p, ![u].version = @ + 1]
             /\ Gated(running[r].code)
             /\ Goes(r, [op |-> "open", session |-> [user |-> u, version |-> users[u].version + 1,
                                                     facts |-> <<p, users[u].password, users[u].removals>>]])
        ELSE Ends(r) /\ UNCHANGED <<users, uses>>
  /\ UNCHANGED <<codes, Redis, Order>>

(***************************************************************************)
(* Removal, reactivation and the checkout that races them                    *)
(***************************************************************************)
Starts(r, s, op) ==
  /\ Call(r) /\ Accepts(s) /\ Goes(r, [op |-> op, user |-> s.user])
  /\ UNCHANGED <<Rows, Redis, Order>>

(* deactivate(): row lock, then the account, the shops it owns and its orders *)
(* are read.  Whether it is the last active owner of a shop that is not closed *)
(* is in tables that are not here: either answer.                            *)
RemovalLocks(r) ==
  /\ At(r, "remove") /\ lock[running[r].user] = NoOne
  /\ LET u == running[r].user
     IN \E lastOwner \in BOOLEAN :
          IF users[u].removed \/ lastOwner \/ u \in orders
          THEN Ends(r) /\ UNCHANGED lock
          ELSE Goes(r, [running[r] EXCEPT !.op = "remove_commits"]) /\ lock' = [lock EXCEPT ![u] = r]
  /\ UNCHANGED <<Rows, Redis, orders>>

RemovalCommits(r) ==
  /\ At(r, "remove_commits") /\ Ends(r)
  /\ LET u == running[r].user
     IN /\ users' = [users EXCEPT ![u].removed = TRUE, ![u].removals = @ + 1, ![u].version = @ + 1]
        /\ lock' = [lock EXCEPT ![u] = NoOne]
  /\ UNCHANGED <<codes, uses, Redis, orders>>

\* Slip: confirm() reads the account without locking its row.
ReadsAccount(r, u) == UNCHANGED lock
LocksAccount(r, u) == lock[u] = NoOne /\ lock' = [lock EXCEPT ![u] = r]

(* confirm()'s second transaction: the account is locked and read before      *)
(* anything else; a removed one gets no order.                                *)
ConfirmLocks(r) ==
  /\ At(r, "confirm")
  /\ LET u == running[r].user
     IN \/ users[u].removed /\ lock[u] = NoOne /\ Ends(r) /\ UNCHANGED lock
        \/ ~users[u].removed /\ LocksAccount(r, u) /\ Goes(r, [running[r] EXCEPT !.op = "confirm_commits"])
  /\ UNCHANGED <<Rows, Redis, orders>>

ConfirmCommits(r) ==
  /\ At(r, "confirm_commits") /\ Ends(r)
  /\ orders' = orders \union {running[r].user}
  /\ lock' = [u \in Users |-> IF lock[u] = r THEN NoOne ELSE lock[u]]
  /\ UNCHANGED <<Rows, Redis>>

OrderFinishes(u) ==
  /\ u \in orders /\ orders' = orders \ {u}
  /\ UNCHANGED <<Rows, Redis, lock, running, calls>>

ReactivationChecks(r, t) ==
  /\ Call(r) /\ Redeems(t, "ACCOUNT_REACTIVATION")
  /\ IF WithPhone(codes[t.code].phone) = {} THEN UNCHANGED running
     ELSE \E u \in WithPhone(codes[t.code].phone) : Goes(r, [op |-> "reactivate", user |-> u, code |-> t.code])
  /\ UNCHANGED <<Rows, index, sessions, handed, Order>>

ReactivationCommits(r) ==
  /\ At(r, "reactivate") /\ lock[running[r].user] = NoOne
  /\ LET u == running[r].user
     IN IF users[u].removed /\ ~users[u].lapsed
        THEN /\ users' = [users EXCEPT ![u].removed = FALSE, ![u].version = @ + 1]
             /\ Gated(running[r].code)
             /\ Goes(r, [op |-> "open", session |-> [user |-> u, version |-> users[u].version + 1, facts |-> Facts(u)]])
        ELSE Ends(r) /\ UNCHANGED <<users, uses>>
  /\ UNCHANGED <<codes, Redis, Order>>

(***************************************************************************)
(* Clocks and crashes                                                       *)
(***************************************************************************)
CodeExpires(c) ==
  /\ ~codes[c].expired /\ codes[c].by = NoOne /\ codes' = [codes EXCEPT ![c].expired = TRUE]
  /\ UNCHANGED <<users, uses, Redis, Order, running, calls>>

TokenExpires(t) ==
  /\ t \in tokens /\ tokens' = tokens \ {t} /\ index' = index \ {t}
  /\ UNCHANGED <<Rows, sessions, handed, Order, running, calls>>

WindowLapses(u) ==
  /\ users[u].removed /\ ~users[u].lapsed /\ users' = [users EXCEPT ![u].lapsed = TRUE]
  /\ UNCHANGED <<codes, uses, Redis, Order, running, calls>>

(* The process dies, or Redis fails, between two steps of a handler: what was *)
(* committed stays, an open transaction rolls back.                           *)
Crash(r) ==
  /\ running[r] # Idle /\ Ends(r)
  /\ lock' = [u \in Users |-> IF lock[u] = r THEN NoOne ELSE lock[u]]
  /\ UNCHANGED <<Rows, Redis, orders, calls>>

Next ==
  \/ \E p \in Phones, purpose \in Purposes : RequestCode(p, purpose)
  \/ \E r \in Requests :
       \/ \E c \in DOMAIN codes, key \in Keys : VerifyChecks(r, c, key) \/ \E password \in Passwords : ResetChecks(r, c, key, password)
       \/ VerifyCreatesToken(r) \/ VerifyConsumes(r)
       \/ \E p \in Phones, password \in Passwords : Login(r, p, password)
       \/ \E t \in handed, password \in Passwords : RegisterChecks(r, t, password)
       \/ \E t \in handed : ReactivationChecks(r, t) \/ \E s \in sessions : PhoneChangeChecks(r, s, t)
       \/ \E s \in sessions : Starts(r, s, "remove") \/ Starts(r, s, "confirm")
       \/ OpenSession(r) \/ RegisterCreates(r) \/ ResetCommits(r) \/ RevokeFinds(r) \/ RevokeDeletes(r)
       \/ PhoneChangeCommits(r) \/ RemovalLocks(r) \/ RemovalCommits(r)
       \/ ConfirmLocks(r) \/ ConfirmCommits(r) \/ ReactivationCommits(r) \/ Crash(r)
  \/ \E c \in DOMAIN codes : CodeExpires(c) \/ \E key \in Keys : VerifyRecovers(c, key)
  \/ \E s \in sessions : Logout(s)
  \/ \E t \in tokens : TokenExpires(t)
  \/ \E u \in Users : OrderFinishes(u) \/ WindowLapses(u)

Spec == Init /\ [][Next]_vars

(***************************************************************************)
(* Properties                                                               *)
(***************************************************************************)
(* A session the guard accepts was opened under the account's present phone   *)
(* and password, and not before its last removal: every change that should    *)
(* end older sessions does, whatever logins and resets overlap with it        *)
(* (SessionAuthGuard, login(), confirmPasswordReset(), patchMe()).            *)
SessionsAreCurrent == \A s \in sessions : Accepts(s) => s.facts = Facts(s.user)

(* One code gates one change: of all requests that hold it, checked it in     *)
(* time or retry it, one gets a token, and one account is changed, once       *)
(* (checkCode(), consume(), findConsumedRecord(), GETDEL).                    *)
OneChangePerCode ==
  /\ \A c \in DOMAIN codes : uses[c] <= 1
  /\ \A t1, t2 \in handed : t1.code = t2.code => t1 = t2

(* A removed account has no order in progress, with the removal and the       *)
(* checkout running at the same time (deactivate(), confirm()).               *)
RemovedAccountsHaveNoOrder == \A u \in orders : ~users[u].removed
=============================================================================
