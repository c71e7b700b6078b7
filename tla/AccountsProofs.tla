--------------------------- MODULE AccountsProofs ---------------------------
(***************************************************************************)
(* AccountsProofs: for any accounts, phones, codes and concurrent requests,  *)
(* the sessions the guard accepts are current, a removed account has no      *)
(* order, and a code gates one change.  The argument for sessions: every      *)
(* change of what a session stands for raises the version, so a session,     *)
(* written or still in the hands of its handler, is older than the account   *)
(* or stands for what it is now.  For orders: the row lock between the reads *)
(* and the commit.  For codes: only the key that consumed the code is given  *)
(* its token, and nobody makes that token again once it is redeemed.         *)
(***************************************************************************)
EXTENDS Accounts, SequenceTheorems, FiniteSetTheorems, WellFoundedInduction, TLAPS

Account == [phone : Phones \union {NoOne}, password : Passwords \union {NoOne}, version : Nat,
            removed : BOOLEAN, lapsed : BOOLEAN, removals : Nat]
Code == [phone : Phones, purpose : Purposes, attempts : Nat, expired : BOOLEAN, by : Keys \union {NoOne}]

Typed ==
  /\ users \in [Users -> Account] /\ codes \in Seq(Code)
  /\ DOMAIN running = Requests /\ lock \in [Users -> Requests \union {NoOne}]
  /\ \A t \in handed : t.code \in DOMAIN codes

(* What a session, or the handler about to write it, may claim.               *)
Sound(s) ==
  /\ s.user \in Users /\ Exists(s.user) /\ s.version \in Nat /\ s.version <= users[s.user].version
  /\ s.version = users[s.user].version => s.facts = Facts(s.user)

(* What a handler in progress knows of the rows it has read.                  *)
Knows(q) ==
  /\ q.op \in {"open", "revoke", "revoke_deletes"} => Sound(q.session)
  /\ q.op \in {"verify", "verify_consumes"} =>
       q \in [op : {"verify", "verify_consumes"}, code : DOMAIN codes, key : Keys, attempts : Nat]
  /\ q.op = "register" => q.code \in DOMAIN codes /\ q.password \in Passwords
  /\ q.op = "reset" => q.code \in DOMAIN codes /\ q.key \in Keys /\ q.user \in Users /\ Exists(q.user) /\ q.password \in Passwords
  /\ q.op = "phone" => q.code \in DOMAIN codes /\ q.user \in Users /\ Exists(q.user)
  /\ q.op = "reactivate" => q.user \in Users /\ Exists(q.user)
  /\ q.op \in {"remove", "remove_commits", "confirm", "confirm_commits"} =>
       /\ q \in [op : {"remove", "remove_commits", "confirm", "confirm_commits"}, user : Users]
       /\ Exists(q.user)

SessionsSound == (\A s \in sessions : Sound(s)) /\ (\A r \in Requests : Knows(running[r]))
SessionInv == Typed /\ SessionsSound

----------------------------------------------------------------------------
(* Every step lets versions grow, and facts change only with them.            *)
Grows ==
  \A u \in Users : Exists(u) =>
    /\ Exists(u)' /\ users[u].version <= users'[u].version
    /\ users'[u].version = users[u].version => Facts(u)' = Facts(u)

Kept ==
  /\ Grows /\ DOMAIN codes \subseteq DOMAIN codes'

LEMMA SoundStays == ASSUME Typed, Typed', Grows, NEW s, Sound(s) PROVE Sound(s)'
BY DEF Sound, Grows, Typed, Account

LEMMA KnowsStays == ASSUME Typed, Typed', Kept, NEW q, Knows(q) PROVE Knows(q)'
<1>1. q.op \in {"open", "revoke", "revoke_deletes"} => Sound(q.session)'
  BY SoundStays DEF Knows, Kept
<1> QED BY <1>1 DEF Knows, Kept, Grows

(* A step of one handler, from which the others' knowledge follows.            *)
LEMMA OneHandler ==
  ASSUME SessionInv, Typed', Kept, NEW r \in Requests, NEW q, Goes(r, q), Knows(q)',
         \A s \in sessions' : s \in sessions \/ Sound(s)'
  PROVE  SessionsSound'
<1>1. ASSUME NEW s \in sessions' PROVE Sound(s)'
  BY <1>1, SoundStays DEF SessionInv, SessionsSound, Kept
<1>2. ASSUME NEW t \in Requests PROVE Knows(running[t])'
  <2>1. CASE t = r
    BY <2>1 DEF Goes, SessionInv, Typed
  <2>2. CASE t # r
    <3>1. running'[t] = running[t]
      BY <2>2 DEF Goes, SessionInv, Typed
    <3>2. PICK b : b = running[t]
      OBVIOUS
    <3>3. Knows(b)'
      BY <3>2, KnowsStays DEF SessionInv, SessionsSound
    <3> QED BY <3>1, <3>2, <3>3
  <2> QED BY <2>1, <2>2
<1> QED BY <1>1, <1>2 DEF SessionsSound

LEMMA NoHandler ==
  ASSUME SessionInv, Typed', Kept, UNCHANGED running, \A s \in sessions' : s \in sessions
  PROVE  SessionsSound'
<1>1. ASSUME NEW s \in sessions' PROVE Sound(s)'
  BY <1>1, SoundStays DEF SessionInv, SessionsSound, Kept
<1>2. ASSUME NEW t \in Requests PROVE Knows(running[t])'
  <2>1. PICK b : b = running[t]
    OBVIOUS
  <2>2. Knows(b)'
    BY <2>1, KnowsStays DEF SessionInv, SessionsSound
  <2> QED BY <2>1, <2>2
<1> QED BY <1>1, <1>2 DEF SessionsSound

----------------------------------------------------------------------------
(* Steps that change neither accounts nor codes.                              *)
LEMMA RowsUnchanged == ASSUME Typed, UNCHANGED <<users, codes>> PROVE Kept
BY DEF Kept, Grows, Exists, Facts, Typed, Account

LEMMA CodesChange ==
  ASSUME Typed, UNCHANGED users, DOMAIN codes \subseteq DOMAIN codes' PROVE Kept
BY DEF Kept, Grows, Exists, Facts, Typed, Account

(* A row of the codes is rewritten.                                            *)
LEMMA Rewritten ==
  ASSUME Typed, NEW l, NEW e, l \in DOMAIN codes => e \in Code, codes' = [codes EXCEPT ![l] = e]
  PROVE  codes' \in Seq(Code) /\ DOMAIN codes' = DOMAIN codes
<1>1. Len(codes) \in Nat /\ codes \in [1..Len(codes) -> Code] /\ DOMAIN codes = 1..Len(codes)
  BY LenProperties DEF Typed
<1>2. codes' \in [1..Len(codes) -> Code]
  BY <1>1
<1>3. codes' \in Seq(Code)
  BY <1>1, <1>2, SeqDef
<1> QED BY <1>1, <1>2, <1>3

LEMMA WrongCodeStep ==
  ASSUME Typed, NEW c \in DOMAIN codes, WrongCode(c)
  PROVE  codes' \in Seq(Code) /\ DOMAIN codes' = DOMAIN codes
<1>1. PICK l : l = Latest(codes[c].phone, codes[c].purpose)
  OBVIOUS
<1>2. PICK e : e = [codes[l] EXCEPT !.attempts = @ + 1]
  OBVIOUS
<1>3. codes' = [codes EXCEPT ![l] = e]
  BY <1>1, <1>2 DEF WrongCode
<1>4. l \in DOMAIN codes => codes[l] \in Code
  BY LenProperties DEF Typed
<1>5. l \in DOMAIN codes => e \in Code
  BY <1>2, <1>4 DEF Code
<1> QED BY <1>3, <1>5, Rewritten

LEMMA RequestCodeStep ==
  ASSUME SessionInv, NEW p \in Phones, NEW purpose \in Purposes, RequestCode(p, purpose) PROVE SessionInv'
<1> USE NoOneAssumption DEF RequestCode, Redis, Order
<1>1. [phone |-> p, purpose |-> purpose, attempts |-> 0, expired |-> FALSE, by |-> NoOne] \in Code
  BY DEF Code
<1>2. codes' \in Seq(Code) /\ DOMAIN codes \subseteq DOMAIN codes'
  BY <1>1 DEF Issue, SessionInv, Typed
<1>3. Typed' /\ Kept
  BY <1>2, CodesChange DEF SessionInv, Typed
<1> QED BY <1>3, NoHandler DEF SessionInv

LEMMA VerifySteps ==
  ASSUME SessionInv, NEW r \in Requests,
         \/ \E c \in DOMAIN codes, key \in Keys : VerifyChecks(r, c, key)
         \/ VerifyCreatesToken(r) \/ VerifyConsumes(r)
  PROVE  SessionInv'
<1>1. ASSUME NEW c \in DOMAIN codes, NEW key \in Keys, VerifyChecks(r, c, key) PROVE SessionInv'
  <2>1. CASE CheckCode(c) = "ok" /\ Goes(r, [op |-> "verify", code |-> c, key |-> key, attempts |-> codes[c].attempts]) /\ UNCHANGED codes
    <3>1. Typed' /\ Kept
      BY <1>1, <2>1, RowsUnchanged DEF VerifyChecks, Redis, Order, SessionInv, Typed, Goes
    <3>2. codes[c] \in Code
      BY LenProperties DEF SessionInv, Typed
    <3>3. PICK q : q = [op |-> "verify", code |-> c, key |-> key, attempts |-> codes[c].attempts]
      OBVIOUS
    <3>4. Knows(q)'
      BY <2>1, <3>2, <3>3 DEF Knows, Code
    <3> QED BY <1>1, <2>1, <3>1, <3>3, <3>4, OneHandler DEF VerifyChecks, Redis, SessionInv
  <2>2. CASE CheckCode(c) = "wrong" /\ WrongCode(c) /\ UNCHANGED running
    <3>1. Typed' /\ Kept
      BY <1>1, <2>2, WrongCodeStep, CodesChange DEF VerifyChecks, Redis, Order, SessionInv, Typed
    <3> QED BY <1>1, <2>2, <3>1, NoHandler DEF VerifyChecks, Redis, SessionInv
  <2> QED BY <1>1, <2>1, <2>2 DEF VerifyChecks
<1>2. CASE VerifyCreatesToken(r)
  <2> PICK q : q = [running[r] EXCEPT !.op = "verify_consumes"]
    OBVIOUS
  <2>1. Knows(running[r]) /\ running[r].op = "verify"
    BY <1>2 DEF VerifyCreatesToken, At, SessionInv, SessionsSound
  <2>2. q \in [op : {"verify", "verify_consumes"}, code : DOMAIN codes, key : Keys, attempts : Nat] /\ q.op = "verify_consumes"
    BY <2>1 DEF Knows
  <2>3. Typed' /\ Kept
    BY <1>2, RowsUnchanged DEF VerifyCreatesToken, Rows, Order, SessionInv, Typed, Goes
  <2>4. Knows(q)'
    BY <1>2, <2>2 DEF Knows, VerifyCreatesToken, Rows
  <2> QED BY <1>2, <2>3, <2>4, OneHandler DEF VerifyCreatesToken, SessionInv
<1>3. CASE VerifyConsumes(r)
  <2>1. Knows(running[r]) /\ running[r].op = "verify_consumes"
    BY <1>3 DEF VerifyConsumes, At, SessionInv, SessionsSound
  <2>2. running[r].code \in DOMAIN codes /\ running[r].key \in Keys
    BY <2>1 DEF Knows
  <2>3. codes' \in Seq(Code) /\ DOMAIN codes' = DOMAIN codes
    <3>1. CASE UNCHANGED codes
      BY <3>1 DEF SessionInv, Typed
    <3>2. CASE codes' = [codes EXCEPT ![running[r].code].by = running[r].key]
      <4>1. PICK e : e = [codes[running[r].code] EXCEPT !.by = running[r].key]
        OBVIOUS
      <4>2. codes[running[r].code] \in Code
        BY <2>2, LenProperties DEF SessionInv, Typed
      <4>3. e \in Code
        BY <4>1, <4>2, <2>2 DEF Code
      <4>4. codes' = [codes EXCEPT ![running[r].code] = e]
        BY <3>2, <4>1
      <4> QED BY <4>3, <4>4, Rewritten DEF SessionInv
    <3> QED BY <1>3, <3>1, <3>2 DEF VerifyConsumes
  <2>4. Typed' /\ Kept
    BY <1>3, <2>2, <2>3, CodesChange DEF VerifyConsumes, Order, SessionInv, Typed, Ends, Goes
  <2>5. PICK q : q = Idle
    OBVIOUS
  <2>6. Knows(q)'
    BY <2>5 DEF Knows, Idle
  <2> QED BY <1>3, <2>4, <2>5, <2>6, OneHandler DEF VerifyConsumes, Ends, SessionInv
<1> QED BY <1>1, <1>2, <1>3

(* A handler goes on, or answers, without touching accounts and codes.          *)
LEMMA Continues ==
  ASSUME SessionInv, NEW r \in Requests, NEW q, Goes(r, q), Knows(q), UNCHANGED <<users, codes, handed>>,
         lock' \in [Users -> Requests \union {NoOne}], \A s \in sessions' : s \in sessions \/ Sound(s)
  PROVE  SessionInv'
<1>1. Typed' /\ Kept
  BY RowsUnchanged DEF SessionInv, Typed, Goes
<1>2. Knows(q)'
  BY <1>1, KnowsStays DEF SessionInv
<1>3. \A s \in sessions' : s \in sessions \/ Sound(s)'
  BY <1>1, SoundStays DEF SessionInv, Kept
<1> QED BY <1>1, <1>2, <1>3, OneHandler DEF SessionInv

LEMMA Answers ==
  ASSUME SessionInv, NEW r \in Requests, Ends(r), UNCHANGED <<users, codes, handed, sessions>>,
         lock' \in [Users -> Requests \union {NoOne}]
  PROVE  SessionInv'
<1>1. PICK q : q = Idle
  OBVIOUS
<1>2. Knows(q) /\ Goes(r, q)
  BY <1>1 DEF Knows, Idle, Ends
<1> QED BY <1>2, Continues

LEMMA Stands ==
  ASSUME SessionInv, UNCHANGED <<users, codes, lock, running>>, \A s \in sessions' : s \in sessions,
         \A t \in handed' : t \in handed \/ t.code \in DOMAIN codes
  PROVE  SessionInv'
<1>1. Typed' /\ Kept
  BY RowsUnchanged DEF SessionInv, Typed
<1> QED BY <1>1, NoHandler DEF SessionInv

LEMMA RecoverStep ==
  ASSUME SessionInv, NEW c \in DOMAIN codes, NEW key \in Keys, VerifyRecovers(c, key) PROVE SessionInv'
<1>1. codes' \in Seq(Code) /\ DOMAIN codes' = DOMAIN codes
  BY WrongCodeStep DEF VerifyRecovers, SessionInv, Typed
<1>2. \A t \in handed' : t \in handed \/ t.code = c
  BY DEF VerifyRecovers
<1>3. Typed' /\ Kept
  BY <1>1, <1>2, CodesChange DEF VerifyRecovers, Order, SessionInv, Typed
<1> QED BY <1>3, NoHandler DEF VerifyRecovers, SessionInv

LEMMA ExpireSteps ==
  ASSUME SessionInv, \/ \E c \in DOMAIN codes : CodeExpires(c)
                     \/ \E t \in tokens : TokenExpires(t)
                     \/ \E s \in sessions : Logout(s)
                     \/ \E u \in Users : OrderFinishes(u)
  PROVE  SessionInv'
<1>1. ASSUME NEW c \in DOMAIN codes, CodeExpires(c) PROVE SessionInv'
  <2>1. PICK e : e = [codes[c] EXCEPT !.expired = TRUE]
    OBVIOUS
  <2>2. codes[c] \in Code
    BY LenProperties DEF SessionInv, Typed
  <2>3. e \in Code /\ codes' = [codes EXCEPT ![c] = e]
    BY <1>1, <2>1, <2>2 DEF Code, CodeExpires
  <2>4. codes' \in Seq(Code) /\ DOMAIN codes' = DOMAIN codes
    BY <2>3, Rewritten DEF SessionInv
  <2>5. Typed' /\ Kept
    BY <1>1, <2>4, CodesChange DEF CodeExpires, Redis, Order, SessionInv, Typed
  <2> QED BY <1>1, <2>5, NoHandler DEF CodeExpires, Redis, SessionInv
<1>2. ASSUME NEW t \in tokens, TokenExpires(t) PROVE SessionInv'
  BY <1>2, Stands DEF TokenExpires, Rows, Order
<1>3. ASSUME NEW s \in sessions, Logout(s) PROVE SessionInv'
  BY <1>3, Stands DEF Logout, Rows, Order
<1>4. ASSUME NEW u \in Users, OrderFinishes(u) PROVE SessionInv'
  BY <1>4, Stands DEF OrderFinishes, Rows, Redis
<1> QED BY <1>1, <1>2, <1>3, <1>4

(* Handlers that write a session, or delete some.                              *)
LEMMA SessionSteps ==
  ASSUME SessionInv, NEW r \in Requests,
         \/ OpenSession(r) \/ RevokeFinds(r) \/ RevokeDeletes(r)
         \/ \E p \in Phones, password \in Passwords : Login(r, p, password)
  PROVE  SessionInv'
<1>0. Knows(running[r]) /\ lock \in [Users -> Requests \union {NoOne}]
  BY DEF SessionInv, SessionsSound, Typed
<1>1. CASE OpenSession(r)
  <2>1. PICK q : q = Idle
    OBVIOUS
  <2>2. Knows(q) /\ Goes(r, q) /\ Sound(running[r].session)
    BY <1>0, <1>1, <2>1 DEF Knows, Idle, Ends, OpenSession, At
  <2> QED BY <1>0, <1>1, <2>2, Continues DEF OpenSession, Rows, Order, VersionAsRead
<1>2. CASE RevokeFinds(r)
  <2>1. PICK q : q = [op |-> "revoke_deletes", session |-> running[r].session, found |-> {s \in sessions : s.user = running[r].user}]
    OBVIOUS
  <2>2. Knows(q) /\ Goes(r, q)
    BY <1>0, <1>2, <2>1 DEF Knows, RevokeFinds, At
  <2> QED BY <1>0, <1>2, <2>2, Continues DEF RevokeFinds, Rows, Redis, Order
<1>3. CASE RevokeDeletes(r)
  <2>1. PICK q : q = [op |-> "open", session |-> running[r].session]
    OBVIOUS
  <2>2. Knows(q) /\ Goes(r, q)
    BY <1>0, <1>3, <2>1 DEF Knows, RevokeDeletes, At
  <2> QED BY <1>0, <1>3, <2>2, Continues DEF RevokeDeletes, Rows, Order
<1>4. ASSUME NEW p \in Phones, NEW password \in Passwords, Login(r, p, password) PROVE SessionInv'
  <2>1. PICK u \in WithPhone(p) : Goes(r, [op |-> "open", session |-> Opened(u)])
    BY <1>4 DEF Login
  <2>2. PICK s : s = Opened(u)
    OBVIOUS
  <2>3. PICK q : q = [op |-> "open", session |-> s]
    OBVIOUS
  <2>4. u \in Users /\ Exists(u) /\ users[u].version \in Nat
    BY <2>1, NoOneAssumption DEF WithPhone, Exists, SessionInv, Typed, Account
  <2>5. Sound(s)
    BY <2>2, <2>4 DEF Sound, Opened
  <2>6. Knows(q) /\ Goes(r, q)
    BY <2>1, <2>2, <2>3, <2>5 DEF Knows
  <2> QED BY <1>0, <1>4, <2>6, Continues DEF Login, Rows, Redis, Order
<1> QED BY <1>1, <1>2, <1>3, <1>4

LEMMA CodePhone == ASSUME Typed PROVE \A c \in DOMAIN codes : codes[c].phone \in Phones
<1>1. ASSUME NEW c \in DOMAIN codes PROVE codes[c] \in Code
  BY LenProperties DEF Typed
<1> QED BY <1>1 DEF Code

(* Handlers that check a token or a code before they go on.                    *)
LEMMA CheckSteps ==
  ASSUME SessionInv, NEW r \in Requests,
         \/ \E t \in handed, password \in Passwords : RegisterChecks(r, t, password)
         \/ \E t \in handed : ReactivationChecks(r, t)
         \/ \E s \in sessions, t \in handed : PhoneChangeChecks(r, s, t)
         \/ \E s \in sessions : Starts(r, s, "remove") \/ Starts(r, s, "confirm")
  PROVE  SessionInv'
<1>0. lock \in [Users -> Requests \union {NoOne}] /\ (\A s \in sessions : Sound(s))
      /\ \A t \in handed : t.code \in DOMAIN codes /\ codes[t.code].phone \in Phones
  BY CodePhone DEF SessionInv, SessionsSound, Typed
<1>1. ASSUME NEW t \in handed, NEW password \in Passwords, RegisterChecks(r, t, password) PROVE SessionInv'
  <2>1. PICK q : q = [op |-> "register", code |-> t.code, password |-> password]
    OBVIOUS
  <2>2. Knows(q)
    BY <1>0, <2>1 DEF Knows
  <2>3. CASE Goes(r, q)
    BY <1>0, <1>1, <2>2, <2>3, Continues DEF RegisterChecks, Rows, Order
  <2>4. CASE UNCHANGED running
    BY <1>1, <2>4, Stands DEF RegisterChecks, Rows, Order
  <2> QED BY <1>1, <2>1, <2>3, <2>4 DEF RegisterChecks
<1>2. ASSUME NEW t \in handed, ReactivationChecks(r, t) PROVE SessionInv'
  <2>1. CASE UNCHANGED running
    BY <1>2, <2>1, Stands DEF ReactivationChecks, Rows, Order
  <2>2. ASSUME NEW u \in WithPhone(codes[t.code].phone), Goes(r, [op |-> "reactivate", user |-> u, code |-> t.code])
        PROVE  SessionInv'
    <3>1. PICK q : q = [op |-> "reactivate", user |-> u, code |-> t.code]
      OBVIOUS
    <3>2. Knows(q) /\ Goes(r, q)
      BY <1>0, <2>2, <3>1, NoOneAssumption DEF Knows, WithPhone, Exists
    <3> QED BY <1>0, <1>2, <3>2, Continues DEF ReactivationChecks, Rows, Order
  <2> QED BY <1>2, <2>1, <2>2 DEF ReactivationChecks
<1>3. ASSUME NEW s \in sessions, NEW t \in handed, PhoneChangeChecks(r, s, t) PROVE SessionInv'
  <2>1. PICK q : q = [op |-> "phone", user |-> s.user, code |-> t.code]
    OBVIOUS
  <2>2. Knows(q) /\ Goes(r, q)
    BY <1>0, <1>3, <2>1 DEF Knows, PhoneChangeChecks, Sound
  <2> QED BY <1>0, <1>3, <2>2, Continues DEF PhoneChangeChecks, Rows, Order
<1>4. ASSUME NEW s \in sessions, NEW op \in {"remove", "confirm"}, Starts(r, s, op) PROVE SessionInv'
  <2>1. PICK q : q = [op |-> op, user |-> s.user]
    OBVIOUS
  <2>2. Knows(q) /\ Goes(r, q)
    BY <1>0, <1>4, <2>1 DEF Knows, Starts, Sound
  <2> QED BY <1>0, <1>4, <2>2, Continues DEF Starts, Rows, Redis, Order
<1> QED BY <1>1, <1>2, <1>3, <1>4

LEMMA ResetChecksStep ==
  ASSUME SessionInv, NEW r \in Requests, NEW c \in DOMAIN codes, NEW key \in Keys, NEW password \in Passwords,
         ResetChecks(r, c, key, password)
  PROVE  SessionInv'
<1>0. lock \in [Users -> Requests \union {NoOne}] /\ codes[c].phone \in Phones
  BY CodePhone DEF SessionInv, Typed
<1>1. CASE WrongCode(c) /\ UNCHANGED running
  <2>1. Typed' /\ Kept
    BY <1>1, WrongCodeStep, CodesChange DEF ResetChecks, Redis, Order, SessionInv, Typed
  <2> QED BY <1>1, <2>1, NoHandler DEF ResetChecks, Redis, SessionInv
<1>2. CASE UNCHANGED <<codes, running>>
  BY <1>2, Stands DEF ResetChecks, Redis, Order
<1>3. ASSUME UNCHANGED codes, NEW u \in WithPhone(codes[c].phone),
             Goes(r, [op |-> "reset", code |-> c, key |-> key, attempts |-> codes[c].attempts, user |-> u, password |-> password])
      PROVE  SessionInv'
  <2>1. PICK q : q = [op |-> "reset", code |-> c, key |-> key, attempts |-> codes[c].attempts, user |-> u, password |-> password]
    OBVIOUS
  <2>2. Knows(q) /\ Goes(r, q)
    BY <1>0, <1>3, <2>1, NoOneAssumption DEF Knows, WithPhone, Exists
  <2> QED BY <1>0, <1>3, <2>2, Continues DEF ResetChecks, Redis, Order
<1> QED BY <1>1, <1>2, <1>3 DEF ResetChecks

(* The row locks of removal and checkout, and a crash.                          *)
LEMMA LockSteps ==
  ASSUME SessionInv, NEW r \in Requests, RemovalLocks(r) \/ ConfirmLocks(r) \/ ConfirmCommits(r) \/ Crash(r)
  PROVE  SessionInv'
<1>0. Knows(running[r]) /\ lock \in [Users -> Requests \union {NoOne}]
  BY DEF SessionInv, SessionsSound, Typed
<1>1. ASSUME NEW op \in {"remove_commits", "confirm_commits"}, running[r].op \in {"remove", "confirm"},
             Goes(r, [running[r] EXCEPT !.op = op]), UNCHANGED <<users, codes, handed, sessions>>,
             lock' = [lock EXCEPT ![running[r].user] = r]
      PROVE  SessionInv'
  <2>1. PICK q : q = [running[r] EXCEPT !.op = op]
    OBVIOUS
  <2>2. Knows(q) /\ Goes(r, q)
    BY <1>0, <1>1, <2>1 DEF Knows
  <2> QED BY <1>0, <1>1, <2>2, Continues
<1>2. CASE RemovalLocks(r)
  BY <1>0, <1>1, <1>2, Answers DEF RemovalLocks, At, Rows, Redis
<1>3. CASE ConfirmLocks(r)
  BY <1>0, <1>1, <1>3, Answers DEF ConfirmLocks, LocksAccount, At, Rows, Redis
<1>4. CASE ConfirmCommits(r) \/ Crash(r)
  <2>1. lock' \in [Users -> Requests \union {NoOne}]
    BY <1>0, <1>4 DEF ConfirmCommits, Crash
  <2> QED BY <1>4, <2>1, Answers DEF ConfirmCommits, Crash, Rows, Redis
<1> QED BY <1>2, <1>3, <1>4

(* An account is replaced by one with another version, or with the same facts.  *)
LEMMA Changed ==
  ASSUME Typed, NEW u \in Users, NEW a \in Account, users' = [users EXCEPT ![u] = a], DOMAIN codes \subseteq DOMAIN codes',
         Exists(u) => /\ a.phone # NoOne /\ users[u].version <= a.version
                      /\ a.version = users[u].version => <<a.phone, a.password, a.removals>> = Facts(u)
  PROVE  Kept /\ users' \in [Users -> Account]
BY DEF Typed, Kept, Grows, Exists, Facts, Account

LEMMA RegisterStep ==
  ASSUME SessionInv, NEW r \in Requests, RegisterCreates(r) PROVE SessionInv'
<1>0. Knows(running[r]) /\ running[r].op = "register" /\ lock \in [Users -> Requests \union {NoOne}]
  BY DEF SessionInv, SessionsSound, Typed, RegisterCreates, At
<1> PICK p : p = codes[running[r].code].phone
  OBVIOUS
<1>1. p \in Phones /\ running[r].password \in Passwords
  BY <1>0, CodePhone DEF Knows, SessionInv
<1>2. CASE Ends(r) /\ UNCHANGED <<users, uses>>
  BY <1>0, <1>2, Answers DEF RegisterCreates, Redis, Order
<1>3. ASSUME NEW u \in Users, ~Exists(u),
             users' = [users EXCEPT ![u] = [Absent EXCEPT !.phone = p, !.password = running[r].password]],
             Goes(r, [op |-> "open", session |-> [user |-> u, version |-> 0, facts |-> <<p, running[r].password, 0>>]])
      PROVE  SessionInv'
  <2>1. PICK a : a = [Absent EXCEPT !.phone = p, !.password = running[r].password]
    OBVIOUS
  <2>2. a \in Account /\ a.version = 0 /\ a.phone = p /\ a.password = running[r].password /\ a.removals = 0
    BY <1>1, <2>1 DEF Absent, Account
  <2>3. users' = [users EXCEPT ![u] = a]
    BY <1>3, <2>1
  <2>4. Typed' /\ Kept
    BY <1>3, <2>2, <2>3, Changed DEF RegisterCreates, Redis, Order, SessionInv, Typed, Goes
  <2>5. PICK s : s = [user |-> u, version |-> 0, facts |-> <<p, running[r].password, 0>>]
    OBVIOUS
  <2>6. users'[u] = a
    BY <2>3 DEF SessionInv, Typed
  <2>7. Sound(s)'
    BY <1>1, <2>2, <2>5, <2>6, NoOneAssumption DEF Sound, Facts, Exists
  <2>8. PICK q : q = [op |-> "open", session |-> s]
    OBVIOUS
  <2>9. Knows(q)'
    BY <2>7, <2>8 DEF Knows
  <2> QED BY <1>3, <2>4, <2>5, <2>8, <2>9, OneHandler DEF RegisterCreates, Redis, SessionInv
<1> QED BY <1>2, <1>3 DEF RegisterCreates

LEMMA IsAccount ==
  ASSUME NEW b \in Account, NEW a, DOMAIN a = DOMAIN b, a.phone \in Phones \union {NoOne}, a.password \in Passwords \union {NoOne},
         a.version \in Nat, a.removed \in BOOLEAN, a.lapsed \in BOOLEAN, a.removals \in Nat,
         a = [x \in DOMAIN a |-> a[x]]
  PROVE  a \in Account
<1>1. DOMAIN a = {"phone", "password", "version", "removed", "lapsed", "removals"}
  BY DEF Account
<1>2. a = [phone |-> a.phone, password |-> a.password, version |-> a.version,
           removed |-> a.removed, lapsed |-> a.lapsed, removals |-> a.removals]
  BY <1>1
<1> QED BY <1>2 DEF Account

(* The handlers that change an account commit, and hold the session they will write. *)
LEMMA Commit ==
  ASSUME SessionInv, NEW r \in Requests, NEW u \in Users, NEW a \in Account, NEW q,
         users' = [users EXCEPT ![u] = a], Exists(u), a.phone # NoOne, a.version = users[u].version + 1,
         codes' \in Seq(Code), DOMAIN codes' = DOMAIN codes, UNCHANGED <<handed, lock, sessions>>, Goes(r, q),
         q.op \in {"open", "revoke"},
         q.session = [user |-> u, version |-> a.version, facts |-> <<a.phone, a.password, a.removals>>]
  PROVE  SessionInv'
<1>0. users[u].version \in Nat
  <2>1. users[u] \in Account
    BY DEF SessionInv, Typed
  <2> QED BY <2>1 DEF Account
<1>1. Typed' /\ Kept
  <2>1. users[u].version <= a.version /\ a.version # users[u].version
    BY <1>0
  <2>2. Kept /\ users' \in [Users -> Account]
    BY <2>1, Changed DEF SessionInv
  <2> QED BY <2>2 DEF SessionInv, Typed, Goes
<1>2. PICK s : s = q.session
  OBVIOUS
<1>3. users'[u] = a
  BY DEF SessionInv, Typed
<1>4. Sound(s)'
  BY <1>0, <1>2, <1>3 DEF Sound, Facts, Exists
<1>5. Knows(q)'
  BY <1>2, <1>4 DEF Knows
<1> QED BY <1>1, <1>5, OneHandler DEF SessionInv

LEMMA ResetStep ==
  ASSUME SessionInv, NEW r \in Requests, ResetCommits(r) PROVE SessionInv'
<1>0. Knows(running[r]) /\ running[r].op = "reset" /\ lock \in [Users -> Requests \union {NoOne}]
  BY DEF SessionInv, SessionsSound, Typed, ResetCommits, At
<1> PICK u, c, key, password : u = running[r].user /\ c = running[r].code /\ key = running[r].key /\ password = running[r].password
  OBVIOUS
<1>1. u \in Users /\ Exists(u) /\ c \in DOMAIN codes /\ key \in Keys /\ password \in Passwords
  BY <1>0 DEF Knows
<1>2. CASE ~Consumable(c, running[r].attempts)
  BY <1>0, <1>2, Answers DEF ResetCommits, Rows, Redis, Order
<1>3. CASE Consumable(c, running[r].attempts)
  <2>1. PICK a : a = WithNewPassword(users[u], password)
    OBVIOUS
  <2>2. /\ a \in Account /\ a.version = users[u].version + 1 /\ a.password = password
        /\ a.phone = users[u].phone /\ a.removals = users[u].removals /\ a.phone # NoOne
    <3>1. users[u] \in Account
      BY <1>1 DEF SessionInv, Typed
    <3>2. /\ a.version = users[u].version + 1 /\ a.password = password /\ a.phone = users[u].phone
          /\ a.removals = users[u].removals /\ a.removed = users[u].removed /\ a.lapsed = users[u].lapsed
          /\ DOMAIN a = DOMAIN users[u] /\ a = [x \in DOMAIN a |-> a[x]]
      BY <2>1, <3>1 DEF WithNewPassword, Account
    <3>3. a \in Account
      BY <1>1, <3>1, <3>2, IsAccount DEF Account
    <3> QED BY <1>1, <3>2, <3>3 DEF Exists
  <2>3. users' = [users EXCEPT ![u] = a]
    BY <1>3, <2>1 DEF ResetCommits
  <2>4. users'[u] = a
    BY <1>1, <2>3 DEF SessionInv, Typed
  <2>5. codes' \in Seq(Code) /\ DOMAIN codes' = DOMAIN codes
    <3>1. PICK e : e = [codes[c] EXCEPT !.by = key]
      OBVIOUS
    <3>2. codes[c] \in Code
      BY <1>1, LenProperties DEF SessionInv, Typed
    <3>3. e \in Code /\ codes' = [codes EXCEPT ![c] = e]
      BY <1>1, <1>3, <3>1, <3>2 DEF Code, ResetCommits
    <3> QED BY <3>3, Rewritten DEF SessionInv
  <2>6. PICK q : q = [op |-> "revoke", user |-> u,
                      session |-> [user |-> u, version |-> users'[u].version,
                                   facts |-> <<users[u].phone, password, users[u].removals>>]]
    OBVIOUS
  <2>7. Goes(r, q) /\ UNCHANGED <<handed, lock, sessions>>
    BY <1>3, <2>6 DEF ResetCommits, Redis, Order
  <2>8. q.op \in {"open", "revoke"}
        /\ q.session = [user |-> u, version |-> a.version, facts |-> <<a.phone, a.password, a.removals>>]
    BY <2>2, <2>4, <2>6
  <2> QED BY <1>1, <2>2, <2>3, <2>5, <2>7, <2>8, Commit
<1> QED BY <1>2, <1>3

LEMMA PhoneChangeStep ==
  ASSUME SessionInv, NEW r \in Requests, PhoneChangeCommits(r) PROVE SessionInv'
<1>0. Knows(running[r]) /\ running[r].op = "phone" /\ lock \in [Users -> Requests \union {NoOne}]
  BY DEF SessionInv, SessionsSound, Typed, PhoneChangeCommits, At
<1> PICK u, p : u = running[r].user /\ p = codes[running[r].code].phone
  OBVIOUS
<1>1. u \in Users /\ Exists(u) /\ p \in Phones
  BY <1>0, CodePhone DEF Knows, SessionInv
<1>2. CASE ~(WithPhone(p) \subseteq {u})
  BY <1>0, <1>2, Answers DEF PhoneChangeCommits, Redis, Order
<1>3. CASE WithPhone(p) \subseteq {u}
  <2>1. PICK a : a = [users[u] EXCEPT !.phone = p, !.version = @ + 1]
    OBVIOUS
  <2>2. /\ a \in Account /\ a.version = users[u].version + 1 /\ a.password = users[u].password
        /\ a.phone = p /\ a.removals = users[u].removals /\ a.phone # NoOne
    <3>1. users[u] \in Account
      BY <1>1 DEF SessionInv, Typed
    <3>2. /\ a.version = users[u].version + 1 /\ a.password = users[u].password /\ a.phone = p
          /\ a.removals = users[u].removals /\ a.removed = users[u].removed /\ a.lapsed = users[u].lapsed
          /\ DOMAIN a = DOMAIN users[u] /\ a = [x \in DOMAIN a |-> a[x]]
      BY <2>1, <3>1 DEF Account
    <3>3. a \in Account
      BY <1>1, <3>1, <3>2, IsAccount DEF Account
    <3> QED BY <1>1, <3>2, <3>3, NoOneAssumption
  <2>3. users' = [users EXCEPT ![u] = a]
    BY <1>1, <1>3, <2>1 DEF PhoneChangeCommits, SessionInv, Typed, Account
  <2>4. codes' \in Seq(Code) /\ DOMAIN codes' = DOMAIN codes /\ UNCHANGED <<handed, lock, sessions>>
    BY DEF PhoneChangeCommits, Redis, Order, SessionInv, Typed
  <2>5. PICK q : q = [op |-> "open", session |-> [user |-> u, version |-> users[u].version + 1,
                                                  facts |-> <<p, users[u].password, users[u].removals>>]]
    OBVIOUS
  <2>6. Goes(r, q)
    BY <1>3, <2>5 DEF PhoneChangeCommits
  <2>7. q.op \in {"open", "revoke"}
        /\ q.session = [user |-> u, version |-> a.version, facts |-> <<a.phone, a.password, a.removals>>]
    BY <2>2, <2>5
  <2> QED BY <1>1, <2>2, <2>3, <2>4, <2>6, <2>7, Commit
<1> QED BY <1>2, <1>3

LEMMA ReactivationStep ==
  ASSUME SessionInv, NEW r \in Requests, ReactivationCommits(r) PROVE SessionInv'
<1>0. Knows(running[r]) /\ running[r].op = "reactivate" /\ lock \in [Users -> Requests \union {NoOne}]
  BY DEF SessionInv, SessionsSound, Typed, ReactivationCommits, At
<1> PICK u : u = running[r].user
  OBVIOUS
<1>1. u \in Users /\ Exists(u)
  BY <1>0 DEF Knows
<1>2. CASE ~(users[u].removed /\ ~users[u].lapsed)
  BY <1>0, <1>2, Answers DEF ReactivationCommits, Redis, Order
<1>3. CASE users[u].removed /\ ~users[u].lapsed
  <2>1. PICK a : a = [users[u] EXCEPT !.removed = FALSE, !.version = @ + 1]
    OBVIOUS
  <2>2. /\ a \in Account /\ a.version = users[u].version + 1 /\ a.password = users[u].password
        /\ a.phone = users[u].phone /\ a.removals = users[u].removals /\ a.phone # NoOne
    <3>1. users[u] \in Account
      BY <1>1 DEF SessionInv, Typed
    <3>2. /\ a.version = users[u].version + 1 /\ a.password = users[u].password /\ a.phone = users[u].phone
          /\ a.removals = users[u].removals /\ a.removed \in BOOLEAN /\ a.lapsed = users[u].lapsed
          /\ DOMAIN a = DOMAIN users[u] /\ a = [x \in DOMAIN a |-> a[x]]
      BY <2>1, <3>1 DEF Account
    <3>3. a \in Account
      BY <1>1, <3>1, <3>2, IsAccount DEF Account
    <3> QED BY <1>1, <3>2, <3>3 DEF Exists
  <2>3. users' = [users EXCEPT ![u] = a]
    BY <1>1, <1>3, <2>1 DEF ReactivationCommits, SessionInv, Typed, Account
  <2>4. codes' \in Seq(Code) /\ DOMAIN codes' = DOMAIN codes /\ UNCHANGED <<handed, lock, sessions>>
    BY DEF ReactivationCommits, Redis, Order, SessionInv, Typed
  <2>5. PICK q : q = [op |-> "open", session |-> [user |-> u, version |-> users[u].version + 1, facts |-> Facts(u)]]
    OBVIOUS
  <2>6. Goes(r, q)
    BY <1>3, <2>5 DEF ReactivationCommits
  <2>7. q.op \in {"open", "revoke"}
        /\ q.session = [user |-> u, version |-> a.version, facts |-> <<a.phone, a.password, a.removals>>]
    BY <2>2, <2>5 DEF Facts
  <2> QED BY <1>1, <2>2, <2>3, <2>4, <2>6, <2>7, Commit
<1> QED BY <1>2, <1>3

LEMMA RemovalStep ==
  ASSUME SessionInv, NEW r \in Requests, RemovalCommits(r) PROVE SessionInv'
<1>0. Knows(running[r]) /\ running[r].op = "remove_commits" /\ lock \in [Users -> Requests \union {NoOne}]
  BY DEF SessionInv, SessionsSound, Typed, RemovalCommits, At
<1> PICK u : u = running[r].user
  OBVIOUS
<1>1. u \in Users /\ Exists(u)
  BY <1>0 DEF Knows
<1>2. PICK a : a = [users[u] EXCEPT !.removed = TRUE, !.removals = @ + 1, !.version = @ + 1]
  OBVIOUS
<1>3. a \in Account /\ a.phone # NoOne /\ users[u].version \in Nat /\ a.version = users[u].version + 1
  <2>1. users[u] \in Account
    BY <1>1 DEF SessionInv, Typed
  <2>2. /\ a.version = users[u].version + 1 /\ a.password = users[u].password /\ a.phone = users[u].phone
        /\ a.removals = users[u].removals + 1 /\ a.removed \in BOOLEAN /\ a.lapsed = users[u].lapsed
        /\ DOMAIN a = DOMAIN users[u] /\ a = [x \in DOMAIN a |-> a[x]]
    BY <1>2, <2>1 DEF Account
  <2>3. a \in Account
    BY <1>1, <2>1, <2>2, IsAccount DEF Account
  <2> QED BY <1>1, <2>1, <2>2, <2>3 DEF Exists, Account
<1>4. users' = [users EXCEPT ![u] = a]
  BY <1>1, <1>2 DEF RemovalCommits, SessionInv, Typed, Account
<1>5. Typed' /\ Kept
  <2>1. users[u].version <= a.version /\ a.version # users[u].version
    BY <1>3
  <2>2. Kept /\ users' \in [Users -> Account]
    BY <1>1, <1>3, <1>4, <2>1, Changed DEF RemovalCommits, SessionInv
  <2>3. lock' \in [Users -> Requests \union {NoOne}]
    BY <1>0 DEF RemovalCommits
  <2> QED BY <2>2, <2>3 DEF RemovalCommits, Redis, SessionInv, Typed, Ends, Goes
<1>6. PICK q : q = Idle
  OBVIOUS
<1>7. Knows(q)' /\ Goes(r, q)
  BY <1>6 DEF Knows, Idle, Ends, RemovalCommits
<1> QED BY <1>5, <1>7, OneHandler DEF RemovalCommits, Redis, SessionInv

LEMMA LapseStep ==
  ASSUME SessionInv, NEW u \in Users, WindowLapses(u) PROVE SessionInv'
<1>1. PICK a : a = [users[u] EXCEPT !.lapsed = TRUE]
  OBVIOUS
<1>2. a \in Account /\ users[u].version \in Nat /\ a.version = users[u].version
      /\ <<a.phone, a.password, a.removals>> = Facts(u) /\ a.phone = users[u].phone
  BY <1>1 DEF SessionInv, Typed, Account, Facts
<1>3. users' = [users EXCEPT ![u] = a]
  BY <1>1 DEF WindowLapses, SessionInv, Typed, Account
<1>4. Typed' /\ Kept
  <2>1. users[u].version <= a.version
    BY <1>2
  <2>2. Kept /\ users' \in [Users -> Account]
    BY <1>2, <1>3, <2>1, Changed DEF WindowLapses, SessionInv, Exists
  <2> QED BY <2>2 DEF WindowLapses, Redis, Order, SessionInv, Typed
<1> QED BY <1>4, NoHandler DEF WindowLapses, Redis, SessionInv

LEMMA SessionInit == Init => SessionInv
<1> SUFFICES ASSUME Init PROVE SessionInv
  OBVIOUS
<1>1. ASSUME NEW v \in Users,
             users = [u \in Users |-> IF u = v THEN [Absent EXCEPT !.phone = Registered.phone, !.password = Registered.password]
                                                ELSE Absent]
      PROVE  users \in [Users -> Account]
  <2>1. Absent \in Account
    BY DEF Absent, Account
  <2>2. [Absent EXCEPT !.phone = Registered.phone, !.password = Registered.password] \in Account
    BY RegisteredAssumption DEF Absent, Account
  <2> QED BY <1>1, <2>1, <2>2
<1>2. users \in [Users -> Account]
  BY <1>1 DEF Init
<1>3. codes \in Seq(Code)
  BY DEF Init
<1>4. \A r \in Requests : Knows(running[r])
  BY DEF Init, Knows, Idle
<1> QED BY <1>2, <1>3, <1>4 DEF Init, SessionInv, SessionsSound, Typed

LEMMA SessionStep == SessionInv /\ [Next]_vars => SessionInv'
<1> SUFFICES ASSUME SessionInv, [Next]_vars PROVE SessionInv'
  OBVIOUS
<1>1. ASSUME NEW p \in Phones, NEW purpose \in Purposes, RequestCode(p, purpose) PROVE SessionInv'
  BY <1>1, RequestCodeStep
<1>2. ASSUME NEW r \in Requests, NEW c \in DOMAIN codes,
             \E key \in Keys : VerifyChecks(r, c, key) \/ \E password \in Passwords : ResetChecks(r, c, key, password)
      PROVE  SessionInv'
  BY <1>2, VerifySteps, ResetChecksStep
<1>3. ASSUME NEW r \in Requests, VerifyCreatesToken(r) \/ VerifyConsumes(r) PROVE SessionInv'
  BY <1>3, VerifySteps
<1>4. ASSUME NEW r \in Requests, \/ \E p \in Phones, password \in Passwords : Login(r, p, password)
                                 \/ OpenSession(r) \/ RevokeFinds(r) \/ RevokeDeletes(r)
      PROVE  SessionInv'
  BY <1>4, SessionSteps
<1>5. ASSUME NEW r \in Requests,
             \/ \E t \in handed, password \in Passwords : RegisterChecks(r, t, password)
             \/ \E t \in handed : ReactivationChecks(r, t) \/ \E s \in sessions : PhoneChangeChecks(r, s, t)
             \/ \E s \in sessions : Starts(r, s, "remove") \/ Starts(r, s, "confirm")
      PROVE  SessionInv'
  BY <1>5, CheckSteps
<1>6. ASSUME NEW r \in Requests, RegisterCreates(r) \/ ResetCommits(r) \/ PhoneChangeCommits(r) \/ RemovalCommits(r) \/ ReactivationCommits(r)
      PROVE  SessionInv'
  BY <1>6, RegisterStep, ResetStep, PhoneChangeStep, RemovalStep, ReactivationStep
<1>7. ASSUME NEW r \in Requests, RemovalLocks(r) \/ ConfirmLocks(r) \/ ConfirmCommits(r) \/ Crash(r) PROVE SessionInv'
  BY <1>7, LockSteps
<1>8. ASSUME NEW c \in DOMAIN codes, CodeExpires(c) \/ \E key \in Keys : VerifyRecovers(c, key) PROVE SessionInv'
  BY <1>8, ExpireSteps, RecoverStep
<1>9. ASSUME (\E s \in sessions : Logout(s)) \/ (\E t \in tokens : TokenExpires(t)) \/ (\E u \in Users : OrderFinishes(u))
      PROVE  SessionInv'
  BY <1>9, ExpireSteps
<1>10. ASSUME NEW u \in Users, WindowLapses(u) PROVE SessionInv'
  BY <1>10, LapseStep
<1>11. CASE UNCHANGED vars
  BY <1>11, Stands DEF vars
<1> QED BY <1>1, <1>2, <1>3, <1>4, <1>5, <1>6, <1>7, <1>8, <1>9, <1>10, <1>11 DEF Next

(* A session the guard accepts was opened under the account's present phone and *)
(* password, and not before its last removal, for any number of concurrent       *)
(* logins, resets, phone changes and removals (SessionAuthGuard,                *)
(* session.service.ts).                                                         *)
THEOREM SessionsStayCurrent == Spec => []SessionsAreCurrent
<1>1. SessionInv => SessionsAreCurrent
  BY DEF SessionInv, SessionsSound, Sound, SessionsAreCurrent, Accepts
<1> QED BY <1>1, SessionInit, SessionStep, PTL DEF Spec

----------------------------------------------------------------------------
(* Removal and checkout hold the row lock from their reads to their commits.     *)
LocksHeld ==
  \A r \in Requests :
    /\ running[r].op = "remove_commits" => lock[running[r].user] = r /\ running[r].user \notin orders
    /\ running[r].op = "confirm_commits" => lock[running[r].user] = r /\ ~users[running[r].user].removed
OrdersInv == LocksHeld /\ orders \subseteq Users /\ RemovedAccountsHaveNoOrder

LEMMA OthersLock ==
  ASSUME SessionInv, OrdersInv, NEW r \in Requests, NEW q, Goes(r, q), q.op \notin {"remove_commits", "confirm_commits"},
         UNCHANGED lock, orders' \subseteq orders, \A u \in Users : users'[u].removed => users[u].removed
  PROVE  OrdersInv'
<1>1. \A s \in Requests : running[s].op \in {"remove_commits", "confirm_commits"} => running[s].user \in Users
  BY DEF SessionInv, SessionsSound, Knows
<1>2. running'[r] = q /\ \A s \in Requests \ {r} : running'[s] = running[s]
  BY DEF Goes, SessionInv, Typed
<1>3. LocksHeld'
  <2> SUFFICES ASSUME NEW s \in Requests
               PROVE  /\ running'[s].op = "remove_commits" => lock'[running'[s].user] = s /\ running'[s].user \notin orders'
                      /\ running'[s].op = "confirm_commits" => lock'[running'[s].user] = s /\ ~users'[running'[s].user].removed
    BY DEF LocksHeld
  <2>1. CASE s = r
    BY <1>2, <2>1
  <2>2. CASE s # r
    BY <1>1, <1>2, <2>2 DEF OrdersInv, LocksHeld
  <2> QED BY <2>1, <2>2
<1> QED BY <1>3 DEF OrdersInv, RemovedAccountsHaveNoOrder

LEMMA NobodyLocks ==
  ASSUME SessionInv, OrdersInv, UNCHANGED <<running, lock>>, orders' \subseteq orders,
         \A u \in Users : users'[u].removed => users[u].removed
  PROVE  OrdersInv'
<1>1. \A s \in Requests : running[s].op \in {"remove_commits", "confirm_commits"} => running[s].user \in Users
  BY DEF SessionInv, SessionsSound, Knows
<1>2. LocksHeld'
  BY <1>1 DEF OrdersInv, LocksHeld
<1> QED BY <1>2 DEF OrdersInv, RemovedAccountsHaveNoOrder

(* Whatever else a handler does leaves the lock, and removes nobody.            *)
Elsewhere(r) ==
  /\ UNCHANGED lock /\ orders' \subseteq orders /\ \A u \in Users : users'[u].removed => users[u].removed
  /\ UNCHANGED running \/ \E q : Goes(r, q) /\ q.op \notin {"remove_commits", "confirm_commits"}

LEMMA ElsewhereStep == ASSUME SessionInv, OrdersInv, NEW r \in Requests, Elsewhere(r) PROVE OrdersInv'
BY OthersLock, NobodyLocks DEF Elsewhere

LEMMA ReadersAreElsewhere ==
  ASSUME SessionInv, NEW r \in Requests,
         \/ \E c \in DOMAIN codes, key \in Keys : VerifyChecks(r, c, key) \/ \E password \in Passwords : ResetChecks(r, c, key, password)
         \/ VerifyCreatesToken(r) \/ VerifyConsumes(r) \/ OpenSession(r) \/ RevokeFinds(r) \/ RevokeDeletes(r)
         \/ \E p \in Phones, password \in Passwords : Login(r, p, password)
         \/ \E t \in handed, password \in Passwords : RegisterChecks(r, t, password)
         \/ \E t \in handed : ReactivationChecks(r, t) \/ \E s \in sessions : PhoneChangeChecks(r, s, t)
         \/ \E s \in sessions : Starts(r, s, "remove") \/ Starts(r, s, "confirm")
  PROVE  Elsewhere(r)
<1> USE DEF Elsewhere, Order
<1>1. ASSUME NEW c \in DOMAIN codes, NEW key \in Keys, VerifyChecks(r, c, key) PROVE Elsewhere(r)
  BY <1>1 DEF VerifyChecks
<1>2. ASSUME NEW c \in DOMAIN codes, NEW key \in Keys, NEW password \in Passwords, ResetChecks(r, c, key, password) PROVE Elsewhere(r)
  <2>1. UNCHANGED running
        \/ \E u \in WithPhone(codes[c].phone) :
             Goes(r, [op |-> "reset", code |-> c, key |-> key, attempts |-> codes[c].attempts, user |-> u, password |-> password])
    BY <1>2 DEF ResetChecks
  <2>2. ASSUME NEW u \in WithPhone(codes[c].phone), Goes(r, [op |-> "reset", code |-> c, key |-> key, attempts |-> codes[c].attempts, user |-> u, password |-> password])
        PROVE  \E q : Goes(r, q) /\ q.op = "reset"
    <3>1. PICK q : q = [op |-> "reset", code |-> c, key |-> key, attempts |-> codes[c].attempts, user |-> u, password |-> password]
      OBVIOUS
    <3>2. Goes(r, q) /\ q.op = "reset"
      BY <2>2, <3>1
    <3> QED BY <3>2
  <2>3. UNCHANGED running \/ \E q : Goes(r, q) /\ q.op = "reset"
    BY <2>1, <2>2
  <2> QED BY <1>2, <2>3 DEF ResetChecks
<1>3. CASE VerifyCreatesToken(r)
  <2>1. [running[r] EXCEPT !.op = "verify_consumes"].op = "verify_consumes"
    BY <1>3 DEF VerifyCreatesToken, At, SessionInv, SessionsSound, Knows
  <2> QED BY <1>3, <2>1 DEF VerifyCreatesToken, Rows
<1>4. CASE VerifyConsumes(r) \/ OpenSession(r) \/ RevokeFinds(r) \/ RevokeDeletes(r)
  BY <1>4 DEF VerifyConsumes, OpenSession, RevokeFinds, RevokeDeletes, Rows, Ends, Idle
<1>5. ASSUME NEW p \in Phones, NEW password \in Passwords, Login(r, p, password) PROVE Elsewhere(r)
  BY <1>5 DEF Login, Rows
<1>6. ASSUME NEW t \in handed, NEW password \in Passwords, RegisterChecks(r, t, password) PROVE Elsewhere(r)
  BY <1>6 DEF RegisterChecks, Rows
<1>7. ASSUME NEW t \in handed, ReactivationChecks(r, t) PROVE Elsewhere(r)
  <2>1. UNCHANGED running \/ \E u \in WithPhone(codes[t.code].phone) : Goes(r, [op |-> "reactivate", user |-> u, code |-> t.code])
    BY <1>7 DEF ReactivationChecks
  <2>2. ASSUME NEW u \in WithPhone(codes[t.code].phone), Goes(r, [op |-> "reactivate", user |-> u, code |-> t.code])
        PROVE  \E q : Goes(r, q) /\ q.op = "reactivate"
    <3>1. PICK q : q = [op |-> "reactivate", user |-> u, code |-> t.code]
      OBVIOUS
    <3>2. Goes(r, q) /\ q.op = "reactivate"
      BY <2>2, <3>1
    <3> QED BY <3>2
  <2>3. UNCHANGED running \/ \E q : Goes(r, q) /\ q.op = "reactivate"
    BY <2>1, <2>2
  <2> QED BY <1>7, <2>3 DEF ReactivationChecks, Rows
<1>8. ASSUME NEW s \in sessions, NEW t \in handed, PhoneChangeChecks(r, s, t) PROVE Elsewhere(r)
  BY <1>8 DEF PhoneChangeChecks, Rows
<1>9. ASSUME NEW s \in sessions, Starts(r, s, "remove") \/ Starts(r, s, "confirm") PROVE Elsewhere(r)
  BY <1>9 DEF Starts, Rows
<1> QED BY <1>1, <1>2, <1>3, <1>4, <1>5, <1>6, <1>7, <1>8, <1>9

LEMMA WritersAreElsewhere ==
  ASSUME SessionInv, NEW r \in Requests,
         RegisterCreates(r) \/ ResetCommits(r) \/ PhoneChangeCommits(r) \/ ReactivationCommits(r)
  PROVE  Elsewhere(r)
<1>0. users \in [Users -> Account]
  BY DEF SessionInv, Typed
<1>1. CASE RegisterCreates(r)
  <2>1. CASE Ends(r) /\ UNCHANGED users
    BY <1>1, <2>1 DEF RegisterCreates, Order, Elsewhere, Ends, Idle
  <2>2. ASSUME NEW u \in Users, NEW p, NEW password, NEW s, users' = [users EXCEPT ![u] = [Absent EXCEPT !.phone = p, !.password = password]],
               Goes(r, [op |-> "open", session |-> s])
        PROVE  Elsewhere(r)
    <3>1. ~[Absent EXCEPT !.phone = p, !.password = password].removed
      BY DEF Absent
    <3>2. \A v \in Users : users'[v].removed => users[v].removed
      BY <1>0, <2>2, <3>1
    <3> QED BY <1>1, <2>2, <3>2 DEF RegisterCreates, Order, Elsewhere
  <2> QED BY <1>1, <2>1, <2>2 DEF RegisterCreates
<1>2. CASE ResetCommits(r)
  <2>1. \A v \in Users : users'[v].removed => users[v].removed
    BY <1>0, <1>2 DEF ResetCommits, Rows, WithNewPassword, Account
  <2>2. Ends(r) \/ \E q : Goes(r, q) /\ q.op = "revoke"
    BY <1>2 DEF ResetCommits
  <2> QED BY <1>2, <2>1, <2>2 DEF ResetCommits, Order, Elsewhere, Ends, Idle
<1>3. CASE PhoneChangeCommits(r)
  BY <1>0, <1>3 DEF PhoneChangeCommits, Order, Elsewhere, Ends, Idle, Account
<1>4. CASE ReactivationCommits(r)
  BY <1>0, <1>4 DEF ReactivationCommits, Order, Elsewhere, Ends, Idle, Account
<1> QED BY <1>1, <1>2, <1>3, <1>4

LEMMA RemovalKeepsOrders ==
  ASSUME SessionInv, OrdersInv, NEW r \in Requests, RemovalLocks(r) \/ RemovalCommits(r) PROVE OrdersInv'
<1> PICK u : u = running[r].user
  OBVIOUS
<1>0. /\ \A s \in Requests : running[s].op \in {"remove_commits", "confirm_commits"} => running[s].user \in Users
      /\ u \in Users /\ running[r] \in [op : {"remove", "remove_commits", "confirm", "confirm_commits"}, user : Users]
  BY DEF SessionInv, SessionsSound, Knows, RemovalLocks, RemovalCommits, At
<1>1. users \in [Users -> Account] /\ lock \in [Users -> Requests \union {NoOne}] /\ DOMAIN running = Requests
  BY DEF SessionInv, Typed
<1>2. CASE RemovalLocks(r) /\ Ends(r) /\ UNCHANGED lock
  BY <1>2, ElsewhereStep DEF RemovalLocks, Elsewhere, Rows, Ends, Idle
<1>3. CASE /\ RemovalLocks(r) /\ u \notin orders
           /\ Goes(r, [running[r] EXCEPT !.op = "remove_commits"]) /\ lock' = [lock EXCEPT ![u] = r]
  <2>1. running'[r].op = "remove_commits" /\ running'[r].user = u /\ \A s \in Requests \ {r} : running'[s] = running[s]
    BY <1>0, <1>1, <1>3 DEF Goes
  <2>2. lock[u] = NoOne /\ UNCHANGED <<users, orders>>
    BY <1>3 DEF RemovalLocks, Rows
  <2>3. LocksHeld'
    BY <1>0, <1>1, <1>3, <2>1, <2>2, NoOneAssumption DEF OrdersInv, LocksHeld
  <2> QED BY <2>2, <2>3 DEF OrdersInv, RemovedAccountsHaveNoOrder
<1>4. CASE RemovalCommits(r)
  <2>1. lock[u] = r /\ u \notin orders
    BY <1>4 DEF OrdersInv, LocksHeld, RemovalCommits, At
  <2>2. running'[r].op = "idle" /\ \A s \in Requests \ {r} : running'[s] = running[s]
    BY <1>1, <1>4 DEF RemovalCommits, Ends, Goes, Idle
  <2>3. lock' = [lock EXCEPT ![u] = NoOne] /\ UNCHANGED orders
    BY <1>4 DEF RemovalCommits
  <2>4. \A v \in Users \ {u} : users'[v] = users[v]
    BY <1>1, <1>4 DEF RemovalCommits
  <2>5. LocksHeld'
    BY <1>0, <1>1, <2>1, <2>2, <2>3, <2>4 DEF OrdersInv, LocksHeld
  <2> QED BY <2>1, <2>3, <2>4, <2>5 DEF OrdersInv, RemovedAccountsHaveNoOrder
<1> QED BY <1>2, <1>3, <1>4 DEF RemovalLocks

LEMMA ConfirmKeepsOrders ==
  ASSUME SessionInv, OrdersInv, NEW r \in Requests, ConfirmLocks(r) \/ ConfirmCommits(r) \/ Crash(r) PROVE OrdersInv'
<1> PICK u : u = running[r].user
  OBVIOUS
<1>0. /\ \A s \in Requests : running[s].op \in {"remove_commits", "confirm_commits"} => running[s].user \in Users
      /\ ConfirmLocks(r) \/ ConfirmCommits(r) =>
           u \in Users /\ running[r] \in [op : {"remove", "remove_commits", "confirm", "confirm_commits"}, user : Users]
  BY DEF SessionInv, SessionsSound, Knows, ConfirmLocks, ConfirmCommits, At
<1>1. lock \in [Users -> Requests \union {NoOne}] /\ DOMAIN running = Requests
  BY DEF SessionInv, Typed
<1>2. CASE ConfirmLocks(r) /\ Ends(r) /\ UNCHANGED lock
  BY <1>2, ElsewhereStep DEF ConfirmLocks, Elsewhere, Rows, Ends, Idle
<1>3. CASE /\ ConfirmLocks(r) /\ ~users[u].removed /\ LocksAccount(r, u)
           /\ Goes(r, [running[r] EXCEPT !.op = "confirm_commits"])
  <2>1. running'[r].op = "confirm_commits" /\ running'[r].user = u /\ \A s \in Requests \ {r} : running'[s] = running[s]
    BY <1>0, <1>1, <1>3 DEF Goes
  <2>2. lock[u] = NoOne /\ lock' = [lock EXCEPT ![u] = r] /\ UNCHANGED <<users, orders>>
    BY <1>3 DEF ConfirmLocks, LocksAccount, Rows
  <2>3. LocksHeld'
    BY <1>0, <1>1, <1>3, <2>1, <2>2, NoOneAssumption DEF OrdersInv, LocksHeld
  <2> QED BY <2>2, <2>3 DEF OrdersInv, RemovedAccountsHaveNoOrder
<1>4. CASE ConfirmCommits(r) \/ Crash(r)
  <2>1. running'[r].op = "idle" /\ \A s \in Requests \ {r} : running'[s] = running[s]
    BY <1>1, <1>4 DEF ConfirmCommits, Crash, Ends, Goes, Idle
  <2>2. \A v \in Users : lock[v] # r => lock'[v] = lock[v]
    BY <1>1, <1>4 DEF ConfirmCommits, Crash
  <2>3. UNCHANGED users /\ orders' \subseteq orders \union {u} /\ (Crash(r) => UNCHANGED orders)
    BY <1>4 DEF ConfirmCommits, Crash, Rows
  <2>4. ConfirmCommits(r) => lock[u] = r /\ ~users[u].removed
    BY DEF ConfirmCommits, At, OrdersInv, LocksHeld
  <2>5. LocksHeld'
    BY <1>0, <1>1, <1>4, <2>1, <2>2, <2>3, <2>4 DEF OrdersInv, LocksHeld
  <2> QED BY <1>0, <1>4, <2>3, <2>4, <2>5 DEF OrdersInv, RemovedAccountsHaveNoOrder
<1> QED BY <1>2, <1>3, <1>4 DEF ConfirmLocks

LEMMA OrdersStep == SessionInv /\ OrdersInv /\ [Next]_vars => OrdersInv'
<1> SUFFICES ASSUME SessionInv, OrdersInv, [Next]_vars PROVE OrdersInv'
  OBVIOUS
<1>1. ASSUME NEW r \in Requests,
             \/ \E c \in DOMAIN codes, key \in Keys : VerifyChecks(r, c, key) \/ \E password \in Passwords : ResetChecks(r, c, key, password)
             \/ VerifyCreatesToken(r) \/ VerifyConsumes(r) \/ OpenSession(r) \/ RevokeFinds(r) \/ RevokeDeletes(r)
             \/ \E p \in Phones, password \in Passwords : Login(r, p, password)
             \/ \E t \in handed, password \in Passwords : RegisterChecks(r, t, password)
             \/ \E t \in handed : ReactivationChecks(r, t) \/ \E s \in sessions : PhoneChangeChecks(r, s, t)
             \/ \E s \in sessions : Starts(r, s, "remove") \/ Starts(r, s, "confirm")
      PROVE  OrdersInv'
  BY <1>1, ReadersAreElsewhere, ElsewhereStep
<1>2. ASSUME NEW r \in Requests, RegisterCreates(r) \/ ResetCommits(r) \/ PhoneChangeCommits(r) \/ ReactivationCommits(r)
      PROVE  OrdersInv'
  BY <1>2, WritersAreElsewhere, ElsewhereStep
<1>3. ASSUME NEW r \in Requests, RemovalLocks(r) \/ RemovalCommits(r) \/ ConfirmLocks(r) \/ ConfirmCommits(r) \/ Crash(r)
      PROVE  OrdersInv'
  BY <1>3, RemovalKeepsOrders, ConfirmKeepsOrders
<1>4. ASSUME \/ \E p \in Phones, purpose \in Purposes : RequestCode(p, purpose)
             \/ \E c \in DOMAIN codes : CodeExpires(c) \/ \E key \in Keys : VerifyRecovers(c, key)
             \/ \E s \in sessions : Logout(s)
             \/ \E t \in tokens : TokenExpires(t)
             \/ \E u \in Users : OrderFinishes(u)
             \/ UNCHANGED vars
      PROVE  OrdersInv'
  BY <1>4, NobodyLocks DEF RequestCode, CodeExpires, VerifyRecovers, Logout, TokenExpires, OrderFinishes, Rows, Redis, Order, vars
<1>5. ASSUME NEW u \in Users, WindowLapses(u) PROVE OrdersInv'
  <2>1. \A v \in Users : users'[v].removed => users[v].removed
    BY <1>5 DEF WindowLapses, SessionInv, Typed, Account
  <2> QED BY <1>5, <2>1, NobodyLocks DEF WindowLapses, Order
<1> QED BY <1>1, <1>2, <1>3, <1>4, <1>5 DEF Next

(* A removed account has no order in progress, for any number of concurrent      *)
(* removals and checkouts (customers.controller.ts deactivate(), confirm()).     *)
THEOREM RemovedAccountsOrderNothing == Spec => []RemovedAccountsHaveNoOrder
<1>1. Init => OrdersInv
  BY DEF Init, OrdersInv, LocksHeld, RemovedAccountsHaveNoOrder, Idle
<1>2. OrdersInv => RemovedAccountsHaveNoOrder
  BY DEF OrdersInv
<1> QED BY <1>1, <1>2, SessionInit, SessionStep, OrdersStep, PTL DEF Spec

----------------------------------------------------------------------------
(* One change per code.  What gates a change: a token, made while its code was *)
(* unconsumed, and handed out only by the key that then consumed it; once      *)
(* redeemed it is gone for good, because no other call makes it again.  A reset  *)
(* takes its code itself, and no change takes a token of such a code.          *)
Verifying(q) == q.op \in {"verify", "verify_consumes"}
Pending(q) == q.op \in {"register", "reactivate", "phone"}
Marked(q) == Verifying(q) \/ Pending(q) \/ q.op = "reset"
Token(c) == [code |-> c, key |-> codes[c].by]
TokenRow == [code : DOMAIN codes, key : Keys]

TokensFit ==
  /\ tokens \union index \subseteq TokenRow
  /\ \A t \in handed : t \in TokenRow /\ codes[t.code].by = t.key

UsesFit ==
  /\ uses \in Seq(Nat) /\ Len(uses) = Len(codes)
  /\ \A c \in DOMAIN codes :
       /\ uses[c] <= 1
       /\ uses[c] # 0 => codes[c].by # NoOne /\ (codes[c].purpose # "PASSWORD_RESET" => Token(c) \notin tokens)

(* What a handler holds.                                                      *)
Holds(q) ==
  /\ Verifying(q) => /\ q.code \in DOMAIN codes /\ q.key \in Keys
                     /\ codes[q.code].purpose # "PASSWORD_RESET" => codes[q.code].by # q.key
  /\ Pending(q) => /\ q.code \in DOMAIN codes /\ codes[q.code].purpose # "PASSWORD_RESET"
                   /\ codes[q.code].by # NoOne /\ uses[q.code] = 0 /\ Token(q.code) \notin tokens
  /\ q.op = "reset" => q.code \in DOMAIN codes /\ codes[q.code].purpose = "PASSWORD_RESET"

Apart ==
  \A r, s \in Requests : r # s =>
    /\ Verifying(running[r]) /\ Verifying(running[s]) => running[r].key # running[s].key
    /\ Pending(running[r]) /\ Pending(running[s]) => running[r].code # running[s].code

GateInv == TokensFit /\ UsesFit /\ Apart /\ \A r \in Requests : Holds(running[r])

(* Most steps change neither who consumed a code nor what it gated.            *)
Quietly ==
  /\ Len(codes') = Len(codes) /\ DOMAIN codes' = DOMAIN codes
  /\ \A c \in DOMAIN codes : codes'[c].by = codes[c].by /\ codes'[c].purpose = codes[c].purpose
  /\ UNCHANGED uses /\ tokens' \subseteq tokens /\ index' \subseteq index
  /\ \A t \in handed' : t \in handed \/ (t \in index /\ codes[t.code].by = t.key)

LEMMA HoldsQuietly == ASSUME Quietly, NEW q, Holds(q) PROVE Holds(q)'
BY DEF Quietly, Holds, Verifying, Pending, Token

LEMMA FitQuietly == ASSUME GateInv, Quietly PROVE TokensFit' /\ UsesFit'
BY DEF Quietly, GateInv, TokensFit, UsesFit, TokenRow, Token

LEMMA GateGoes ==
  ASSUME Typed, GateInv, NEW r \in Requests, NEW q, Goes(r, q), TokensFit', UsesFit', Holds(q)',
         \A b : Holds(b) /\ (\E s \in Requests \ {r} : b = running[s]) => Holds(b)',
         \A s \in Requests \ {r} : /\ ~(Verifying(q) /\ Verifying(running[s]) /\ q.key = running[s].key)
                                   /\ ~(Pending(q) /\ Pending(running[s]) /\ q.code = running[s].code)
  PROVE  GateInv'
<1>1. running'[r] = q /\ \A s \in Requests \ {r} : running'[s] = running[s]
  BY DEF Goes, Typed
<1>2. ASSUME NEW s \in Requests PROVE Holds(running[s])'
  <2>1. CASE s = r
    BY <1>1, <2>1 DEF Holds, Verifying, Pending, Token
  <2>2. CASE s # r
    <3>1. PICK b : b = running[s]
      OBVIOUS
    <3>2. Holds(b)'
      BY <2>2, <3>1 DEF GateInv
    <3> QED BY <1>1, <2>2, <3>1, <3>2 DEF Holds, Verifying, Pending, Token
  <2> QED BY <2>1, <2>2
<1>3. Apart'
  BY <1>1 DEF GateInv, Apart, Verifying, Pending
<1> QED BY <1>2, <1>3 DEF GateInv

LEMMA GateUnmarked ==
  ASSUME Typed, GateInv, Quietly, NEW r \in Requests, NEW q, Goes(r, q), ~Marked(q) PROVE GateInv'
<1>1. Holds(q)
  BY DEF Holds, Marked
<1> QED BY <1>1, HoldsQuietly, FitQuietly, GateGoes DEF Marked

LEMMA GateStands == ASSUME Typed, GateInv, Quietly, UNCHANGED running PROVE GateInv'
<1>1. ASSUME NEW s \in Requests PROVE Holds(running[s])'
  <2>1. PICK b : b = running[s]
    OBVIOUS
  <2>2. Holds(b)'
    BY <2>1, HoldsQuietly DEF GateInv
  <2> QED BY <2>1, <2>2 DEF Holds, Verifying, Pending, Token
<1> QED BY <1>1, FitQuietly DEF GateInv, Apart

LEMMA QuietRows ==
  ASSUME UNCHANGED <<codes, uses>>, tokens' \subseteq tokens, index' \subseteq index, handed' \subseteq handed
  PROVE  Quietly
BY DEF Quietly

LEMMA QuietEnds ==
  ASSUME Typed, GateInv, Quietly, NEW r \in Requests, Ends(r) PROVE GateInv'
<1>1. PICK q : q = Idle
  OBVIOUS
<1>2. Goes(r, q) /\ ~Marked(q)
  BY <1>1 DEF Ends, Marked, Verifying, Pending, Idle
<1> QED BY <1>2, GateUnmarked

LEMMA WrongCodeIsQuiet ==
  ASSUME Typed, NEW c \in DOMAIN codes, WrongCode(c), UNCHANGED uses, tokens' \subseteq tokens, index' \subseteq index,
         \A t \in handed' : t \in handed \/ (t \in index /\ codes[t.code].by = t.key)
  PROVE  Quietly
<1>1. Len(codes') = Len(codes) /\ DOMAIN codes' = DOMAIN codes
  BY WrongCodeStep, LenProperties DEF Typed, WrongCode
<1>2. \A d \in DOMAIN codes : codes'[d].by = codes[d].by /\ codes'[d].purpose = codes[d].purpose
  <2>1. \A d \in DOMAIN codes : codes[d] \in Code
    BY LenProperties DEF Typed
  <2> QED BY <2>1 DEF WrongCode, Code
<1> QED BY <1>1, <1>2 DEF Quietly

(* The latest unconsumed row exists, and a code that checks is that row.        *)
LEMMA LargestOf ==
  ASSUME NEW U \in SUBSET Nat, IsFiniteSet(U), U # {} PROVE \E c \in U : \A d \in U : d <= c
<1> DEFINE Above(c) == {d \in U : d >= c}
           T == {Above(c) : c \in U}
<1>1. IsWellFoundedOn(StrictSubsetOrdering(U), FiniteSubsetsOf(U))
  BY FS_StrictSubsetOrderingWellFounded
<1>2. T \subseteq FiniteSubsetsOf(U) /\ T # {}
  <2>1. FiniteSubsetsOf(U) = SUBSET U
    BY FS_FiniteSubsetsOfFinite
  <2>2. \A c \in U : Above(c) \in SUBSET U
    OBVIOUS
  <2>3. T \subseteq SUBSET U
    BY <2>2
  <2>4. T # {}
    <3>1. PICK c \in U : TRUE
      OBVIOUS
    <3> QED BY <3>1
  <2> QED BY <2>1, <2>3, <2>4
<1>3. PICK X \in T : \A Y \in T : ~(<<Y, X>> \in StrictSubsetOrdering(U))
  BY <1>1, <1>2, WFMin
<1>4. PICK c \in U : X = Above(c)
  BY <1>3
<1>5. ASSUME NEW d \in U, ~(d <= c) PROVE FALSE
  <2>0. c \in Nat /\ d \in Nat /\ c < d /\ \A e \in U : e \in Nat
    BY <1>5
  <2>1. Above(d) \subseteq Above(c) /\ c \in Above(c) /\ c \notin Above(d)
    <3>1. ASSUME NEW e \in Above(d) PROVE e \in Above(c)
      BY <2>0
    <3>2. c >= c /\ ~(c >= d)
      BY <2>0
    <3> QED BY <3>1, <3>2
  <2>2. Above(d) \in T /\ Above(d) \in SUBSET U /\ Above(c) \in SUBSET U
    OBVIOUS
  <2>3. <<Above(d), Above(c)>> \in StrictSubsetOrdering(U)
    BY <2>1, <2>2 DEF StrictSubsetOrdering
  <2> QED BY <1>3, <1>4, <2>2, <2>3
<1> QED BY <1>5

LEMMA OkIsUnconsumed == ASSUME Typed, NEW c \in DOMAIN codes, CheckCode(c) = "ok" PROVE codes[c].by = NoOne
<1> PICK p, purpose : p = codes[c].phone /\ purpose = codes[c].purpose
  OBVIOUS
<1> DEFINE U == Unconsumed(p, purpose)
<1>1. U # {} /\ Latest(p, purpose) = c
  BY DEF CheckCode
<1>2. Len(codes) \in Nat /\ DOMAIN codes = 1..Len(codes)
  BY LenProperties DEF Typed
<1>3. U \in SUBSET Nat /\ IsFiniteSet(U)
  <2>1. U \subseteq 1..Len(codes)
    BY <1>2 DEF Unconsumed
  <2>2. IsFiniteSet(1..Len(codes))
    BY <1>2, FS_Interval
  <2>3. IsFiniteSet(U)
    BY <2>1, <2>2, FS_Subset
  <2> HIDE DEF U
  <2> QED BY <1>2, <2>1, <2>3
<1>4. \E x \in U : \A d \in U : d <= x
  BY <1>1, <1>3, LargestOf
<1>5. Latest(p, purpose) \in U
  BY <1>4 DEF Latest
<1> QED BY <1>1, <1>5 DEF Unconsumed

LEMMA GateVerifyChecks ==
  ASSUME SessionInv, GateInv, NEW r \in Requests, NEW c \in DOMAIN codes, NEW key \in Keys, VerifyChecks(r, c, key)
  PROVE  GateInv'
<1>1. CASE CheckCode(c) = "ok" /\ Goes(r, [op |-> "verify", code |-> c, key |-> key, attempts |-> codes[c].attempts])
           /\ UNCHANGED codes
  <2>1. PICK q : q = [op |-> "verify", code |-> c, key |-> key, attempts |-> codes[c].attempts]
    OBVIOUS
  <2>2. Quietly
    BY <1>1, QuietRows DEF VerifyChecks, Redis
  <2>3. Holds(q)
    <3>1. codes[c].by = NoOne
      BY <1>1, OkIsUnconsumed DEF SessionInv
    <3> QED BY <2>1, <3>1, NoOneAssumption DEF VerifyChecks, Holds, Verifying, Pending
  <2>4. ~Pending(q) /\ \A s \in Requests : Verifying(running[s]) => running[s].key # q.key
    BY <2>1 DEF VerifyChecks, Claimed, Verifying, Pending
  <2>5. Goes(r, q)
    BY <1>1, <2>1
  <2> QED BY <2>2, <2>3, <2>4, <2>5, HoldsQuietly, FitQuietly, GateGoes DEF SessionInv
<1>2. CASE WrongCode(c) /\ UNCHANGED running
  BY <1>2, WrongCodeIsQuiet, GateStands DEF SessionInv, VerifyChecks, Redis
<1> QED BY <1>1, <1>2 DEF VerifyChecks

LEMMA GateCreates ==
  ASSUME SessionInv, GateInv, NEW r \in Requests, VerifyCreatesToken(r) PROVE GateInv'
<1>1. PICK c, key, t : c = running[r].code /\ key = running[r].key /\ t = [code |-> c, key |-> key]
  OBVIOUS
<1>2. PICK q : q = [running[r] EXCEPT !.op = "verify_consumes"]
  OBVIOUS
<1>3. Goes(r, q) /\ UNCHANGED <<codes, uses, handed>> /\ tokens' = tokens \union {t} /\ index' = index \union {t}
  BY <1>1, <1>2 DEF VerifyCreatesToken, Rows
<1>4. /\ Verifying(running[r]) /\ c \in DOMAIN codes /\ key \in Keys
      /\ codes[c].purpose # "PASSWORD_RESET" => codes[c].by # key
  BY <1>1 DEF VerifyCreatesToken, At, GateInv, Holds, Verifying
<1>5. \A d \in DOMAIN codes : codes[d].purpose # "PASSWORD_RESET" => Token(d) # t
  BY <1>1, <1>4 DEF Token
<1>6. TokensFit' /\ UsesFit'
  <2>1. TokensFit'
    BY <1>1, <1>3, <1>4 DEF GateInv, TokensFit, TokenRow
  <2>2. UsesFit'
    BY <1>3, <1>5 DEF GateInv, UsesFit, Token
  <2> QED BY <2>1, <2>2
<1>7. \A b : Holds(b) => Holds(b)'
  BY <1>3, <1>5 DEF Holds, Verifying, Pending, Token
<1>8. q.op = "verify_consumes" /\ q.code = c /\ q.key = key
  BY <1>1, <1>2, <1>4 DEF VerifyCreatesToken, At, SessionInv, SessionsSound, Knows, Verifying
<1>9. Holds(q)
  BY <1>4, <1>8 DEF Holds, Verifying, Pending
<1>10. \A s \in Requests \ {r} : ~(Verifying(q) /\ Verifying(running[s]) /\ q.key = running[s].key) /\ ~Pending(q)
  BY <1>1, <1>4, <1>8 DEF GateInv, Apart, Verifying, Pending
<1> QED BY <1>3, <1>6, <1>7, <1>9, <1>10, GateGoes DEF SessionInv

LEMMA GateConsumes ==
  ASSUME SessionInv, GateInv, NEW r \in Requests, VerifyConsumes(r) PROVE GateInv'
<1>1. PICK c, key : c = running[r].code /\ key = running[r].key
  OBVIOUS
<1>2. Verifying(running[r]) /\ c \in DOMAIN codes /\ key \in Keys
  BY <1>1 DEF VerifyConsumes, At, GateInv, Holds, Verifying
<1>3. CASE codes[c].by = NoOne /\ codes' = [codes EXCEPT ![c].by = key] /\ handed' = handed \union {[code |-> c, key |-> key]}
  <2>1. Len(codes') = Len(codes) /\ DOMAIN codes' = DOMAIN codes
    BY <1>2, <1>3, LenProperties DEF SessionInv, Typed
  <2>2. \A d \in DOMAIN codes : codes'[d].purpose = codes[d].purpose /\ codes'[d].by = IF d = c THEN key ELSE codes[d].by
    <3>1. \A d \in DOMAIN codes : codes[d] \in Code
      BY LenProperties DEF SessionInv, Typed
    <3> QED BY <1>2, <1>3, <3>1 DEF Code
  <2>3. UNCHANGED <<uses, tokens, index>>
    BY DEF VerifyConsumes
  <2>4. uses[c] = 0 /\ key # NoOne
    BY <1>2, <1>3, NoOneAssumption DEF GateInv, UsesFit
  <2>5. TokensFit'
    BY <1>2, <1>3, <2>1, <2>2, <2>3, NoOneAssumption DEF GateInv, TokensFit, TokenRow
  <2>6. UsesFit'
    BY <1>3, <2>1, <2>2, <2>3, <2>4 DEF GateInv, UsesFit, Token
  <2>7. ASSUME NEW b, NEW s \in Requests \ {r}, b = running[s], Holds(b) PROVE Holds(b)'
    <3>1. Verifying(b) => b.key # key
      BY <1>1, <1>2, <2>7 DEF GateInv, Apart
    <3>2. Pending(b) => b.code # c
      BY <1>3, <2>7 DEF Holds
    <3> QED BY <2>1, <2>2, <2>3, <2>7, <3>1, <3>2 DEF Holds, Token, Verifying, Pending
  <2>8. PICK q : q = Idle
    OBVIOUS
  <2>9. Goes(r, q) /\ Holds(q)' /\ ~Verifying(q) /\ ~Pending(q)
    BY <2>8 DEF VerifyConsumes, Ends, Idle, Holds, Verifying, Pending
  <2> QED BY <2>5, <2>6, <2>7, <2>9, GateGoes DEF SessionInv
<1>4. CASE UNCHANGED <<codes, handed>>
  BY <1>4, QuietRows, QuietEnds DEF VerifyConsumes, SessionInv
<1> QED BY <1>1, <1>3, <1>4 DEF VerifyConsumes, Consumable

LEMMA GateRecovers ==
  ASSUME SessionInv, GateInv, NEW c \in DOMAIN codes, NEW key \in Keys, VerifyRecovers(c, key) PROVE GateInv'
<1>1. \A t \in handed' : t \in handed \/ (t \in index /\ codes[t.code].by = t.key)
  BY DEF VerifyRecovers, ConsumedBy
<1>2. UNCHANGED <<uses, tokens, index, running>>
  BY DEF VerifyRecovers
<1>3. Quietly
  <2>1. CASE WrongCode(c)
    BY <1>1, <1>2, <2>1, WrongCodeIsQuiet DEF SessionInv
  <2>2. CASE UNCHANGED codes
    BY <1>1, <1>2, <2>2 DEF Quietly
  <2> QED BY <2>1, <2>2 DEF VerifyRecovers
<1> QED BY <1>2, <1>3, GateStands DEF SessionInv

LEMMA GateIssues ==
  ASSUME SessionInv, GateInv, NEW p \in Phones, NEW purpose \in Purposes, RequestCode(p, purpose) PROVE GateInv'
<1>1. PICK row : row = [phone |-> p, purpose |-> purpose, attempts |-> 0, expired |-> FALSE, by |-> NoOne]
  OBVIOUS
<1>2. codes' = Append(codes, row) /\ uses' = Append(uses, 0) /\ row.by = NoOne /\ UNCHANGED <<tokens, index, handed, running>>
  BY <1>1 DEF RequestCode, Issue, Redis
<1>3. /\ Len(codes) \in Nat /\ DOMAIN codes = 1..Len(codes) /\ DOMAIN uses = 1..Len(codes) /\ Len(uses) = Len(codes)
      /\ uses \in Seq(Nat) /\ codes \in Seq(Code)
  BY LenProperties DEF SessionInv, Typed, GateInv, UsesFit
<1>4. /\ Len(codes') = Len(codes) + 1 /\ DOMAIN codes' = 1..Len(codes) + 1
      /\ \A c \in DOMAIN codes : codes'[c] = codes[c]
      /\ codes'[Len(codes) + 1] = row
  BY <1>2, <1>3, AppendProperties, LenProperties
<1>5. /\ uses' \in Seq(Nat) /\ Len(uses') = Len(codes')
      /\ \A c \in DOMAIN codes : uses'[c] = uses[c]
      /\ uses'[Len(codes) + 1] = 0
  <2>1. 0 \in Nat
    OBVIOUS
  <2> QED BY <1>2, <1>3, <1>4, <2>1, AppendProperties
<1>6. \A c \in DOMAIN codes' : c \in DOMAIN codes \/ c = Len(codes) + 1
  BY <1>3, <1>4
<1>7. DOMAIN codes \subseteq DOMAIN codes'
  BY <1>3, <1>4
<1>8. TokensFit'
  BY <1>2, <1>4, <1>7 DEF GateInv, TokensFit, TokenRow
<1>9. UsesFit'
  <2>1. ASSUME NEW c \in DOMAIN codes'
        PROVE  uses'[c] <= 1 /\ (uses'[c] # 0 => codes'[c].by # NoOne /\ (codes'[c].purpose # "PASSWORD_RESET" => Token(c)' \notin tokens'))
    BY <1>2, <1>4, <1>5, <1>6 DEF GateInv, UsesFit, Token
  <2> QED BY <1>5, <2>1 DEF UsesFit, Token
<1>10. ASSUME NEW s \in Requests PROVE Holds(running[s])'
  <2>1. Holds(running[s])
    BY DEF GateInv
  <2> QED BY <1>2, <1>4, <1>5, <1>7, <2>1 DEF Holds, Verifying, Pending, Token
<1> QED BY <1>2, <1>8, <1>9, <1>10 DEF GateInv, Apart

(* A redeemed token is gone: nobody else holds its code from then on.           *)
LEMMA GateRedeems ==
  ASSUME SessionInv, GateInv, NEW r \in Requests, NEW t, NEW purpose, purpose # "PASSWORD_RESET", Redeems(t, purpose),
         UNCHANGED <<codes, uses, index, handed>>,
         \/ UNCHANGED running
         \/ \E q : Goes(r, q) /\ q.op \in {"register", "reactivate", "phone"} /\ q.code = t.code
  PROVE  GateInv'
<1>1. Quietly
  BY QuietRows DEF Redeems
<1>2. CASE UNCHANGED running
  BY <1>1, <1>2, GateStands DEF SessionInv
<1>3. ASSUME NEW q, Goes(r, q), q.op \in {"register", "reactivate", "phone"}, q.code = t.code PROVE GateInv'
  <2>1. t.code \in DOMAIN codes /\ t = Token(t.code) /\ codes[t.code].by # NoOne /\ codes[t.code].purpose # "PASSWORD_RESET"
    BY NoOneAssumption DEF Redeems, GateInv, TokensFit, TokenRow, Token
  <2>2. t \in tokens /\ uses[t.code] = 0 /\ tokens' = tokens \ {t}
    BY <2>1 DEF Redeems, GateInv, UsesFit
  <2>3. Holds(q)' /\ ~Verifying(q)
    BY <1>3, <2>1, <2>2 DEF Holds, Verifying, Pending, Token
  <2>4. \A s \in Requests : Pending(running[s]) => running[s].code # t.code
    BY <2>1, <2>2 DEF GateInv, Holds
  <2> QED BY <1>1, <1>3, <2>3, <2>4, HoldsQuietly, FitQuietly, GateGoes DEF SessionInv
<1> QED BY <1>2, <1>3

LEMMA GateChecks ==
  ASSUME SessionInv, GateInv, NEW r \in Requests,
         \/ \E t \in handed, password \in Passwords : RegisterChecks(r, t, password)
         \/ \E t \in handed : ReactivationChecks(r, t) \/ \E s \in sessions : PhoneChangeChecks(r, s, t)
  PROVE  GateInv'
<1>1. ASSUME NEW t \in handed, NEW password \in Passwords, RegisterChecks(r, t, password) PROVE GateInv'
  <2>1. CASE UNCHANGED running
    BY <1>1, <2>1, GateRedeems DEF RegisterChecks, Rows
  <2>2. CASE Goes(r, [op |-> "register", code |-> t.code, password |-> password])
    <3>1. \E q : Goes(r, q) /\ q.op \in {"register", "reactivate", "phone"} /\ q.code = t.code
      BY <2>2
    <3> QED BY <1>1, <3>1, GateRedeems DEF RegisterChecks, Rows
  <2> QED BY <1>1, <2>1, <2>2 DEF RegisterChecks
<1>2. ASSUME NEW t \in handed, ReactivationChecks(r, t) PROVE GateInv'
  <2>1. CASE UNCHANGED running
    BY <1>2, <2>1, GateRedeems DEF ReactivationChecks, Rows
  <2>2. ASSUME NEW u \in Users, Goes(r, [op |-> "reactivate", user |-> u, code |-> t.code]) PROVE GateInv'
    <3>1. \E q : Goes(r, q) /\ q.op \in {"register", "reactivate", "phone"} /\ q.code = t.code
      BY <2>2
    <3> QED BY <1>2, <3>1, GateRedeems DEF ReactivationChecks, Rows
  <2> QED BY <1>2, <2>1, <2>2 DEF ReactivationChecks, WithPhone
<1>3. ASSUME NEW t \in handed, NEW s \in sessions, PhoneChangeChecks(r, s, t) PROVE GateInv'
  <2>1. \E q : Goes(r, q) /\ q.op \in {"register", "reactivate", "phone"} /\ q.code = t.code
    BY <1>3 DEF PhoneChangeChecks
  <2> QED BY <1>3, <2>1, GateRedeems DEF PhoneChangeChecks, Rows
<1> QED BY <1>1, <1>2, <1>3

(* The change itself: of all who hold the code, only r does.                    *)
LEMMA GateGates ==
  ASSUME SessionInv, GateInv, NEW r \in Requests, Pending(running[r]), Gated(running[r].code),
         UNCHANGED <<codes, tokens, index, handed>>, NEW q, Goes(r, q), ~Marked(q)
  PROVE  GateInv'
<1>1. PICK c : c = running[r].code
  OBVIOUS
<1>2. c \in DOMAIN codes /\ codes[c].by # NoOne /\ uses[c] = 0 /\ Token(c) \notin tokens
  BY <1>1 DEF GateInv, Holds
<1>3. DOMAIN uses = DOMAIN codes /\ uses \in Seq(Nat)
  BY LenProperties DEF SessionInv, Typed, GateInv, UsesFit
<1>4. /\ uses' \in Seq(Nat) /\ Len(uses') = Len(uses)
      /\ \A d \in DOMAIN codes : uses'[d] = IF d = c THEN 1 ELSE uses[d]
  <2>1. uses' = [uses EXCEPT ![c] = 1]
    BY <1>1, <1>2, <1>3 DEF Gated
  <2>2. uses' \in Seq(Nat) /\ Len(uses') = Len(uses)
    BY <1>2, <1>3, <2>1, ExceptSeq
  <2> QED BY <1>3, <2>1, <2>2
<1>5. TokensFit'
  BY DEF GateInv, TokensFit, TokenRow
<1>6. UsesFit'
  BY <1>2, <1>4 DEF GateInv, UsesFit, Token
<1>7. ASSUME NEW b, NEW s \in Requests \ {r}, b = running[s], Holds(b) PROVE Holds(b)'
  <2>1. Pending(b) => b.code # c
    BY <1>1, <1>7 DEF GateInv, Apart
  <2> QED BY <1>4, <1>7, <2>1 DEF Holds, Token, Verifying, Pending
<1>8. Holds(q)' /\ ~Verifying(q) /\ ~Pending(q)
  BY DEF Marked, Holds, Verifying, Pending
<1> QED BY <1>5, <1>6, <1>7, <1>8, GateGoes DEF SessionInv

LEMMA GateCommits ==
  ASSUME SessionInv, GateInv, NEW r \in Requests, RegisterCreates(r) \/ PhoneChangeCommits(r) \/ ReactivationCommits(r)
  PROVE  GateInv'
<1>1. Pending(running[r]) /\ UNCHANGED <<codes, tokens, index, handed>>
  BY DEF RegisterCreates, PhoneChangeCommits, ReactivationCommits, At, Pending, Redis
<1>2. CASE Ends(r) /\ UNCHANGED uses
  BY <1>1, <1>2, QuietRows, QuietEnds DEF SessionInv
<1>3. ASSUME NEW s, Goes(r, [op |-> "open", session |-> s]), Gated(running[r].code) PROVE GateInv'
  <2>1. PICK q : q = [op |-> "open", session |-> s]
    OBVIOUS
  <2>2. Goes(r, q) /\ ~Marked(q)
    BY <1>3, <2>1 DEF Marked, Verifying, Pending
  <2> QED BY <1>1, <1>3, <2>2, GateGates
<1>4. \/ Ends(r) /\ UNCHANGED uses
      \/ \E s : Goes(r, [op |-> "open", session |-> s]) /\ Gated(running[r].code)
  <2>1. CASE RegisterCreates(r)
    BY <2>1 DEF RegisterCreates
  <2>2. CASE PhoneChangeCommits(r)
    BY <2>2 DEF PhoneChangeCommits
  <2>3. CASE ReactivationCommits(r)
    BY <2>3 DEF ReactivationCommits
  <2> QED BY <2>1, <2>2, <2>3
<1> QED BY <1>2, <1>3, <1>4

LEMMA GateResetChecks ==
  ASSUME SessionInv, GateInv, NEW r \in Requests, NEW c \in DOMAIN codes, NEW key \in Keys, NEW password,
         ResetChecks(r, c, key, password)
  PROVE  GateInv'
<1>1. CASE WrongCode(c) /\ UNCHANGED running
  BY <1>1, WrongCodeIsQuiet, GateStands DEF SessionInv, ResetChecks, Redis
<1>2. CASE UNCHANGED codes
  <2>1. Quietly
    BY <1>2, QuietRows DEF ResetChecks, Redis
  <2>2. CASE UNCHANGED running
    BY <2>1, <2>2, GateStands DEF SessionInv
  <2>3. ASSUME NEW q, Goes(r, q), q.op = "reset", q.code = c PROVE GateInv'
    <3>1. Holds(q) /\ ~Verifying(q) /\ ~Pending(q)
      BY <2>3 DEF ResetChecks, Holds, Verifying, Pending
    <3> QED BY <2>1, <2>3, <3>1, HoldsQuietly, FitQuietly, GateGoes DEF SessionInv
  <2>4. UNCHANGED running \/ \E q : Goes(r, q) /\ q.op = "reset" /\ q.code = c
    <3>1. ASSUME NEW u, Goes(r, [op |-> "reset", code |-> c, key |-> key, attempts |-> codes[c].attempts, user |-> u, password |-> password])
          PROVE  \E q : Goes(r, q) /\ q.op = "reset" /\ q.code = c
      BY <3>1
    <3> QED BY <3>1 DEF ResetChecks
  <2> QED BY <2>2, <2>3, <2>4
<1> QED BY <1>1, <1>2 DEF ResetChecks

LEMMA GateResets ==
  ASSUME SessionInv, GateInv, NEW r \in Requests, ResetCommits(r) PROVE GateInv'
<1>1. PICK c, key : c = running[r].code /\ key = running[r].key
  OBVIOUS
<1>2. c \in DOMAIN codes /\ codes[c].purpose = "PASSWORD_RESET" /\ key \in Keys
  BY <1>1 DEF ResetCommits, At, GateInv, Holds, SessionInv, SessionsSound, Knows
<1>3. CASE Ends(r) /\ UNCHANGED Rows
  BY <1>3, QuietRows, QuietEnds DEF ResetCommits, Rows, Redis, SessionInv
<1>4. ASSUME codes[c].by = NoOne, codes' = [codes EXCEPT ![c].by = key], Gated(c),
             NEW q, Goes(r, q), q.op = "revoke"
      PROVE  GateInv'
  <2>1. Len(codes') = Len(codes) /\ DOMAIN codes' = DOMAIN codes
    BY <1>2, <1>4, LenProperties DEF SessionInv, Typed
  <2>2. \A d \in DOMAIN codes : codes'[d].purpose = codes[d].purpose /\ codes'[d].by = IF d = c THEN key ELSE codes[d].by
    <3>1. \A d \in DOMAIN codes : codes[d] \in Code
      BY LenProperties DEF SessionInv, Typed
    <3> QED BY <1>2, <1>4, <3>1 DEF Code
  <2>3. UNCHANGED <<tokens, index, handed>>
    BY DEF ResetCommits, Redis
  <2>4. uses[c] = 0 /\ key # NoOne
    BY <1>2, <1>4, NoOneAssumption DEF GateInv, UsesFit
  <2>5. DOMAIN uses = DOMAIN codes /\ uses \in Seq(Nat)
    BY LenProperties DEF SessionInv, Typed, GateInv, UsesFit
  <2>6. /\ uses' \in Seq(Nat) /\ Len(uses') = Len(uses)
        /\ \A d \in DOMAIN codes : uses'[d] = IF d = c THEN 1 ELSE uses[d]
    <3>1. uses' = [uses EXCEPT ![c] = 1]
      BY <1>2, <1>4, <2>4, <2>5 DEF Gated
    <3>2. uses' \in Seq(Nat) /\ Len(uses') = Len(uses)
      BY <1>2, <2>5, <3>1, ExceptSeq
    <3> QED BY <2>5, <3>1, <3>2
  <2>7. TokensFit'
    BY <1>2, <1>4, <2>1, <2>2, <2>3, NoOneAssumption DEF GateInv, TokensFit, TokenRow
  <2>8. UsesFit'
    <3>1. ASSUME NEW d \in DOMAIN codes, d # c
          PROVE  uses'[d] <= 1 /\ (uses'[d] # 0 => codes'[d].by # NoOne /\ (codes'[d].purpose # "PASSWORD_RESET" => Token(d)' \notin tokens'))
      BY <2>2, <2>3, <2>6, <3>1 DEF GateInv, UsesFit, Token
    <3>2. uses'[c] <= 1 /\ codes'[c].by # NoOne /\ codes'[c].purpose = "PASSWORD_RESET"
      BY <1>2, <2>2, <2>4, <2>6
    <3>3. uses' \in Seq(Nat) /\ Len(uses') = Len(codes')
      BY <2>1, <2>6 DEF GateInv, UsesFit
    <3> QED BY <2>1, <3>1, <3>2, <3>3 DEF UsesFit, Token
  <2>9. ASSUME NEW b, Holds(b) PROVE Holds(b)'
    BY <1>2, <2>1, <2>2, <2>3, <2>6, <2>9 DEF Holds, Token, Verifying, Pending
  <2>10. Holds(q)' /\ ~Verifying(q) /\ ~Pending(q)
    BY <1>4 DEF Holds, Verifying, Pending
  <2> QED BY <1>4, <2>7, <2>8, <2>9, <2>10, GateGoes DEF SessionInv
<1>5. \/ Ends(r) /\ UNCHANGED Rows
      \/ /\ codes[c].by = NoOne /\ codes' = [codes EXCEPT ![c].by = key] /\ Gated(c)
         /\ \E q : Goes(r, q) /\ q.op = "revoke"
  BY <1>1 DEF ResetCommits, Consumable
<1> QED BY <1>3, <1>4, <1>5

LEMMA GateQuietSteps ==
  ASSUME SessionInv, GateInv, NEW r \in Requests,
         \/ OpenSession(r) \/ RevokeFinds(r) \/ RevokeDeletes(r)
         \/ \E p \in Phones, password \in Passwords : Login(r, p, password)
         \/ \E s \in sessions : Starts(r, s, "remove") \/ Starts(r, s, "confirm")
         \/ RemovalLocks(r) \/ RemovalCommits(r) \/ ConfirmLocks(r) \/ ConfirmCommits(r) \/ Crash(r)
  PROVE  GateInv'
<1>1. Quietly
  BY QuietRows DEF OpenSession, RevokeFinds, RevokeDeletes, Login, Starts, RemovalLocks, RemovalCommits,
                   ConfirmLocks, ConfirmCommits, Crash, Rows, Redis
<1>2. CASE Ends(r)
  BY <1>1, <1>2, QuietEnds DEF SessionInv
<1>3. ASSUME NEW q, Goes(r, q), q.op \in {"open", "revoke_deletes", "remove", "confirm", "remove_commits", "confirm_commits"}
      PROVE  GateInv'
  <2>1. ~Marked(q)
    BY <1>3 DEF Marked, Verifying, Pending
  <2> QED BY <1>1, <1>3, <2>1, GateUnmarked DEF SessionInv
<1>4. \/ Ends(r)
      \/ \E q : Goes(r, q) /\ q.op \in {"open", "revoke_deletes", "remove", "confirm", "remove_commits", "confirm_commits"}
  <2>1. CASE OpenSession(r) \/ RemovalCommits(r) \/ ConfirmCommits(r) \/ Crash(r)
    BY <2>1 DEF OpenSession, RemovalCommits, ConfirmCommits, Crash
  <2>2. CASE RevokeFinds(r) \/ RevokeDeletes(r)
    BY <2>2 DEF RevokeFinds, RevokeDeletes
  <2>3. CASE \E p \in Phones, password \in Passwords : Login(r, p, password)
    BY <2>3 DEF Login
  <2>4. CASE \E s \in sessions : Starts(r, s, "remove") \/ Starts(r, s, "confirm")
    BY <2>4 DEF Starts
  <2>5. CASE RemovalLocks(r) \/ ConfirmLocks(r)
    <3>1. running[r] \in [op : {"remove", "remove_commits", "confirm", "confirm_commits"}, user : Users]
      BY <2>5 DEF RemovalLocks, ConfirmLocks, At, SessionInv, SessionsSound, Knows
    <3> QED BY <2>5, <3>1 DEF RemovalLocks, ConfirmLocks
  <2> QED BY <2>1, <2>2, <2>3, <2>4, <2>5
<1> QED BY <1>2, <1>3, <1>4

LEMMA GateInit == Init => GateInv
<1> SUFFICES ASSUME Init PROVE GateInv
  OBVIOUS
<1>1. uses \in Seq(Nat) /\ Len(uses) = Len(codes) /\ DOMAIN codes = {}
  BY EmptySeq DEF Init
<1>2. \A r \in Requests : running[r] = Idle
  BY DEF Init
<1> QED BY <1>1, <1>2 DEF Init, GateInv, TokensFit, UsesFit, Apart, Holds, Verifying, Pending, Idle

LEMMA GateStep == SessionInv /\ GateInv /\ [Next]_vars => GateInv'
<1> SUFFICES ASSUME SessionInv, GateInv, [Next]_vars PROVE GateInv'
  OBVIOUS
<1>1. ASSUME NEW r \in Requests,
             \E c \in DOMAIN codes, key \in Keys : VerifyChecks(r, c, key) \/ \E password \in Passwords : ResetChecks(r, c, key, password)
      PROVE  GateInv'
  BY <1>1, GateVerifyChecks, GateResetChecks
<1>2. ASSUME NEW r \in Requests, VerifyCreatesToken(r) \/ VerifyConsumes(r) \/ ResetCommits(r) PROVE GateInv'
  BY <1>2, GateCreates, GateConsumes, GateResets
<1>3. ASSUME NEW r \in Requests,
             \/ \E t \in handed, password \in Passwords : RegisterChecks(r, t, password)
             \/ \E t \in handed : ReactivationChecks(r, t) \/ \E s \in sessions : PhoneChangeChecks(r, s, t)
      PROVE  GateInv'
  BY <1>3, GateChecks
<1>4. ASSUME NEW r \in Requests, RegisterCreates(r) \/ PhoneChangeCommits(r) \/ ReactivationCommits(r) PROVE GateInv'
  BY <1>4, GateCommits
<1>5. ASSUME NEW r \in Requests,
             \/ OpenSession(r) \/ RevokeFinds(r) \/ RevokeDeletes(r)
             \/ \E p \in Phones, password \in Passwords : Login(r, p, password)
             \/ \E s \in sessions : Starts(r, s, "remove") \/ Starts(r, s, "confirm")
             \/ RemovalLocks(r) \/ RemovalCommits(r) \/ ConfirmLocks(r) \/ ConfirmCommits(r) \/ Crash(r)
      PROVE  GateInv'
  BY <1>5, GateQuietSteps
<1>6. ASSUME NEW p \in Phones, NEW purpose \in Purposes, RequestCode(p, purpose) PROVE GateInv'
  BY <1>6, GateIssues
<1>7. ASSUME NEW c \in DOMAIN codes, NEW key \in Keys, VerifyRecovers(c, key) PROVE GateInv'
  BY <1>7, GateRecovers
<1>8. ASSUME NEW c \in DOMAIN codes, CodeExpires(c) PROVE GateInv'
  <2>1. Len(codes') = Len(codes) /\ DOMAIN codes' = DOMAIN codes
    BY <1>8, LenProperties DEF CodeExpires, SessionInv, Typed
  <2>2. \A d \in DOMAIN codes : codes'[d].by = codes[d].by /\ codes'[d].purpose = codes[d].purpose
    <3>1. \A d \in DOMAIN codes : codes[d] \in Code
      BY LenProperties DEF SessionInv, Typed
    <3> QED BY <1>8, <3>1 DEF CodeExpires, Code
  <2>3. Quietly
    BY <1>8, <2>1, <2>2 DEF CodeExpires, Redis, Quietly
  <2> QED BY <1>8, <2>3, GateStands DEF CodeExpires, SessionInv
<1>9. ASSUME \/ \E s \in sessions : Logout(s)
             \/ \E t \in tokens : TokenExpires(t)
             \/ \E u \in Users : OrderFinishes(u) \/ WindowLapses(u)
             \/ UNCHANGED vars
      PROVE  GateInv'
  <2>1. Quietly /\ UNCHANGED running
    BY <1>9, QuietRows DEF Logout, TokenExpires, OrderFinishes, WindowLapses, Rows, Redis, vars
  <2> QED BY <2>1, GateStands DEF SessionInv
<1> QED BY <1>1, <1>2, <1>3, <1>4, <1>5, <1>6, <1>7, <1>8, <1>9 DEF Next

(* One code gates one change and is answered with one token, for any number of  *)
(* codes, keys and overlapping calls (otp-verification.service.ts checkCode(),  *)
(* consume(), findConsumedRecord(); phone-verification-token consume()).        *)
THEOREM CodesGateOneChange == Spec => []OneChangePerCode
<1>1. GateInv => OneChangePerCode
  <2> SUFFICES ASSUME GateInv PROVE OneChangePerCode
    OBVIOUS
  <2>1. \A t \in handed : t = [code |-> t.code, key |-> codes[t.code].by]
    BY DEF GateInv, TokensFit, TokenRow
  <2>2. \A t1, t2 \in handed : t1.code = t2.code => t1 = t2
    BY <2>1
  <2> QED BY <2>2 DEF GateInv, UsesFit, OneChangePerCode
<1> QED BY <1>1, SessionInit, SessionStep, GateInit, GateStep, PTL DEF Spec
=============================================================================
