---------------------------- MODULE ReturnsProofs ----------------------------
(***************************************************************************)
(* Proofs about Returns, for any number of items, rows, codes, clerks and  *)
(* ticks, and about its refinement of ItemReturn.                          *)
(***************************************************************************)
EXTENDS ReturnsOfItem, FiniteSetTheorems, TLAPS

\* The constants, as the steps below use them.
LEMMA Constants ==
  /\ IsFiniteSet(Returns)
  /\ WindowDays \in Nat
  /\ ReminderAge \in Nat /\ EscalationAge \in Nat /\ DisputeAge \in Nat
  /\ CodeAge \in Nat /\ ExchangeCodeAge \in Nat
  /\ None \notin Items /\ None \notin Returns /\ None \notin Branches /\ None \notin Codes
BY ReturnsAssumption DEF Ages

\* What a row has in each status.
RowsInv ==
  \A r \in Returns :
    /\ item[r] = None <=> status[r] = "none"
    /\ item[r] # None => outcome[r] \in Outcomes
    /\ item[r] # None /\ outcome[r] = "EXCHANGE" => branch[r] \in Branches
    /\ Live(r) => code[r] \in Codes

\* returns_open_branch_order_item_id_key
OneOpenRow ==
  \A r, s \in Returns :
    item[r] = item[s] /\ status[r] \notin Over /\ status[s] \notin Over => r = s

\* Money and stock have moved for an item only if a row says so.
LedgerInv ==
  \A i \in Items :
    \/ refunds[i] = 0 /\ settlements[i] = 0 /\ restocked[i] = 0
    \/ /\ refunds[i] + settlements[i] = 1
       /\ restocked[i] \in {0, 1}
       /\ IsAmong(i, Settled)

\* A candidate stays one for as long as its row is requested.
TodoInv ==
  \A t \in Ticks : \A r \in todo[t] :
    /\ status[r] # "none"
    /\ phase[t] = "escalate" /\ status[r] = "REQUESTED" => age[r] >= EscalationAge

ReturnsInv ==
  TypeOK /\ RowsInv /\ OneOpenRow /\ LedgerInv /\ HoldsAreLive /\ TodoInv

\* It holds before anything is returned.
LEMMA ReturnsInit == Init => ReturnsInv
<1>. SUFFICES ASSUME Init PROVE ReturnsInv
  OBVIOUS
<1>. USE Constants DEF Init
<1>1. TypeOK
  BY DEF TypeOK, Statuses, Over, Phases
<1>2. RowsInv /\ OneOpenRow /\ TodoInv
  BY DEF RowsInv, OneOpenRow, TodoInv, Live, Over
<1>3. LedgerInv
  BY DEF LedgerInv
<1>4. HoldsAreLive
  <2>1. \A b \in Branches : HoldsAt(b) = {}
    BY DEF HoldsAt, Live
  <2>2. QED
    BY <2>1, FS_EmptySet DEF HoldsAreLive
<1>5. QED
  BY <1>1, <1>2, <1>3, <1>4 DEF ReturnsInv

----------------------------------------------------------------------------
Pending == Timed \cup {"ESCALATED"}

\* One row leaves a status in which somebody still has to act.
Moves(r, to) ==
  /\ status[r] \in Pending
  /\ to \in Statuses \ {"none", "REQUESTED"}
  /\ status' = [status EXCEPT ![r] = to]
  /\ \/ to # "APPROVED_AWAITING_DROPOFF" /\ UNCHANGED code
     \/ \E k \in Codes : code' = [code EXCEPT ![r] = k]
  /\ UNCHANGED <<item, outcome, branch>>

RowsStay == UNCHANGED <<item, status, outcome, code, branch>>

\* A step adds a row, moves one, or leaves all of them as they are.
LEMMA StepShape ==
  ASSUME TypeOK, [Next]_returnVars
  PROVE  \/ RowsStay
         \/ \E r \in Returns, i \in Items, o \in Outcomes, b \in Branches \cup {None} :
              Submit(r, i, o, b)
         \/ \E r \in Returns : \E to \in Statuses : Moves(r, to)
<1>. USE DEF RowsStay, Moves, Pending, Timed, Statuses, Over, Settled, Enter, rowVars, Live
<1>1. CASE UNCHANGED returnVars
  BY <1>1 DEF returnVars
<1>2. CASE Pass \/ \E b \in Branches : Archive(b)
  BY <1>2 DEF Pass, Archive
<1>3. ASSUME NEW r \in Returns, CustomerStep(r) \/ StaffStep(r)
      PROVE  \/ \E i \in Items, o \in Outcomes, b \in Branches \cup {None} : Submit(r, i, o, b)
             \/ \E to \in Statuses : Moves(r, to)
  BY <1>3 DEF CustomerStep, StaffStep, CancelReturn, Dispute, Approve, Reject
<1>4. ASSUME NEW c \in Clerks, RedeemStep(c)
      PROVE  RowsStay \/ \E r \in Returns : \E to \in Statuses : Moves(r, to)
  <2>1. redeeming[c] # None => redeeming[c][1] \in Returns
    BY DEF TypeOK
  <2>2. QED
    BY <1>4, <2>1 DEF RedeemStep, LookUpCode, RefundReturn, FulfilExchange, RedeemRefused,
      StillRedeemable
<1>5. ASSUME NEW t \in Ticks, TickStep(t)
      PROVE  RowsStay \/ \E r \in Returns : \E to \in Statuses : Moves(r, to)
  BY <1>5 DEF TickStep, EnterPhase, TickFails, SweepStep, Take, RemindOnce, EscalateOnce,
    CloseOnce, ExpireOnce, StillRequested, DisputeOver, CodeOver
<1>6. QED
  BY <1>1, <1>2, <1>3, <1>4, <1>5 DEF Next

----------------------------------------------------------------------------
\* One of the held units is that of a row that waits for it.
LEMMA HoldIsCounted ==
  ASSUME ReturnsInv, NEW b \in Branches, NEW r \in HoldsAt(b)
  PROVE  IsFiniteSet(HoldsAt(b)) /\ held[b] \in Nat /\ held[b] > 0
<1>1. IsFiniteSet(HoldsAt(b))
  BY Constants, FS_Subset DEF HoldsAt
<1>2. Cardinality(HoldsAt(b)) \in Nat /\ Cardinality(HoldsAt(b)) # 0
  BY <1>1, FS_CardinalityType, FS_EmptySet
<1>3. QED
  BY <1>1, <1>2 DEF ReturnsInv, HoldsAreLive

\* Every step keeps the types.
LEMMA TypeStep ==
  ASSUME ReturnsInv, [Next]_returnVars
  PROVE  TypeOK'
<1>. USE Constants DEF ReturnsInv, TypeOK, Statuses, Over, Timed, Settled, rowVars, stockVars,
                       moneyVars, tickVars, Enter
<1>1. CASE UNCHANGED returnVars
  BY <1>1 DEF returnVars
<1>2. CASE Pass
  <2>1. \A r \in Returns : LastAge(r) \in Nat
    BY DEF LastAge, CodeLife
  <2>2. age' \in [Returns -> Nat] /\ arrived' \in 0..(WindowDays + 1)
    BY <1>2, <2>1 DEF Pass, Older
  <2>3. QED
    BY <1>2, <2>2 DEF Pass
<1>3. ASSUME NEW r \in Returns, CustomerStep(r) \/ StaffStep(r)
      PROVE  TypeOK'
  <2>1. ASSUME NEW i \in Items, NEW o \in Outcomes, NEW b \in Branches \cup {None},
               Submit(r, i, o, b)
        PROVE  TypeOK'
    BY <2>1 DEF Submit
  <2>2. CASE CancelReturn(r) \/ Dispute(r)
    BY <2>2 DEF CancelReturn, Dispute
  <2>3. CASE Reject(r)
    BY <2>3 DEF Reject
  <2>4. ASSUME NEW k \in Codes, Approve(r, k)
        PROVE  TypeOK'
    <3>1. item[r] # None
      BY <2>4 DEF Approve, RowsInv
    <3>2. held' \in [Branches -> Nat]
      BY <2>4, <3>1 DEF Approve, HoldReplacement, RowsInv
    <3>3. QED
      BY <2>4, <3>2 DEF Approve
  <2>5. QED
    BY <1>3, <2>1, <2>2, <2>3, <2>4 DEF CustomerStep, StaffStep
<1>4. ASSUME NEW b \in Branches, Archive(b)
      PROVE  TypeOK'
  BY <1>4 DEF Archive
<1>5. ASSUME NEW c \in Clerks, RedeemStep(c)
      PROVE  TypeOK'
  <2>1. CASE (\E r \in Returns : LookUpCode(c, r)) \/ RedeemRefused(c)
    BY <2>1 DEF LookUpCode, RedeemRefused, RowsInv
  <2>2. CASE RefundReturn(c)
    <3>1. item[redeeming[c][1]] \in Items
      BY <2>2 DEF RefundReturn, StillRedeemable, Live, RowsInv
    <3>2. QED
      BY <2>2, <3>1 DEF RefundReturn, Receive
  <2>3. CASE FulfilExchange(c)
    <3>1. item[redeeming[c][1]] \in Items /\ branch[redeeming[c][1]] \in Branches
      BY <2>3 DEF FulfilExchange, StillRedeemable, Live, RowsInv
    <3>2. redeeming[c][1] \in HoldsAt(branch[redeeming[c][1]])
      BY <2>3 DEF FulfilExchange, StillRedeemable, HoldsAt
    <3>3. held[branch[redeeming[c][1]]] > 0
      BY <3>1, <3>2, HoldIsCounted
    <3>4. held' \in [Branches -> Nat]
      BY <2>3, <3>1, <3>3 DEF FulfilExchange
    <3>5. QED
      BY <2>3, <3>1, <3>4 DEF FulfilExchange, Receive
  <2>4. QED
    BY <1>5, <2>1, <2>2, <2>3 DEF RedeemStep
<1>6. ASSUME NEW t \in Ticks, TickStep(t)
      PROVE  TypeOK'
  <2>1. CASE EnterPhase(t)
    <3>1. After(phase[t]) \in Phases
      BY DEF After, Phases
    <3>2. Candidates(After(phase[t])) \subseteq Returns
      BY <3>1 DEF Candidates, Phases
    <3>3. QED
      BY <2>1, <3>1, <3>2 DEF EnterPhase
  <2>2. CASE TickFails(t)
    BY <2>2 DEF TickFails, Phases
  <2>3. ASSUME NEW r \in Returns, RemindOnce(t, r)
        PROVE  TypeOK'
    <3>1. reminded' \in [Returns -> BOOLEAN]
      BY <2>3 DEF RemindOnce
    <3>2. QED
      BY <2>3, <3>1 DEF RemindOnce, Take
  <2>4. ASSUME NEW r \in Returns, EscalateOnce(t, r) \/ CloseOnce(t, r)
        PROVE  TypeOK'
    BY <2>4 DEF EscalateOnce, CloseOnce, Take
  <2>5. ASSUME NEW r \in Returns, ExpireOnce(t, r)
        PROVE  TypeOK'
    <3>1. CASE CodeOver(r) /\ outcome[r] = "EXCHANGE"
      <4>1. branch[r] \in Branches
        BY <3>1 DEF CodeOver, Live, RowsInv
      <4>2. r \in HoldsAt(branch[r])
        BY <3>1 DEF CodeOver, HoldsAt
      <4>3. held[branch[r]] > 0
        BY <4>1, <4>2, HoldIsCounted
      <4>4. QED
        BY <2>5, <3>1, <4>1, <4>3 DEF ExpireOnce, Take, ReleaseHold
    <3>2. CASE ~(CodeOver(r) /\ outcome[r] = "EXCHANGE")
      BY <2>5, <3>2 DEF ExpireOnce, Take, ReleaseHold
    <3>3. QED
      BY <3>1, <3>2
  <2>6. QED
    BY <1>6, <2>1, <2>2, <2>3, <2>4, <2>5 DEF TickStep, SweepStep
<1>7. QED
  BY <1>1, <1>2, <1>3, <1>4, <1>5, <1>6 DEF Next

\* A row keeps its item, outcome and branch, and never ceases to exist.
LEMMA RowsStep ==
  ASSUME ReturnsInv, [Next]_returnVars
  PROVE  RowsInv' /\ OneOpenRow'
<1>. USE Constants DEF ReturnsInv, TypeOK, RowsInv, OneOpenRow
<1>1. CASE RowsStay
  BY <1>1 DEF RowsStay, Live
<1>2. ASSUME NEW r \in Returns, NEW i \in Items, NEW o \in Outcomes,
             NEW b \in Branches \cup {None}, Submit(r, i, o, b)
      PROVE  RowsInv' /\ OneOpenRow'
  BY <1>2 DEF Submit, Enter, Blocked, Live
<1>3. ASSUME NEW r \in Returns, NEW to \in Statuses, Moves(r, to)
      PROVE  RowsInv' /\ OneOpenRow'
  <2>1. status[r] \notin Over /\ status[r] # "none" /\ to # "none"
    BY <1>3 DEF Moves, Pending, Timed, Over
  <2>2. OneOpenRow'
    BY <1>3, <2>1 DEF Moves
  <2>3. \A s \in Returns : Live(s)' => code'[s] \in Codes
    BY <1>3 DEF Moves, Live
  <2>4. RowsInv'
    BY <1>3, <2>1, <2>3 DEF Moves
  <2>5. QED
    BY <2>2, <2>4
<1>4. QED
  BY <1>1, <1>2, <1>3, StepShape

\* A refund, or an exchange, is that of the only open row of its item.
LEMMA LedgerStep ==
  ASSUME ReturnsInv, [Next]_returnVars
  PROVE  LedgerInv'
<1>. USE Constants DEF ReturnsInv, TypeOK, LedgerInv, IsAmong
<1>1. CASE UNCHANGED moneyVars
  <2>1. \A i \in Items : IsAmong(i, Settled) => IsAmong(i, Settled)'
    <3>1. CASE RowsStay
      BY <3>1 DEF RowsStay
    <3>2. ASSUME NEW r \in Returns, NEW i \in Items, NEW o \in Outcomes,
                 NEW b \in Branches \cup {None}, Submit(r, i, o, b)
          PROVE  \A j \in Items : IsAmong(j, Settled) => IsAmong(j, Settled)'
      BY <3>2 DEF Submit, Enter
    <3>3. ASSUME NEW r \in Returns, NEW to \in Statuses, Moves(r, to)
          PROVE  \A j \in Items : IsAmong(j, Settled) => IsAmong(j, Settled)'
      BY <3>3 DEF Moves, Pending, Timed, Settled
    <3>4. QED
      BY <3>1, <3>2, <3>3, StepShape
  <2>2. QED
    BY <1>1, <2>1 DEF moneyVars
<1>2. ASSUME NEW c \in Clerks, RefundReturn(c) \/ FulfilExchange(c)
      PROVE  LedgerInv'
  <2>. DEFINE r == redeeming[c][1]
              i == item[r]
  <2>1. r \in Returns /\ Live(r) /\ i \in Items
    BY <1>2 DEF RefundReturn, FulfilExchange, StillRedeemable, RowsInv, Live
  <2>2. ~IsAmong(i, Settled)
    BY <2>1 DEF OneOpenRow, Live, Settled, Over
  <2>3. refunds[i] = 0 /\ settlements[i] = 0 /\ restocked[i] = 0
    BY <2>1, <2>2
  <2>4. status' \in [Returns -> {status[s] : s \in Returns} \cup Settled]
        /\ status'[r] \in Settled /\ item' = item
        /\ \A s \in Returns \ {r} : status'[s] = status[s]
    BY <1>2, <2>1 DEF RefundReturn, FulfilExchange, Enter, Settled
  <2>5. refunds'[i] + settlements'[i] = 1 /\ restocked'[i] \in {0, 1}
    BY <1>2, <2>1, <2>3 DEF RefundReturn, FulfilExchange, Receive
  <2>6. \A j \in Items \ {i} :
          /\ refunds'[j] = refunds[j] /\ settlements'[j] = settlements[j]
          /\ restocked'[j] = restocked[j]
    BY <1>2, <2>1 DEF RefundReturn, FulfilExchange, Receive
  <2>7. QED
    BY <2>1, <2>4, <2>5, <2>6
<1>3. UNCHANGED moneyVars \/ \E c \in Clerks : RefundReturn(c) \/ FulfilExchange(c)
  BY DEF Next, returnVars, Pass, CustomerStep, StaffStep, Submit, CancelReturn, Dispute, Approve,
    Reject, Archive, RedeemStep, LookUpCode, RedeemRefused, TickStep, EnterPhase, TickFails,
    SweepStep, RemindOnce, EscalateOnce, CloseOnce, ExpireOnce, Take
<1>4. QED
  BY <1>1, <1>2, <1>3

----------------------------------------------------------------------------
\* A row that starts or ends to wait for a replacement is counted or not from
\* then on.
LEMMA HoldsStep ==
  ASSUME ReturnsInv, [Next]_returnVars
  PROVE  HoldsAreLive'
<1>. USE Constants DEF ReturnsInv, TypeOK
<1>1. \A b \in Branches : IsFiniteSet(HoldsAt(b))
  BY FS_Subset DEF HoldsAt
<1>2. ASSUME UNCHANGED held,
             \A b \in Branches : HoldsAt(b)' = HoldsAt(b),
             \A b \in archived' \ archived : HoldsAt(b) = {}
      PROVE  HoldsAreLive'
  <2>1. \A b \in archived' : b \in archived \/ HoldsAt(b) = {}
    BY <1>2
  <2>2. QED
    BY <1>2, <2>1, FS_EmptySet DEF HoldsAreLive
<1>3. ASSUME NEW r \in Returns, NEW b \in Branches, branch[r] = b, outcome[r] = "EXCHANGE",
             ~Live(r), b \notin archived, UNCHANGED archived,
             held' = [held EXCEPT ![b] = @ + 1],
             Moves(r, "APPROVED_AWAITING_DROPOFF")
      PROVE  HoldsAreLive'
  <2>1. HoldsAt(b)' = HoldsAt(b) \cup {r} /\ r \notin HoldsAt(b)
    BY <1>3 DEF HoldsAt, Live, Moves
  <2>2. \A d \in Branches \ {b} : HoldsAt(d)' = HoldsAt(d)
    BY <1>3 DEF HoldsAt, Live, Moves
  <2>3. Cardinality(HoldsAt(b)') = Cardinality(HoldsAt(b)) + 1
    BY <1>1, <2>1, FS_AddElement
  <2>4. QED
    BY <1>3, <2>2, <2>3 DEF HoldsAreLive
<1>4. ASSUME NEW r \in Returns, NEW b \in Branches, NEW to \in Statuses, branch[r] = b,
             outcome[r] = "EXCHANGE", Live(r), UNCHANGED archived,
             held' = [held EXCEPT ![b] = @ - 1],
             Moves(r, to), to # "APPROVED_AWAITING_DROPOFF"
      PROVE  HoldsAreLive'
  <2>1. HoldsAt(b)' = HoldsAt(b) \ {r} /\ r \in HoldsAt(b)
    BY <1>4 DEF HoldsAt, Live, Moves
  <2>2. \A d \in Branches \ {b} : HoldsAt(d)' = HoldsAt(d)
    BY <1>4 DEF HoldsAt, Live, Moves
  <2>3. Cardinality(HoldsAt(b)') = Cardinality(HoldsAt(b)) - 1
    BY <1>1, <2>1, FS_RemoveElement
  <2>4. b \notin archived
    BY <2>1, HoldIsCounted DEF HoldsAreLive
  <2>5. QED
    BY <1>4, <2>2, <2>3, <2>4 DEF HoldsAreLive
<1>5. ASSUME UNCHANGED stockVars,
             \/ RowsStay
             \/ \E r \in Returns, to \in Statuses :
                  Moves(r, to) /\ (outcome[r] = "EXCHANGE" =>
                                     ~Live(r) /\ to # "APPROVED_AWAITING_DROPOFF")
      PROVE  HoldsAreLive'
  <2>1. \A b \in Branches : HoldsAt(b)' = HoldsAt(b)
    BY <1>5 DEF HoldsAt, Live, RowsStay, Moves
  <2>2. QED
    BY <1>2, <1>5, <2>1 DEF stockVars
<1>. USE DEF Moves, Pending, Timed, Statuses, Over, Settled, Enter, Live, rowVars, stockVars
<1>6. CASE UNCHANGED returnVars \/ Pass
  BY <1>5, <1>6 DEF returnVars, Pass, RowsStay
<1>7. ASSUME NEW b \in Branches, Archive(b)
      PROVE  HoldsAreLive'
  BY <1>2, <1>7 DEF Archive, HoldsAt
<1>8. ASSUME NEW r \in Returns, CustomerStep(r) \/ StaffStep(r)
      PROVE  HoldsAreLive'
  <2>1. ASSUME NEW i \in Items, NEW o \in Outcomes, NEW b \in Branches \cup {None},
               Submit(r, i, o, b)
        PROVE  HoldsAreLive'
    <3>1. \A d \in Branches : HoldsAt(d)' = HoldsAt(d)
      BY <2>1 DEF Submit, HoldsAt, RowsInv
    <3>2. QED
      BY <1>2, <2>1, <3>1 DEF Submit
  <2>2. CASE CancelReturn(r) \/ Dispute(r) \/ Reject(r)
    BY <1>5, <2>2 DEF CancelReturn, Dispute, Reject
  <2>3. ASSUME NEW k \in Codes, Approve(r, k)
        PROVE  HoldsAreLive'
    <3>1. Moves(r, "APPROVED_AWAITING_DROPOFF")
      BY <2>3 DEF Approve
    <3>2. CASE outcome[r] = "EXCHANGE"
      <4>1. branch[r] \in Branches
        BY <2>3, <3>2 DEF Approve, RowsInv
      <4>2. QED
        BY <1>3, <2>3, <3>1, <3>2, <4>1 DEF Approve, HoldReplacement
    <3>3. CASE outcome[r] # "EXCHANGE"
      <4>1. UNCHANGED stockVars
        BY <2>3, <3>3 DEF Approve, HoldReplacement
      <4>2. QED
        BY <1>5, <3>1, <3>3, <4>1
    <3>4. QED
      BY <3>2, <3>3
  <2>4. QED
    BY <1>8, <2>1, <2>2, <2>3 DEF CustomerStep, StaffStep
<1>9. ASSUME NEW c \in Clerks, RedeemStep(c)
      PROVE  HoldsAreLive'
  <2>1. redeeming[c] # None => redeeming[c][1] \in Returns
    OBVIOUS
  <2>2. CASE (\E r \in Returns : LookUpCode(c, r)) \/ RedeemRefused(c)
    BY <1>5, <2>2 DEF LookUpCode, RedeemRefused, RowsStay
  <2>3. CASE RefundReturn(c)
    BY <1>5, <2>1, <2>3 DEF RefundReturn, StillRedeemable
  <2>4. CASE FulfilExchange(c)
    <3>. DEFINE r == redeeming[c][1]
    <3>1. /\ r \in Returns /\ outcome[r] = "EXCHANGE" /\ Live(r) /\ UNCHANGED archived
          /\ held' = [held EXCEPT ![branch[r]] = @ - 1] /\ Moves(r, "EXCHANGED")
      BY <2>1, <2>4 DEF FulfilExchange, StillRedeemable
    <3>2. branch[r] \in Branches
      BY <3>1 DEF RowsInv
    <3>3. QED
      BY <1>4, <3>1, <3>2
  <2>5. QED
    BY <1>9, <2>2, <2>3, <2>4 DEF RedeemStep
<1>10. ASSUME NEW t \in Ticks, TickStep(t)
      PROVE  HoldsAreLive'
  <2>1. CASE EnterPhase(t) \/ TickFails(t)
    BY <1>5, <2>1 DEF EnterPhase, TickFails, RowsStay
  <2>2. ASSUME NEW r \in Returns, RemindOnce(t, r) \/ EscalateOnce(t, r) \/ CloseOnce(t, r)
        PROVE  HoldsAreLive'
    BY <1>5, <2>2 DEF RemindOnce, EscalateOnce, CloseOnce, Take, RowsStay, StillRequested,
      DisputeOver
  <2>3. ASSUME NEW r \in Returns, ExpireOnce(t, r)
        PROVE  HoldsAreLive'
    <3>1. CASE CodeOver(r) /\ outcome[r] = "EXCHANGE"
      <4>1. /\ Live(r) /\ UNCHANGED archived
            /\ held' = [held EXCEPT ![branch[r]] = @ - 1] /\ Moves(r, "EXPIRED")
        BY <2>3, <3>1 DEF ExpireOnce, Take, CodeOver, ReleaseHold
      <4>2. branch[r] \in Branches
        BY <3>1, <4>1 DEF RowsInv
      <4>3. QED
        BY <1>4, <3>1, <4>1, <4>2
    <3>2. CASE ~CodeOver(r) \/ outcome[r] # "EXCHANGE"
      BY <1>5, <2>3, <3>2 DEF ExpireOnce, Take, ReleaseHold, CodeOver, RowsStay
    <3>3. QED
      BY <3>1, <3>2
  <2>4. QED
    BY <1>10, <2>1, <2>2, <2>3 DEF TickStep, SweepStep
<1>11. QED
  BY <1>6, <1>7, <1>8, <1>9, <1>10 DEF Next

\* A row enters REQUESTED when it is created, before any sweep can see it.
LEMMA TodoStep ==
  ASSUME ReturnsInv, [Next]_returnVars
  PROVE  TodoInv'
<1>. USE Constants DEF ReturnsInv, TypeOK, TodoInv
<1>1. ASSUME UNCHANGED tickVars, UNCHANGED <<status, age>> \/ Pass
      PROVE  TodoInv'
  <2>1. \A r \in Returns : status'[r] = status[r] /\ age'[r] \in Nat /\ age'[r] >= age[r]
    <3>1. \A r \in Returns : LastAge(r) \in Nat
      BY DEF LastAge, CodeLife
    <3>2. QED
      BY <1>1, <3>1 DEF Pass, Older
  <2>2. QED
    BY <1>1, <2>1 DEF tickVars
<1>2. ASSUME NEW r \in Returns, NEW to \in Statuses \ {"none"}, Enter(r, to),
             to # "REQUESTED" \/ status[r] = "none",
             \A t \in Ticks : phase'[t] = phase[t] /\ todo'[t] \subseteq todo[t]
      PROVE  TodoInv'
  BY <1>2 DEF Enter
<1>. USE DEF Statuses, Over, Timed, Settled, rowVars, tickVars
<1>3. CASE UNCHANGED returnVars \/ Pass \/ \E b \in Branches : Archive(b)
  BY <1>1, <1>3 DEF returnVars, Pass, Archive
<1>4. ASSUME NEW r \in Returns, CustomerStep(r) \/ StaffStep(r)
      PROVE  TodoInv'
  BY <1>2, <1>4 DEF CustomerStep, StaffStep, Submit, CancelReturn, Dispute, Approve, Reject,
    RowsInv
<1>5. ASSUME NEW c \in Clerks, RedeemStep(c)
      PROVE  TodoInv'
  <2>1. CASE (\E r \in Returns : LookUpCode(c, r)) \/ RedeemRefused(c)
    BY <1>1, <2>1 DEF LookUpCode, RedeemRefused
  <2>2. CASE RefundReturn(c) \/ FulfilExchange(c)
    BY <1>2, <2>2 DEF RefundReturn, FulfilExchange
  <2>3. QED
    BY <1>5, <2>1, <2>2 DEF RedeemStep
<1>6. ASSUME NEW t \in Ticks, TickStep(t)
      PROVE  TodoInv'
  <2>1. CASE EnterPhase(t) \/ TickFails(t)
    <3>1. \A r \in Candidates(After(phase[t])) :
            /\ r \in Returns /\ status[r] # "none"
            /\ After(phase[t]) = "escalate" => age[r] >= EscalationAge
      BY DEF Candidates, After, Phases, NeedsReminder, DisputeOver, CodeOver, Live
    <3>2. QED
      BY <2>1, <3>1 DEF EnterPhase, TickFails
  <2>2. ASSUME NEW r \in Returns, SweepStep(t, r)
        PROVE  TodoInv'
    <3>1. \A u \in Ticks : phase'[u] = phase[u] /\ todo'[u] \subseteq todo[u]
      BY <2>2 DEF SweepStep, RemindOnce, EscalateOnce, CloseOnce, ExpireOnce, Take
    <3>2. CASE UNCHANGED <<status, age>>
      BY <3>1, <3>2
    <3>3. CASE ~UNCHANGED <<status, age>>
      BY <1>2, <2>2, <3>1, <3>3 DEF SweepStep, RemindOnce, EscalateOnce, CloseOnce, ExpireOnce
    <3>4. QED
      BY <3>2, <3>3
  <2>3. QED
    BY <1>6, <2>1, <2>2 DEF TickStep
<1>7. QED
  BY <1>3, <1>4, <1>5, <1>6 DEF Next

\* Every state of every run is one of these.
LEMMA InductiveInvariant == Spec => []ReturnsInv
<1>1. Init => ReturnsInv
  BY ReturnsInit
<1>2. ReturnsInv /\ [Next]_returnVars => ReturnsInv'
  BY TypeStep, RowsStep, LedgerStep, HoldsStep, TodoStep DEF ReturnsInv
<1>3. QED
  BY <1>1, <1>2, PTL DEF Spec

----------------------------------------------------------------------------
\* The refinement: how an item stands is what its only open row says.

Stand(s) ==
  IF s \in Settled THEN "settled"
  ELSE IF s = "ADMIN_REJECTED" THEN "refused"
  ELSE IF s \in Over THEN "kept" ELSE "open"

Standing == [i \in Items |-> StandingOf(i)]

\* What an item's rows say when one of them is not over, and when all are.
LEMMA StandingIsOfOpenRow ==
  ASSUME ReturnsInv, NEW i \in Items
  PROVE  /\ \A r \in Returns :
              item[r] = i /\ status[r] \notin Over => StandingOf(i) = Stand(status[r])
         /\ (\A r \in Returns : item[r] = i => status[r] \in Over) => StandingOf(i) = "kept"
BY DEF ReturnsInv, TypeOK, OneOpenRow, StandingOf, IsAmong, Stand, Statuses, Over, Timed, Settled

\* The same of the next state.
LEMMA NextStandingIsOfOpenRow ==
  ASSUME ReturnsInv', NEW i \in Items
  PROVE  /\ \A r \in Returns :
              item'[r] = i /\ status'[r] \notin Over => StandingOf(i)' = Stand(status'[r])
         /\ (\A r \in Returns : item'[r] = i => status'[r] \in Over) => StandingOf(i)' = "kept"
BY DEF ReturnsInv, TypeOK, OneOpenRow, StandingOf, IsAmong, Stand, Statuses, Over, Timed, Settled

\* A step changes how one item stands at most, as ItemReturn says it may.
LEMMA StandingStep ==
  ASSUME ReturnsInv, ReturnsInv', [Next]_returnVars
  PROVE  \/ UNCHANGED Standing
         \/ \E i \in Items : \/ OneItem!Open(i) \/ OneItem!Withdraw(i)
                             \/ OneItem!Settle(i) \/ OneItem!Refuse(i)
<1>1. CASE RowsStay
  BY <1>1 DEF RowsStay, Standing, StandingOf, IsAmong
<1>2. ASSUME NEW r \in Returns, NEW i \in Items, NEW to \in Statuses,
             item'[r] = i, status' = [status EXCEPT ![r] = to],
             \A s \in Returns \ {r} : item'[s] = item[s],
             item[r] \in {i, None}
      PROVE  Standing' = [Standing EXCEPT ![i] = StandingOf(i)']
  <2>1. ASSUME NEW j \in Items \ {i}
        PROVE  StandingOf(j)' = StandingOf(j)
    <3>1. \A s \in Returns :
            (item'[s] = j <=> item[s] = j) /\ (item[s] = j => status'[s] = status[s])
      BY <1>2, <2>1, Constants DEF ReturnsInv, TypeOK
    <3>2. ASSUME NEW S
          PROVE  (\E s \in Returns : item'[s] = j /\ status'[s] \in S) <=> IsAmong(j, S)
      BY <3>1 DEF IsAmong
    <3>3. QED
      BY <3>2 DEF StandingOf, IsAmong
  <2>2. QED
    BY <2>1 DEF Standing
<1>3. ASSUME NEW r \in Returns, NEW i \in Items, NEW o \in Outcomes,
             NEW b \in Branches \cup {None}, Submit(r, i, o, b)
      PROVE  OneItem!Open(i)
  <2>1. StandingOf(i) = "kept"
    BY <1>3, StandingIsOfOpenRow DEF Submit, Blocked
  <2>2. item'[r] = i /\ status'[r] = "REQUESTED"
    BY <1>3 DEF Submit, Enter, ReturnsInv, TypeOK
  <2>3. StandingOf(i)' = "open"
    BY <2>2, NextStandingIsOfOpenRow DEF Stand, Settled, Over
  <2>4. Standing' = [Standing EXCEPT ![i] = StandingOf(i)']
    BY <1>2, <1>3, <2>2 DEF Submit, Enter, ReturnsInv, TypeOK, Statuses, Timed
  <2>5. QED
    BY <2>1, <2>3, <2>4 DEF OneItem!Open, OneItem!Move, Standing
<1>4. ASSUME NEW r \in Returns, NEW to \in Statuses, Moves(r, to)
      PROVE  \/ UNCHANGED Standing
             \/ \E i \in Items : \/ OneItem!Withdraw(i) \/ OneItem!Settle(i)
                                 \/ OneItem!Refuse(i)
  <2>. DEFINE i == item[r]
  <2>1. i \in Items /\ item' = item /\ status'[r] = to /\ status[r] \in Pending
    BY <1>4 DEF Moves, Pending, Timed, ReturnsInv, TypeOK, RowsInv
  <2>2. StandingOf(i) = "open"
    BY <2>1, StandingIsOfOpenRow DEF Pending, Timed, Over, Stand, Settled
  <2>3. Standing' = [Standing EXCEPT ![i] = StandingOf(i)']
    BY <1>2, <1>4, <2>1 DEF Moves
  <2>4. StandingOf(i)' = Stand(to)
    <3>1. CASE to \notin Over
      BY <2>1, <3>1, NextStandingIsOfOpenRow
    <3>2. CASE to \in Over
      <4>1. \A s \in Returns : item'[s] = i => status'[s] \in Over
        BY <1>4, <2>1, <3>2 DEF Moves, Pending, Timed, Over, ReturnsInv, OneOpenRow, TypeOK
      <4>2. QED
        BY <2>1, <3>2, <4>1, NextStandingIsOfOpenRow DEF Stand, Over, Settled
    <3>3. QED
      BY <3>1, <3>2
  <2>5. Stand(to) \in {"open", "kept", "settled", "refused"}
    BY DEF Stand
  <2>6. QED
    BY <2>1, <2>2, <2>3, <2>4, <2>5 DEF OneItem!Withdraw, OneItem!Settle, OneItem!Refuse,
      OneItem!Move, Standing
<1>5. QED
  BY <1>1, <1>3, <1>4, StepShape DEF ReturnsInv

----------------------------------------------------------------------------
\* The rows and the counters always have values of their kinds.
THEOREM TypeCorrect == Spec => []TypeOK
<1>1. ReturnsInv => TypeOK
  BY DEF ReturnsInv
<1>2. QED
  BY InductiveInvariant, <1>1, PTL

\* However often an item is submitted, and however many clerks try its codes,
\* it is refunded or exchanged once, and put on a shelf once.
THEOREM ItemsSettleOnce == Spec => []SettledOnce
<1>1. ReturnsInv => SettledOnce
  BY DEF ReturnsInv, TypeOK, LedgerInv, SettledOnce
<1>2. QED
  BY InductiveInvariant, <1>1, PTL

\* approveReturn(), redeem() and expireCodeOnce() keep the reserved stock equal
\* to what approved exchanges wait for, and archiveBranch() strands none.
THEOREM HoldsAreThoseOfRows == Spec => []HoldsAreLive
<1>1. ReturnsInv => HoldsAreLive
  BY DEF ReturnsInv
<1>2. QED
  BY InductiveInvariant, <1>1, PTL

\* What DeadlinesKept says of one row.
OnTime(r) ==
  /\ status[r] = "REQUESTED" /\ status'[r] = "ESCALATED" => age[r] >= EscalationAge
  /\ status'[r] = "REJECTED_CLOSED" /\ status[r] # status'[r] =>
       status[r] = "REJECTED" /\ age[r] >= DisputeAge
  /\ status'[r] = "EXPIRED" /\ status[r] # status'[r] => age[r] >= CodeLife(r)
  /\ status'[r] \in Settled /\ status[r] # status'[r] => age[r] <= CodeLife(r)

\* No sweep and no clerk acts on a row before, or after, the time at which its
\* customer or its branch may count on it.
THEOREM DeadlinesAreKept == Spec => DeadlinesKept
<1>1. ASSUME ReturnsInv, [Next]_returnVars, NEW r \in Returns
      PROVE  OnTime(r)
  <2>. USE <1>1 DEF OnTime, ReturnsInv, TypeOK, Enter, Settled, rowVars
  <2>1. CASE UNCHANGED returnVars \/ Pass \/ \E b \in Branches : Archive(b)
    BY <2>1 DEF returnVars, Pass, Archive
  <2>2. ASSUME NEW s \in Returns, CustomerStep(s) \/ StaffStep(s)
        PROVE  OnTime(r)
    BY <2>2 DEF CustomerStep, StaffStep, Submit, CancelReturn, Dispute, Approve, Reject
  <2>3. ASSUME NEW c \in Clerks, RedeemStep(c)
        PROVE  OnTime(r)
    BY <2>3 DEF RedeemStep, LookUpCode, RefundReturn, FulfilExchange, RedeemRefused,
      StillRedeemable
  <2>4. ASSUME NEW t \in Ticks, TickStep(t)
        PROVE  OnTime(r)
    <3>1. CASE EnterPhase(t) \/ TickFails(t)
      BY <3>1 DEF EnterPhase, TickFails
    <3>2. ASSUME NEW s \in Returns, RemindOnce(t, s) \/ EscalateOnce(t, s)
          PROVE  OnTime(r)
      BY <3>2 DEF RemindOnce, EscalateOnce, Take, StillRequested, TodoInv
    <3>3. ASSUME NEW s \in Returns, CloseOnce(t, s) \/ ExpireOnce(t, s)
          PROVE  OnTime(r)
      BY <3>3 DEF CloseOnce, ExpireOnce, Take, DisputeOver, CodeOver, Live
    <3>4. CASE \E s \in Returns : SweepStep(t, s)
      BY <3>2, <3>3, <3>4 DEF SweepStep
    <3>5. QED
      BY <2>4, <3>1, <3>4 DEF TickStep
  <2>5. QED
    BY <2>1, <2>2, <2>3, <2>4 DEF Next
<1>2. ReturnsInv /\ [Next]_returnVars => [\A r \in Returns : OnTime(r)]_returnVars
  BY <1>1
<1>3. QED
  BY InductiveInvariant, <1>2, PTL DEF Spec, DeadlinesKept, OnTime

\* Every step of the rows is one of ItemReturn, or none: settled and refused
\* items stay so, and one return of an item is open at a time.
THEOREM ReturnsImplementItemReturn == Spec => ItemSpec
<1>1. Init => OneItem!Init
  BY DEF Init, OneItem!Init, StandingOf, IsAmong, Settled, Over
<1>2. ReturnsInv /\ ReturnsInv' /\ [Next]_returnVars => [OneItem!Next]_Standing
  BY StandingStep DEF OneItem!Next
<1>3. QED
  BY <1>1, <1>2, InductiveInvariant, PTL DEF Spec, ItemSpec, OneItem!Spec, Standing
==============================================================================
