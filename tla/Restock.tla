------------------------------ MODULE Restock ------------------------------
(***************************************************************************)
(* Back in stock: every writer that may raise the stock of an offer variant   *)
(* locks its rows at all branches of the vendor, compares what they hold in   *)
(* all before and after, and alerts the customers who saved it.              *)
(***************************************************************************)
EXTENDS Transactions

CONSTANTS Branches, \* of one vendor
          Variants, \* offer variants of that vendor
          Savers,   \* customers
          MaxStock  \* bound: units of a variant at a branch

ASSUME UnitAssumption == MaxStock \in Nat /\ IsFiniteSet(Branches)

VARIABLES open,  \* physical branches that are not archived
          stock, \* quantity, by branch and variant
          saved, \* the customers who saved a variant, or its product
          muted, \* the customers who turned the alert off
          told   \* history: back-in-stock notices a customer was sent, by variant

restock == <<open, stock, saved, muted, told>>

StockRow(b, v) == <<"branch_stock", b, v>>
(* The units of a variant at some branches, as pairs: the sum of the rows.        *)
FleetStock(S, v) == Cardinality(UNION {{b} \X (1..stock[b][v]) : b \in S})

RestockInit ==
  /\ \E b \in Branches : open = {b}
  /\ stock = [b \in Branches |-> [v \in Variants |-> 0]]
  /\ saved = [v \in Variants |-> {}] /\ muted = {}
  /\ told = [v \in Variants |-> [c \in Savers |-> 0]]

\* Slip: only the row that is written is locked.
TargetOnly(b, siblings, vs) == {StockRow(b, v) : v \in vs}
(* lockOffersWideForRestock(): an advisory lock for every row, written or read.  *)
OfferWide(b, siblings, vs) == {StockRow(x, v) : x \in siblings \union {b}, v \in vs}

(***************************************************************************)
(* Writers: units come in at a branch (back), go out (out), or both            *)
(***************************************************************************)
(* The siblings are listed before anything is locked.  What comes in and goes    *)
(* out of one row is one change.                                              *)
Starts(r, op, b, back, out) ==
  Begins(r, [op |-> op, branch |-> b, siblings |-> open \ {b}, back |-> back, out |-> out], {}) /\ UNCHANGED restock

StockMovement(r, b, v) == b \in open /\ Starts(r, "receives", b, {v}, {})
CancelItem(r, b, vs) == vs # {} /\ Starts(r, "receives", b, vs, {})
RedeemReturn(r, b, v) == b \in open /\ Starts(r, "receives", b, {v}, {})
(* An exchange hands the replacement over at the branch that takes the item.     *)
FulfillExchange(r, b, v, w) == b \in open /\ stock[b][w] > 0 /\ Starts(r, "receives", b, {v}, {w})

LocksAndReads(r) ==
  LET q == running[r]
      before == [v \in q.back |-> FleetStock(q.siblings \union {q.branch}, v)]
  IN /\ q.op = "receives"
     /\ Proceeds(r, [op |-> "writes", branch |-> q.branch, siblings |-> q.siblings, back |-> q.back, out |-> q.out, before |-> before],
                 OfferWide(q.branch, q.siblings, q.back \union q.out))
     /\ UNCHANGED restock

(* enqueueFavoriteNotification(): each customer once, whichever way it was saved. *)
Recipients(v) == saved[v] \ muted

Delta(q, v) == (IF v \in q.back THEN 1 ELSE 0) - (IF v \in q.out THEN 1 ELSE 0)
Received(r) ==
  LET q == running[r]
      after == [v \in Variants |-> stock[q.branch][v] + Delta(q, v)]
      alerts == {v \in q.back : q.before[v] = 0 /\ Delta(q, v) > 0}
  IN /\ Commits(r, "writes") /\ FreeFor(r, {StockRow(q.branch, v) : v \in q.back \union q.out})
     /\ \A v \in Variants : after[v] \in 0..MaxStock
     /\ stock' = [stock EXCEPT ![q.branch] = after]
     /\ told' = [v \in Variants |-> [c \in Savers |-> told[v][c] + (IF v \in alerts /\ c \in Recipients(v) THEN 1 ELSE 0)]]
     /\ UNCHANGED <<open, saved, muted>>

(* A sale, a loss, a hand-over: a single row is locked and goes down.           *)
Sells(b, v) ==
  /\ Writes({StockRow(b, v)}) /\ stock[b][v] > 0
  /\ stock' = [stock EXCEPT ![b][v] = @ - 1] /\ UNCHANGED <<open, saved, muted, told>>

(* A branch is added, or archived with what it has.                            *)
BranchChanges(b) ==
  /\ Writes({}) /\ open' = (open \ {b}) \union ({b} \ open) /\ UNCHANGED <<stock, saved, muted, told>>

SavesVariant(c, v) ==
  /\ Writes({}) /\ saved' = [saved EXCEPT ![v] = (@ \ {c}) \union ({c} \ @)] /\ UNCHANGED <<open, stock, muted, told>>
SetPreference(c) ==
  /\ Writes({}) /\ muted' = (muted \ {c}) \union ({c} \ muted) /\ UNCHANGED <<open, stock, saved, told>>

RestockNext ==
  \/ \E r \in Requests :
       \/ LocksAndReads(r) \/ Received(r) \/ (Abandons(r) /\ UNCHANGED restock)
       \/ \E b \in Branches :
            \/ \E v \in Variants :
                 StockMovement(r, b, v) \/ RedeemReturn(r, b, v) \/ \E w \in Variants : FulfillExchange(r, b, v, w)
            \/ \E vs \in SUBSET Variants : CancelItem(r, b, vs)
  \/ \E b \in Branches : BranchChanges(b) \/ \E v \in Variants : Sells(b, v)
  \/ \E c \in Savers : SetPreference(c) \/ \E v \in Variants : SavesVariant(c, v)

RestockSpec == RestockInit /\ NothingRuns /\ [][RestockNext]_<<restock, transactions>>

(***************************************************************************)
(* Properties                                                               *)
(***************************************************************************)
(* Whoever saved a variant hears of it exactly when the vendor, who had none      *)
(* left at any branch, has some again: two branches restocked at once give one    *)
(* notice and not two, and one that leaves another branch's stock unread gives    *)
(* none.  Branches added or archived since the siblings were listed are the       *)
(* exception (lockOffersWideForRestock() and its callers).                      *)
AlertedOncePerRestock ==
  [][\A r \in Requests :
       LET q == running[r]
           fleet == open \union {q.branch}
       IN Received(r) /\ q.siblings = open \ {q.branch} =>
            \A v \in Variants, c \in Savers :
              (told'[v][c] > told[v][c]) <=> (FleetStock(fleet, v) = 0 /\ stock'[q.branch][v] > 0 /\ c \in saved[v] \ muted)]_restock
=============================================================================
