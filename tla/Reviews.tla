------------------------------- MODULE Reviews -------------------------------
(***************************************************************************)
(* Reviews of what a customer bought, the reports of other customers against *)
(* them, and the administrators who decide on the reports.                   *)
(***************************************************************************)
EXTENDS Transactions

CONSTANTS Items,     \* lines of orders of one customer
          Reporters, \* customers; one of them is the author
          Author

ASSUME AuthorAssumption == Author \in Reporters

Targets == {"PRODUCT", "STORE"}
ReviewIds == Items \X Targets

VARIABLES item,    \* the purchase: completed, cancelled, matched to a canonical product
          status,  \* moderationStatus of a review, "none" before it is submitted
          reports  \* the report of a customer against a review

reviewing == <<item, status, reports>>

ReviewRow(v) == <<"review", v>>
Pending(v) == {c \in Reporters : reports[v][c] = "PENDING"}

ReviewsInit ==
  /\ item = [i \in Items |-> [completed |-> FALSE, cancelled |-> FALSE, matched |-> FALSE]]
  /\ status = [v \in ReviewIds |-> "none"]
  /\ reports = [v \in ReviewIds |-> [c \in Reporters |-> "none"]]

(* Orders complete, lines are cancelled before that, listings are matched.      *)
Purchase(i) ==
  \E after \in [completed : BOOLEAN, cancelled : BOOLEAN, matched : BOOLEAN] :
    /\ after # item[i] /\ ~item[i].completed
    /\ (item[i].cancelled => after.cancelled) /\ (item[i].matched => after.matched) /\ (after.cancelled # item[i].cancelled => ~after.completed)
    /\ item' = [item EXCEPT ![i] = after] /\ UNCHANGED <<transactions, status, reports>>

Reviewable(i, target) == item[i].completed /\ ~item[i].cancelled /\ (target = "PRODUCT" => item[i].matched)

(* submit(): nothing is locked; a second review of its kind is refused by the    *)
(* unique index.                                                             *)
Submit(r, i, target) ==
  Reviewable(i, target) /\ Begins(r, [op |-> "submit", review |-> <<i, target>>], {}) /\ UNCHANGED reviewing

Submitted(r) ==
  /\ Commits(r, "submit") /\ status[running[r].review] = "none"
  /\ status' = [status EXCEPT ![running[r].review] = "VISIBLE"] /\ UNCHANGED <<item, reports>>

\* Slip: a report reads the review without locking it.
Unlocked(v) == {}
ReviewLocks(v) == {ReviewRow(v)}

Report(r, c, v) ==
  /\ status[v] \notin {"none", "HIDDEN"} /\ c # Author
  /\ Begins(r, [op |-> "report", review |-> v, by |-> c, read |-> status[v]], ReviewLocks(v)) /\ UNCHANGED reviewing

(* One report of a customer against a review; the first moves it to REPORTED.    *)
Reported(r) ==
  LET v == running[r].review
  IN /\ Commits(r, "report") /\ reports[v][running[r].by] = "none" /\ FreeFor(r, {ReviewRow(v)})
     /\ reports' = [reports EXCEPT ![v][running[r].by] = "PENDING"]
     /\ status' = [status EXCEPT ![v] = IF running[r].read = "VISIBLE" THEN "REPORTED" ELSE @]
     /\ UNCHANGED item

Decide(r, v, decision) ==
  /\ Pending(v) # {}
  /\ Begins(r, [op |-> "decide", review |-> v, decision |-> decision], ReviewLocks(v)) /\ UNCHANGED reviewing

(* Every pending report at once.                                             *)
Decided(r) ==
  LET v == running[r].review
      upheld == running[r].decision = "uphold"
  IN /\ Commits(r, "decide") /\ FreeFor(r, {ReviewRow(v)})
     /\ reports' = [reports EXCEPT ![v] = [c \in Reporters |-> IF c \in Pending(v) THEN IF upheld THEN "UPHELD" ELSE "DISMISSED" ELSE @[c]]]
     /\ status' = [status EXCEPT ![v] = IF upheld THEN "HIDDEN" ELSE "VISIBLE"]
     /\ UNCHANGED item

ReviewsNext ==
  \/ \E i \in Items : Purchase(i) \/ \E r \in Requests, target \in Targets : Submit(r, i, target)
  \/ \E r \in Requests : Submitted(r) \/ Reported(r) \/ Decided(r) \/ (Abandons(r) /\ UNCHANGED reviewing)
  \/ \E r \in Requests, v \in ReviewIds :
       \/ \E c \in Reporters : Report(r, c, v)
       \/ \E decision \in {"dismiss", "uphold"} : Decide(r, v, decision)

ReviewsSpec == ReviewsInit /\ NothingRuns /\ [][ReviewsNext]_<<reviewing, transactions>>

(***************************************************************************)
(* What the public sees                                                     *)
(***************************************************************************)
Listed == {v \in ReviewIds : status[v] \notin {"none", "HIDDEN"}}
Rated == {v \in Listed : status[v] = "VISIBLE"}
Queue == {v \in ReviewIds : Pending(v) # {}}

(* A review under an open report is shown but not counted in the rating, and     *)
(* only such a review waits so: each is in the queue of the administrators, and  *)
(* nothing hidden is, whoever reports it while they decide (report(), decide(),  *)
(* listReported(), listForProduct(), vendorReviews()).                       *)
ReportedWhilePending == Queue = Listed \ Rated
=============================================================================
