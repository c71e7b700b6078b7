------------------------ MODULE NotificationDelivery ------------------------
(***************************************************************************)
(* What the transactional outbox promises its callers: an accepted event   *)
(* notifies its own recipients, at most once each, and nobody else; it is  *)
(* reported published only when every recipient has been notified, and one *)
(* that is given up or published is never worked on again.                 *)
(***************************************************************************)
CONSTANTS Events, Recipients, To

VARIABLES stage, notified
deliveryVars == <<stage, notified>>

Init ==
  /\ stage = [e \in Events |-> "absent"]
  /\ notified = [e \in Events |-> {}]

Accept(e) ==
  /\ stage[e] = "absent"
  /\ stage' = [stage EXCEPT ![e] = "open"]
  /\ UNCHANGED notified

\* Some recipients who were not notified yet are, and the event may end.
Notify(e) ==
  /\ stage[e] = "open"
  /\ \E R \in SUBSET (To[e] \ notified[e]) :
       notified' = [notified EXCEPT ![e] = @ \cup R]
  /\ \/ UNCHANGED stage
     \/ notified'[e] = To[e] /\ stage' = [stage EXCEPT ![e] = "published"]
     \/ stage' = [stage EXCEPT ![e] = "givenUp"]

Next == \E e \in Events : Accept(e) \/ Notify(e)

Spec == Init /\ [][Next]_deliveryVars
=============================================================================
