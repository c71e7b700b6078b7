----------------------------- MODULE MCCheckout -----------------------------
(***************************************************************************)
(* What holds a checkout together: the capacity of the delivery slots, and *)
(* the idempotency key of its calls.  They share no state and are explored *)
(* one at a time: a behaviour stays in the part it starts in.              *)
(***************************************************************************)
EXTENDS DeliverySlots, IdempotencyKey, TLC

\* Two windows on one date, and two checkouts that compete for them.
CONSTANTS r1, r2, w1, w2, d1

\* Four calls with the same payload, enough for one of them to lose two takeovers
\* to others, and one that reuses the key.
CONSTANTS k1, k2, k3, k4, k5
MCCalls == {k1, k2, k3, k4, k5}
MCPayloadOf == [c \in MCCalls |-> IF c = k5 THEN "other" ELSE "same"]
Retries == Permutations({k1, k2, k3})

VARIABLE part

\* One initial state of the part that is not explored.
Fixed ==
  /\ part # "slots" => \A w \in Windows : capacity[w] = 1 /\ hours[w] = "morning"
  /\ part # "retries" => kind = "completes"

MCInit == part \in {"slots", "retries"} /\ SlotsInit /\ KeyInit /\ Fixed
SlotsPart == part = "slots" /\ SlotsNext /\ UNCHANGED keyVars
RetriesPart == part = "retries" /\ KeyNext /\ UNCHANGED slotVars
MCNext == (SlotsPart \/ RetriesPart) /\ UNCHANGED part
MCSpec == MCInit /\ [][MCNext]_<<part, slotVars, keyVars>>
=============================================================================
