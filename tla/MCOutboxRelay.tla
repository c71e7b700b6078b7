--------------------------- MODULE MCOutboxRelay ---------------------------
(***************************************************************************)
(* A fan-out to three followers in batches of two and a notification of    *)
(* one user, two workers, at most three attempts.                          *)
(***************************************************************************)
EXTENDS OutboxRelay, TLC

CONSTANTS u1, u2, u3

MCRecipients == {u1, u2, u3}
MCEvents == {1, 2}
MCTypeOf == <<"offer.published_for_followers", "branch_order.cancelled">>
MCTo == <<{u1, u2, u3}, {u1}>>
============================================================================
