---------------------------- MODULE ReturnsOfItem ----------------------------
(***************************************************************************)
(* Returns implements ItemReturn: how an item stands, read off the rows of *)
(* `returns` that name it.                                                 *)
(***************************************************************************)
EXTENDS Returns

IsAmong(i, S) == \E r \in Returns : item[r] = i /\ status[r] \in S

StandingOf(i) ==
  IF IsAmong(i, Settled) THEN "settled"
  ELSE IF IsAmong(i, {"ADMIN_REJECTED"}) THEN "refused"
  ELSE IF IsAmong(i, Statuses \ Over) THEN "open"
  ELSE "kept"

OneItem == INSTANCE ItemReturn WITH
  standing <- [i \in Items |-> StandingOf(i)]

\* An item refunded, exchanged or finally refused is never returned again ("must
\* never be resubmitted", the migration says), and a return is tried again only
\* when the last came to nothing: whatever the order in which submissions,
\* decisions, redemptions and sweeps commit.
ItemSpec == OneItem!Spec
==============================================================================
