------------------------------ MODULE Settings ------------------------------
(***************************************************************************)
(* Settings with an audit trail: each handler reads the setting, compares,    *)
(* writes it and records what it was and what it became, in one transaction.  *)
(***************************************************************************)
EXTENDS Transactions, Sequences

CONSTANT Values
Unset == "unset"
ASSUME ValueAssumption == Unset \notin Values

SettingKinds == {"branch_minimum", "zone_minimum", "feature_flag", "return_policy", "safety_stock"}

VARIABLES value,  \* the setting stored now
          trail,  \* its rows of the audit log, in the order they were committed
          recent  \* the return policy was changed within the last 180 days

settings == <<value, trail, recent>>

SettingsInit ==
  value = [k \in SettingKinds |-> Unset] /\ trail = [k \in SettingKinds |-> << >>] /\ recent = FALSE

\* Slip: the setting is read before it is locked.
ReadFirst(k) == {}
(* The row of the branch, the vendor or the stock; an advisory lock on the zone   *)
(* or the flag, whose row may not exist yet.                                  *)
SettingLocks(k) == {<<k>>}

Sets(r, k, v) ==
  Begins(r, [op |-> "set", kind |-> k, to |-> v, before |-> value[k]], SettingLocks(k)) /\ UNCHANGED settings

UpdateBranchMinimum(r, v) == Sets(r, "branch_minimum", v)
UpdateZoneMinimum(r, v) == Sets(r, "zone_minimum", v)
SetFlag(r, v) == Sets(r, "feature_flag", v)
UpdateReturnPolicy(r, v) == v # Unset /\ ~recent /\ Sets(r, "return_policy", v)
SetSafetyStock(r, v) == v # Unset /\ Sets(r, "safety_stock", v)

(* A value that is already stored is neither written nor audited; the return      *)
(* policy does not compare.                                                  *)
Changed(r) ==
  LET k == running[r].kind
      before == running[r].before
      after == running[r].to
  IN /\ Commits(r, "set")
     /\ IF before = after /\ k # "return_policy" THEN UNCHANGED settings
        ELSE /\ value' = [value EXCEPT ![k] = after]
             /\ trail' = [trail EXCEPT ![k] = Append(@, [before |-> before, after |-> after])]
             /\ recent' = (recent \/ k = "return_policy")

HalfYearPasses == recent /\ recent' = FALSE /\ UNCHANGED <<transactions, value, trail>>

SettingsNext ==
  \/ \E r \in Requests, v \in Values \union {Unset} :
       UpdateBranchMinimum(r, v) \/ UpdateZoneMinimum(r, v) \/ SetFlag(r, v) \/ UpdateReturnPolicy(r, v) \/ SetSafetyStock(r, v)
  \/ \E r \in Requests : Changed(r) \/ (Abandons(r) /\ UNCHANGED settings)
  \/ HalfYearPasses

SettingsSpec == SettingsInit /\ NothingRuns /\ [][SettingsNext]_<<settings, transactions>>

(* The audit trail of a setting tells how it came to its value: each row starts   *)
(* where the row before it ended, and the last ends at the value stored, whichever *)
(* two requests changed it at once (update(), setFlag(),                       *)
(* setSafetyStockThreshold()).                                               *)
AuditIsAChain ==
  \A k \in SettingKinds :
    LET story == <<[before |-> Unset, after |-> Unset]>> \o trail[k] \o <<[before |-> value[k], after |-> value[k]]>>
    IN \A i \in 2..Len(story) : story[i].before = story[i - 1].after
=============================================================================
