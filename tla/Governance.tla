----------------------------- MODULE Governance -----------------------------
(***************************************************************************)
(* orchestrator/core/governance.py: the built-in policies and what the     *)
(* PolicyEngine makes of those that fire.                                  *)
(*                                                                         *)
(* An action is what ActionContext carries of a stage: its impact, its     *)
(* type and its metadata, here the set of the keys that are set (and       *)
(* True).  A policy is named by its policy_id.  "USER" stands for a policy *)
(* of the user's own that raises at times and else allows every action.    *)
(***************************************************************************)
EXTENDS Integers

CONSTANTS
    FreezeWindows,  \* CC-003's freeze_windows: pairs <<start, end>>
    MinimumImpact,  \* CC-003's minimum_impact, by its _IMPACT_ORDER
    RaisesAt        \* the times at which the user's policy raises

ASSUME FreezeAssumption ==
    /\ \A window \in FreezeWindows : window \in Int \X Int
    /\ MinimumImpact \in 0 .. 3

MetadataKey == {"security_scan_passed", "pii_data_access", "pii_approved", "high_risk_action",
                "change_ticket_id", "data_deletion", "retention_policy_checked",
                "rollback_plan_documented"}

Action == [impact   : 0 .. 3,
           type     : {"none", "production_release"},
           metadata : SUBSET MetadataKey]

PolicyId == {"SEC-001", "SEC-002", "SEC-003", "COMP-001", "COMP-002",
             "CC-001", "CC-002", "CC-003", "USER"}

-----------------------------------------------------------------------------
(* When each policy fires.                                                 *)

ReleaseUnscanned(action) ==
    action.type = "production_release" /\ "security_scan_passed" \notin action.metadata

PiiUnapproved(action) ==
    "pii_data_access" \in action.metadata /\ "pii_approved" \notin action.metadata

HighRisk(action) == "high_risk_action" \in action.metadata

TicketMissing(action) == action.impact >= 1 /\ "change_ticket_id" \notin action.metadata

RetentionUnchecked(action) ==
    "data_deletion" \in action.metadata /\ "retention_policy_checked" \notin action.metadata

Release(action) == action.type = "production_release"

RollbackPlanMissing(action) ==
    action.impact >= 2 /\ "rollback_plan_documented" \notin action.metadata

\* Mutant: the window's first moment is left out.
InFreezeAfterStart(now) == \E window \in FreezeWindows : window[1] < now /\ now <= window[2]

\* "start <= now <= end", for some window: closed at both ends, although the
\* docstring calls the windows half-open (see FreezeWindowHeld in Approvals).
InFreeze(now) == \E window \in FreezeWindows : window[1] <= now /\ now <= window[2]

Frozen(action, now) == action.impact >= MinimumImpact /\ InFreeze(now)

-----------------------------------------------------------------------------
(* PolicyEngine.evaluate                                                   *)

\* What evaluate() raises makes a policy fire.
Fires(policy, action, now) ==
    CASE policy = "SEC-001"  -> ReleaseUnscanned(action)
      [] policy = "SEC-002"  -> PiiUnapproved(action)
      [] policy = "SEC-003"  -> HighRisk(action)
      [] policy = "COMP-001" -> TicketMissing(action)
      [] policy = "COMP-002" -> RetentionUnchecked(action)
      [] policy = "CC-001"   -> Release(action)
      [] policy = "CC-002"   -> RollbackPlanMissing(action)
      [] policy = "CC-003"   -> Frozen(action, now)
      [] policy = "USER"     -> now \in RaisesAt

\* The enforcement decision of a policy that fires.
Enforcement(policy) ==
    CASE policy = "SEC-003" -> "warn"
      [] policy = "CC-001"  -> "require_approval"
      [] OTHER              -> "block"

Priority == [allow |-> 0, warn |-> 1, require_approval |-> 2, block |-> 3]

\* Mutant: the mildest decision wins.
AggregateMildest(decisions) ==
    IF decisions = {} THEN "allow"
    ELSE CHOOSE d \in decisions : \A e \in decisions : Priority[d] <= Priority[e]

\* _aggregate_decision
AggregateDecision(decisions) ==
    IF decisions = {} THEN "allow"
    ELSE CHOOSE d \in decisions : \A e \in decisions : Priority[d] >= Priority[e]

Evaluate(policies, action, now) ==
    AggregateDecision({Enforcement(p) : p \in {q \in policies : Fires(q, action, now)}})

=============================================================================
