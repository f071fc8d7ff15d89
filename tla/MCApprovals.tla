----------------------------- MODULE MCApprovals -----------------------------
(***************************************************************************)
(* Three stages in one round: a change without approval that the clock may *)
(* freeze, a production release, and a stage that requires approval by its *)
(* class; then a CRITICAL one.  A preset delegate is asked first, then the *)
(* operator.  The user's policy raises after the freeze window.            *)
(***************************************************************************)
EXTENDS Approvals

MCStages == {"change", "release", "manual", "critical"}

MCErrorTypes == {"Exception"}
MCMro == [e \in {} |-> {}]
MCOwnRetryPolicy == [s \in MCStages |-> Inherited]

MCActionImpact ==
    [s \in MCStages |-> CASE s = "change" -> 1 [] s = "release" -> 2
                          [] s = "critical" -> 3 [] OTHER -> 0]
MCStageAction ==
    [s \in MCStages |->
        [impact   |-> MCActionImpact[s],
         type     |-> IF s = "release" THEN "production_release" ELSE "none",
         metadata |-> CASE s = "release" -> {"security_scan_passed", "change_ticket_id",
                                             "rollback_plan_documented"}
                        [] s = "change" -> {"change_ticket_id"}
                        [] OTHER -> {}]]

MCPolicyOutcomes == [s \in MCStages |-> {"allow", "warn", "require_approval", "block"}]
MCPolicies == PolicyId
MCGateways == <<"preset", "human">>
MCPresets == [s \in {"manual"} |-> FALSE]
MCFreezeWindows == {<<1, 2>>}
MCDependencies == {<<"change", "critical">>}

=============================================================================
