-------------------------- MODULE MCWorkflowEngine --------------------------
(***************************************************************************)
(* The diamond a -> {b, c} -> d.  b retries and rolls back; c retries, can *)
(* safe-stop the workflow, is sent to approval by governance now and then  *)
(* and falls back to a preset; d needs approval by its impact and is       *)
(* skipped when it fails; a inherits its retry policy.                     *)
(***************************************************************************)
EXTENDS WorkflowProperties

CONSTANTS a, b, c, d

MCStages == {a, b, c, d}
MCDependencies == {<<a, b>>, <<a, c>>, <<b, d>>, <<c, d>>}

MCErrorTypes == {"Exception", "TimeoutError", "ValueError", "SecurityBreach"}
MCExceptions == {"TimeoutError", "ValueError", "SecurityBreach"}
MCMro == [e \in MCExceptions |-> {e, "Exception"}]

RollbackPolicy ==
    [DefaultRetryPolicy EXCEPT !.max_attempts = 2,
                               !.rollback_on_failure = TRUE,
                               !.non_retryable_error_types = {"ValueError"}]
PresetPolicy ==
    [DefaultRetryPolicy EXCEPT !.max_attempts = 2,
                               !.exit_gate_failure_retryable = FALSE,
                               !.fallback_behavior = "use_preset",
                               !.has_fallback_output = TRUE,
                               !.safe_stop_error_types = {"SecurityBreach"}]
SkipPolicy == [DefaultRetryPolicy EXCEPT !.fallback_behavior = "skip"]

MCOwnRetryPolicy ==
    [s \in MCStages |-> CASE s = b -> RollbackPolicy
                          [] s = c -> PresetPolicy
                          [] s = d -> SkipPolicy
                          [] OTHER -> Inherited]
MCEngineRetryPolicy == [DefaultRetryPolicy EXCEPT !.max_attempts = 2]

MCActionImpact == [s \in MCStages |-> IF s = d THEN 2 ELSE 0]
MCPolicyOutcomes ==
    [s \in MCStages |-> IF s = c THEN {"warn", "require_approval", "block"}
                        ELSE {"allow"}]
MCGatewayOutcomes == {"approve", "reject", "raise"}
MCRollbackOutcomes == {"same", "copy", "raise"}

=============================================================================
