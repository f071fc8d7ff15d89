---------------------------- MODULE MCUnattended ----------------------------
(***************************************************************************)
(* An engine without approval gateway that must obtain a final approval.   *)
(* Two roots a and b, and c after a alone: b can safe-stop the workflow    *)
(* while a retries; a is rolled back when it fails; governance sometimes   *)
(* wants c approved, which nobody can do.                                  *)
(***************************************************************************)
EXTENDS WorkflowEngineProofs

CONSTANTS a, b, c

MCStages == {a, b, c}
MCDependencies == {<<a, c>>}

MCErrorTypes == {"Exception", "TimeoutError", "SecurityBreach"}
MCExceptions == {"TimeoutError", "SecurityBreach"}
MCMro == [e \in MCExceptions |-> {e, "Exception"}]

MCOwnRetryPolicy ==
    [s \in MCStages |->
        CASE s = a -> [DefaultRetryPolicy EXCEPT !.max_attempts = 3,
                                                 !.rollback_on_failure = TRUE]
          [] s = b -> [DefaultRetryPolicy EXCEPT !.max_attempts = 2,
                                                 !.safe_stop_error_types = {"SecurityBreach"}]
          [] OTHER -> Inherited]

MCActionImpact == [s \in MCStages |-> 1]
MCPolicyOutcomes ==
    [s \in MCStages |-> IF s = c THEN {"unevaluated", "require_approval"}
                        ELSE {"unevaluated"}]
MCRollbackOutcomes == {"same"}

=============================================================================
