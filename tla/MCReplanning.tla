---------------------------- MODULE MCReplanning ----------------------------
(***************************************************************************)
(* Two roots a and b and their join c, replanned twice.  a needs approval  *)
(* and falls back to a preset; b is skipped when it fails; c can safe-stop *)
(* the workflow.                                                           *)
(***************************************************************************)
EXTENDS Replanning

CONSTANTS a, b, c

MCStages == {a, b, c}
MCDependencies == {<<a, c>>, <<b, c>>}

MCErrorTypes == {"Exception", "SecurityBreach"}
MCExceptions == {"SecurityBreach"}
MCMro == [e \in MCExceptions |-> {e, "Exception"}]

MCOwnRetryPolicy ==
    [s \in MCStages |->
        CASE s = a -> [DefaultRetryPolicy EXCEPT !.fallback_behavior = "use_preset",
                                                 !.has_fallback_output = TRUE]
          [] s = b -> [DefaultRetryPolicy EXCEPT !.fallback_behavior = "skip"]
          [] OTHER -> [DefaultRetryPolicy EXCEPT !.safe_stop_error_types = {"SecurityBreach"}]]

MCActionImpact == [s \in MCStages |-> IF s = a THEN 2 ELSE 0]
MCPolicyOutcomes == [s \in MCStages |-> {"allow"}]
MCGatewayOutcomes == {"approve", "reject", "raise"}

=============================================================================
