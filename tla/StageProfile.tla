---------------------------- MODULE StageProfile ----------------------------
(***************************************************************************)
(* The profile of a scenario's stage, a subclass of BaseStage:             *)
(*                                                                         *)
(*   needs, gives   keys its entry gate asks input_data for, and keys of   *)
(*                  output_data that a later stage asks for;               *)
(*   decides        the decisions it appends to its context, in order;     *)
(*   hands_on       titles of decisions whose ids are in its output_data;  *)
(*   least          the number of decisions its exit gate asks for;        *)
(*   approval, impact, type, metadata   its class attributes.              *)
(***************************************************************************)
EXTENDS Naturals, Sequences

\* BaseStage's class attributes and an execute() that appends no decision.
Routine ==
    [needs |-> {}, gives |-> {}, decides |-> <<>>, hands_on |-> {}, least |-> 0,
     approval |-> FALSE, impact |-> 0, type |-> "none", metadata |-> {}]

\* What the scenarios' last stages declare.
ProductionRelease ==
    [needs |-> {}, gives |-> {}, decides |-> <<>>, hands_on |-> {}, least |-> 0,
     approval |-> TRUE, impact |-> 2, type |-> "production_release",
     metadata |-> {"security_scan_passed", "change_ticket_id", "rollback_plan_documented"}]

SignificantChange ==
    [needs |-> {}, gives |-> {}, decides |-> <<>>, hands_on |-> {}, least |-> 0,
     approval |-> TRUE, impact |-> 1, type |-> "none", metadata |-> {"change_ticket_id"}]

\* _decision(title, ..., parent_id, downstream_impacts)
Decision(title, parent, impacts) == [title |-> title, parent |-> parent, impacts |-> impacts]

=============================================================================
