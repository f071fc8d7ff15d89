-------------------------- MODULE AbstractWorkflow --------------------------
(***************************************************************************)
(* What one run of a workflow promises its caller, without rounds, retries *)
(* approvals or recovery: a stage starts only when all its predecessors    *)
(* are done, nothing starts once a stage has failed, what has started      *)
(* settles, and the run ends with one outcome that its stages justify.     *)
(***************************************************************************)
EXTENDS WorkflowGraph

VARIABLES
    progress,   \* [Stages -> {"waiting", "running", "done", "failed"}]
    outcome     \* "open", then the outcome of the run

vars == <<progress, outcome>>

In(p) == {s \in Stages : progress[s] = p}

Init ==
    /\ progress = [s \in Stages |-> "waiting"]
    /\ outcome = "open"

\* Any number of stages whose predecessors are done start together.
Start(S) ==
    /\ outcome = "open"
    /\ In("failed") = {}
    /\ S # {} /\ S \subseteq In("waiting")
    /\ \A s \in S : Predecessors(s) \subseteq In("done")
    /\ progress' = [s \in Stages |-> IF s \in S THEN "running" ELSE progress[s]]
    /\ UNCHANGED outcome

Settle(s) ==
    /\ progress[s] = "running"
    /\ progress' \in {[progress EXCEPT ![s] = p] : p \in {"done", "failed"}}
    /\ UNCHANGED outcome

\* A run without a failed stage ends only when every stage is done; human
\* quality control may still refuse it, or never answer ("lost").
End ==
    /\ outcome = "open"
    /\ In("running") = {}
    /\ outcome' \in IF In("failed") # {} THEN {"failed", "stopped"}
                    ELSE IF In("done") = Stages THEN {"completed", "failed", "lost"}
                    ELSE {}
    /\ UNCHANGED progress

Next ==
    \/ \E S \in SUBSET Stages : Start(S)
    \/ \E s \in Stages : Settle(s)
    \/ End

\* The safety part of Spec: fairness adds that what can go on does.
Safety == Init /\ [][Next]_vars

Spec == Safety /\ WF_vars(Next)

=============================================================================
