------------------------------- MODULE Lineage -------------------------------
(***************************************************************************)
(* What can be asked of recorded decisions: WorkflowLineage of             *)
(* core/lineage.py, over all decisions of a WorkflowState, and             *)
(* get_decision_lineage of core/context.py, over those of an               *)
(* ExecutionContext.                                                       *)
(*                                                                         *)
(* A decision is a record with its id, its parent_decision_id, the stage   *)
(* it was made in and its downstream_impacts.  An empty sequence stands    *)
(* for the None of a query that finds nothing.                             *)
(*                                                                         *)
(* The helpers on sequences are written out, as recursive functions where  *)
(* they recurse, so that ScenarioProofs can reason about them.             *)
(***************************************************************************)
EXTENDS Naturals, Sequences

NoId == <<"none", 0>>

\* The first element of seq that passes the test, in a sequence of its own.
FirstOf(seq, Test(_)) ==
    LET hits == {i \in DOMAIN seq : Test(seq[i])}
    IN  IF hits = {} THEN <<>> ELSE <<seq[CHOOSE i \in hits : \A j \in hits : i <= j]>>

\* _decision_by_id, get_decision_by_id
DecisionById(decisions, id) == FirstOf(decisions, LAMBDA d : d.id = id)

\* One turn of the loop of both walks: the decision with the current id joins
\* the chain, root first, and its parent's id is the next.
Climb(decisions, walk) ==
    LET found == DecisionById(decisions, walk.current)
    IN  IF walk.current = NoId \/ found = <<>> THEN walk
        ELSE [current |-> found[1].parent,
              chain   |-> found \o walk.chain,
              seen    |-> walk.seen \cup {walk.current}]

WalkFrom(id) == [current |-> id, chain |-> <<>>, seen |-> {}]

\* A turn of trace_decision_lineage, whose walk ends at an id it has seen.
ClimbUnseen(decisions, walk) ==
    IF walk.current \in walk.seen THEN walk ELSE Climb(decisions, walk)

\* trace_decision_lineage: a turn for every decision is as many as it can take.
TraceDecisionLineage(decisions, id) ==
    LET walk[n \in 0 .. Len(decisions)] ==
            IF n = 0 THEN WalkFrom(id) ELSE ClimbUnseen(decisions, walk[n - 1])
    IN  walk[Len(decisions)].chain

\* get_decision_lineage: the walk ends after max_depth turns, one more than
\* there are decisions.
GetDecisionLineage(decisions, id) ==
    LET walk[n \in 0 .. Len(decisions) + 1] ==
            IF n = 0 THEN WalkFrom(id) ELSE Climb(decisions, walk[n - 1])
    IN  walk[Len(decisions) + 1].chain

\* Mutant: the last match wins.
LastForTransition(decisions, stage) ==
    LET hits == {i \in DOMAIN decisions : stage \in decisions[i].impacts}
    IN  IF hits = {} THEN <<>> ELSE <<decisions[CHOOSE i \in hits : \A j \in hits : j <= i]>>

\* get_decision_for_transition, where no transition names its decision: "the
\* first match wins".
DecisionForTransition(decisions, stage) ==
    FirstOf(decisions, LAMBDA d : stage \in d.impacts)

\* The sequences of seqs, one after the other.
Flattened(seqs) ==
    LET upTo[n \in 0 .. Len(seqs)] == IF n = 0 THEN <<>> ELSE upTo[n - 1] \o seqs[n]
    IN  upTo[Len(seqs)]

\* state.all_decisions, for the stages in the order of state.stages.
AllDecisions(stage_order, decisions) ==
    Flattened([i \in DOMAIN stage_order |-> decisions[stage_order[i]]])

\* A dict's keys without those deleted, the others in their order.
Without(keys, deleted) ==
    Flattened([i \in DOMAIN keys |-> IF keys[i] \in deleted THEN <<>> ELSE <<keys[i]>>])

=============================================================================
