---------------------------- MODULE WorkflowGraph ----------------------------
(***************************************************************************)
(* orchestrator/core/graph.py: the immutable WorkflowDefinition.           *)
(*                                                                         *)
(* A definition is a set of stages and a set of edges <<from, to>>; stage  *)
(* "to" may start only when stage "from" has completed.  The networkx      *)
(* graph the code caches is the pair (Stages, Dependencies) itself.        *)
(***************************************************************************)
EXTENDS Naturals, FiniteSets

CONSTANTS
    Stages,         \* WorkflowDefinition.stages
    Dependencies    \* WorkflowDefinition.dependencies, as pairs <<from, to>>

-----------------------------------------------------------------------------
(* Validation: what WorkflowDefinition.validate_graph accepts.             *)

\* Every edge joins two declared stages.
EdgesDeclared == Dependencies \subseteq Stages \X Stages

\* nx.is_directed_acyclic_graph: stages can be peeled off one by one, a stage
\* without a remaining predecessor each time.
IsAcyclic ==
    \A S \in SUBSET Stages :
        S # {} => \E s \in S : \A p \in S : <<p, s>> \notin Dependencies

ValidGraph == Stages # {} /\ EdgesDeclared /\ IsAcyclic

-----------------------------------------------------------------------------
(* Topology queries.                                                       *)

Predecessors(s) == {p \in Stages : <<p, s>> \in Dependencies}

\* Mutant: "preds < completed" for "preds <= completed".
ReadyStagesStrict(completed) ==
    {s \in Stages \ completed :
        Predecessors(s) \subseteq completed /\ Predecessors(s) # completed}

\* get_ready_stages(completed): not completed itself, all predecessors are.
ReadyStages(completed) ==
    {s \in Stages \ completed : Predecessors(s) \subseteq completed}

\* get_parallel_groups: the level of a stage is the longest path from a root.
Level[s \in Stages] ==
    LET below == {Level[p] : p \in Predecessors(s)}
    IN  IF below = {} THEN 0 ELSE 1 + CHOOSE m \in below : \A l \in below : l <= m

ParallelGroup(n) == {s \in Stages : Level[s] = n}

=============================================================================
