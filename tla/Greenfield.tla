----------------------------- MODULE Greenfield -----------------------------
(***************************************************************************)
(* orchestrator/scenarios/greenfield.py: a URL shortener from scratch, from*)
(* requirements to release, with three planning stages in parallel.        *)
(***************************************************************************)
EXTENDS StageProfile

RequirementsAnalysisStage ==
    [Routine EXCEPT
        !.gives = {"normalized_requirement"},
        !.decides = <<Decision("scope", "none", {"architecture_design", "task_decomposition"})>>,
        !.hands_on = {"scope"},
        !.least = 1]

\* Four ADRs, the first one a child of the scope decision.
ArchitectureDesignStage ==
    [SignificantChange EXCEPT
        !.needs = {"normalized_requirement"},
        !.gives = {"adr_ids"},
        !.decides = <<
            Decision("framework", "scope", {"implementation_planning", "testing_planning"}),
            Decision("database", "framework", {"implementation_planning"}),
            Decision("cache", "database", {"implementation_planning", "testing_planning"}),
            Decision("auth", "framework", {"implementation_planning", "testing_planning",
                                           "documentation_planning"})>>,
        !.hands_on = {"framework", "database", "cache", "auth"},
        !.least = 4]

TaskDecompositionStage ==
    [Routine EXCEPT
        !.needs = {"adr_ids"},
        !.gives = {"task_graph"},
        !.decides = <<Decision("decomposition", "none",
                               {"implementation_planning", "testing_planning",
                                "documentation_planning"})>>,
        !.hands_on = {"decomposition"}]

\* Its first decision names a stage of its own round as downstream.
ImplementationPlanningStage ==
    [Routine EXCEPT
        !.needs = {"task_graph"},
        !.gives = {"implementation_ready"},
        !.decides = <<Decision("structure", "none", {"testing_planning"}),
                      Decision("errors", "none", {})>>]

TestingPlanningStage ==
    [Routine EXCEPT
        !.needs = {"task_graph"},
        !.gives = {"testing_ready"},
        !.decides = <<Decision("test_framework", "none", {}), Decision("coverage", "none", {})>>,
        !.hands_on = {"coverage"}]

DocumentationPlanningStage ==
    [Routine EXCEPT
        !.needs = {"task_graph"},
        !.gives = {"documentation_ready"},
        !.decides = <<Decision("documentation", "none", {})>>]

\* It always finds that everything has passed.
ValidationStage ==
    [Routine EXCEPT
        !.needs = {"implementation_ready", "testing_ready", "documentation_ready"},
        !.gives = {"validation_passed", "critical_failures"}]

ReleaseReadinessStage ==
    [ProductionRelease EXCEPT
        !.needs = {"validation_passed", "critical_failures"},
        !.decides = <<Decision("go_live", "none", {})>>,
        !.hands_on = {"go_live"}]

\* create_greenfield_stages
Profile ==
    [requirements_analysis   |-> RequirementsAnalysisStage,
     architecture_design     |-> ArchitectureDesignStage,
     task_decomposition      |-> TaskDecompositionStage,
     implementation_planning |-> ImplementationPlanningStage,
     testing_planning        |-> TestingPlanningStage,
     documentation_planning  |-> DocumentationPlanningStage,
     validation              |-> ValidationStage,
     release_readiness       |-> ReleaseReadinessStage]

Stages == DOMAIN Profile

Plannings == {"implementation_planning", "testing_planning", "documentation_planning"}

\* Mutant: the synchronisation point does not wait for the documentation.
DependenciesUnsynchronised ==
    {<<"requirements_analysis", "architecture_design">>,
     <<"architecture_design", "task_decomposition">>,
     <<"validation", "release_readiness">>}
    \cup {<<"task_decomposition", p>> : p \in Plannings}
    \cup {<<p, "validation">> : p \in Plannings \ {"documentation_planning"}}

\* create_greenfield_workflow
Dependencies ==
    {<<"requirements_analysis", "architecture_design">>,
     <<"architecture_design", "task_decomposition">>,
     <<"validation", "release_readiness">>}
    \cup {<<"task_decomposition", p>> : p \in Plannings}
    \cup {<<p, "validation">> : p \in Plannings}

=============================================================================
