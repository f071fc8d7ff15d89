----------------------- MODULE ScenarioSettingsProofs -----------------------
(***************************************************************************)
(* What the workflows of the three scenarios are made of: the attributes   *)
(* and decisions of each stage, the edges of each graph, and that the      *)
(* stages of a workflow fit together.  This is where a change of a stage   *)
(* that breaks its workflow shows.                                         *)
(***************************************************************************)
EXTENDS ScenarioSettings, SequenceTheorems, TLAPS

-----------------------------------------------------------------------------
(* The stages' class attributes and what governance says of them.          *)

\* A profile is a record of these nine attributes.
IsProfile(r) ==
    r \in [needs : {r.needs}, gives : {r.gives}, decides : {r.decides}, hands_on : {r.hands_on},
           least : {r.least}, approval : {r.approval}, impact : {r.impact}, type : {r.type},
           metadata : {r.metadata}]

\* A stage that declares an impact documents a change ticket, and one that is a
\* release also its security scan and its rollback plan.
Documented(p) ==
    /\ p.approval \in BOOLEAN
    /\ \/ p.impact = 0 /\ p.type = "none" /\ p.metadata = {}
       \/ p.impact = 1 /\ p.type = "none" /\ p.metadata = {"change_ticket_id"}
       \/ /\ p.impact = 2 /\ p.type = "production_release"
          /\ p.metadata = {"security_scan_passed", "change_ticket_id", "rollback_plan_documented"}

\* Of the built-in policies only the one for releases fires on such a stage.
LEMMA FiresOnRelease ==
    ASSUME NEW p, Documented(p), NEW q \in BuiltIn, Fires(q, p, 0)
    PROVE  q = "CC-001"
<1>1. ~ReleaseUnscanned(p) /\ ~PiiUnapproved(p) /\ ~HighRisk(p)
    BY DEF Documented, ReleaseUnscanned, PiiUnapproved, HighRisk
<1>2. ~TicketMissing(p) /\ ~RetentionUnchecked(p) /\ ~RollbackPlanMissing(p)
    BY DEF Documented, TicketMissing, RetentionUnchecked, RollbackPlanMissing
<1>3. q \in {"SEC-001", "SEC-002", "SEC-003", "COMP-001", "COMP-002", "CC-001", "CC-002"}
    BY DEF BuiltIn, PolicyId
<1> QED
    BY <1>1, <1>2, <1>3 DEF Fires

\* The built-in policies block no stage that is documented.
LEMMA NeverBlocked ==
    ASSUME NEW p, Documented(p)
    PROVE  Evaluate(BuiltIn, p, 0) \in {"allow", "require_approval"}
<1> DEFINE found == {Enforcement(r) : r \in {q \in BuiltIn : Fires(q, p, 0)}}
<1>1. \A d \in found : d = "require_approval"
    BY FiresOnRelease DEF Enforcement
<1>2. CASE found = {}
    BY <1>2 DEF Evaluate, AggregateDecision
<1>3. CASE found # {}
    <2>1. found = {"require_approval"}
        BY <1>1, <1>3
    <2>2. AggregateDecision({"require_approval"}) = "require_approval"
        BY DEF AggregateDecision, Priority
    <2> QED
        BY <2>1, <2>2 DEF Evaluate
<1> QED
    BY <1>2, <1>3

\* What ProfileFits asks of a stage, beside its decisions.
Outline(p, needs, gives, hands_on, least, count) ==
    /\ p.needs = needs /\ p.gives = gives /\ p.hands_on = hands_on /\ p.least = least
    /\ DOMAIN p.decides = 1 .. count /\ Len(p.decides) = count
    /\ p.decides \in Seq({p.decides[i] : i \in DOMAIN p.decides})

\* The i-th decision of a stage.
Says(p, i, title, parent, impacts) ==
    p.decides[i].title = title /\ p.decides[i].parent = parent /\ p.decides[i].impacts = impacts

\* A stage that inherits its class attributes.
SameAttributes(p, r) ==
    p.approval = r.approval /\ p.impact = r.impact /\ p.type = r.type /\ p.metadata = r.metadata

-----------------------------------------------------------------------------
(* How the stages S of a workflow with the edges D and the profiles P fit  *)
(* together, governance deciding E of them.                                *)

\* The predecessors of a stage.
Before(S, D, s) == {p \in S : <<p, s>> \in D}

\* A stage makes a decision of that title, a predecessor hands one on.
Own(P, s, title) == \E i \in DOMAIN P[s].decides : P[s].decides[i].title = title
Handed(S, D, P, s, title) == \E p \in Before(S, D, s) : title \in P[p].hands_on

\* A decision of s names t as downstream.
Naming(P, s, t) == \E i \in DOMAIN P[s].decides : t \in P[s].decides[i].impacts

\* Along the edges there is a way from s to t.
Leads(S, D, s, t) ==
    \A C \in SUBSET S :
        /\ \A u \in S : <<s, u>> \in D => u \in C
        /\ \A r \in C : \A u \in S : <<r, u>> \in D => u \in C
        => t \in C

\* Along an edge, and on along one edge more.
LEMMA LeadsAlong ==
    ASSUME NEW S, NEW D, NEW s \in S, NEW t \in S, <<s, t>> \in D
    PROVE  /\ Leads(S, D, s, t)
           /\ \A r \in S : Leads(S, D, r, s) => Leads(S, D, r, t)
    BY DEF Leads

\* The decisions of a stage are a sequence, its exit gate asks for a number.
DecisionsListed(S, P) ==
    \A s \in S : /\ P[s].decides \in Seq({P[s].decides[i] : i \in DOMAIN P[s].decides})
                 /\ P[s].least \in Nat

\* Predecessors fill what an entry gate asks for, a stage makes the decisions
\* that its exit gate asks for, and governance blocks none.
GatesContent(S, D, P, E) ==
    \A s \in S :
        /\ P[s].needs \subseteq UNION {P[p].gives : p \in Before(S, D, s)}
        /\ P[s].least <= Len(P[s].decides)
        /\ "block" \notin E[s]

\* No two decisions have the same title.
TitlesDistinct(S, P) ==
    \A s \in S : \A i \in DOMAIN P[s].decides :
        /\ P[s].decides[i].title # "none"
        /\ \A t \in S : \A j \in DOMAIN P[t].decides :
               P[s].decides[i].title = P[t].decides[j].title => s = t /\ i = j

\* A parent is an earlier decision of the same stage, or handed on to it.
ParentsKnown(S, D, P) ==
    \A s \in S : \A i \in DOMAIN P[s].decides :
        LET parent == P[s].decides[i].parent IN
        \/ parent = "none"
        \/ \E j \in DOMAIN P[s].decides : j < i /\ P[s].decides[j].title = parent
        \/ ~Own(P, s, parent) /\ Handed(S, D, P, s, parent)

\* A stage hands on what it has.
HandedOnHeld(S, D, P) ==
    \A s \in S : \A title \in P[s].hands_on : Own(P, s, title) \/ Handed(S, D, P, s, title)

\* A stage that names one of its own round is not the first to name it.
DriversUpstream(S, D, P) ==
    \A s \in S : \A t \in S : Naming(P, s, t) =>
        \/ Leads(S, D, s, t)
        \/ \E u \in Before(S, D, s) : Naming(P, u, t) /\ Leads(S, D, u, t)

-----------------------------------------------------------------------------
(* Greenfield.                                                             *)

\* The class attributes that its stages start from.
LEMMA GKinds ==
    /\ IsProfile(G!Routine) /\ Documented(G!Routine)
    /\ IsProfile(G!ProductionRelease) /\ Documented(G!ProductionRelease)
    /\ IsProfile(G!SignificantChange) /\ Documented(G!SignificantChange)
    /\ \A r \in {G!Routine, G!ProductionRelease, G!SignificantChange} :
           r.needs = {} /\ r.gives = {} /\ r.decides = <<>> /\ r.hands_on = {} /\ r.least = 0
    BY DEF IsProfile, Documented, G!Routine, G!ProductionRelease, G!SignificantChange

\* RequirementsAnalysisStage: what it asks for, fills, hands on and decides.
LEMMA GRequirementsAnalysis ==
    LET p == GProfile["requirements_analysis"] IN
    /\ Documented(p)
    /\ Outline(p, {},
                  {"normalized_requirement"},
                  {"scope"}, 1, 1)
    /\ Says(p, 1, "scope", "none", {"architecture_design", "task_decomposition"})
<1> DEFINE p == GProfile["requirements_analysis"]
<1>1. p = G!RequirementsAnalysisStage
    BY DEF GProfile, G!Profile
<1>2. /\ p.needs = {}
      /\ p.gives = {"normalized_requirement"}
      /\ p.hands_on = {"scope"}
      /\ p.least = 1
      /\ p.decides = <<G!Decision("scope", "none",
                         {"architecture_design", "task_decomposition"})>>
      /\ SameAttributes(p, G!Routine)
    BY <1>1, GKinds DEF IsProfile, SameAttributes, G!RequirementsAnalysisStage
<1> HIDE DEF p
<1>3. Documented(p)
    BY <1>2, GKinds DEF Documented, SameAttributes
<1>4. Outline(p, {},
                 {"normalized_requirement"},
                 {"scope"}, 1, 1)
    BY <1>2 DEF Outline
<1>5. Says(p, 1, "scope", "none", {"architecture_design", "task_decomposition"})
    BY <1>2 DEF Says, G!Decision
<1> QED
    BY <1>3, <1>4, <1>5 DEF p

\* ArchitectureDesignStage: what it asks for, fills, hands on and decides.
LEMMA GArchitectureDesign ==
    LET p == GProfile["architecture_design"] IN
    /\ Documented(p)
    /\ Outline(p, {"normalized_requirement"},
                  {"adr_ids"},
                  {"framework", "database", "cache", "auth"}, 4, 4)
    /\ Says(p, 1, "framework", "scope", {"implementation_planning", "testing_planning"})
    /\ Says(p, 2, "database", "framework", {"implementation_planning"})
    /\ Says(p, 3, "cache", "database", {"implementation_planning", "testing_planning"})
    /\ Says(p, 4, "auth", "framework",
                {"implementation_planning", "testing_planning", "documentation_planning"})
<1> DEFINE p == GProfile["architecture_design"]
<1>1. p = G!ArchitectureDesignStage
    BY DEF GProfile, G!Profile
<1>2. /\ p.needs = {"normalized_requirement"}
      /\ p.gives = {"adr_ids"}
      /\ p.hands_on = {"framework", "database", "cache", "auth"}
      /\ p.least = 4
      /\ p.decides = <<
             G!Decision("framework", "scope", {"implementation_planning", "testing_planning"}),
             G!Decision("database", "framework", {"implementation_planning"}),
             G!Decision("cache", "database", {"implementation_planning", "testing_planning"}),
             G!Decision("auth", "framework", {"implementation_planning", "testing_planning",
                                              "documentation_planning"})>>
      /\ SameAttributes(p, G!SignificantChange)
    BY <1>1, GKinds DEF IsProfile, SameAttributes, G!ArchitectureDesignStage
<1> HIDE DEF p
<1>3. Documented(p)
    BY <1>2, GKinds DEF Documented, SameAttributes
<1>4. Outline(p, {"normalized_requirement"},
                 {"adr_ids"},
                 {"framework", "database", "cache", "auth"}, 4, 4)
    BY <1>2 DEF Outline
<1>5. /\ Says(p, 1, "framework", "scope", {"implementation_planning", "testing_planning"})
      /\ Says(p, 2, "database", "framework", {"implementation_planning"})
      /\ Says(p, 3, "cache", "database", {"implementation_planning", "testing_planning"})
      /\ Says(p, 4, "auth", "framework",
                {"implementation_planning", "testing_planning", "documentation_planning"})
    BY <1>2 DEF Says, G!Decision
<1> QED
    BY <1>3, <1>4, <1>5 DEF p

\* TaskDecompositionStage: what it asks for, fills, hands on and decides.
LEMMA GTaskDecomposition ==
    LET p == GProfile["task_decomposition"] IN
    /\ Documented(p)
    /\ Outline(p, {"adr_ids"},
                  {"task_graph"},
                  {"decomposition"}, 0, 1)
    /\ Says(p, 1, "decomposition", "none",
                {"implementation_planning", "testing_planning", "documentation_planning"})
<1> DEFINE p == GProfile["task_decomposition"]
<1>1. p = G!TaskDecompositionStage
    BY DEF GProfile, G!Profile
<1>2. /\ p.needs = {"adr_ids"}
      /\ p.gives = {"task_graph"}
      /\ p.hands_on = {"decomposition"}
      /\ p.least = 0
      /\ p.decides = <<G!Decision("decomposition", "none",
                         {"implementation_planning", "testing_planning",
                          "documentation_planning"})>>
      /\ SameAttributes(p, G!Routine)
    BY <1>1, GKinds DEF IsProfile, SameAttributes, G!TaskDecompositionStage
<1> HIDE DEF p
<1>3. Documented(p)
    BY <1>2, GKinds DEF Documented, SameAttributes
<1>4. Outline(p, {"adr_ids"},
                 {"task_graph"},
                 {"decomposition"}, 0, 1)
    BY <1>2 DEF Outline
<1>5. Says(p, 1, "decomposition", "none",
                {"implementation_planning", "testing_planning", "documentation_planning"})
    BY <1>2 DEF Says, G!Decision
<1> QED
    BY <1>3, <1>4, <1>5 DEF p

\* ImplementationPlanningStage: what it asks for, fills, hands on and decides.
LEMMA GImplementationPlanning ==
    LET p == GProfile["implementation_planning"] IN
    /\ Documented(p)
    /\ Outline(p, {"task_graph"},
                  {"implementation_ready"},
                  {}, 0, 2)
    /\ Says(p, 1, "structure", "none", {"testing_planning"})
    /\ Says(p, 2, "errors", "none", {})
<1> DEFINE p == GProfile["implementation_planning"]
<1>1. p = G!ImplementationPlanningStage
    BY DEF GProfile, G!Profile
<1>2. /\ p.needs = {"task_graph"}
      /\ p.gives = {"implementation_ready"}
      /\ p.hands_on = {}
      /\ p.least = 0
      /\ p.decides = <<
             G!Decision("structure", "none", {"testing_planning"}),
             G!Decision("errors", "none", {})>>
      /\ SameAttributes(p, G!Routine)
    BY <1>1, GKinds DEF IsProfile, SameAttributes, G!ImplementationPlanningStage
<1> HIDE DEF p
<1>3. Documented(p)
    BY <1>2, GKinds DEF Documented, SameAttributes
<1>4. Outline(p, {"task_graph"},
                 {"implementation_ready"},
                 {}, 0, 2)
    BY <1>2 DEF Outline
<1>5. /\ Says(p, 1, "structure", "none", {"testing_planning"})
      /\ Says(p, 2, "errors", "none", {})
    BY <1>2 DEF Says, G!Decision
<1> QED
    BY <1>3, <1>4, <1>5 DEF p

\* TestingPlanningStage: what it asks for, fills, hands on and decides.
LEMMA GTestingPlanning ==
    LET p == GProfile["testing_planning"] IN
    /\ Documented(p)
    /\ Outline(p, {"task_graph"},
                  {"testing_ready"},
                  {"coverage"}, 0, 2)
    /\ Says(p, 1, "test_framework", "none", {})
    /\ Says(p, 2, "coverage", "none", {})
<1> DEFINE p == GProfile["testing_planning"]
<1>1. p = G!TestingPlanningStage
    BY DEF GProfile, G!Profile
<1>2. /\ p.needs = {"task_graph"}
      /\ p.gives = {"testing_ready"}
      /\ p.hands_on = {"coverage"}
      /\ p.least = 0
      /\ p.decides = <<
             G!Decision("test_framework", "none", {}),
             G!Decision("coverage", "none", {})>>
      /\ SameAttributes(p, G!Routine)
    BY <1>1, GKinds DEF IsProfile, SameAttributes, G!TestingPlanningStage
<1> HIDE DEF p
<1>3. Documented(p)
    BY <1>2, GKinds DEF Documented, SameAttributes
<1>4. Outline(p, {"task_graph"},
                 {"testing_ready"},
                 {"coverage"}, 0, 2)
    BY <1>2 DEF Outline
<1>5. /\ Says(p, 1, "test_framework", "none", {})
      /\ Says(p, 2, "coverage", "none", {})
    BY <1>2 DEF Says, G!Decision
<1> QED
    BY <1>3, <1>4, <1>5 DEF p

\* DocumentationPlanningStage: what it asks for, fills, hands on and decides.
LEMMA GDocumentationPlanning ==
    LET p == GProfile["documentation_planning"] IN
    /\ Documented(p)
    /\ Outline(p, {"task_graph"},
                  {"documentation_ready"},
                  {}, 0, 1)
    /\ Says(p, 1, "documentation", "none", {})
<1> DEFINE p == GProfile["documentation_planning"]
<1>1. p = G!DocumentationPlanningStage
    BY DEF GProfile, G!Profile
<1>2. /\ p.needs = {"task_graph"}
      /\ p.gives = {"documentation_ready"}
      /\ p.hands_on = {}
      /\ p.least = 0
      /\ p.decides = <<G!Decision("documentation", "none", {})>>
      /\ SameAttributes(p, G!Routine)
    BY <1>1, GKinds DEF IsProfile, SameAttributes, G!DocumentationPlanningStage
<1> HIDE DEF p
<1>3. Documented(p)
    BY <1>2, GKinds DEF Documented, SameAttributes
<1>4. Outline(p, {"task_graph"},
                 {"documentation_ready"},
                 {}, 0, 1)
    BY <1>2 DEF Outline
<1>5. Says(p, 1, "documentation", "none", {})
    BY <1>2 DEF Says, G!Decision
<1> QED
    BY <1>3, <1>4, <1>5 DEF p

\* ValidationStage: what it asks for, fills, hands on and decides.
LEMMA GValidation ==
    LET p == GProfile["validation"] IN
    /\ Documented(p)
    /\ Outline(p, {"implementation_ready", "testing_ready", "documentation_ready"},
                  {"validation_passed", "critical_failures"},
                  {}, 0, 0)
<1> DEFINE p == GProfile["validation"]
<1>1. p = G!ValidationStage
    BY DEF GProfile, G!Profile
<1>2. /\ p.needs = {"implementation_ready", "testing_ready", "documentation_ready"}
      /\ p.gives = {"validation_passed", "critical_failures"}
      /\ p.hands_on = {}
      /\ p.least = 0
      /\ p.decides = <<>>
      /\ SameAttributes(p, G!Routine)
    BY <1>1, GKinds DEF IsProfile, SameAttributes, G!ValidationStage
<1> HIDE DEF p
<1>3. Documented(p)
    BY <1>2, GKinds DEF Documented, SameAttributes
<1>4. Outline(p, {"implementation_ready", "testing_ready", "documentation_ready"},
                 {"validation_passed", "critical_failures"},
                 {}, 0, 0)
    BY <1>2 DEF Outline
<1> QED
    BY <1>3, <1>4 DEF p

\* ReleaseReadinessStage: what it asks for, fills, hands on and decides.
LEMMA GReleaseReadiness ==
    LET p == GProfile["release_readiness"] IN
    /\ Documented(p)
    /\ Outline(p, {"validation_passed", "critical_failures"},
                  {},
                  {"go_live"}, 0, 1)
    /\ Says(p, 1, "go_live", "none", {})
<1> DEFINE p == GProfile["release_readiness"]
<1>1. p = G!ReleaseReadinessStage
    BY DEF GProfile, G!Profile
<1>2. /\ p.needs = {"validation_passed", "critical_failures"}
      /\ p.gives = {}
      /\ p.hands_on = {"go_live"}
      /\ p.least = 0
      /\ p.decides = <<G!Decision("go_live", "none", {})>>
      /\ SameAttributes(p, G!ProductionRelease)
    BY <1>1, GKinds DEF IsProfile, SameAttributes, G!ReleaseReadinessStage
<1> HIDE DEF p
<1>3. Documented(p)
    BY <1>2, GKinds DEF Documented, SameAttributes
<1>4. Outline(p, {"validation_passed", "critical_failures"},
                 {},
                 {"go_live"}, 0, 1)
    BY <1>2 DEF Outline
<1>5. Says(p, 1, "go_live", "none", {})
    BY <1>2 DEF Says, G!Decision
<1> QED
    BY <1>3, <1>4, <1>5 DEF p
-----------------------------------------------------------------------------
(* Brownfield.                                                             *)

\* The stages of the workflow.
LEMMA GStagesAre ==
    GStages = {"requirements_analysis", "architecture_design", "task_decomposition",
                "implementation_planning", "testing_planning", "documentation_planning",
                "validation", "release_readiness"}
    BY DEF GStages, G!Stages, G!Profile

\* Its edges, all between its stages.
LEMMA GEdges ==
    /\ \A p, s : <<p, s>> \in GDependencies <=>
           \/ p = "requirements_analysis" /\ s = "architecture_design"
           \/ p = "architecture_design" /\ s = "task_decomposition"
           \/ p = "task_decomposition" /\ s \in G!Plannings
           \/ p \in G!Plannings /\ s = "validation"
           \/ p = "validation" /\ s = "release_readiness"
    /\ GDependencies \subseteq GStages \X GStages
<1>1. \A p, s : <<p, s>> \in GDependencies <=>
          \/ p = "requirements_analysis" /\ s = "architecture_design"
          \/ p = "architecture_design" /\ s = "task_decomposition"
          \/ p = "task_decomposition" /\ s \in G!Plannings
          \/ p \in G!Plannings /\ s = "validation"
          \/ p = "validation" /\ s = "release_readiness"
    BY DEF GDependencies, G!Dependencies, G!Plannings
<1>2. GDependencies \subseteq GStages \X GStages
    BY GStagesAre DEF GDependencies, G!Dependencies, G!Plannings
<1> QED
    BY <1>1, <1>2

\* A list of the stages: they are finitely many.
LEMMA GListed ==
    \E listed \in Seq(GStages) : \A s \in GStages : \E i \in 1 .. Len(listed) : listed[i] = s
<1> DEFINE listed == <<"requirements_analysis", "architecture_design", "task_decomposition",
                        "implementation_planning", "testing_planning",
                        "documentation_planning", "validation", "release_readiness">>
<1>1. listed \in Seq(GStages) /\ \A s \in GStages : \E i \in 1 .. Len(listed) : listed[i] = s
    BY GStagesAre
<1> QED
    BY <1>1

\* The stages can be peeled off from the first to the last.
LEMMA GAcyclic ==
    ASSUME NEW S \in SUBSET GStages, S # {}
    PROVE  \E s \in S : \A p \in S : <<p, s>> \notin GDependencies
<1>1. CASE "requirements_analysis" \in S
    BY <1>1, GEdges DEF G!Plannings
<1>2. CASE "architecture_design" \in S
          /\ S \cap {"requirements_analysis"} = {}
    BY <1>2, GEdges DEF G!Plannings
<1>3. CASE "task_decomposition" \in S
          /\ S \cap {"requirements_analysis", "architecture_design"} = {}
    BY <1>3, GEdges DEF G!Plannings
<1>4. CASE "implementation_planning" \in S
          /\ S \cap {"requirements_analysis", "architecture_design", "task_decomposition"} = {}
    BY <1>4, GEdges DEF G!Plannings
<1>5. CASE "testing_planning" \in S
          /\ S \cap {"requirements_analysis", "architecture_design", "task_decomposition",
                      "implementation_planning"} = {}
    BY <1>5, GEdges DEF G!Plannings
<1>6. CASE "documentation_planning" \in S
          /\ S \cap {"requirements_analysis", "architecture_design", "task_decomposition",
                      "implementation_planning", "testing_planning"} = {}
    BY <1>6, GEdges DEF G!Plannings
<1>7. CASE "validation" \in S
          /\ S \cap {"requirements_analysis", "architecture_design", "task_decomposition",
                      "implementation_planning", "testing_planning",
                      "documentation_planning"} = {}
    BY <1>7, GEdges DEF G!Plannings
<1>8. CASE "release_readiness" \in S
          /\ S \cap {"requirements_analysis", "architecture_design", "task_decomposition",
                      "implementation_planning", "testing_planning", "documentation_planning",
                      "validation"} = {}
    BY <1>8, GEdges DEF G!Plannings
<1> QED
    BY GStagesAre, <1>1, <1>2, <1>3, <1>4, <1>5, <1>6, <1>7, <1>8

\* The predecessors of each stage.
LEMMA GBefore ==
    /\ Before(GStages, GDependencies, "requirements_analysis") = {}
    /\ Before(GStages, GDependencies, "architecture_design") = {"requirements_analysis"}
    /\ Before(GStages, GDependencies, "task_decomposition") = {"architecture_design"}
    /\ Before(GStages, GDependencies, "implementation_planning") = {"task_decomposition"}
    /\ Before(GStages, GDependencies, "testing_planning") = {"task_decomposition"}
    /\ Before(GStages, GDependencies, "documentation_planning") = {"task_decomposition"}
    /\ Before(GStages, GDependencies, "validation") = G!Plannings
    /\ Before(GStages, GDependencies, "release_readiness") = {"validation"}
    BY GStagesAre, GEdges DEF Before, G!Plannings

\* The gates of every stage are content.
LEMMA GGatesContent == GatesContent(GStages, GDependencies, GProfile, GEvaluations)
<1>1. ASSUME NEW s \in GStages
      PROVE  /\ Documented(GProfile[s])
             /\ GProfile[s].needs \subseteq
                    UNION {GProfile[p].gives : p \in Before(GStages, GDependencies, s)}
             /\ GProfile[s].least <= Len(GProfile[s].decides)
    <2>1. CASE s = "requirements_analysis"
        BY <2>1, GRequirementsAnalysis DEF Outline
    <2>2. CASE s = "architecture_design"
        BY <2>2, GArchitectureDesign, GRequirementsAnalysis, GBefore DEF Outline
    <2>3. CASE s = "task_decomposition"
        BY <2>3, GTaskDecomposition, GArchitectureDesign, GBefore DEF Outline
    <2>4. CASE s = "implementation_planning"
        BY <2>4, GImplementationPlanning, GTaskDecomposition, GBefore DEF Outline
    <2>5. CASE s = "testing_planning"
        BY <2>5, GTestingPlanning, GTaskDecomposition, GBefore DEF Outline
    <2>6. CASE s = "documentation_planning"
        BY <2>6, GDocumentationPlanning, GTaskDecomposition, GBefore DEF Outline
    <2>7. CASE s = "validation"
        <3> DEFINE handed == UNION {GProfile[p].gives : p \in Before(GStages, GDependencies, s)}
        <3>1. \A p \in G!Plannings : GProfile[p].gives \subseteq handed
            BY <2>7, GBefore
        <3>2. GProfile[s].needs \subseteq handed
            <4> HIDE DEF handed
            <4> QED
                BY <2>7, <3>1, GValidation, GImplementationPlanning, GTestingPlanning,
                   GDocumentationPlanning DEF Outline, G!Plannings
        <3> QED
            BY <2>7, <3>2, GValidation DEF Outline
    <2>8. CASE s = "release_readiness"
        BY <2>8, GReleaseReadiness, GValidation, GBefore DEF Outline
    <2> QED
        BY GStagesAre, <2>1, <2>2, <2>3, <2>4, <2>5, <2>6, <2>7, <2>8
<1>2. ASSUME NEW s \in GStages
      PROVE  "block" \notin GEvaluations[s]
    <2>1. GEvaluations[s] = {Evaluate(BuiltIn, GProfile[s], 0)}
        BY DEF GEvaluations, Evaluations, GStages, G!Stages, GProfile
    <2> QED
        BY <1>1, <2>1, NeverBlocked
<1> QED
    BY <1>1, <1>2 DEF GatesContent

\* No two decisions have the same title: each is found where it is made.
LEMMA GTitlesDistinct == TitlesDistinct(GStages, GProfile)
<1> DEFINE made == [
           scope          |-> <<"requirements_analysis", 1>>,
           framework      |-> <<"architecture_design", 1>>,
           database       |-> <<"architecture_design", 2>>,
           cache          |-> <<"architecture_design", 3>>,
           auth           |-> <<"architecture_design", 4>>,
           decomposition  |-> <<"task_decomposition", 1>>,
           structure      |-> <<"implementation_planning", 1>>,
           errors         |-> <<"implementation_planning", 2>>,
           test_framework |-> <<"testing_planning", 1>>,
           coverage       |-> <<"testing_planning", 2>>,
           documentation  |-> <<"documentation_planning", 1>>,
           go_live        |-> <<"release_readiness", 1>>]
<1>1. ASSUME NEW s \in GStages, NEW i \in DOMAIN GProfile[s].decides
      PROVE  /\ GProfile[s].decides[i].title # "none"
             /\ made[GProfile[s].decides[i].title] = <<s, i>>
    <2>1. CASE s = "requirements_analysis"
        BY <2>1, GRequirementsAnalysis DEF Outline, Says
    <2>2. CASE s = "architecture_design"
        BY <2>2, GArchitectureDesign DEF Outline, Says
    <2>3. CASE s = "task_decomposition"
        BY <2>3, GTaskDecomposition DEF Outline, Says
    <2>4. CASE s = "implementation_planning"
        BY <2>4, GImplementationPlanning DEF Outline, Says
    <2>5. CASE s = "testing_planning"
        BY <2>5, GTestingPlanning DEF Outline, Says
    <2>6. CASE s = "documentation_planning"
        BY <2>6, GDocumentationPlanning DEF Outline, Says
    <2>7. CASE s = "validation"
        BY <2>7, GValidation DEF Outline
    <2>8. CASE s = "release_readiness"
        BY <2>8, GReleaseReadiness DEF Outline, Says
    <2> QED
        BY GStagesAre, <2>1, <2>2, <2>3, <2>4, <2>5, <2>6, <2>7, <2>8
<1> HIDE DEF made
<1> QED
    BY <1>1 DEF TitlesDistinct

\* A parent is made before it is referred to, by the stage or by a predecessor.
LEMMA GParentsKnown == ParentsKnown(GStages, GDependencies, GProfile)
<1>1. ASSUME NEW s \in GStages, NEW i \in DOMAIN GProfile[s].decides
      PROVE  LET parent == GProfile[s].decides[i].parent IN
             \/ parent = "none"
             \/ \E j \in DOMAIN GProfile[s].decides :
                    j < i /\ GProfile[s].decides[j].title = parent
             \/ ~Own(GProfile, s, parent) /\ Handed(GStages, GDependencies, GProfile, s, parent)
    <2>1. CASE s = "requirements_analysis"
        BY <2>1, GRequirementsAnalysis DEF Outline, Says
    <2>2. CASE s = "architecture_design"
        <3>1. i \in 1 .. 4 /\ DOMAIN GProfile[s].decides = 1 .. 4
            BY <2>2, GArchitectureDesign DEF Outline
        <3>2. CASE i = 1
            <4>1. GProfile[s].decides[i].parent = "scope"
                BY <2>2, <3>2, GArchitectureDesign DEF Says
            <4>2. ~Own(GProfile, s, "scope")
                BY <2>2, <3>1, GArchitectureDesign DEF Says, Own
            <4>3. Handed(GStages, GDependencies, GProfile, s, "scope")
                BY <2>2, GRequirementsAnalysis, GBefore
                DEF Outline, Handed
            <4> QED
                BY <4>1, <4>2, <4>3
        <3>3. CASE i # 1
            <4>1. \/ i = 2 /\ GProfile[s].decides[i].parent = GProfile[s].decides[1].title
                  \/ i = 3 /\ GProfile[s].decides[i].parent = GProfile[s].decides[2].title
                  \/ i = 4 /\ GProfile[s].decides[i].parent = GProfile[s].decides[1].title
                BY <2>2, <3>1, <3>3, GArchitectureDesign DEF Says
            <4> QED
                BY <3>1, <4>1
        <3> QED
            BY <3>2, <3>3
    <2>3. CASE s = "task_decomposition"
        BY <2>3, GTaskDecomposition DEF Outline, Says
    <2>4. CASE s = "implementation_planning"
        BY <2>4, GImplementationPlanning DEF Outline, Says
    <2>5. CASE s = "testing_planning"
        BY <2>5, GTestingPlanning DEF Outline, Says
    <2>6. CASE s = "documentation_planning"
        BY <2>6, GDocumentationPlanning DEF Outline, Says
    <2>7. CASE s = "validation"
        BY <2>7, GValidation DEF Outline
    <2>8. CASE s = "release_readiness"
        BY <2>8, GReleaseReadiness DEF Outline, Says
    <2> QED
        BY GStagesAre, <2>1, <2>2, <2>3, <2>4, <2>5, <2>6, <2>7, <2>8
<1> QED
    BY <1>1 DEF ParentsKnown

\* A stage hands on what it has.
LEMMA GHandedOnHeld == HandedOnHeld(GStages, GDependencies, GProfile)
<1>1. ASSUME NEW s \in GStages, NEW title \in GProfile[s].hands_on
      PROVE  Own(GProfile, s, title) \/ Handed(GStages, GDependencies, GProfile, s, title)
    <2>1. CASE s = "requirements_analysis"
        BY <2>1, GRequirementsAnalysis DEF Outline, Says, Own
    <2>2. CASE s = "architecture_design"
        BY <2>2, GArchitectureDesign DEF Outline, Says, Own
    <2>3. CASE s = "task_decomposition"
        BY <2>3, GTaskDecomposition DEF Outline, Says, Own
    <2>4. CASE s = "implementation_planning"
        BY <2>4, GImplementationPlanning DEF Outline
    <2>5. CASE s = "testing_planning"
        BY <2>5, GTestingPlanning DEF Outline, Says, Own
    <2>6. CASE s = "documentation_planning"
        BY <2>6, GDocumentationPlanning DEF Outline
    <2>7. CASE s = "validation"
        BY <2>7, GValidation DEF Outline
    <2>8. CASE s = "release_readiness"
        BY <2>8, GReleaseReadiness DEF Outline, Says, Own
    <2> QED
        BY GStagesAre, <2>1, <2>2, <2>3, <2>4, <2>5, <2>6, <2>7, <2>8
<1> QED
    BY <1>1 DEF HandedOnHeld

\* What is downstream of a stage that names it as downstream.
LEMMA GDownstream ==
    /\ \A t \in {"architecture_design", "task_decomposition"} :
           Leads(GStages, GDependencies, "requirements_analysis", t)
    /\ \A t \in {"implementation_planning", "testing_planning", "documentation_planning"} :
           Leads(GStages, GDependencies, "architecture_design", t)
    /\ \A t \in {"implementation_planning", "testing_planning", "documentation_planning"} :
           Leads(GStages, GDependencies, "task_decomposition", t)
<1>1. ASSUME NEW s \in GStages, NEW t \in GStages, <<s, t>> \in GDependencies
      PROVE  /\ Leads(GStages, GDependencies, s, t)
             /\ \A r \in GStages : Leads(GStages, GDependencies, r, s) =>
                                    Leads(GStages, GDependencies, r, t)
    BY <1>1, LeadsAlong
<1>2. \A t \in {"architecture_design", "task_decomposition"} :
          Leads(GStages, GDependencies, "requirements_analysis", t)
    BY <1>1, GEdges, GStagesAre DEF G!Plannings
<1>3. \A t \in {"implementation_planning", "testing_planning", "documentation_planning"} :
          Leads(GStages, GDependencies, "architecture_design", t)
    BY <1>1, GEdges, GStagesAre DEF G!Plannings
<1>4. \A t \in {"implementation_planning", "testing_planning", "documentation_planning"} :
          Leads(GStages, GDependencies, "task_decomposition", t)
    BY <1>1, GEdges, GStagesAre DEF G!Plannings
<1> QED
    BY <1>2, <1>3, <1>4

\* A stage that names one of its own round is not the first to name it.
LEMMA GDriversUpstream == DriversUpstream(GStages, GDependencies, GProfile)
<1>1. ASSUME NEW s \in GStages, NEW t \in GStages, Naming(GProfile, s, t)
      PROVE  \/ Leads(GStages, GDependencies, s, t)
             \/ \E u \in Before(GStages, GDependencies, s) :
                    Naming(GProfile, u, t) /\ Leads(GStages, GDependencies, u, t)
    <2>1. CASE s = "requirements_analysis"
        BY <2>1, <1>1, GDownstream, GRequirementsAnalysis
        DEF Outline, Says, Naming
    <2>2. CASE s = "architecture_design"
        BY <2>2, <1>1, GDownstream, GArchitectureDesign
        DEF Outline, Says, Naming
    <2>3. CASE s = "task_decomposition"
        BY <2>3, <1>1, GDownstream, GTaskDecomposition DEF Outline, Says, Naming
    <2>4. CASE s = "implementation_planning"
        BY <2>4, <1>1, GDownstream, GImplementationPlanning, GTaskDecomposition, GStagesAre,
           GBefore
        DEF Outline, Says, Naming
    <2>5. CASE s = "testing_planning"
        BY <2>5, <1>1, GTestingPlanning DEF Outline, Says, Naming
    <2>6. CASE s = "documentation_planning"
        BY <2>6, <1>1, GDocumentationPlanning DEF Outline, Says, Naming
    <2>7. CASE s = "validation"
        BY <2>7, <1>1, GValidation DEF Outline, Naming
    <2>8. CASE s = "release_readiness"
        BY <2>8, <1>1, GReleaseReadiness DEF Outline, Says, Naming
    <2> QED
        BY GStagesAre, <2>1, <2>2, <2>3, <2>4, <2>5, <2>6, <2>7, <2>8
<1> QED
    BY <1>1 DEF DriversUpstream

\* The decisions of each stage are a sequence.
LEMMA GDecisionsListed == DecisionsListed(GStages, GProfile)
<1>1. ASSUME NEW s \in GStages
      PROVE  /\ GProfile[s].decides \in
                    Seq({GProfile[s].decides[i] : i \in DOMAIN GProfile[s].decides})
             /\ GProfile[s].least \in Nat
    <2>1. CASE s = "requirements_analysis"
        BY <2>1, GRequirementsAnalysis DEF Outline
    <2>2. CASE s = "architecture_design"
        BY <2>2, GArchitectureDesign DEF Outline
    <2>3. CASE s = "task_decomposition"
        BY <2>3, GTaskDecomposition DEF Outline
    <2>4. CASE s = "implementation_planning"
        BY <2>4, GImplementationPlanning DEF Outline
    <2>5. CASE s = "testing_planning"
        BY <2>5, GTestingPlanning DEF Outline
    <2>6. CASE s = "documentation_planning"
        BY <2>6, GDocumentationPlanning DEF Outline
    <2>7. CASE s = "validation"
        BY <2>7, GValidation DEF Outline
    <2>8. CASE s = "release_readiness"
        BY <2>8, GReleaseReadiness DEF Outline
    <2> QED
        BY GStagesAre, <2>1, <2>2, <2>3, <2>4, <2>5, <2>6, <2>7, <2>8
<1> QED
    BY <1>1 DEF DecisionsListed

-----------------------------------------------------------------------------
(* Brownfield.                                                             *)

\* The class attributes that its stages start from.
LEMMA BKinds ==
    /\ IsProfile(B!Routine) /\ Documented(B!Routine)
    /\ IsProfile(B!ProductionRelease) /\ Documented(B!ProductionRelease)
    /\ IsProfile(B!SignificantChange) /\ Documented(B!SignificantChange)
    /\ \A r \in {B!Routine, B!ProductionRelease, B!SignificantChange} :
           r.needs = {} /\ r.gives = {} /\ r.decides = <<>> /\ r.hands_on = {} /\ r.least = 0
    BY DEF IsProfile, Documented, B!Routine, B!ProductionRelease, B!SignificantChange

\* CodebaseAnalysisStage: what it asks for, fills, hands on and decides.
LEMMA BCodebaseAnalysis ==
    LET p == BProfile["codebase_analysis"] IN
    /\ Documented(p)
    /\ Outline(p, {},
                  {"codebase_snapshot"},
                  {"gap"}, 0, 1)
    /\ Says(p, 1, "gap", "none", {"impact_analysis", "change_planning"})
<1> DEFINE p == BProfile["codebase_analysis"]
<1>1. p = B!CodebaseAnalysisStage
    BY DEF BProfile, B!Profile
<1>2. /\ p.needs = {}
      /\ p.gives = {"codebase_snapshot"}
      /\ p.hands_on = {"gap"}
      /\ p.least = 0
      /\ p.decides = <<B!Decision("gap", "none", {"impact_analysis", "change_planning"})>>
      /\ SameAttributes(p, B!Routine)
    BY <1>1, BKinds DEF IsProfile, SameAttributes, B!CodebaseAnalysisStage
<1> HIDE DEF p
<1>3. Documented(p)
    BY <1>2, BKinds DEF Documented, SameAttributes
<1>4. Outline(p, {},
                 {"codebase_snapshot"},
                 {"gap"}, 0, 1)
    BY <1>2 DEF Outline
<1>5. Says(p, 1, "gap", "none", {"impact_analysis", "change_planning"})
    BY <1>2 DEF Says, B!Decision
<1> QED
    BY <1>3, <1>4, <1>5 DEF p

\* ImpactAnalysisStage: what it asks for, fills, hands on and decides.
LEMMA BImpactAnalysis ==
    LET p == BProfile["impact_analysis"] IN
    /\ Documented(p)
    /\ Outline(p, {"codebase_snapshot"},
                  {"impact_map"},
                  {"scope"}, 0, 1)
    /\ Says(p, 1, "scope", "gap", {"change_planning", "regression_test_planning"})
<1> DEFINE p == BProfile["impact_analysis"]
<1>1. p = B!ImpactAnalysisStage
    BY DEF BProfile, B!Profile
<1>2. /\ p.needs = {"codebase_snapshot"}
      /\ p.gives = {"impact_map"}
      /\ p.hands_on = {"scope"}
      /\ p.least = 0
      /\ p.decides = <<B!Decision("scope", "gap",
                         {"change_planning", "regression_test_planning"})>>
      /\ SameAttributes(p, B!Routine)
    BY <1>1, BKinds DEF IsProfile, SameAttributes, B!ImpactAnalysisStage
<1> HIDE DEF p
<1>3. Documented(p)
    BY <1>2, BKinds DEF Documented, SameAttributes
<1>4. Outline(p, {"codebase_snapshot"},
                 {"impact_map"},
                 {"scope"}, 0, 1)
    BY <1>2 DEF Outline
<1>5. Says(p, 1, "scope", "gap", {"change_planning", "regression_test_planning"})
    BY <1>2 DEF Says, B!Decision
<1> QED
    BY <1>3, <1>4, <1>5 DEF p

\* RiskAssessmentStage: what it asks for, fills, hands on and decides.
LEMMA BRiskAssessment ==
    LET p == BProfile["risk_assessment"] IN
    /\ Documented(p)
    /\ Outline(p, {"impact_map"},
                  {"risk_assessment", "blocking_risks"},
                  {"risk"}, 0, 1)
    /\ Says(p, 1, "risk", "none", {"change_planning"})
<1> DEFINE p == BProfile["risk_assessment"]
<1>1. p = B!RiskAssessmentStage
    BY DEF BProfile, B!Profile
<1>2. /\ p.needs = {"impact_map"}
      /\ p.gives = {"risk_assessment", "blocking_risks"}
      /\ p.hands_on = {"risk"}
      /\ p.least = 0
      /\ p.decides = <<B!Decision("risk", "none", {"change_planning"})>>
      /\ SameAttributes(p, B!Routine)
    BY <1>1, BKinds DEF IsProfile, SameAttributes, B!RiskAssessmentStage
<1> HIDE DEF p
<1>3. Documented(p)
    BY <1>2, BKinds DEF Documented, SameAttributes
<1>4. Outline(p, {"impact_map"},
                 {"risk_assessment", "blocking_risks"},
                 {"risk"}, 0, 1)
    BY <1>2 DEF Outline
<1>5. Says(p, 1, "risk", "none", {"change_planning"})
    BY <1>2 DEF Says, B!Decision
<1> QED
    BY <1>3, <1>4, <1>5 DEF p

\* ChangePlanningStage: what it asks for, fills, hands on and decides.
LEMMA BChangePlanning ==
    LET p == BProfile["change_planning"] IN
    /\ Documented(p)
    /\ Outline(p, {"risk_assessment", "blocking_risks"},
                  {"change_plan"},
                  {}, 0, 1)
    /\ Says(p, 1, "strategy", "none", {"regression_test_planning"})
<1> DEFINE p == BProfile["change_planning"]
<1>1. p = B!ChangePlanningStage
    BY DEF BProfile, B!Profile
<1>2. /\ p.needs = {"risk_assessment", "blocking_risks"}
      /\ p.gives = {"change_plan"}
      /\ p.hands_on = {}
      /\ p.least = 0
      /\ p.decides = <<B!Decision("strategy", "none", {"regression_test_planning"})>>
      /\ SameAttributes(p, B!SignificantChange)
    BY <1>1, BKinds DEF IsProfile, SameAttributes, B!ChangePlanningStage
<1> HIDE DEF p
<1>3. Documented(p)
    BY <1>2, BKinds DEF Documented, SameAttributes
<1>4. Outline(p, {"risk_assessment", "blocking_risks"},
                 {"change_plan"},
                 {}, 0, 1)
    BY <1>2 DEF Outline
<1>5. Says(p, 1, "strategy", "none", {"regression_test_planning"})
    BY <1>2 DEF Says, B!Decision
<1> QED
    BY <1>3, <1>4, <1>5 DEF p

\* RegressionTestPlanningStage: what it asks for, fills, hands on and decides.
LEMMA BRegressionTestPlanning ==
    LET p == BProfile["regression_test_planning"] IN
    /\ Documented(p)
    /\ Outline(p, {"change_plan"},
                  {"regression_ready"},
                  {}, 0, 0)
<1> DEFINE p == BProfile["regression_test_planning"]
<1>1. p = B!RegressionTestPlanningStage
    BY DEF BProfile, B!Profile
<1>2. /\ p.needs = {"change_plan"}
      /\ p.gives = {"regression_ready"}
      /\ p.hands_on = {}
      /\ p.least = 0
      /\ p.decides = <<>>
      /\ SameAttributes(p, B!Routine)
    BY <1>1, BKinds DEF IsProfile, SameAttributes, B!RegressionTestPlanningStage
<1> HIDE DEF p
<1>3. Documented(p)
    BY <1>2, BKinds DEF Documented, SameAttributes
<1>4. Outline(p, {"change_plan"},
                 {"regression_ready"},
                 {}, 0, 0)
    BY <1>2 DEF Outline
<1> QED
    BY <1>3, <1>4 DEF p

\* BrownfieldValidationStage: what it asks for, fills, hands on and decides.
LEMMA BBrownfieldValidation ==
    LET p == BProfile["validation"] IN
    /\ Documented(p)
    /\ Outline(p, {"regression_ready"},
                  {},
                  {"final"}, 0, 1)
    /\ Says(p, 1, "final", "none", {})
<1> DEFINE p == BProfile["validation"]
<1>1. p = B!BrownfieldValidationStage
    BY DEF BProfile, B!Profile
<1>2. /\ p.needs = {"regression_ready"}
      /\ p.gives = {}
      /\ p.hands_on = {"final"}
      /\ p.least = 0
      /\ p.decides = <<B!Decision("final", "none", {})>>
      /\ SameAttributes(p, B!ProductionRelease)
    BY <1>1, BKinds DEF IsProfile, SameAttributes, B!BrownfieldValidationStage
<1> HIDE DEF p
<1>3. Documented(p)
    BY <1>2, BKinds DEF Documented, SameAttributes
<1>4. Outline(p, {"regression_ready"},
                 {},
                 {"final"}, 0, 1)
    BY <1>2 DEF Outline
<1>5. Says(p, 1, "final", "none", {})
    BY <1>2 DEF Says, B!Decision
<1> QED
    BY <1>3, <1>4, <1>5 DEF p
-----------------------------------------------------------------------------
(* Ambiguous.                                                              *)

\* The stages of the workflow.
LEMMA BStagesAre ==
    BStages = {"codebase_analysis", "impact_analysis", "risk_assessment", "change_planning",
                "regression_test_planning", "validation"}
    BY DEF BStages, B!Stages, B!Profile

\* Its edges, all between its stages.
LEMMA BEdges ==
    /\ \A p, s : <<p, s>> \in BDependencies <=>
           \/ p = "codebase_analysis" /\ s = "impact_analysis"
           \/ p = "impact_analysis" /\ s = "risk_assessment"
           \/ p = "risk_assessment" /\ s = "change_planning"
           \/ p = "change_planning" /\ s = "regression_test_planning"
           \/ p = "regression_test_planning" /\ s = "validation"
    /\ BDependencies \subseteq BStages \X BStages
<1>1. \A p, s : <<p, s>> \in BDependencies <=>
          \/ p = "codebase_analysis" /\ s = "impact_analysis"
          \/ p = "impact_analysis" /\ s = "risk_assessment"
          \/ p = "risk_assessment" /\ s = "change_planning"
          \/ p = "change_planning" /\ s = "regression_test_planning"
          \/ p = "regression_test_planning" /\ s = "validation"
    BY DEF BDependencies, B!Dependencies
<1>2. BDependencies \subseteq BStages \X BStages
    BY BStagesAre DEF BDependencies, B!Dependencies
<1> QED
    BY <1>1, <1>2

\* A list of the stages: they are finitely many.
LEMMA BListed ==
    \E listed \in Seq(BStages) : \A s \in BStages : \E i \in 1 .. Len(listed) : listed[i] = s
<1> DEFINE listed == <<"codebase_analysis", "impact_analysis", "risk_assessment",
                        "change_planning", "regression_test_planning", "validation">>
<1>1. listed \in Seq(BStages) /\ \A s \in BStages : \E i \in 1 .. Len(listed) : listed[i] = s
    BY BStagesAre
<1> QED
    BY <1>1

\* The stages can be peeled off from the first to the last.
LEMMA BAcyclic ==
    ASSUME NEW S \in SUBSET BStages, S # {}
    PROVE  \E s \in S : \A p \in S : <<p, s>> \notin BDependencies
<1>1. CASE "codebase_analysis" \in S
    BY <1>1, BEdges
<1>2. CASE "impact_analysis" \in S
          /\ S \cap {"codebase_analysis"} = {}
    BY <1>2, BEdges
<1>3. CASE "risk_assessment" \in S
          /\ S \cap {"codebase_analysis", "impact_analysis"} = {}
    BY <1>3, BEdges
<1>4. CASE "change_planning" \in S
          /\ S \cap {"codebase_analysis", "impact_analysis", "risk_assessment"} = {}
    BY <1>4, BEdges
<1>5. CASE "regression_test_planning" \in S
          /\ S \cap {"codebase_analysis", "impact_analysis", "risk_assessment",
                      "change_planning"} = {}
    BY <1>5, BEdges
<1>6. CASE "validation" \in S
          /\ S \cap {"codebase_analysis", "impact_analysis", "risk_assessment",
                      "change_planning", "regression_test_planning"} = {}
    BY <1>6, BEdges
<1> QED
    BY BStagesAre, <1>1, <1>2, <1>3, <1>4, <1>5, <1>6

\* The predecessors of each stage.
LEMMA BBefore ==
    /\ Before(BStages, BDependencies, "codebase_analysis") = {}
    /\ Before(BStages, BDependencies, "impact_analysis") = {"codebase_analysis"}
    /\ Before(BStages, BDependencies, "risk_assessment") = {"impact_analysis"}
    /\ Before(BStages, BDependencies, "change_planning") = {"risk_assessment"}
    /\ Before(BStages, BDependencies, "regression_test_planning") = {"change_planning"}
    /\ Before(BStages, BDependencies, "validation") = {"regression_test_planning"}
    BY BStagesAre, BEdges DEF Before

\* The gates of every stage are content.
LEMMA BGatesContent == GatesContent(BStages, BDependencies, BProfile, BEvaluations)
<1>1. ASSUME NEW s \in BStages
      PROVE  /\ Documented(BProfile[s])
             /\ BProfile[s].needs \subseteq
                    UNION {BProfile[p].gives : p \in Before(BStages, BDependencies, s)}
             /\ BProfile[s].least <= Len(BProfile[s].decides)
    <2>1. CASE s = "codebase_analysis"
        BY <2>1, BCodebaseAnalysis DEF Outline
    <2>2. CASE s = "impact_analysis"
        BY <2>2, BImpactAnalysis, BCodebaseAnalysis, BBefore DEF Outline
    <2>3. CASE s = "risk_assessment"
        BY <2>3, BRiskAssessment, BImpactAnalysis, BBefore DEF Outline
    <2>4. CASE s = "change_planning"
        BY <2>4, BChangePlanning, BRiskAssessment, BBefore DEF Outline
    <2>5. CASE s = "regression_test_planning"
        BY <2>5, BRegressionTestPlanning, BChangePlanning, BBefore DEF Outline
    <2>6. CASE s = "validation"
        BY <2>6, BBrownfieldValidation, BRegressionTestPlanning, BBefore DEF Outline
    <2> QED
        BY BStagesAre, <2>1, <2>2, <2>3, <2>4, <2>5, <2>6
<1>2. ASSUME NEW s \in BStages
      PROVE  "block" \notin BEvaluations[s]
    <2>1. BEvaluations[s] = {Evaluate(BuiltIn, BProfile[s], 0)}
        BY DEF BEvaluations, Evaluations, BStages, B!Stages, BProfile
    <2> QED
        BY <1>1, <2>1, NeverBlocked
<1> QED
    BY <1>1, <1>2 DEF GatesContent

\* No two decisions have the same title: each is found where it is made.
LEMMA BTitlesDistinct == TitlesDistinct(BStages, BProfile)
<1> DEFINE made == [
           gap      |-> <<"codebase_analysis", 1>>,
           scope    |-> <<"impact_analysis", 1>>,
           risk     |-> <<"risk_assessment", 1>>,
           strategy |-> <<"change_planning", 1>>,
           final    |-> <<"validation", 1>>]
<1>1. ASSUME NEW s \in BStages, NEW i \in DOMAIN BProfile[s].decides
      PROVE  /\ BProfile[s].decides[i].title # "none"
             /\ made[BProfile[s].decides[i].title] = <<s, i>>
    <2>1. CASE s = "codebase_analysis"
        BY <2>1, BCodebaseAnalysis DEF Outline, Says
    <2>2. CASE s = "impact_analysis"
        BY <2>2, BImpactAnalysis DEF Outline, Says
    <2>3. CASE s = "risk_assessment"
        BY <2>3, BRiskAssessment DEF Outline, Says
    <2>4. CASE s = "change_planning"
        BY <2>4, BChangePlanning DEF Outline, Says
    <2>5. CASE s = "regression_test_planning"
        BY <2>5, BRegressionTestPlanning DEF Outline
    <2>6. CASE s = "validation"
        BY <2>6, BBrownfieldValidation DEF Outline, Says
    <2> QED
        BY BStagesAre, <2>1, <2>2, <2>3, <2>4, <2>5, <2>6
<1> HIDE DEF made
<1> QED
    BY <1>1 DEF TitlesDistinct

\* A parent is made before it is referred to, by the stage or by a predecessor.
LEMMA BParentsKnown == ParentsKnown(BStages, BDependencies, BProfile)
<1>1. ASSUME NEW s \in BStages, NEW i \in DOMAIN BProfile[s].decides
      PROVE  LET parent == BProfile[s].decides[i].parent IN
             \/ parent = "none"
             \/ \E j \in DOMAIN BProfile[s].decides :
                    j < i /\ BProfile[s].decides[j].title = parent
             \/ ~Own(BProfile, s, parent) /\ Handed(BStages, BDependencies, BProfile, s, parent)
    <2>1. CASE s = "codebase_analysis"
        BY <2>1, BCodebaseAnalysis DEF Outline, Says
    <2>2. CASE s = "impact_analysis"
        BY <2>2, BImpactAnalysis, BCodebaseAnalysis, BBefore
        DEF Outline, Says, Own, Handed
    <2>3. CASE s = "risk_assessment"
        BY <2>3, BRiskAssessment DEF Outline, Says
    <2>4. CASE s = "change_planning"
        BY <2>4, BChangePlanning DEF Outline, Says
    <2>5. CASE s = "regression_test_planning"
        BY <2>5, BRegressionTestPlanning DEF Outline
    <2>6. CASE s = "validation"
        BY <2>6, BBrownfieldValidation DEF Outline, Says
    <2> QED
        BY BStagesAre, <2>1, <2>2, <2>3, <2>4, <2>5, <2>6
<1> QED
    BY <1>1 DEF ParentsKnown

\* A stage hands on what it has.
LEMMA BHandedOnHeld == HandedOnHeld(BStages, BDependencies, BProfile)
<1>1. ASSUME NEW s \in BStages, NEW title \in BProfile[s].hands_on
      PROVE  Own(BProfile, s, title) \/ Handed(BStages, BDependencies, BProfile, s, title)
    <2>1. CASE s = "codebase_analysis"
        BY <2>1, BCodebaseAnalysis DEF Outline, Says, Own
    <2>2. CASE s = "impact_analysis"
        BY <2>2, BImpactAnalysis DEF Outline, Says, Own
    <2>3. CASE s = "risk_assessment"
        BY <2>3, BRiskAssessment DEF Outline, Says, Own
    <2>4. CASE s = "change_planning"
        BY <2>4, BChangePlanning DEF Outline
    <2>5. CASE s = "regression_test_planning"
        BY <2>5, BRegressionTestPlanning DEF Outline
    <2>6. CASE s = "validation"
        BY <2>6, BBrownfieldValidation DEF Outline, Says, Own
    <2> QED
        BY BStagesAre, <2>1, <2>2, <2>3, <2>4, <2>5, <2>6
<1> QED
    BY <1>1 DEF HandedOnHeld

\* What is downstream of a stage that names it as downstream.
LEMMA BDownstream ==
    /\ \A t \in {"impact_analysis", "change_planning"} :
           Leads(BStages, BDependencies, "codebase_analysis", t)
    /\ \A t \in {"change_planning", "regression_test_planning"} :
           Leads(BStages, BDependencies, "impact_analysis", t)
    /\ \A t \in {"change_planning"} :
           Leads(BStages, BDependencies, "risk_assessment", t)
    /\ \A t \in {"regression_test_planning"} :
           Leads(BStages, BDependencies, "change_planning", t)
<1>1. ASSUME NEW s \in BStages, NEW t \in BStages, <<s, t>> \in BDependencies
      PROVE  /\ Leads(BStages, BDependencies, s, t)
             /\ \A r \in BStages : Leads(BStages, BDependencies, r, s) =>
                                    Leads(BStages, BDependencies, r, t)
    BY <1>1, LeadsAlong
<1>2. \A t \in {"impact_analysis", "change_planning"} :
          Leads(BStages, BDependencies, "codebase_analysis", t)
    BY <1>1, BEdges, BStagesAre
<1>3. \A t \in {"change_planning", "regression_test_planning"} :
          Leads(BStages, BDependencies, "impact_analysis", t)
    BY <1>1, BEdges, BStagesAre
<1>4. \A t \in {"change_planning"} :
          Leads(BStages, BDependencies, "risk_assessment", t)
    BY <1>1, BEdges, BStagesAre
<1>5. \A t \in {"regression_test_planning"} :
          Leads(BStages, BDependencies, "change_planning", t)
    BY <1>1, BEdges, BStagesAre
<1> QED
    BY <1>2, <1>3, <1>4, <1>5

\* A stage that names one of its own round is not the first to name it.
LEMMA BDriversUpstream == DriversUpstream(BStages, BDependencies, BProfile)
<1>1. ASSUME NEW s \in BStages, NEW t \in BStages, Naming(BProfile, s, t)
      PROVE  \/ Leads(BStages, BDependencies, s, t)
             \/ \E u \in Before(BStages, BDependencies, s) :
                    Naming(BProfile, u, t) /\ Leads(BStages, BDependencies, u, t)
    <2>1. CASE s = "codebase_analysis"
        BY <2>1, <1>1, BDownstream, BCodebaseAnalysis DEF Outline, Says, Naming
    <2>2. CASE s = "impact_analysis"
        BY <2>2, <1>1, BDownstream, BImpactAnalysis DEF Outline, Says, Naming
    <2>3. CASE s = "risk_assessment"
        BY <2>3, <1>1, BDownstream, BRiskAssessment DEF Outline, Says, Naming
    <2>4. CASE s = "change_planning"
        BY <2>4, <1>1, BDownstream, BChangePlanning DEF Outline, Says, Naming
    <2>5. CASE s = "regression_test_planning"
        BY <2>5, <1>1, BRegressionTestPlanning DEF Outline, Naming
    <2>6. CASE s = "validation"
        BY <2>6, <1>1, BBrownfieldValidation DEF Outline, Says, Naming
    <2> QED
        BY BStagesAre, <2>1, <2>2, <2>3, <2>4, <2>5, <2>6
<1> QED
    BY <1>1 DEF DriversUpstream

\* The decisions of each stage are a sequence.
LEMMA BDecisionsListed == DecisionsListed(BStages, BProfile)
<1>1. ASSUME NEW s \in BStages
      PROVE  /\ BProfile[s].decides \in
                    Seq({BProfile[s].decides[i] : i \in DOMAIN BProfile[s].decides})
             /\ BProfile[s].least \in Nat
    <2>1. CASE s = "codebase_analysis"
        BY <2>1, BCodebaseAnalysis DEF Outline
    <2>2. CASE s = "impact_analysis"
        BY <2>2, BImpactAnalysis DEF Outline
    <2>3. CASE s = "risk_assessment"
        BY <2>3, BRiskAssessment DEF Outline
    <2>4. CASE s = "change_planning"
        BY <2>4, BChangePlanning DEF Outline
    <2>5. CASE s = "regression_test_planning"
        BY <2>5, BRegressionTestPlanning DEF Outline
    <2>6. CASE s = "validation"
        BY <2>6, BBrownfieldValidation DEF Outline
    <2> QED
        BY BStagesAre, <2>1, <2>2, <2>3, <2>4, <2>5, <2>6
<1> QED
    BY <1>1 DEF DecisionsListed

-----------------------------------------------------------------------------
(* Ambiguous.                                                              *)

\* The class attributes that its stages start from.
LEMMA AKinds ==
    /\ IsProfile(A!Routine) /\ Documented(A!Routine)
    /\ IsProfile(A!ProductionRelease) /\ Documented(A!ProductionRelease)
    /\ IsProfile(A!SignificantChange) /\ Documented(A!SignificantChange)
    /\ \A r \in {A!Routine, A!ProductionRelease, A!SignificantChange} :
           r.needs = {} /\ r.gives = {} /\ r.decides = <<>> /\ r.hands_on = {} /\ r.least = 0
    BY DEF IsProfile, Documented, A!Routine, A!ProductionRelease, A!SignificantChange

\* AmbiguityDetectionStage: what it asks for, fills, hands on and decides.
LEMMA AAmbiguityDetection ==
    LET p == AProfile["ambiguity_detection"] IN
    /\ Documented(p)
    /\ Outline(p, {},
                  {"clarification_questions", "clarification_needed"},
                  {"detection"}, 0, 1)
    /\ Says(p, 1, "detection", "none", {"clarification", "normalization", "task_planning"})
<1> DEFINE p == AProfile["ambiguity_detection"]
<1>1. p = A!AmbiguityDetectionStage
    BY DEF AProfile, A!Profile
<1>2. /\ p.needs = {}
      /\ p.gives = {"clarification_questions", "clarification_needed"}
      /\ p.hands_on = {"detection"}
      /\ p.least = 0
      /\ p.decides = <<A!Decision("detection", "none",
                         {"clarification", "normalization", "task_planning"})>>
      /\ SameAttributes(p, A!Routine)
    BY <1>1, AKinds DEF IsProfile, SameAttributes, A!AmbiguityDetectionStage
<1> HIDE DEF p
<1>3. Documented(p)
    BY <1>2, AKinds DEF Documented, SameAttributes
<1>4. Outline(p, {},
                 {"clarification_questions", "clarification_needed"},
                 {"detection"}, 0, 1)
    BY <1>2 DEF Outline
<1>5. Says(p, 1, "detection", "none", {"clarification", "normalization", "task_planning"})
    BY <1>2 DEF Says, A!Decision
<1> QED
    BY <1>3, <1>4, <1>5 DEF p

\* ClarificationStage: what it asks for, fills, hands on and decides.
LEMMA AClarification ==
    LET p == AProfile["clarification"] IN
    /\ Documented(p)
    /\ Outline(p, {"clarification_questions", "clarification_needed"},
                  {"clarifications"},
                  {"Q1", "Q2", "Q3", "Q4", "Q5", "Q6", "Q7"}, 1, 7)
    /\ Says(p, 1, "Q1", "detection", {"normalization", "task_planning"})
    /\ Says(p, 2, "Q2", "detection", {"normalization", "task_planning"})
    /\ Says(p, 3, "Q3", "detection", {"normalization", "task_planning"})
    /\ Says(p, 4, "Q4", "detection", {"normalization", "task_planning"})
    /\ Says(p, 5, "Q5", "detection", {"normalization", "task_planning"})
    /\ Says(p, 6, "Q6", "detection", {"normalization", "task_planning"})
    /\ Says(p, 7, "Q7", "detection", {"normalization", "task_planning"})
<1> DEFINE p == AProfile["clarification"]
<1>1. p = A!ClarificationStage
    BY DEF AProfile, A!Profile
<1>2. /\ p.needs = {"clarification_questions", "clarification_needed"}
      /\ p.gives = {"clarifications"}
      /\ p.hands_on = A!QuestionIds
      /\ p.least = 1
      /\ p.decides = [i \in DOMAIN A!Questions |->
             A!Decision(A!Questions[i], "detection", {"normalization", "task_planning"})]
      /\ SameAttributes(p, A!Routine)
    BY <1>1, AKinds DEF IsProfile, SameAttributes, A!ClarificationStage
<1> HIDE DEF p
<1>3. Documented(p)
    BY <1>2, AKinds DEF Documented, SameAttributes
<1>4. Outline(p, {"clarification_questions", "clarification_needed"},
                 {"clarifications"},
                 {"Q1", "Q2", "Q3", "Q4", "Q5", "Q6", "Q7"}, 1, 7)
    BY <1>2 DEF Outline, A!Questions, A!QuestionIds
<1>5. /\ Says(p, 1, "Q1", "detection", {"normalization", "task_planning"})
      /\ Says(p, 2, "Q2", "detection", {"normalization", "task_planning"})
      /\ Says(p, 3, "Q3", "detection", {"normalization", "task_planning"})
      /\ Says(p, 4, "Q4", "detection", {"normalization", "task_planning"})
      /\ Says(p, 5, "Q5", "detection", {"normalization", "task_planning"})
      /\ Says(p, 6, "Q6", "detection", {"normalization", "task_planning"})
      /\ Says(p, 7, "Q7", "detection", {"normalization", "task_planning"})
    BY <1>2 DEF Says, A!Decision, A!Questions
<1> QED
    BY <1>3, <1>4, <1>5 DEF p

\* RequirementNormalizationStage: what it asks for, fills, hands on and decides.
LEMMA ARequirementNormalization ==
    LET p == AProfile["normalization"] IN
    /\ Documented(p)
    /\ Outline(p, {"clarifications"},
                  {"normalised_requirement", "clarifications"},
                  {"Q1", "Q2", "Q3", "Q4", "Q5", "Q6", "Q7", "normalised"}, 0, 1)
    /\ Says(p, 1, "normalised", "none", {"task_planning"})
<1> DEFINE p == AProfile["normalization"]
<1>1. p = A!RequirementNormalizationStage
    BY DEF AProfile, A!Profile
<1>2. /\ p.needs = {"clarifications"}
      /\ p.gives = {"normalised_requirement", "clarifications"}
      /\ p.hands_on = A!QuestionIds \cup {"normalised"}
      /\ p.least = 0
      /\ p.decides = <<A!Decision("normalised", "none", {"task_planning"})>>
      /\ SameAttributes(p, A!Routine)
    BY <1>1, AKinds DEF IsProfile, SameAttributes, A!RequirementNormalizationStage
<1> HIDE DEF p
<1>3. Documented(p)
    BY <1>2, AKinds DEF Documented, SameAttributes
<1>4. Outline(p, {"clarifications"},
                 {"normalised_requirement", "clarifications"},
                 {"Q1", "Q2", "Q3", "Q4", "Q5", "Q6", "Q7", "normalised"}, 0, 1)
    BY <1>2 DEF Outline, A!Questions, A!QuestionIds
<1>5. Says(p, 1, "normalised", "none", {"task_planning"})
    BY <1>2 DEF Says, A!Decision
<1> QED
    BY <1>3, <1>4, <1>5 DEF p

\* TaskPlanningStage: what it asks for, fills, hands on and decides.
LEMMA ATaskPlanning ==
    LET p == AProfile["task_planning"] IN
    /\ Documented(p)
    /\ Outline(p, {"normalised_requirement"},
                  {"planning_complete", "normalised_requirement"},
                  {"Q1", "Q2", "Q3", "Q4", "Q5", "Q6", "Q7"}, 0, 1)
    /\ Says(p, 1, "plan", "none", {})
<1> DEFINE p == AProfile["task_planning"]
<1>1. p = A!TaskPlanningStage
    BY DEF AProfile, A!Profile
<1>2. /\ p.needs = {"normalised_requirement"}
      /\ p.gives = {"planning_complete", "normalised_requirement"}
      /\ p.hands_on = A!QuestionIds
      /\ p.least = 0
      /\ p.decides = <<A!Decision("plan", "none", {})>>
      /\ SameAttributes(p, A!Routine)
    BY <1>1, AKinds DEF IsProfile, SameAttributes, A!TaskPlanningStage
<1> HIDE DEF p
<1>3. Documented(p)
    BY <1>2, AKinds DEF Documented, SameAttributes
<1>4. Outline(p, {"normalised_requirement"},
                 {"planning_complete", "normalised_requirement"},
                 {"Q1", "Q2", "Q3", "Q4", "Q5", "Q6", "Q7"}, 0, 1)
    BY <1>2 DEF Outline, A!Questions, A!QuestionIds
<1>5. Says(p, 1, "plan", "none", {})
    BY <1>2 DEF Says, A!Decision
<1> QED
    BY <1>3, <1>4, <1>5 DEF p

\* AmbiguousValidationStage: what it asks for, fills, hands on and decides.
LEMMA AAmbiguousValidation ==
    LET p == AProfile["validation"] IN
    /\ Documented(p)
    /\ Outline(p, {"planning_complete"},
                  {},
                  {"final"}, 0, 1)
    /\ Says(p, 1, "final", "none", {})
<1> DEFINE p == AProfile["validation"]
<1>1. p = A!AmbiguousValidationStage
    BY DEF AProfile, A!Profile
<1>2. /\ p.needs = {"planning_complete"}
      /\ p.gives = {}
      /\ p.hands_on = {"final"}
      /\ p.least = 0
      /\ p.decides = <<A!Decision("final", "none", {})>>
      /\ SameAttributes(p, A!ProductionRelease)
    BY <1>1, AKinds DEF IsProfile, SameAttributes, A!AmbiguousValidationStage
<1> HIDE DEF p
<1>3. Documented(p)
    BY <1>2, AKinds DEF Documented, SameAttributes
<1>4. Outline(p, {"planning_complete"},
                 {},
                 {"final"}, 0, 1)
    BY <1>2 DEF Outline
<1>5. Says(p, 1, "final", "none", {})
    BY <1>2 DEF Says, A!Decision
<1> QED
    BY <1>3, <1>4, <1>5 DEF p

\* The stages of the workflow.
LEMMA AStagesAre ==
    AStages = {"ambiguity_detection", "clarification", "normalization", "task_planning",
                "validation"}
    BY DEF AStages, A!Stages, A!Profile

\* Its edges, all between its stages.
LEMMA AEdges ==
    /\ \A p, s : <<p, s>> \in ADependencies <=>
           \/ p = "ambiguity_detection" /\ s = "clarification"
           \/ p = "clarification" /\ s = "normalization"
           \/ p = "normalization" /\ s = "task_planning"
           \/ p = "task_planning" /\ s = "validation"
    /\ ADependencies \subseteq AStages \X AStages
<1>1. \A p, s : <<p, s>> \in ADependencies <=>
          \/ p = "ambiguity_detection" /\ s = "clarification"
          \/ p = "clarification" /\ s = "normalization"
          \/ p = "normalization" /\ s = "task_planning"
          \/ p = "task_planning" /\ s = "validation"
    BY DEF ADependencies, A!Dependencies
<1>2. ADependencies \subseteq AStages \X AStages
    BY AStagesAre DEF ADependencies, A!Dependencies
<1> QED
    BY <1>1, <1>2

\* A list of the stages: they are finitely many.
LEMMA AListed ==
    \E listed \in Seq(AStages) : \A s \in AStages : \E i \in 1 .. Len(listed) : listed[i] = s
<1> DEFINE listed == <<"ambiguity_detection", "clarification", "normalization",
                        "task_planning", "validation">>
<1>1. listed \in Seq(AStages) /\ \A s \in AStages : \E i \in 1 .. Len(listed) : listed[i] = s
    BY AStagesAre
<1> QED
    BY <1>1

\* The stages can be peeled off from the first to the last.
LEMMA AAcyclic ==
    ASSUME NEW S \in SUBSET AStages, S # {}
    PROVE  \E s \in S : \A p \in S : <<p, s>> \notin ADependencies
<1>1. CASE "ambiguity_detection" \in S
    BY <1>1, AEdges
<1>2. CASE "clarification" \in S
          /\ S \cap {"ambiguity_detection"} = {}
    BY <1>2, AEdges
<1>3. CASE "normalization" \in S
          /\ S \cap {"ambiguity_detection", "clarification"} = {}
    BY <1>3, AEdges
<1>4. CASE "task_planning" \in S
          /\ S \cap {"ambiguity_detection", "clarification", "normalization"} = {}
    BY <1>4, AEdges
<1>5. CASE "validation" \in S
          /\ S \cap {"ambiguity_detection", "clarification", "normalization",
                      "task_planning"} = {}
    BY <1>5, AEdges
<1> QED
    BY AStagesAre, <1>1, <1>2, <1>3, <1>4, <1>5

\* The predecessors of each stage.
LEMMA ABefore ==
    /\ Before(AStages, ADependencies, "ambiguity_detection") = {}
    /\ Before(AStages, ADependencies, "clarification") = {"ambiguity_detection"}
    /\ Before(AStages, ADependencies, "normalization") = {"clarification"}
    /\ Before(AStages, ADependencies, "task_planning") = {"normalization"}
    /\ Before(AStages, ADependencies, "validation") = {"task_planning"}
    BY AStagesAre, AEdges DEF Before

\* The gates of every stage are content.
LEMMA AGatesContent == GatesContent(AStages, ADependencies, AProfile, AEvaluations)
<1>1. ASSUME NEW s \in AStages
      PROVE  /\ Documented(AProfile[s])
             /\ AProfile[s].needs \subseteq
                    UNION {AProfile[p].gives : p \in Before(AStages, ADependencies, s)}
             /\ AProfile[s].least <= Len(AProfile[s].decides)
    <2>1. CASE s = "ambiguity_detection"
        BY <2>1, AAmbiguityDetection DEF Outline
    <2>2. CASE s = "clarification"
        BY <2>2, AClarification, AAmbiguityDetection, ABefore DEF Outline
    <2>3. CASE s = "normalization"
        BY <2>3, ARequirementNormalization, AClarification, ABefore DEF Outline
    <2>4. CASE s = "task_planning"
        BY <2>4, ATaskPlanning, ARequirementNormalization, ABefore DEF Outline
    <2>5. CASE s = "validation"
        BY <2>5, AAmbiguousValidation, ATaskPlanning, ABefore DEF Outline
    <2> QED
        BY AStagesAre, <2>1, <2>2, <2>3, <2>4, <2>5
<1>2. ASSUME NEW s \in AStages
      PROVE  "block" \notin AEvaluations[s]
    <2>1. AEvaluations[s] = {Evaluate(BuiltIn, AProfile[s], 0)}
        BY DEF AEvaluations, Evaluations, AStages, A!Stages, AProfile
    <2> QED
        BY <1>1, <2>1, NeverBlocked
<1> QED
    BY <1>1, <1>2 DEF GatesContent

\* No two decisions have the same title: each is found where it is made.
LEMMA ATitlesDistinct == TitlesDistinct(AStages, AProfile)
<1> DEFINE made == [
           detection  |-> <<"ambiguity_detection", 1>>,
           Q1         |-> <<"clarification", 1>>,
           Q2         |-> <<"clarification", 2>>,
           Q3         |-> <<"clarification", 3>>,
           Q4         |-> <<"clarification", 4>>,
           Q5         |-> <<"clarification", 5>>,
           Q6         |-> <<"clarification", 6>>,
           Q7         |-> <<"clarification", 7>>,
           normalised |-> <<"normalization", 1>>,
           plan       |-> <<"task_planning", 1>>,
           final      |-> <<"validation", 1>>]
<1>1. ASSUME NEW s \in AStages, NEW i \in DOMAIN AProfile[s].decides
      PROVE  /\ AProfile[s].decides[i].title # "none"
             /\ made[AProfile[s].decides[i].title] = <<s, i>>
    <2>1. CASE s = "ambiguity_detection"
        BY <2>1, AAmbiguityDetection DEF Outline, Says
    <2>2. CASE s = "clarification"
        <3>1. i \in 1 .. 7
            BY <2>2, AClarification DEF Outline
        <3>2. CASE i = 1
            BY <2>2, <3>2, AClarification DEF Says
        <3>3. CASE i = 2
            BY <2>2, <3>3, AClarification DEF Says
        <3>4. CASE i = 3
            BY <2>2, <3>4, AClarification DEF Says
        <3>5. CASE i = 4
            BY <2>2, <3>5, AClarification DEF Says
        <3>6. CASE i = 5
            BY <2>2, <3>6, AClarification DEF Says
        <3>7. CASE i = 6
            BY <2>2, <3>7, AClarification DEF Says
        <3>8. CASE i = 7
            BY <2>2, <3>8, AClarification DEF Says
        <3>9. i = 1 \/ i = 2 \/ i = 3 \/ i = 4 \/ i = 5 \/ i = 6 \/ i = 7
            BY <3>1
        <3> HIDE DEF made
        <3> QED
            BY <3>9, <3>2, <3>3, <3>4, <3>5, <3>6, <3>7, <3>8
    <2>3. CASE s = "normalization"
        BY <2>3, ARequirementNormalization DEF Outline, Says
    <2>4. CASE s = "task_planning"
        BY <2>4, ATaskPlanning DEF Outline, Says
    <2>5. CASE s = "validation"
        BY <2>5, AAmbiguousValidation DEF Outline, Says
    <2> QED
        BY AStagesAre, <2>1, <2>2, <2>3, <2>4, <2>5
<1> HIDE DEF made
<1> QED
    BY <1>1 DEF TitlesDistinct

\* The questions are answered one by one, each as a decision of its own.
LEMMA AQuestions ==
    LET p == AProfile["clarification"] IN
    /\ DOMAIN p.decides = 1 .. 7
    /\ \A j \in 1 .. 7 : /\ p.decides[j].title # "detection"
                         /\ p.decides[j].parent = "detection"
                         /\ p.decides[j].impacts = {"normalization", "task_planning"}
<1> DEFINE p == AProfile["clarification"]
<1>1. DOMAIN p.decides = 1 .. 7
    BY AClarification DEF Outline
<1>2. ASSUME NEW j \in 1 .. 7
      PROVE  /\ p.decides[j].title # "detection"
             /\ p.decides[j].parent = "detection"
             /\ p.decides[j].impacts = {"normalization", "task_planning"}
    <2>1. j = 1 \/ j = 2 \/ j = 3 \/ j = 4 \/ j = 5 \/ j = 6 \/ j = 7
        OBVIOUS
    <2> QED
        BY <2>1, AClarification DEF Says
<1> QED
    BY <1>1, <1>2

\* A parent is made before it is referred to, by the stage or by a predecessor.
LEMMA AParentsKnown == ParentsKnown(AStages, ADependencies, AProfile)
<1>1. ASSUME NEW s \in AStages, NEW i \in DOMAIN AProfile[s].decides
      PROVE  LET parent == AProfile[s].decides[i].parent IN
             \/ parent = "none"
             \/ \E j \in DOMAIN AProfile[s].decides :
                    j < i /\ AProfile[s].decides[j].title = parent
             \/ ~Own(AProfile, s, parent) /\ Handed(AStages, ADependencies, AProfile, s, parent)
    <2>1. CASE s = "ambiguity_detection"
        BY <2>1, AAmbiguityDetection DEF Outline, Says
    <2>2. CASE s = "clarification"
        <3>1. /\ DOMAIN AProfile[s].decides = 1 .. 7
              /\ \A j \in 1 .. 7 : /\ AProfile[s].decides[j].parent = "detection"
                                   /\ AProfile[s].decides[j].title # "detection"
            BY <2>2, AQuestions DEF Says
        <3>2. ~Own(AProfile, s, "detection")
            BY <3>1 DEF Own
        <3>3. Handed(AStages, ADependencies, AProfile, s, "detection")
            BY <2>2, AAmbiguityDetection, ABefore DEF Outline, Handed
        <3> QED
            BY <3>1, <3>2, <3>3
    <2>3. CASE s = "normalization"
        BY <2>3, ARequirementNormalization DEF Outline, Says
    <2>4. CASE s = "task_planning"
        BY <2>4, ATaskPlanning DEF Outline, Says
    <2>5. CASE s = "validation"
        BY <2>5, AAmbiguousValidation DEF Outline, Says
    <2> QED
        BY AStagesAre, <2>1, <2>2, <2>3, <2>4, <2>5
<1> QED
    BY <1>1 DEF ParentsKnown

\* A stage hands on what it has.
LEMMA AHandedOnHeld == HandedOnHeld(AStages, ADependencies, AProfile)
<1>1. ASSUME NEW s \in AStages, NEW title \in AProfile[s].hands_on
      PROVE  Own(AProfile, s, title) \/ Handed(AStages, ADependencies, AProfile, s, title)
    <2>1. CASE s = "ambiguity_detection"
        BY <2>1, AAmbiguityDetection DEF Outline, Says, Own
    <2>2. CASE s = "clarification"
        BY <2>2, AClarification DEF Outline, Says, Own
    <2>3. CASE s = "normalization"
        <3>1. CASE title = "normalised"
            BY <2>3, <3>1, ARequirementNormalization DEF Outline, Says, Own
        <3>2. CASE title # "normalised"
            <4>1. title \in AProfile["clarification"].hands_on
                BY <2>3, <3>2, ARequirementNormalization, AClarification DEF Outline
            <4> QED
                BY <2>3, <4>1, ABefore DEF Handed
        <3> QED
            BY <3>1, <3>2
    <2>4. CASE s = "task_planning"
        BY <2>4, ATaskPlanning, ARequirementNormalization, ABefore
        DEF Outline, Says, Own, Handed
    <2>5. CASE s = "validation"
        BY <2>5, AAmbiguousValidation DEF Outline, Says, Own
    <2> QED
        BY AStagesAre, <2>1, <2>2, <2>3, <2>4, <2>5
<1> QED
    BY <1>1 DEF HandedOnHeld

\* What is downstream of a stage that names it as downstream.
LEMMA ADownstream ==
    /\ \A t \in {"clarification", "normalization", "task_planning"} :
           Leads(AStages, ADependencies, "ambiguity_detection", t)
    /\ \A t \in {"normalization", "task_planning"} :
           Leads(AStages, ADependencies, "clarification", t)
    /\ \A t \in {"task_planning"} :
           Leads(AStages, ADependencies, "normalization", t)
<1>1. ASSUME NEW s \in AStages, NEW t \in AStages, <<s, t>> \in ADependencies
      PROVE  /\ Leads(AStages, ADependencies, s, t)
             /\ \A r \in AStages : Leads(AStages, ADependencies, r, s) =>
                                    Leads(AStages, ADependencies, r, t)
    BY <1>1, LeadsAlong
<1>2. \A t \in {"clarification", "normalization", "task_planning"} :
          Leads(AStages, ADependencies, "ambiguity_detection", t)
    BY <1>1, AEdges, AStagesAre
<1>3. \A t \in {"normalization", "task_planning"} :
          Leads(AStages, ADependencies, "clarification", t)
    BY <1>1, AEdges, AStagesAre
<1>4. \A t \in {"task_planning"} :
          Leads(AStages, ADependencies, "normalization", t)
    BY <1>1, AEdges, AStagesAre
<1> QED
    BY <1>2, <1>3, <1>4

\* A stage that names one of its own round is not the first to name it.
LEMMA ADriversUpstream == DriversUpstream(AStages, ADependencies, AProfile)
<1>1. ASSUME NEW s \in AStages, NEW t \in AStages, Naming(AProfile, s, t)
      PROVE  \/ Leads(AStages, ADependencies, s, t)
             \/ \E u \in Before(AStages, ADependencies, s) :
                    Naming(AProfile, u, t) /\ Leads(AStages, ADependencies, u, t)
    <2>1. CASE s = "ambiguity_detection"
        BY <2>1, <1>1, ADownstream, AAmbiguityDetection DEF Outline, Says, Naming
    <2>2. CASE s = "clarification"
        BY <2>2, <1>1, ADownstream, AQuestions DEF Naming
    <2>3. CASE s = "normalization"
        BY <2>3, <1>1, ADownstream, ARequirementNormalization
        DEF Outline, Says, Naming
    <2>4. CASE s = "task_planning"
        BY <2>4, <1>1, ATaskPlanning DEF Outline, Says, Naming
    <2>5. CASE s = "validation"
        BY <2>5, <1>1, AAmbiguousValidation DEF Outline, Says, Naming
    <2> QED
        BY AStagesAre, <2>1, <2>2, <2>3, <2>4, <2>5
<1> QED
    BY <1>1 DEF DriversUpstream

\* The decisions of each stage are a sequence.
LEMMA ADecisionsListed == DecisionsListed(AStages, AProfile)
<1>1. ASSUME NEW s \in AStages
      PROVE  /\ AProfile[s].decides \in
                    Seq({AProfile[s].decides[i] : i \in DOMAIN AProfile[s].decides})
             /\ AProfile[s].least \in Nat
    <2>1. CASE s = "ambiguity_detection"
        BY <2>1, AAmbiguityDetection DEF Outline
    <2>2. CASE s = "clarification"
        BY <2>2, AClarification DEF Outline
    <2>3. CASE s = "normalization"
        BY <2>3, ARequirementNormalization DEF Outline
    <2>4. CASE s = "task_planning"
        BY <2>4, ATaskPlanning DEF Outline
    <2>5. CASE s = "validation"
        BY <2>5, AAmbiguousValidation DEF Outline
    <2> QED
        BY AStagesAre, <2>1, <2>2, <2>3, <2>4, <2>5
<1> QED
    BY <1>1 DEF DecisionsListed

=============================================================================
