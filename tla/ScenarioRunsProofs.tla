------------------------- MODULE ScenarioRunsProofs -------------------------
(***************************************************************************)
(* The theorems of Scenario for the three scenarios, as they are run: their*)
(* settings are what the engine assumes, their stages fit together, and so *)
(* the invariant of ScenarioProofs holds of whichever is run.              *)
(***************************************************************************)
EXTENDS ScenarioRuns, ScenarioSettingsProofs

-----------------------------------------------------------------------------
(* Greenfield.                                                             *)

\* What the scenario is run with is what the engine assumes.
LEMMA GAssumed ==
    /\ Greenfield!IsFiniteSet(GStages) /\ Greenfield!ValidGraph
    /\ GOverrides \in [GStages -> Greenfield!RetryPolicy \cup {Inherited}]
    /\ EngineRetryPolicy \in Greenfield!RetryPolicy
    /\ Inherited \notin Greenfield!RetryPolicy
    /\ Mro \in [Exceptions -> SUBSET ErrorTypes]
    /\ GApproved \subseteq GStages
    /\ GImpacts \in [GStages -> Greenfield!Impact]
    /\ ApprovalThreshold \in Greenfield!Impact /\ CriticalThreshold \in Greenfield!Impact
    /\ GatewayOutcomes \subseteq {"approve", "reject", "raise"}
    /\ GEvaluations \in [GStages -> (SUBSET Greenfield!PolicyDecision) \ {{}}]
    /\ RollbackOutcomes \subseteq {"same", "copy", "raise"}
    /\ MaxReplans \in Nat /\ Requirement \notin GStages
<1>1. DOMAIN GProfile = GStages /\ \A s \in GStages : Documented(GProfile[s])
    BY GStagesAre, GRequirementsAnalysis, GArchitectureDesign, GTaskDecomposition,
       GImplementationPlanning, GTestingPlanning, GDocumentationPlanning, GValidation,
       GReleaseReadiness
    DEF GProfile, GStages, G!Stages
<1>2. GOverrides \in [GStages -> Greenfield!RetryPolicy \cup {Inherited}]
    BY <1>1 DEF GOverrides, Overrides
<1>3. EngineRetryPolicy \in Greenfield!RetryPolicy /\ Inherited \notin Greenfield!RetryPolicy
    BY ScenariosAssumption
    DEF EngineRetryPolicy, ErrorTypes, Greenfield!RetryPolicy
<1>4. Mro \in [Exceptions -> SUBSET ErrorTypes]
    BY DEF Mro, Exceptions, ErrorTypes
<1>5. GApproved \subseteq GStages
    BY <1>1 DEF GApproved, Approved
<1>6. GImpacts \in [GStages -> Greenfield!Impact]
    BY <1>1 DEF GImpacts, Impacts, Documented, Greenfield!Impact
<1>7. GEvaluations \in [GStages -> (SUBSET Greenfield!PolicyDecision) \ {{}}]
    BY <1>1, NeverBlocked DEF GEvaluations, Evaluations, Greenfield!PolicyDecision
<1>8. Greenfield!IsFiniteSet(GStages)
    BY GListed DEF Greenfield!IsFiniteSet
<1>9. Greenfield!ValidGraph
    BY GStagesAre, GEdges, GAcyclic
    DEF Greenfield!ValidGraph, Greenfield!EdgesDeclared, Greenfield!IsAcyclic
<1> QED
    BY <1>2, <1>3, <1>4, <1>5, <1>6, <1>7, <1>8, <1>9, ScenariosAssumption
    DEF ApprovalThreshold, CriticalThreshold, GatewayOutcomes, RollbackOutcomes, Greenfield!Impact

\* Downstream, as the edges lead and as replan() sees it.
LEMMA GReaches ==
    /\ \A s \in GStages : Greenfield!Predecessors(s) = Before(GStages, GDependencies, s)
    /\ \A s \in GStages : \A p \in Greenfield!Predecessors(s) :
           p \in Greenfield!Ancestors[s] \cap GStages
    /\ \A s \in GStages : \A t \in GStages :
           Leads(GStages, GDependencies, s, t) => t \in Greenfield!ReachableFrom(s)
<1>1. \A s : Greenfield!Predecessors(s) = Before(GStages, GDependencies, s)
    BY DEF Greenfield!Predecessors, Before
<1>2. ASSUME NEW s \in GStages
      PROVE  /\ Greenfield!ReachableFrom(s) \subseteq GStages
             /\ Greenfield!Closed(Greenfield!ReachableFrom(s))
             /\ Greenfield!Successors(s) \subseteq Greenfield!ReachableFrom(s)
    BY GAssumed, Greenfield!ReachableClosed
<1>3. ASSUME NEW s \in GStages, NEW t \in GStages
      PROVE  t \in Greenfield!Successors(s) <=> <<s, t>> \in GDependencies
    BY DEF Greenfield!Successors, Greenfield!Predecessors
<1>4. ASSUME NEW s \in GStages, NEW p \in Greenfield!Predecessors(s)
      PROVE  p \in Greenfield!Ancestors[s] \cap GStages
    <2>1. p \in GStages /\ s \in Greenfield!ReachableFrom(p)
        BY <1>2 DEF Greenfield!Successors, Greenfield!Predecessors
    <2> QED
        BY <2>1 DEF Greenfield!ReachableFrom
<1>5. ASSUME NEW s \in GStages, NEW t \in GStages, Leads(GStages, GDependencies, s, t)
      PROVE  t \in Greenfield!ReachableFrom(s)
    <2> DEFINE C == Greenfield!ReachableFrom(s)
    <2>1. C \in SUBSET GStages
        BY <1>2
    <2>2. \A u \in GStages : <<s, u>> \in GDependencies => u \in C
        BY <1>2, <1>3
    <2>3. \A r \in C : \A u \in GStages : <<r, u>> \in GDependencies => u \in C
        BY <1>2, <1>3, <2>1 DEF Greenfield!Closed
    <2> HIDE DEF C
    <2>4. t \in C
        BY <1>5, <2>1, <2>2, <2>3 DEF Leads
    <2> QED
        BY <2>4 DEF C
<1> QED
    BY <1>1, <1>4, <1>5

\* The stages of the scenario fit together.
LEMMA GFits == Greenfield!ProfileFits
<1>1. \A s \in GStages :
          Greenfield!IsSequence(GProfile[s].decides) /\ GProfile[s].least \in Nat
    BY GDecisionsListed DEF DecisionsListed, Greenfield!IsSequence
<1>2. Greenfield!GatesFit
    BY GGatesContent, GReaches DEF GatesContent, Greenfield!GatesFit
<1>3. Greenfield!TitlesFit
    BY GTitlesDistinct DEF TitlesDistinct, Greenfield!TitlesFit
<1>4. ASSUME NEW s \in GStages, NEW title
      PROVE  /\ Greenfield!OwnTitle(s, title) <=> Own(GProfile, s, title)
             /\ Greenfield!FromPredecessor(s, title) <=>
                    Handed(GStages, GDependencies, GProfile, s, title)
    BY GReaches DEF Own, Handed, Greenfield!OwnTitle, Greenfield!FromPredecessor
<1>5. Greenfield!ParentsFit
    BY <1>4, GParentsKnown DEF ParentsKnown, Greenfield!ParentsFit
<1>6. Greenfield!HandsOnFit
    BY <1>4, GHandedOnHeld DEF HandedOnHeld, Greenfield!HandsOnFit
<1>7. \A s, t : Greenfield!Names(s, t) <=> Naming(GProfile, s, t)
    BY DEF Naming, Greenfield!Names
<1>8. Greenfield!DriversFit
    <2>1. ASSUME NEW s \in GStages, NEW t \in GStages, Greenfield!Names(s, t)
          PROVE  \/ t \in Greenfield!ReachableFrom(s)
                 \/ \E u \in Greenfield!Ancestors[s] \cap GStages :
                        Greenfield!Names(u, t) /\ t \in Greenfield!ReachableFrom(u)
        <3>1. CASE Leads(GStages, GDependencies, s, t)
            BY <3>1, GReaches
        <3>2. CASE ~Leads(GStages, GDependencies, s, t)
            <4>1. PICK u \in Greenfield!Predecessors(s) :
                      Naming(GProfile, u, t) /\ Leads(GStages, GDependencies, u, t)
                BY <1>7, <2>1, <3>2, GDriversUpstream, GReaches DEF DriversUpstream
            <4>2. u \in Greenfield!Ancestors[s] \cap GStages
                BY GReaches
            <4> QED
                BY <1>7, <4>1, <4>2, GReaches
        <3> QED
            BY <3>1, <3>2
    <2> QED
        BY <2>1 DEF Greenfield!DriversFit
<1> QED
    BY <1>1, <1>2, <1>3, <1>5, <1>6, <1>8 DEF Greenfield!ProfileFits

-----------------------------------------------------------------------------
(* Brownfield.                                                             *)

\* What the scenario is run with is what the engine assumes.
LEMMA BAssumed ==
    /\ Brownfield!IsFiniteSet(BStages) /\ Brownfield!ValidGraph
    /\ BOverrides \in [BStages -> Brownfield!RetryPolicy \cup {Inherited}]
    /\ EngineRetryPolicy \in Brownfield!RetryPolicy
    /\ Inherited \notin Brownfield!RetryPolicy
    /\ Mro \in [Exceptions -> SUBSET ErrorTypes]
    /\ BApproved \subseteq BStages
    /\ BImpacts \in [BStages -> Brownfield!Impact]
    /\ ApprovalThreshold \in Brownfield!Impact /\ CriticalThreshold \in Brownfield!Impact
    /\ GatewayOutcomes \subseteq {"approve", "reject", "raise"}
    /\ BEvaluations \in [BStages -> (SUBSET Brownfield!PolicyDecision) \ {{}}]
    /\ RollbackOutcomes \subseteq {"same", "copy", "raise"}
    /\ MaxReplans \in Nat /\ Requirement \notin BStages
<1>1. DOMAIN BProfile = BStages /\ \A s \in BStages : Documented(BProfile[s])
    BY BStagesAre, BCodebaseAnalysis, BImpactAnalysis, BRiskAssessment, BChangePlanning,
       BRegressionTestPlanning, BBrownfieldValidation
    DEF BProfile, BStages, B!Stages
<1>2. BOverrides \in [BStages -> Brownfield!RetryPolicy \cup {Inherited}]
    BY <1>1 DEF BOverrides, Overrides
<1>3. EngineRetryPolicy \in Brownfield!RetryPolicy /\ Inherited \notin Brownfield!RetryPolicy
    BY ScenariosAssumption
    DEF EngineRetryPolicy, ErrorTypes, Brownfield!RetryPolicy, Greenfield!RetryPolicy
<1>4. Mro \in [Exceptions -> SUBSET ErrorTypes]
    BY DEF Mro, Exceptions, ErrorTypes
<1>5. BApproved \subseteq BStages
    BY <1>1 DEF BApproved, Approved
<1>6. BImpacts \in [BStages -> Brownfield!Impact]
    BY <1>1 DEF BImpacts, Impacts, Documented, Brownfield!Impact
<1>7. BEvaluations \in [BStages -> (SUBSET Brownfield!PolicyDecision) \ {{}}]
    BY <1>1, NeverBlocked DEF BEvaluations, Evaluations, Brownfield!PolicyDecision
<1>8. Brownfield!IsFiniteSet(BStages)
    BY BListed DEF Brownfield!IsFiniteSet
<1>9. Brownfield!ValidGraph
    BY BStagesAre, BEdges, BAcyclic
    DEF Brownfield!ValidGraph, Brownfield!EdgesDeclared, Brownfield!IsAcyclic
<1> QED
    BY <1>2, <1>3, <1>4, <1>5, <1>6, <1>7, <1>8, <1>9, ScenariosAssumption
    DEF ApprovalThreshold, CriticalThreshold, GatewayOutcomes, RollbackOutcomes, Brownfield!Impact

\* Downstream, as the edges lead and as replan() sees it.
LEMMA BReaches ==
    /\ \A s \in BStages : Brownfield!Predecessors(s) = Before(BStages, BDependencies, s)
    /\ \A s \in BStages : \A p \in Brownfield!Predecessors(s) :
           p \in Brownfield!Ancestors[s] \cap BStages
    /\ \A s \in BStages : \A t \in BStages :
           Leads(BStages, BDependencies, s, t) => t \in Brownfield!ReachableFrom(s)
<1>1. \A s : Brownfield!Predecessors(s) = Before(BStages, BDependencies, s)
    BY DEF Brownfield!Predecessors, Before
<1>2. ASSUME NEW s \in BStages
      PROVE  /\ Brownfield!ReachableFrom(s) \subseteq BStages
             /\ Brownfield!Closed(Brownfield!ReachableFrom(s))
             /\ Brownfield!Successors(s) \subseteq Brownfield!ReachableFrom(s)
    BY BAssumed, Brownfield!ReachableClosed
<1>3. ASSUME NEW s \in BStages, NEW t \in BStages
      PROVE  t \in Brownfield!Successors(s) <=> <<s, t>> \in BDependencies
    BY DEF Brownfield!Successors, Brownfield!Predecessors
<1>4. ASSUME NEW s \in BStages, NEW p \in Brownfield!Predecessors(s)
      PROVE  p \in Brownfield!Ancestors[s] \cap BStages
    <2>1. p \in BStages /\ s \in Brownfield!ReachableFrom(p)
        BY <1>2 DEF Brownfield!Successors, Brownfield!Predecessors
    <2> QED
        BY <2>1 DEF Brownfield!ReachableFrom
<1>5. ASSUME NEW s \in BStages, NEW t \in BStages, Leads(BStages, BDependencies, s, t)
      PROVE  t \in Brownfield!ReachableFrom(s)
    <2> DEFINE C == Brownfield!ReachableFrom(s)
    <2>1. C \in SUBSET BStages
        BY <1>2
    <2>2. \A u \in BStages : <<s, u>> \in BDependencies => u \in C
        BY <1>2, <1>3
    <2>3. \A r \in C : \A u \in BStages : <<r, u>> \in BDependencies => u \in C
        BY <1>2, <1>3, <2>1 DEF Brownfield!Closed
    <2> HIDE DEF C
    <2>4. t \in C
        BY <1>5, <2>1, <2>2, <2>3 DEF Leads
    <2> QED
        BY <2>4 DEF C
<1> QED
    BY <1>1, <1>4, <1>5

\* The stages of the scenario fit together.
LEMMA BFits == Brownfield!ProfileFits
<1>1. \A s \in BStages :
          Brownfield!IsSequence(BProfile[s].decides) /\ BProfile[s].least \in Nat
    BY BDecisionsListed DEF DecisionsListed, Brownfield!IsSequence
<1>2. Brownfield!GatesFit
    BY BGatesContent, BReaches DEF GatesContent, Brownfield!GatesFit
<1>3. Brownfield!TitlesFit
    BY BTitlesDistinct DEF TitlesDistinct, Brownfield!TitlesFit
<1>4. ASSUME NEW s \in BStages, NEW title
      PROVE  /\ Brownfield!OwnTitle(s, title) <=> Own(BProfile, s, title)
             /\ Brownfield!FromPredecessor(s, title) <=>
                    Handed(BStages, BDependencies, BProfile, s, title)
    BY BReaches DEF Own, Handed, Brownfield!OwnTitle, Brownfield!FromPredecessor
<1>5. Brownfield!ParentsFit
    BY <1>4, BParentsKnown DEF ParentsKnown, Brownfield!ParentsFit
<1>6. Brownfield!HandsOnFit
    BY <1>4, BHandedOnHeld DEF HandedOnHeld, Brownfield!HandsOnFit
<1>7. \A s, t : Brownfield!Names(s, t) <=> Naming(BProfile, s, t)
    BY DEF Naming, Brownfield!Names
<1>8. Brownfield!DriversFit
    <2>1. ASSUME NEW s \in BStages, NEW t \in BStages, Brownfield!Names(s, t)
          PROVE  \/ t \in Brownfield!ReachableFrom(s)
                 \/ \E u \in Brownfield!Ancestors[s] \cap BStages :
                        Brownfield!Names(u, t) /\ t \in Brownfield!ReachableFrom(u)
        <3>1. CASE Leads(BStages, BDependencies, s, t)
            BY <3>1, BReaches
        <3>2. CASE ~Leads(BStages, BDependencies, s, t)
            <4>1. PICK u \in Brownfield!Predecessors(s) :
                      Naming(BProfile, u, t) /\ Leads(BStages, BDependencies, u, t)
                BY <1>7, <2>1, <3>2, BDriversUpstream, BReaches DEF DriversUpstream
            <4>2. u \in Brownfield!Ancestors[s] \cap BStages
                BY BReaches
            <4> QED
                BY <1>7, <4>1, <4>2, BReaches
        <3> QED
            BY <3>1, <3>2
    <2> QED
        BY <2>1 DEF Brownfield!DriversFit
<1> QED
    BY <1>1, <1>2, <1>3, <1>5, <1>6, <1>8 DEF Brownfield!ProfileFits

-----------------------------------------------------------------------------
(* Ambiguous.                                                              *)

\* What the scenario is run with is what the engine assumes.
LEMMA AAssumed ==
    /\ Ambiguous!IsFiniteSet(AStages) /\ Ambiguous!ValidGraph
    /\ AOverrides \in [AStages -> Ambiguous!RetryPolicy \cup {Inherited}]
    /\ EngineRetryPolicy \in Ambiguous!RetryPolicy
    /\ Inherited \notin Ambiguous!RetryPolicy
    /\ Mro \in [Exceptions -> SUBSET ErrorTypes]
    /\ AApproved \subseteq AStages
    /\ AImpacts \in [AStages -> Ambiguous!Impact]
    /\ ApprovalThreshold \in Ambiguous!Impact /\ CriticalThreshold \in Ambiguous!Impact
    /\ GatewayOutcomes \subseteq {"approve", "reject", "raise"}
    /\ AEvaluations \in [AStages -> (SUBSET Ambiguous!PolicyDecision) \ {{}}]
    /\ RollbackOutcomes \subseteq {"same", "copy", "raise"}
    /\ MaxReplans \in Nat /\ Requirement \notin AStages
<1>1. DOMAIN AProfile = AStages /\ \A s \in AStages : Documented(AProfile[s])
    BY AStagesAre, AAmbiguityDetection, AClarification, ARequirementNormalization,
       ATaskPlanning, AAmbiguousValidation
    DEF AProfile, AStages, A!Stages
<1>2. AOverrides \in [AStages -> Ambiguous!RetryPolicy \cup {Inherited}]
    BY <1>1 DEF AOverrides, Overrides
<1>3. EngineRetryPolicy \in Ambiguous!RetryPolicy /\ Inherited \notin Ambiguous!RetryPolicy
    BY ScenariosAssumption
    DEF EngineRetryPolicy, ErrorTypes, Ambiguous!RetryPolicy, Greenfield!RetryPolicy
<1>4. Mro \in [Exceptions -> SUBSET ErrorTypes]
    BY DEF Mro, Exceptions, ErrorTypes
<1>5. AApproved \subseteq AStages
    BY <1>1 DEF AApproved, Approved
<1>6. AImpacts \in [AStages -> Ambiguous!Impact]
    BY <1>1 DEF AImpacts, Impacts, Documented, Ambiguous!Impact
<1>7. AEvaluations \in [AStages -> (SUBSET Ambiguous!PolicyDecision) \ {{}}]
    BY <1>1, NeverBlocked DEF AEvaluations, Evaluations, Ambiguous!PolicyDecision
<1>8. Ambiguous!IsFiniteSet(AStages)
    BY AListed DEF Ambiguous!IsFiniteSet
<1>9. Ambiguous!ValidGraph
    BY AStagesAre, AEdges, AAcyclic
    DEF Ambiguous!ValidGraph, Ambiguous!EdgesDeclared, Ambiguous!IsAcyclic
<1> QED
    BY <1>2, <1>3, <1>4, <1>5, <1>6, <1>7, <1>8, <1>9, ScenariosAssumption
    DEF ApprovalThreshold, CriticalThreshold, GatewayOutcomes, RollbackOutcomes, Ambiguous!Impact

\* Downstream, as the edges lead and as replan() sees it.
LEMMA AReaches ==
    /\ \A s \in AStages : Ambiguous!Predecessors(s) = Before(AStages, ADependencies, s)
    /\ \A s \in AStages : \A p \in Ambiguous!Predecessors(s) :
           p \in Ambiguous!Ancestors[s] \cap AStages
    /\ \A s \in AStages : \A t \in AStages :
           Leads(AStages, ADependencies, s, t) => t \in Ambiguous!ReachableFrom(s)
<1>1. \A s : Ambiguous!Predecessors(s) = Before(AStages, ADependencies, s)
    BY DEF Ambiguous!Predecessors, Before
<1>2. ASSUME NEW s \in AStages
      PROVE  /\ Ambiguous!ReachableFrom(s) \subseteq AStages
             /\ Ambiguous!Closed(Ambiguous!ReachableFrom(s))
             /\ Ambiguous!Successors(s) \subseteq Ambiguous!ReachableFrom(s)
    BY AAssumed, Ambiguous!ReachableClosed
<1>3. ASSUME NEW s \in AStages, NEW t \in AStages
      PROVE  t \in Ambiguous!Successors(s) <=> <<s, t>> \in ADependencies
    BY DEF Ambiguous!Successors, Ambiguous!Predecessors
<1>4. ASSUME NEW s \in AStages, NEW p \in Ambiguous!Predecessors(s)
      PROVE  p \in Ambiguous!Ancestors[s] \cap AStages
    <2>1. p \in AStages /\ s \in Ambiguous!ReachableFrom(p)
        BY <1>2 DEF Ambiguous!Successors, Ambiguous!Predecessors
    <2> QED
        BY <2>1 DEF Ambiguous!ReachableFrom
<1>5. ASSUME NEW s \in AStages, NEW t \in AStages, Leads(AStages, ADependencies, s, t)
      PROVE  t \in Ambiguous!ReachableFrom(s)
    <2> DEFINE C == Ambiguous!ReachableFrom(s)
    <2>1. C \in SUBSET AStages
        BY <1>2
    <2>2. \A u \in AStages : <<s, u>> \in ADependencies => u \in C
        BY <1>2, <1>3
    <2>3. \A r \in C : \A u \in AStages : <<r, u>> \in ADependencies => u \in C
        BY <1>2, <1>3, <2>1 DEF Ambiguous!Closed
    <2> HIDE DEF C
    <2>4. t \in C
        BY <1>5, <2>1, <2>2, <2>3 DEF Leads
    <2> QED
        BY <2>4 DEF C
<1> QED
    BY <1>1, <1>4, <1>5

\* The stages of the scenario fit together.
LEMMA AFits == Ambiguous!ProfileFits
<1>1. \A s \in AStages :
          Ambiguous!IsSequence(AProfile[s].decides) /\ AProfile[s].least \in Nat
    BY ADecisionsListed DEF DecisionsListed, Ambiguous!IsSequence
<1>2. Ambiguous!GatesFit
    BY AGatesContent, AReaches DEF GatesContent, Ambiguous!GatesFit
<1>3. Ambiguous!TitlesFit
    BY ATitlesDistinct DEF TitlesDistinct, Ambiguous!TitlesFit
<1>4. ASSUME NEW s \in AStages, NEW title
      PROVE  /\ Ambiguous!OwnTitle(s, title) <=> Own(AProfile, s, title)
             /\ Ambiguous!FromPredecessor(s, title) <=>
                    Handed(AStages, ADependencies, AProfile, s, title)
    BY AReaches DEF Own, Handed, Ambiguous!OwnTitle, Ambiguous!FromPredecessor
<1>5. Ambiguous!ParentsFit
    BY <1>4, AParentsKnown DEF ParentsKnown, Ambiguous!ParentsFit
<1>6. Ambiguous!HandsOnFit
    BY <1>4, AHandedOnHeld DEF HandedOnHeld, Ambiguous!HandsOnFit
<1>7. \A s, t : Ambiguous!Names(s, t) <=> Naming(AProfile, s, t)
    BY DEF Naming, Ambiguous!Names
<1>8. Ambiguous!DriversFit
    <2>1. ASSUME NEW s \in AStages, NEW t \in AStages, Ambiguous!Names(s, t)
          PROVE  \/ t \in Ambiguous!ReachableFrom(s)
                 \/ \E u \in Ambiguous!Ancestors[s] \cap AStages :
                        Ambiguous!Names(u, t) /\ t \in Ambiguous!ReachableFrom(u)
        <3>1. CASE Leads(AStages, ADependencies, s, t)
            BY <3>1, AReaches
        <3>2. CASE ~Leads(AStages, ADependencies, s, t)
            <4>1. PICK u \in Ambiguous!Predecessors(s) :
                      Naming(AProfile, u, t) /\ Leads(AStages, ADependencies, u, t)
                BY <1>7, <2>1, <3>2, ADriversUpstream, AReaches DEF DriversUpstream
            <4>2. u \in Ambiguous!Ancestors[s] \cap AStages
                BY AReaches
            <4> QED
                BY <1>7, <4>1, <4>2, AReaches
        <3> QED
            BY <3>1, <3>2
    <2> QED
        BY <2>1 DEF Ambiguous!DriversFit
<1> QED
    BY <1>1, <1>2, <1>3, <1>5, <1>6, <1>8 DEF Ambiguous!ProfileFits

-----------------------------------------------------------------------------
(* The three together: the invariant of the scenario that is run.          *)

\* The invariant of the scenario that is run.
ScenariosInvariant ==
    /\ scenario = "greenfield" => Greenfield!ScenarioInvariant
    /\ scenario = "brownfield" => Brownfield!ScenarioInvariant
    /\ scenario = "ambiguous" => Ambiguous!ScenarioInvariant

\* A step is one of the scenario that is run, and another one never starts.
LEMMA StepOfItsScenario ==
    ASSUME [ScenariosNext]_runVars
    PROVE  /\ scenario' = scenario
           /\ scenario = "greenfield" => [Greenfield!ScenarioNext]_Greenfield!scenarioVars
           /\ scenario = "brownfield" => [Brownfield!ScenarioNext]_Brownfield!scenarioVars
           /\ scenario = "ambiguous" => [Ambiguous!ScenarioNext]_Ambiguous!scenarioVars
<1>1. CASE ScenariosNext
    BY <1>1 DEF ScenariosNext
<1>2. CASE UNCHANGED runVars
    <2>1. UNCHANGED Greenfield!scenarioVars /\ UNCHANGED scenario
        BY <1>2 DEF runVars
    <2>2. UNCHANGED Brownfield!scenarioVars
        BY <2>1
        DEF Greenfield!scenarioVars, Greenfield!allVars, Greenfield!lineageVars,
            Greenfield!vars, Greenfield!replanVars,
            Greenfield!runVars, Greenfield!outcomeVars, Greenfield!gateVars, Greenfield!contextVars,
            Brownfield!scenarioVars, Brownfield!allVars, Brownfield!lineageVars,
            Brownfield!vars, Brownfield!replanVars,
            Brownfield!runVars, Brownfield!outcomeVars, Brownfield!gateVars, Brownfield!contextVars
    <2>3. UNCHANGED Ambiguous!scenarioVars
        BY <2>1
        DEF Greenfield!scenarioVars, Greenfield!allVars, Greenfield!lineageVars,
            Greenfield!vars, Greenfield!replanVars,
            Greenfield!runVars, Greenfield!outcomeVars, Greenfield!gateVars, Greenfield!contextVars,
            Ambiguous!scenarioVars, Ambiguous!allVars, Ambiguous!lineageVars,
            Ambiguous!vars, Ambiguous!replanVars,
            Ambiguous!runVars, Ambiguous!outcomeVars, Ambiguous!gateVars, Ambiguous!contextVars
    <2> QED
        BY <2>1, <2>2, <2>3
<1> QED
    BY <1>1, <1>2

\* It holds when a scenario starts ...
LEMMA ScenariosInvariantInit == ScenariosInit => ScenariosInvariant
<1> SUFFICES ASSUME ScenariosInit
             PROVE  ScenariosInvariant
    OBVIOUS
<1>1. scenario = "greenfield" => Greenfield!ScenarioInit
    BY DEF ScenariosInit, RunGreenfield, RunBrownfield, RunAmbiguous
<1>4. Greenfield!ScenarioInit => Greenfield!ScenarioInvariant
    BY GAssumed, Greenfield!ScenarioInvariantInit
<1>2. scenario = "brownfield" => Brownfield!ScenarioInit
    BY DEF ScenariosInit, RunGreenfield, RunBrownfield, RunAmbiguous
<1>5. Brownfield!ScenarioInit => Brownfield!ScenarioInvariant
    BY BAssumed, Brownfield!ScenarioInvariantInit
<1>3. scenario = "ambiguous" => Ambiguous!ScenarioInit
    BY DEF ScenariosInit, RunGreenfield, RunBrownfield, RunAmbiguous
<1>6. Ambiguous!ScenarioInit => Ambiguous!ScenarioInvariant
    BY AAssumed, Ambiguous!ScenarioInvariantInit
<1> QED
    BY <1>1, <1>2, <1>3, <1>4, <1>5, <1>6 DEF ScenariosInvariant

\* ... and every step preserves it.
LEMMA ScenariosInvariantNext ==
    ScenariosInvariant /\ [ScenariosNext]_runVars => ScenariosInvariant'
<1> SUFFICES ASSUME ScenariosInvariant, [ScenariosNext]_runVars
             PROVE  ScenariosInvariant'
    OBVIOUS
<1>1. Greenfield!ScenarioInvariant /\ [Greenfield!ScenarioNext]_Greenfield!scenarioVars
          => Greenfield!ScenarioInvariant'
    BY GAssumed, GFits, Greenfield!ScenarioInvariantNext
<1>2. Brownfield!ScenarioInvariant /\ [Brownfield!ScenarioNext]_Brownfield!scenarioVars
          => Brownfield!ScenarioInvariant'
    BY BAssumed, BFits, Brownfield!ScenarioInvariantNext
<1>3. Ambiguous!ScenarioInvariant /\ [Ambiguous!ScenarioNext]_Ambiguous!scenarioVars
          => Ambiguous!ScenarioInvariant'
    BY AAssumed, AFits, Ambiguous!ScenarioInvariantNext
<1> QED
    BY <1>1, <1>2, <1>3, StepOfItsScenario DEF ScenariosInvariant

\* Whichever scenario is run, its invariant holds, at the first run and however
\* often it is replanned.
THEOREM ScenariosInvariantCorrect == ScenariosSpec => []ScenariosInvariant
    BY ScenariosInvariantInit, ScenariosInvariantNext, PTL DEF ScenariosSpec

\* In each of the three workflows no decision id that a stage was handed on and
\* no parent is left dangling, and every decision is traced to a root.
THEOREM ScenariosLineageClosedAlways == ScenariosSpec => []ScenariosLineageClosed
<1>1. ScenariosInvariant => ScenariosLineageClosed
    <2>1. Greenfield!ScenarioInvariant => Greenfield!LineageClosed
        BY GAssumed, GFits, Greenfield!LineageOfInvariant
    <2>2. Brownfield!ScenarioInvariant => Brownfield!LineageClosed
        BY BAssumed, BFits, Brownfield!LineageOfInvariant
    <2>3. Ambiguous!ScenarioInvariant => Ambiguous!LineageClosed
        BY AAssumed, AFits, Ambiguous!LineageOfInvariant
    <2> QED
        BY <2>1, <2>2, <2>3 DEF ScenariosInvariant, ScenariosLineageClosed
<1> QED
    BY <1>1, ScenariosInvariantCorrect, PTL

\* In each of the three workflows the decision reported to have driven a stage is
\* one of a stage upstream.
THEOREM ScenariosDriverPrecedesAlways == ScenariosSpec => []ScenariosDriverPrecedes
<1>1. ScenariosInvariant => ScenariosDriverPrecedes
    <2>1. Greenfield!ScenarioInvariant => Greenfield!DriverPrecedes
        BY GAssumed, GFits, Greenfield!DriverOfInvariant
    <2>2. Brownfield!ScenarioInvariant => Brownfield!DriverPrecedes
        BY BAssumed, BFits, Brownfield!DriverOfInvariant
    <2>3. Ambiguous!ScenarioInvariant => Ambiguous!DriverPrecedes
        BY AAssumed, AFits, Ambiguous!DriverOfInvariant
    <2> QED
        BY <2>1, <2>2, <2>3 DEF ScenariosInvariant, ScenariosDriverPrecedes
<1> QED
    BY <1>1, ScenariosInvariantCorrect, PTL

\* In each of the three workflows a stage fails only because its approval was
\* rejected: neither its gates nor governance ever stop it.
THEOREM ScenariosFailOnlyIfRejectedAlways == ScenariosSpec => ScenariosFailOnlyIfRejected
<1> DEFINE Only == /\ scenario = "greenfield" => Greenfield!FailsOnlyIfRejected
                   /\ scenario = "brownfield" => Brownfield!FailsOnlyIfRejected
                   /\ scenario = "ambiguous" => Ambiguous!FailsOnlyIfRejected
<1>1. ScenariosInvariant /\ [ScenariosNext]_runVars => Only
    <2> SUFFICES ASSUME ScenariosInvariant, [ScenariosNext]_runVars
                 PROVE  Only
        OBVIOUS
    <2>1. Greenfield!ScenarioInvariant /\ [Greenfield!ScenarioNext]_Greenfield!scenarioVars
              => Greenfield!FailsOnlyIfRejected
        BY GAssumed, GFits, Greenfield!FailsOnlyIfRejectedStep
    <2>2. Brownfield!ScenarioInvariant /\ [Brownfield!ScenarioNext]_Brownfield!scenarioVars
              => Brownfield!FailsOnlyIfRejected
        BY BAssumed, BFits, Brownfield!FailsOnlyIfRejectedStep
    <2>3. Ambiguous!ScenarioInvariant /\ [Ambiguous!ScenarioNext]_Ambiguous!scenarioVars
              => Ambiguous!FailsOnlyIfRejected
        BY AAssumed, AFits, Ambiguous!FailsOnlyIfRejectedStep
    <2> QED
        BY <2>1, <2>2, <2>3, StepOfItsScenario DEF ScenariosInvariant
<1>2. ScenariosSpec => [][Only]_runVars
    <2> HIDE DEF Only
    <2> QED
        BY <1>1, ScenariosInvariantCorrect, PTL DEF ScenariosSpec
<1> QED
    BY <1>2 DEF ScenariosFailOnlyIfRejected

=============================================================================
