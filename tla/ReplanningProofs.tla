-------------------------- MODULE ReplanningProofs --------------------------
(***************************************************************************)
(* Proofs about run() followed by any number of replan() calls, in any     *)
(* order and on any definition: types, the freshness of every stage's      *)
(* inputs, the guards in front of replanned work and what becomes of the   *)
(* contexts a replan drops.                                                *)
(***************************************************************************)
EXTENDS Replanning, WorkflowEngineProofs

-----------------------------------------------------------------------------
(* The inductive invariant.  Until run() returns it is the invariant of a  *)
(* single run; what is left of that for ever after is the rest of it.      *)

\* run() is under way.
Running == phase \in {"loop", "gather", "post_loop", "final_qc"}

\* replan() is under way and its gather has not been left by an exception.
Replans == phase \in {"replan", "replan_gather", "replan_post"}

\* Only coroutines of the current round are alive, and they were started when
\* all their inputs were there.
RoundKept ==
    /\ phase \notin {"gather", "replan_gather", "replan_raised"} => batch = {}
    /\ \A s \in Stages : pc[s] \in Awaiting => s \in batch
    /\ \A s \in Stages : pc[s] = "created" => Predecessors(s) \subseteq completed
    /\ \A s \in completed : pc[s] = "returned_true"

\* replan() knows where every coroutine of an impacted stage is, and which of
\* the other stages it preserves.
ReplanBookkeeping ==
    /\ phase \in ReplanPhase => batch \subseteq ImpactedStages
    /\ phase = "replan" => failed = {}
    /\ Replans =>
           /\ replan_count < MaxReplans
           /\ \A s \in ImpactedStages : pc[s] = "idle" <=> s \notin completed \cup failed \cup batch
           /\ \A p \in Stages \ ImpactedStages : p \in completed <=> stages[p].status = "completed"
    /\ phase = "replan_post" => failed # {} \/ safe_stopped \/ ReadyToReplan = {}

\* The ExecutionContext holds what the contexts hand on.
OutputsKept ==
    \A s \in completed \cup batch : pc[s] = "returned_true" => stage_outputs[s] = OutputOf(s)

\* The contexts a replan builds are recorded and guarded like those of a run.
ImpactedKept ==
    phase \in ReplanPhase => \A s \in ImpactedStages : StageRecords(s) /\ Guarded(s)

\* What holds of the contexts whichever call is under way.
Aftermath ==
    /\ RoundKept
    /\ \A s \in Stages : StatusFits(s)
    /\ OutputsKept
    /\ \A s \in Stages : Traced(s)
    /\ NoStaleInput
    /\ ReplanBookkeeping
    /\ ImpactedKept
    /\ InvalidatedAccounted

ReplanInvariant ==
    /\ ReplanTypeOK
    /\ Running => RunInvariant /\ RecordsInvariant
    /\ Aftermath

-----------------------------------------------------------------------------
(* The graph.                                                              *)

LEMMA NotOwnPredecessor ==
    ASSUME NEW s \in Stages
    PROVE  s \notin Predecessors(s)
<1>1. {s} \in SUBSET Stages /\ {s} # {}
    OBVIOUS
<1>2. \E r \in {s} : \A p \in {s} : <<p, r>> \notin Dependencies
    BY <1>1, GraphAssumption DEF ValidGraph, IsAcyclic
<1> QED
    BY <1>2 DEF Predecessors

\* With every member, its predecessors.
ClosedUpstream(S) == \A t \in S : Predecessors(t) \subseteq S

\* The smallest set that is closed upstream and has the predecessors of s: it
\* shows that the recursion of Ancestors has a solution.
Upstream == [s \in Stages |->
    {p \in Stages : \A S \in SUBSET Stages :
                        ClosedUpstream(S) /\ Predecessors(s) \subseteq S => p \in S}]

LEMMA UpstreamRecursion ==
    Upstream = [s \in Stages |-> Predecessors(s) \cup UNION {Upstream[p] : p \in Predecessors(s)}]
<1> SUFFICES ASSUME NEW s \in Stages
             PROVE  Upstream[s] = Predecessors(s) \cup UNION {Upstream[p] : p \in Predecessors(s)}
    BY DEF Upstream
<1>1. \A t \in Stages : Predecessors(t) \subseteq Stages
    BY DEF Predecessors
<1>2. \A t \in Stages : Upstream[t] =
          {p \in Stages : \A S \in SUBSET Stages :
                              ClosedUpstream(S) /\ Predecessors(t) \subseteq S => p \in S}
    BY DEF Upstream
<1> DEFINE up == Predecessors(s) \cup UNION {Upstream[p] : p \in Predecessors(s)}
<1>3. up \subseteq Upstream[s]
    <2>1. Predecessors(s) \subseteq Upstream[s]
        BY <1>1, <1>2
    <2>2. ASSUME NEW p \in Predecessors(s), NEW q \in Upstream[p]
          PROVE  q \in Upstream[s]
        <3>1. p \in Stages /\ q \in Stages
            BY <1>1, <1>2, <2>2
        <3>2. ASSUME NEW S \in SUBSET Stages, ClosedUpstream(S), Predecessors(s) \subseteq S
              PROVE  q \in S
            <4>1. Predecessors(p) \subseteq S
                BY <2>2, <3>2 DEF ClosedUpstream
            <4> QED
                BY <1>2, <2>2, <3>1, <3>2, <4>1
        <3> QED
            BY <1>2, <3>1, <3>2
    <2> QED
        BY <2>1, <2>2
<1>4. Upstream[s] \subseteq up
    <2>1. up \in SUBSET Stages
        BY <1>1, <1>2
    <2>2. \A p \in Predecessors(s) : Predecessors(p) \subseteq Upstream[p]
        BY <1>1, <1>2
    <2>3. ASSUME NEW p \in Predecessors(s), NEW q \in Upstream[p]
          PROVE  Predecessors(q) \subseteq Upstream[p]
        <3>1. p \in Stages /\ q \in Stages
            BY <1>1, <1>2, <2>3
        <3>2. ASSUME NEW r \in Predecessors(q)
              PROVE  r \in Upstream[p]
            <4>1. r \in Stages
                BY <1>1, <3>1, <3>2
            <4>2. ASSUME NEW S \in SUBSET Stages, ClosedUpstream(S), Predecessors(p) \subseteq S
                  PROVE  r \in S
                <5>1. q \in S
                    BY <1>2, <2>3, <3>1, <4>2
                <5> QED
                    BY <3>2, <4>2, <5>1 DEF ClosedUpstream
            <4> QED
                BY <1>2, <3>1, <4>1, <4>2
        <3> QED
            BY <3>2
    <2>4. ClosedUpstream(up)
        BY <2>2, <2>3 DEF ClosedUpstream
    <2> QED
        BY <1>2, <2>1, <2>4
<1> QED
    BY <1>3, <1>4

\* nx.ancestors: the predecessors, and what is upstream of them.
LEMMA AncestorsRecursion ==
    ASSUME NEW s \in Stages
    PROVE  Ancestors[s] = Predecessors(s) \cup UNION {Ancestors[p] : p \in Predecessors(s)}
<1>1. \E f : f = [t \in Stages |-> Predecessors(t) \cup UNION {f[p] : p \in Predecessors(t)}]
    BY UpstreamRecursion
<1>2. Ancestors = [t \in Stages |->
                      Predecessors(t) \cup UNION {Ancestors[p] : p \in Predecessors(t)}]
    BY <1>1 DEF Ancestors
<1> QED
    BY <1>2

\* On an acyclic graph what is upstream of an ancestor is upstream.
LEMMA AncestorsTransitive ==
    ASSUME NEW s \in Stages, NEW t \in Ancestors[s] \cap Stages
    PROVE  Ancestors[t] \subseteq Ancestors[s]
<1> DEFINE Short == {r \in Stages : \E u \in Ancestors[r] \cap Stages :
                                      ~(Ancestors[u] \subseteq Ancestors[r])}
<1>1. Short = {}
    <2> SUFFICES ASSUME Short # {}
                 PROVE  FALSE
        OBVIOUS
    <2>1. PICK r \in Short : \A p \in Short : <<p, r>> \notin Dependencies
        BY GraphAssumption DEF ValidGraph, IsAcyclic
    <2>2. PICK u \in Ancestors[r] \cap Stages : ~(Ancestors[u] \subseteq Ancestors[r])
        OBVIOUS
    <2>3. \A p \in Predecessors(r) : Ancestors[p] \subseteq Ancestors[r]
        BY AncestorsRecursion
    <2>4. PICK p \in Predecessors(r) : u \in Ancestors[p]
        BY <2>2, <2>3, AncestorsRecursion
    <2>5. p \in Stages /\ p \notin Short
        BY <2>1, <2>4 DEF Predecessors
    <2>6. Ancestors[u] \subseteq Ancestors[p]
        BY <2>2, <2>4, <2>5
    <2> QED
        BY <2>2, <2>3, <2>4, <2>6
<1> QED
    BY <1>1

\* Every successor of a member is a member.
Closed(S) == \A t \in S : Successors(t) \subseteq S

\* nx.descendants is closed under dependants, and contains the direct ones.
LEMMA ReachableClosed ==
    ASSUME NEW s \in Stages
    PROVE  /\ ReachableFrom(s) \subseteq Stages
           /\ Closed(ReachableFrom(s))
           /\ Successors(s) \subseteq ReachableFrom(s)
<1>1. Successors(s) \subseteq ReachableFrom(s)
    BY AncestorsRecursion DEF Successors, ReachableFrom
<1>2. ASSUME NEW t \in ReachableFrom(s), NEW u \in Successors(t)
      PROVE  u \in ReachableFrom(s)
    <2>1. u \in Stages /\ t \in Predecessors(u) /\ s \in Ancestors[t]
        BY <1>2 DEF Successors, ReachableFrom
    <2>2. s \in Ancestors[u]
        BY <2>1, AncestorsRecursion
    <2> QED
        BY <2>1, <2>2 DEF ReachableFrom
<1> QED
    BY <1>1, <1>2 DEF Closed, ReachableFrom

LEMMA ReachableTransitive ==
    ASSUME NEW p \in Stages, NEW t \in ReachableFrom(p)
    PROVE  ReachableFrom(t) \subseteq ReachableFrom(p)
    BY AncestorsTransitive DEF ReachableFrom

\* What is impacted is so with everything that depends on it.
LEMMA ImpactedClosed ==
    ASSUME NEW origin \in Stages \cup {Requirement}
    PROVE  Impacted(origin) \subseteq Stages /\ Closed(Impacted(origin))
<1>1. CASE origin = Requirement
    BY <1>1 DEF Impacted, Closed, Successors
<1>2. CASE origin # Requirement
    BY <1>2, ReachableClosed DEF Impacted
<1> QED
    BY <1>1, <1>2

\* The predecessors of a stage that is not impacted are not impacted either.
LEMMA UpstreamKept ==
    ASSUME NEW lost, Closed(lost), NEW s \in Stages \ lost, NEW p \in Predecessors(s)
    PROVE  p \notin lost
    BY DEF Closed, Successors

-----------------------------------------------------------------------------
(* What a run leaves behind.                                               *)

LEMMA RunLeaves ==
    ReplanTypeOK /\ phase \in RunPhase /\ RunInvariant /\ RecordsInvariant => Aftermath
<1> SUFFICES ASSUME ReplanTypeOK, phase \in RunPhase, RunInvariant, RecordsInvariant
             PROVE  Aftermath
    OBVIOUS
<1>1. phase \notin ReplanPhase /\ ~Replans
    BY DEF RunPhase, ReplanPhase, Replans
<1>2. \A s \in Stages : StatusFits(s)
    BY StatusFollowsFits DEF RunInvariant
<1>3. StateTypeOK /\ Bookkeeping /\ DataFlow
    BY DEF RunInvariant, TypeOK
<1>4. RoundKept
    BY <1>3, <1>1 DEF RoundKept, Bookkeeping, DataFlow, Awaiting, ReplanPhase, StateTypeOK
<1>5. \A s \in Stages : /\ Traced(s)
                        /\ stage_outputs[s] # "absent" =>
                               pc[s] = "returned_true" /\ stage_outputs[s] = OutputOf(s)
    <2> TAKE s \in Stages
    <2>1. /\ TraceFollows(s, pc[s], stages[s], safe_stopped)
          /\ OutputFollows(pc[s], stages[s], stage_outputs[s], ArtifactsOf(s))
        BY DEF RecordsInvariant, StageRecords, RecordsFollow
    <2>2. stage_outputs[s] \in Output
        BY <1>3 DEF StateTypeOK
    <2>3. pc[s] = "returned_true" => stages[s].status \in {"completed", "skipped"}
        BY <1>2 DEF StatusFits, StatusAt
    <2> QED
        BY <2>1, <2>2, <2>3 DEF Traced, OutputFollows, OutputOf, Output
<1>6. OutputsKept
    BY <1>3, <1>5 DEF OutputsKept, DataFlow, StateTypeOK
<1>7. NoStaleInput
    <2> SUFFICES ASSUME NEW s \in Stages, stages[s].status \notin {"absent", "blocked"},
                        NEW p \in Predecessors(s)
                 PROVE  OutputOf(p) # "absent" /\ stages[s].input_data[p] = OutputOf(p)
        BY DEF NoStaleInput
    <2>1. Begun(s) /\ p \in Stages
        BY <1>2 DEF StatusFits, Begun, Predecessors
    <2> QED
        BY <1>3, <1>5, <2>1 DEF DataFlow, InputsComplete
<1>8. InvalidatedAccounted
    <2>1. phase = "returned" => \A s \in Stages : stages[s].status # "absent"
        BY DEF RunInvariant, StatusFollowsCoroutine, StatusAt
    <2>2. ImpactedStages \subseteq Stages
        BY ImpactedClosed DEF ReplanTypeOK, ImpactedStages
    <2> QED
        BY <2>1, <2>2 DEF InvalidatedAccounted
<1> QED
    BY <1>1, <1>2, <1>4, <1>5, <1>6, <1>7, <1>8
    DEF Aftermath, ReplanBookkeeping, ImpactedKept, ReplanPhase

LEMMA ReplanInvariantInit == ReplanInit => ReplanInvariant
<1> SUFFICES ASSUME ReplanInit
             PROVE  ReplanInvariant
    OBVIOUS
<1>1. RunInvariant /\ RecordsInvariant
    BY InvariantInit, RecordsInit DEF ReplanInit
<1>2. ReplanTypeOK
    <2>1. StateTypeOK /\ phase \in RunPhase
        BY <1>1 DEF RunInvariant, TypeOK
    <2>2. replan_result \in ReplanResult
        BY <2>1 DEF ReplanInit, NoResult, Result, ReplanResult, StateTypeOK
    <2> QED
        BY <2>1, <2>2, ReplanAssumption DEF ReplanTypeOK, ReplanInit
<1> QED
    BY <1>1, <1>2, RunLeaves DEF ReplanInvariant, ReplanTypeOK, RunInvariant, TypeOK

-----------------------------------------------------------------------------
(* A coroutine takes a step while a stage is replanned.                    *)

LEMMA RoundStep ==
    ASSUME ReplanInvariant, ~Running, NEW s \in Stages, StageStep(s)
    PROVE  /\ s \in batch \cap ImpactedStages
           /\ s \notin completed
           /\ phase \in {"replan_gather", "replan_raised"}
           /\ pc[s] \in Awaiting /\ pc'[s] # "idle" /\ pc'[s] # "created"
           /\ OthersKept(s)
           /\ Creates(s) \/ PassesGate(s) \/ Works(s)
           /\ StatusFits(s) /\ StageRecords(s) /\ Guarded(s)
<1>1. OthersKept(s) /\ (Creates(s) \/ PassesGate(s) \/ Works(s))
    BY StageStepEffect DEF ReplanInvariant, ReplanTypeOK
<1>2. pc[s] \in Awaiting /\ pc'[s] # "idle" /\ pc'[s] # "created"
    BY <1>1 DEF Creates, PassesGate, Works, Awaiting
<1>3. s \in batch /\ s \notin completed
    BY <1>2 DEF ReplanInvariant, Aftermath, RoundKept, Awaiting
<1>4. phase \in {"replan_gather", "replan_raised"}
    BY <1>3 DEF ReplanInvariant, Aftermath, RoundKept, Running
<1>5. s \in ImpactedStages /\ StageRecords(s) /\ Guarded(s)
    BY <1>3, <1>4 DEF ReplanInvariant, Aftermath, ReplanBookkeeping, ImpactedKept, ReplanPhase
<1> QED
    BY <1>1, <1>2, <1>3, <1>4, <1>5 DEF ReplanInvariant, Aftermath

LEMMA NoStaleStep ==
    ASSUME ReplanInvariant, ~Running, NEW s \in Stages, StageStep(s)
    PROVE  NoStaleInput'
<1>1. /\ pc[s] \in Awaiting /\ OthersKept(s) /\ StatusFits(s)
      /\ Creates(s) \/ PassesGate(s) \/ Works(s)
    BY RoundStep
<1>2. \A r \in Stages \ {s} : OutputOf(r)' = OutputOf(r)
    BY <1>1 DEF OutputOf, OthersKept
<1> SUFFICES ASSUME NEW r \in Stages, stages'[r].status \notin {"absent", "blocked"},
                    NEW p \in Predecessors(r)
             PROVE  OutputOf(p)' # "absent" /\ stages'[r].input_data[p] = OutputOf(p)'
    BY DEF NoStaleInput, Predecessors
<1>3. p \in Stages /\ p # r
    BY NotOwnPredecessor DEF Predecessors
<1>4. CASE r = s /\ Creates(s)
    <2>1. p \in completed
        BY <1>4 DEF Creates, ReplanInvariant, Aftermath, RoundKept
    <2>2. pc[p] = "returned_true" /\ stage_outputs[p] = OutputOf(p) /\ StatusFits(p)
        BY <1>3, <2>1 DEF ReplanInvariant, Aftermath, RoundKept, OutputsKept
    <2>3. OutputOf(p) # "absent"
        BY <2>2 DEF OutputOf, StatusFits, StatusAt
    <2>4. NewContext(s).input_data = Snapshot(s)
        BY DEF NewContext, NoContext
    <2>5. stages'[r].input_data[p] = stage_outputs[p]
        BY <1>3, <1>4, <2>4 DEF Creates, Snapshot
    <2> QED
        BY <1>2, <1>3, <1>4, <2>2, <2>3, <2>5
<1>5. CASE r = s /\ ~Creates(s)
    <2>1. stages[s].status \notin {"absent", "blocked"}
        BY <1>1, <1>5 DEF PassesGate, Works, StatusFits, StatusAt
    <2>2. stages'[s].input_data = stages[s].input_data
        BY <1>1, <1>5 DEF PassesGate, Works
    <2>3. OutputOf(p) # "absent" /\ stages[s].input_data[p] = OutputOf(p)
        BY <1>5, <2>1 DEF ReplanInvariant, Aftermath, NoStaleInput
    <2> QED
        BY <1>2, <1>3, <1>5, <2>2, <2>3
<1>6. CASE r # s
    <2>1. stages'[r] = stages[r]
        BY <1>1, <1>6 DEF OthersKept
    <2>2. OutputOf(p) # "absent" /\ stages[r].input_data[p] = OutputOf(p)
        BY <2>1 DEF ReplanInvariant, Aftermath, NoStaleInput
    <2>3. p # s
        BY <1>1, <2>2 DEF OutputOf, StatusFits, StatusAt, Awaiting
    <2> QED
        BY <1>2, <1>3, <2>1, <2>2, <2>3
<1> QED
    BY <1>4, <1>5, <1>6

LEMMA ReplanStageStep ==
    ASSUME ReplanInvariant, ~Running, NEW s \in Stages, StageStep(s), UNCHANGED replanVars
    PROVE  ReplanInvariant'
<1>1. /\ s \in batch \cap ImpactedStages
      /\ s \notin completed
      /\ phase \in {"replan_gather", "replan_raised"}
      /\ pc[s] \in Awaiting /\ pc'[s] # "idle" /\ pc'[s] # "created"
      /\ OthersKept(s)
      /\ Creates(s) \/ PassesGate(s) \/ Works(s)
      /\ StatusFits(s) /\ StageRecords(s) /\ Guarded(s)
    BY RoundStep
<1>2. StateTypeOK
    BY DEF ReplanInvariant, ReplanTypeOK
<1>3. UNCHANGED <<phase, batch, completed, failed, originating_stage, replan_count>>
      /\ ImpactedStages' = ImpactedStages
    BY <1>1 DEF OthersKept, runVars, replanVars, ImpactedStages
<1>4. ReplanTypeOK'
    BY <1>2, <1>3, StageStepType DEF ReplanInvariant, ReplanTypeOK, replanVars
<1>5. RoundKept'
    <2>1. \A r \in Stages : pc'[r] = "created" => pc[r] = "created"
        BY <1>1 DEF OthersKept
    <2>2. \A r \in Stages : pc'[r] \in Awaiting => r \in batch
        BY <1>1 DEF OthersKept, ReplanInvariant, Aftermath, RoundKept
    <2>3. \A r \in completed : pc'[r] = "returned_true"
        BY <1>1, <1>2 DEF OthersKept, ReplanInvariant, Aftermath, RoundKept, StateTypeOK
    <2> QED
        BY <1>3, <2>1, <2>2, <2>3 DEF ReplanInvariant, Aftermath, RoundKept, Predecessors
<1>6. \A r \in Stages : StatusFits(r)'
    <2>1. StatusFits(s)'
        BY <1>1, StatusStep DEF StatusFits
    <2>2. ASSUME NEW r \in Stages \ {s}
          PROVE  StatusFits(r)'
        <3>1. StatusFits(r) /\ pc'[r] = pc[r] /\ stages'[r] = stages[r]
            BY <1>1 DEF OthersKept, ReplanInvariant, Aftermath
        <3> QED
            BY <1>3, <3>1 DEF StatusFits, StatusAt
    <2> QED
        BY <2>1, <2>2
<1>7. StageRecords(s)' /\ Guarded(s)'
    BY <1>1, <1>2, RecordsStep, GuardedStep
<1>8. ImpactedKept'
    <2>1. ASSUME NEW r \in ImpactedStages \ {s}
          PROVE  StageRecords(r)' /\ Guarded(r)'
        <3>1. r \in Stages
            BY ImpactedClosed DEF ReplanInvariant, ReplanTypeOK, ImpactedStages
        <3>2. StageRecords(r) /\ Guarded(r)
            BY <1>1 DEF ReplanInvariant, Aftermath, ImpactedKept, ReplanPhase
        <3> QED
            BY <1>1, <1>2, <3>1, <3>2, RecordsOther, GuardedOther
    <2> QED
        BY <1>3, <1>7, <2>1 DEF ImpactedKept
<1>9. \A r \in Stages : Traced(r)'
    BY <1>2, <1>7, RecordsOther
    DEF StageRecords, RecordsFollow, Traced, ReplanInvariant, Aftermath
<1>10. OutputsKept'
    <2>1. (pc[s] = "returned_true" => stage_outputs[s] = OutputOf(s))'
        <3>1. (OutputFollows(pc[s], stages[s], stage_outputs[s], ArtifactsOf(s)) /\ StatusFits(s)
               /\ StateTypeOK)'
            BY <1>4, <1>6, <1>7 DEF StageRecords, RecordsFollow, ReplanTypeOK
        <3> QED
            BY <3>1 DEF OutputFollows, OutputOf, StatusFits, StatusAt, StateTypeOK, Output
    <2>2. \A r \in (completed \cup batch) \ {s} :
              pc'[r] = "returned_true" => stage_outputs'[r] = OutputOf(r)'
        BY <1>1, <1>2
        DEF OthersKept, OutputOf, StateTypeOK, ReplanInvariant, Aftermath, OutputsKept
    <2> QED
        BY <1>3, <2>1, <2>2 DEF OutputsKept
<1>11. ReplanBookkeeping'
    <2>1. \A r \in Stages : pc'[r] = "idle" <=> pc[r] = "idle"
        BY <1>1 DEF OthersKept, Awaiting
    <2>2. \A p \in Stages \ ImpactedStages : stages'[p] = stages[p]
        BY <1>1 DEF OthersKept
    <2>3. ImpactedStages \subseteq Stages
        BY ImpactedClosed DEF ReplanInvariant, ReplanTypeOK, ImpactedStages
    <2> QED
        BY <1>1, <1>3, <2>1, <2>2, <2>3
        DEF ReplanInvariant, Aftermath, ReplanBookkeeping, Replans, ReplanPhase
<1>12. NoStaleInput'
    BY NoStaleStep
<1>13. InvalidatedAccounted' /\ ~Running'
    BY <1>1, <1>3 DEF InvalidatedAccounted, Running
<1> QED
    BY <1>4, <1>5, <1>6, <1>8, <1>9, <1>10, <1>11, <1>12, <1>13 DEF ReplanInvariant, Aftermath

-----------------------------------------------------------------------------
(* replan() takes a step.                                                  *)

\* Between calls nothing of an earlier one is alive.
LEMMA StartReplanKeeps ==
    ASSUME ReplanInvariant, NEW origin \in Stages \cup {Requirement}, StartReplan(origin)
    PROVE  ReplanInvariant'
<1> DEFINE lost == Impacted(origin)
<1>1. lost \subseteq Stages /\ Closed(lost)
    BY ImpactedClosed
<1>2. ImpactedStages' = lost /\ phase' = "replan"
    BY DEF StartReplan, ImpactedStages, Impacted
<1>3. StateTypeOK /\ replan_count \in 0 .. MaxReplans /\ replan_count < MaxReplans
    BY DEF ReplanInvariant, ReplanTypeOK, StartReplan, Callable
<1>4. /\ pc' = [s \in Stages |-> IF s \in lost THEN "idle" ELSE pc[s]]
      /\ stages' = [s \in Stages |-> IF s \in lost THEN NoContext ELSE stages[s]]
      /\ completed' = {s \in Stages \ lost : stages[s].status = "completed"}
      /\ failed' = {} /\ batch' = {} /\ safe_stopped' = safe_stopped
      /\ stage_outputs' = [s \in Stages |->
             IF s \notin completed' THEN "absent"
             ELSE IF stages[s].fallback_used THEN "preset" ELSE "produced"]
      /\ artifacts' = {of \in completed' \X Attempt : of[2] \in stages[of[1]].artifacts}
    BY DEF StartReplan, PreservedCompleted, outcomeVars
<1> HIDE DEF lost
<1>5. ReplanTypeOK'
    <2>1. /\ pc' \in [Stages -> {"idle"} \cup Awaiting \cup Returned]
          /\ stages' \in [Stages -> StageContext]
        BY <1>3, <1>4, NoContextType DEF StateTypeOK
    <2>2. /\ stage_outputs' \in [Stages -> Output]
          /\ artifacts' \in SUBSET (Stages \X Attempt)
        BY <1>4 DEF Output
    <2>3. approvals' \in [Stages -> ApprovalStatus]
          /\ policy_evaluations' \in [Stages -> PolicyDecision]
        BY DEF StartReplan, ApprovalStatus, PolicyDecision
    <2>4. StateTypeOK'
        BY <1>3, <1>4, <2>1, <2>2, <2>3 DEF StateTypeOK, StartReplan, outcomeVars
    <2> QED
        BY <1>2, <2>4 DEF ReplanInvariant, ReplanTypeOK, StartReplan, ReplanPhase
<1>6. \A s \in Stages : pc'[s] \notin Awaiting
    BY <1>4 DEF StartReplan, Callable, Quiet, Awaiting
<1>7. \A s \in Stages : StatusFits(s)'
    <2> TAKE s \in Stages
    <2>1. CASE s \in lost
        BY <1>4, <2>1 DEF StatusFits, NoContext
    <2>2. CASE s \notin lost
        <3>1. StatusFits(s)
            BY DEF ReplanInvariant, Aftermath
        <3> QED
            BY <1>4, <2>2, <3>1 DEF StatusFits, StatusAt
    <2> QED
        BY <2>1, <2>2
<1>8. \A s \in completed' : /\ s \in Stages \ lost
                            /\ pc'[s] = "returned_true" /\ pc[s] = "returned_true"
    <2> TAKE s \in completed'
    <2>1. s \in Stages \ lost /\ stages[s].status = "completed"
        BY <1>4
    <2>2. StatusFits(s) /\ pc[s] \in {"idle"} \cup Awaiting \cup Returned
        BY <1>3, <2>1 DEF ReplanInvariant, Aftermath, StateTypeOK
    <2> QED
        BY <1>4, <2>1, <2>2 DEF StatusFits, StatusAt, Awaiting, Returned
<1>9. RoundKept'
    BY <1>4, <1>6, <1>8 DEF RoundKept, Awaiting
<1>10. \A s \in lost : /\ pc'[s] = "idle" /\ stages'[s] = NoContext
                       /\ stage_outputs'[s] = "absent" /\ ArtifactsOf(s)' = {}
    BY <1>1, <1>4, <1>8 DEF ArtifactsOf
<1>11. \A s \in lost : StageRecords(s)' /\ Guarded(s)'
    <2> TAKE s \in lost
    <2>1. /\ NoContext.attempt = 0 /\ NoContext.attempt_records = <<>>
          /\ NoContext.exit_gate_results = {}
          /\ ~NoContext.fallback_used /\ ~NoContext.has_error /\ NoContext.status = "absent"
        BY DEF NoContext
    <2>2. s \in Stages
        BY <1>1
    <2>3. RecordsFollow(s, "idle", NoContext, "absent", {}, safe_stopped')
        BY <2>1, <2>2, BlankRecords
    <2>4. StageRecords(s)'
        BY <1>10, <2>3 DEF StageRecords
    <2>5. Guarded(s)'
        BY <1>10, <2>1 DEF Guarded, Executed
    <2> QED
        BY <2>4, <2>5
<1>12. \A s \in Stages : Traced(s)'
    <2> TAKE s \in Stages
    <2>1. CASE s \in lost
        BY <1>11, <2>1 DEF StageRecords, RecordsFollow, Traced
    <2>2. CASE s \notin lost
        BY <1>4, <2>2 DEF Traced, ReplanInvariant, Aftermath
    <2> QED
        BY <2>1, <2>2
<1>13. OutputsKept'
    <2> SUFFICES ASSUME NEW s \in completed'
                 PROVE  stage_outputs'[s] = OutputOf(s)'
        BY <1>4 DEF OutputsKept
    <2>1. stages'[s] = stages[s] /\ stages[s].status = "completed" /\ s \in Stages
        BY <1>4
    <2> QED
        BY <1>4, <2>1 DEF OutputOf
<1>14. NoStaleInput'
    <2> SUFFICES ASSUME NEW s \in Stages, stages'[s].status \notin {"absent", "blocked"},
                        NEW p \in Predecessors(s)
                 PROVE  OutputOf(p)' # "absent" /\ stages'[s].input_data[p] = OutputOf(p)'
        BY DEF NoStaleInput, Predecessors
    <2>1. s \notin lost
        BY <1>4 DEF NoContext
    <2>2. p \notin lost /\ p \in Stages
        BY <1>1, <2>1, UpstreamKept DEF Predecessors
    <2>3. stages'[s] = stages[s] /\ stages'[p] = stages[p]
        BY <1>4, <2>1, <2>2
    <2>4. OutputOf(p)' = OutputOf(p)
        BY <2>3 DEF OutputOf
    <2> QED
        BY <2>3, <2>4 DEF ReplanInvariant, Aftermath, NoStaleInput
<1>15. ReplanBookkeeping'
    <2>1. \A s \in lost : pc'[s] = "idle" /\ s \notin completed'
        BY <1>8, <1>10
    <2>2. \A p \in Stages \ lost : p \in completed' <=> stages'[p].status = "completed"
        BY <1>4
    <2>3. replan_count' = replan_count /\ MaxReplans' = MaxReplans
        BY DEF StartReplan
    <2> QED
        BY <1>2, <1>3, <1>4, <2>1, <2>2, <2>3 DEF ReplanBookkeeping
<1>16. ImpactedKept' /\ InvalidatedAccounted' /\ ~Running'
    BY <1>2, <1>11 DEF ImpactedKept, InvalidatedAccounted, Running
<1> QED
    BY <1>5, <1>7, <1>9, <1>12, <1>13, <1>14, <1>15, <1>16 DEF ReplanInvariant, Aftermath

LEMMA ReplanSkippedKeeps ==
    ASSUME ReplanInvariant, NEW origin \in Stages \cup {Requirement}, ReplanSkipped(origin)
    PROVE  ReplanInvariant'
<1>1. phase \in {"returned", "replan_raised"}
      /\ UNCHANGED <<vars, originating_stage>>
    BY DEF ReplanSkipped, Callable
<1>2. ReplanTypeOK'
    <2>1. replan_count' \in 0 .. MaxReplans
        BY ReplanAssumption DEF ReplanSkipped, Callable, ReplanInvariant, ReplanTypeOK
    <2>2. replan_result' \in ReplanResult
        BY DEF ReplanSkipped, Result, ReplanResult, ReplanInvariant, ReplanTypeOK, StateTypeOK
    <2>3. StateTypeOK'
        BY <1>1 DEF ReplanInvariant, ReplanTypeOK, StateTypeOK, vars, runVars, outcomeVars,
                    gateVars, contextVars
    <2> QED
        BY <1>1, <2>1, <2>2, <2>3 DEF ReplanInvariant, ReplanTypeOK, vars, runVars
<1>3. UNCHANGED <<phase, batch, completed, failed, pc, stages, safe_stopped, stage_outputs,
                  artifacts, approvals, policy_evaluations, originating_stage>>
    BY <1>1 DEF vars, runVars, outcomeVars, gateVars, contextVars
<1>4. Aftermath'
    <2>1. RoundKept' /\ OutputsKept' /\ NoStaleInput' /\ InvalidatedAccounted'
        BY <1>3 DEF ReplanInvariant, Aftermath, RoundKept, OutputsKept, OutputOf, NoStaleInput,
                    InvalidatedAccounted, ImpactedStages
    <2>2. \A s \in Stages : StatusFits(s)' /\ Traced(s)'
        BY <1>3 DEF ReplanInvariant, Aftermath, StatusFits, StatusAt, Traced
    <2>3. ReplanBookkeeping'
        BY <1>1, <1>3 DEF ReplanInvariant, Aftermath, ReplanBookkeeping, Replans, ReplanPhase,
                          ImpactedStages
    <2>4. ImpactedKept'
        BY <1>3 DEF ReplanInvariant, Aftermath, ImpactedKept, StageRecords, ArtifactsOf, Guarded,
                    Cleared, Executed, HumanOnly, NeedsApproval, ImpactedStages
    <2> QED
        BY <2>1, <2>2, <2>3, <2>4 DEF Aftermath
<1> QED
    BY <1>1, <1>2, <1>3, <1>4 DEF ReplanInvariant, Running

\* A step that leaves the coroutines and their contexts alone.
LEMMA ContextsStay ==
    ASSUME ReplanInvariant, UNCHANGED <<pc, stages, safe_stopped, contextVars, gateVars,
                                        originating_stage>>
    PROVE  /\ \A s \in Stages : StatusFits(s)' /\ Traced(s)'
           /\ NoStaleInput'
           /\ \A s \in Stages : OutputOf(s)' = OutputOf(s)
           /\ phase \in ReplanPhase => \A s \in ImpactedStages : StageRecords(s)' /\ Guarded(s)'
           /\ ImpactedStages' = ImpactedStages /\ ImpactedStages \subseteq Stages
<1>1. \A s \in Stages : StatusFits(s)' /\ Traced(s)'
    BY DEF ReplanInvariant, Aftermath, StatusFits, StatusAt, Traced
<1>2. NoStaleInput' /\ \A s \in Stages : OutputOf(s)' = OutputOf(s)
    BY DEF ReplanInvariant, Aftermath, NoStaleInput, OutputOf
<1>3. phase \in ReplanPhase => \A s \in ImpactedStages : StageRecords(s)' /\ Guarded(s)'
    BY DEF ReplanInvariant, Aftermath, ImpactedKept, StageRecords, ArtifactsOf, Guarded,
           Cleared, Executed, HumanOnly, NeedsApproval, contextVars, gateVars
<1>4. ImpactedStages' = ImpactedStages /\ ImpactedStages \subseteq Stages
    BY ImpactedClosed DEF ImpactedStages, ReplanInvariant, ReplanTypeOK
<1> QED
    BY <1>1, <1>2, <1>3, <1>4

LEMMA ScheduleReplanKeeps ==
    ASSUME ReplanInvariant, ScheduleReplan
    PROVE  ReplanInvariant'
<1>1. /\ phase = "replan" /\ phase' = "replan_gather"
      /\ batch' = ReadyToReplan
      /\ pc' = [s \in Stages |-> IF s \in batch' THEN "created" ELSE pc[s]]
      /\ UNCHANGED <<completed, failed, stages, safe_stopped, contextVars, gateVars,
                     originating_stage, replan_count>>
    BY DEF ScheduleReplan, outcomeVars, replanVars
<1>2. ImpactedStages \subseteq Stages /\ ImpactedStages' = ImpactedStages
    BY <1>1, ImpactedClosed DEF ReplanInvariant, ReplanTypeOK, ImpactedStages
<1>3. /\ \A s \in batch' : /\ s \in ImpactedStages /\ s \in Stages /\ s \notin completed
                           /\ Predecessors(s) \subseteq completed
      /\ batch = {} /\ failed = {}
    BY <1>1, <1>2
    DEF ReadyToReplan, ReadyStages, ReplanInvariant, Aftermath, RoundKept, ReplanBookkeeping
<1>4. \A s \in batch' : pc[s] = "idle" /\ pc'[s] = "created"
    BY <1>1, <1>3 DEF ReplanInvariant, Aftermath, ReplanBookkeeping, Replans
<1>5. ReplanTypeOK'
    <2>1. pc' \in [Stages -> {"idle"} \cup Awaiting \cup Returned]
        BY <1>1 DEF ReplanInvariant, ReplanTypeOK, StateTypeOK, Awaiting
    <2>2. batch' \in SUBSET Stages
        BY <1>3
    <2>3. StateTypeOK'
        BY <2>1, <2>2
        DEF ScheduleReplan, ReplanInvariant, ReplanTypeOK, StateTypeOK, outcomeVars, gateVars,
            contextVars
    <2> QED
        BY <1>1, <2>3 DEF ScheduleReplan, ReplanInvariant, ReplanTypeOK, ReplanPhase, replanVars
<1>6. \A s \in Stages : StatusFits(s)' /\ Traced(s)'
    <2> TAKE s \in Stages
    <2>1. StatusFits(s) /\ Traced(s)
        BY DEF ReplanInvariant, Aftermath
    <2>2. CASE s \in batch'
        <3>1. stages[s].attempt = 0 /\ LogUpTo(s, stages[s], 0)
            BY <1>4, <2>1, <2>2 DEF Traced, TraceFollows, LogFollows, BeforeExecute
        <3>2. RecoveryFollows(s, "created", stages[s], safe_stopped)
            BY <3>1, NotGivenUp
        <3> QED
            BY <1>1, <1>4, <2>1, <2>2, <3>2
            DEF StatusFits, Traced, TraceFollows, LogFollows, BeforeExecute, GateResultsFollow,
                SuccessFollows, ErrorFollows
    <2>3. CASE s \notin batch'
        BY <1>1, <2>1, <2>3 DEF StatusFits, StatusAt, Traced
    <2> QED
        BY <2>2, <2>3
<1>7. RoundKept'
    <2>1. \A s \in Stages : pc'[s] \in Awaiting => s \in batch'
        BY <1>1, <1>3 DEF ReplanInvariant, Aftermath, RoundKept
    <2>2. \A s \in Stages : pc'[s] = "created" => Predecessors(s) \subseteq completed
        BY <1>1, <1>3 DEF ReplanInvariant, Aftermath, RoundKept
    <2>3. \A s \in completed : pc'[s] = "returned_true"
        BY <1>1, <1>3 DEF ReplanInvariant, ReplanTypeOK, StateTypeOK, Aftermath, RoundKept
    <2> QED
        BY <1>1, <2>1, <2>2, <2>3 DEF RoundKept, Predecessors
<1>8. OutputsKept'
    <2>1. \A s \in completed \cup batch' : pc'[s] = "returned_true" => s \in completed \ batch'
        BY <1>4
    <2>2. \A s \in completed \ batch' : stage_outputs'[s] = OutputOf(s)'
        BY <1>1 DEF ReplanInvariant, Aftermath, RoundKept, OutputsKept, OutputOf, contextVars
    <2> QED
        BY <1>1, <2>1, <2>2 DEF OutputsKept
<1>9. ReplanBookkeeping'
    <2>1. \A s \in ImpactedStages : pc'[s] = "idle" <=> s \notin completed \cup failed \cup batch'
        <3> TAKE s \in ImpactedStages
        <3>1. pc[s] = "idle" <=> s \notin completed \cup failed \cup batch
            BY <1>1 DEF ReplanInvariant, Aftermath, ReplanBookkeeping, Replans
        <3>2. s \in Stages /\ batch = {}
            BY <1>2, <1>3
        <3>3. CASE s \in batch'
            BY <1>4, <3>3
        <3>4. CASE s \notin batch'
            BY <1>1, <3>1, <3>2, <3>4
        <3> QED
            BY <3>3, <3>4
    <2> QED
        BY <1>1, <1>2, <1>3, <2>1
        DEF ReplanInvariant, Aftermath, ReplanBookkeeping, Replans, ReplanPhase
<1>10. ImpactedKept'
    <2> SUFFICES ASSUME NEW s \in ImpactedStages
                 PROVE  StageRecords(s)' /\ Guarded(s)'
        BY <1>2 DEF ImpactedKept
    <2>1. StageRecords(s) /\ Guarded(s) /\ s \in Stages
        BY <1>1, <1>2 DEF ReplanInvariant, Aftermath, ImpactedKept, ReplanPhase
    <2>2. /\ ArtifactsOf(s)' = ArtifactsOf(s) /\ stages'[s] = stages[s]
          /\ stage_outputs'[s] = stage_outputs[s] /\ approvals'[s] = approvals[s]
          /\ policy_evaluations'[s] = policy_evaluations[s] /\ safe_stopped' = safe_stopped
        BY <1>1 DEF ArtifactsOf, contextVars, gateVars
    <2>3. CASE s \in batch'
        <3>1. pc[s] = "idle" /\ pc'[s] = "created"
            BY <1>4, <2>3
        <3>2. OutputFollows(pc[s], stages[s], stage_outputs[s], ArtifactsOf(s))'
            BY <2>1, <2>2, <3>1 DEF StageRecords, RecordsFollow, OutputFollows
        <3>3. StageRecords(s)'
            BY <1>6, <2>1, <3>2 DEF StageRecords, RecordsFollow, Traced
        <3>4. Guarded(s)'
            BY <2>1, <2>2, <3>1 DEF Guarded, Executed
        <3> QED
            BY <3>3, <3>4
    <2>4. CASE s \notin batch'
        <3>1. pc'[s] = pc[s]
            BY <1>1, <2>1, <2>4
        <3> QED
            BY <2>1, <2>2, <3>1
            DEF StageRecords, Guarded, Cleared, Executed, HumanOnly, NeedsApproval
    <2> QED
        BY <2>3, <2>4
<1>11. NoStaleInput' /\ InvalidatedAccounted' /\ ~Running'
    BY <1>1 DEF ReplanInvariant, Aftermath, NoStaleInput, OutputOf, InvalidatedAccounted, Running
<1> QED
    BY <1>5, <1>6, <1>7, <1>8, <1>9, <1>10, <1>11 DEF ReplanInvariant, Aftermath

\* NothingToReplan, CollectReplan and ReplanRaises move replan() alone.
LEMMA LoopReplanKeeps ==
    ASSUME ReplanInvariant, NothingToReplan \/ CollectReplan \/ ReplanRaises
    PROVE  ReplanInvariant'
<1>1. /\ phase \in {"replan", "replan_gather"}
      /\ phase' \in {"replan", "replan_post", "replan_raised"}
      /\ UNCHANGED <<pc, stages, safe_stopped, contextVars, gateVars, originating_stage,
                     replan_count>>
    BY DEF NothingToReplan, CollectReplan, ReplanRaises, outcomeVars, stageVars, replanVars
<1>2. /\ \A s \in Stages : StatusFits(s)' /\ Traced(s)'
      /\ NoStaleInput'
      /\ \A s \in Stages : OutputOf(s)' = OutputOf(s)
      /\ phase \in ReplanPhase => \A s \in ImpactedStages : StageRecords(s)' /\ Guarded(s)'
      /\ ImpactedStages' = ImpactedStages /\ ImpactedStages \subseteq Stages
    BY <1>1, ContextsStay
<1>3. ReplanTypeOK'
    <2>1. /\ batch' \in SUBSET Stages /\ completed' \in SUBSET Stages /\ failed' \in SUBSET Stages
        BY DEF NothingToReplan, CollectReplan, ReplanRaises, ReplanInvariant, ReplanTypeOK,
               StateTypeOK
    <2>2. UNCHANGED <<outcomeVars, stageVars, replanVars>>
        BY DEF NothingToReplan, CollectReplan, ReplanRaises
    <2>3. StateTypeOK'
        BY <2>1, <2>2 DEF ReplanInvariant, ReplanTypeOK, StateTypeOK, outcomeVars, stageVars,
                          gateVars, contextVars
    <2> QED
        BY <1>1, <2>2, <2>3 DEF ReplanInvariant, ReplanTypeOK, ReplanPhase, replanVars
<1>4. ImpactedKept' /\ InvalidatedAccounted' /\ ~Running'
    BY <1>1, <1>2 DEF ImpactedKept, InvalidatedAccounted, Running, ReplanPhase
<1>5. RoundKept' /\ OutputsKept' /\ ReplanBookkeeping'
    <2>1. CASE NothingToReplan
        <3>1. UNCHANGED <<batch, completed, failed>> /\ phase = "replan" /\ phase' = "replan_post"
              /\ ReadyToReplan = {} /\ ReadyToReplan' = {}
            BY <1>2, <2>1 DEF NothingToReplan, ReadyToReplan, ReadyStages
        <3>2. RoundKept' /\ OutputsKept'
            BY <1>1, <1>2, <3>1
            DEF ReplanInvariant, ReplanTypeOK, StateTypeOK, Aftermath, RoundKept, OutputsKept,
                contextVars
        <3>3. ReplanBookkeeping'
            BY <1>1, <1>2, <3>1
            DEF ReplanInvariant, Aftermath, ReplanBookkeeping, Replans, ReplanPhase
        <3> QED
            BY <3>2, <3>3
    <2>2. CASE ReplanRaises
        <3>1. UNCHANGED <<batch, completed, failed>> /\ phase = "replan_gather"
              /\ phase' = "replan_raised"
            BY <2>2 DEF ReplanRaises
        <3>2. RoundKept' /\ OutputsKept'
            BY <1>1, <1>2, <3>1
            DEF ReplanInvariant, ReplanTypeOK, StateTypeOK, Aftermath, RoundKept, OutputsKept,
                contextVars
        <3>3. ReplanBookkeeping'
            BY <1>1, <1>2, <3>1
            DEF ReplanInvariant, Aftermath, ReplanBookkeeping, Replans, ReplanPhase
        <3> QED
            BY <3>2, <3>3
    <2>3. CASE CollectReplan
        <3>1. /\ phase = "replan_gather" /\ batch' = {}
              /\ \A s \in batch : pc[s] \in {"returned_true", "returned_false"}
              /\ completed' = completed \cup {s \in batch : pc[s] = "returned_true"}
              /\ failed' = failed \cup {s \in batch : pc[s] = "returned_false"}
              /\ \/ phase' = "replan_post" /\ (failed' # {} \/ safe_stopped)
                 \/ phase' = "replan" /\ failed' = {}
            BY <2>3 DEF CollectReplan, LoopEnds
        <3>2. /\ completed' \subseteq completed \cup batch /\ completed \subseteq completed'
              /\ completed' \cup failed' = completed \cup failed \cup batch
            BY <3>1
        <3>3. batch \subseteq ImpactedStages
            BY <3>1 DEF ReplanInvariant, Aftermath, ReplanBookkeeping, ReplanPhase
        <3>4. \A s \in Stages : pc[s] \notin Awaiting
            BY <3>1 DEF ReplanInvariant, Aftermath, RoundKept, Awaiting
        <3>5. RoundKept'
            BY <1>1, <3>1, <3>4 DEF ReplanInvariant, Aftermath, RoundKept, Awaiting
        <3>6. OutputsKept'
            BY <1>1, <1>2, <3>1, <3>2
            DEF ReplanInvariant, ReplanTypeOK, StateTypeOK, Aftermath, OutputsKept, contextVars
        <3>7. \A s \in ImpactedStages : pc[s] = "idle" <=> s \notin completed' \cup failed'
            BY <3>1, <3>2 DEF ReplanInvariant, Aftermath, ReplanBookkeeping, Replans
        <3>8. \A p \in Stages \ ImpactedStages :
                  p \in completed' <=> stages[p].status = "completed"
            BY <3>1, <3>3 DEF ReplanInvariant, Aftermath, ReplanBookkeeping, Replans
        <3>9. replan_count < MaxReplans
            BY <3>1 DEF ReplanInvariant, Aftermath, ReplanBookkeeping, Replans
        <3>10. ReplanBookkeeping'
            BY <1>1, <1>2, <3>1, <3>7, <3>8, <3>9 DEF ReplanBookkeeping
        <3> QED
            BY <3>5, <3>6, <3>10
    <2> QED
        BY <2>1, <2>2, <2>3
<1> QED
    BY <1>2, <1>3, <1>4, <1>5 DEF ReplanInvariant, Aftermath

-----------------------------------------------------------------------------
(* replan() returns.                                                       *)

\* An impacted stage that no round reached is either behind a preserved stage
\* that never completed, or there was a failure or a safe-stop: on an acyclic
\* graph a first stage of those left out would have been ready.
LEMMA LeftOutBehind ==
    ASSUME ReplanInvariant, phase = "replan_post", failed = {}, ~safe_stopped,
           NEW s \in ImpactedStages \ completed
    PROVE  \E p \in Stages \ ImpactedStages :
               s \in ReachableFrom(p) /\ stages[p].status # "completed"
<1>1. ImpactedStages \subseteq Stages /\ ReadyToReplan = {}
    BY ImpactedClosed
    DEF ReplanInvariant, ReplanTypeOK, ImpactedStages, Aftermath, ReplanBookkeeping
<1> DEFINE LeftOut == {t \in ImpactedStages \ completed : t = s \/ s \in ReachableFrom(t)}
<1>2. LeftOut \in SUBSET Stages /\ LeftOut # {}
    BY <1>1
<1>3. PICK t \in LeftOut : \A p \in LeftOut : <<p, t>> \notin Dependencies
    BY <1>2, GraphAssumption DEF ValidGraph, IsAcyclic
<1>4. t \in Stages /\ t \in ImpactedStages /\ t \notin completed
    BY <1>2
<1>5. PICK p \in Predecessors(t) : p \notin completed
    BY <1>1, <1>4 DEF ReadyToReplan, ReadyStages
<1>6. p \in Stages /\ <<p, t>> \in Dependencies /\ t \in Successors(p)
    BY <1>4, <1>5 DEF Predecessors, Successors
<1>7. s \in ReachableFrom(p)
    <2>1. t \in ReachableFrom(p)
        BY <1>6, ReachableClosed
    <2> QED
        BY <1>6, <2>1, ReachableTransitive
<1>8. p \notin ImpactedStages
    BY <1>3, <1>5, <1>6, <1>7
<1>9. stages[p].status # "completed"
    BY <1>5, <1>6, <1>8 DEF ReplanInvariant, Aftermath, ReplanBookkeeping, Replans
<1> QED
    BY <1>6, <1>7, <1>8, <1>9

LEMMA FinishReplanKeeps ==
    ASSUME ReplanInvariant, FinishReplan
    PROVE  ReplanInvariant'
<1> DEFINE blank == [NoContext EXCEPT !.status = "blocked"]
<1>0. /\ blank.attempt = 0 /\ blank.attempt_records = <<>> /\ blank.exit_gate_results = {}
      /\ ~blank.fallback_used /\ ~blank.has_error /\ blank.status = "blocked"
      /\ blank \in StageContext
    BY NoContextType DEF NoContext, StageContext, StageStatus
<1> HIDE DEF blank
<1>1. /\ phase = "replan_post" /\ phase' = "returned"
      /\ stages' = [s \in Stages |-> IF s \in ReplanBlocked THEN blank ELSE stages[s]]
      /\ UNCHANGED <<batch, completed, failed, pc, safe_stopped, contextVars, originating_stage>>
    BY DEF FinishReplan, blank
<1>2. ImpactedStages \subseteq Stages /\ ImpactedStages' = ImpactedStages
    BY <1>1, ImpactedClosed DEF ReplanInvariant, ReplanTypeOK, ImpactedStages
<1>3. \A s \in Stages : pc[s] \notin Awaiting
    BY <1>1 DEF ReplanInvariant, Aftermath, RoundKept
<1>4. \A s \in ReplanBlocked : s \in ImpactedStages /\ pc[s] = "idle" /\ s \notin completed
    BY <1>1, <1>2
    DEF ReplanBlocked, ReplanInvariant, Aftermath, RoundKept, ReplanBookkeeping, Replans
<1>5. ReplanTypeOK'
    <2>1. stages' \in [Stages -> StageContext]
        BY <1>0, <1>1 DEF ReplanInvariant, ReplanTypeOK, StateTypeOK
    <2>2. status' \in WorkflowStatus
        BY DEF FinishReplan, ReplanStatus, ReplanInvariant, ReplanTypeOK, StateTypeOK,
               WorkflowStatus
    <2>3. StateTypeOK'
        BY <2>1, <2>2 DEF FinishReplan, ReplanInvariant, ReplanTypeOK, StateTypeOK, gateVars,
                          contextVars
    <2>4. replan_count' \in 0 .. MaxReplans
        BY <1>1, ReplanAssumption
        DEF FinishReplan, ReplanInvariant, ReplanTypeOK, Aftermath, ReplanBookkeeping, Replans
    <2>5. replan_result' \in ReplanResult
        <3>1. Result(originating_stage, completed \cap ImpactedStages, completed \ ImpactedStages)
                  \in ReplanResult
            BY <1>2 DEF Result, ReplanResult, ReplanInvariant, ReplanTypeOK, StateTypeOK
        <3> QED
            BY <2>2, <3>1 DEF FinishReplan, ReplanResult
    <2> QED
        BY <1>1, <2>3, <2>4, <2>5 DEF ReplanInvariant, ReplanTypeOK, RunPhase
<1>6. \A s \in Stages : StatusFits(s)' /\ Traced(s)'
    <2> TAKE s \in Stages
    <2>1. StatusFits(s) /\ Traced(s)
        BY DEF ReplanInvariant, Aftermath
    <2>2. CASE s \in ReplanBlocked
        <3>1. pc'[s] = "idle" /\ stages'[s] = blank
            BY <1>1, <1>4, <2>2
        <3>2. RecordsFollow(s, "idle", blank, "absent", {}, safe_stopped')
            BY <1>0, BlankRecords
        <3> QED
            BY <1>0, <3>1, <3>2 DEF StatusFits, Traced, RecordsFollow
    <2>3. CASE s \notin ReplanBlocked
        BY <1>1, <2>1, <2>3 DEF StatusFits, StatusAt, Traced
    <2> QED
        BY <2>2, <2>3
<1>7. RoundKept' /\ OutputsKept'
    <2>1. RoundKept'
        BY <1>1, <1>3 DEF ReplanInvariant, Aftermath, RoundKept, Awaiting
    <2>2. \A s \in completed : s \in Stages /\ stages'[s] = stages[s]
        BY <1>1, <1>4 DEF ReplanInvariant, ReplanTypeOK, StateTypeOK
    <2>3. batch = {}
        BY <1>1 DEF ReplanInvariant, Aftermath, RoundKept
    <2> QED
        BY <1>1, <2>1, <2>2, <2>3
        DEF ReplanInvariant, Aftermath, OutputsKept, OutputOf, contextVars
<1>8. NoStaleInput'
    <2> SUFFICES ASSUME NEW s \in Stages, stages'[s].status \notin {"absent", "blocked"},
                        NEW p \in Predecessors(s)
                 PROVE  OutputOf(p)' # "absent" /\ stages'[s].input_data[p] = OutputOf(p)'
        BY DEF NoStaleInput, Predecessors
    <2>1. stages'[s] = stages[s] /\ p \in Stages
        BY <1>0, <1>1 DEF Predecessors
    <2>2. OutputOf(p) # "absent" /\ stages[s].input_data[p] = OutputOf(p)
        BY <2>1 DEF ReplanInvariant, Aftermath, NoStaleInput
    <2>3. p \notin ReplanBlocked
        <3>1. StatusFits(p) /\ stages[p].status \in {"completed", "skipped"}
            BY <2>1, <2>2 DEF OutputOf, ReplanInvariant, Aftermath
        <3> QED
            BY <1>4, <3>1 DEF StatusFits
    <2>4. OutputOf(p)' = OutputOf(p)
        BY <1>1, <2>1, <2>3 DEF OutputOf
    <2> QED
        BY <2>1, <2>2, <2>4
<1>9. InvalidatedAccounted'
    <2> SUFFICES ASSUME NEW s \in ImpactedStages, stages'[s].status = "absent", ~safe_stopped
                 PROVE  \E p \in Stages \ ImpactedStages :
                            s \in ReachableFrom(p) /\ stages'[p].status # "completed"
        BY <1>1, <1>2 DEF InvalidatedAccounted
    <2>1. s \in Stages /\ s \notin ReplanBlocked /\ stages'[s] = stages[s]
        BY <1>0, <1>1, <1>2
    <2>2. pc[s] = "idle"
        BY <1>3, <2>1 DEF ReplanInvariant, Aftermath, StatusFits, StatusAt, Awaiting
    <2>3. s \notin completed \cup failed
        BY <1>1, <2>2 DEF ReplanInvariant, Aftermath, ReplanBookkeeping, Replans
    <2>4. failed = {}
        BY <2>1, <2>3 DEF ReplanBlocked
    <2>5. PICK p \in Stages \ ImpactedStages :
              s \in ReachableFrom(p) /\ stages[p].status # "completed"
        BY <1>1, <2>3, <2>4, LeftOutBehind
    <2>6. stages'[p] = stages[p]
        BY <1>1, <1>4
    <2> QED
        BY <2>5, <2>6
<1>10. ReplanBookkeeping' /\ ImpactedKept' /\ ~Running'
    BY <1>1 DEF ReplanBookkeeping, ImpactedKept, Replans, ReplanPhase, Running
<1> QED
    BY <1>5, <1>6, <1>7, <1>8, <1>9, <1>10 DEF ReplanInvariant, Aftermath

-----------------------------------------------------------------------------
(* Every step keeps the invariant.                                         *)

LEMMA RunStepKeeps ==
    ASSUME ReplanInvariant, RunStep
    PROVE  ReplanInvariant'
<1>1. CASE Running
    <2>1. RunInvariant /\ RecordsInvariant /\ [Next]_vars
        BY <1>1 DEF ReplanInvariant, RunStep, Next
    <2>2. RunInvariant' /\ RecordsInvariant'
        BY <2>1, InvariantNext, RecordsNext
    <2>3. (ReplanTypeOK /\ phase \in RunPhase)'
        BY <2>2 DEF RunInvariant, TypeOK, ReplanInvariant, ReplanTypeOK, RunStep, replanVars
    <2>4. (ReplanTypeOK /\ phase \in RunPhase /\ RunInvariant /\ RecordsInvariant => Aftermath)'
        BY RunLeaves, PTL
    <2> QED
        BY <2>2, <2>3, <2>4 DEF ReplanInvariant
<1>2. CASE ~Running
    <2>1. ~EngineStep
        BY <1>2 DEF Running, EngineStep, Schedule, NothingReady, Collect, Finish, RequestFinalQc,
                    FinalQcTimesOut, FinalQcRejects, FinalQcApproves, FinalQcRaises
    <2> QED
        BY <1>2, <2>1, ReplanStageStep DEF RunStep
<1> QED
    BY <1>1, <1>2

LEMMA ReplanInvariantNext ==
    ReplanInvariant /\ [ReplanNext]_allVars => ReplanInvariant'
<1> SUFFICES ASSUME ReplanInvariant, [ReplanNext]_allVars
             PROVE  ReplanInvariant'
    OBVIOUS
<1>1. CASE RunStep
    BY <1>1, RunStepKeeps
<1>2. CASE Replan
    BY <1>2, StartReplanKeeps, ReplanSkippedKeeps DEF Replan
<1>3. CASE ReplanStep
    BY <1>3, ScheduleReplanKeeps, LoopReplanKeeps, FinishReplanKeeps DEF ReplanStep
<1>4. CASE UNCHANGED allVars
    <2>1. UNCHANGED <<phase, batch, completed, failed, pc, stages, safe_stopped, contextVars,
                      gateVars, originating_stage, replan_count>>
        BY <1>4 DEF allVars, vars, replanVars, runVars, outcomeVars
    <2>2. ReplanTypeOK'
        BY <1>4 DEF ReplanInvariant, ReplanTypeOK, StateTypeOK, allVars, vars, replanVars, runVars,
                    outcomeVars, gateVars, contextVars
    <2>3. Running' => RunInvariant' /\ RecordsInvariant'
        <3>1. Running' => RunInvariant /\ RecordsInvariant /\ [Next]_vars
            BY <1>4 DEF ReplanInvariant, Running, allVars, vars, runVars
        <3> QED
            BY <3>1, InvariantNext, RecordsNext
    <2>4. RoundKept' /\ OutputsKept' /\ InvalidatedAccounted'
        BY <2>1 DEF ReplanInvariant, Aftermath, RoundKept, OutputsKept, OutputOf,
                    InvalidatedAccounted, ImpactedStages, contextVars
    <2>5. ReplanBookkeeping'
        BY <2>1 DEF ReplanInvariant, Aftermath, ReplanBookkeeping, Replans, ReplanPhase,
                    ImpactedStages, ReadyToReplan
    <2>6. (\A s \in Stages : StatusFits(s)' /\ Traced(s)') /\ NoStaleInput' /\ ImpactedKept'
        BY <2>1, ContextsStay DEF ImpactedKept
    <2> QED
        BY <2>2, <2>3, <2>4, <2>5, <2>6 DEF ReplanInvariant, Aftermath
<1> QED
    BY <1>1, <1>2, <1>3, <1>4 DEF ReplanNext, Stopped

\* The invariant holds through a run and any replans that follow it.
THEOREM ReplanInvariantCorrect == ReplanSpec => []ReplanInvariant
    BY ReplanInvariantInit, ReplanInvariantNext, PTL DEF ReplanSpec

-----------------------------------------------------------------------------
(* What completed stages hand on stays in the ExecutionContext.            *)

\* output and left: what stage_outputs and artifacts hold for a stage.
KeepsOutput(ctx, output, left) ==
    ctx.status = "completed" =>
        /\ output = IF ctx.fallback_used THEN "preset" ELSE "produced"
        /\ left \subseteq ctx.artifacts

HandOver == \A s \in Stages : KeepsOutput(stages[s], stage_outputs[s], ArtifactsOf(s))

LEMMA RecordsHandOver ==
    ASSUME NEW s, NEW at, NEW ctx \in StageContext, NEW output \in Output, NEW left, NEW stopped,
           RecordsFollow(s, at, ctx, output, left, stopped)
    PROVE  KeepsOutput(ctx, output, left)
<1>1. OutputFollows(at, ctx, output, left) /\ SuccessFollows(at, ctx)
    BY DEF RecordsFollow, TraceFollows
<1>2. ctx.status = "completed" => output # "absent" /\ output # "empty"
    BY <1>1 DEF OutputFollows, SuccessFollows
<1>3. ctx.status = "completed" => (output = "produced" <=> ~ctx.fallback_used)
    BY <1>1 DEF OutputFollows
<1>4. left \subseteq ctx.artifacts
    BY <1>1 DEF OutputFollows
<1> QED
    BY <1>2, <1>3, <1>4 DEF KeepsOutput, Output

LEMMA RunHandsOver == StateTypeOK /\ RecordsInvariant => HandOver
<1> SUFFICES ASSUME StateTypeOK, RecordsInvariant, NEW s \in Stages
             PROVE  KeepsOutput(stages[s], stage_outputs[s], ArtifactsOf(s))
    BY DEF HandOver
<1>1. stages[s] \in StageContext /\ stage_outputs[s] \in Output
    BY DEF StateTypeOK
<1>2. RecordsFollow(s, pc[s], stages[s], stage_outputs[s], ArtifactsOf(s), safe_stopped)
    BY DEF RecordsInvariant, StageRecords
<1> QED
    BY <1>1, <1>2, RecordsHandOver

LEMMA HandOverInit == ReplanInit => HandOver
<1>1. ReplanInit => StateTypeOK /\ RecordsInvariant
    BY ReplanInvariantInit, RecordsInit DEF ReplanInit, ReplanInvariant, ReplanTypeOK
<1> QED
    BY <1>1, RunHandsOver

LEMMA StartReplanHandsOver ==
    ASSUME ReplanInvariant, ReplanInvariant', NEW origin, StartReplan(origin)
    PROVE  HandOver'
<1> SUFFICES ASSUME NEW s \in Stages, stages'[s].status = "completed"
             PROVE  KeepsOutput(stages'[s], stage_outputs'[s], ArtifactsOf(s)')
    BY DEF HandOver, KeepsOutput
<1>1. s \notin Impacted(origin) /\ stages'[s] = stages[s]
    BY DEF StartReplan, NoContext
<1>2. s \in completed'
    BY <1>1 DEF StartReplan, PreservedCompleted
<1>3. stage_outputs'[s] = IF stages[s].fallback_used THEN "preset" ELSE "produced"
    BY <1>2 DEF StartReplan
<1>4. ArtifactsOf(s)' \subseteq stages[s].artifacts
    BY DEF StartReplan, ArtifactsOf
<1> QED
    BY <1>1, <1>3, <1>4 DEF KeepsOutput

LEMMA HandOverNext ==
    HandOver /\ ReplanInvariant /\ ReplanInvariant' /\ [ReplanNext]_allVars => HandOver'
<1> SUFFICES ASSUME HandOver, ReplanInvariant, ReplanInvariant', [ReplanNext]_allVars
             PROVE  HandOver'
    OBVIOUS
<1>1. CASE RunStep /\ Running
    <2>1. RunInvariant /\ RecordsInvariant /\ [Next]_vars
        BY <1>1 DEF ReplanInvariant, RunStep, Next
    <2>2. RecordsInvariant' /\ StateTypeOK'
        BY <2>1, RecordsNext DEF ReplanInvariant, ReplanTypeOK
    <2>3. (StateTypeOK /\ RecordsInvariant => HandOver)'
        BY RunHandsOver, PTL
    <2> QED
        BY <2>2, <2>3
<1>2. CASE RunStep /\ ~Running
    <2>1. ~EngineStep
        BY <1>2 DEF Running, EngineStep, Schedule, NothingReady, Collect, Finish, RequestFinalQc,
                    FinalQcTimesOut, FinalQcRejects, FinalQcApproves, FinalQcRaises
    <2>2. PICK r \in Stages : StageStep(r)
        BY <1>2, <2>1 DEF RunStep
    <2>3. StateTypeOK /\ StatusFits(r) /\ StageRecords(r) /\ OthersKept(r)
        BY <1>2, <2>2, RoundStep DEF ReplanInvariant, ReplanTypeOK
    <2>4. StageRecords(r)'
        BY <2>2, <2>3, RecordsStep
    <2>5. stages'[r] \in StageContext /\ stage_outputs'[r] \in Output
        BY DEF ReplanInvariant, ReplanTypeOK, StateTypeOK
    <2>6. KeepsOutput(stages'[r], stage_outputs'[r], ArtifactsOf(r)')
        BY <2>4, <2>5, RecordsHandOver DEF StageRecords
    <2>7. \A s \in Stages \ {r} : KeepsOutput(stages'[s], stage_outputs'[s], ArtifactsOf(s)')
        BY <2>2, <2>3, OthersArtifacts DEF OthersKept, HandOver
    <2> QED
        BY <2>6, <2>7 DEF HandOver
<1>3. CASE Replan
    <2>1. PICK origin \in Stages \cup {Requirement} : ReplanSkipped(origin) \/ StartReplan(origin)
        BY <1>3 DEF Replan
    <2>2. CASE ReplanSkipped(origin)
        BY <2>2 DEF ReplanSkipped, vars, contextVars, HandOver, ArtifactsOf
    <2> QED
        BY <2>1, <2>2, StartReplanHandsOver
<1>4. CASE ScheduleReplan \/ NothingToReplan \/ CollectReplan \/ ReplanRaises
    BY <1>4
    DEF ScheduleReplan, NothingToReplan, CollectReplan, ReplanRaises, stageVars, contextVars,
        HandOver, ArtifactsOf
<1>5. CASE FinishReplan
    <2>1. /\ UNCHANGED contextVars
          /\ \A s \in Stages : stages'[s].status = "completed" => stages'[s] = stages[s]
        BY <1>5 DEF FinishReplan, NoContext
    <2> QED
        BY <2>1 DEF HandOver, KeepsOutput, ArtifactsOf, contextVars
<1>6. CASE UNCHANGED allVars
    BY <1>6 DEF allVars, vars, contextVars, HandOver, ArtifactsOf
<1> QED
    BY <1>1, <1>2, <1>3, <1>4, <1>5, <1>6 DEF ReplanNext, ReplanStep, Stopped

\* The ExecutionContext holds the output of every completed stage, of the kind
\* its context tells, and none of its artifacts that the context does not list.
THEOREM HandOverCorrect == ReplanSpec => []HandOver
    BY HandOverInit, HandOverNext, ReplanInvariantCorrect, PTL DEF ReplanSpec

-----------------------------------------------------------------------------
(* The properties.                                                         *)

\* Every variable keeps its type, however often a workflow is replanned; the
\* calls stay within their bound.
THEOREM ReplanTypeCorrect == ReplanSpec => []ReplanTypeOK
<1>1. ReplanInvariant => ReplanTypeOK
    BY DEF ReplanInvariant
<1> QED
    BY <1>1, ReplanInvariantCorrect, PTL

\* In whatever order changes are replanned, a stage that has its inputs has
\* them from what its predecessors' contexts hand on now.
THEOREM NoStaleInputAlways == ReplanSpec => []NoStaleInput
<1>1. ReplanInvariant => NoStaleInput
    BY DEF ReplanInvariant, Aftermath
<1> QED
    BY <1>1, ReplanInvariantCorrect, PTL

\* A context that a replan dropped is back when the call returns, but behind a
\* preserved stage that never completed and in a safe-stopped workflow.
THEOREM InvalidatedAccountedAlways == ReplanSpec => []InvalidatedAccounted
<1>1. ReplanInvariant => InvalidatedAccounted
    BY DEF ReplanInvariant, Aftermath
<1> QED
    BY <1>1, ReplanInvariantCorrect, PTL

\* What a replan executes has passed governance and its approval in this call.
THEOREM ReplanGuardedAlways == ReplanSpec => []ReplanGuarded
<1>1. ASSUME ReplanInvariant, phase \in ReplanPhase, NEW s \in ImpactedStages, Executed(s)
      PROVE  /\ policy_evaluations[s] \in PolicyOutcomes[s] \ {"block"}
             /\ \/ s \in RequiresApproval
                \/ ActionImpact[s] >= ApprovalThreshold
                \/ policy_evaluations[s] = "require_approval"
                => approvals[s] = "approved"
    <2>1. Guarded(s)
        BY <1>1 DEF ReplanInvariant, Aftermath, ImpactedKept
    <2> QED
        BY <1>1, <2>1 DEF Guarded, Cleared, NeedsApproval
<1>2. ReplanInvariant => ReplanGuarded
    BY <1>1 DEF ReplanGuarded
<1> QED
    BY <1>2, ReplanInvariantCorrect, PTL

\* The step that drops contexts and rebuilds the ExecutionContext.
LEMMA StartReplanUntouched ==
    ASSUME ReplanInvariant, HandOver, NEW origin, StartReplan(origin),
           NEW s \in Stages \ Impacted(origin)
    PROVE  Untouched(s)
<1>1. stages'[s] = stages[s] /\ pc'[s] = pc[s]
    BY DEF StartReplan
<1> SUFFICES ASSUME stages[s].status = "completed"
             PROVE  /\ stage_outputs'[s] = stage_outputs[s]
                    /\ \A n \in Attempt : <<s, n>> \in artifacts => <<s, n>> \in artifacts'
    BY <1>1 DEF Untouched
<1>2. KeepsOutput(stages[s], stage_outputs[s], ArtifactsOf(s))
    BY DEF HandOver
<1>3. s \in completed'
    BY DEF StartReplan, PreservedCompleted
<1>4. stage_outputs'[s] = stage_outputs[s]
    BY <1>2, <1>3 DEF StartReplan, KeepsOutput
<1>5. ASSUME NEW n \in Attempt, <<s, n>> \in artifacts
      PROVE  <<s, n>> \in artifacts'
    <2>1. n \in stages[s].artifacts
        BY <1>2, <1>5 DEF KeepsOutput, ArtifactsOf
    <2>2. artifacts' = {of \in completed' \X Attempt : of[2] \in stages[of[1]].artifacts}
        BY DEF StartReplan
    <2> QED
        BY <1>3, <2>1, <2>2
<1> QED
    BY <1>4, <1>5

\* No step of a replan, nor of the coroutines a raising gateway leaves behind,
\* touches a stage that the change does not impact: not its context, and if it
\* has completed, not its output or its artifacts in the ExecutionContext, which
\* the first step drops and rebuilds.
THEOREM PreservedUntouchedAlways == ReplanSpec => PreservedUntouched
<1> DEFINE OfReplan == phase \in ReplanPhase \/ phase' \in ReplanPhase
           Preserved == OfReplan => \A s \in Stages \ ImpactedStages' : Untouched(s)
<1>1. ASSUME ReplanInvariant, HandOver, [ReplanNext]_allVars, OfReplan,
             NEW s \in Stages \ ImpactedStages'
      PROVE  Untouched(s)
    <2>1. CASE RunStep
        <3>1. ~EngineStep
            BY <1>1
            DEF ReplanPhase, EngineStep, Schedule, NothingReady, Collect, Finish, Finalise,
                RequestFinalQc, FailFinalQc, FinalQcTimesOut, FinalQcRejects, FinalQcApproves,
                FinalQcRaises, LoopEnds
        <3>2. PICK r \in Stages : StageStep(r)
            BY <2>1, <3>1 DEF RunStep
        <3>3. ~Running
            <4>1. OthersKept(r)
                BY <1>1, <3>2, StageStepEffect DEF ReplanInvariant, ReplanTypeOK
            <4>2. phase' = phase
                BY <4>1 DEF OthersKept, runVars
            <4> QED
                BY <1>1, <4>2 DEF ReplanPhase, Running
        <3>4. r \in ImpactedStages /\ OthersKept(r)
            BY <1>1, <3>2, <3>3, RoundStep
        <3>5. s # r
            BY <1>1, <2>1, <3>4 DEF RunStep, replanVars, ImpactedStages
        <3>6. ArtifactsOf(s)' = ArtifactsOf(s)
            BY <1>1, <3>2, <3>5, OthersArtifacts DEF ReplanInvariant, ReplanTypeOK
        <3> QED
            BY <1>1, <3>4, <3>5, <3>6 DEF OthersKept, Untouched, ArtifactsOf
    <2>2. CASE Replan
        <3>1. PICK origin \in Stages \cup {Requirement} :
                  ReplanSkipped(origin) \/ StartReplan(origin)
            BY <2>2 DEF Replan
        <3>2. CASE ReplanSkipped(origin)
            BY <3>2 DEF ReplanSkipped, vars, contextVars, Untouched
        <3>3. CASE StartReplan(origin)
            <4>1. ImpactedStages' = Impacted(origin)'
                BY <3>3 DEF StartReplan, ImpactedStages, Impacted
            <4>2. Impacted(origin)' = Impacted(origin)
                OBVIOUS
            <4> QED
                BY <1>1, <3>3, <4>1, <4>2, StartReplanUntouched
        <3> QED
            BY <3>1, <3>2, <3>3
    <2>3. CASE ScheduleReplan
        <3>1. s \notin batch'
            BY <1>1, <2>3 DEF ScheduleReplan, ReadyToReplan, replanVars, ImpactedStages
        <3> QED
            BY <1>1, <2>3, <3>1
            DEF ScheduleReplan, contextVars, Untouched, ReplanInvariant, ReplanTypeOK, StateTypeOK
    <2>4. CASE NothingToReplan \/ CollectReplan \/ ReplanRaises
        BY <2>4 DEF NothingToReplan, CollectReplan, ReplanRaises, stageVars, contextVars, Untouched
    <2>5. CASE FinishReplan
        <3>1. s \notin ReplanBlocked
            BY <1>1, <2>5 DEF FinishReplan, ReplanBlocked, ImpactedStages
        <3> QED
            BY <1>1, <2>5, <3>1 DEF FinishReplan, contextVars, Untouched
    <2>6. CASE UNCHANGED allVars
        BY <2>6 DEF allVars, vars, contextVars, Untouched
    <2> QED
        BY <1>1, <2>1, <2>2, <2>3, <2>4, <2>5, <2>6 DEF ReplanNext, ReplanStep, Stopped
<1>2. ReplanInvariant /\ HandOver /\ [ReplanNext]_allVars => [Preserved]_allVars
    BY <1>1
<1>3. PreservedUntouched <=> [][Preserved]_allVars
    BY DEF PreservedUntouched
<1> HIDE DEF Preserved
<1> QED
    BY <1>2, <1>3, ReplanInvariantCorrect, HandOverCorrect, PTL DEF ReplanSpec

\* The log of attempts stays complete and in order through every replan, and
\* what a stage did when it gave up still follows from it and the policy.
THEOREM ReplannedRecoveryTraceable == ReplanSpec => []RecoveryTraceable
<1>1. ReplanInvariant => \A s \in Stages : Traced(s)
    BY DEF ReplanInvariant, Aftermath
<1> QED
    BY <1>1, TracedRecovery, ReplanInvariantCorrect, PTL

\* A stage that completes by its own work passed its exit gate, also when it
\* was replanned.
THEOREM ReplannedPassedGate == ReplanSpec => []CompletedPassedGate
<1>1. ReplanInvariant => CompletedPassedGate
    BY DEF ReplanInvariant, Aftermath, Traced, TraceFollows, GateResultsFollow,
           CompletedPassedGate
<1> QED
    BY <1>1, ReplanInvariantCorrect, PTL

=============================================================================
