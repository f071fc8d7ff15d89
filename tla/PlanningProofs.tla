--------------------------- MODULE PlanningProofs ---------------------------
(***************************************************************************)
(* Proofs about the two planners: the loop over TaskScheduler, for any     *)
(* list of tasks and any dependencies between them, and the task plan of   *)
(* the ambiguous scenario.                                                 *)
(***************************************************************************)
EXTENDS Clarification, TaskScheduler, TLAPS

-----------------------------------------------------------------------------
(* The inductive invariant of the scheduler's loop.                        *)

SchedulerTypeOK ==
    /\ depends_on \in [TaskIds -> SUBSET (TaskIds \cup {UnknownId})]
    /\ task_status \in [TaskIds -> TaskStatus]
    /\ completed_ids \in SUBSET TaskIds
    /\ ready \in SUBSET TaskIds
    /\ loop \in {"validate", "query", "execute", "ended", "value_error"}

\* A task may run, or has run: all it depends on is completed.
Unblocked(t) == depends_on[t] \subseteq completed_ids

\* Only valid lists are scheduled; a task leaves "pending" only unblocked, is
\* in progress only while its round is executed, and the loop ends only when
\* no task is ready.
SchedulerInvariant ==
    /\ SchedulerTypeOK
    /\ completed_ids = {t \in TaskIds : task_status[t] = "completed"}
    /\ loop \in {"query", "execute", "ended"} => IsValid
    /\ \A t \in TaskIds : task_status[t] # "pending" => Unblocked(t)
    /\ \A t \in TaskIds : task_status[t] = "in_progress" => loop = "execute" /\ t \in ready
    /\ loop = "execute" => \A t \in ready : Unblocked(t)
    /\ loop = "ended" => ReadyTasks = {}

LEMMA SchedulerInitHolds == SchedulerInit => SchedulerInvariant
    BY DEF SchedulerInit, SchedulerInvariant, SchedulerTypeOK, TaskStatus

LEMMA SchedulerTypeNext == SchedulerTypeOK /\ [SchedulerNext]_schedulerVars => SchedulerTypeOK'
<1> SUFFICES ASSUME SchedulerTypeOK, [SchedulerNext]_schedulerVars
             PROVE  SchedulerTypeOK'
    OBVIOUS
<1>1. CASE Validate \/ GetReadyTasks \/ RoundEnds
    BY <1>1 DEF Validate, GetReadyTasks, RoundEnds, ReadyTasks, SchedulerTypeOK
<1>2. ASSUME NEW t \in TaskIds, StartTask(t) \/ CompleteTask(t) \/ FailTask(t)
      PROVE  SchedulerTypeOK'
    BY <1>2 DEF StartTask, CompleteTask, FailTask, SchedulerTypeOK, TaskStatus
<1>3. CASE UNCHANGED schedulerVars
    BY <1>3 DEF schedulerVars, SchedulerTypeOK
<1> QED
    BY <1>1, <1>2, <1>3 DEF SchedulerNext

LEMMA SchedulerNextHolds ==
    SchedulerInvariant /\ [SchedulerNext]_schedulerVars => SchedulerInvariant'
<1> SUFFICES ASSUME SchedulerInvariant, [SchedulerNext]_schedulerVars
             PROVE  SchedulerInvariant'
    OBVIOUS
<1>1. SchedulerTypeOK'
    BY SchedulerTypeNext DEF SchedulerInvariant
\* No step changes the dependencies.
<1>2. depends_on' = depends_on /\ (IsValid => IsValid')
    BY DEF SchedulerNext, Validate, GetReadyTasks, RoundEnds, StartTask, CompleteTask, FailTask,
           schedulerVars, IsValid, UnknownDependencies, IsAcyclic
<1>3. CASE Validate
    BY <1>1, <1>2, <1>3 DEF Validate, SchedulerInvariant, Unblocked
<1>4. CASE GetReadyTasks
    BY <1>1, <1>2, <1>4 DEF GetReadyTasks, SchedulerInvariant, Unblocked, ReadyTasks
<1>5. CASE RoundEnds
    BY <1>1, <1>2, <1>5 DEF RoundEnds, SchedulerInvariant, Unblocked
<1>6. ASSUME NEW t \in TaskIds, StartTask(t)
      PROVE  SchedulerInvariant'
    BY <1>1, <1>2, <1>6 DEF StartTask, SchedulerInvariant, SchedulerTypeOK, Unblocked
<1>7. ASSUME NEW t \in TaskIds, CompleteTask(t)
      PROVE  SchedulerInvariant'
    BY <1>1, <1>2, <1>7 DEF CompleteTask, SchedulerInvariant, SchedulerTypeOK, Unblocked
<1>8. ASSUME NEW t \in TaskIds, FailTask(t)
      PROVE  SchedulerInvariant'
    BY <1>1, <1>2, <1>8 DEF FailTask, SchedulerInvariant, SchedulerTypeOK, Unblocked
<1>9. CASE UNCHANGED schedulerVars
    BY <1>1, <1>2, <1>9 DEF schedulerVars, SchedulerInvariant, Unblocked, ReadyTasks
<1> QED
    BY <1>3, <1>4, <1>5, <1>6, <1>7, <1>8, <1>9 DEF SchedulerNext

\* The inductive invariant of the loop.
THEOREM SchedulerInvariantCorrect == SchedulerSpec => []SchedulerInvariant
    BY SchedulerInitHolds, SchedulerNextHolds, PTL DEF SchedulerSpec

-----------------------------------------------------------------------------
(* What is left pending.                                                   *)

\* f tells of every task whether a failed one is upstream of it.
TellsFailure(f) ==
    f = [t \in TaskIds |->
             \E d \in depends_on[t] \cap TaskIds : task_status[d] = "failed" \/ f[d]]

\* Without a cycle there is at most one such function.
LEMMA FailureUnique ==
    ASSUME IsAcyclic, NEW f, TellsFailure(f), NEW g, TellsFailure(g), NEW t \in TaskIds
    PROVE  f[t] <=> g[t]
<1> DEFINE differing == {u \in TaskIds : ~(f[u] <=> g[u])}
<1> SUFFICES ASSUME differing # {}
             PROVE  FALSE
    OBVIOUS
<1>1. PICK u \in differing : depends_on[u] \cap differing = {}
    BY DEF IsAcyclic
<1>2. \A d \in depends_on[u] \cap TaskIds : f[d] <=> g[d]
    BY <1>1
<1>3. f[u] <=> \E d \in depends_on[u] \cap TaskIds : task_status[d] = "failed" \/ f[d]
    BY DEF TellsFailure
<1>4. g[u] <=> \E d \in depends_on[u] \cap TaskIds : task_status[d] = "failed" \/ g[d]
    BY DEF TellsFailure
<1> QED
    BY <1>1, <1>2, <1>3, <1>4

\* When the loop has ended, being pending is such a function: what is pending
\* waits for something failed or pending, what is not was unblocked.
LEMMA PendingTells ==
    ASSUME SchedulerInvariant, loop = "ended"
    PROVE  TellsFailure([t \in TaskIds |-> task_status[t] = "pending"])
<1> DEFINE pending == [t \in TaskIds |-> task_status[t] = "pending"]
<1>1. ASSUME NEW t \in TaskIds
      PROVE  task_status[t] = "pending" <=>
                 \E d \in depends_on[t] \cap TaskIds :
                     task_status[d] = "failed" \/ task_status[d] = "pending"
    <2>1. depends_on[t] \subseteq TaskIds
        BY DEF SchedulerInvariant, IsValid, UnknownDependencies
    <2>2. \A d \in TaskIds : task_status[d] \in {"pending", "completed", "failed"}
        BY DEF SchedulerInvariant, SchedulerTypeOK, TaskStatus
    <2>3. ASSUME task_status[t] = "pending"
          PROVE  \E d \in depends_on[t] \cap TaskIds :
                     task_status[d] = "failed" \/ task_status[d] = "pending"
        BY <2>1, <2>2, <2>3 DEF SchedulerInvariant, ReadyTasks
    <2>4. ASSUME task_status[t] # "pending", NEW d \in depends_on[t] \cap TaskIds
          PROVE  task_status[d] = "completed"
        BY <2>4 DEF SchedulerInvariant, Unblocked
    <2> QED
        BY <2>3, <2>4
<1>2. \A t \in TaskIds : \A d \in depends_on[t] \cap TaskIds :
          pending[d] = (task_status[d] = "pending")
    OBVIOUS
<1>3. pending = [t \in TaskIds |->
                    \E d \in depends_on[t] \cap TaskIds : task_status[d] = "failed" \/ pending[d]]
    BY <1>1, <1>2
<1> QED
    BY <1>3 DEF TellsFailure

\* For any tasks and dependencies: when the loop ends, exactly what is
\* downstream of a failed task was not executed.
THEOREM PendingOnlyBehindFailureAlways == SchedulerSpec => []PendingOnlyBehindFailure
<1>1. ASSUME SchedulerInvariant
      PROVE  PendingOnlyBehindFailure
    <2> DEFINE pending == [t \in TaskIds |-> task_status[t] = "pending"]
    <2> SUFFICES ASSUME loop = "ended", NEW t \in TaskIds
                 PROVE  task_status[t] = "pending" <=> BehindFailure[t]
        BY DEF PendingOnlyBehindFailure
    <2>1. TellsFailure(pending)
        BY <1>1, PendingTells
    <2>2. BehindFailure = CHOOSE f : TellsFailure(f)
        BY DEF BehindFailure, TellsFailure
    <2> HIDE DEF pending
    <2>3. TellsFailure(BehindFailure)
        BY <2>1, <2>2
    <2>4. IsAcyclic
        BY <1>1 DEF SchedulerInvariant, IsValid
    <2>5. pending[t] <=> BehindFailure[t]
        BY <2>1, <2>3, <2>4, FailureUnique
    <2> QED
        BY <2>5 DEF pending
<1> QED
    BY <1>1, SchedulerInvariantCorrect, PTL

-----------------------------------------------------------------------------
(* The task plan.                                                          *)

\* The texts that an answer may have.
Texts == UNION {Typed[q] : q \in QuestionIds}

\* What the normalization stage hands on, when it was given the answers a.
Flags(a) ==
    [clarifications          |-> Forwarded(a),
     include_unique_visitors |-> IncludesUnique(a),
     include_country         |-> IncludesCountry(a),
     is_async                |-> a.Q4 = "async",
     store_hashed_ip         |-> a.Q7 = "hashed",
     sla_preserved           |-> a.Q6 = "preserve"]

\* Every stage works on what the answers say, which no later stage changes.
ClarificationInvariant ==
    /\ answers \in Seq([answer : Texts, answered_by : {"human", "default"}])
    /\ Len(answers) <= 7
    /\ \A i \in 1 .. Len(answers) : answers[i].answer \in Typed[Questions[i]]
    /\ stage \in {"clarification", "failed", "normalization", "task_planning", "validation"}
    /\ stage \notin {"clarification", "failed"} => Len(answers) = 7
    /\ stage = "normalization" => input_data = AnswersDict
    /\ stage = "task_planning" =>
           requirement = Normalised(AnswersDict) /\ input_data = Flags(AnswersDict)
    /\ plan # NoPlan => /\ stage = "validation"
                       /\ requirement = Normalised(AnswersDict)
                       /\ plan = Planned(Flags(AnswersDict))

LEMMA ClarificationInitHolds == ClarificationInit => ClarificationInvariant
    BY DEF ClarificationInit, ClarificationInvariant

LEMMA QuestionListed == ASSUME NEW n \in 1 .. 7 PROVE Questions[n] \in QuestionIds
    BY DEF QuestionIds, Questions

LEMMA QuestionNumber ==
    ASSUME NEW n \in 1 .. 7
    PROVE  (CHOOSE i \in DOMAIN Questions : Questions[i] = Questions[n]) = n
    BY DEF Questions

\* A default is one of the options.
LEMMA DefaultTyped == ASSUME NEW q \in QuestionIds PROVE Default[q] \in Typed[q]
<1>1. q \in {"Q1", "Q2", "Q3", "Q4", "Q5", "Q6", "Q7"}
    BY DEF QuestionIds, Questions
<1>2. /\ Typed.Q1 = Options.Q1 /\ Typed.Q2 = Options.Q2 \cup {"Owner"}
      /\ Typed.Q3 = Options.Q3 /\ Typed.Q4 = Options.Q4 /\ Typed.Q5 = Options.Q5
      /\ Typed.Q6 = Options.Q6 /\ Typed.Q7 = Options.Q7
    BY DEF Typed, Options
<1>3. Default.Q1 \in Options.Q1 /\ Default.Q2 \in Options.Q2
    BY DEF Options, Default
<1>4. Default.Q3 \in Options.Q3 /\ Default.Q4 \in Options.Q4
    BY DEF Options, Default
<1>5. Default.Q5 \in Options.Q5 /\ Default.Q6 \in Options.Q6
    BY DEF Options, Default
<1>6. Default.Q7 \in Options.Q7
    BY DEF Options, Default
<1> QED
    BY <1>1, <1>2, <1>3, <1>4, <1>5, <1>6

\* answers_dict, once every question is answered.
LEMMA DictTyped ==
    ASSUME ClarificationInvariant, Len(answers) = 7, NEW n \in 1 .. 7
    PROVE  AnswersDict[Questions[n]] = answers[n].answer /\ answers[n].answer \in Typed[Questions[n]]
    BY QuestionListed, QuestionNumber DEF AnswersDict, ClarificationInvariant

LEMMA AnswerStep == ASSUME ClarificationInvariant, Answer PROVE ClarificationInvariant'
<1>0. Len(Questions) = 7
    BY DEF Questions
<1>1. Len(answers) \in 0 .. 6 /\ Len(answers) + 1 \in 1 .. 7
  <2>1. answers \in Seq([answer : Texts, answered_by : {"human", "default"}])
      BY DEF ClarificationInvariant
  <2>2. Len(answers) \in Nat
      BY <2>1
  <2>3. Len(answers) < 7
      BY <1>0 DEF Answer
  <2>4. ASSUME NEW l \in Nat, l < 7 PROVE l \in 0 .. 6 /\ l + 1 \in 1 .. 7
      BY <2>4
  <2> QED
      BY <2>2, <2>3, <2>4
<1>2. NextQuestion \in QuestionIds
    BY <1>1, QuestionListed DEF NextQuestion
<1>3. PICK e \in [answer : Texts, answered_by : {"human", "default"}] :
          e.answer \in Typed[NextQuestion] /\ answers' = Append(answers, e)
    BY <1>2, DefaultTyped DEF Answer, Texts
<1>4. /\ answers' \in Seq([answer : Texts, answered_by : {"human", "default"}])
      /\ Len(answers') <= 7
      /\ \A i \in 1 .. Len(answers') : answers'[i].answer \in Typed[Questions[i]]
    BY <1>1, <1>3 DEF ClarificationInvariant, NextQuestion
<1> QED
    BY <1>4 DEF ClarificationInvariant, Answer

LEMMA DictKept == UNCHANGED answers => AnswersDict' = AnswersDict
    BY DEF AnswersDict

LEMMA TerminalClosesStep ==
    ASSUME ClarificationInvariant, TerminalCloses PROVE ClarificationInvariant'
    BY DEF ClarificationInvariant, TerminalCloses

LEMMA ClarifyStep == ASSUME ClarificationInvariant, Clarify PROVE ClarificationInvariant'
<1>1. Len(Questions) = 7
    BY DEF Questions
<1> QED
    BY <1>1, DictKept DEF ClarificationInvariant, Clarify

LEMMA NormaliseStep == ASSUME ClarificationInvariant, Normalise PROVE ClarificationInvariant'
<1>1. input_data = AnswersDict /\ AnswersDict' = AnswersDict /\ Len(answers) = 7
    BY DictKept DEF ClarificationInvariant, Normalise
<1>2. input_data' = Flags(AnswersDict')
    BY <1>1 DEF Normalise, Flags
<1>3. requirement' = Normalised(AnswersDict')
    BY <1>1 DEF Normalise
<1> QED
    BY <1>1, <1>2, <1>3 DEF ClarificationInvariant, Normalise

LEMMA PlanTasksStep == ASSUME ClarificationInvariant, PlanTasks PROVE ClarificationInvariant'
<1>1. /\ input_data = Flags(AnswersDict) /\ AnswersDict' = AnswersDict
      /\ requirement = Normalised(AnswersDict) /\ Len(answers) = 7
    BY DictKept DEF ClarificationInvariant, PlanTasks
<1>2. plan' = Planned(Flags(AnswersDict')) /\ requirement' = Normalised(AnswersDict')
    BY <1>1 DEF PlanTasks
<1> QED
    BY <1>1, <1>2 DEF ClarificationInvariant, PlanTasks

LEMMA ClarificationStep ==
    ClarificationInvariant /\ [ClarificationNext]_clarificationVars => ClarificationInvariant'
<1>1. ASSUME ClarificationInvariant, UNCHANGED clarificationVars
      PROVE  ClarificationInvariant'
    BY <1>1, DictKept DEF ClarificationInvariant, clarificationVars
<1> QED
    BY <1>1, AnswerStep, TerminalClosesStep, ClarifyStep, NormaliseStep, PlanTasksStep
    DEF ClarificationNext

\* The plan made of the flags says what the requirement made of the answers
\* says, whatever the answers a are, except that only two of them are options.
LEMMA PlannedAsNormalised ==
    ASSUME NEW a, a.Q4 \in {"async", "sync"}, NEW r, r = Normalised(a),
           NEW p, p = Planned(Flags(a))
    PROVE  /\ p.ip_field = r.ip
           /\ "T-008" \in p.tasks <=> r.ip = "hashed"
           /\ "T-006" \in p.tasks <=> "unique" \in r.metrics
           /\ "T-007" \in p.tasks <=> "country" \in r.metrics
           /\ "EXCL-002" \in p.excluded <=> "unique" \notin r.metrics
           /\ p.recording = r.recording
           /\ "T-009" \in p.tasks <=> r.recording = "async" /\ r.redirect = "preserve"
           /\ p.retention = r.retention
           /\ a.Q2 \in Options.Q2 => p.access = r.access
<1> DEFINE in == Flags(a)
<1>1. /\ in.include_unique_visitors = IncludesUnique(a)
      /\ in.include_country = IncludesCountry(a)
      /\ in.is_async = (a.Q4 = "async")
      /\ in.store_hashed_ip = (a.Q7 = "hashed")
      /\ in.sla_preserved = (a.Q6 = "preserve")
      /\ in.clarifications = a
    BY DEF Flags, Forwarded
<1>2. /\ p.tasks = CoreTasks \cup AddedTasks(in)
      /\ p.excluded = ExcludedTasks(in)
      /\ p.ip_field = IF in.store_hashed_ip THEN "hashed" ELSE "raw"
      /\ p.recording = IF in.is_async THEN "async" ELSE "sync"
      /\ p.access = IF in.clarifications.Q2 = "owner" THEN "owner" ELSE "any"
      /\ p.retention = in.clarifications.Q3
    BY DEF Planned
<1>3. /\ r.ip = IF a.Q7 = "hashed" THEN "hashed" ELSE "raw"
      /\ r.metrics = {"count"} \cup (IF IncludesUnique(a) THEN {"unique"} ELSE {})
                               \cup (IF IncludesCountry(a) THEN {"country"} ELSE {})
      /\ r.access = IF OwnerOnly(a) THEN "owner" ELSE "any"
      /\ r.retention = a.Q3 /\ r.recording = a.Q4 /\ r.redirect = a.Q6
    BY DEF Normalised
<1> HIDE DEF in
<1>4. /\ "T-006" \in p.tasks <=> "unique" \in r.metrics
      /\ "T-007" \in p.tasks <=> "country" \in r.metrics
    BY <1>1, <1>2, <1>3 DEF CoreTasks, AddedTasks
<1>5. /\ "T-008" \in p.tasks <=> r.ip = "hashed"
      /\ "T-009" \in p.tasks <=> r.recording = "async" /\ r.redirect = "preserve"
    BY <1>1, <1>2, <1>3 DEF CoreTasks, AddedTasks
<1>6. "EXCL-002" \in p.excluded <=> "unique" \notin r.metrics
    BY <1>1, <1>2, <1>3 DEF ExcludedTasks
<1>7. /\ p.ip_field = r.ip /\ p.recording = r.recording /\ p.retention = r.retention
    BY <1>1, <1>2, <1>3
<1>8. a.Q2 \in Options.Q2 => p.access = r.access
    BY <1>1, <1>2, <1>3 DEF OwnerOnly, Options
<1> QED
    BY <1>4, <1>5, <1>6, <1>7, <1>8

LEMMA PlanFollows == ClarificationInvariant => PlanFollowsRequirement
<1> SUFFICES ASSUME ClarificationInvariant, plan # NoPlan
             PROVE  PlanFollowsRequirement
    BY DEF PlanFollowsRequirement
<1>1. /\ Len(answers) = 7
      /\ requirement = Normalised(AnswersDict) /\ plan = Planned(Flags(AnswersDict))
    BY DEF ClarificationInvariant
<1>2. AnswersDict.Q4 \in {"async", "sync"}
  <2>1. Typed.Q4 = Options.Q4 /\ Options.Q4 = {"async", "sync"} /\ Questions[4] = "Q4"
      BY DEF Typed, Options, Questions
  <2> QED
      BY <1>1, <2>1, DictTyped
<1> QED
    BY <1>1, <1>2, PlannedAsNormalised DEF PlanFollowsRequirement, Answered

\* What the stages hand on agrees with the answers in every reachable state.
THEOREM ClarificationInvariantCorrect == ClarificationSpec => []ClarificationInvariant
    BY ClarificationInitHolds, ClarificationStep, PTL DEF ClarificationSpec

\* Whatever is answered, and whether a text or a default, the task plan builds
\* what the normalised requirement says, although it is made from other keys.
THEOREM PlanFollowsRequirementAlways == ClarificationSpec => []PlanFollowsRequirement
    BY ClarificationInvariantCorrect, PlanFollows, PTL

=============================================================================
