--------------------------- MODULE Clarification ---------------------------
(***************************************************************************)
(* orchestrator/scenarios/ambiguous.py: how the answers to the seven       *)
(* clarification questions become a normalised requirement and then a task *)
(* plan.  The two are built by different stages from different keys of     *)
(* input_data: the first one from the answers, the second one from flags   *)
(* and from answers that the first one forwards.                           *)
(*                                                                         *)
(* An answer stands for its text.  "preserve" and "increase" are Q6's Yes  *)
(* and No; "Owner" is Q2's owner-only option as an operator may type it,   *)
(* with a capital.                                                         *)
(***************************************************************************)
EXTENDS Naturals, Sequences

Questions == <<"Q1", "Q2", "Q3", "Q4", "Q5", "Q6", "Q7">>

QuestionIds == {Questions[i] : i \in DOMAIN Questions}

\* The options of each question; two of the retention periods.
Options ==
    [Q1 |-> {"count", "unique", "country", "full"},
     Q2 |-> {"owner", "any", "admin", "public"},
     Q3 |-> {"90 days", "indefinitely"},
     Q4 |-> {"async", "sync"},
     Q5 |-> {"api only", "embedded ui", "dashboard"},
     Q6 |-> {"preserve", "increase"},
     Q7 |-> {"hashed", "raw", "none"}]

\* The safe default of each question.
Default ==
    [Q1 |-> "count", Q2 |-> "owner", Q3 |-> "90 days", Q4 |-> "async",
     Q5 |-> "api only", Q6 |-> "preserve", Q7 |-> "hashed"]

Typed == [Options EXCEPT !.Q2 = @ \cup {"Owner"}]

VARIABLES
    stage,          \* the stage that runs next, or how the workflow ended
    answers,        \* the gateway's list of answers so far
    input_data,     \* what the stage before handed on
    requirement,    \* normalised_requirement
    plan            \* task_plan

clarificationVars == <<stage, answers, input_data, requirement, plan>>

NoRequirement == <<>>
NoPlan == <<>>
NoAnswers == <<>>

-----------------------------------------------------------------------------
(* The clarification stage.                                                *)

NextQuestion == Questions[Len(answers) + 1]

ClarificationInit ==
    /\ stage = "clarification"
    /\ answers = <<>>
    /\ input_data = NoAnswers
    /\ requirement = NoRequirement
    /\ plan = NoPlan

\* One answer is read; an empty one is the default.  A preset answer, or its
\* absence, gives the same.
Answer ==
    /\ stage = "clarification"
    /\ Len(answers) < Len(Questions)
    /\ \/ \E text \in Typed[NextQuestion] :
              answers' = Append(answers, [answer |-> text, answered_by |-> "human"])
       \/ answers' = Append(answers, [answer |-> Default[NextQuestion],
                                      answered_by |-> "default"])
    /\ UNCHANGED <<stage, input_data, requirement, plan>>

\* The terminal closes: input() raises, and with it execute(); the answers
\* given so far are lost with the gateway's list.
TerminalCloses ==
    /\ stage = "clarification"
    /\ Len(answers) < Len(Questions)
    /\ stage' = "failed"
    /\ answers' = <<>>
    /\ UNCHANGED <<input_data, requirement, plan>>

\* answers_dict
AnswersDict ==
    [q \in QuestionIds |-> answers[CHOOSE i \in DOMAIN Questions : Questions[i] = q].answer]

Clarify ==
    /\ stage = "clarification"
    /\ Len(answers) = Len(Questions)
    /\ stage' = "normalization"
    /\ input_data' = AnswersDict
    /\ UNCHANGED <<answers, requirement, plan>>

-----------------------------------------------------------------------------
(* The normalization stage: which answers' lower-cased text contains what. *)

IncludesUnique(a)  == a.Q1 \in {"unique", "country", "full"}
IncludesCountry(a) == a.Q1 \in {"country", "full"}
IncludesDevice(a)  == a.Q1 = "full"
OwnerOnly(a)       == a.Q2 \in {"owner", "Owner"}

\* functional_requirements, the non-functional one and explicitly_excluded.
Normalised(a) ==
    [ip        |-> IF a.Q7 = "hashed" THEN "hashed" ELSE "raw",
     metrics   |-> {"count"} \cup (IF IncludesUnique(a) THEN {"unique"} ELSE {})
                             \cup (IF IncludesCountry(a) THEN {"country"} ELSE {}),
     access    |-> IF OwnerOnly(a) THEN "owner" ELSE "any",
     retention |-> a.Q3,
     recording |-> a.Q4,
     redirect  |-> a.Q6,
     excluded  |-> (IF a.Q5 = "api only" THEN {"ui"} ELSE {})
                   \cup (IF IncludesDevice(a) THEN {} ELSE {"device"})]

\* Mutant: the answers are not forwarded, and .get() falls back.
ForwardedNot(a) == [a EXCEPT !.Q2 = "", !.Q3 = "90 days"]

\* The clarifications that the stage hands on.
Forwarded(a) == a

\* output_data: the flags, and the answers forwarded.
Normalise ==
    /\ stage = "normalization"
    /\ stage' = "task_planning"
    /\ requirement' = Normalised(input_data)
    /\ input_data' = [clarifications          |-> Forwarded(input_data),
                      include_unique_visitors |-> IncludesUnique(input_data),
                      include_country         |-> IncludesCountry(input_data),
                      is_async                |-> input_data.Q4 = "async",
                      store_hashed_ip         |-> input_data.Q7 = "hashed",
                      sla_preserved           |-> input_data.Q6 = "preserve"]
    /\ UNCHANGED <<answers, plan>>

-----------------------------------------------------------------------------
(* The task_planning stage.                                                *)

CoreTasks == {"T-001", "T-002", "T-003", "T-004", "T-005"}

AddedTasks(in) ==
    (IF in.include_unique_visitors THEN {"T-006"} ELSE {})
    \cup (IF in.include_country THEN {"T-007"} ELSE {})
    \cup (IF in.store_hashed_ip THEN {"T-008"} ELSE {})
    \cup (IF in.sla_preserved /\ in.is_async THEN {"T-009"} ELSE {})

ExcludedTasks(in) ==
    {"EXCL-001"} \cup (IF in.include_unique_visitors THEN {} ELSE {"EXCL-002"})

\* T-004 looks for 'owner' in the answer's text as it is.
Planned(in) ==
    [tasks     |-> CoreTasks \cup AddedTasks(in),
     excluded  |-> ExcludedTasks(in),
     ip_field  |-> IF in.store_hashed_ip THEN "hashed" ELSE "raw",
     recording |-> IF in.is_async THEN "async" ELSE "sync",
     access    |-> IF in.clarifications.Q2 = "owner" THEN "owner" ELSE "any",
     retention |-> in.clarifications.Q3]

PlanTasks ==
    /\ stage = "task_planning"
    /\ stage' = "validation"
    /\ plan' = Planned(input_data)
    /\ UNCHANGED <<answers, input_data, requirement>>

ClarificationNext == Answer \/ TerminalCloses \/ Clarify \/ Normalise \/ PlanTasks

ClarificationSpec == ClarificationInit /\ [][ClarificationNext]_clarificationVars

-----------------------------------------------------------------------------
(* Properties.                                                             *)

\* The answer to question q, once all are given.
Answered(q) == AnswersDict[q]

\* The plan builds what the normalised requirement says, although its stage
\* takes it from other keys: the tasks added, the address stored, the retention,
\* unique visitors excluded exactly if they are not required, and the access of
\* every answer to Q2 that is one of its options.  (The two stages look for the
\* owner in different ways, so an answer typed as "Owner only" is required for
\* the owner and planned for anyone; and EXCL-001, the dashboard, is excluded
\* whatever Q5 says.)
PlanFollowsRequirement ==
    plan # NoPlan =>
        /\ plan.ip_field = requirement.ip
        /\ "T-008" \in plan.tasks <=> requirement.ip = "hashed"
        /\ "T-006" \in plan.tasks <=> "unique" \in requirement.metrics
        /\ "T-007" \in plan.tasks <=> "country" \in requirement.metrics
        /\ "EXCL-002" \in plan.excluded <=> "unique" \notin requirement.metrics
        /\ plan.recording = requirement.recording
        /\ "T-009" \in plan.tasks <=>
               requirement.recording = "async" /\ requirement.redirect = "preserve"
        /\ plan.retention = requirement.retention
        /\ Answered("Q2") \in Options.Q2 => plan.access = requirement.access

=============================================================================
