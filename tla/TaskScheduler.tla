--------------------------- MODULE TaskScheduler ---------------------------
(***************************************************************************)
(* orchestrator/engine/task_scheduler.py, driven by the loop of its        *)
(* docstring: validate, then query the ready tasks and execute them, in    *)
(* parallel, until none is ready.  Whoever drives the loop sets the status *)
(* of a task, as Task.status documents it.                                 *)
(***************************************************************************)
EXTENDS FiniteSets

CONSTANTS
    TaskIds,
    UnknownId   \* an id that no task has

ASSUME UnknownAssumption == UnknownId \notin TaskIds

TaskStatus == {"pending", "in_progress", "completed", "failed"}

VARIABLES
    depends_on,     \* [TaskIds -> SUBSET (TaskIds \cup {UnknownId})]
    task_status,    \* [TaskIds -> TaskStatus]
    completed_ids,
    ready,          \* the last answer of get_ready_tasks
    loop            \* where the caller is

schedulerVars == <<depends_on, task_status, completed_ids, ready, loop>>

\* A caller with nothing to schedule.
NoTasks ==
    /\ depends_on = [t \in TaskIds |-> {}]
    /\ task_status = [t \in TaskIds |-> "pending"]
    /\ completed_ids = {}
    /\ ready = {}
    /\ loop = "none"

\* Tasks with any dependencies at all, declared or not, in cycles or not.
SchedulerInit ==
    /\ depends_on \in [TaskIds -> SUBSET (TaskIds \cup {UnknownId})]
    /\ task_status = [t \in TaskIds |-> "pending"]
    /\ completed_ids = {}
    /\ ready = {}
    /\ loop = "validate"

-----------------------------------------------------------------------------
UnknownDependencies == (UNION {depends_on[t] : t \in TaskIds}) \ TaskIds

\* nx.is_directed_acyclic_graph
IsAcyclic ==
    \A S \in SUBSET TaskIds : S # {} => \E t \in S : depends_on[t] \cap S = {}

\* Mutant: only cycles are looked for.
HasNoCycle == IsAcyclic

\* validate() returns no error.
IsValid == UnknownDependencies = {} /\ IsAcyclic

\* Mutant: the status is not looked at.
ReadyWhateverStatus == {t \in TaskIds : depends_on[t] \subseteq completed_ids}

\* get_ready_tasks(completed_ids)
ReadyTasks ==
    {t \in TaskIds : task_status[t] = "pending" /\ depends_on[t] \subseteq completed_ids}

-----------------------------------------------------------------------------
Validate ==
    /\ loop = "validate"
    /\ loop' = IF IsValid THEN "query" ELSE "value_error"
    /\ UNCHANGED <<depends_on, task_status, completed_ids, ready>>

GetReadyTasks ==
    /\ loop = "query"
    /\ ready' = ReadyTasks
    /\ loop' = IF ready' = {} THEN "ended" ELSE "execute"
    /\ UNCHANGED <<depends_on, task_status, completed_ids>>

StartTask(t) ==
    /\ loop = "execute"
    /\ t \in ready
    /\ task_status[t] = "pending"
    /\ task_status' = [task_status EXCEPT ![t] = "in_progress"]
    /\ UNCHANGED <<depends_on, completed_ids, ready, loop>>

CompleteTask(t) ==
    /\ task_status[t] = "in_progress"
    /\ task_status' = [task_status EXCEPT ![t] = "completed"]
    /\ completed_ids' = completed_ids \cup {t}
    /\ UNCHANGED <<depends_on, ready, loop>>

FailTask(t) ==
    /\ task_status[t] = "in_progress"
    /\ task_status' = [task_status EXCEPT ![t] = "failed"]
    /\ UNCHANGED <<depends_on, completed_ids, ready, loop>>

RoundEnds ==
    /\ loop = "execute"
    /\ \A t \in ready : task_status[t] \in {"completed", "failed"}
    /\ loop' = "query"
    /\ UNCHANGED <<depends_on, task_status, completed_ids, ready>>

SchedulerNext ==
    \/ Validate \/ GetReadyTasks \/ RoundEnds
    \/ \E t \in TaskIds : StartTask(t) \/ CompleteTask(t) \/ FailTask(t)

SchedulerSpec == SchedulerInit /\ [][SchedulerNext]_schedulerVars

-----------------------------------------------------------------------------
(* Properties.                                                             *)

\* A failed task is upstream of t, where no task depends on itself.
BehindFailure[t \in TaskIds] ==
    \E d \in depends_on[t] \cap TaskIds : task_status[d] = "failed" \/ BehindFailure[d]

\* When the loop ends, what was not executed is exactly what is downstream of a
\* failed task: no task is left over for a dependency that nothing could meet,
\* and none was executed despite a failure upstream.
PendingOnlyBehindFailure ==
    loop = "ended" =>
        \A t \in TaskIds : task_status[t] = "pending" <=> BehindFailure[t]

\* The loop ends, for any list of tasks: with a ValueError, or when no task is
\* ready although tasks have failed.
SchedulerEnds == loop = "validate" ~> loop \in {"value_error", "ended"}

=============================================================================
