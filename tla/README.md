# Verification of the workflow orchestrator and the URL shortener

This directory holds a TLA+ model of the repository's two programs, the
configurations that check it with TLC, and theorems about it that TLAPS proves:

- `orchestrator/` executes a *workflow*: a graph of stages, run in rounds of
  concurrent coroutines, with gates, governance, approvals, retries, fallbacks,
  rollbacks and safe-stop;
- `url_shortener/` is a FastAPI service over one PostgreSQL table.

Paths and line numbers below are relative to the repository. `PROJECT.json` has
the machine-readable side: components, runs, mutants, the map from every
definition to the lines it models, findings, hazards and theorems.

## 1. Inventory

| Component | State | Operations | Hard behaviour | What makes it correct |
|---|---|---|---|---|
| `engine/workflow_engine.py`, `run()` | `WorkflowState`, `ExecutionContext`, the locals `completed` and `failed`, one coroutine per stage of a round | rounds, entry gate, governance, autonomy and approval, retry loop, exit gate, fallback, rollback, safe-stop, final QC | coroutines of a round share the state; a safe-stop races with siblings; user code and the gateway may raise anywhere | nothing executes unapproved; inputs are complete; recovery follows the records; safe-stop is final; the outcome is justified; the run ends |
| `engine/workflow_engine.py`, `replan()`, `analyze_impact()` | the same, plus `replan_history` | drop and rerun what an event affects | preserved stages that never completed, a stop that is never reset, orphaned coroutines | no stale input, preserved stages untouched with their outputs, nothing runs on an earlier call's approval, what is dropped is accounted for |
| `core/graph.py` | immutable definition | validation, ready set, parallel groups | level and ready set must agree | every round is a parallel group; no dead end |
| `core/failure.py` | immutable policy | classification, effective policy, attempt records | precedence of error lists, bound of the attempts | attempts bounded, the records lead to what was done |
| `core/models.py`, `core/context.py`, `core/results.py` | the records of a run | `set_stage`, `record_stage_output`, `snapshot_for_stage` | shared by all coroutines of a round | outputs match contexts |
| `core/autonomy.py` | approval policy, gateways | required autonomy, human dialogue, delegation | two prompts on one terminal, a dialogue in threads, EOF | refusals escalate and only refusals; the operator's answer is heeded |
| `core/governance.py` | policy engine and policies | evaluate, aggregate, freeze window | a policy raises, block among warnings, the clock moves while an approval is pending | a block is never lost; a frozen change starts only after a long approval |
| `core/replanning.py`, `core/lineage.py` | replan events; transitions, decisions | impact of an event; chains across replans | stale transitions, ids that a replan dropped | lineage stays closed, a driver is upstream |
| `engine/task_scheduler.py` | none (pure functions of a task graph) | order, ready tasks, levels | its documented loop over any task list, failing tasks | what is left over is behind a failure; the loop ends |
| `core/observability.py` | trace, metrics | observe | derived data only | counts equal the state's |
| `scenarios/*` | concrete stages | three workflows | keys that one stage hands on and another asks for; answers that two stages interpret independently | gates and governance find what they ask for; the plan follows the requirement |
| `url_shortener/` service, repository, API | the table `short_urls`, one transaction per request | `shorten`, `resolve`, `deactivate`, commit and rollback | requests interleave at every statement; locks; a commit that fails; expiry while a request runs | no code is reused, one DELETE succeeds, answers stay true |

The engine calls the stages (gates, `execute`, `rollback`), the policy engine
and the approval gateway, and writes `WorkflowState` and `ExecutionContext`,
which it returns; observer, lineage and scenarios read them. The URL shortener
is an artifact of its own: the orchestrator plans its construction and never
calls it.

The list of hazards, each at the line where it bites, with the properties that
cover it, is in `PROJECT.json`.

## 2. Plan

| Step | Modules | Content |
|---|---|---|
| done | `WorkflowGraph`, `WorkflowEngine`, `WorkflowProperties`, `AbstractWorkflow`; `WorkflowEngineProofs` | one call of `run()`, its properties, the abstract workflow it implements; all of its safety proved |
| done | `UrlShortener`, `UrlStore`; `UrlShortenerProofs` | the requests of the URL shortener and the atomic store they implement; all of its safety proved |
| done | `Replanning`; `ReplanningProofs` | `analyze_impact` and `replan()` after a run, any number of times; all of its safety proved |
| done | `Governance`, `Approvals`; `ApprovalsProofs` | the built-in policies and the policy engine; the gateways with the shared terminal and a clock; all of its safety proved |
| done | `Lineage`, `StageProfile`, `Greenfield`, `Brownfield`, `Ambiguous`, `Scenario`, `ScenarioSettings`, `ScenarioRuns`; `ScenarioProofs`, `ScenarioSettingsProofs`, `ScenarioRunsProofs` | the three scenario workflows, run and replanned, and the lineage of their decisions; all of its safety proved |
| done | `Clarification`, `TaskScheduler`; `PlanningProofs` | from answers to a task plan; the scheduler's loop; all of its safety proved |

How the modules compose:

    WorkflowGraph <- WorkflowEngine <- WorkflowProperties <- Replanning <- Scenario <- ScenarioRuns
                                            |      |                          |            |
                                  AbstractWorkflow Approvals <- Governance  Lineage   ScenarioSettings <- Governance,
                                  (refined)                                           Greenfield, Brownfield, Ambiguous
    ScenarioRuns, Clarification, TaskScheduler <- MCScenarios      UrlShortener (refines UrlStore)

`run()` is what the repository is about, so everything of the orchestrator is built on
its model: `Replanning` adds a second caller of the same coroutines, `Approvals` replaces
the nondeterministic gateway and policies by the real ones, `Scenario` replaces
the nondeterministic stages by the real ones. No module declares a `RECURSIVE` operator.
The proof modules follow the same order: `ApprovalsProofs` and `ReplanningProofs` extend
`WorkflowEngineProofs`, `ScenarioProofs` extends `ReplanningProofs`, and `ScenarioRuns`
instantiates `ScenarioProofs`, that is `Scenario` with its theorems, so that
`ScenarioRunsProofs` can cite them of each scenario.

## 3. The workflow engine

### Modules

- `WorkflowGraph` — the definition, a set of stages and a set of edges:
  validation, predecessors, ready set, parallel groups.
- `WorkflowEngine` — extends it with one call of `run()`.
- `WorkflowProperties` — the properties and the refinement mapping.
- `AbstractWorkflow` — what a run promises without rounds, retries, approvals or
  recovery: a stage starts when its predecessors are done, none starts after a
  failure, the run ends with an outcome its stages justify.
- `WorkflowEngineProofs` — the theorems: the engine's invariant, the records, the
  rounds, the refinement.
- `MCWorkflowEngine`, `MCUnattended` — instances for TLC.

### State and actions

asyncio is cooperative: a coroutine is interrupted only where it awaits. `pc[s]`
is the await at which `_execute_stage(s)` stands (`created`, `entry_gate`,
`approval`, `execute`, `exit_gate`, `rollback`) or how it ended
(`returned_true`, `returned_false`, `raised`), and an action is the code between
two awaits, with every change of state in it. `phase` is the place in `run()`
itself. The remaining variables are the fields of `WorkflowState`
(`stages`, `approvals`, `policy_evaluations`, `stage_transitions`, ...) and of
`ExecutionContext` (`stage_outputs`, `artifacts`) under their own names.

| Actions | Code |
|---|---|
| `Schedule`, `NothingReady`, `Collect` | the scheduling loop, `workflow_engine.py:220-260` |
| `Begin`, and `LeaveEntryGate`: `EntryGateFails` | `:387-430` |
| and `BlockCritical`, `BlockByPolicy`, `ApprovalTimesOut`, `RequestApproval`, `StartUnapproved` | the guards in front of the first attempt, `:432-556` |
| `Approve`, `Reject`, `GatewayRaises` | `_request_approval_checkpoint`, `:1132-1242` |
| `ExecuteReturns`, `ExecuteRaises`, `ExitGatePasses`, `ExitGateFails` | the retry loop and what follows it, `:558-742` |
| `RollbackReturns`, `RollbackReturnsCopy`, `RollbackRaises` | `_do_rollback`, `:1102-1130` |
| `Finish`, `RequestFinalQc`, `FinalQc...` | `_final_qc_checkpoint`, `:1244-1324`, and `_finalise`, `:303-354` |

The stages' code, the policies and the gateway are the environment here: they give any
answer the constants allow, and may raise. The constants `OwnRetryPolicy`,
`ActionImpact`, `PolicyOutcomes`, `GatewayOutcomes` (empty: no gateway),
`RollbackOutcomes` and the rest are the constructor arguments and the class
attributes of the stages.

Abstractions, each chosen so that the properties do not see the difference:

- time stamps, texts, audit and observability are left out; gate results are the
  set of their verdicts, artifacts the set of attempts that left some;
- the entry gate that returns a failure and the one that raises are one action:
  the engine treats them alike;
- the coroutines of a round start in any order;
- `snapshot_for_stage` merges the output dicts of a stage's predecessors into one, in which
  a later predecessor overwrites the equal keys of an earlier one (`context.py:116-129`);
  `Snapshot` keeps one entry per predecessor. The model therefore tells from which
  attempt or fallback of which predecessor an input comes, and not which of two predecessors
  wins a key that both have; the keys are the subject of the scenarios (section 6);
- a stage's context is one object; that a `rollback()` may return another one is
  modelled (`RollbackReturnsCopy`), that `execute()` may return one is not;
- `Stages` is a set: a definition that lists a stage twice (which `validate_graph`
  accepts) is outside the model;
- `BaseException`s such as a cancellation are not modelled: `except Exception`
  does not catch them, and nothing in the repository cancels a run.

### Runs

| Run | Instance | Shows |
|---|---|---|
| `engine` | the diamond a → {b, c} → d; b rolls back, c can safe-stop and has a preset, d needs approval and is skipped on failure; gateway approves, rejects or raises; rollback returns, copies or raises; final QC | all safety and action properties, and the refinement `ImplementsAbstract`, fairness included (46,221 states) |
| `unattended` | no gateway, three attempts racing a sibling's safe-stop, an approval nobody can give | fails safe; every run ends (`Termination`); the inductive invariant of the proofs (6,351 states) |
| `default_policy` | as `engine` | violation: a stage that inherits its policy ignores the engine's `default_retry_policy` |
| `recovery_recorded` | as `engine` | violation: the record of a stage that falls back or rolls back says `FAIL_IMMEDIATE`; `core/failure.py:86-107` has `FALLBACK` and `ROLLBACK` for it |
| `failure_told` | as `unattended` | violation: a stage returns `False` without an error; `workflow_engine.py:370-371` says that the reason is always there |

What the properties say: `ExecutionGuarded` (no `execute()` past a policy block,
the CRITICAL threshold or a missing approval), `InputsComplete` (a stage worked on
the outputs of exactly its predecessors), `OutputsMatchContexts`,
`RecoveryTraceable` (one record per failed attempt, all but the last led to a
retry, and from the last one and the stage's policy follows what the stage then did: a
safe-stop, its fallback, a rollback or a plain failure, and nothing only where a sibling had
stopped the workflow), `CompletedPassedGate`, `RoundsAreGroups`, `NoDeadEnd`,
`OutcomeJustified`, `EveryStageAccounted`, `NoRecoveryAfterSafeStop` and
`SafeStopFinal` (action properties).

The CRITICAL block (`BlockCritical`) needs a stage that always fails and so ends
every run short of the final QC; it is in the instance of `approvals` (section 5).

Where the engine does something else than its documentation says:

- *The record does not name the recovery.* The last record is given `FAIL_IMMEDIATE`
  (`workflow_engine.py:612`, `:641`, `:686`) before the engine looks at fallback and rollback,
  and is not corrected when one follows. `RecoveryDecision` has `FALLBACK` ("Retries
  exhausted; engine will apply the configured fallback action", `failure.py:94`) and
  `ROLLBACK` (`:97`) for these cases and defines `FAIL_IMMEDIATE` by their absence (`:105-107`);
  neither is ever recorded. So the records alone do not tell what was done, and
  `RecoveryTraceable` takes the policy to help; `RecoveryNamed`, which does not, is violated
  (`recovery_recorded`).
- *A failure without a reason.* "A False return means the stage failed; the reason is always
  in `state.stages[stage_name].error`" (`:370-371`). A stage whose last attempt fails after a
  *sibling* has safe-stopped the workflow leaves at `:722`, which takes the stop for its
  own: its context stays IN_PROGRESS and has no error (`failure_told`).
- *An exception that escapes.* "This method NEVER raises" (`:369`), but what a gateway
  raises at `:1210` leaves `_execute_stage`; the context stays IN_PROGRESS, since
  neither caller repairs it. `run()` gathers the exception (`return_exceptions`), `replan()`
  does not and raises it too. It is the other half of `FailureTold`.
- *A rollback that leaves no ROLLED_BACK.* "Rollback sets stage status to ROLLED_BACK"
  (`:736`), but a `rollback()` that raises sets nothing (`:1125-1130`) and one that
  returns another context has it overwritten by the failed one (`:1116` and `:738`), so that the
  stage ends IN_PROGRESS with an error. The model has both outcomes (`RollbackRaises`,
  `RollbackReturnsCopy`).
- *Gate results of earlier attempts.* "All gate results are stored in
  `StageContext.entry_gate_results` and `StageContext.exit_gate_results` for audit and replay"
  (`docs/architecture.md:488`), but the exit gate's results of an attempt are cleared when
  the next one begins (`:566-568`). `CompletedPassedGate` depends on this clear: without
  it a stage that passes on a retry would be COMPLETED beside the failed gate of before.

Bounds. Nothing is capped: attempts are bounded by the policies and every run is
finite. Two or three concurrent stages with up to three attempts are enough for every
pair of coroutine positions to meet; the diamond has a fork, a join and stages
that never start. The policies of the instances differ stage by stage, so that each
branch after the retry loop is taken while a sibling is at any other await.

Fairness. Weak fairness of `run()` and of each coroutine: the event loop resumes
what is ready. It includes the environment's answers, since the engine enforces no
timeout at all (see the hazards): a stage or a gateway that never answers
suspends the run for ever, and `Termination` assumes that they answer.

### Proofs

`WorkflowEngineProofs` proves, for every finite set of stages with a valid graph, every policy,
impact and gateway behaviour, all the safety and action properties of the runs above:

| About | Theorems |
|---|---|
| the engine | `TypeCorrect`, `InvariantCorrect`, `ExecutionGuardedAlways`, `InputsCompleteAlways`, `NoDeadEndAlways`, `EveryStageAccountedAlways`, `OutcomeJustifiedAlways`, `SafeStopFinalAlways`, `NoRecoveryAlways` |
| its records | `RecordsCorrect`, `OutputsMatchContextsAlways`, `CompletedPassedGateAlways`, `RecoveryTraceableAlways` |
| its rounds | `RoundsAreGroupsAlways` |
| its refinement | `RefinesAbstract` |

The assumptions are those of the modules `WorkflowGraph` and `WorkflowEngine` (a
definition lists finitely many stages, its graph is valid, policies are well-formed); TLC
evaluates them in every run.

None of the properties is inductive alone. `RunInvariant` adds what connects the
four records of a run:

- `Bookkeeping`: `pc[s] = "idle"` for exactly the stages outside `completed`,
  `failed` and `batch`, and the loop is only at its head without failure or stop;
- `LoopOutcome`: the loop is left without a failure only when everything is
  completed, which is where the acyclicity of the graph comes in;
- `StatusFollowsPhase`, `StatusFollowsCoroutine`: the workflow's and the
  contexts' statuses are functions of the control state, as far as the code makes
  them so;
- `DataFlow`: a stage that has been scheduled has completed predecessors whose
  outputs are recorded;
- `Guards`: what had been decided about a stage that waits for approval or executes.

The lemmas first say, once per family of actions, what a step of a coroutine
leaves alone (`OthersKept`) and which kind of step it is (`Creates`, `PassesGate`,
`Works`); each part of the invariant is then preserved by each kind.

`RecordsInvariant` is about the records that `_execute_stage` writes in several
places: for each position of a coroutine it says what its context, its attempt log, its
output and its artifacts are, so that `OutputsMatchContexts`, `CompletedPassedGate` and
`RecoveryTraceable` can be read off. For the last it says in particular of
each position after the retry loop which of the policy's branches has led there, and that a
coroutine which has left with nothing done did so because the workflow was stopped. It is
inductive relative to `RunInvariant`.

`RoundsAreGroups` is about the recursive function `Level`. What such a function computes
cannot be proved by induction over its argument here; the lemma `AllSolved` shows instead,
by a first stage without one, that its equation has a solution on every acyclic graph, and from
then on only the equation is used (`LevelProperties`). That the maximum in it exists needs the
finiteness of `Stages` (`HighestExists`, by the library's well-founded order of finite
sets). The invariant `Rounds` says that at
the head of the loop the completed stages are those of the levels so far.

`RefinesAbstract` takes `RunInvariant` to show that each action of the engine is, under the
refinement mapping, a step of `AbstractWorkflow` or a stutter. The fairness of the
abstract specification is not part of it (section 9).

## 4. Replanning

`Replanning` extends the engine with what happens after `run()` has returned: its
owner reports changes, and each `replan()` drops the contexts downstream of the change,
rebuilds the `ExecutionContext` from what is left and executes the dropped stages
through the same `_execute_stage`. The coroutine steps are the engine's own actions.

| Actions | Code |
|---|---|
| `Replan`: `ReplanSkipped`, `StartReplan` | `analyze_impact`, `workflow_engine.py:757-843`, and `:892-946` |
| `ScheduleReplan`, `NothingToReplan`, `CollectReplan`, `ReplanRaises` | the loop, `:949-973` |
| `FinishReplan` | the status, the BLOCKED contexts and the `ReplanResult`, `:975-1026` |

`PreservedUntouched` is the promise of `replan()`'s docstring, "All other completed stages remain
COMPLETED and their outputs are preserved". It is an action property of every step that
begins or belongs to a replan: of `StartReplan`, which drops contexts and rebuilds the
`ExecutionContext` from those that are left, of the rounds, and of the coroutines that an
aborted call leaves behind. None of them changes the context of a stage outside the impact, nor,
if it has completed, its output, nor takes back one of its artifacts.

What the code does and the model keeps: only COMPLETED stages are preserved, so that what
is behind a SKIPPED or FAILED one is never found ready; `safe_stopped` is never
reset, so that a replan of a stopped workflow breaks off after one round; the final QC
checkpoint is not asked again; and a gateway's exception leaves `replan()` while
the siblings go on by themselves (`ReplanRaises`).

| Run | Instance | Shows |
|---|---|---|
| `replan` | a and b join in c; a needs approval and has a preset, b is skipped when it fails, c can safe-stop; two replans of any change | `NoStaleInput`, `ReplanGuarded`, `InvalidatedAccounted`, `PreservedUntouched`, `ReplanEnds` (71,694 states) |
| `replan_completed` | as `replan` | violation: a workflow stays COMPLETED with a stage that has no context; `docs/architecture.md:286` says "all stages passed" |

Bounds. `MaxReplans` = 2: the second call starts from every state the first can
leave (completed, failed, stopped, raised, with missing contexts). The owner calls
`replan()` again only when no coroutine of an earlier call is left; two calls
that overlap on one state are outside the model. Fairness: the event loop runs what is
ready; nobody has to ask for a replan.

### Proofs

`ReplanningProofs` proves for every graph, any change events and any number of replans:
`ReplanInvariantCorrect`, `ReplanTypeCorrect`, `NoStaleInputAlways`, `ReplanGuardedAlways`,
`InvalidatedAccountedAlways` and the action property `PreservedUntouchedAlways`; and of the
run's properties the two that a replan must not break, `ReplannedRecoveryTraceable` and
`ReplannedPassedGate`.

`ReplanInvariant` is the invariants of the run while the run lasts and `Aftermath` from
then on: which stages have a context and from which call, that the outputs of the rebuilt
`ExecutionContext` are those of the completed contexts, and that of what this call
dropped nothing is missing but behind a stage that never completed. `PreservedUntouched` needs
one invariant more, `HandOver`: a completed context still carries, as its own output data and
artifacts, all that the `ExecutionContext` holds of its stage, for what `StartReplan`
rebuilds comes from the contexts (`HandOverCorrect`). The graph lemmas
(`ImpactedClosed`, `ReachableTransitive`, `UpstreamKept`, `LeftOutBehind`) say that the set a
change invalidates is closed downstream and that the stages a call leaves out all
lie behind one that it preserved unfinished. `stages_reachable_from` is the converse of `nx.ancestors`,
and so is `ReachableFrom(s)`; of the recursive function `Ancestors` only its equation is used,
which has a solution because `GraphAssumption` excludes cycles.

`InvalidatedAccounted` is about the call that has just returned, and cannot be made stronger:
that *every* stage without a context lies behind one that never completed is false. With o → x,
o → y, y → z and u → v, a replan of o that a raising gateway at x aborts while y completes
leaves x and z without a context; a later replan of u succeeds and repairs neither, although y,
before z, has completed.

## 5. Governance and approvals

`Governance` has the eight built-in policies, a policy of the user's that may raise,
and `PolicyEngine.evaluate`. An action is what they look at: impact, type and
which metadata keys are set. `Approvals` runs the engine's actions with these answers
(`GovernanceGate`) and with an `EscalatingApprovalGateway` over preset, automatic
and human delegates.

`HumanApprovalGateway` calls `input()` in a worker thread. The process has one terminal, so
two stages of a round wait for a line at the same time, the prompt on
the screen is the last one printed, and either thread may get the line (`OperatorAnswers`).
`shared` is a history variable: the stages that have waited beside another one. The
run finds no promise broken for the others; that an operator's "y" can approve a stage
other than the one the prompt names is what the code does, and the reason for the
condition `s \notin shared` of `OperatorHeeded`.

The clock moves between the evaluation of the policies and the start of the
stage, since an approval may take any time: `FrozenOnlyAfterWaiting` says that this is the only
way into a freeze window: a change that starts inside was evaluated before the window
opened, and then approved. Its mutant tests the beginning of a window with `<`.

That is less than `FreezeWindowPolicy` says of itself. Its windows "are half-open intervals:
[start, end]" (`governance.py:567`) and the code's are closed (`start <= now <= end`, `:619`), so
a change is still blocked at the very end; it "Blocks changes that fall inside a configured
freeze window" (`:565`), "until the freeze window ends" (`:625`), but is asked only at
the governance gate, so that a release whose approval takes until then starts in it.
`FreezeWindowHeld` joins both sentences and the counterexample of `freeze_window` has both
disagreements in one behaviour; correcting either alone would make the property hold.

| Run | Instance | Shows |
|---|---|---|
| `approvals` | three stages at their gates at once and a CRITICAL one after; all policies; a preset delegate, then the operator; a freeze window in the middle of the clock | `EscalationSound`, `OperatorHeeded`, `GovernanceFailsSafe`, `FrozenOnlyAfterWaiting` (190,324 states) |
| `freeze_window` | as `approvals` | violation: a release starts inside a freeze window that opened while it waited for its approval, and a change is blocked at the very end of the window |

Bounds. `MaxTime` = 3 gives a moment before, two in and one after the window, at which
the user's policy raises. The stages leave no artifacts and do not retry here: the
gates come before the first attempt. No fairness: the properties are safety.

### Proofs

`ApprovalsProofs` proves for any policies, delegates, presets, freeze windows and any
number of stages at the terminal: `ApprovalsInvariantCorrect`, `EscalationSoundAlways`,
`OperatorHeededAlways`, `GovernanceFailsSafeAlways` and `FrozenOnlyAfterWaitingAlways`. Its stages
may retry, fall back and roll back, which the instance leaves out. The lemma
`EngineKept` says that every step of this model is a step of the engine, so
`RunInvariant` holds here too; `GateRecord` adds what is known of one stage's gates:
how far the escalation is and that every delegate before refused (`Escalating`, `EscalatedSoundly`),
when the policies were evaluated and that their strictest result was applied
(`Evaluated`, with the lemmas `AggregateHighest` and `EvaluateStrictest` about
`_aggregate_decision`), and what the terminal has to do with an approval (`Heeded`).

## 6. Scenarios and lineage

`Greenfield`, `Brownfield` and `Ambiguous` give each stage of the three scenarios a
*profile* (`StageProfile`): the keys its entry gate asks for and its output has, the
decisions it records, their parents and their downstream impacts, and what it
declares to governance. The texts are constants of the code. `Scenario` puts the
profiles in the place of the engine's environment, on top of `Replanning`; `Lineage` is
what can be asked of the recorded decisions; `ScenarioSettings` is what each
`run_*_scenario` passes to the engine, and `ScenarioRuns` instantiates `Scenario` three
times with it: a behaviour is one of the three. `MCScenarios` puts the dialogue of the
ambiguous scenario and the scheduler of section 7 beside them: each behaviour is
one workflow, one dialogue or one scheduler's loop.

| Run | Instance | Shows |
|---|---|---|
| `scenarios` | the three workflows in full, a gateway that approves or rejects, one replan of any change | `ScenariosFailOnlyIfRejected`, `ScenariosLineageClosed`, `ScenariosDriverPrecedes`; and what section 7 says (76,993 states in all) |

Bounds. `MaxReplans` = 1: an id is new at each execution, so one replan already has
old and new decisions side by side in every combination of dropped and preserved stages.

Observations: `implementation_planning` names `testing_planning`, of its own round, as
downstream; `get_decision_for_transition` still reports an upstream decision
because the first match wins (`ScenariosDriverPrecedes` depends on it).
`driving_decision_id` is never set, so this search is always what answers.

### Proofs

The three properties are proved of the three scenarios for any number of replans, after any
changes in any order (the run has one replan): `ScenariosLineageClosedAlways`,
`ScenariosDriverPrecedesAlways` and the action property `ScenariosFailOnlyIfRejectedAlways`.
The argument has two halves.

`ScenarioProofs` is about any workflow whose stages fit together (`ProfileFits`). That is said of
the profiles and the graph alone, never of a state: a stage's predecessors fill what its entry gate
asks for, it makes as many decisions as its exit gate asks for, and governance blocks none
(`GatesFit`); titles are distinct (`TitlesFit`); a parent is an earlier decision of
the same stage or one that a predecessor hands on (`ParentsFit`); a stage hands on what it
has (`HandsOnFit`); and a stage that names one as downstream that is not has an ancestor that
names it too and rightly (`DriversFit`). Of every run and any replans of such a workflow
`ScenarioInvariantCorrect` proves the inductive invariant `ScenarioInvariant`:

- `ReplanInvariant`, since a scenario's step is a step of `Replanning` (`ScenarioIsReplan`);
- `NoFallback`: no stage is skipped or uses a preset, so that an output that is there was produced;
- `OrderKept`: the contexts are in an order in which each comes behind its predecessors', also
  after a replan has taken some out and put them back at the end;
- `LineageKept`: the decisions of a stage are those of its last execution, and its ids are those
  that its predecessors hand on *now*. Here a dropped context would leave a dangling id
  if a stage downstream of it were preserved (`ImpactedClosed` says that none is).

From it follows what a lookup, a climb to the root and the search for a driver return. These
are recursive functions over lists of any length. Their equations are solved without an induction
theorem, by a least number for which there is no solution (`LeastNatural`, `TurnsExist`), and what
they return is then said of positions: `FlattenedPlaced` (which element of which stage stands
where), `ClimbsUpwards` (each turn of the two loops leads to an earlier position, so that the
bound of one and the set of seen ids of the other never end a walk early) and `ClimbWithin` (a climb
in the `ExecutionContext` is the climb in the state).

`ScenarioSettingsProofs` and `ScenarioRunsProofs` show that the three workflows, as they are
coded, are of this kind: the attributes and decisions of each of the nineteen stages, the edges of
each graph, that governance's built-in policies block none of them (`NeverBlocked`), and with
these each part of `ProfileFits` (`GFits`, `BFits`, `AFits`). A change of one stage that
breaks its workflow fails there, in a lemma with the name of what does not fit. `GAssumed`,
`BAssumed` and `AAssumed` are the engine's assumptions on its constants, proved of each
scenario, so that nothing is assumed of them; `ScenariosAssumption` only says that the
model values that stand for "not overridden" and "the requirement changed" are no policy and
no stage. TLC evaluated `ProfileFits` and `ScenarioInvariant` on the three scenarios before they
were proved.

## 7. Planning tasks

`Clarification` follows the answers of the ambiguous scenario through two stages: one
makes the normalised requirement of them, the other one the task plan, from other keys.
`TaskScheduler` is the loop that the class documents for its caller, over any list of
tasks. `MCScenarios` runs one of the two, or a workflow, per behaviour.

| Run | Instance | Shows |
|---|---|---|
| `scenarios` | all combinations of answers, defaults and a closed terminal; all 4,096 dependency relations of three tasks and an unknown id | `PlanFollowsRequirement`, `PendingOnlyBehindFailure`, `SchedulerEnds` |

`PlanFollowsRequirement` compares two stages that read different keys of the same answers. It
holds of the address stored, the metrics, unique visitors (EXCL-002), the way of recording and the
retention whatever is answered, and of the access for each option of Q2. It leaves out
what does not hold:

- "Owner only" typed with a capital is owner-only in the requirement, which ignores the case
  (`ambiguous.py:914`), and task T-004 is planned for any user (`:1168`);
- the dashboard (EXCL-001) is excluded unconditionally (`ambiguous.py:1243`; `api_only`, read
  at `:1118`, is never used), also when the answer to Q5 asks for it.
  `tests/scenarios/test_ambiguous.py:35` lists "Q5 dashboard answer → UI dashboard task NOT
  excluded", but no test of that file checks it. A single answer shows it, so that there is no run for it.

Bounds. Every option of every question, but two retention periods, which the code
only copies; and "Owner", the option of Q2 as an operator may type it. Three tasks have every
shape of a cycle, a chain, a fork and a join. Fairness: whoever runs the scheduler's loop
finishes what it starts.

`PlanningProofs` proves `PendingOnlyBehindFailureAlways` for any tasks and any
dependencies (those that `validate` refuses are never scheduled), and `PlanFollowsRequirementAlways`.
`SchedulerInvariant` says what the loop's two collections have to do with the
tasks' statuses. `BehindFailure` is a recursive function; that it is exactly membership in
the tasks still pending when the loop ends is proved with that set as the witness of
its equation (`PendingTells`) and by uniqueness (`FailureUnique`). `ClarificationInvariant`
says what each stage of the dialogue hands on as a function of the answers.

Observations, which no document contradicts: the answers "admin" and "public" become
"any authenticated user" in both; "do not store IPs at all" gives a raw address; a
synchronous recording with a preserved redirect time passes the validation; and T-006 is
planned without T-008 for unique visitors of raw addresses.

## 8. The URL shortener

### Modules, state and actions

`UrlShortener` models concurrent requests; `UrlStore` is what they promise together;
`UrlShortenerProofs` has the theorems,
`MCUrlShortener` the instance. `short_urls` is the committed table; `pc[r]` is the statement
request r is about to issue or the commit it is at; `write[r]` is the row its open transaction
has written. An action is one statement with the code up to the next.

| Actions | Code |
|---|---|
| `BeginShorten`, `Regenerate`, `Exhausted` | `UrlService.shorten`, `url_service.py:84-102` |
| `CodeFree`, `Insert`, `InsertConflicts` | `code_exists` and `create` of the repository |
| `BeginResolve`, `Select`, `Redirect`, `NotResolvable` | `GET /{code}`: `get_by_code`, then `is_resolvable` by the clock of that moment |
| `BeginDeactivate`, `Update`, `UpdateNothing` | `DELETE /{code}`: one `UPDATE ... RETURNING` |
| `CommitShorten`, `CommitDeactivate`, `CommitFails` | the end of `get_db`, `deps.py:26-32` |
| `Tick` | time passes |

`arrival` is a history variable: what was known of its code when a GET or DELETE
arrived (a client was answered 201, a client was answered 204, the TTL has
passed). It states the service's promises to later requests.

The database is PostgreSQL at READ COMMITTED, as configured: a statement sees
committed rows; an INSERT waits for an uncommitted INSERT of the same unique
code and an UPDATE for one of the same row, and re-evaluates its condition when
it goes on. With the pinned FastAPI 0.111 the code after a dependency's `yield`
runs before the response is sent, so the commit precedes the answer. Each POST brings its own
URL, named by the request. Failing statements are modelled for the unique
constraint and for the commit of a write (whose effect is then open); a GET only
reads, so its commit is not a step of its own; other database errors
end in the same rollback and 500. Cancellation by a disconnecting client and the
connection pool are not modelled.

`UrlStore` has no statements, transactions or locks: a map of links on which a request
takes effect at one moment between its arrival and its answer. `ImplementsStore` says that the
service is linearizable in this sense. A POST and a DELETE take effect when they are
committed (also when the commit then fails: the client is told 500 and does not know). A
GET that is redirected takes effect when it reads its row, which is judged later by a later
clock; one that finds the row expired only then takes effect at that expiry. Which of
the two it is lies in the future of the read, so the store lets an open GET look again,
and as time passes at once; it answers what it saw last. The refinement mapping of
what it saw is the answer that the row it holds would give now (`Answering`).

### Runs

| Run | Instance | Shows |
|---|---|---|
| `url_shortener` | two POSTs, a GET and two attempts in one of two mixes: with one DELETE and two codes, or with two DELETEs and one code for all | `CodesNeverReused`, `RedirectJustified`, `DeactivatedOnce`, `NotFoundJustified`, `RowsPersist`, the inductive invariant, the refinement `ImplementsStore`, and `EveryRequestAnswered`: collisions, waits for locks and exhausted attempts all end (347,481 states) |
| `integrity_error` | as `url_shortener` | violation: the loser of a race for a code is answered 500; `docs/architecture.md:1026` says it is retried |

Bounds. `MaxTime` = 2 with a TTL of 1 lets a request see the row before, at and
after expiry. Two codes and two attempts let a POST collide, regenerate and give
up; one code makes every request meet the same row. `MCUrlShortener` chooses the mix at the
start (`mix`): with two codes the second DELETE does not come.

Fairness. Weak fairness of each request's steps: the event loop serves all
requests, the database answers, and a lock is passed on when its holder ends. The clock
is under no fairness.

### Proofs

`UrlShortenerProofs` proves for any number of codes and requests, any TTLs and any
bounds: `TypeCorrect`, `ServiceInvariantCorrect`, `CodesNeverReusedAlways`,
`DeactivatedOnceAlways`, `RedirectJustifiedAlways`, `NotFoundJustifiedAlways`,
`RowsPersistAlways` and the refinement `ImplementsStoreAlways`. `ServiceInvariant` says that an open transaction's write is
still right when it commits (`Transactions`: nobody else can have written that
code or row), that what clients were told stays true (`Answers`, `Arrivals`), and
that a row a GET has read is a former version of the one in the table (`Readings`),
which differs at most in `is_active`. The frame lemmas are `StepFrame`,
`CommitLocal` (a commit touches no row of another open transaction) and
`TableKept` (rows are only added and deactivated). The refinement has one lemma per kind
of step (`ShortenImplements`, `DeactivateImplements`, `ResolveImplements`, `TickImplements`); it
needs `Readings`, since a row that was read expires together with the one in the
table, and `Inserted`, that an open INSERT holds the link its POST is to create.

## 9. Only model-checked

- Liveness (`Termination`, `ReplanEnds`, `SchedulerEnds`, `EveryRequestAnswered`) and the
  fairness of the refinement `ImplementsAbstract`: temporal proofs with `ENABLED` are out of
  reach of the prover. Its safety is `RefinesAbstract`.

Every safety invariant and every action property of a passing run is proved.

Recursive functions are proved about only through a solution of their equation (`Ancestors`,
`Level`, `BehindFailure`, and the walks of `Lineage`): the library's induction theorems take an
operator as a parameter, which the installed backends do not support.

## 10. Not modelled

- The observer (`core/observability.py`): metrics and reports computed from a
  `WorkflowState` that no longer changes; no step reads them.
- Audit entries, time stamps, documents and the wording of records.
- The lineage queries that filter or count one list of the state.
- Stages listed twice in a definition, deadlines (declared and never enforced),
  cancellation, and two calls of `replan()` at the same time on one state.
- A run of its own for the dashboard that is excluded whatever is answered (section 7).
- That a replan skips the final QC checkpoint is modelled, but nothing in the
  repository says what it should do, so no property is stated.
- The validation of URL texts; logging, configuration, the application factory, the
  abstract base classes and the re-exporting packages, which have no protocol of their own.
