# Agent HQ: formal models of runs and of the background work around them

Agent HQ dispatches tasks to AI agents. A PostgreSQL database holds the tasks
and the runs (`job_instances`); a Node.js API process claims tasks for agents,
prepares workspaces, launches agent runtimes, takes their callbacks and repairs
what goes wrong. This directory holds TLA+ models of the life of a run, in which
most of the system's difficulty lies; of the lock files that guard task
workspaces; of the agent processes a run has on its host; and of four machines
of the API's background work: recurring series, the configuration of the
OpenClaw gateway, retained telemetry results and the outbox of alerts. TLC
configurations check them on small instances; proofs, checked by TLAPS,
establish for instances of any size every safety property those
configurations check.

Paths below are relative to `src/api/src/` unless they start with `src/`.

## 1. Inventory of the system

| Component | State | Operations | What is hard |
|---|---|---|---|
| Dispatcher (`services/dispatcher.ts`) | `tasks.active_instance_id`, `job_instances.status`, retry cooldown | list, claim, prepare, recheck, mark, launch, unwind, record failure | several passes at once; a long unlocked gap between claim and launch; failures on both sides of the prompt |
| Callbacks (`domains/runs/callbacks.ts`, `observability.ts`) | status and end of the run, status of the task | start, check-in, complete | authorised by one read, applied by later statements |
| Runtime end (`domains/runs/runtimeEnd.ts`, `lifecycleHandoff.ts`, `runtimeFailureEvent.ts`) | end of the run | claim the end, mark the task, post `runtime_failed` | reported twice; before or after the outcome |
| Outcomes (`domains/tasks/release.ts`, `lib/taskOutcome.ts`, `domains/runs/instanceClose.ts`) | status of the task, outcome of the run | authorise, route, apply, close | authority read before the write; a grace period in which the link survives |
| Linkage cleanup (`lib/taskLifecycle.ts`) | the link, timers in memory | cleanup, sweep, cancel, detached abort | timers lost on restart; stale timers |
| Stop (`domains/runs/stopInstanceExecution.ts`, `instanceStop.ts`, `lib/taskStop.ts`) | run and task | revoke, abort, confirm | remote I/O between two writes |
| Watchdog (`scheduler/watchdog.ts`) | runs without signs of life | expire, abort, unlink | verdict from an unlocked scan; a tail after commit |
| Reconciler (`scheduler/reconciler.ts`) | none of its own | sweep, missing outcomes, dispatch, reassign | a timed-out tick keeps running beside the next |
| Task writes (`domains/tasks/writeModel.ts`) | tasks | create, update, pause, cancel, reopen | read, merge, write back |
| Key scope (`lib/mcpApiAuth.ts`) | none | which run an agent's key may call back for | decided before the handler runs |
| Workspace leases (`services/workspaceLease.ts`) | one lock file per workspace | acquire, reclaim, release | several processes, dead owners, reused ids and inodes |
| Recurring tasks (`scheduler/recurringTaskScheduler.ts`, `domains/recurring-tasks/model.ts`) | series, their occurrences and tasks | claim, create or skip, advance; enable, update, run now | overlapping ticks; writers that go by id alone |
| Agent processes (`runtimes/codex`, `runtimeExecutionStore.ts`, `runtimeExecutionReconciler.ts`, `localProcessSupervisor.ts`) | `runtime_executions`, the end of the run, process trees | spawn, record, prompt, watch, abort, adopt, bury | the API dies at any point; ids are reused; two records of one end |
| Gateway configuration (`lib/mcpRecovery.ts`, `services/openclaw*.ts`) | queue, files, reconciliation row, incident | edit, sync, refresh, reload, escalate, restore | a call may take effect though its reply is lost; restarts |
| Telemetry results (`domains/telemetry/queries.ts`, `sources.ts`) | results and their sources | request, claim, publish, cancel, freeze, revoke | a source moves while a result is made of it; late workers |
| Alerts (`lib/notificationDelivery.ts`) | outbox | claim, send, finish | leases that end under a slow sender |
| Candidates, routing, workflows (`services/dispatch/routing`, `domains/routing`, `domains/workflows`, `domains/workflow-definitions`) | configuration | choose agent, map events and outcomes | precedence of rules |
| Repository workspaces, prompts, MCP server, OAuth, routes, UI, CLI | files, sessions | I/O | outside the tables modelled |

How they interact: what concerns runs meets in the two tables of tasks and
runs. There are no messages between components; a component selects rows, awaits
something, and updates rows by id, sometimes with a guard in the `WHERE` clause,
sometimes under a row or advisory lock. So the interesting unit is the single
statement or transaction, and the interesting question is what may happen
between two of them. Agent processes touch the life of a run in one point, the
end of a run that the reconciler or a monitor reports (`RuntimeEnd` in
`RunLifecycle`, `Apply`, `Lose` and `Project` in `RuntimeExecution`). The other
background machines share no row with runs: a series only adds tasks, the
gateway's incidents only make dispatch wait, telemetry reads.

What makes it correct, in the order of importance:

1. a live run and its task point at each other; nobody takes a task from a live
   run (`LiveRunOwnsItsTask`, `LinkNamesOwnRun`, `OnlyAttachSteals`);
2. an agent works on one run at a time (`AgentCapacity`);
3. a run's prompt is sent once (`LaunchedOnce`);
4. an end is final and handled once (`EndedRunIsOver`, `EndHandledOnce`);
5. nothing stays blocked for ever (`RunEventuallyOver`, `DeadLinkReleased`);
6. one party works in a workspace (`OnlyReclaimBreaksExclusion`);
7. no record says that a process is over while it is there, no signal hits a
   stranger, and process and run both end on record (`TerminalTreeGone`,
   `NoBystander`, `ExecutionSettles`), a success as a success (`SuccessNotLost`);
8. an occurrence of a series makes one task, and what is due is done with
   (`OneTaskPerOccurrence`, `DueIsDone`);
9. the gateway has what was assigned, or the record says that it may not
   (`EditReachesGateway`, `ReceiptIsTrue`, `UncertaintyOnRecord`);
10. no result outlives the access to its sources (`ProofStands`), and what is
    finished stays so (`VerdictStands`, `FinishedStays`).

The hazards behind each, with their lines, are in `PROJECT.json`.

## 2. Modules

| Module | What it is |
|---|---|
| `RunDatabase` | The two tables as one value, and one operator per transaction or guarded UPDATE. No variables. |
| `RunLifecycle` | The behaviour: which statement may follow which. Extends `RunDatabase`; holds the properties and the inductive invariant. |
| `RunOwnership` | What the whole promises: a run takes a free task and an idle agent in one step, keeps the task while it lives, and is over for good. `RunLifecycle` implements it (`ImplementsOwnership`). |
| `MCRunLifecycle` | Small workflows, run ids and symmetry for TLC. |
| `RunLifecycle_proofs` | The inductive invariant and its theorems. |
| `RunPromises_proofs` | `RunLifecycle` implements `RunOwnership`; reports of one runtime end are followed up once; and what holds whatever agents check in. |
| `WorkspaceLease`, `MCWorkspaceLease`, `WorkspaceLease_proofs` | The lock file, its instance, its proof. |
| `RuntimeExecution`, `RuntimeExecution_proofs` | Agent processes of a host, `runtime_executions` and the end of the run. |
| `RecurringSeries`, `RecurringSeries_proofs` | Series, scheduler ticks and the series API. |
| `McpRecovery`, `McpRecovery_proofs` | One agent's MCP configuration on its way to the gateway, and the incidents. |
| `TelemetryQueries`, `TelemetryQueries_proofs` | Retained results, their sources, workers and snapshots. |
| `NotificationDelivery` | The outbox of alerts. |
| `MCBackground` | Small instances of the last five in one run. |
| `Background_proofs` | What is proved of the components, of the behaviours of `MCBackground`; the proof for `NotificationDelivery`. |
| `MCLiveness` | The machines of `MCBackground` and `WorkspaceLease`, under fairness. |

Each module of a component ends with the conjuncts of its inductive invariant,
under the heading "Why these hold"; its proofs are a module of their own.

Definitions whose name ends in `Bug` are seeded faults: each stands in for the
definition it follows to show that the property which should notice does.

### State

| Variable | Code |
|---|---|
| `db.task[t]` | row of `tasks`: `status`, `active_instance_id` (`active`), `paused_at` (`paused`), and `cooling` for `dispatched_at` with the retry backoff |
| `db.run[i]` | row of `job_instances`: `task_id`, `agent_id`, `status` (`st`), `runtime_ended_at` set (`ended`), `lifecycle_outcome_posted_at` set (`outcome`), and `aged` for "more than ten seconds since" |
| `jobs` | `setTimeout` timers, detached aborts, the tail of `failStuckInstance`: in memory, lost by `Crash` |
| `attempt[w]` | local variables and program point of one `runDispatcher` / `dispatchTaskToJob` |
| `launch[i]` | the same for `fireAgentRun` |
| `call[c]` | the same for a callback, a runtime end, or a stop |
| `sent` | external: runs whose prompt reached an agent; only these call back |

Times are not modelled as numbers. `aged`, `cooling` and the watchdog's
timeouts can elapse at any moment, which covers every setting of them.

### Actions

One action per transaction or unguarded statement; a handler with several is a
chain through the `pc` of its record.

- Dispatch: `List`, `Claim` / `ClaimRefused`, `PrepFail`, `Recheck`,
  `MarkDispatched`, `Launch` / `PromptFail`, `Unwind`; then `LaunchLost`,
  `CheckOwned`, `Dispatch`, `FailRun`, `RecordStartupFailure` of `fireAgentRun`.
- Callbacks: `Authorise`, then a check-in's beginning (below) and `Start`,
  `StartEventRead`, `Adopt`, `MoveStarted`; or `CompleteRead`, `Close`, a
  check-in's beginning, `Rewrite`; or a check-in's beginning, `CompletionRead`,
  `Rewrite`. A runtime's end has one too, after `ClaimEnd`.
- The beginning of every check-in (`observability.ts` 202, 84-140) looks for the
  run's task and, when a stop has cut the run off from it, for a task whose link
  still names the run; it then writes both links: `ResolveTask`, `LookUpLink`,
  `AttachRun`, `AttachTask`, two SELECTs and two UPDATEs without a transaction
  or a condition. Inside the transaction of an outcome they are one step,
  `Retied`. A plain check-in of a run that has its task comes down to one
  guarded UPDATE, `CheckIn`; one of a run that is cut off is `Heartbeat`, then
  the same beginning, then `Note`. Neither asks for authority, since the runtime
  of a Hermes agent sends heartbeats itself (`HermesRuntime.ts` 411-428).
- Runtime end: `RuntimeEnd`, `ClaimEnd`, `CompletionRead`, `Rewrite`, then
  `Handoff`, `Flag` or `ReadAuthority`, `CommitFailure`. `ReconcileMissing` is
  the reconciler's way into `Handoff`.
- `PostOutcome` is the agent's semantic outcome, one transaction under the
  task's row lock (`release.ts` 477-513).
- Operators: `Edit`, `Pause`, `Unpause`, `CancelTask`, `Stop`, `Revoke`,
  `Confirm`, `ClearDeadLink`.
- Background: `Expire`, `FireUnlink`, `Sweep`, `FireCleanup`, `FireAbort`,
  `GraceElapses`, `BackoffElapses`, `Crash`.

`Moves` names the environment moves a configuration allows; everything else is
always enabled.

### Abstractions

- Status routing (workflow event mappings, outcome routes, contracts,
  relationships, assignment rules) is configuration: constants of `RunDatabase`
  constrained only by their types.
- `Edit` writes any status: it covers requests, the stale status that
  `updateTaskRecord` writes back, and reopening. It is merged with the cleanup
  that follows; a crash between the two leaves the link to the sweep.
- A dispatch refused at the claim goes back to listing; trying the next rule
  with the same row would be refused too.
- The third way to authority (`task.agent_id`, `taskOutcome.ts` 297-308) is
  left out: `agent_id` is cleared with the link.
- The check-in inside `completeRunInstance` carries its status, and its mark
  as running changes nothing after the close; they are one step, `Rewrite`.
- Not in the model: notes, history, artifacts, tokens, tenants, notifications,
  admin keys, chat turns (`dispatchInstance`), external task events, gates that
  only refuse (evidence, MCP recovery, disabled agents).

### Workspace leases

Each file-system call is an action: `Open` (open, fstat and read on one
descriptor), `Judge` (`kill(pid, 0)` or age), `Stat`, `Unlink`, `Link`,
`Release`. Calls of one process are synchronous, so a process has one
acquisition in flight (`call[p]`), but may hold several leases (`held[p]`).
Processes exit and return under any free id; inode numbers come from a pool and
are reused. `used` and `wronged` are auxiliary: the first says that the lease a
lock was made for lasts, the second remembers that a reclaim removed such a
lock.

### Agent processes

`os[p]` is the kernel's side of a process id: whose leader has it and whose
descendants are in its group. `exec[i]` and `job[i]` are the two rows, `mon[l]`,
`stop[i]` and `rec[t]` what the API holds in memory of a launch, of an abort and
of a reconciler's tick; `Crash` loses them, with or without the processes.
Synchronous code is one step with the probe before it (`Inspect` probes and
decides); whatever is awaited may be overtaken. A launch is `Spawn`,
`PersistStart` or `PersistStartFails` (an error, or a commit whose answer is
lost), `Deliver`, then `Close`, `CleanUp`, `Report`, `Apply`; a refused one
`TearDown`, `TearKill`, `FailRun`. A stop goes through the child the API still
has (`AbortChild`) or the recorded handle (`StopDurable`, `StopKill`). A tick
takes a row (`Scan`) and looks at its tree; several ticks may be at it.

An id is pinned while its parent has not reaped it. Two assumptions about time
are explicit, and `Tardy` gives them up one by one: the tick that confirms a
loss reads its row after the monitor of the process is done
(`runtimeExecutionReconciler.ts` 326-328 waits at least a second, fifteen by
default, between two observations), and an id whose birth was verified is not
given out again during the kill that follows (`durableLocalProcessControl.ts`
91-93 verifies once, then waits for its grace). The second covers the monitor as
well: it keeps the id of its child until the cleanup after the child's end has
reported, and that cleanup signals the group once more when the leader has been
reaped already (`ownedProcessTreeCleanup.ts` 100). With `"monitor"` in `Tardy`
`SuccessNotLost` fails, if the run's projection failed too or is late; with
`"pid"`, `NoBystander`.

### Recurring series

`row[s]` is the series, `run[s][k]` its row for occurrence `k`, `made` and
`open` the generated tasks. A tick lists the due series (`List`), and for each
runs a READ COMMITTED transaction: `Read`, `Claim` (the insert that the unique
index on series and time lets one tick win), `Decide`, `Commit`, `Rollback` when
a statement fails. A client reads (`CallRead`), validates, and writes by id
(`CallWrite`, `RunNow`). `stale` and `overtaken` are auxiliary: `stale` holds the
ticks and callers whose series was written by another since they read it,
`overtaken` says that one of them has written it all the same. (To compare the
row with what was read would not do: two writes may bring the old value back
and the occurrence in between is on record.) Times are occurrence numbers. The API accepts
a schedule with the word "at" that the scheduler's parser does not
(`recurringTaskScheduler.ts` 49-75): the `"at"` of `schedule`, which ends as a
failed occurrence and a series switched off.

### Gateway configuration

One agent: `want` in the database, `queued` the row the triggers of migration 45
write with every edit, `disk` the files, `gateway` what is loaded and what call
is at work. `line` is the in-process queue of `serializeOpenClawMaintenance`,
and `sync` the call at its head, from `Enter` over the phases of
`openclawMcpReconciliation.ts` to `Finish`. `Perform` is the gateway; a
`TimeOut`, `Disconnect` or `Crash` loses the reply, not the call. `unsure` and
`overruled` are auxiliary: a call of unknown outcome since the last good one,
and a sync begun by force since. When retries and escalations are due is left
open. The agent is enabled and not deleted: the recovery worker passes over the
others (`openclawMcpRecoveryWorker.ts` 17), and `IncidentEnds` says nothing of
their incidents. It has servers assigned before and after each edit: a sync that
finds no bundle left returns ok without a call of the gateway
(`mcpMaterialization.ts` 1627-1632, 1661), and `EditReachesGateway` says nothing
of taking away the last server.

### Telemetry results and alerts

A result is `row[q]`, with the projects its sources had. `Verify` and `Publish`
are the two halves of `publishWithSources` under the tenant's shared lock,
`Move` the trigger that takes it exclusively. A batch evaluates and verifies in
one snapshot, so `Verify` compares nothing there. `FreezeAsk`, `FreezeCount`,
`FreezeWrite` are `freezeReport`. An alert is claimed under a lease, sent, and
finished where the claim is still the sender's.

## 3. Runs

| Run | Instance | Shows |
|---|---|---|
| `claims` | 2 tasks, 1 agent, 2 runs, 2 dispatchers | ownership, capacity, single launch and the refinement under competing dispatchers, failures, outcomes, expiries, sweeps |
| `callbacks` | 1 task, 2 runs, 1 dispatcher, 2 handlers, at most 2 jobs and handlers at a time; short workflow | late starts, completions, bare check-ins, heartbeats and stops of two runs: only a bare check-in leaves a run live beside its end (`OnlyCheckInUndoes`); only the last write of a reattachment takes a task straight from another run, no adoption does (`OnlyAttachSteals`) |
| `ends` | 1 run, 2 handlers | two reports of one end, the reconciler's search, starts, stops, cleared links, edits, cancel, pause: one follow-up, no foreign link, no live run loses its task |
| `recovery` | 2 tasks, one blocking the other, 2 runs, crashes | liveness of runs |
| `background` | one of five machines: 1 run with 2 launches, 2 process ids and 2 ticks; 1 series, 2 ticks, 1 client; 2 edits; 2 results, 2 workers, 1 client; 2 alerts, 2 senders; 1 or 2 faults each | safety of agent processes, series, configuration, results, alerts |
| `liveness` | the same, smaller, and 2 processes with a lease, 3 ids, 2 inodes | what must happen in the end; exclusion in workspaces |
| `fence`, `startup`, `resurrection`, `latest`, `reclaim`, `batch` | 1 task, 1 or 2 runs; 2 processes; 1 result | counterexamples, section 6 |

`background` and `liveness` are sums: the variable `which`, chosen
at the start and never changed, says whose steps a behaviour consists of. The
machines in a sum share no state in the code, so nothing is lost by not letting
them move together. In `MCBackground` the variables `v1` to `v16` serve whichever
component moves, and sets of different components share their model values to
keep the group of permutations small; in `MCLiveness` each component has its
own. A property of one component says `which = "..." =>` first.

Why the bounds are enough to be of use: every guard compares at most two runs
(the linked one and another), two tasks compete for one agent, and two handlers
for one run. With two runs of a task, every stale reading can meet both its own
run and the successor; one agent makes capacity matter. A third run, task or
dispatcher repeats one of these pairs, and for the main invariants the proofs
do not depend on the bounds at all. `Calls` bounds handlers in flight, `Runs`
the runs ever claimed, `MaxLeases` and `MaxCrashes` those of the lock model.
The short workflow (one open status) is used where the routing of statuses has
no part in the question. Deadlock is not checked in the runs of `RunLifecycle`:
with its last run id used up the system rightly stops; nor in the background
machines, which stop when their bounds on time, faults and edits are used up.
`claims`, `callbacks`, `ends` and `background` use symmetry, which is sound since their
properties do not name a symmetric value and none is a liveness property.

In the background machines the pairs are: two launches of one run, since a row
is claimed once per run; two ids, so that one can be reused while the other is
in use; two ticks, two workers, two senders, so that each can overtake another;
two occurrences, so that one can be past and one ahead; two edits, so that one
arrives during the sync of the other. `FewTicks` of `MCBackground` lets ticks of
the reconciler overlap only as long as one of the two launches has not been
made, the last mishap has not happened and no stop is under way, since each of
these alone exhausts what two ticks share; `FaultOrFreeze` keeps faults of evaluations apart from
freezes, which concern results of different states. `FewDeferred`, the
constraint of `callbacks`, leaves each timer or handler one other to meet, and
none once the second run's prompt is out; the other handler is then a stop. A
stop, or a run that is cut off, meets one launched run at most and no completion
callback. The proof of `OnlyAttachSteals` needs none of this. `MaxMishaps`, `MaxFaults`,
`MaxRollbacks` and `MaxSetbacks` bound faults, `MaxTime`, `MaxCalls`,
`MaxEdits`, `MaxMoves` what clients and the clock do. Faults of two kinds in a
row are reached with two; the telemetry and configuration parts have one.
`liveness` has one tick, because a tick that hangs beside another is a matter of
safety, and one exit of a lease holder; the exclusion it checks is proved for
any number (section 4).

### Fairness

`FairSpec` of `RunLifecycle` is weakly fair to `Sweep` (the reconciler ticks
about every twelve seconds, `src/docs/INFRASTRUCTURE.md` line 87, and selects
from the tables each time), to `Expire` (the watchdog scans every minute; a live
run eventually exceeds its startup grace, its heartbeat limit or its execution
timeout, `watchdog.ts` 251-303) and to `GraceElapses` (time). Nothing is assumed
of agents, operators, dispatchers, timers or callbacks. It assumes that the
reconciler is not switched off by its environment variable. `recovery` allows
any number of crashes: the two liveness properties rest on the periodic work
alone.

`FairSpec` of `RuntimeExecution` is weakly fair to each step of a launch and its
monitor (promises of a running API are settled), to a reconciler's tick, and to
the exit of processes: an agent that never ends keeps its execution running,
which is right. Nothing is assumed of stops, timers or clients, and the API may
crash between any two steps. That of `RecurringSeries` is weakly fair to ticks;
`NotificationDelivery` and `TelemetryQueries` to their workers (every five
seconds and every second, `openclawMcpRecoveryWorker.ts` 78, `queries.ts` 382)
and to the end of leases; `McpRecovery` to the steps of a sync and of the
gateway, to the recovery worker, and to deadlines. None is fair to clients,
crashes or faults; the faults are finitely many, as their bounds say, so that
each liveness property reads "once the faults stop".

`FairSpec` of `WorkspaceLease` is weakly fair to acquisitions (the dispatcher and
the worktree prune try again on each pass), to `Restart` (`restart:
unless-stopped` in `src/docker-compose.yml`) and to `Age`.

## 4. Proofs

`RunLifecycle_proofs` proves, for any number of tasks, agents, runs, dispatchers
and handlers and any workflow, that `Spec` implies
`[]LinkNamesOwnRun`, `[]LiveRunOwnsItsTask`, `[]AgentCapacity`,
`[]EndedRunIsOver` and `[]LaunchedOnce`, under the named assumptions of
`RunDatabase` and `RunLifecycle` (types of the constants) and

    "completion" \notin Moves

The last one is no technicality: an agent's bare completion check-in breaks
`AgentCapacity` (run `resurrection`), so the theorem holds of the rest of the
system.

None of the properties is inductive. `LiveRunOwnsItsTask` needs to know that a
link always names a run of the same task that exists, or a cleanup for one
task could detach the run of another; `AgentCapacity` needs that nothing makes
a run live again, which depends on what each handler carries from its readings:
a handler past its decision holds a final status, a follow-up a run that is
over, an expiry's tail a dead run. `Consistent` is the conjunction of these
facts: the properties, `LinkedRunPresent`, `AttemptsHoldTheirRun`,
`LaunchesFollowTheMark`, `CallsCarryTheirReadings` and `JobsNameTheirTask`.

The proof turns on one relation, `Shrinks(d, e)`: from table value `d` to `e`,
runs may end and links may be released, a live run keeps its link, and nothing
else happens to runs and links. Every statement of the system but the claim
shrinks the tables (one lemma per operator of `RunDatabase`), `Shrinks` is
transitive and preserves both the table invariants (`Sound`) and what records in
flight owe to the tables (`CallOK`, `JobOK`). So each action needs only its
`Shrinks` lemma and the record it changes; only `Claim` needs an argument of its
own.

`WorkspaceLease_proofs` proves `TypeOK` (`LeaseTypeCorrect`) and
`OnlyReclaimBreaksExclusion` for any number of processes, ids, inodes and exits, by adding that running processes have
different ids and that only running processes hold leases.

`RunPromises_proofs` proves that `Spec` implements `ImplementsOwnership`
(`ImplementsRunOwnership`) under the same assumption. `Shrinks` is not enough
here: the abstract `End` and `Release` speak of one run, so a step that ended two
runs at once would shrink the tables and implement nothing. The proof therefore
shows that every statement but the claim is `Local`: there is one run such that
no other run and no link to another run changes. A local step that shrinks the
tables is an abstract step or a stutter, and the claim is the abstract `Claim`.

It proves `EndHandledOnce` (`EndsAreHandledOnce`) when neither `"complete"` nor
`"completion"` is among the moves. Whoever follows up an end holds a run that is
over, and `ClaimEnd` starts a follow-up of a live run only, so the second report
finds nothing to claim. An agent that completes its own run meets no such guard
(`completeRunInstance` updates by id), so its follow-up may run beside that of
the runtime's end, and the property is not claimed for it. Nor is it claimed of
the task's flag for attention: the reconciler's search for missing outcomes may
set it beside a report that is about to, to the same status.

Its last part drops the hypothesis: whatever agents check in and operators stop,
`Spec` implies `[]TypeOK` (`AlwaysTyped`), `OnlyAttachSteals`
(`ReattachingAloneSteals`) and `OnlyCheckInUndoes` (`CheckInsAloneUndo`).
`Consistent` is of no use there, since a run may be live again. What is left of
`Shrinks` is `Tame(d, e)`: no run vanishes, no outcome is erased, only a stop
cuts a run off from its task, links are let go at most, and no run comes to be
live beside its end. All statements are tame but four: the claim and the
adoption link a task, whose link they have found free in the same statement; the
reattachment links one without looking, and is the exception of
`OnlyAttachSteals`; the write-back of a check-in may leave a run live beside its
end, and is that of `OnlyCheckInUndoes`. The inductive invariant, `Bearing`, says
only what readings stay good for: a handler's run exists, a handler is busy with
a reattachment only where runs are stopped, and a report of a runtime's end that
is about to write a live status has found the outcome on record, which nothing
erases, so the write makes matters no worse.

`NoSteal`, the same without the exception, is proved (`NoStealing`) if
`"stop"` or `"completion"` is not among the moves. Without stops no run is cut
off, so no reattachment begins; without bare completion check-ins `Consistent`
holds, no task links a run that is cut off, and no reattachment finds one. With
both it is false (section 6).

### The background machines

Each component has an `ASSUME`-free module; what its proofs take for granted of
the constants is its operator `ConstantsOK` (bounds are natural numbers, sets
that are told apart are disjoint), a hypothesis of its theorems, and
`MCBackground` assumes it of the instance TLC checks. `RuntimeExecution` states
its one assumption, that there are runs, itself.

`RuntimeExecution_proofs`: `TypeOK`, `TerminalStands`, `OnePromptPerRun` and
`TerminalTreeGone` without any hypothesis, for any number of runs, launches,
process ids, ticks and mishaps; `NoBystander` if `"pid" \notin Tardy`, that is,
if no id is given out again as long as a monitor, stop or tick may signal it;
`SuccessNotLost` if `"monitor" \notin Tardy`. These two hypotheses are the
assumptions about time of section 2, and neither can be dropped: TLC finds the
property violated without it. No property is inductive. A terminal row is right
because whoever is about to write one has seen its group go, which needs that
the processes of a launch never leave the group of its id (`TreesAtHome`); a
signal finds its own tree because every party past its check of the id still
holds an id that only its launch may have (`TargetsOwn`), through three kinds of
killers: the launch itself, a stop, a tick; a success stands because whoever
gives a run its end gives it a verdict (`RunsEndOnce`) and a tick that may still
call the run lost read the row after the monitor was done (`ReadTruly`).

`RecurringSeries_proofs`: `SeriesTypeOK`, `OneTaskPerOccurrence`,
`OneActiveTask`, `NextIsAhead`. The claim of an occurrence is exclusive from the
insert to the end of its transaction (`ClaimsAreFirst`); a reading that is not
`stale` still tells the series as it is (`ReadingsFresh`), so the advance that
follows it moves ahead of all that is on record (`RecordIsBehind`), and the
verdict "create" still finds no task open (`RoomForTask`).

`McpRecovery_proofs`: `McpTypeOK`, `UncertaintyOnRecord`, `ReceiptIsTrue`,
`EditReachesGateway`. The inductive invariant `McpInv` follows a revision on its
way. The row is at the phase of the sync (`PhaseOnRecord`), so a reply that is
lost finds its uncertainty recorded; the agent's own file stays as written
between the writing and the acknowledgement, and what the gateway loaded is what
was on disk at some time in between (`FilesAsWritten`), so a receipt is true
unless the sync at hand is just making it a lie (`ReceiptStands`); the queue's
job is in line once (`OneQueueCall`), so that the success it sees is of its own
revision, and once that is the newest, gateway and every sync under way have it
(`EditsArrive`).

`TelemetryQueries_proofs`: `TelemetryTypeOK`; `ProofStands` from
`VerifiedHolds` (who has verified holds the tenant's lock in share mode, so
nothing moves until the result is published); `SnapshotLimit` from
`RoomForFrozen`; `VerdictStands` from `OwnIds`. `Background_proofs` proves
`FinishedStays` from `ClaimsAreOpen`: a claim that is still its sender's is of a
delivery that is being sent, and no lease is valid beyond that.

`Background_proofs` carries the properties of the components over to the
behaviours of `MCBackground`, in the words of the run. A behaviour in which
`which` says "series" from the start is one of `Recurring!Spec`; in any other
the property says nothing. `MCBackground` therefore instantiates the modules of
proofs, so that their theorems are known of the instance. The properties of
`RuntimeExecution` are that module's own: the run checks the formulas the
theorems name.

### What is only model-checked

Liveness (`RunEventuallyOver`, `DeadLinkReleased`, `StaleLockGoes`,
`ExecutionSettles`, `DueIsDone`, `IncidentEnds`, `QueryEnds`, `DeliveryEnds`):
fairness and leads-to need `ENABLED`, which the prover does not handle. The seven
properties of runs above other than `TypeOK`, `NoSteal`, `OnlyAttachSteals` and
`OnlyCheckInUndoes` are claimed, checked and proved without `"completion"` among
the moves only.
And the violations of section 6, which are counterexamples, not theorems.

## 5. Not modelled, and the plan

Done: the life of a run and its abstract specification; workspace leases; agent
processes; recurring series; gateway configuration; telemetry results; alerts;
the proofs of section 4.

Next, as proofs: that `RecurringSeries` and `TelemetryQueries` implement an
abstract outbox each (an occurrence is pending, at work, or done with; a query
waits, is claimed, or is over), as `RunLifecycle` does `RunOwnership`.

Then, as models: the order of dispatch candidates and keep-same-agent as
operators checked against a reference definition; the OAuth token store.

Not modelled of the parts that are: chat turns on an existing run
(`dispatchInstance`); agent processes on Windows or on another host, and those
that leave their process group; heartbeats and checkpoints, which are data;
changes of a series' schedule or policy, its deletion, and a next run that a
client names itself; the removal of an agent's servers from the gateway and
several agents at once (another agent's sync is `ForeignEdit`); the
deduplication of equal telemetry queries and drilling into a result.

Left out for good: prompt rendering, metric arithmetic, UI, CLI, provider and
runtime adapters (I/O and pure text), migrations.

## 6. Where code and comments disagree

Each is a `violation` run; the trace TLC prints is the history.

- `fence`: cancellation is meant to "fence callbacks immediately"
  (`lib/taskLifecycle.ts` 483), but a completion already past its
  authorisation closes the run by id (`callbacks.ts` 309) and replaces
  `cancelled`.
- `startup`: with no mapping configured the task should stay "where it was"
  (`dispatcher.ts` 452), but it is set to the status it had at dispatch, over
  an outcome the agent has posted in between.
- `resurrection`: the completion check-in writes back a status it has read
  earlier (`observability.ts` 353-375); if the watchdog expired the run in
  between, a second run of the agent may already be live.
- `latest`: `runtime_failed` should apply only if "nothing has run since"
  (`taskOutcome.ts` 286), but authority is read before the transaction.
- `reclaim`: "a lock another process created in the meantime survives"
  (`workspaceLease.ts` 28-29) holds neither between `stat` and `unlink` nor when
  the new lock has the inode number of the old one.
- `batch`: "a concurrent mutation either revokes that proof after publication or
  is observed before publication"
  (`src/db/pg-migrations/38-telemetry-source-invalidation.sql` 49-50), but a
  batch evaluates and publishes in one REPEATABLE READ transaction (`queries.ts`
  270, 285): its check under the shared lock reads the older snapshot, and the
  result of a source that moved or was deleted in between is retained. Reading
  it checks its sources once more (297-301), so it stays unreadable.

Four further limits, not contradictions. A bare completion check-in puts an end
on record and leaves the run live, so the sweep lets go of its task, and the way
is open for a reattachment that steals: a start event finds the run live and the
task free; a stop cuts the run off; the start event links it all the same; a
heartbeat finds that link, and before it writes it back (`observability.ts`
100-104) the task is let go and claimed for a newer run, which loses it.
`OnlyAttachSteals` excepts this write. Scheduler and series API write a
series by id alone: an update that was read before a tick's commit and written
after it puts `next_run_at` back to an occurrence on record, which every later
tick takes for a duplicate and does not advance (`recurringTaskScheduler.ts`
209-220, 264); `OneActiveTask`, `NextIsAhead` and `DueIsDone` therefore except
`overtaken`. A success whose projection failed is recorded as a failure if the
tick that confirms the loss had read the row before the success: the timing
assumption above. And a process id says who holds a lock only
while ids differ. In a container the restarted API has the id of the one that
died, so a lock left behind in a persistent workspace volume is taken for held;
`StaleLockGoes` speaks of ids that no process has.
