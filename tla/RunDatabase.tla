---------------------------- MODULE RunDatabase ----------------------------
(* The two PostgreSQL tables every component of Agent HQ meets in: `tasks`  *)
(* and `job_instances` (a "run" below).  The module has no variables.  Each *)
(* operator maps a database value d to the value one committed transaction  *)
(* or one single-statement UPDATE leaves behind, so that the modules that   *)
(* give those statements an order (RunLifecycle) only say WHEN they happen. *)
(* An operator whose name ends in Bug is a seeded fault: it stands for the  *)
(* definition after it when the properties themselves are tested.           *)
EXTENDS Naturals, FiniteSets

CONSTANTS
    Tasks,           \* tasks.id
    Agents,          \* agents.id, all enabled
    Runs,            \* job_instances.id, handed out in increasing order
    NoTask, NoAgent, \* SQL NULL in job_instances.task_id / agent_id
    Statuses,        \* the task statuses of the configured workflow
    Terminal,        \* those flagged terminal in that workflow
    Rules,           \* status -> agents an assignment rule names for it
    BlockedBy,       \* task -> tasks that block it (task relationships)
    NeedsOutcome,    \* statuses whose contract demands a semantic outcome
    StartEvent,      \* status -> status, the agent_started mapping
    MissingEvent,    \* status -> status, the missing-outcome mapping
    StartupFailed,   \* status -> status, the dispatch_startup_failed mapping
    OutcomeRoutes,   \* status -> statuses an agent's outcome may route to
    FailureRoutes    \* status -> statuses runtime_failed may route to

NoRun == 0           \* SQL NULL in tasks.active_instance_id; ids start at 1

ASSUME RunsAssumption == Runs \subseteq Nat \ {0}
ASSUME NullsAssumption == NoTask \notin Tasks /\ NoAgent \notin Agents
ASSUME StatusesAssumption ==
    /\ {"ready", "done", "cancelled"} \subseteq Statuses
    /\ Terminal \subseteq Statuses
    /\ NeedsOutcome \subseteq Statuses
ASSUME RoutingAssumption ==
    /\ Rules \in [Statuses -> SUBSET Agents]
    /\ BlockedBy \in [Tasks -> SUBSET Tasks]
ASSUME WorkflowAssumption ==
    /\ {StartEvent, MissingEvent, StartupFailed}
           \subseteq [Statuses -> Statuses]
    /\ {OutcomeRoutes, FailureRoutes} \subseteq [Statuses -> SUBSET Statuses]

---------------------------------------------------------------------------
(* Rows.  "absent" is a run id not inserted yet; `aged` says the ten-second *)
(* grace after the run's end or outcome is over; `cooling` that the retry   *)
(* cooldown after the last dispatch is running.                             *)
LiveStates == {"queued", "dispatched", "running"}
RunStates  == LiveStates \cup {"absent", "done", "failed", "cancelled"}

TaskRows == [status : Statuses, active : Runs \cup {NoRun},
             paused : BOOLEAN, cooling : BOOLEAN]
RunRows  == [task : Tasks \cup {NoTask}, agent : Agents \cup {NoAgent},
             st : RunStates, ended : BOOLEAN, outcome : BOOLEAN,
             aged : BOOLEAN]
Database == [task : [Tasks -> TaskRows], run : [Runs -> RunRows]]

NewTask == [status |-> "ready", active |-> NoRun, paused |-> FALSE,
            cooling |-> FALSE]
NoRow   == [task |-> NoTask, agent |-> NoAgent, st |-> "absent",
            ended |-> FALSE, outcome |-> FALSE, aged |-> FALSE]
Queued(t, a) == [task |-> t, agent |-> a, st |-> "queued",
                 ended |-> FALSE, outcome |-> FALSE, aged |-> FALSE]
EmptyDatabase == [task |-> [t \in Tasks |-> NewTask],
                  run  |-> [i \in Runs |-> NoRow]]

---------------------------------------------------------------------------
(* Reading the tables.                                                      *)
Live(d, i)     == d.run[i].st \in LiveStates
Present(d, i)  == d.run[i].st # "absent"
Anchored(d, i) == d.run[i].ended \/ d.run[i].outcome
Joined(d, t, i) == /\ i # NoRun
                   /\ d.task[t].active = i
                   /\ d.run[i].task = t

\* The tasks that point at run i.
Linking(d, i) == {t \in Tasks : d.task[t].active = i}

\* An agent key may call back for a run that is live, or that its task links.
InScope(d, i) == Live(d, i) \/ \E t \in Tasks : Joined(d, t, i)

\* The dispatcher's capacity checks.
AgentBusy(d, a) == \E i \in Runs : Live(d, i) /\ d.run[i].agent = a
TaskBusy(d, t)  == \E i \in Runs : Live(d, i) /\ d.run[i].task = t

Dispatchable(d, t) ==
    /\ d.task[t].status \notin Terminal
    /\ d.task[t].active = NoRun
    /\ ~d.task[t].paused
    /\ ~d.task[t].cooling
    /\ \A b \in BlockedBy[t] : d.task[b].status \in Terminal

\* The pre-flight of runtime.dispatch: the run is live and, unless a stop cut
\* it off from its task, that task still points at it and is not paused.
StillOwned(d, i) ==
    /\ Live(d, i)
    /\ d.run[i].task = NoTask \/ /\ d.task[d.run[i].task].active = i
                                 /\ ~d.task[d.run[i].task].paused

\* Whether run i may post the backend outcome runtime_failed for task t.
Authoritative(d, t, i) ==
    \/ d.task[t].active = i
    \/ /\ d.task[t].active = NoRun
       /\ d.run[i].task = t
       /\ \A j \in Runs : d.run[j].task = t => j <= i

---------------------------------------------------------------------------
(* Single statements.                                                       *)
Detach(d, t, i) ==
    IF d.task[t].active = i THEN [d EXCEPT !.task[t].active = NoRun] ELSE d

SetStatus(d, t, s) == [d EXCEPT !.task[t].status = s]
SetRun(d, i, s)    == [d EXCEPT !.run[i].st = s]

\* status = s, runtime_ended_at = COALESCE(runtime_ended_at, now)
CloseRun(d, i, s)  == [d EXCEPT !.run[i].st = s, !.run[i].ended = TRUE]

MarkRunningUnguardedBug(d, i) == SetRun(d, i, "running")

\* CASE WHEN status IN ('queued','dispatched') THEN 'running'
MarkRunning(d, i) ==
    IF d.run[i].st \in {"queued", "dispatched"} THEN SetRun(d, i, "running")
                                                ELSE d

---------------------------------------------------------------------------
(* cleanupTaskExecutionLinkage: under the task's row lock, release the link *)
(* unless the linked run is live and has neither ended nor posted, or is    *)
(* still inside the grace period.                                           *)
CleanupDetachesLiveBug(d, t) ==
    LET i == d.task[t].active IN
    /\ i # NoRun
    /\ d.run[i].task = t => (Anchored(d, i) => d.run[i].aged)

CleanupDetachesAnchoredBug(d, t) ==
    LET i == d.task[t].active IN
    /\ i # NoRun
    /\ d.run[i].task = t => Anchored(d, i) /\ d.run[i].aged

CleanupDetaches(d, t) ==
    LET i == d.task[t].active IN
    /\ i # NoRun
    /\ d.run[i].task = t => IF Anchored(d, i) THEN d.run[i].aged
                                              ELSE ~Live(d, i)

\* A run whose outcome was posted but which nobody closed is finished first.
Finalizes(d, i) == /\ Live(d, i)
                   /\ d.run[i].outcome
                   /\ ~d.run[i].ended

Cleanup(d, t) ==
    LET i == d.task[t].active IN
    IF ~CleanupDetaches(d, t) THEN d
    ELSE Detach(IF d.run[i].task = t /\ Finalizes(d, i)
                THEN CloseRun(d, i, "done") ELSE d, t, i)

\* Deferred work: "cleanup" is a timer on (task, run), "abort" the detached
\* cancellation of a run, "unlink" the tail of a watchdog expiry.
Jobs == [job : {"cleanup", "abort", "unlink"}, task : Tasks \cup {NoTask},
         run : Runs]
CleanupJob(t, i) == [job |-> "cleanup", task |-> t, run |-> i]
AbortJob(i)      == [job |-> "abort", task |-> NoTask, run |-> i]
UnlinkJob(t, i)  == [job |-> "unlink", task |-> t, run |-> i]

\* scheduleEndedActiveInstanceLinkageCleanup, which needs the join to hold.
ScheduleJobs(d, t, i) ==
    IF t # NoTask /\ Joined(d, t, i) /\ Anchored(d, i)
    THEN {CleanupJob(t, i)} ELSE {}

CleanupJobs(d, t) ==
    LET i == d.task[t].active IN
    IF ~CleanupDetaches(d, t)
    THEN IF i # NoRun THEN ScheduleJobs(d, t, i) ELSE {}
    ELSE IF d.run[i].task = t /\ Finalizes(d, i) /\ d.run[i].st # "queued"
         THEN {AbortJob(i)} ELSE {}

---------------------------------------------------------------------------
(* Transactions.                                                            *)

\* claimTaskDispatch: both locks held, so every check and write is one step.
NextRun(d, i) == /\ ~Present(d, i)
                 /\ \A j \in Runs : Present(d, j) <=> j < i

ClaimableBusyAgentBug(d, t, a, seen) ==
    /\ d.task[t].status = seen
    /\ ~TaskBusy(d, t)
    /\ Dispatchable(d, t)

Claimable(d, t, a, seen) ==
    /\ d.task[t].status = seen
    /\ ~AgentBusy(d, a)
    /\ ~TaskBusy(d, t)
    /\ Dispatchable(d, t)

ClaimTx(d, t, a, i) ==
    [d EXCEPT !.run[i] = Queued(t, a),
              !.task[t] = [@ EXCEPT !.active = i, !.cooling = TRUE]]

UnwindUnguardedBug(d, t, i) ==
    [d EXCEPT !.run[i].st = IF @ \in {"queued", "dispatched"} THEN "failed"
                                                              ELSE @,
              !.task[t].active = NoRun]

\* The finally block of dispatchTaskToJob when nothing was launched.
UnwindTx(d, t, i) ==
    Detach([d EXCEPT !.run[i].st = IF @ \in {"queued", "dispatched"}
                                   THEN "failed" ELSE @], t, i)

StartupFailureUnguardedBug(d, t, i, prior) ==
    [d EXCEPT !.run[i].st = IF @ \in {"queued", "dispatched"} THEN "failed"
                                                              ELSE @,
              !.task[t].status = StartupFailed[prior],
              !.task[t].active = NoRun,
              !.task[t].cooling = TRUE]

\* persistDispatchStartupFailure: void unless the task still links the run.
StartupFailureTx(d, t, i, prior) ==
    IF d.task[t].active # i THEN d
    ELSE [SetStatus(UnwindTx(d, t, i), t, StartupFailed[prior])
             EXCEPT !.task[t].cooling = TRUE]

\* The check-in recorded while an outcome closes its run: a run that a stop
\* has cut off gets the task back whose link names it.
Retied(d, i) ==
    LET linking == Linking(d, i) IN
    IF d.run[i].task = NoTask /\ linking # {}
    THEN [d EXCEPT !.run[i].task = CHOOSE t \in linking : TRUE] ELSE d

PostNotClosedBug(d, t, i, s, final) ==
    [SetStatus(d, t, s) EXCEPT !.run[i].outcome = TRUE]

\* applyTaskOutcome from its accepted-mutation section on: the task moves,
\* the run posts and is closed unless done or failed, and the link follows.
PostTx(d, t, i, s, final) ==
    LET moved == [SetStatus(d, t, s) EXCEPT !.run[i].outcome = TRUE] IN
    IF d.run[i].st \in {"done", "failed"} THEN moved
    ELSE Retied(CloseRun(moved, i, final), i)
OutcomeTx(d, t, i, s, final) == Cleanup(PostTx(d, t, i, s, final), t)
OutcomeJobs(d, t, i, s, final) == CleanupJobs(PostTx(d, t, i, s, final), t)

\* cancelTaskRecord with cancelTaskExecution.
CancelTx(d, t) ==
    LET i == d.task[t].active
        moved == SetStatus(d, t, "cancelled") IN
    IF i = NoRun THEN moved
    ELSE Detach(IF Joined(d, t, i) /\ Live(d, i)
                THEN SetRun(moved, i, "cancelled") ELSE moved, t, i)
CancelJobs(d, t) ==
    {AbortJob(i) : i \in {j \in Runs : /\ Joined(d, t, j)
                                       /\ Live(d, j)
                                       /\ d.run[j].st # "queued"}}

\* stopInstanceExecution's first transaction with applyStopBehavior.
StopBehaviors == {"stop", "park", "requeue"}
StopStatus(s, behavior) == CASE behavior = "stop"    -> s
                             [] behavior = "park"    -> "cancelled"
                             [] behavior = "requeue" -> "ready"
StopKeepsLinkBug(d, i, behavior) ==
    [d EXCEPT !.run[i].st = "failed", !.run[i].task = NoTask]

StopLeavesLiveBug(d, i, behavior) ==
    LET t == d.run[i].task IN
    IF t # NoTask /\ d.task[t].active = i
    THEN SetStatus(Detach(d, t, i), t, StopStatus(d.task[t].status, behavior))
    ELSE d

StopTx(d, i, behavior) ==
    LET t == d.run[i].task
        revoked == [d EXCEPT !.run[i].st = "failed", !.run[i].task = NoTask]
    IN  IF t # NoTask /\ d.task[t].active = i
        THEN SetStatus(Detach(revoked, t, i), t,
                       StopStatus(d.task[t].status, behavior))
        ELSE revoked
=============================================================================
