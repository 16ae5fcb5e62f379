---------------------------- MODULE RunLifecycle ---------------------------
(* The life of a run: the dispatcher claims a task for an agent, prepares a *)
(* workspace, launches the agent's runtime; the agent calls back; the       *)
(* runtime ends; operators edit, cancel and stop; the watchdog and the      *)
(* reconciler repair.  Each step is one transaction or one statement, so    *)
(* everything the API awaits in between may interleave.  An in-flight       *)
(* dispatch, launch or callback keeps in its record exactly what its code   *)
(* has read and will use later.                                             *)
EXTENDS RunDatabase

CONSTANTS
    Dispatchers,  \* concurrent runDispatcher passes (reconciler, triggers)
    Calls,        \* bound: handlers of callbacks and stops in flight at once
    Moves         \* which of AllMoves the environment makes

AllMoves == {"start", "complete", "completion", "end", "stop", "edit",
             "pause", "cancel", "clear", "missing", "crash"}
ASSUME MovesAssumption == Moves \subseteq AllMoves

VARIABLES
    db,       \* the tables, see RunDatabase
    jobs,     \* deferred work of this API process: timers, detached aborts
    attempt,  \* attempt[w]: where dispatcher w is in dispatchTaskToJob
    launch,   \* launch[i]: where fireAgentRun is for run i
    sent,     \* runs whose prompt reached a runtime
    call      \* call[c]: the callback or stop handler in slot c

vars == <<db, jobs, attempt, launch, sent, call>>

---------------------------------------------------------------------------
Resting  == [pc |-> "idle", task |-> NoTask, agent |-> NoAgent,
             seen |-> "ready", run |-> NoRun]
Unlaunched == [pc |-> "none", prior |-> "ready"]
NoCall   == [pc |-> "idle", run |-> NoRun, task |-> NoTask,
             seen |-> "none", owe |-> "none", next |-> "none",
             tie |-> NoTask]

Attempts == [pc : {"idle", "listed", "claimed", "checked", "marked", "unwind"},
             task : Tasks \cup {NoTask}, agent : Agents \cup {NoAgent},
             seen : Statuses, run : Runs \cup {NoRun}]
Launches == [pc : {"none", "starting", "asserted", "raised", "recording"},
             prior : Statuses]
CallStates ==
    [pc : {"idle", "start", "event", "adopt", "move", "complete", "close",
           "completion", "claim", "rewrite", "handoff", "flag", "authority",
           "commit", "revoke", "confirm", "check", "lookup", "tie", "link",
           "note"},
     run : Runs \cup {NoRun}, task : Tasks \cup {NoTask},
     seen : Statuses \cup RunStates \cup StopBehaviors \cup {"none"},
     owe : {"none", "move", "handoff", "authority"},
     next : {"none", "start", "completion", "rewrite", "note"},
     tie : Tasks \cup {NoTask}]

TypeOK ==
    /\ db \in Database
    /\ jobs \subseteq Jobs
    /\ attempt \in [Dispatchers -> Attempts]
    /\ launch \in [Runs -> Launches]
    /\ sent \subseteq Runs
    /\ call \in [Calls -> CallStates]

Init ==
    /\ db = EmptyDatabase
    /\ jobs = {}
    /\ attempt = [w \in Dispatchers |-> Resting]
    /\ launch = [i \in Runs |-> Unlaunched]
    /\ sent = {}
    /\ call = [c \in Calls |-> NoCall]

---------------------------------------------------------------------------
(* dispatchTaskToJob                                                        *)

\* One pass picks a candidate from an unlocked reading of both tables.
List(w, t, a) ==
    /\ attempt[w].pc = "idle"
    /\ Dispatchable(db, t)
    /\ ~TaskBusy(db, t)
    /\ a \in Rules[db.task[t].status]
    /\ ~AgentBusy(db, a)
    /\ attempt' = [attempt EXCEPT ![w] =
          [pc |-> "listed", task |-> t, agent |-> a,
           seen |-> db.task[t].status, run |-> NoRun]]
    /\ UNCHANGED <<db, jobs, launch, sent, call>>

Claim(w, i) ==
    LET p == attempt[w] IN
    /\ p.pc = "listed"
    /\ Claimable(db, p.task, p.agent, p.seen)
    /\ NextRun(db, i)
    /\ db' = ClaimTx(db, p.task, p.agent, i)
    /\ attempt' = [attempt EXCEPT ![w].pc = "claimed", ![w].run = i]
    /\ UNCHANGED <<jobs, launch, sent, call>>

ClaimRefused(w) ==
    LET p == attempt[w] IN
    /\ p.pc = "listed"
    /\ ~Claimable(db, p.task, p.agent, p.seen)
    /\ attempt' = [attempt EXCEPT ![w] = Resting]
    /\ UNCHANGED <<db, jobs, launch, sent, call>>

\* Repository or environment preparation fails: record it, then unwind.
PrepFail(w) ==
    LET p == attempt[w] IN
    /\ p.pc = "claimed"
    /\ db' = StartupFailureTx(db, p.task, p.run, p.seen)
    /\ attempt' = [attempt EXCEPT ![w].pc = "unwind"]
    /\ UNCHANGED <<jobs, launch, sent, call>>

\* "Preparation is asynchronous: a user may have moved or stopped the task."
Recheck(w) ==
    LET p == attempt[w]
        t == db.task[p.task]
        same == t.active = p.run /\ ~t.paused /\ t.status = p.seen
    IN  /\ p.pc = "claimed"
        /\ attempt' = [attempt EXCEPT ![w].pc =
                          IF same THEN "checked" ELSE "unwind"]
        /\ UNCHANGED <<db, jobs, launch, sent, call>>

MarkDispatched(w) ==
    LET p == attempt[w]
        owned == /\ db.run[p.run].st = "queued"
                 /\ db.task[p.task].active = p.run
    IN  /\ p.pc = "checked"
        /\ db' = IF owned THEN SetRun(db, p.run, "dispatched") ELSE db
        /\ attempt' = [attempt EXCEPT ![w].pc =
                          IF owned THEN "marked" ELSE "unwind"]
        /\ UNCHANGED <<jobs, launch, sent, call>>

\* A seeded fault: the finally block takes the launched run for unlaunched.
LaunchThenUnwindBug(w) ==
    LET p == attempt[w] IN
    /\ p.pc = "marked"
    /\ launch' = [launch EXCEPT ![p.run] =
                     [pc |-> "starting", prior |-> p.seen]]
    /\ attempt' = [attempt EXCEPT ![w].pc = "unwind"]
    /\ UNCHANGED <<db, jobs, sent, call>>

\* fireAgentRun is started and not awaited; the attempt is over.
Launch(w) ==
    LET p == attempt[w] IN
    /\ p.pc = "marked"
    /\ launch' = [launch EXCEPT ![p.run] =
                     [pc |-> "starting", prior |-> p.seen]]
    /\ attempt' = [attempt EXCEPT ![w] = Resting]
    /\ UNCHANGED <<db, jobs, sent, call>>

\* Building the context bundle throws before the launch.
PromptFail(w) ==
    /\ attempt[w].pc = "marked"
    /\ attempt' = [attempt EXCEPT ![w].pc = "unwind"]
    /\ UNCHANGED <<db, jobs, launch, sent, call>>

\* The finally block: nothing was launched, give the task back.
Unwind(w) ==
    LET p == attempt[w] IN
    /\ p.pc = "unwind"
    /\ db' = UnwindTx(db, p.task, p.run)
    /\ attempt' = [attempt EXCEPT ![w] = Resting]
    /\ UNCHANGED <<jobs, launch, sent, call>>

---------------------------------------------------------------------------
(* fireAgentRun                                                             *)

\* An error before the try block is only logged: the run stays dispatched.
LaunchLost(i) ==
    /\ launch[i].pc = "starting"
    /\ launch' = [launch EXCEPT ![i] = Unlaunched]
    /\ UNCHANGED <<db, jobs, attempt, sent, call>>

\* Runtime preparation raises, or assertDispatchStillOwned does.
CheckOwned(i, prepared) ==
    /\ launch[i].pc = "starting"
    /\ launch' = [launch EXCEPT ![i].pc =
                     IF prepared /\ StillOwned(db, i) THEN "asserted"
                                                      ELSE "raised"]
    /\ UNCHANGED <<db, jobs, attempt, sent, call>>

\* runtime.dispatch resolves, or rejects whether or not the prompt got there.
Dispatch(i, reached, raised) ==
    /\ launch[i].pc = "asserted"
    /\ reached \/ raised
    /\ sent' = IF reached THEN sent \cup {i} ELSE sent
    /\ launch' = [launch EXCEPT ![i] = IF raised THEN [@ EXCEPT !.pc = "raised"]
                                                 ELSE Unlaunched]
    /\ UNCHANGED <<db, jobs, attempt, call>>

\* A seeded fault: a status the tables do not have.
FailRunAsErrorBug(i) ==
    /\ launch[i].pc = "raised"
    /\ db' = SetRun(db, i, "error")
    /\ launch' = [launch EXCEPT ![i].pc = "recording"]
    /\ UNCHANGED <<jobs, attempt, sent, call>>

FailRun(i) ==
    /\ launch[i].pc = "raised"
    /\ db' = IF db.run[i].st \in {"dispatched", "running"}
             THEN SetRun(db, i, "failed") ELSE db
    /\ launch' = [launch EXCEPT ![i].pc = "recording"]
    /\ UNCHANGED <<jobs, attempt, sent, call>>

\* The catch block finds the task by its link, if any task has it still.
RecordStartupFailure(i) ==
    LET linked == {t \in Tasks : db.task[t].active = i} IN
    /\ launch[i].pc = "recording"
    /\ launch' = [launch EXCEPT ![i] = Unlaunched]
    /\ \/ linked = {} /\ UNCHANGED db
       \/ \E t \in linked :
             db' = StartupFailureTx(db, t, i, launch[i].prior)
    /\ UNCHANGED <<jobs, attempt, sent, call>>

---------------------------------------------------------------------------
(* Callbacks.  The agent's key is authorised by a read of its own before    *)
(* the handler runs.                                                        *)
Authorise(c, i, op) ==
    /\ op \in Moves \cap {"start", "complete", "completion"}
    /\ call[c].pc = "idle"
    /\ i \in sent
    /\ InScope(db, i)
    /\ call' = [call EXCEPT ![c] =
          IF op = "complete" THEN [NoCall EXCEPT !.pc = op, !.run = i]
          ELSE [NoCall EXCEPT !.pc = "check", !.run = i, !.next = op]]
    /\ UNCHANGED <<db, jobs, attempt, launch, sent>>

Goto(c, pc) == call' = [call EXCEPT ![c].pc = pc]
Return(c)   == call' = [call EXCEPT ![c] = NoCall]
Proceed(c)  == call' = [call EXCEPT ![c] = [@ EXCEPT !.pc = call[c].next,
                                                     !.next = "none",
                                                     !.tie = NoTask]]

\* A heartbeat, progress or blocker check-in of a run that has its task is
\* one guarded UPDATE.  The runtimes send heartbeats too, unauthorised.
CheckIn(i) ==
    /\ i \in sent
    /\ db' = MarkRunning(db, i)
    /\ UNCHANGED <<jobs, attempt, launch, sent, call>>

\* A heartbeat that finds its run cut off from its task looks for a link.
Heartbeat(c, i) ==
    /\ call[c].pc = "idle"
    /\ i \in sent
    /\ db.run[i].task = NoTask
    /\ call' = [call EXCEPT ![c] = [NoCall EXCEPT !.pc = "lookup", !.run = i,
                                                  !.next = "note"]]
    /\ UNCHANGED <<db, jobs, attempt, launch, sent>>

\* resolveTaskIdForInstance, the beginning of every check-in: the run's task,
\* or else a task whose link names the run.
ResolveTask(c) ==
    /\ call[c].pc = "check"
    /\ IF db.run[call[c].run].task = NoTask THEN Goto(c, "lookup")
                                            ELSE Proceed(c)
    /\ UNCHANGED <<db, jobs, attempt, launch, sent>>

LookUpLink(c) ==
    LET linking == Linking(db, call[c].run) IN
    /\ call[c].pc = "lookup"
    /\ \/ linking = {} /\ Proceed(c)
       \/ \E t \in linking :
             call' = [call EXCEPT ![c] = [@ EXCEPT !.pc = "tie", !.tie = t]]
    /\ UNCHANGED <<db, jobs, attempt, launch, sent>>

\* attachInstanceToTask: two UPDATEs by id, the link's without a condition.
AttachRun(c) ==
    /\ call[c].pc = "tie"
    /\ db' = [db EXCEPT !.run[call[c].run].task = call[c].tie]
    /\ Goto(c, "link")
    /\ UNCHANGED <<jobs, attempt, launch, sent>>

AttachTask(c) ==
    /\ call[c].pc = "link"
    /\ db' = [db EXCEPT !.task[call[c].tie].active = call[c].run]
    /\ Proceed(c)
    /\ UNCHANGED <<jobs, attempt, launch, sent>>

\* What is left of a heartbeat.
Note(c) ==
    /\ call[c].pc = "note"
    /\ db' = MarkRunning(db, call[c].run)
    /\ Return(c)
    /\ UNCHANGED <<jobs, attempt, launch, sent>>

\* startRunInstance: the check-in, then the agent_started event.
Start(c) ==
    /\ call[c].pc = "start"
    /\ db' = MarkRunning(db, call[c].run)
    /\ Goto(c, "event")
    /\ UNCHANGED <<jobs, attempt, launch, sent>>

\* applyConfiguredStartEvent decides on one joined reading.
StartEventRead(c) ==
    LET i == call[c].run
        t == db.run[i].task
        to == StartEvent[db.task[t].status]
        after == IF to = db.task[t].status THEN "none" ELSE "move"
    IN  /\ call[c].pc = "event"
        /\ call' = [call EXCEPT ![c] =
              IF t = NoTask THEN NoCall
              ELSE IF db.task[t].active = NoRun /\ Live(db, i)
                   THEN [call[c] EXCEPT !.pc = "adopt", !.task = t,
                                        !.seen = to, !.owe = after]
              ELSE IF db.task[t].active = i /\ after = "move"
                   THEN [call[c] EXCEPT !.pc = "move", !.task = t, !.seen = to]
              ELSE NoCall]
        /\ UNCHANGED <<db, jobs, attempt, launch, sent>>

\* A seeded fault: the UPDATE without its "active_instance_id IS NULL".
AdoptUncheckedBug(c) ==
    LET p == call[c] IN
    /\ p.pc = "adopt"
    /\ db' = [db EXCEPT !.task[p.task].active = p.run]
    /\ IF p.owe = "move" THEN Goto(c, "move") ELSE Return(c)
    /\ UNCHANGED <<jobs, attempt, launch, sent>>

\* An unlinked task takes the live run back, if the link is still free.
Adopt(c) ==
    LET p == call[c]
        free == db.task[p.task].active = NoRun
    IN  /\ p.pc = "adopt"
        /\ db' = IF free THEN [db EXCEPT !.task[p.task].active = p.run] ELSE db
        /\ IF free /\ p.owe = "move" THEN Goto(c, "move") ELSE Return(c)
        /\ UNCHANGED <<jobs, attempt, launch, sent>>

MoveStarted(c) ==
    /\ call[c].pc = "move"
    /\ db' = SetStatus(db, call[c].task, call[c].seen)
    /\ Return(c)
    /\ UNCHANGED <<jobs, attempt, launch, sent>>

\* completeRunInstance reads the run and its task once.
CompleteRead(c, label) ==
    LET i == call[c].run
        r == db.run[i]
        missing == /\ label = "done"
                   /\ r.task # NoTask
                   /\ db.task[r.task].status \in NeedsOutcome
                   /\ ~r.outcome
    IN  /\ call[c].pc = "complete"
        /\ call' = [call EXCEPT ![c] =
              [NoCall EXCEPT !.pc = "close", !.run = i, !.task = r.task,
               !.seen = label,
               !.owe = IF missing THEN "handoff"
                       ELSE IF label = "failed" /\ r.task # NoTask
                            THEN "authority" ELSE "none"]]
        /\ UNCHANGED <<db, jobs, attempt, launch, sent>>

\* Its UPDATE names only the run's id, and starts the cleanup timer.
Close(c) ==
    LET p == call[c] IN
    /\ p.pc = "close"
    /\ db' = CloseRun(db, p.run, p.seen)
    /\ jobs' = jobs \cup ScheduleJobs(db', p.task, p.run)
    /\ call' = [call EXCEPT ![c].pc = "check", ![c].next = "rewrite"]
    /\ UNCHANGED <<attempt, launch, sent>>

\* A completion check-in posted by the agent itself, or by a runtime end,
\* carries no final status: recordRunCheckIn marks the run, then reads the
\* status it will write back.
CompletionRead(c) ==
    LET i == call[c].run IN
    /\ call[c].pc = "completion"
    /\ db' = MarkRunning(db, i)
    /\ call' = [call EXCEPT ![c].pc = "rewrite",
                            ![c].seen = db'.run[i].st]
    /\ UNCHANGED <<jobs, attempt, launch, sent>>

\* The completion check-in writes status = label, or the status read before.
\* What is owed next goes to the task of the snapshot (complete) or to the
\* run's task as it is now (runtime end, which has none in its record).
Rewrite(c) ==
    LET p == call[c]
        t == IF p.task = NoTask THEN db.run[p.run].task ELSE p.task
    IN  /\ p.pc = "rewrite"
        /\ db' = CloseRun(db, p.run, p.seen)
        /\ call' = [call EXCEPT ![c] =
              IF p.owe = "none" \/ t = NoTask THEN NoCall
              ELSE [p EXCEPT !.pc = p.owe, !.task = t, !.owe = "none"]]
        /\ UNCHANGED <<jobs, attempt, launch, sent>>

---------------------------------------------------------------------------
(* applyRuntimeEndToJobInstance, for a runtime that says its run is over.   *)
RuntimeEnd(c, i, success) ==
    LET r == db.run[i]
        requires == r.task # NoTask /\ db.task[r.task].status \in NeedsOutcome
        next == IF r.st \in LiveStates /\ ~r.outcome
                THEN IF success /\ ~requires THEN "done" ELSE "failed"
                ELSE r.st
    IN  /\ "end" \in Moves
        /\ call[c].pc = "idle"
        /\ i \in sent
        /\ call' = [call EXCEPT ![c] =
              [NoCall EXCEPT !.pc = "claim", !.run = i, !.task = r.task,
               !.seen = next,
               !.owe = IF r.outcome \/ (success /\ ~requires) THEN "none"
                       ELSE IF success THEN "handoff" ELSE "authority"]]
        /\ UNCHANGED <<db, jobs, attempt, launch, sent>>

\* A seeded fault: every report of an end is applied.
ClaimEndUnguardedBug(c) ==
    /\ call[c].pc = "claim"
    /\ db' = CloseRun(db, call[c].run, call[c].seen)
    /\ call' = [call EXCEPT ![c] = [@ EXCEPT !.pc = "check", !.task = NoTask,
                                             !.next = "completion"]]
    /\ UNCHANGED <<jobs, attempt, launch, sent>>

\* Only the first report of an end wins the run.
ClaimEnd(c) ==
    LET p == call[c] IN
    /\ p.pc = "claim"
    /\ IF Live(db, p.run) /\ ~db.run[p.run].ended
       THEN /\ db' = CloseRun(db, p.run, p.seen)
            /\ jobs' = jobs \cup ScheduleJobs(db', p.task, p.run)
            /\ call' = [call EXCEPT ![c] =
                  [@ EXCEPT !.pc = "check", !.task = NoTask,
                            !.next = "completion"]]
       ELSE /\ UNCHANGED <<db, jobs>>
            /\ Return(c)
    /\ UNCHANGED <<attempt, launch, sent>>

\* markTaskNeedsAttentionForMissingSemanticHandoff: read, map, then write.
Handoff(c) ==
    LET s == db.task[call[c].task].status IN
    /\ call[c].pc = "handoff"
    /\ IF MissingEvent[s] = s THEN Return(c)
       ELSE call' = [call EXCEPT ![c].pc = "flag", ![c].seen = MissingEvent[s]]
    /\ UNCHANGED <<db, jobs, attempt, launch, sent>>

Flag(c) ==
    /\ call[c].pc = "flag"
    /\ db' = SetStatus(db, call[c].task, call[c].seen)
    /\ Return(c)
    /\ UNCHANGED <<jobs, attempt, launch, sent>>

\* The reconciler's own search for ended runs without an outcome.
ReconcileMissing(c, t) ==
    LET i == db.task[t].active IN
    /\ "missing" \in Moves
    /\ call[c].pc = "idle"
    /\ i # NoRun /\ ~db.task[t].paused
    /\ db.task[t].status \in NeedsOutcome
    /\ db.run[i].ended /\ ~db.run[i].outcome /\ db.run[i].aged
    /\ call' = [call EXCEPT ![c] = [NoCall EXCEPT !.pc = "handoff",
                                                  !.run = i, !.task = t]]
    /\ UNCHANGED <<db, jobs, attempt, launch, sent>>

\* applyRuntimeFailedOutcome: authority and route are read outside the
\* transaction that then moves the task.
ReadAuthority(c) ==
    LET p == call[c]
        s == db.task[p.task].status
        allowed == /\ s \notin {"cancelled", "done"}
                   /\ Authoritative(db, p.task, p.run)
                   /\ FailureRoutes[s] # {}
    IN  /\ p.pc = "authority"
        /\ \/ ~allowed /\ Return(c)
           \/ allowed /\ \E to \in FailureRoutes[s] :
                 call' = [call EXCEPT ![c].pc = "commit", ![c].seen = to]
        /\ UNCHANGED <<db, jobs, attempt, launch, sent>>

CommitFailure(c) ==
    LET p == call[c] IN
    /\ p.pc = "commit"
    /\ db' = OutcomeTx(db, p.task, p.run, p.seen, "failed")
    /\ jobs' = jobs \cup OutcomeJobs(db, p.task, p.run, p.seen, "failed")
    /\ Return(c)
    /\ UNCHANGED <<attempt, launch, sent>>

\* The agent's semantic outcome: authority is re-read under the task's lock
\* in the same transaction, so the whole post is one step.
PostOutcome(i, t, to) ==
    /\ i \in sent
    /\ Joined(db, t, i)
    /\ db.task[t].status \notin {"cancelled", "done"}
    /\ to \in OutcomeRoutes[db.task[t].status]
    /\ db' = OutcomeTx(db, t, i, to, "done")
    /\ jobs' = jobs \cup OutcomeJobs(db, t, i, to, "done")
    /\ UNCHANGED <<attempt, launch, sent, call>>

---------------------------------------------------------------------------
(* Operators.                                                               *)

\* updateTaskRecord: the write takes its status from the request, or from a
\* reading of any age; either way it is some status.
Edit(t, s) ==
    LET moved == SetStatus(db, t, s) IN
    /\ "edit" \in Moves
    /\ db' = Cleanup(moved, t)
    /\ jobs' = jobs \cup CleanupJobs(moved, t)
    /\ UNCHANGED <<attempt, launch, sent, call>>

Pause(t) ==
    /\ "pause" \in Moves
    /\ ~db.task[t].paused
    /\ db.task[t].status \notin Terminal
    /\ db' = [db EXCEPT !.task[t].paused = TRUE]
    /\ UNCHANGED <<jobs, attempt, launch, sent, call>>

Unpause(t) ==
    /\ "pause" \in Moves
    /\ db.task[t].paused
    /\ db' = [db EXCEPT !.task[t].paused = FALSE]
    /\ UNCHANGED <<jobs, attempt, launch, sent, call>>

CancelTask(t) ==
    /\ "cancel" \in Moves
    /\ db' = CancelTx(db, t)
    /\ jobs' = jobs \cup CancelJobs(db, t)
    /\ UNCHANGED <<attempt, launch, sent, call>>

\* stopInstanceExecution: the run is read, revoked, aborted, confirmed.
Stop(c, i, behavior) ==
    /\ "stop" \in Moves
    /\ call[c].pc = "idle"
    /\ Present(db, i) /\ db.run[i].st \notin {"done", "failed"}
    /\ call' = [call EXCEPT ![c] = [NoCall EXCEPT !.pc = "revoke", !.run = i,
                                                  !.seen = behavior]]
    /\ UNCHANGED <<db, jobs, attempt, launch, sent>>

Revoke(c) ==
    /\ call[c].pc = "revoke"
    /\ db' = StopTx(db, call[c].run, call[c].seen)
    /\ Goto(c, "confirm")
    /\ UNCHANGED <<jobs, attempt, launch, sent>>

Confirm(c, confirmed) ==
    LET i == call[c].run IN
    /\ call[c].pc = "confirm"
    /\ db' = IF confirmed THEN CloseRun(db, i, "failed")
                          ELSE SetRun(db, i, "failed")
    /\ Return(c)
    /\ UNCHANGED <<jobs, attempt, launch, sent>>

\* stopTaskActiveInstance on a task whose linked run is dead or foreign.
ClearDeadLink(t) ==
    LET i == db.task[t].active IN
    /\ "clear" \in Moves
    /\ i # NoRun
    /\ ~(db.run[i].task = t /\ Live(db, i))
    /\ db' = Detach(db, t, i)
    /\ UNCHANGED <<jobs, attempt, launch, sent, call>>

---------------------------------------------------------------------------
(* The background: watchdog, reconciler sweep, timers, time, restarts.      *)

\* A seeded fault: runs that never left the queue are not timed out.
ExpireLaunchedOnlyBug(i) ==
    /\ db.run[i].st \in {"dispatched", "running"}
    /\ db' = CloseRun(db, i, "failed")
    /\ jobs' = IF db.run[i].task = NoTask THEN jobs
               ELSE jobs \cup {UnlinkJob(db.run[i].task, i)}
    /\ UNCHANGED <<attempt, launch, sent, call>>

\* failStuckInstance: expire under the run's lock; abort and unlink follow.
Expire(i) ==
    /\ Live(db, i)
    /\ db' = CloseRun(db, i, "failed")
    /\ jobs' = IF db.run[i].task = NoTask THEN jobs
               ELSE jobs \cup {UnlinkJob(db.run[i].task, i)}
    /\ UNCHANGED <<attempt, launch, sent, call>>

\* cleanupImpossibleTaskLifecycleStates, one selected task.
Sweep(t) ==
    LET i == db.task[t].active IN
    /\ i # NoRun
    /\ db.run[i].task = t => ~Live(db, i) \/ Anchored(db, i)
    /\ db' = Cleanup(db, t)
    /\ jobs' = jobs \cup CleanupJobs(db, t)
    /\ UNCHANGED <<attempt, launch, sent, call>>

\* A cleanup timer fires once the grace is over.
FireCleanup(j) ==
    LET mine == db.task[j.task].active = j.run IN
    /\ j.job = "cleanup"
    /\ db.run[j.run].aged
    /\ db' = IF mine THEN Cleanup(db, j.task) ELSE db
    /\ jobs' = (jobs \ {j}) \cup
               IF mine THEN CleanupJobs(db, j.task) ELSE {}
    /\ UNCHANGED <<attempt, launch, sent, call>>

\* abortOrphanedInstanceAsync: fence the run, abort it, note a confirmed end.
FireAbort(j, confirmed) ==
    LET i == j.run
        fenced == IF Live(db, i) THEN SetRun(db, i, "cancelled") ELSE db
    IN  /\ j.job = "abort"
        /\ db' = IF confirmed THEN [fenced EXCEPT !.run[i].ended = TRUE]
                              ELSE fenced
        /\ jobs' = jobs \ {j}
        /\ UNCHANGED <<attempt, launch, sent, call>>

FireUnlink(j) ==
    /\ j.job = "unlink"
    /\ db' = Detach(db, j.task, j.run)
    /\ jobs' = jobs \ {j}
    /\ UNCHANGED <<attempt, launch, sent, call>>

GraceElapses(i) ==
    /\ Anchored(db, i) /\ ~db.run[i].aged
    /\ db' = [db EXCEPT !.run[i].aged = TRUE]
    /\ UNCHANGED <<jobs, attempt, launch, sent, call>>

BackoffElapses(t) ==
    /\ db.task[t].cooling
    /\ db' = [db EXCEPT !.task[t].cooling = FALSE]
    /\ UNCHANGED <<jobs, attempt, launch, sent, call>>

\* The API process dies: tables and agents survive, everything else is lost.
Crash ==
    /\ "crash" \in Moves
    /\ jobs' = {}
    /\ attempt' = [w \in Dispatchers |-> Resting]
    /\ launch' = [i \in Runs |-> Unlaunched]
    /\ call' = [c \in Calls |-> NoCall]
    /\ UNCHANGED <<db, sent>>

---------------------------------------------------------------------------
DispatcherStep(w) ==
    \/ \E t \in Tasks, a \in Agents : List(w, t, a)
    \/ \E i \in Runs : Claim(w, i)
    \/ ClaimRefused(w) \/ PrepFail(w) \/ Recheck(w) \/ MarkDispatched(w)
    \/ Launch(w) \/ PromptFail(w) \/ Unwind(w)

LaunchStep(i) ==
    \/ LaunchLost(i) \/ FailRun(i) \/ RecordStartupFailure(i)
    \/ \E prepared \in BOOLEAN : CheckOwned(i, prepared)
    \/ \E reached, raised \in BOOLEAN : Dispatch(i, reached, raised)

CallStep(c) ==
    \/ \E i \in Runs : \E op \in {"start", "complete", "completion"} :
          Authorise(c, i, op)
    \/ \E i \in Runs : Heartbeat(c, i)
    \/ ResolveTask(c) \/ LookUpLink(c) \/ AttachRun(c) \/ AttachTask(c)
    \/ Note(c)
    \/ Start(c) \/ StartEventRead(c) \/ Adopt(c) \/ MoveStarted(c)
    \/ \E label \in {"done", "failed"} : CompleteRead(c, label)
    \/ Close(c) \/ CompletionRead(c) \/ Rewrite(c)
    \/ \E i \in Runs, success \in BOOLEAN : RuntimeEnd(c, i, success)
    \/ ClaimEnd(c) \/ Handoff(c) \/ Flag(c)
    \/ \E t \in Tasks : ReconcileMissing(c, t)
    \/ ReadAuthority(c) \/ CommitFailure(c)
    \/ \E i \in Runs, behavior \in StopBehaviors : Stop(c, i, behavior)
    \/ Revoke(c)
    \/ \E confirmed \in BOOLEAN : Confirm(c, confirmed)

TaskStep(t) ==
    \/ \E s \in Statuses : Edit(t, s)
    \/ Pause(t) \/ Unpause(t) \/ CancelTask(t) \/ ClearDeadLink(t)
    \/ Sweep(t) \/ BackoffElapses(t)

RunStep(i) ==
    \/ CheckIn(i) \/ Expire(i) \/ GraceElapses(i)
    \/ \E t \in Tasks, to \in Statuses : PostOutcome(i, t, to)

JobStep(j) ==
    \/ FireCleanup(j) \/ FireUnlink(j)
    \/ \E confirmed \in BOOLEAN : FireAbort(j, confirmed)

Next ==
    \/ \E w \in Dispatchers : DispatcherStep(w)
    \/ \E i \in Runs : LaunchStep(i) \/ RunStep(i)
    \/ \E c \in Calls : CallStep(c)
    \/ \E t \in Tasks : TaskStep(t)
    \/ \E j \in jobs : JobStep(j)
    \/ Crash

Spec == Init /\ [][Next]_vars

\* The reconciler ticks every twelve seconds and the watchdog scans on its own
\* interval; both re-select their candidates from the tables each time, and
\* the timeouts they compare with the clock do pass.
Fairness ==
    /\ \A t \in Tasks : WF_vars(Sweep(t))
    /\ \A i \in Runs : WF_vars(Expire(i)) /\ WF_vars(GraceElapses(i))

FairSpec == Spec /\ Fairness

---------------------------------------------------------------------------
(* Safety.                                                                  *)

\* A task's link names a run of that very task: however claims, stops,
\* adoptions and failures interleave, no task ever points at another's run.
LinkNamesOwnRun ==
    \A t \in Tasks, i \in Runs :
        db.task[t].active = i => db.run[i].task = t

\* A live run owns the task it was claimed for.  So the statuses the watchdog
\* and the capacity checks read and the link the callbacks are authorised by
\* never tell two stories, whichever path took the task away.
LiveRunOwnsItsTask ==
    \A i \in Runs : Live(db, i) =>
        /\ db.run[i].task \in Tasks
        /\ db.task[db.run[i].task].active = i

\* "Reserve task ownership and agent capacity together": no agent ever has
\* two live runs, with any number of dispatchers listing and claiming at once.
AgentCapacity ==
    \A i, j \in Runs :
        Live(db, i) /\ Live(db, j) /\ db.run[i].agent = db.run[j].agent
            => i = j

\* Nothing is live once its end or its outcome is on record: an accepted
\* outcome, a completion and an expiry all close the run they report on,
\* and no late statement reopens it.
EndedRunIsOver == \A i \in Runs : Anchored(db, i) => ~Live(db, i)

\* With agents that check in "completion" themselves it may fail, and only so:
\* the statement that leaves a run live beside its end is the second one of
\* that check-in, writing back the status it read before.
OnlyCheckInUndoes ==
    [][\A i \in Runs :
          Anchored(db', i) /\ Live(db', i) =>
              \/ Anchored(db, i) /\ Live(db, i)
              \/ \E c \in Calls :
                    /\ call[c].pc = "rewrite" /\ call'[c].pc # "rewrite"
                    /\ call[c].run = i /\ call[c].seen = db'.run[i].st]_vars

\* A run's prompt reaches a runtime at most once: when it has, no dispatcher
\* still holds the run and no launch of it can reach runtime.dispatch again.
LaunchedOnce ==
    \A i \in sent :
        /\ launch[i].pc \notin {"starting", "asserted"}
        /\ \A w \in Dispatchers : attempt[w].run # i

\* The stage a handler is in, or goes on with after its check-in's beginning.
Stage(p) == IF p.pc \in {"check", "lookup", "tie", "link"} THEN p.next ELSE p.pc

\* Two reports of the same runtime end never both follow it up, in check-in
\* or failure outcome; the reconciler's search may still flag the task beside
\* one of them.
FollowUps == {"completion", "rewrite", "handoff", "flag", "authority", "commit"}
EndHandledOnce ==
    \A c, d \in Calls :
        c # d /\ {Stage(call[c]), Stage(call[d])}
                    \subseteq FollowUps \ {"handoff", "flag"}
            => call[c].run # call[d].run

\* No step hands a task straight from one run to another: it is let go first,
\* so a delayed adoption or claim never takes a task that was given away.
\* Proved unless runs are stopped and agents check in "completion" too
\* (RunPromises_proofs).
NoSteal ==
    [][\A t \in Tasks : db.task[t].active # NoRun =>
           db'.task[t].active \in {db.task[t].active, NoRun}]_vars

\* With stops and agents that check in "completion" it may fail, and only so:
\* the thief is a check-in of a run that was cut off from its task and linked
\* again, writing back the link it found before.
OnlyAttachSteals ==
    [][\A t \in Tasks : db.task[t].active # NoRun =>
           \/ db'.task[t].active \in {db.task[t].active, NoRun}
           \/ \E c \in Calls :
                 /\ call[c].pc = "link" /\ call'[c].pc # "link"
                 /\ call[c].tie = t /\ call[c].run = db'.task[t].active]_vars

---------------------------------------------------------------------------
(* The inductive invariant behind these properties, for API processes that  *)
(* get no completion check-in from an agent (RunLifecycle_proofs).          *)

\* A linked run exists.
LinkedRunPresent ==
    \A t \in Tasks, i \in Runs : db.task[t].active = i => Present(db, i)

\* A dispatcher that holds a run is the only one to, and nobody else has
\* launched it or marked it running.
AttemptsHoldTheirRun ==
    \A w \in Dispatchers :
        LET p == attempt[w] IN
        /\ p.pc # "idle" => p.task \in Tasks /\ p.agent \in Agents
        /\ p.pc \in {"idle", "listed"} <=> p.run = NoRun
        /\ p.run # NoRun =>
              /\ p.run \notin sent
              /\ launch[p.run].pc = "none"
              /\ db.run[p.run].st \notin {"absent", "running"}
              /\ \A v \in Dispatchers : attempt[v].run = p.run => v = w
        /\ p.pc = "marked" => db.run[p.run].st # "queued"

\* A launch follows the mark, ends at runtime.dispatch, and records a failure
\* only of a run it has failed.
LaunchesFollowTheMark ==
    \A i \in Runs :
        /\ launch[i].pc # "none" => db.run[i].st \notin {"absent", "queued"}
        /\ launch[i].pc \in {"starting", "asserted"} => i \notin sent
        /\ launch[i].pc = "recording" => ~Live(db, i)
        /\ i \in sent => Present(db, i)

\* What a handler carries from its readings: it closes runs with final states
\* only, moves tasks to statuses only, starts only runs that were sent, and
\* follows up only on runs that are over.
CallsCarryTheirReadings ==
    \A c \in Calls :
        LET p == call[c] IN
        /\ p.pc \notin {"adopt", "tie", "link"}
        /\ p.pc # "idle" => p.run \in Runs /\ Present(db, p.run)
        /\ p.pc = "lookup" => Linking(db, p.run) = {}
        /\ p.pc \in {"check", "lookup"} <=> p.next # "none"
        /\ Stage(p) \in {"start", "note", "event"} => p.run \in sent
        /\ Stage(p) \in {"close", "claim", "rewrite"} =>
              p.seen \in {"done", "failed", "cancelled"}
        /\ Stage(p) \in {"close", "claim", "completion", "rewrite"} =>
              p.owe \in {"none", "handoff", "authority"}
        /\ Stage(p) \in FollowUps => ~Live(db, p.run)
        /\ p.pc \in {"move", "handoff", "flag", "authority", "commit"} =>
              p.task \in Tasks
        /\ p.pc \in {"move", "flag", "commit"} => p.seen \in Statuses
        /\ p.pc = "revoke" => p.seen \in StopBehaviors

\* Timers name a task, and an expiry's tail names a run that is over.
JobsNameTheirTask ==
    \A j \in jobs :
        /\ j.job # "abort" => j.task \in Tasks
        /\ j.job = "unlink" => Present(db, j.run) /\ ~Live(db, j.run)

Consistent ==
    /\ TypeOK
    /\ LinkNamesOwnRun /\ LinkedRunPresent
    /\ LiveRunOwnsItsTask /\ AgentCapacity /\ EndedRunIsOver
    /\ AttemptsHoldTheirRun
    /\ LaunchesFollowTheMark
    /\ CallsCarryTheirReadings
    /\ JobsNameTheirTask

---------------------------------------------------------------------------
(* Refinement: this module implements RunOwnership.                         *)
PhaseOf(r) == IF r.st = "absent" THEN "new"
              ELSE IF r.st \in LiveStates THEN "live" ELSE "over"

Ownership == INSTANCE RunOwnership WITH
    owner  <- [t \in Tasks |-> db.task[t].active],
    worker <- [i \in Runs |-> db.run[i].agent],
    phase  <- [i \in Runs |-> PhaseOf(db.run[i])]

\* Every behaviour of the code is one of the abstract ownership protocol.
ImplementsOwnership == Ownership!Spec

---------------------------------------------------------------------------
(* Liveness.                                                                *)

\* Whatever a crash or a lost launch leaves behind, every claimed run is
\* over some day, so neither its agent nor its task stays blocked.
RunEventuallyOver == \A i \in Runs : Live(db, i) ~> ~Live(db, i)

\* A task linked to a run that is over is eventually let go, even when the
\* timer or the watchdog tail that should have done it died with the process.
DeadLinkReleased ==
    \A t \in Tasks, i \in Runs :
        db.task[t].active = i /\ ~Live(db, i) ~> db.task[t].active # i

---------------------------------------------------------------------------
(* What comments in the code say, and its interleavings do not keep.        *)

\* "Fence callbacks immediately" (explicit cancellation): a cancelled run
\* keeps that status whatever callbacks are still on their way.
CancelledRunStaysFenced ==
    [][\A i \in Runs : db.run[i].st = "cancelled" =>
                        db'.run[i].st = "cancelled"]_vars

\* "Only a configured workflow event mapping moves the task; otherwise it stays
\* where it was": with no mapping configured, recording a startup failure
\* leaves the task's status alone.
StartupFailureKeepsStatus ==
    [][\A i \in Runs : RecordStartupFailure(i) =>
           \A t \in Tasks : db'.task[t].status = db.task[t].status]_vars

\* "It still applies when the dead run was the task's latest and nothing has
\* run since": a runtime_failed commit finds its run still authoritative.
FailureAppliesToLatest ==
    [][\A c \in Calls : CommitFailure(c) =>
           Authoritative(db, call[c].task, call[c].run)]_vars
=============================================================================
