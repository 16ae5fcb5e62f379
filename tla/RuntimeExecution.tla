-------------------------- MODULE RuntimeExecution -------------------------
(* Local agent processes and their two records: runtime_executions, what is *)
(* known of the process, and job_instances, what is known of the run.  A    *)
(* launch spawns a process tree, records it, sends the prompt and watches;  *)
(* stops and closings abort it; the reconciler adopts, kills or buries what *)
(* a restarted API finds.  Calls that are not awaited form one step with    *)
(* the probe before them; everything awaited may be overtaken.              *)
EXTENDS Naturals

CONSTANTS
    Instances,   \* job_instances
    Launches,    \* calls of runtime.dispatch
    Pids,        \* process ids, reused once free
    Ticks,       \* ticks of the reconciler that may overlap
    Nobody,      \* no process, no id
    MaxMishaps,  \* bound: restarts of the API and failed database calls
    Tardy        \* which of AllTardy the timing does not rule out

\* "monitor": a monitor still busy when the tick that confirms a loss reads;
\* "pid": a process id given out again between the end of its group and the
\* last signal that those who still hold it may send.
AllTardy == {"monitor", "pid"}

ASSUME InstancesAssumption == Instances # {}
ASSUME LaunchesAssumption == Nobody \notin Launches
ASSUME PidsAssumption == Nobody \notin Pids
ASSUME MishapsAssumption == MaxMishaps \in Nat
ASSUME TardyAssumption == Tardy \subseteq AllTardy

VARIABLES
    instanceOf, \* instanceOf[l]: the run launch l is for
    os,         \* os[p]: whose process has id p, whose descendants its group
    exec,       \* exec[i]: row of runtime_executions, if any
    job,        \* job[i]: row of job_instances
    mon,        \* mon[l]: dispatch and monitorRun of launch l, in memory
    stop,       \* stop[i]: the abort under way for run i, in memory
    rec,        \* rec[t]: the row tick t works on, in memory
    missing,    \* firstMissingAt, in memory
    prompted,   \* launches whose prompt was written
    bystanders, \* launches hit by a signal meant for another
    mishaps

vars == <<instanceOf, os, exec, job, mon, stop, rec, missing, prompted,
          bystanders, mishaps>>

---------------------------------------------------------------------------
Active   == {"running", "interrupting"}
Terminal == {"succeeded", "failed", "cancelled", "lost"}
Owners   == Launches \cup {Nobody}

NoRow  == [state |-> "none", launch |-> Nobody]
NewJob == [st |-> "live", ended |-> FALSE, success |-> "unset",
           source |-> "none"]
Rested == [pc |-> "done", manual |-> FALSE, ok |-> FALSE]
NoWork == [pc |-> "idle", i |-> CHOOSE i \in Instances : TRUE,
           state |-> "none", job |-> NewJob, waited |-> FALSE]
Unlaunched == [pc |-> "none", pid |-> Nobody, aborted |-> FALSE,
               timer |-> "off", result |-> "none"]

Rows  == [state : {"none"} \cup Active \cup Terminal, launch : Owners]
Jobs  == [st : {"live", "done", "failed", "cancelled"}, ended : BOOLEAN,
          success : {"unset", "yes", "no"},
          source : {"none", "self", "stop", "reconciler"}]
Monitors == [pc : {"none", "spawned", "refused", "tearing", "thrown",
                   "started", "watching", "cleaning", "report", "apply",
                   "over"},
             pid : Pids \cup {Nobody}, aborted : BOOLEAN,
             timer : {"off", "set", "fired"},
             result : {"none"} \cup Terminal]
Aborts == [pc : {"none", "abort", "signal", "durable", "killing", "confirm",
                 "done"},
           manual : BOOLEAN, ok : BOOLEAN]
Works == [pc : {"idle", "active", "buried", "stopActive", "stopBuried",
                "converge", "lose", "reread", "mark", "bury", "project",
                "repair", "fill"},
          i : Instances, state : {"none"} \cup Active \cup Terminal,
          job : Jobs, waited : BOOLEAN]

TypeOK ==
    /\ instanceOf \in [Launches -> Instances]
    /\ os \in [Pids -> [leader : Owners, others : Owners]]
    /\ exec \in [Instances -> Rows]
    /\ job \in [Instances -> Jobs]
    /\ mon \in [Launches -> Monitors]
    /\ stop \in [Instances -> Aborts]
    /\ rec \in [Ticks -> Works]
    /\ missing \subseteq Instances
    /\ prompted \subseteq Launches
    /\ bystanders \subseteq Launches
    /\ mishaps \in 0 .. MaxMishaps

Init ==
    /\ instanceOf \in [Launches -> Instances]
    /\ os = [p \in Pids |-> [leader |-> Nobody, others |-> Nobody]]
    /\ exec = [i \in Instances |-> NoRow]
    /\ job = [i \in Instances |-> NewJob]
    /\ mon = [l \in Launches |-> Unlaunched]
    /\ stop = [i \in Instances |->
                  [pc |-> "none", manual |-> FALSE, ok |-> FALSE]]
    /\ rec = [t \in Ticks |-> NoWork]
    /\ missing = {}
    /\ prompted = {}
    /\ bystanders = {}
    /\ mishaps = 0

\* What is left of a launch that is over: the id in its handle.
Finished(m) == [Unlaunched EXCEPT !.pid = m.pid, !.pc = "over"]

---------------------------------------------------------------------------
(* Processes                                                                *)

\* kill(-pgid, 0): a launched process leads the group that bears its id.
GroupExists(p) == os[p].leader # Nobody \/ os[p].others # Nobody

Alive(l) == \E p \in Pids : os[p].leader = l
TreeGone(l) == \A p \in Pids : os[p].leader # l /\ os[p].others # l

\* The handle of a row names the id and the birth of the launch it is of.
Pid(i) == mon[exec[i].launch].pid
Verified(i) == os[Pid(i)].leader = exec[i].launch

\* SIGKILL to the group of p on behalf of launch l.
Kill(p, l) ==
    /\ os' = [os EXCEPT ![p] = [leader |-> Nobody, others |-> Nobody]]
    /\ bystanders' = bystanders
          \cup ({os[p].leader, os[p].others} \ {l, Nobody})

\* Ids that are not given out: those in use and, unless "pid" is tardy, those
\* that a monitor, a stop or a tick may still signal.  A monitor may until the
\* cleanup after its child's end has reported: nothing but time keeps an id
\* from being reused once the leader is reaped and its group empty.
Held(p) ==
    \/ GroupExists(p)
    \/ /\ "pid" \notin Tardy
       /\ \/ \E l \in Launches : /\ mon[l].pid = p
                                /\ mon[l].pc \notin {"none", "over"}
          \/ \E t \in Ticks : /\ rec[t].pc \in {"stopActive", "stopBuried"}
                            /\ Pid(rec[t].i) = p
          \/ \E i \in Instances : stop[i].pc = "killing" /\ Pid(i) = p

Fork(p) ==
    /\ os[p].leader # Nobody
    /\ os[p].others = Nobody
    /\ os' = [os EXCEPT ![p].others = os[p].leader]
    /\ UNCHANGED <<instanceOf, exec, job, mon, stop, rec, missing, prompted,
                   bystanders, mishaps>>

LeaderExits(p) ==
    /\ os[p].leader # Nobody
    /\ os' = [os EXCEPT ![p].leader = Nobody]
    /\ UNCHANGED <<instanceOf, exec, job, mon, stop, rec, missing, prompted,
                   bystanders, mishaps>>

OthersExit(p) ==
    /\ os[p].others # Nobody
    /\ os' = [os EXCEPT ![p].others = Nobody]
    /\ UNCHANGED <<instanceOf, exec, job, mon, stop, rec, missing, prompted,
                   bystanders, mishaps>>

---------------------------------------------------------------------------
(* The two rows                                                             *)

RunLive(i) == job[i].st = "live"

\* A seeded fault: the guard on the state is dropped.
TerminateAlwaysBug(i, s) ==
    exec' = IF exec[i].state = "none" THEN exec
            ELSE [exec EXCEPT ![i].state = s]

\* terminalRuntimeExecution: only a row that is not terminal.
Terminate(i, s) ==
    exec' = IF exec[i].state \in Active THEN [exec EXCEPT ![i].state = s]
            ELSE exec

\* The columns of runtime_ended_at and its company, COALESCE by COALESCE.
Ended(j, st, success, source) ==
    [st |-> st, ended |-> TRUE,
     success |-> IF j.success = "unset" THEN success ELSE j.success,
     source |-> source]

\* The claim of applyRuntimeEndToJobInstance.
EndClaimed(i) == RunLive(i) /\ ~job[i].ended
\* A success that owes a semantic outcome fails the run all the same.
ApplyEnd(i, success, source) ==
    \E st \in {"failed"} \cup (IF success = "yes" THEN {"done"} ELSE {}) :
        job' = IF EndClaimed(i)
               THEN [job EXCEPT ![i] = Ended(@, st, success, source)]
               ELSE job

\* projectedExecutionState, of a row of job_instances as it was read.
Projected(j) ==
    IF j.st = "cancelled" THEN "cancelled"
    ELSE IF j.success = "yes" \/ (j.success = "unset" /\ j.st = "done")
    THEN "succeeded" ELSE "failed"

---------------------------------------------------------------------------
(* CodexRuntime.dispatch                                                    *)

\* spawn and register.  The supervisor knows a run by its instance and
\* refuses a second child while the first is registered.
Registered(l) == mon[l].pc \in {"spawned", "tearing", "started", "watching"}
Spawn(l, p) ==
    LET twin == \E m \in Launches \ {l} :
                    /\ instanceOf[m] = instanceOf[l]
                    /\ Registered(m)
    IN  /\ mon[l].pc = "none"
        /\ ~Held(p)
        /\ os' = [os EXCEPT ![p] = [leader |-> l, others |-> Nobody]]
        /\ mon' = [mon EXCEPT ![l].pid = p, ![l].pc =
                      IF twin THEN "refused" ELSE "spawned"]
        /\ UNCHANGED <<instanceOf, exec, job, stop, rec, missing, prompted,
                       bystanders, mishaps>>

\* A seeded fault: a conflicting claim takes the row over.
PersistStartReplacesBug(l) ==
    /\ mon[l].pc = "spawned"
    /\ exec' = [exec EXCEPT ![instanceOf[l]] =
                   [state |-> "running", launch |-> l]]
    /\ mon' = [mon EXCEPT ![l].pc = "started"]
    /\ UNCHANGED <<instanceOf, os, job, stop, rec, missing, prompted,
                   bystanders, mishaps>>

\* upsertRuntimeExecutionStart: a row is claimed once.
PersistStart(l) ==
    LET i == instanceOf[l]
        free == exec[i].state = "none"
    IN  /\ mon[l].pc = "spawned"
        /\ exec' = IF ~free THEN exec
                   ELSE [exec EXCEPT ![i] =
                            [state |-> "running", launch |-> l]]
        /\ mon' = [mon EXCEPT ![l].pc = IF free THEN "started" ELSE "refused"]
        /\ UNCHANGED <<instanceOf, os, job, stop, rec, missing, prompted,
                       bystanders, mishaps>>

\* The claim fails, or commits and its answer is lost.
PersistStartFails(l) ==
    LET i == instanceOf[l] IN
    /\ mon[l].pc = "spawned"
    /\ mishaps < MaxMishaps
    /\ mishaps' = mishaps + 1
    /\ exec' \in {exec,
                  IF exec[i].state = "none"
                  THEN [exec EXCEPT ![i] = [state |-> "running", launch |-> l]]
                  ELSE exec}
    /\ mon' = [mon EXCEPT ![l].pc = "refused"]
    /\ UNCHANGED <<instanceOf, os, job, stop, rec, missing, prompted,
                   bystanders>>

\* The catch block: SIGTERM, the deferred kill handed to the cleanup, ...
TearDown(l) ==
    /\ mon[l].pc = "refused"
    /\ mon' = [mon EXCEPT ![l].timer = "off", ![l].pc =
                  IF GroupExists(mon[l].pid) THEN "tearing" ELSE "thrown"]
    /\ UNCHANGED <<instanceOf, os, exec, job, stop, rec, missing, prompted,
                   bystanders, mishaps>>

\* ... a wait, and SIGKILL to what is left of the group.
TearKill(l) ==
    LET p == mon[l].pid IN
    /\ mon[l].pc = "tearing"
    /\ IF GroupExists(p) THEN Kill(p, l) ELSE UNCHANGED <<os, bystanders>>
    /\ mon' = [mon EXCEPT ![l].pc = "thrown"]
    /\ UNCHANGED <<instanceOf, exec, job, stop, rec, missing, prompted,
                   mishaps>>

\* fireAgentRun's catch of what dispatch throws.
FailRun(l) ==
    /\ mon[l].pc = "thrown"
    /\ job' = [job EXCEPT ![instanceOf[l]].st = "failed"]
    /\ mon' = [mon EXCEPT ![l] = Finished(@)]
    /\ UNCHANGED <<instanceOf, os, exec, stop, rec, missing, prompted,
                   bystanders, mishaps>>

\* The prompt goes out last, with the monitor in place.
Deliver(l) ==
    /\ mon[l].pc = "started"
    /\ prompted' = prompted \cup {l}
    /\ mon' = [mon EXCEPT ![l].pc = "watching"]
    /\ UNCHANGED <<instanceOf, os, exec, job, stop, rec, missing, bystanders,
                   mishaps>>

\* The stream fails: terminate, and dispatch throws with the monitor in place.
DeliverFails(l) ==
    /\ mon[l].pc = "started"
    /\ mon' = [mon EXCEPT ![l].pc = "watching", ![l].timer = "set"]
    /\ job' = [job EXCEPT ![instanceOf[l]].st = "failed"]
    /\ UNCHANGED <<instanceOf, os, exec, stop, rec, missing, prompted,
                   bystanders, mishaps>>

---------------------------------------------------------------------------
(* monitorRun and the supervisor                                            *)

\* Timeout, or a thread id that could not be stored: SIGTERM, and a deferred
\* SIGKILL for the group.
TimeOut(l) ==
    /\ mon[l].pc = "watching"
    /\ mon[l].timer = "off"
    /\ mon' = [mon EXCEPT ![l].timer = "set"]
    /\ UNCHANGED <<instanceOf, os, exec, job, stop, rec, missing, prompted,
                   bystanders, mishaps>>

\* The deferred SIGKILL goes to the group, whoever leads it.
FireTimer(l) ==
    LET p == mon[l].pid IN
    /\ mon[l].timer = "set"
    /\ mon' = [mon EXCEPT ![l].timer = "fired"]
    /\ IF GroupExists(p) THEN Kill(p, l) ELSE UNCHANGED <<os, bystanders>>
    /\ UNCHANGED <<instanceOf, exec, job, stop, rec, missing, prompted,
                   mishaps>>

\* A seeded fault: the leader's exit stands for the exit of its tree.
CloseLeaderOnlyBug(l) ==
    /\ mon[l].pc = "watching"
    /\ os[mon[l].pid].leader # l
    /\ mon' = [mon EXCEPT ![l].timer = "off", ![l].pc = "report"]
    /\ UNCHANGED <<instanceOf, os, exec, job, stop, rec, missing, prompted,
                   bystanders, mishaps>>

\* The close event: unregister, take over from the deferred kill, and clean
\* up what is left of the group.
Close(l) ==
    LET p == mon[l].pid IN
    /\ mon[l].pc = "watching"
    /\ os[p].leader # l
    /\ mon' = [mon EXCEPT ![l].timer = "off", ![l].pc =
                  IF GroupExists(p) THEN "cleaning" ELSE "report"]
    /\ UNCHANGED <<instanceOf, os, exec, job, stop, rec, missing, prompted,
                   bystanders, mishaps>>

\* cleanupOwnedProcessTree after its wait.  A tree that stays observable is
\* left alone: nothing is reported.
CleanUp(l) ==
    LET p == mon[l].pid IN
    /\ mon[l].pc = "cleaning"
    /\ \/ /\ ~GroupExists(p)
          /\ mon' = [mon EXCEPT ![l].pc = "report"]
          /\ UNCHANGED <<os, bystanders>>
       \/ /\ GroupExists(p)
          /\ Kill(p, l)
          /\ mon' = [mon EXCEPT ![l].pc = "report"]
       \/ /\ GroupExists(p)
          /\ mon' = [mon EXCEPT ![l] = Finished(@)]
          /\ UNCHANGED <<os, bystanders>>
    /\ UNCHANGED <<instanceOf, exec, job, stop, rec, missing, prompted,
                   mishaps>>

\* A seeded fault: the supervisor's word for an abort is stored as it is.
ReportRawBug(l) ==
    /\ mon[l].pc = "report"
    /\ \E result \in IF mon[l].aborted THEN {"aborted"}
                     ELSE {"succeeded", "failed"} :
          /\ mon' = [mon EXCEPT ![l].pc = "apply", ![l].result = result]
          /\ Terminate(instanceOf[l], result)
    /\ UNCHANGED <<instanceOf, os, job, stop, rec, missing, prompted,
                   bystanders, mishaps>>

\* handleRuntimeEnd, its first half: errors are swallowed.
Report(l) ==
    /\ mon[l].pc = "report"
    /\ \E result \in IF mon[l].aborted THEN {"cancelled"}
                     ELSE {"succeeded", "failed"} :
          /\ mon' = [mon EXCEPT ![l].pc = "apply", ![l].result = result]
          /\ \/ Terminate(instanceOf[l], result) /\ UNCHANGED mishaps
             \/ /\ mishaps < MaxMishaps
                /\ mishaps' = mishaps + 1
                /\ UNCHANGED exec
    /\ UNCHANGED <<instanceOf, os, job, stop, rec, missing, prompted,
                   bystanders>>

\* Its second half.
Apply(l) ==
    LET success == IF mon[l].result = "succeeded" THEN "yes" ELSE "no" IN
    /\ mon[l].pc = "apply"
    /\ mon' = [mon EXCEPT ![l] = Finished(@)]
    /\ \/ ApplyEnd(instanceOf[l], success, "self") /\ UNCHANGED mishaps
       \/ /\ mishaps < MaxMishaps
          /\ mishaps' = mishaps + 1
          /\ UNCHANGED job
    /\ UNCHANGED <<instanceOf, os, exec, stop, rec, missing, prompted,
                   bystanders>>

---------------------------------------------------------------------------
(* Closings, stops and abortInstanceExecutionTransport                      *)

\* The agent's outcome or its completion closes the run while it still
\* works, and aborts it afterwards.
CloseRun(i) ==
    /\ \E l \in prompted : instanceOf[l] = i /\ Alive(l)
    /\ stop[i].pc = "none"
    /\ \E st \in {"done", "failed"} :
          job' = [job EXCEPT ![i] =
              [st |-> st, ended |-> TRUE,
               success |-> IF @.success = "unset"
                           THEN IF st = "done" THEN "yes" ELSE "no"
                           ELSE @.success,
               source |-> IF @.source = "none" THEN "self" ELSE @.source]]
    /\ stop' = [stop EXCEPT ![i].pc = "abort"]
    /\ UNCHANGED <<instanceOf, os, exec, mon, rec, missing, prompted,
                   bystanders, mishaps>>

\* An operator's stop revokes the run first.
Stop(i) ==
    /\ stop[i].pc = "none"
    /\ job' = [job EXCEPT ![i].st = "failed"]
    /\ stop' = [stop EXCEPT ![i] =
                   [pc |-> "abort", manual |-> TRUE, ok |-> FALSE]]
    /\ UNCHANGED <<instanceOf, os, exec, mon, rec, missing, prompted,
                   bystanders, mishaps>>

\* interruptRuntimeExecution; its errors are swallowed.
Interrupt(i) ==
    /\ stop[i].pc = "abort"
    /\ stop' = [stop EXCEPT ![i].pc = "signal"]
    /\ \/ Terminate(i, "interrupting") /\ UNCHANGED mishaps
       \/ /\ mishaps < MaxMishaps
          /\ mishaps' = mishaps + 1
          /\ UNCHANGED exec
    /\ UNCHANGED <<instanceOf, os, job, mon, rec, missing, prompted,
                   bystanders>>

\* runtime.abort: a registered child is marked and its group gets SIGTERM.
\* Only a group that is no longer there confirms the stop.
Answer(i, ok) ==
    stop' = [stop EXCEPT ![i] =
                IF @.manual THEN [@ EXCEPT !.pc = "confirm", !.ok = ok]
                ELSE Rested]
AbortChild(i) ==
    LET child == {l \in Launches : /\ instanceOf[l] = i
                                   /\ mon[l].pc \in {"spawned", "started",
                                                     "watching"}}
        gone == \E l \in child : /\ mon[l].timer = "off"
                                 /\ ~GroupExists(mon[l].pid)
        Marked(m) ==
            [m EXCEPT !.aborted = TRUE,
                      !.timer = IF ~gone /\ @ = "off" THEN "set" ELSE @]
    IN  /\ stop[i].pc = "signal"
        /\ IF gone THEN Answer(i, TRUE)
           ELSE stop' = [stop EXCEPT ![i].pc = "durable"]
        /\ mon' = [l \in Launches |->
                      IF l \in child THEN Marked(mon[l]) ELSE mon[l]]
        /\ UNCHANGED <<instanceOf, os, exec, job, rec, missing, prompted,
                       bystanders, mishaps>>

\* stopDurableLocalProcess up to its first wait: an id alone is no authority
\* to signal.
StopDurable(i) ==
    /\ stop[i].pc = "durable"
    /\ \/ exec[i].state \notin Active /\ Answer(i, FALSE)
       \/ /\ exec[i].state \in Active
          /\ \/ ~GroupExists(Pid(i)) /\ Answer(i, TRUE)
             \/ GroupExists(Pid(i)) /\ ~Verified(i) /\ Answer(i, FALSE)
             \/ Verified(i) /\ stop' = [stop EXCEPT ![i].pc = "killing"]
    /\ UNCHANGED <<instanceOf, os, exec, job, mon, rec, missing, prompted,
                   bystanders, mishaps>>

\* After the grace the group gets SIGKILL, with no second look at the birth.
StopKill(i) ==
    LET p == Pid(i) IN
    /\ stop[i].pc = "killing"
    /\ \/ ~GroupExists(p) /\ Answer(i, TRUE) /\ UNCHANGED <<os, bystanders>>
       \/ /\ GroupExists(p)
          /\ Kill(p, exec[i].launch)
          /\ \E ok \in BOOLEAN : Answer(i, ok)
    /\ UNCHANGED <<instanceOf, exec, job, mon, rec, missing, prompted,
                   mishaps>>

\* The stop's last UPDATE.
Confirm(i) ==
    /\ stop[i].pc = "confirm"
    /\ stop' = [stop EXCEPT ![i] = Rested]
    /\ job' = [job EXCEPT ![i] =
          [st |-> "failed", ended |-> @.ended \/ stop[i].ok,
           success |-> IF @.success = "unset" THEN "no" ELSE @.success,
           source |-> IF @.source = "none" THEN "stop" ELSE @.source]]
    /\ UNCHANGED <<instanceOf, os, exec, mon, rec, missing, prompted,
                   bystanders, mishaps>>

---------------------------------------------------------------------------
(* reconcileRuntimeExecutions, one row of a tick                            *)

\* "A missing PID is observed twice with a grace interval": unless a monitor
\* may be that late, it is done when the tick of the second observation reads
\* the row.
Waited(i) == "monitor" \in Tardy \/ mon[exec[i].launch].pc = "over"

Take(t, pc, i) ==
    rec' = [rec EXCEPT ![t] = [pc |-> pc, i |-> i, state |-> exec[i].state,
                               job |-> job[i], waited |-> Waited(i)]]

\* A seeded fault: terminal rows are no longer looked at.
ScanActiveOnlyBug(t, i) ==
    /\ rec[t].pc = "idle"
    /\ exec[i].state \in Active
    /\ Take(t, "active", i)
    /\ UNCHANGED <<instanceOf, os, exec, job, mon, stop, missing, prompted,
                   bystanders, mishaps>>

\* The tick's two selects.  A row is worked on with what they returned.
Scan(t, i) ==
    /\ rec[t].pc = "idle"
    /\ \/ /\ exec[i].state \in Active
          /\ Take(t, "active", i)
       \/ /\ exec[i].state \in Terminal
          /\ ~job[i].ended \/ RunLive(i)
          /\ Take(t, "buried", i)
    /\ UNCHANGED <<instanceOf, os, exec, job, mon, stop, missing, prompted,
                   bystanders, mishaps>>

Forget(t) == missing' = missing \ {rec[t].i}
Proceed(t, pc) == rec' = [rec EXCEPT ![t].pc = pc]
Rest(t) == rec' = [rec EXCEPT ![t] = NoWork]

\* A seeded fault: a group is taken for the run's own without its birth.
InspectUnverifiedBug(t) ==
    LET i == rec[t].i IN
    /\ rec[t].pc = "active"
    /\ \/ /\ GroupExists(Pid(i))
          /\ IF rec[t].job.ended THEN Proceed(t, "stopActive") ELSE Rest(t)
          /\ UNCHANGED missing
       \/ /\ ~GroupExists(Pid(i))
          /\ rec[t].job.ended
          /\ Proceed(t, "converge")
          /\ UNCHANGED missing
    /\ UNCHANGED <<instanceOf, os, exec, job, mon, stop, prompted, bystanders,
                   mishaps>>

\* A seeded fault: the first missing observation is final.
InspectOnceBug(t) ==
    LET i == rec[t].i IN
    /\ rec[t].pc = "active"
    /\ IF GroupExists(Pid(i)) THEN Rest(t)
       ELSE Proceed(t, IF rec[t].job.ended THEN "converge" ELSE "lose")
    /\ UNCHANGED <<instanceOf, os, exec, job, mon, stop, missing, prompted,
                   bystanders, mishaps>>

\* The probes of an active row and what follows without an await.
Inspect(t) ==
    LET i == rec[t].i IN
    /\ rec[t].pc = "active"
    /\ \/ /\ GroupExists(Pid(i))
          /\ \/ ~Verified(i) /\ Rest(t)  \* quarantined
             \/ Verified(i) /\ ~rec[t].job.ended /\ Rest(t)  \* alive
             \/ Verified(i) /\ rec[t].job.ended /\ Proceed(t, "stopActive")
          /\ IF Verified(i) /\ rec[t].job.ended THEN UNCHANGED missing
             ELSE Forget(t)
       \/ /\ ~GroupExists(Pid(i))
          /\ \/ rec[t].job.ended /\ Proceed(t, "converge") /\ UNCHANGED missing
             \/ /\ ~rec[t].job.ended
                /\ i \notin missing
                /\ missing' = missing \cup {i}
                /\ Rest(t)
             \/ /\ ~rec[t].job.ended
                /\ i \in missing
                /\ IF rec[t].waited THEN Proceed(t, "lose") ELSE Rest(t)
                /\ UNCHANGED missing
    /\ UNCHANGED <<instanceOf, os, exec, job, mon, stop, prompted, bystanders,
                   mishaps>>

\* The same for a row that is terminal while its run is not.
InspectBuried(t) ==
    LET i == rec[t].i IN
    /\ rec[t].pc = "buried"
    /\ \/ GroupExists(Pid(i)) /\ ~Verified(i) /\ Rest(t)
       \/ Verified(i) /\ Proceed(t, "stopBuried")
       \/ ~GroupExists(Pid(i)) /\ Proceed(t, "project")
    /\ UNCHANGED <<instanceOf, os, exec, job, mon, stop, missing, prompted,
                   bystanders, mishaps>>

\* The rest of stopDurableLocalProcess for the reconciler.
RecKill(t) ==
    LET p == Pid(rec[t].i)
        next == IF rec[t].pc = "stopActive" THEN "converge" ELSE "project"
    IN  /\ rec[t].pc \in {"stopActive", "stopBuried"}
        /\ \/ /\ ~GroupExists(p)
              /\ Proceed(t, next)
              /\ UNCHANGED <<os, bystanders, missing>>
           \/ /\ GroupExists(p)
              /\ Kill(p, exec[rec[t].i].launch)
              /\ \/ Proceed(t, next) /\ UNCHANGED missing
                 \/ Rest(t) /\ Forget(t)
        /\ UNCHANGED <<instanceOf, exec, job, mon, stop, prompted, mishaps>>

\* The run ended first: the row follows what was read of the run.
Converge(t) ==
    LET i == rec[t].i IN
    /\ rec[t].pc = "converge"
    /\ Terminate(i, Projected(rec[t].job))
    /\ Rest(t)
    /\ IF exec[i].state \in Active THEN Forget(t) ELSE UNCHANGED missing
    /\ UNCHANGED <<instanceOf, os, job, mon, stop, prompted, bystanders,
                   mishaps>>

\* Missing twice: the run's end is claimed as a failure first.
Lose(t) ==
    LET i == rec[t].i IN
    /\ rec[t].pc = "lose"
    /\ ApplyEnd(i, "no", "reconciler")
    /\ Proceed(t, IF EndClaimed(i) THEN "bury" ELSE "reread")
    /\ UNCHANGED <<instanceOf, os, exec, mon, stop, missing, prompted,
                   bystanders, mishaps>>

\* A runtime end may have won after the scan.
Reread(t) ==
    LET i == rec[t].i IN
    /\ rec[t].pc = "reread"
    /\ rec' = [rec EXCEPT ![t].job = job[i], ![t].pc =
                  IF job[i].ended THEN "converge" ELSE "mark"]
    /\ UNCHANGED <<instanceOf, os, exec, job, mon, stop, missing, prompted,
                   bystanders, mishaps>>

\* markRuntimeEnded with the status as it was read.
MarkEnded(t, success) ==
    job' = [job EXCEPT ![rec[t].i] =
               Ended(@, rec[t].job.st, success, "reconciler")]
Mark(t) ==
    /\ rec[t].pc = "mark"
    /\ MarkEnded(t, "no")
    /\ Proceed(t, "bury")
    /\ UNCHANGED <<instanceOf, os, exec, mon, stop, missing, prompted,
                   bystanders, mishaps>>

Bury(t) ==
    LET i == rec[t].i IN
    /\ rec[t].pc = "bury"
    /\ Terminate(i, "lost")
    /\ Rest(t)
    /\ IF exec[i].state \in Active THEN Forget(t) ELSE UNCHANGED missing
    /\ UNCHANGED <<instanceOf, os, job, mon, stop, prompted, bystanders,
                   mishaps>>

\* A half-commit: the row is terminal, the run was scanned as not ended.
RowSuccess(t) == IF rec[t].state = "succeeded" THEN "yes" ELSE "no"
Project(t) ==
    LET claims == rec[t].job.st = "live" /\ ~rec[t].job.ended IN
    /\ rec[t].pc = "project"
    /\ IF claims THEN ApplyEnd(rec[t].i, RowSuccess(t), "reconciler")
       ELSE UNCHANGED job
    /\ IF claims /\ EndClaimed(rec[t].i) THEN Rest(t) ELSE Proceed(t, "repair")
    /\ UNCHANGED <<instanceOf, os, exec, mon, stop, missing, prompted,
                   bystanders, mishaps>>

\* repairDurableTerminalProjectionFallback: a live run is repaired outright,
\* of any other the status is read, to be written back.
Repair(t) ==
    LET i == rec[t].i
        st == CASE rec[t].state = "succeeded" -> "done"
                [] rec[t].state = "cancelled" -> "cancelled"
                [] OTHER -> "failed"
    IN  /\ rec[t].pc = "repair"
        /\ IF RunLive(i)
           THEN /\ job' = [job EXCEPT ![i] =
                      [st |-> st, ended |-> TRUE, success |-> RowSuccess(t),
                       source |-> "reconciler"]]
                /\ Rest(t)
           ELSE /\ rec' = [rec EXCEPT ![t].job = job[i], ![t].pc = "fill"]
                /\ UNCHANGED job
        /\ UNCHANGED <<instanceOf, os, exec, mon, stop, missing, prompted,
                       bystanders, mishaps>>

Fill(t) ==
    /\ rec[t].pc = "fill"
    /\ MarkEnded(t, RowSuccess(t))
    /\ Rest(t)
    /\ UNCHANGED <<instanceOf, os, exec, mon, stop, missing, prompted,
                   bystanders, mishaps>>

\* A database call of the row throws: counted, and left to the next tick.
RecFault(t) ==
    /\ rec[t].pc \in {"converge", "lose", "reread", "mark", "bury", "project",
                   "repair", "fill"}
    /\ mishaps < MaxMishaps
    /\ mishaps' = mishaps + 1
    /\ Rest(t)
    /\ UNCHANGED <<instanceOf, os, exec, job, mon, stop, missing, prompted,
                   bystanders>>

---------------------------------------------------------------------------
\* The API process dies; with the container, its children do too.
Crash ==
    /\ mishaps < MaxMishaps
    /\ mishaps' = mishaps + 1
    /\ os' \in {os, [p \in Pids |-> [leader |-> Nobody, others |-> Nobody]]}
    /\ mon' = [l \in Launches |->
          IF mon[l].pc = "none" THEN mon[l] ELSE Finished(mon[l])]
    /\ stop' = [i \in Instances |->
          IF stop[i].pc = "none" THEN stop[i] ELSE Rested]
    /\ rec' = [t \in Ticks |-> NoWork]
    /\ missing' = {}
    /\ UNCHANGED <<instanceOf, exec, job, prompted, bystanders>>

Reconcile(t) ==
    \/ \E i \in Instances : Scan(t, i)
    \/ Inspect(t) \/ InspectBuried(t) \/ RecKill(t) \/ Converge(t)
    \/ Lose(t) \/ Reread(t) \/ Mark(t) \/ Bury(t) \/ Project(t)
    \/ Repair(t) \/ Fill(t)

Launching ==
    \E l \in Launches :
        \/ \E p \in Pids : Spawn(l, p)
        \/ PersistStart(l) \/ PersistStartFails(l) \/ TearDown(l)
        \/ TearKill(l) \/ FailRun(l) \/ Deliver(l) \/ DeliverFails(l)

Watching ==
    \E l \in Launches : \/ TimeOut(l) \/ FireTimer(l) \/ Close(l) \/ CleanUp(l)
                        \/ Report(l) \/ Apply(l)

Stopping ==
    \E i \in Instances : \/ CloseRun(i) \/ Stop(i) \/ Interrupt(i)
                         \/ AbortChild(i) \/ StopDurable(i) \/ StopKill(i)
                         \/ Confirm(i)

Running == \E p \in Pids : Fork(p) \/ LeaderExits(p) \/ OthersExit(p)

Next == Launching \/ Watching \/ Stopping \/ Running \/ Crash
        \/ \E t \in Ticks : Reconcile(t) \/ RecFault(t)

Spec == Init /\ [][Next]_vars

\* The promises and timers of a running API are resolved, the reconciler
\* ticks, and (of the environment) no process runs for ever.
Fairness ==
    /\ \A l \in Launches :
          /\ WF_vars(PersistStart(l)) /\ WF_vars(TearDown(l))
          /\ WF_vars(TearKill(l)) /\ WF_vars(FailRun(l))
          /\ WF_vars(Deliver(l) \/ DeliverFails(l))
          /\ WF_vars(Close(l)) /\ WF_vars(CleanUp(l))
          /\ WF_vars(Report(l)) /\ WF_vars(Apply(l))
    /\ \A t \in Ticks : WF_vars(Reconcile(t))
    /\ \A p \in Pids : WF_vars(LeaderExits(p)) /\ WF_vars(OthersExit(p))

FairSpec == Spec /\ Fairness

---------------------------------------------------------------------------
\* Terminal truth never hides a process tree that is still there.
TerminalTreeGone ==
    \A i \in Instances :
        exec[i].state \in Terminal => TreeGone(exec[i].launch)

\* A signal reaches the tree it is meant for and no other process that has
\* come to bear the same id.
NoBystander == bystanders = {}

\* Of all the launches of a run one gets to send its prompt.
OnePromptPerRun ==
    \A l, m \in prompted : instanceOf[l] = instanceOf[m] => l = m

\* What is on record as a success is not made a failure by the reconciler.
SuccessNotLost ==
    [][\A i \in Instances :
           /\ job[i].success # "no"
           /\ job'[i].success = "no"
           /\ job'[i].source = "reconciler"
           => exec[i].state # "succeeded"]_vars

\* A terminal state stands.
TerminalStands ==
    [][\A i \in Instances :
           exec[i].state \in Terminal => exec'[i] = exec[i]]_vars

\* Wherever the API died, process and run of a recorded execution both end
\* on record.
Settled(i) == exec[i].state \in Terminal /\ job[i].ended /\ ~RunLive(i)
ExecutionSettles ==
    \A i \in Instances : exec[i].state # "none" ~> Settled(i)
---------------------------------------------------------------------------
(* Why these hold: what is so at every step between two steps.              *)

\* A monitor that has begun has its process id, a timer is of a process not
\* yet closed, a row names a launch of its run, and whoever works on a row
\* has found it.
Wired ==
    /\ \A l \in Launches :
          /\ mon[l].pc # "none" => mon[l].pid \in Pids
          /\ mon[l].timer = "set" =>
                mon[l].pc \in {"spawned", "refused", "started", "watching"}
    /\ \A i \in Instances :
          /\ exec[i].state # "none" =>
                /\ exec[i].launch \in Launches
                /\ instanceOf[exec[i].launch] = i
                /\ mon[exec[i].launch].pc # "none"
          /\ stop[i].pc = "killing" => exec[i].state # "none"
    /\ \A t \in Ticks : rec[t].pc # "idle" => exec[rec[t].i].state # "none"

\* Only the launch that holds the row of its run gets past PersistStart.
Claimed(l) == /\ exec[instanceOf[l]].state # "none"
              /\ exec[instanceOf[l]].launch = l
ClaimedFirst ==
    \A l \in Launches :
        \/ l \in prompted
        \/ mon[l].pc \in {"started", "watching", "cleaning", "report", "apply"}
        => Claimed(l)

\* The processes of a launch are in the group of its id, and whoever is about
\* to write a terminal state has seen that group go.
TreesAtHome ==
    /\ \A l \in Launches :
          /\ \A p \in Pids : l \in {os[p].leader, os[p].others} =>
                mon[l].pc # "none" /\ mon[l].pid = p
          /\ mon[l].pc \in {"report", "apply"} => TreeGone(l)
    /\ \A t \in Ticks :
          rec[t].pc \in {"converge", "lose", "reread", "mark", "bury",
                        "project", "repair", "fill"}
          => TreeGone(exec[rec[t].i].launch)
    /\ TerminalTreeGone

\* A group that somebody may still kill is that of his launch.
OwnGroup(p, l) == {os[p].leader, os[p].others} \subseteq {l, Nobody}
TargetsOwn ==
    /\ \A p \in Pids :
          os[p].others \in {os[p].leader, Nobody} \/ os[p].leader = Nobody
    /\ \A l \in Launches :
          mon[l].pc \notin {"none", "over"} => OwnGroup(mon[l].pid, l)
    /\ \A i \in Instances :
          stop[i].pc = "killing" => OwnGroup(Pid(i), exec[i].launch)
    /\ \A t \in Ticks :
          rec[t].pc \in {"stopActive", "stopBuried"} =>
             OwnGroup(Pid(rec[t].i), exec[rec[t].i].launch)
    /\ NoBystander

\* A live run bears no trace of an end, whoever gave an end a source gave it
\* a verdict, and a verdict of success stands.
Verdicts(j) == j.st = "done" \/ j.source # "none" => j.success # "unset"
RunsEndOnce ==
    /\ \A i \in Instances : /\ RunLive(i) => job[i] = NewJob
                            /\ Verdicts(job[i])
    /\ \A t \in Ticks :
          /\ Verdicts(rec[t].job)
          /\ rec[t].job.success = "yes" => job[rec[t].i].success = "yes"
          /\ rec[t].pc = "reread" => ~RunLive(rec[t].i)
          /\ rec[t].pc \in {"mark", "fill"} => rec[t].job.st # "live"

\* A tick that may yet call the run lost read its row when the monitor was
\* done, so that the row became a success since then only after its run; a
\* tick at a terminal row read what the row still says.
ReadTruly ==
    \A t \in Ticks :
        /\ \/ rec[t].pc = "active" /\ rec[t].waited
           \/ rec[t].pc \in {"lose", "reread", "mark"}
           => /\ mon[exec[rec[t].i].launch].pc = "over"
              /\ exec[rec[t].i].state = "succeeded" =>
                    job[rec[t].i].success = "yes"
        /\ rec[t].pc \in {"buried", "stopBuried", "project", "repair", "fill"}
           => /\ rec[t].state \in Terminal
              /\ exec[rec[t].i].state = rec[t].state
=============================================================================
