---------------------- MODULE RuntimeExecution_proofs ----------------------
(* What holds of executions and their processes for any number of runs,     *)
(* launches, process ids, overlapping ticks and mishaps.                    *)
EXTENDS RuntimeExecution, TLAPS

---------------------------------------------------------------------------
(* Typing                                                                   *)

LEMMA Defaults ==
    /\ NoRow \in Rows /\ NewJob \in Jobs /\ NoWork \in Works
    /\ Unlaunched \in Monitors /\ Rested \in Aborts
    /\ Active \cap Terminal = {} /\ "none" \notin Active \cup Terminal
<1>1. (CHOOSE i \in Instances : TRUE) \in Instances
  BY InstancesAssumption
<1>2. NewJob \in Jobs
  BY DEF NewJob, Jobs
<1> QED
  BY <1>1, <1>2 DEF NoRow, Rows, NoWork, Works, Unlaunched, Monitors, Rested,
     Aborts, Active, Terminal, Owners

LEMMA FinishedTyped ==
    ASSUME NEW m \in Monitors
    PROVE  /\ Finished(m) \in Monitors
           /\ Finished(m).pc = "over" /\ Finished(m).pid = m.pid
           /\ Finished(m).timer = "off"
BY DEF Finished, Unlaunched, Monitors

LEMMA EndedTyped ==
    ASSUME NEW j \in Jobs, NEW st \in {"live", "done", "failed", "cancelled"},
           NEW success \in {"yes", "no"},
           NEW source \in {"self", "stop", "reconciler"}
    PROVE  Ended(j, st, success, source) \in Jobs
BY DEF Ended, Jobs

LEMMA TerminateTyped ==
    ASSUME TypeOK, NEW i \in Instances, NEW s \in Active \cup Terminal,
           Terminate(i, s)
    PROVE  exec' \in [Instances -> Rows]
BY DEF TypeOK, Terminate, Rows

LEMMA KillTyped ==
    ASSUME TypeOK, NEW p \in Pids, NEW l, Kill(p, l)
    PROVE  /\ os' \in [Pids -> [leader : Owners, others : Owners]]
           /\ bystanders' \subseteq Launches
<1>1. {os[p].leader, os[p].others} \subseteq Owners
  BY DEF TypeOK
<1> QED
  BY <1>1 DEF TypeOK, Kill, Owners

LEMMA ApplyEndTyped ==
    ASSUME TypeOK, NEW i \in Instances, NEW success \in {"yes", "no"},
           NEW source \in {"self", "stop", "reconciler"},
           ApplyEnd(i, success, source)
    PROVE  job' \in [Instances -> Jobs]
<1>1. PICK st \in {"failed", "done"} :
          job' = IF EndClaimed(i)
                 THEN [job EXCEPT ![i] = Ended(job[i], st, success, source)]
                 ELSE job
  BY DEF ApplyEnd
<1>2. Ended(job[i], st, success, source) \in Jobs
  BY EndedTyped DEF TypeOK
<1> QED
  BY <1>1, <1>2 DEF TypeOK


\* What a row's handle names, if somebody works on the row.
LEMMA PidTyped ==
    ASSUME TypeOK, Wired, NEW i \in Instances, exec[i].state # "none"
    PROVE  exec[i].launch \in Launches /\ Pid(i) \in Pids
BY DEF Wired, Pid

LEMMA LaunchingTyped ==
    ASSUME TypeOK, Wired, Launching
    PROVE  TypeOK'
<1> SUFFICES ASSUME NEW l \in Launches,
                    \/ \E p \in Pids : Spawn(l, p)
                    \/ PersistStart(l) \/ PersistStartFails(l) \/ TearDown(l)
                    \/ TearKill(l) \/ FailRun(l) \/ Deliver(l)
                    \/ DeliverFails(l)
             PROVE  TypeOK'
  BY DEF Launching
<1>0. instanceOf[l] \in Instances /\ mon[l] \in Monitors /\ l \in Owners
  BY DEF TypeOK, Owners
<1>1. ASSUME NEW p \in Pids, Spawn(l, p) PROVE TypeOK'
  <2>1. mon' \in [Launches -> Monitors]
    BY <1>1, <1>0 DEF TypeOK, Spawn, Monitors
  <2>2. os' \in [Pids -> [leader : Owners, others : Owners]]
    BY <1>1, <1>0 DEF TypeOK, Spawn, Owners
  <2> QED
    BY <1>1, <2>1, <2>2 DEF TypeOK, Spawn
<1>2. CASE PersistStart(l)
  <2>1. mon' \in [Launches -> Monitors]
    BY <1>2, <1>0 DEF TypeOK, PersistStart, Monitors
  <2>2. exec' \in [Instances -> Rows]
    BY <1>2, <1>0 DEF TypeOK, PersistStart, Rows, Active
  <2> QED
    BY <1>2, <2>1, <2>2 DEF TypeOK, PersistStart
<1>3. CASE PersistStartFails(l)
  <2>1. mon' \in [Launches -> Monitors]
    BY <1>3, <1>0 DEF TypeOK, PersistStartFails, Monitors
  <2>2. exec' \in [Instances -> Rows]
    BY <1>3, <1>0 DEF TypeOK, PersistStartFails, Rows, Active
  <2>3. mishaps' \in 0 .. MaxMishaps
    BY <1>3, MishapsAssumption DEF TypeOK, PersistStartFails
  <2> QED
    BY <1>3, <2>1, <2>2, <2>3 DEF TypeOK, PersistStartFails
<1>4. CASE TearDown(l)
  <2>1. mon' \in [Launches -> Monitors]
    BY <1>4, <1>0 DEF TypeOK, TearDown, Monitors
  <2> QED
    BY <1>4, <2>1 DEF TypeOK, TearDown
<1>5. CASE TearKill(l)
  <2>1. mon' \in [Launches -> Monitors]
    BY <1>5, <1>0 DEF TypeOK, TearKill, Monitors
  <2>2. mon[l].pid \in Pids
    BY <1>5 DEF TearKill, Wired
  <2>3. /\ os' \in [Pids -> [leader : Owners, others : Owners]]
        /\ bystanders' \subseteq Launches
    BY <1>5, <2>2, KillTyped DEF TearKill, TypeOK
  <2> QED
    BY <1>5, <2>1, <2>3 DEF TypeOK, TearKill
<1>6. CASE FailRun(l)
  <2>1. mon' \in [Launches -> Monitors]
    BY <1>6, <1>0, FinishedTyped DEF TypeOK, FailRun
  <2>2. job' \in [Instances -> Jobs]
    BY <1>6, <1>0 DEF TypeOK, FailRun, Jobs
  <2> QED
    BY <1>6, <2>1, <2>2 DEF TypeOK, FailRun
<1>7. CASE Deliver(l)
  <2>1. mon' \in [Launches -> Monitors]
    BY <1>7, <1>0 DEF TypeOK, Deliver, Monitors
  <2> QED
    BY <1>7, <2>1 DEF TypeOK, Deliver
<1>8. CASE DeliverFails(l)
  <2>1. mon' \in [Launches -> Monitors]
    BY <1>8, <1>0 DEF TypeOK, DeliverFails, Monitors
  <2>2. job' \in [Instances -> Jobs]
    BY <1>8, <1>0 DEF TypeOK, DeliverFails, Jobs
  <2> QED
    BY <1>8, <2>1, <2>2 DEF TypeOK, DeliverFails
<1> QED
  BY <1>1, <1>2, <1>3, <1>4, <1>5, <1>6, <1>7, <1>8

LEMMA WatchingTyped ==
    ASSUME TypeOK, Wired, Watching
    PROVE  TypeOK'
<1> SUFFICES ASSUME NEW l \in Launches,
                    \/ TimeOut(l) \/ FireTimer(l) \/ Close(l) \/ CleanUp(l)
                    \/ Report(l) \/ Apply(l)
             PROVE  TypeOK'
  BY DEF Watching
<1>0. instanceOf[l] \in Instances /\ mon[l] \in Monitors
  BY DEF TypeOK
<1>1. CASE TimeOut(l)
  <2>1. mon' \in [Launches -> Monitors]
    BY <1>1, <1>0 DEF TypeOK, TimeOut, Monitors
  <2> QED
    BY <1>1, <2>1 DEF TypeOK, TimeOut
<1>2. CASE FireTimer(l)
  <2>1. mon' \in [Launches -> Monitors]
    BY <1>2, <1>0 DEF TypeOK, FireTimer, Monitors
  <2>2. mon[l].pid \in Pids
    BY <1>2 DEF FireTimer, Wired
  <2>3. /\ os' \in [Pids -> [leader : Owners, others : Owners]]
        /\ bystanders' \subseteq Launches
    BY <1>2, <2>2, KillTyped DEF FireTimer, TypeOK
  <2> QED
    BY <1>2, <2>1, <2>3 DEF TypeOK, FireTimer
<1>3. CASE Close(l)
  <2>1. mon' \in [Launches -> Monitors]
    BY <1>3, <1>0 DEF TypeOK, Close, Monitors
  <2> QED
    BY <1>3, <2>1 DEF TypeOK, Close
<1>4. CASE CleanUp(l)
  <2>1. mon' \in [Launches -> Monitors]
    <3>1. [mon[l] EXCEPT !.pc = "report"] \in Monitors
      BY <1>0 DEF Monitors
    <3> QED
      BY <1>4, <3>1, <1>0, FinishedTyped DEF TypeOK, CleanUp
  <2>2. mon[l].pid \in Pids
    BY <1>4 DEF CleanUp, Wired
  <2>3. /\ os' \in [Pids -> [leader : Owners, others : Owners]]
        /\ bystanders' \subseteq Launches
    BY <1>4, <2>2, KillTyped DEF CleanUp, TypeOK
  <2> QED
    BY <1>4, <2>1, <2>3 DEF TypeOK, CleanUp
<1>5. CASE Report(l)
  <2>1. PICK result \in {"cancelled", "succeeded", "failed"} :
           /\ mon' = [mon EXCEPT ![l].pc = "apply", ![l].result = result]
           /\ \/ Terminate(instanceOf[l], result) /\ UNCHANGED mishaps
              \/ /\ mishaps < MaxMishaps
                 /\ mishaps' = mishaps + 1
                 /\ UNCHANGED exec
    BY <1>5 DEF Report
  <2>2. mon' \in [Launches -> Monitors]
    BY <2>1, <1>0 DEF TypeOK, Monitors, Terminal
  <2>3. exec' \in [Instances -> Rows]
    <3>1. result \in Active \cup Terminal
      BY DEF Terminal
    <3> QED
      BY <2>1, <3>1, <1>0, TerminateTyped DEF TypeOK
  <2>4. mishaps' \in 0 .. MaxMishaps
    BY <2>1, MishapsAssumption DEF TypeOK
  <2> QED
    BY <1>5, <2>2, <2>3, <2>4 DEF TypeOK, Report
<1>6. CASE Apply(l)
  <2>1. mon' \in [Launches -> Monitors]
    BY <1>6, <1>0, FinishedTyped DEF TypeOK, Apply
  <2>2. job' \in [Instances -> Jobs]
    BY <1>6, <1>0, ApplyEndTyped DEF TypeOK, Apply
  <2>3. mishaps' \in 0 .. MaxMishaps
    BY <1>6, MishapsAssumption DEF TypeOK, Apply
  <2> QED
    BY <1>6, <2>1, <2>2, <2>3 DEF TypeOK, Apply
<1> QED
  BY <1>1, <1>2, <1>3, <1>4, <1>5, <1>6

LEMMA AnswerTyped ==
    ASSUME TypeOK, NEW i \in Instances, NEW ok \in BOOLEAN, Answer(i, ok)
    PROVE  /\ stop' \in [Instances -> Aborts]
           /\ stop'[i].pc # "killing"
           /\ \A k \in Instances \ {i} : stop'[k] = stop[k]
BY DEF TypeOK, Answer, Aborts, Rested

LEMMA AbortGoesOn ==
    ASSUME TypeOK, NEW i \in Instances,
           NEW pc \in {"abort", "signal", "durable", "killing", "confirm"}
    PROVE  [stop EXCEPT ![i].pc = pc] \in [Instances -> Aborts]
BY DEF TypeOK, Aborts

\* An abort marks some monitors, and may set their timers.
LEMMA AbortMarks ==
    ASSUME TypeOK, NEW i \in Instances, AbortChild(i)
    PROVE  /\ Answer(i, TRUE) \/ stop' = [stop EXCEPT ![i].pc = "durable"]
           /\ mon' \in [Launches -> Monitors]
           /\ \A l \in Launches :
                 /\ mon'[l].pc = mon[l].pc
                 /\ mon'[l].pid = mon[l].pid
                 /\ \/ mon'[l].timer = mon[l].timer
                    \/ mon[l].pc \in {"spawned", "started", "watching"}
<1> DEFINE child == {l \in Launches : /\ instanceOf[l] = i
                                      /\ mon[l].pc \in {"spawned", "started",
                                                        "watching"}}
           gone == \E l \in child : /\ mon[l].timer = "off"
                                    /\ ~GroupExists(mon[l].pid)
           Marked(m) ==
               [m EXCEPT !.aborted = TRUE,
                         !.timer = IF ~gone /\ @ = "off" THEN "set" ELSE @]
<1>1. IF gone THEN Answer(i, TRUE)
      ELSE stop' = [stop EXCEPT ![i].pc = "durable"]
  BY DEF AbortChild
<1>2. mon' = [l \in Launches |->
                 IF l \in child THEN Marked(mon[l]) ELSE mon[l]]
  BY DEF AbortChild
<1>3. \A l \in child : mon[l].pc \in {"spawned", "started", "watching"}
  OBVIOUS
<1> HIDE DEF child, gone
<1>4. \A m \in Monitors :
         Marked(m) \in Monitors /\ Marked(m).pc = m.pc /\ Marked(m).pid = m.pid
  BY DEF Monitors
<1>5. \A l \in Launches : mon[l] \in Monitors
  BY DEF TypeOK
<1> HIDE DEF Marked
<1>6. mon' \in [Launches -> Monitors]
  BY <1>2, <1>4, <1>5
<1>7. ASSUME NEW l \in Launches
      PROVE  /\ mon'[l].pc = mon[l].pc
             /\ mon'[l].pid = mon[l].pid
             /\ \/ mon'[l].timer = mon[l].timer
                \/ mon[l].pc \in {"spawned", "started", "watching"}
  BY <1>2, <1>3, <1>4, <1>5
<1> QED
  BY <1>1, <1>6, <1>7

LEMMA StoppingTyped ==
    ASSUME TypeOK, Wired, Stopping
    PROVE  TypeOK'
<1> SUFFICES ASSUME NEW i \in Instances,
                    \/ CloseRun(i) \/ Stop(i) \/ Interrupt(i) \/ AbortChild(i)
                    \/ StopDurable(i) \/ StopKill(i) \/ Confirm(i)
             PROVE  TypeOK'
  BY DEF Stopping
<1>0. job[i] \in Jobs /\ stop[i] \in Aborts
  BY DEF TypeOK
<1>1. CASE CloseRun(i)
  <2>1. stop' \in [Instances -> Aborts]
    BY <1>1, <1>0 DEF TypeOK, CloseRun, Aborts
  <2>2. job' \in [Instances -> Jobs]
    BY <1>1, <1>0 DEF TypeOK, CloseRun, Jobs
  <2> QED
    BY <1>1, <2>1, <2>2 DEF TypeOK, CloseRun
<1>2. CASE Stop(i)
  <2>1. stop' \in [Instances -> Aborts]
    BY <1>2, <1>0 DEF TypeOK, Stop, Aborts
  <2>2. job' \in [Instances -> Jobs]
    BY <1>2, <1>0 DEF TypeOK, Stop, Jobs
  <2> QED
    BY <1>2, <2>1, <2>2 DEF TypeOK, Stop
<1>3. CASE Interrupt(i)
  <2>1. stop' \in [Instances -> Aborts]
    BY <1>3, <1>0 DEF TypeOK, Interrupt, Aborts
  <2>2. exec' \in [Instances -> Rows]
    <3>1. "interrupting" \in Active \cup Terminal
      BY DEF Active
    <3> QED
      BY <1>3, <3>1, TerminateTyped DEF TypeOK, Interrupt
  <2>3. mishaps' \in 0 .. MaxMishaps
    BY <1>3, MishapsAssumption DEF TypeOK, Interrupt
  <2> QED
    BY <1>3, <2>1, <2>2, <2>3 DEF TypeOK, Interrupt
<1>4. CASE AbortChild(i)
  <2>1. stop' \in [Instances -> Aborts]
    BY <1>4, AbortMarks, AnswerTyped, AbortGoesOn
  <2>2. mon' \in [Launches -> Monitors]
    BY <1>4, AbortMarks
  <2> QED
    BY <1>4, <2>1, <2>2 DEF TypeOK, AbortChild
<1>5. CASE StopDurable(i)
  <2>1. stop' \in [Instances -> Aborts]
    <3>1. \/ \E ok \in BOOLEAN : Answer(i, ok)
          \/ stop' = [stop EXCEPT ![i].pc = "killing"]
      BY <1>5 DEF StopDurable
    <3> QED
      BY <3>1, AnswerTyped, AbortGoesOn
  <2> QED
    BY <1>5, <2>1 DEF TypeOK, StopDurable
<1>6. CASE StopKill(i)
  <2>1. stop' \in [Instances -> Aborts]
    BY <1>6, AnswerTyped DEF StopKill
  <2>2. Pid(i) \in Pids
    BY <1>6, PidTyped DEF StopKill, Wired
  <2>3. /\ os' \in [Pids -> [leader : Owners, others : Owners]]
        /\ bystanders' \subseteq Launches
    BY <1>6, <2>2, KillTyped DEF StopKill, TypeOK
  <2> QED
    BY <1>6, <2>1, <2>3 DEF TypeOK, StopKill
<1>7. CASE Confirm(i)
  <2>1. stop' \in [Instances -> Aborts]
    BY <1>7, Defaults DEF TypeOK, Confirm
  <2>2. job' \in [Instances -> Jobs]
    BY <1>7, <1>0 DEF TypeOK, Confirm, Jobs, Aborts
  <2> QED
    BY <1>7, <2>1, <2>2 DEF TypeOK, Confirm
<1> QED
  BY <1>1, <1>2, <1>3, <1>4, <1>5, <1>6, <1>7

\* A step of a tick writes the row of its work or of its run, and goes on.
LEMMA ProceedTyped ==
    ASSUME TypeOK, NEW t \in Ticks,
           Rest(t) \/ \E pc \in {"stopActive", "stopBuried", "converge", "lose",
                                 "reread", "mark", "bury", "project",
                                 "repair", "fill"} : Proceed(t, pc)
    PROVE  rec' \in [Ticks -> Works]
<1>1. CASE Rest(t)
  BY <1>1, Defaults DEF TypeOK, Rest
<1>2. ASSUME NEW pc \in {"stopActive", "stopBuried", "converge", "lose",
                         "reread", "mark", "bury", "project", "repair",
                         "fill"},
             Proceed(t, pc)
      PROVE  rec' \in [Ticks -> Works]
  <2>1. rec[t] \in Works /\ rec \in [Ticks -> Works]
    BY DEF TypeOK
  <2>2. [rec[t] EXCEPT !.pc = pc] \in Works
    BY <1>2, <2>1 DEF Works
  <2>3. rec' = [rec EXCEPT ![t] = [rec[t] EXCEPT !.pc = pc]]
    BY <1>2, <2>1 DEF Proceed
  <2> QED
    BY <2>1, <2>2, <2>3
<1> QED
  BY <1>1, <1>2

LEMMA MarkEndedTyped ==
    ASSUME TypeOK, NEW t \in Ticks, NEW success \in {"yes", "no"},
           MarkEnded(t, success)
    PROVE  job' \in [Instances -> Jobs]
<1>1. rec[t].i \in Instances /\ rec[t].job.st \in {"live", "done", "failed",
                                                   "cancelled"}
  BY DEF TypeOK, Works, Jobs
<1>2. Ended(job[rec[t].i], rec[t].job.st, success, "reconciler") \in Jobs
  BY <1>1, EndedTyped DEF TypeOK
<1> QED
  BY <1>1, <1>2 DEF TypeOK, MarkEnded

LEMMA ReconcileTyped ==
    ASSUME TypeOK, Wired, NEW t \in Ticks, Reconcile(t)
    PROVE  TypeOK'
<1> DEFINE i == rec[t].i
<1>0. rec[t] \in Works /\ i \in Instances /\ rec[t].job \in Jobs
  BY DEF TypeOK, Works
<1>1. ASSUME NEW k \in Instances, Scan(t, k) PROVE TypeOK'
  <2>1. PICK pc \in {"active", "buried"} : Take(t, pc, k)
    BY <1>1 DEF Scan
  <2>2. [pc |-> pc, i |-> k, state |-> exec[k].state, job |-> job[k],
         waited |-> Waited(k)] \in Works
    BY DEF TypeOK, Works, Rows, Waited
  <2>3. rec' \in [Ticks -> Works]
    BY <2>1, <2>2 DEF TypeOK, Take
  <2> QED
    BY <1>1, <2>3 DEF TypeOK, Scan
<1>2. CASE Inspect(t)
  <2>1. rec' \in [Ticks -> Works]
    BY <1>2, ProceedTyped DEF Inspect
  <2>2. missing' \subseteq Instances
    BY <1>2, <1>0 DEF TypeOK, Inspect, Forget
  <2> QED
    BY <1>2, <2>1, <2>2 DEF TypeOK, Inspect
<1>3. CASE InspectBuried(t)
  <2>1. rec' \in [Ticks -> Works]
    BY <1>3, ProceedTyped DEF InspectBuried
  <2> QED
    BY <1>3, <2>1 DEF TypeOK, InspectBuried
<1>4. CASE RecKill(t)
  <2>1. rec' \in [Ticks -> Works]
    BY <1>4, ProceedTyped DEF RecKill
  <2>2. Pid(i) \in Pids
    BY <1>4, <1>0, PidTyped DEF RecKill, Wired
  <2>3. /\ os' \in [Pids -> [leader : Owners, others : Owners]]
        /\ bystanders' \subseteq Launches
    BY <1>4, <2>2, KillTyped DEF RecKill, TypeOK
  <2>4. missing' \subseteq Instances
    BY <1>4 DEF TypeOK, RecKill, Forget
  <2> QED
    BY <1>4, <2>1, <2>3, <2>4 DEF TypeOK, RecKill
<1>5. CASE Converge(t) \/ Bury(t)
  <2>1. rec' \in [Ticks -> Works]
    BY <1>5, ProceedTyped DEF Converge, Bury
  <2>2. PICK s \in Active \cup Terminal : Terminate(i, s)
    BY <1>5 DEF Converge, Bury, Projected, Terminal
  <2>3. exec' \in [Instances -> Rows]
    BY <1>0, <2>2, TerminateTyped
  <2>4. missing' \subseteq Instances
    BY <1>5 DEF TypeOK, Converge, Bury, Forget
  <2> QED
    BY <1>5, <2>1, <2>3, <2>4 DEF TypeOK, Converge, Bury
<1>6. CASE Lose(t)
  <2>1. rec' \in [Ticks -> Works]
    BY <1>6, ProceedTyped DEF Lose
  <2>2. job' \in [Instances -> Jobs]
    BY <1>6, <1>0, ApplyEndTyped DEF Lose
  <2> QED
    BY <1>6, <2>1, <2>2 DEF TypeOK, Lose
<1>7. CASE Reread(t)
  <2>1. \A pc \in {"converge", "mark"} :
           [rec[t] EXCEPT !.job = job[i], !.pc = pc] \in Works
    BY <1>0 DEF TypeOK, Works
  <2>2. rec' \in [Ticks -> Works]
    BY <1>7, <2>1 DEF TypeOK, Reread
  <2> QED
    BY <1>7, <2>2 DEF TypeOK, Reread
<1>8. CASE Mark(t)
  <2>1. rec' \in [Ticks -> Works]
    BY <1>8, ProceedTyped DEF Mark
  <2>2. job' \in [Instances -> Jobs]
    BY <1>8, MarkEndedTyped DEF Mark
  <2> QED
    BY <1>8, <2>1, <2>2 DEF TypeOK, Mark
<1>9. CASE Project(t)
  <2>1. rec' \in [Ticks -> Works]
    BY <1>9, ProceedTyped DEF Project
  <2>2. job' \in [Instances -> Jobs]
    <3>1. RowSuccess(t) \in {"yes", "no"}
      BY DEF RowSuccess
    <3>2. UNCHANGED job \/ ApplyEnd(i, RowSuccess(t), "reconciler")
      BY <1>9 DEF Project
    <3> QED
      BY <3>1, <3>2, <1>0, ApplyEndTyped DEF TypeOK
  <2> QED
    BY <1>9, <2>1, <2>2 DEF TypeOK, Project
<1>10. CASE Repair(t)
  <2>1. [rec[t] EXCEPT !.job = job[i], !.pc = "fill"] \in Works
    BY <1>0 DEF TypeOK, Works
  <2>2. rec' \in [Ticks -> Works]
    BY <1>10, <2>1, ProceedTyped DEF TypeOK, Repair
  <2>3. PICK st \in {"done", "cancelled", "failed"} :
           \/ UNCHANGED job
           \/ job' = [job EXCEPT ![i] =
                         [st |-> st, ended |-> TRUE, success |-> RowSuccess(t),
                          source |-> "reconciler"]]
    BY <1>10 DEF Repair
  <2>4. [st |-> st, ended |-> TRUE, success |-> RowSuccess(t),
         source |-> "reconciler"] \in Jobs
    BY DEF Jobs, RowSuccess
  <2>5. job' \in [Instances -> Jobs]
    BY <2>3, <2>4 DEF TypeOK
  <2> QED
    BY <1>10, <2>2, <2>5 DEF TypeOK, Repair
<1>11. CASE Fill(t)
  <2>1. rec' \in [Ticks -> Works]
    BY <1>11, ProceedTyped DEF Fill
  <2>2. job' \in [Instances -> Jobs]
    BY <1>11, MarkEndedTyped DEF Fill, RowSuccess
  <2> QED
    BY <1>11, <2>1, <2>2 DEF TypeOK, Fill
<1> QED
  BY <1>1, <1>2, <1>3, <1>4, <1>5, <1>6, <1>7, <1>8, <1>9, <1>10, <1>11
     DEF Reconcile

LEMMA RestTyped ==
    ASSUME TypeOK, Wired,
           Running \/ Crash \/ \E t \in Ticks : RecFault(t)
    PROVE  TypeOK'
<1>1. CASE Running
  BY <1>1 DEF TypeOK, Running, Fork, LeaderExits, OthersExit, Owners
<1>2. CASE Crash
  <2>1. os' \in [Pids -> [leader : Owners, others : Owners]]
    BY <1>2 DEF TypeOK, Crash, Owners
  <2>2. mon' \in [Launches -> Monitors]
    BY <1>2, FinishedTyped DEF TypeOK, Crash
  <2>3. stop' \in [Instances -> Aborts] /\ rec' \in [Ticks -> Works]
    BY <1>2, Defaults DEF TypeOK, Crash
  <2>4. mishaps' \in 0 .. MaxMishaps
    BY <1>2, MishapsAssumption DEF TypeOK, Crash
  <2> QED
    BY <1>2, <2>1, <2>2, <2>3, <2>4 DEF TypeOK, Crash
<1>3. ASSUME NEW t \in Ticks, RecFault(t) PROVE TypeOK'
  <2>1. rec' \in [Ticks -> Works]
    BY <1>3, ProceedTyped DEF RecFault
  <2>2. mishaps' \in 0 .. MaxMishaps
    BY <1>3, MishapsAssumption DEF TypeOK, RecFault
  <2> QED
    BY <1>3, <2>1, <2>2 DEF TypeOK, RecFault
<1> QED
  BY <1>1, <1>2, <1>3

LEMMA StepTyped ==
    ASSUME TypeOK, Wired, [Next]_vars
    PROVE  TypeOK'
<1>1. CASE Next
  BY <1>1, LaunchingTyped, WatchingTyped, StoppingTyped, ReconcileTyped,
     RestTyped DEF Next
<1>2. CASE UNCHANGED vars
  BY <1>2 DEF vars, TypeOK
<1> QED
  BY <1>1, <1>2

LEMMA InitTyped == Init => TypeOK
<1> SUFFICES ASSUME Init PROVE TypeOK
  OBVIOUS
<1>1. /\ os \in [Pids -> [leader : Owners, others : Owners]]
      /\ stop \in [Instances -> Aborts]
  BY DEF Init, Owners, Aborts
<1> QED
  BY <1>1, Defaults, MishapsAssumption DEF Init, TypeOK

---------------------------------------------------------------------------
(* What no step undoes                                                      *)

\* A row is claimed once, by a launch with a child, and ended once.
LEMMA RowSteps ==
    ASSUME TypeOK, [Next]_vars
    PROVE  /\ instanceOf' = instanceOf
           /\ \/ UNCHANGED exec
              \/ \E i \in Instances, s \in Active \cup Terminal : Terminate(i, s)
              \/ \E l \in Launches :
                    /\ mon[l].pc = "spawned"
                    /\ exec[instanceOf[l]].state = "none"
                    /\ exec' = [exec EXCEPT ![instanceOf[l]] =
                                   [state |-> "running", launch |-> l]]
<1> DEFINE Terminates ==
              \E i \in Instances, s \in Active \cup Terminal : Terminate(i, s)
           Claims ==
              \E l \in Launches :
                  /\ mon[l].pc = "spawned"
                  /\ exec[instanceOf[l]].state = "none"
                  /\ exec' = [exec EXCEPT ![instanceOf[l]] =
                                 [state |-> "running", launch |-> l]]
           Goal == instanceOf' = instanceOf
                   /\ (UNCHANGED exec \/ Terminates \/ Claims)
<1>1. CASE Launching
  BY <1>1 DEF Launching, Spawn, PersistStart, PersistStartFails, TearDown,
              TearKill, FailRun, Deliver, DeliverFails
<1>2. ASSUME NEW l \in Launches, Report(l) PROVE Goal
  <2>1. {"cancelled", "succeeded", "failed"} \subseteq Active \cup Terminal
    BY DEF Terminal
  <2>2. instanceOf[l] \in Instances
    BY DEF TypeOK
  <2> QED
    BY <1>2, <2>1, <2>2 DEF Report
<1>3. CASE Watching
  BY <1>2, <1>3 DEF Watching, TimeOut, FireTimer, Close, CleanUp, Apply
<1>4. CASE Stopping
  <2>1. "interrupting" \in Active \cup Terminal
    BY DEF Active
  <2> QED
    BY <1>4, <2>1 DEF Stopping, CloseRun, Stop, Interrupt, AbortChild,
                      StopDurable, StopKill, Confirm
<1>5. ASSUME NEW t \in Ticks, Reconcile(t) \/ RecFault(t) PROVE Goal
  <2>1. Projected(rec[t].job) \in Active \cup Terminal
        /\ "lost" \in Active \cup Terminal
    BY DEF Projected, Terminal
  <2>2. rec[t].i \in Instances
    BY DEF TypeOK, Works
  <2> QED
    BY <1>5, <2>1, <2>2
       DEF Reconcile, RecFault, Scan, Inspect, InspectBuried, RecKill,
           Converge, Lose, Reread, Mark, Bury, Project, Repair, Fill
<1>6. CASE Running \/ Crash
  BY <1>6 DEF Running, Fork, LeaderExits, OthersExit, Crash
<1>7. CASE UNCHANGED vars
  BY <1>7 DEF vars
<1> QED
  BY <1>1, <1>3, <1>4, <1>5, <1>6, <1>7 DEF Next

\* A row keeps its launch, and a terminal row all it says.
LEMMA RowStands ==
    ASSUME TypeOK, [Next]_vars, NEW i \in Instances
    PROVE  /\ exec[i].state # "none" =>
                 /\ exec'[i].state # "none"
                 /\ exec'[i].launch = exec[i].launch
           /\ exec[i].state \in Terminal => exec'[i] = exec[i]
<1>1. exec[i] \in Rows
  BY DEF TypeOK
<1>2. ASSUME NEW k \in Instances, NEW s \in Active \cup Terminal,
             Terminate(k, s)
      PROVE  /\ exec'[i].launch = exec[i].launch
             /\ exec[i].state # "none" => exec'[i].state # "none"
             /\ exec[i].state \in Terminal => exec'[i] = exec[i]
  BY <1>1, <1>2, Defaults DEF TypeOK, Terminate, Rows
<1> QED
  BY <1>2, RowSteps, Defaults DEF TypeOK

\* Whose step moves a monitor: its own, an abort, or the death of the API.
LaunchStep(l) ==
    \/ \E p \in Pids : Spawn(l, p)
    \/ PersistStart(l) \/ PersistStartFails(l) \/ TearDown(l) \/ TearKill(l)
    \/ FailRun(l) \/ Deliver(l) \/ DeliverFails(l)
WatchStep(l) ==
    \/ TimeOut(l) \/ FireTimer(l) \/ Close(l) \/ CleanUp(l) \/ Report(l)
    \/ Apply(l)
Aborted(l) ==
    /\ mon'[l].pc = mon[l].pc
    /\ mon'[l].pid = mon[l].pid
    /\ \/ mon'[l].timer = mon[l].timer
       \/ mon[l].pc \in {"spawned", "started", "watching"}

LEMMA MonitorSteps ==
    ASSUME TypeOK, [Next]_vars, NEW l \in Launches
    PROVE  \/ Aborted(l)
           \/ LaunchStep(l) \/ WatchStep(l)
           \/ Crash /\ mon[l].pc # "none" /\ mon'[l] = Finished(mon[l])
<1> DEFINE Goal == \/ Aborted(l) \/ LaunchStep(l) \/ WatchStep(l)
                   \/ Crash /\ mon[l].pc # "none" /\ mon'[l] = Finished(mon[l])
<1>0. mon'[l] = mon[l] => Goal
  BY DEF Aborted
<1>1. ASSUME NEW m \in Launches, LaunchStep(m) PROVE Goal
  <2>1. m # l => mon'[l] = mon[l]
    BY <1>1 DEF TypeOK, LaunchStep, Spawn, PersistStart, PersistStartFails,
                TearDown, TearKill, FailRun, Deliver, DeliverFails
  <2> QED
    BY <1>0, <1>1, <2>1
<1>2. ASSUME NEW m \in Launches, WatchStep(m) PROVE Goal
  <2>1. m # l => mon'[l] = mon[l]
    BY <1>2 DEF TypeOK, WatchStep, TimeOut, FireTimer, Close, CleanUp, Report,
                Apply
  <2> QED
    BY <1>0, <1>2, <2>1
<1>3. CASE Stopping
  BY <1>0, <1>3, AbortMarks
     DEF Stopping, CloseRun, Stop, Interrupt, StopDurable, StopKill, Confirm,
         Aborted
<1>4. ASSUME NEW t \in Ticks, Reconcile(t) \/ RecFault(t) PROVE Goal
  BY <1>0, <1>4
     DEF Reconcile, RecFault, Scan, Inspect, InspectBuried, RecKill, Converge,
         Lose, Reread, Mark, Bury, Project, Repair, Fill
<1>5. CASE Running
  BY <1>0, <1>5 DEF Running, Fork, LeaderExits, OthersExit
<1>6. CASE Crash
  BY <1>0, <1>6 DEF Crash
<1>7. CASE UNCHANGED vars
  BY <1>0, <1>7 DEF vars
<1>8. /\ Launching => \E m \in Launches : LaunchStep(m)
      /\ Watching => \E m \in Launches : WatchStep(m)
  BY DEF Launching, LaunchStep, Watching, WatchStep
<1> QED
  BY <1>1, <1>2, <1>3, <1>4, <1>5, <1>6, <1>7, <1>8 DEF Next

\* How its own steps move a monitor.
Moves(l, from, to) == mon[l].pc \in from /\ mon'[l].pc \in to
LEMMA LaunchMoves ==
    ASSUME TypeOK, NEW l \in Launches, LaunchStep(l)
    PROVE  /\ mon[l].pc # "none" => mon'[l].pid = mon[l].pid
           /\ \/ /\ \E p \in Pids : Spawn(l, p) /\ mon'[l].pid = p
                 /\ Moves(l, {"none"}, {"spawned", "refused"})
                 /\ mon'[l].timer = mon[l].timer
              \/ /\ PersistStart(l) \/ PersistStartFails(l)
                 /\ Moves(l, {"spawned"}, {"started", "refused"})
                 /\ mon'[l].timer = mon[l].timer
              \/ /\ TearDown(l) \/ TearKill(l)
                 /\ \/ /\ Moves(l, {"refused"}, {"tearing", "thrown"})
                       /\ mon'[l].timer = "off"
                    \/ /\ Moves(l, {"tearing"}, {"thrown"})
                       /\ mon'[l].timer = mon[l].timer
              \/ /\ FailRun(l)
                 /\ Moves(l, {"thrown"}, {"over"})
                 /\ mon'[l].timer = "off"
              \/ /\ Deliver(l) \/ DeliverFails(l)
                 /\ Moves(l, {"started"}, {"watching"})
<1>0. mon[l] \in Monitors
  BY DEF TypeOK
<1>1. ASSUME NEW p \in Pids, Spawn(l, p)
      PROVE  /\ mon'[l].pid = p
             /\ Moves(l, {"none"}, {"spawned", "refused"})
             /\ mon'[l].timer = mon[l].timer
  BY <1>0, <1>1 DEF TypeOK, Monitors, Moves, Spawn
<1>2. CASE PersistStart(l) \/ PersistStartFails(l)
  BY <1>0, <1>2 DEF TypeOK, Monitors, Moves, PersistStart, PersistStartFails
<1>3. CASE TearDown(l) \/ TearKill(l)
  BY <1>0, <1>3 DEF TypeOK, Monitors, Moves, TearDown, TearKill
<1>4. CASE FailRun(l)
  BY <1>0, <1>4, FinishedTyped DEF TypeOK, Moves, FailRun
<1>5. CASE Deliver(l) \/ DeliverFails(l)
  BY <1>0, <1>5 DEF TypeOK, Monitors, Moves, Deliver, DeliverFails
<1>6. mon[l].pc = "none" \/ ~ \E p \in Pids : Spawn(l, p)
  BY DEF Spawn
<1> QED
  BY <1>1, <1>2, <1>3, <1>4, <1>5, <1>6 DEF LaunchStep

LEMMA WatchMoves ==
    ASSUME TypeOK, NEW l \in Launches, WatchStep(l)
    PROVE  /\ mon'[l].pid = mon[l].pid
           /\ \/ TimeOut(l) /\ Moves(l, {"watching"}, {"watching"})
              \/ /\ FireTimer(l)
                 /\ mon[l].timer = "set" /\ mon'[l].timer = "fired"
                 /\ mon'[l].pc = mon[l].pc
              \/ /\ Close(l)
                 /\ Moves(l, {"watching"}, {"cleaning", "report"})
                 /\ mon'[l].timer = "off"
              \/ /\ CleanUp(l)
                 /\ \/ /\ Moves(l, {"cleaning"}, {"report"})
                       /\ mon'[l].timer = mon[l].timer
                    \/ /\ Moves(l, {"cleaning"}, {"over"})
                       /\ mon'[l].timer = "off"
              \/ /\ Report(l)
                 /\ Moves(l, {"report"}, {"apply"})
                 /\ mon'[l].timer = mon[l].timer
              \/ /\ Apply(l)
                 /\ Moves(l, {"apply"}, {"over"})
                 /\ mon'[l].timer = "off"
<1>0. mon[l] \in Monitors
  BY DEF TypeOK
<1>1. CASE TimeOut(l) \/ FireTimer(l)
  BY <1>0, <1>1 DEF TypeOK, Monitors, Moves, TimeOut, FireTimer
<1>2. CASE Close(l)
  BY <1>0, <1>2 DEF TypeOK, Monitors, Moves, Close
<1>3. CASE CleanUp(l)
  BY <1>0, <1>3, FinishedTyped DEF TypeOK, Monitors, Moves, CleanUp
<1>4. CASE Report(l)
  <2>1. PICK result \in {"cancelled", "succeeded", "failed"} :
           mon' = [mon EXCEPT ![l].pc = "apply", ![l].result = result]
    BY <1>4 DEF Report
  <2> QED
    BY <1>0, <1>4, <2>1 DEF TypeOK, Monitors, Moves, Report
<1>5. CASE Apply(l)
  BY <1>0, <1>5, FinishedTyped DEF TypeOK, Moves, Apply
<1> QED
  BY <1>1, <1>2, <1>3, <1>4, <1>5 DEF WatchStep

\* A monitor keeps its process id, and one that is over stays so.
LEMMA MonitorStands ==
    ASSUME TypeOK, [Next]_vars, NEW l \in Launches
    PROVE  /\ mon[l].pc # "none" =>
                 mon'[l].pc # "none" /\ mon'[l].pid = mon[l].pid
           /\ mon[l].pc = "over" => mon'[l].pc = "over"
<1>1. CASE LaunchStep(l)
  BY <1>1, LaunchMoves DEF Moves
<1>2. CASE WatchStep(l)
  BY <1>2, WatchMoves DEF Moves
<1>3. mon'[l] = Finished(mon[l]) =>
         mon'[l].pid = mon[l].pid /\ mon'[l].pc = "over"
  BY FinishedTyped DEF TypeOK
<1> QED
  BY <1>1, <1>2, <1>3, MonitorSteps DEF Aborted

\* The handle of a row names one process id for good.
LEMMA HandleStands ==
    ASSUME TypeOK, Wired, [Next]_vars, NEW i \in Instances,
           exec[i].state # "none"
    PROVE  /\ exec'[i].state # "none" /\ exec'[i].launch = exec[i].launch
           /\ exec[i].launch \in Launches
           /\ Pid(i) \in Pids /\ Pid(i)' = Pid(i)
<1>1. exec[i].launch \in Launches /\ mon[exec[i].launch].pc # "none"
  BY DEF Wired
<1> QED
  BY <1>1, RowStands, MonitorStands, PidTyped DEF Pid

\* An abort comes to kill by a row that is there.
LEMMA KillersBegin ==
    ASSUME TypeOK, [Next]_vars, NEW i \in Instances,
           stop'[i].pc = "killing"
    PROVE  \/ stop[i].pc = "killing"
           \/ exec[i].state \in Active /\ StopDurable(i)
<1> DEFINE Goal == \/ stop[i].pc = "killing"
                   \/ exec[i].state \in Active /\ StopDurable(i)
<1>0. stop'[i] = stop[i] => Goal
  OBVIOUS
<1>1. ASSUME NEW k \in Instances,
             CloseRun(k) \/ Stop(k) \/ Interrupt(k) \/ Confirm(k)
      PROVE  Goal
  <2>1. stop[k] \in Aborts
    BY DEF TypeOK
  <2> QED
    BY <1>1, <2>1
       DEF TypeOK, CloseRun, Stop, Interrupt, Confirm, Rested, Aborts
<1>2. ASSUME NEW k \in Instances, AbortChild(k) PROVE Goal
  <2>1. Answer(k, TRUE) \/ stop' = [stop EXCEPT ![k].pc = "durable"]
    BY <1>2, AbortMarks
  <2>2. stop[k] \in Aborts
    BY DEF TypeOK
  <2>3. stop' = [stop EXCEPT ![k].pc = "durable"] => Goal
    BY <2>2 DEF TypeOK, Aborts
  <2> QED
    BY <1>0, <2>1, <2>3, AnswerTyped
<1>3. ASSUME NEW k \in Instances, StopDurable(k) \/ StopKill(k) PROVE Goal
  <2>1. \/ \E ok \in BOOLEAN : Answer(k, ok)
        \/ /\ exec[k].state \in Active /\ StopDurable(k)
           /\ stop' = [stop EXCEPT ![k].pc = "killing"]
    BY <1>3 DEF StopDurable, StopKill
  <2>2. CASE \E ok \in BOOLEAN : Answer(k, ok)
    BY <1>0, <2>2, AnswerTyped
  <2>3. stop' = [stop EXCEPT ![k].pc = "killing"] /\ k # i => stop'[i] = stop[i]
    OBVIOUS
  <2> QED
    BY <1>0, <2>1, <2>2, <2>3
<1>4. CASE Launching \/ Watching \/ Running
  <2>1. UNCHANGED stop
    BY <1>4
       DEF Launching, Spawn, PersistStart, PersistStartFails, TearDown,
           TearKill, FailRun, Deliver, DeliverFails, Watching, TimeOut,
           FireTimer, Close, CleanUp, Report, Apply, Running, Fork,
           LeaderExits, OthersExit
  <2> QED
    BY <1>0, <2>1
<1>5. ASSUME NEW t \in Ticks, Reconcile(t) \/ RecFault(t) PROVE Goal
  <2>1. UNCHANGED stop
    BY <1>5
       DEF Reconcile, RecFault, Scan, Inspect, InspectBuried, RecKill,
           Converge, Lose, Reread, Mark, Bury, Project, Repair, Fill
  <2> QED
    BY <1>0, <2>1
<1>6. CASE Crash
  BY <1>0, <1>6 DEF Crash, Rested
<1>7. CASE UNCHANGED vars
  <2>1. UNCHANGED stop
    BY <1>7 DEF vars
  <2> QED
    BY <1>0, <2>1
<1> HIDE DEF Goal
<1> QED
  BY <1>1, <1>2, <1>3, <1>4, <1>5, <1>6, <1>7 DEF Next, Stopping, Goal

\* The work of a tick is moved by the tick alone, or dropped.
LEMMA WorkSteps ==
    ASSUME TypeOK, [Next]_vars, NEW t \in Ticks
    PROVE  rec'[t] = rec[t] \/ rec'[t] = NoWork \/ Reconcile(t)
<1> DEFINE Goal == rec'[t] = rec[t] \/ rec'[t] = NoWork \/ Reconcile(t)
<1>1. ASSUME NEW u \in Ticks, Reconcile(u) \/ RecFault(u) PROVE Goal
  <2>1. u # t => rec'[t] = rec[t]
    BY <1>1
       DEF TypeOK, Reconcile, RecFault, Scan, Take, Rest, Proceed, Inspect,
           InspectBuried, RecKill, Converge, Lose, Reread, Mark, Bury, Project,
           Repair, Fill
  <2>2. RecFault(t) => rec'[t] = NoWork
    BY DEF TypeOK, RecFault, Rest
  <2> QED
    BY <1>1, <2>1, <2>2
<1>2. CASE Launching \/ Watching \/ Running
  BY <1>2
     DEF Launching, Spawn, PersistStart, PersistStartFails, TearDown, TearKill,
         FailRun, Deliver, DeliverFails, Watching, TimeOut, FireTimer, Close,
         CleanUp, Report, Apply, Running, Fork, LeaderExits, OthersExit
<1>3. CASE Stopping
  BY <1>3 DEF Stopping, CloseRun, Stop, Interrupt, AbortChild, StopDurable,
              StopKill, Confirm
<1>4. CASE Crash
  BY <1>4 DEF Crash
<1>5. CASE UNCHANGED vars
  BY <1>5 DEF vars
<1> QED
  BY <1>1, <1>2, <1>3, <1>4, <1>5 DEF Next

\* What a tick starts to work on is there, and it works on nothing else.
LEMMA WorkMoves ==
    ASSUME TypeOK, NEW t \in Ticks, Reconcile(t)
    PROVE  \/ /\ rec[t].pc = "idle"
              /\ \E i \in Instances : /\ Scan(t, i)
                                      /\ rec'[t].i = i
                                      /\ exec[i].state # "none"
           \/ /\ rec[t].pc # "idle"
              /\ rec'[t].i = rec[t].i
              /\ rec'[t].waited = rec[t].waited
              /\ rec'[t].state = rec[t].state
           \/ rec'[t] = NoWork
<1>0. rec[t] \in Works
  BY DEF TypeOK
<1>1. ASSUME NEW i \in Instances, Scan(t, i)
      PROVE  /\ rec[t].pc = "idle"
             /\ rec'[t].i = i
             /\ exec[i].state # "none"
  BY <1>1, Defaults DEF TypeOK, Scan, Take
<1>2. ASSUME NEW pc, Proceed(t, pc)
      PROVE  /\ rec'[t].i = rec[t].i
             /\ rec'[t].waited = rec[t].waited
             /\ rec'[t].state = rec[t].state
  BY <1>0, <1>2 DEF TypeOK, Proceed, Works
<1>3. Rest(t) => rec'[t] = NoWork
  BY DEF TypeOK, Rest
<1>4. CASE Reread(t) \/ Repair(t)
  BY <1>0, <1>3, <1>4 DEF TypeOK, Reread, Repair, Works
<1>5. CASE \/ Inspect(t) \/ InspectBuried(t) \/ RecKill(t) \/ Converge(t)
           \/ Lose(t) \/ Mark(t) \/ Bury(t) \/ Project(t) \/ Fill(t)
  <2>1. rec[t].pc # "idle" /\ (Rest(t) \/ \E pc : Proceed(t, pc))
    BY <1>5 DEF Inspect, InspectBuried, RecKill, Converge, Lose, Mark, Bury,
                Project, Fill
  <2> QED
    BY <1>2, <1>3, <2>1
<1> QED
  BY <1>1, <1>4, <1>5 DEF Reconcile

---------------------------------------------------------------------------
(* Wiring                                                                   *)

LEMMA InitWired == Init => Wired
<1> SUFFICES ASSUME Init PROVE Wired
  OBVIOUS
<1>1. \A l \in Launches : mon[l].pc = "none" /\ mon[l].timer = "off"
  BY DEF Init, Unlaunched
<1>2. \A i \in Instances : exec[i].state = "none" /\ stop[i].pc = "none"
  BY DEF Init, NoRow
<1>3. \A t \in Ticks : rec[t].pc = "idle"
  BY DEF Init, NoWork
<1> QED
  BY <1>1, <1>2, <1>3 DEF Wired

LEMMA StepWired ==
    ASSUME TypeOK, Wired, [Next]_vars
    PROVE  Wired'
<1>1. ASSUME NEW l \in Launches
      PROVE  /\ mon'[l].pc # "none" => mon'[l].pid \in Pids
             /\ mon'[l].timer = "set" =>
                   mon'[l].pc \in {"spawned", "refused", "started",
                                   "watching"}
  <2>0. /\ mon[l].pc # "none" => mon[l].pid \in Pids
        /\ mon[l].timer = "set" =>
              mon[l].pc \in {"spawned", "refused", "started", "watching"}
    BY DEF Wired
  <2>1. CASE LaunchStep(l)
    BY <2>0, <2>1, LaunchMoves DEF Moves
  <2>2. CASE WatchStep(l)
    BY <2>0, <2>2, WatchMoves DEF Moves
  <2>3. CASE mon[l].pc # "none" /\ mon'[l] = Finished(mon[l])
    BY <2>0, <2>3, FinishedTyped DEF TypeOK
  <2>4. CASE Aborted(l)
    BY <2>0, <2>4 DEF Aborted
  <2> QED
    BY <2>1, <2>2, <2>3, <2>4, MonitorSteps
<1>2. ASSUME NEW i \in Instances, exec'[i].state # "none"
      PROVE  /\ exec'[i].launch \in Launches
             /\ instanceOf'[exec'[i].launch] = i
             /\ mon'[exec'[i].launch].pc # "none"
  <2>1. instanceOf' = instanceOf
    BY RowSteps
  <2>2. CASE exec[i].state # "none"
    <3>1. /\ exec[i].launch \in Launches
          /\ instanceOf[exec[i].launch] = i
          /\ mon[exec[i].launch].pc # "none"
      BY <2>2 DEF Wired
    <3> QED
      BY <2>1, <2>2, <3>1, HandleStands, MonitorStands
  <2>3. CASE exec[i].state = "none"
    <3>1. PICK l \in Launches :
             /\ mon[l].pc = "spawned"
             /\ exec' = [exec EXCEPT ![instanceOf[l]] =
                            [state |-> "running", launch |-> l]]
      BY <1>2, <2>3, RowSteps, Defaults DEF TypeOK, Terminate
    <3>2. instanceOf[l] = i /\ exec'[i].launch = l
      BY <1>2, <2>3, <3>1 DEF TypeOK
    <3> QED
      BY <2>1, <3>1, <3>2, MonitorStands
  <2> QED
    BY <2>2, <2>3
<1>3. ASSUME NEW i \in Instances, stop'[i].pc = "killing"
      PROVE  exec'[i].state # "none"
  <2>1. exec[i].state # "none"
    BY <1>3, KillersBegin, Defaults DEF Wired
  <2> QED
    BY <2>1, RowStands
<1>4. ASSUME NEW t \in Ticks, rec'[t].pc # "idle"
      PROVE  exec'[rec'[t].i].state # "none"
  <2>1. rec'[t] # NoWork
    BY <1>4 DEF NoWork
  <2>2. exec[rec'[t].i].state # "none" /\ rec'[t].i \in Instances
    BY <1>4, <2>1, WorkSteps, WorkMoves DEF Wired, TypeOK, Works
  <2> QED
    BY <2>2, RowStands
<1> QED
  BY <1>1, <1>2, <1>3, <1>4 DEF Wired

\* Every variable keeps to its type, a handle to its run: the ground on which
\* the other invariants stand.
THEOREM Typed == Spec => [](TypeOK /\ Wired)
<1>1. Init => TypeOK /\ Wired
  BY InitTyped, InitWired
<1>2. TypeOK /\ Wired /\ [Next]_vars => TypeOK' /\ Wired'
  BY StepTyped, StepWired
<1> QED
  BY <1>1, <1>2, PTL DEF Spec

\* The type invariant: processes, rows, monitors, aborts and ticks keep to
\* the states their code knows.
THEOREM ExecutionTypes == Spec => []TypeOK
BY Typed, PTL

\* A row that says how a process ended is never written again.
THEOREM TerminalStateStands == Spec => TerminalStands
<1>1. TypeOK /\ [Next]_vars =>
         [\A i \in Instances :
             exec[i].state \in Terminal => exec'[i] = exec[i]]_vars
  BY RowStands
<1> QED
  BY <1>1, Typed, PTL DEF Spec, TerminalStands

---------------------------------------------------------------------------
(* One prompt per run                                                       *)

LEMMA StepClaimed ==
    ASSUME TypeOK, Wired, ClaimedFirst, [Next]_vars
    PROVE  ClaimedFirst'
<1> SUFFICES ASSUME NEW l \in Launches,
                    \/ l \in prompted'
                    \/ mon'[l].pc \in {"started", "watching", "cleaning",
                                       "report", "apply"}
             PROVE  Claimed(l)'
  BY DEF ClaimedFirst
<1>0. /\ instanceOf' = instanceOf
      /\ instanceOf[l] \in Instances
  BY RowSteps DEF TypeOK
<1>1. CASE Claimed(l)
  BY <1>0, <1>1, RowStands DEF Claimed
<1>2. CASE ~Claimed(l) /\ PersistStart(l)
  <2>1. exec[instanceOf[l]].state = "none" => Claimed(l)'
    BY <1>0, <1>2 DEF TypeOK, PersistStart, Claimed
  <2>2. exec[instanceOf[l]].state # "none" => mon'[l].pc = "refused"
    BY <1>2 DEF TypeOK, PersistStart, Monitors
  <2>3. prompted' = prompted
    BY <1>2 DEF PersistStart
  <2> QED
    BY <1>2, <2>1, <2>2, <2>3 DEF ClaimedFirst
<1>3. CASE ~Claimed(l) /\ ~PersistStart(l)
  <2>1. /\ l \notin prompted
        /\ mon[l].pc \notin {"started", "watching", "cleaning", "report",
                             "apply"}
    BY <1>3 DEF ClaimedFirst
  <2>2. mon'[l].pc \notin {"started", "watching", "cleaning", "report",
                           "apply"}
    <3>1. CASE LaunchStep(l)
      <4>1. PersistStartFails(l) => mon'[l].pc = "refused"
        BY DEF TypeOK, PersistStartFails, Monitors
      <4> QED
        BY <1>3, <2>1, <3>1, <4>1, LaunchMoves DEF Moves
    <3>2. CASE WatchStep(l)
      BY <2>1, <3>2, WatchMoves DEF Moves
    <3>3. mon'[l] = Finished(mon[l]) => mon'[l].pc = "over"
      BY FinishedTyped DEF TypeOK
    <3> QED
      BY <2>1, <3>1, <3>2, <3>3, MonitorSteps DEF Aborted
  <2>3. l \notin prompted'
    <3>1. CASE \E m \in Launches : Deliver(m)
      BY <2>1, <3>1 DEF Deliver
    <3>2. CASE ~ \E m \in Launches : Deliver(m)
      <4>1. CASE Launching \/ Watching \/ Running
        BY <2>1, <3>2, <4>1
           DEF Launching, Spawn, PersistStart, PersistStartFails, TearDown,
               TearKill, FailRun, DeliverFails, Watching, TimeOut, FireTimer,
               Close, CleanUp, Report, Apply, Running, Fork, LeaderExits,
               OthersExit
      <4>2. CASE Stopping
        BY <2>1, <4>2 DEF Stopping, CloseRun, Stop, Interrupt, AbortChild,
                          StopDurable, StopKill, Confirm
      <4>3. ASSUME NEW t \in Ticks, Reconcile(t) \/ RecFault(t)
            PROVE  l \notin prompted'
        BY <2>1, <4>3
           DEF Reconcile, RecFault, Scan, Inspect, InspectBuried, RecKill,
               Converge, Lose, Reread, Mark, Bury, Project, Repair, Fill
      <4>4. CASE Crash \/ UNCHANGED vars
        BY <2>1, <4>4 DEF Crash, vars
      <4> QED
        BY <4>1, <4>2, <4>3, <4>4 DEF Next
    <3> QED
      BY <3>1, <3>2
  <2> QED
    BY <2>2, <2>3
<1> QED
  BY <1>1, <1>2, <1>3

LEMMA AlwaysClaimed == Spec => []ClaimedFirst
<1>1. Init => ClaimedFirst
  BY DEF Init, ClaimedFirst, Unlaunched
<1>2. TypeOK /\ Wired /\ ClaimedFirst /\ [Next]_vars => ClaimedFirst'
  BY StepClaimed
<1> QED
  BY <1>1, <1>2, Typed, PTL DEF Spec

\* Two launches of a run never both send their prompt: the claim of the row
\* decides between them, whatever crashes, answers lost or refusals follow.
THEOREM PromptOnce == Spec => []OnePromptPerRun
<1>1. TypeOK /\ ClaimedFirst => OnePromptPerRun
  BY DEF TypeOK, ClaimedFirst, Claimed, OnePromptPerRun
<1> QED
  BY <1>1, Typed, AlwaysClaimed, PTL

---------------------------------------------------------------------------
(* Terminal truth and the process tree                                      *)

TreesApart ==
    \A l \in Launches, p \in Pids :
        l \in {os[p].leader, os[p].others} =>
           mon[l].pc # "none" /\ mon[l].pid = p

\* A group that is gone, or killed, takes the tree of the launch with it.
LEMMA GroupOfTree ==
    ASSUME TypeOK, TreesAtHome, NEW l \in Launches, mon[l].pid \in Pids
    PROVE  /\ ~GroupExists(mon[l].pid) => TreeGone(l)
           /\ \A m : Kill(mon[l].pid, m) => TreeGone(l)'
<1>1. \A p \in Pids \ {mon[l].pid} : os[p].leader # l /\ os[p].others # l
  BY DEF TreesAtHome
<1>2. Nobody # l
  BY LaunchesAssumption
<1>3. ~GroupExists(mon[l].pid) => TreeGone(l)
  BY <1>1, <1>2 DEF GroupExists, TreeGone
<1>4. ASSUME NEW m, Kill(mon[l].pid, m) PROVE TreeGone(l)'
  BY <1>1, <1>2, <1>4 DEF TypeOK, Kill, TreeGone
<1> QED
  BY <1>3, <1>4

\* The processes of a launch come of its spawning or of one another.
LEMMA ProcessSteps ==
    ASSUME TypeOK, Wired, [Next]_vars
    PROVE  \/ UNCHANGED os
           \/ os' = [p \in Pids |-> [leader |-> Nobody, others |-> Nobody]]
           \/ \E p \in Pids : \E l : Kill(p, l)
           \/ \E l \in Launches, p \in Pids :
                 /\ mon[l].pc = "none" /\ mon'[l].pc # "none"
                 /\ mon'[l].pid = p
                 /\ ~Held(p)
                 /\ os' = [os EXCEPT ![p] = [leader |-> l, others |-> Nobody]]
           \/ Running
<1> DEFINE Kills == \E p \in Pids : \E l : Kill(p, l)
<1>1. CASE Launching
  <2> SUFFICES ASSUME NEW l \in Launches, LaunchStep(l)
               PROVE  \/ UNCHANGED os
                      \/ Kills
                      \/ \E p \in Pids :
                            /\ mon[l].pc = "none" /\ mon'[l].pc # "none"
                            /\ mon'[l].pid = p
                            /\ ~Held(p)
                            /\ os' = [os EXCEPT ![p] =
                                         [leader |-> l, others |-> Nobody]]
    BY <1>1 DEF Launching, LaunchStep
  <2>1. TearKill(l) => UNCHANGED os \/ Kills
    BY DEF TearKill, Wired
  <2>2. ASSUME NEW p \in Pids, Spawn(l, p)
        PROVE  /\ mon[l].pc = "none" /\ mon'[l].pc # "none"
               /\ mon'[l].pid = p
               /\ ~Held(p)
               /\ os' = [os EXCEPT ![p] = [leader |-> l, others |-> Nobody]]
    <3>1. mon[l] \in Monitors
      BY DEF TypeOK
    <3> QED
      BY <2>2, <3>1 DEF TypeOK, Spawn, Monitors
  <2>3. \/ PersistStart(l) \/ PersistStartFails(l) \/ TearDown(l)
        \/ FailRun(l) \/ Deliver(l) \/ DeliverFails(l)
        => UNCHANGED os
    BY DEF PersistStart, PersistStartFails, TearDown, FailRun, Deliver,
           DeliverFails
  <2> QED
    BY <2>1, <2>2, <2>3 DEF LaunchStep
<1>2. CASE Watching
  <2>1. ASSUME NEW l \in Launches, FireTimer(l) \/ CleanUp(l)
        PROVE  UNCHANGED os \/ Kills
    BY <2>1 DEF FireTimer, CleanUp, Wired
  <2> QED
    BY <1>2, <2>1 DEF Watching, TimeOut, Close, Report, Apply
<1>3. CASE Stopping
  <2>1. ASSUME NEW i \in Instances, StopKill(i)
        PROVE  UNCHANGED os \/ Kills
    <3>1. Pid(i) \in Pids
      BY <2>1, PidTyped DEF StopKill, Wired
    <3> QED
      BY <2>1, <3>1 DEF StopKill
  <2> QED
    BY <1>3, <2>1 DEF Stopping, CloseRun, Stop, Interrupt, AbortChild,
                      StopDurable, Confirm
<1>4. ASSUME NEW t \in Ticks, Reconcile(t) \/ RecFault(t)
      PROVE  UNCHANGED os \/ Kills
  <2>1. ASSUME RecKill(t) PROVE UNCHANGED os \/ Kills
    <3>1. rec[t].i \in Instances /\ exec[rec[t].i].state # "none"
      BY <2>1 DEF TypeOK, Works, RecKill, Wired
    <3>2. Pid(rec[t].i) \in Pids
      BY <3>1, PidTyped
    <3> QED
      BY <2>1, <3>2 DEF RecKill
  <2> QED
    BY <1>4, <2>1
       DEF Reconcile, RecFault, Scan, Inspect, InspectBuried, Converge, Lose,
           Reread, Mark, Bury, Project, Repair, Fill
<1>5. Crash \/ UNCHANGED vars =>
         \/ UNCHANGED os
         \/ os' = [p \in Pids |-> [leader |-> Nobody, others |-> Nobody]]
  BY DEF Crash, vars
<1> QED
  BY <1>1, <1>2, <1>3, <1>4, <1>5 DEF Next

LEMMA StepTreesApart ==
    ASSUME TypeOK, Wired, TreesAtHome, [Next]_vars
    PROVE  TreesApart'
<1> SUFFICES ASSUME NEW l \in Launches, NEW p \in Pids,
                    l \in {os'[p].leader, os'[p].others}
             PROVE  mon'[l].pc # "none" /\ mon'[l].pid = p
  BY DEF TreesApart
<1>0. l # Nobody
  BY LaunchesAssumption
<1>1. CASE l \in {os[p].leader, os[p].others}
  BY <1>1, MonitorStands DEF TreesAtHome
<1>2. CASE l \notin {os[p].leader, os[p].others}
  <2>1. os' # os
    BY <1>2
  <2>2. os' # [q \in Pids |-> [leader |-> Nobody, others |-> Nobody]]
    BY <1>0
  <2>3. ~ \E q \in Pids : \E m : Kill(q, m)
    BY <1>0, <1>2 DEF TypeOK, Kill
  <2>4. ~ Running
    BY <1>0, <1>2 DEF TypeOK, Running, Fork, LeaderExits, OthersExit
  <2>5. PICK m \in Launches, q \in Pids :
           /\ mon[m].pc = "none" /\ mon'[m].pc # "none"
           /\ mon'[m].pid = q
           /\ os' = [os EXCEPT ![q] = [leader |-> m, others |-> Nobody]]
    BY <2>1, <2>2, <2>3, <2>4, ProcessSteps
  <2>6. p = q /\ l = m
    BY <1>0, <1>2, <2>5 DEF TypeOK
  <2> QED
    BY <2>5, <2>6
<1> QED
  BY <1>1, <1>2

\* A launch that has begun and lost its tree gets no other.
LEMMA TreeStaysGone ==
    ASSUME TypeOK, Wired, [Next]_vars, NEW l \in Launches,
           mon[l].pc # "none", TreeGone(l)
    PROVE  TreeGone(l)'
<1> SUFFICES ASSUME NEW p \in Pids
             PROVE  os'[p].leader # l /\ os'[p].others # l
  BY DEF TreeGone
<1>0. l # Nobody /\ os[p].leader # l /\ os[p].others # l
  BY LaunchesAssumption DEF TreeGone
<1>1. ASSUME NEW q \in Pids, NEW m, Kill(q, m)
      PROVE  os'[p].leader # l /\ os'[p].others # l
  BY <1>0, <1>1 DEF TypeOK, Kill
<1>2. ASSUME NEW q \in Pids, NEW m \in Launches,
             mon[m].pc = "none",
             os' = [os EXCEPT ![q] = [leader |-> m, others |-> Nobody]]
      PROVE  os'[p].leader # l /\ os'[p].others # l
  BY <1>0, <1>2 DEF TypeOK
<1>3. CASE Running
  BY <1>0, <1>3 DEF TypeOK, Running, Fork, LeaderExits, OthersExit
<1> QED
  BY <1>0, <1>1, <1>2, <1>3, ProcessSteps

\* Whose step ends a row: the monitor of a launch of its run, or a tick.
LEMMA TerminalSteps ==
    ASSUME TypeOK, [Next]_vars, NEW i \in Instances,
           exec[i].state \notin Terminal, exec'[i].state \in Terminal
    PROVE  /\ exec[i].state # "none"
           /\ \/ \E l \in Launches : Report(l) /\ instanceOf[l] = i
              \/ \E t \in Ticks : /\ Converge(t) \/ Bury(t)
                                  /\ rec[t].i = i
<1> DEFINE Goal == /\ exec[i].state # "none"
                   /\ \/ \E l \in Launches : Report(l) /\ instanceOf[l] = i
                      \/ \E t \in Ticks : /\ Converge(t) \/ Bury(t)
                                          /\ rec[t].i = i
<1>0. exec' # exec
  OBVIOUS
<1>1. ASSUME NEW k \in Instances, NEW s, Terminate(k, s)
      PROVE  k = i /\ s \in Terminal /\ exec[i].state # "none"
  BY <1>1, Defaults DEF TypeOK, Terminate, Rows
<1>2. ASSUME NEW l \in Launches, LaunchStep(l) PROVE Goal
  <2>1. ~PersistStart(l) /\ ~PersistStartFails(l)
    BY Defaults DEF TypeOK, PersistStart, PersistStartFails, Active
  <2> QED
    BY <1>0, <1>2, <2>1 DEF LaunchStep, Spawn, TearDown, TearKill, FailRun,
                            Deliver, DeliverFails
<1>3. ASSUME NEW l \in Launches, WatchStep(l) PROVE Goal
  <2>1. instanceOf[l] \in Instances
    BY DEF TypeOK
  <2>2. Report(l) => Goal
    BY <1>0, <1>1, <2>1 DEF Report
  <2> QED
    BY <1>0, <1>3, <2>2 DEF WatchStep, TimeOut, FireTimer, Close, CleanUp,
                            Apply
<1>4. CASE Stopping
  <2>1. "interrupting" \notin Terminal
    BY DEF Terminal
  <2> QED
    BY <1>0, <1>1, <1>4, <2>1
       DEF Stopping, CloseRun, Stop, Interrupt, AbortChild, StopDurable,
           StopKill, Confirm
<1>5. ASSUME NEW t \in Ticks, Reconcile(t) \/ RecFault(t) PROVE Goal
  <2>1. rec[t].i \in Instances
    BY DEF TypeOK, Works
  <2>2. Converge(t) \/ Bury(t) => Goal
    BY <1>1, <2>1 DEF Converge, Bury
  <2> QED
    BY <1>0, <1>5, <2>2
       DEF Reconcile, RecFault, Scan, Inspect, InspectBuried, RecKill, Lose,
           Reread, Mark, Project, Repair, Fill
<1>6. ~Running /\ ~Crash /\ vars' # vars
  BY <1>0 DEF Running, Fork, LeaderExits, OthersExit, Crash, vars
<1> QED
  BY <1>2, <1>3, <1>4, <1>5, <1>6
     DEF Next, Launching, LaunchStep, Watching, WatchStep

\* A tick comes to write a terminal state by a group that is gone or killed.
Writing == {"converge", "lose", "reread", "mark", "bury", "project", "repair",
            "fill"}
LEMMA WritersBegin ==
    ASSUME TypeOK, NEW t \in Ticks, Reconcile(t),
           rec[t].pc \notin Writing, rec'[t].pc \in Writing
    PROVE  \/ ~GroupExists(Pid(rec[t].i))
           \/ \E m : Kill(Pid(rec[t].i), m)
<1>0. rec[t] \in Works /\ rec'[t] # NoWork
  BY DEF TypeOK, NoWork, Writing
<1>1. ~Rest(t)
  BY <1>0 DEF TypeOK, Rest
<1>2. ASSUME NEW pc, Proceed(t, pc) PROVE rec'[t].pc = pc
  BY <1>0, <1>2 DEF TypeOK, Proceed, Works
<1>3. ~ \E i \in Instances : Scan(t, i)
  BY DEF TypeOK, Scan, Take, Writing
<1>4. ~Proceed(t, "stopActive") /\ ~Proceed(t, "stopBuried")
  BY <1>2 DEF Writing
<1>5. Inspect(t) \/ InspectBuried(t) \/ RecKill(t)
  BY <1>3 DEF Reconcile, Converge, Lose, Reread, Mark, Bury, Project, Repair,
              Fill, Writing
<1> QED
  BY <1>1, <1>4, <1>5 DEF Inspect, InspectBuried, RecKill

LEMMA StepTrees ==
    ASSUME TypeOK, Wired, ClaimedFirst, TreesAtHome, [Next]_vars
    PROVE  TreesAtHome'
<1>1. ASSUME NEW l \in Launches, mon'[l].pc \in {"report", "apply"}
      PROVE  TreeGone(l)'
  <2>1. CASE mon[l].pc \in {"report", "apply"}
    BY <2>1, TreeStaysGone DEF TreesAtHome
  <2>2. CASE mon[l].pc \notin {"report", "apply"}
    <3>1. ~LaunchStep(l) /\ ~Aborted(l)
      BY <1>1, <2>2, LaunchMoves DEF Moves, Aborted
    <3>2. mon'[l] # Finished(mon[l])
      BY <1>1, FinishedTyped DEF TypeOK
    <3>3. WatchStep(l)
      BY <3>1, <3>2, MonitorSteps
    <3>4. mon[l].pc # "none" /\ mon'[l].pc = "report"
          /\ (Close(l) \/ CleanUp(l))
      BY <1>1, <2>2, <3>3, WatchMoves DEF Moves
    <3>5. mon[l].pid \in Pids
      BY <3>4 DEF Wired
    <3>6. ~GroupExists(mon[l].pid) \/ Kill(mon[l].pid, l)
      <4>1. mon[l] \in Monitors
        BY DEF TypeOK
      <4>2. Close(l) => ~GroupExists(mon[l].pid)
        BY <3>4, <4>1 DEF TypeOK, Close, Monitors
      <4>3. CleanUp(l) => ~GroupExists(mon[l].pid) \/ Kill(mon[l].pid, l)
        BY <3>2 DEF TypeOK, CleanUp
      <4> QED
        BY <3>4, <4>2, <4>3
    <3> QED
      BY <3>4, <3>5, <3>6, GroupOfTree, TreeStaysGone
  <2> QED
    BY <2>1, <2>2
<1>2. ASSUME NEW t \in Ticks, rec'[t].pc \in Writing
      PROVE  TreeGone(exec[rec[t].i].launch)'
  <2>0. rec'[t] # NoWork
    BY <1>2 DEF NoWork, Writing
  <2>1. rec[t].pc # "idle" /\ rec'[t].i = rec[t].i /\ rec[t].i \in Instances
    <3>1. \A i \in Instances : Scan(t, i) => rec'[t].pc \notin Writing
      BY DEF TypeOK, Scan, Take, Writing
    <3>2. rec[t].i \in Instances
      BY DEF TypeOK, Works
    <3>3. rec'[t] = rec[t] => rec[t].pc # "idle"
      BY <1>2 DEF Writing
    <3> QED
      BY <1>2, <2>0, <3>1, <3>2, <3>3, WorkSteps, WorkMoves
  <2>2. exec[rec[t].i].state # "none"
    BY <2>1 DEF Wired
  <2>3. PICK l \in Launches : l = exec[rec[t].i].launch
    BY <2>1, <2>2 DEF Wired
  <2>4. mon[l].pc # "none" /\ exec'[rec[t].i].launch = l
    BY <2>1, <2>2, <2>3, HandleStands DEF Wired
  <2>5. mon[l].pid \in Pids /\ Pid(rec[t].i) = mon[l].pid
    BY <2>1, <2>2, <2>3, PidTyped DEF Pid
  <2>6. TreeGone(l)'
    <3>1. CASE rec[t].pc \in Writing
      BY <2>3, <2>4, <3>1, TreeStaysGone DEF TreesAtHome, Writing
    <3>2. CASE rec[t].pc \notin Writing
      <4>1. Reconcile(t)
        BY <1>2, <2>0, <3>2, WorkSteps
      <4>2. TreeGone(l) \/ TreeGone(l)'
        BY <1>2, <2>5, <3>2, <4>1, WritersBegin, GroupOfTree
      <4> QED
        BY <2>4, <4>2, TreeStaysGone
    <3> QED
      BY <3>1, <3>2
  <2> QED
    BY <2>1, <2>4, <2>6
<1>3. ASSUME NEW i \in Instances, exec'[i].state \in Terminal
      PROVE  TreeGone(exec[i].launch)'
  <2>1. exec[i].state # "none"
    <3>1. exec[i].state = "none" => exec[i].state \notin Terminal
      BY Defaults
    <3> QED
      BY <1>3, <3>1, TerminalSteps
  <2>2. PICK l \in Launches : l = exec[i].launch
    BY <2>1 DEF Wired
  <2>3. mon[l].pc # "none" /\ exec'[i].launch = l
    BY <2>1, <2>2, HandleStands DEF Wired
  <2>4. TreeGone(l)
    <3>1. CASE exec[i].state \in Terminal
      BY <2>2, <3>1 DEF TreesAtHome, TerminalTreeGone
    <3>2. CASE exec[i].state \notin Terminal
      <4>1. ASSUME NEW m \in Launches, Report(m), instanceOf[m] = i
            PROVE  TreeGone(l)
        BY <2>2, <4>1 DEF Report, ClaimedFirst, Claimed, TreesAtHome
      <4>2. ASSUME NEW t \in Ticks, Converge(t) \/ Bury(t), rec[t].i = i
            PROVE  TreeGone(l)
        BY <2>2, <4>2 DEF Converge, Bury, TreesAtHome
      <4> QED
        BY <1>3, <3>2, <4>1, <4>2, TerminalSteps
    <3> QED
      BY <3>1, <3>2
  <2> QED
    BY <2>3, <2>4, TreeStaysGone
<1>4. TerminalTreeGone'
  BY <1>3 DEF TerminalTreeGone
<1>5. TreesApart'
  BY StepTreesApart
<1>6. \A l \in Launches :
         mon'[l].pc \in {"report", "apply"} => TreeGone(l)'
  BY <1>1
<1>7. \A t \in Ticks : rec'[t].pc \in Writing => TreeGone(exec[rec[t].i].launch)'
  BY <1>2
<1> QED
  BY <1>4, <1>5, <1>6, <1>7 DEF TreesAtHome, TreesApart, Writing

LEMMA AlwaysAtHome == Spec => []TreesAtHome
<1>1. Init => TreesAtHome
  <2> SUFFICES ASSUME Init PROVE TreesAtHome
    OBVIOUS
  <2>1. \A l \in Launches : mon[l].pc = "none" /\ l # Nobody
    BY LaunchesAssumption DEF Init, Unlaunched
  <2>2. \A p \in Pids : os[p].leader = Nobody /\ os[p].others = Nobody
    BY DEF Init
  <2>3. \A i \in Instances : exec[i].state \notin Terminal
    BY Defaults DEF Init, NoRow
  <2>4. \A t \in Ticks : rec[t].pc = "idle"
    BY DEF Init, NoWork
  <2> QED
    BY <2>1, <2>2, <2>3, <2>4 DEF TreesAtHome, TerminalTreeGone
<1>2. TypeOK /\ Wired /\ ClaimedFirst /\ TreesAtHome /\ [Next]_vars
         => TreesAtHome'
  BY StepTrees
<1> QED
  BY <1>1, <1>2, Typed, AlwaysClaimed, PTL DEF Spec

\* No terminal row stands over a process of its run: whoever ends a row has
\* seen the group of its launch gone, and a group that is gone stays so.
THEOREM TerminalMeansGone == Spec => []TerminalTreeGone
<1>1. TreesAtHome => TerminalTreeGone
  BY DEF TreesAtHome
<1> QED
  BY <1>1, AlwaysAtHome, PTL

---------------------------------------------------------------------------
(* Signals                                                                  *)

\* While its id is held a group is nobody else's.
LEMMA GroupStaysOwn ==
    ASSUME TypeOK, Wired, [Next]_vars, NEW p \in Pids, NEW l \in Launches,
           Held(p), OwnGroup(p, l)
    PROVE  OwnGroup(p, l)'
<1>0. {os[p].leader, os[p].others} \subseteq {l, Nobody}
  BY DEF OwnGroup
<1>1. ASSUME NEW q \in Pids, NEW m, Kill(q, m)
      PROVE  {os'[p].leader, os'[p].others} \subseteq {l, Nobody}
  BY <1>0, <1>1 DEF TypeOK, Kill
<1>2. ASSUME NEW q \in Pids, NEW m, ~Held(q),
             os' = [os EXCEPT ![q] = [leader |-> m, others |-> Nobody]]
      PROVE  {os'[p].leader, os'[p].others} \subseteq {l, Nobody}
  <2>1. q # p
    BY <1>2
  <2> QED
    BY <1>0, <1>2, <2>1 DEF TypeOK
<1>3. CASE Running
  BY <1>0, <1>3 DEF TypeOK, Running, Fork, LeaderExits, OthersExit, OwnGroup
<1>4. CASE os' = [q \in Pids |-> [leader |-> Nobody, others |-> Nobody]]
  BY <1>4 DEF OwnGroup
<1>5. CASE UNCHANGED os
  BY <1>0, <1>5 DEF OwnGroup
<1> QED
  BY <1>1, <1>2, <1>3, <1>4, <1>5, ProcessSteps DEF OwnGroup

\* The birth of a leader vouches for its whole group.
LEMMA VerifiedOwn ==
    ASSUME TypeOK, Wired, TargetsOwn, NEW i \in Instances,
           exec[i].state # "none", Verified(i)
    PROVE  OwnGroup(Pid(i), exec[i].launch)
<1>1. Pid(i) \in Pids /\ exec[i].launch # Nobody
  BY PidTyped, LaunchesAssumption
<1> QED
  BY <1>1 DEF TargetsOwn, Verified, OwnGroup

LEMMA KillOwn ==
    ASSUME NEW p, NEW l, OwnGroup(p, l), Kill(p, l), NoBystander
    PROVE  NoBystander'
BY DEF OwnGroup, Kill, NoBystander

LEMMA StepNoBystander ==
    ASSUME TypeOK, Wired, TargetsOwn, [Next]_vars
    PROVE  NoBystander'
<1>0. NoBystander
  BY DEF TargetsOwn
<1>1. UNCHANGED bystanders => NoBystander'
  BY <1>0 DEF NoBystander
<1>2. ASSUME NEW l \in Launches, LaunchStep(l) PROVE NoBystander'
  <2>1. TearKill(l) => NoBystander'
    BY <1>0, <1>1, KillOwn DEF TearKill, TargetsOwn
  <2> QED
    BY <1>1, <1>2, <2>1
       DEF LaunchStep, Spawn, PersistStart, PersistStartFails, TearDown,
           FailRun, Deliver, DeliverFails
<1>3. ASSUME NEW l \in Launches, WatchStep(l) PROVE NoBystander'
  <2>1. FireTimer(l) => NoBystander'
    <3>1. mon[l].timer = "set" => mon[l].pc \notin {"none", "over"}
      BY DEF Wired
    <3> QED
      BY <1>0, <1>1, <3>1, KillOwn DEF FireTimer, TargetsOwn
  <2>2. CleanUp(l) => NoBystander'
    BY <1>0, <1>1, KillOwn DEF CleanUp, TargetsOwn
  <2> QED
    BY <1>1, <1>3, <2>1, <2>2 DEF WatchStep, TimeOut, Close, Report, Apply
<1>4. CASE Stopping
  <2>1. ASSUME NEW i \in Instances, StopKill(i) PROVE NoBystander'
    BY <1>0, <1>1, <2>1, KillOwn DEF StopKill, TargetsOwn
  <2> QED
    BY <1>1, <1>4, <2>1 DEF Stopping, CloseRun, Stop, Interrupt, AbortChild,
                            StopDurable, Confirm
<1>5. ASSUME NEW t \in Ticks, Reconcile(t) \/ RecFault(t) PROVE NoBystander'
  <2>1. RecKill(t) => NoBystander'
    BY <1>0, <1>1, KillOwn DEF RecKill, TargetsOwn
  <2> QED
    BY <1>1, <1>5, <2>1
       DEF Reconcile, RecFault, Scan, Inspect, InspectBuried, Converge, Lose,
           Reread, Mark, Bury, Project, Repair, Fill
<1>6. CASE Running \/ Crash \/ UNCHANGED vars
  BY <1>1, <1>6 DEF Running, Fork, LeaderExits, OthersExit, Crash, vars
<1> QED
  BY <1>2, <1>3, <1>4, <1>5, <1>6
     DEF Next, Launching, LaunchStep, Watching, WatchStep

LEMMA StepTargets ==
    ASSUME "pid" \notin Tardy, TypeOK, Wired, TargetsOwn, [Next]_vars
    PROVE  TargetsOwn'
<1>1. ASSUME NEW p \in Pids
      PROVE  os'[p].others \in {os'[p].leader, Nobody} \/ os'[p].leader = Nobody
  <2>0. os[p].others \in {os[p].leader, Nobody} \/ os[p].leader = Nobody
    BY DEF TargetsOwn
  <2>1. CASE Running
    BY <2>0, <2>1 DEF TypeOK, Running, Fork, LeaderExits, OthersExit
  <2>2. ASSUME NEW q \in Pids, NEW m, Kill(q, m)
        PROVE  os'[p] = os[p] \/ os'[p].leader = Nobody
    BY <2>2 DEF TypeOK, Kill
  <2>3. ASSUME NEW q \in Pids, NEW m,
               os' = [os EXCEPT ![q] = [leader |-> m, others |-> Nobody]]
        PROVE  os'[p] = os[p] \/ os'[p].others = Nobody
    BY <2>3 DEF TypeOK
  <2> QED
    BY <2>0, <2>1, <2>2, <2>3, ProcessSteps
<1>2. ASSUME NEW l \in Launches, mon'[l].pc \notin {"none", "over"}
      PROVE  OwnGroup(mon[l].pid, l)'
  <2>0. mon[l].pc # "over"
    BY <1>2, MonitorStands
  <2>1. CASE mon[l].pc # "none"
    <3>1. PICK p \in Pids : p = mon[l].pid
      BY <2>1 DEF Wired
    <3>2. OwnGroup(p, l) /\ Held(p)
      BY <2>0, <2>1, <3>1 DEF TargetsOwn, Held
    <3>3. mon'[l].pid = p
      BY <2>1, <3>1, MonitorStands
    <3> QED
      BY <3>2, <3>3, GroupStaysOwn DEF OwnGroup
  <2>2. CASE mon[l].pc = "none"
    <3>1. PICK p \in Pids : Spawn(l, p) /\ mon'[l].pid = p
      <4>1. ~WatchStep(l) /\ ~Aborted(l)
        BY <1>2, <2>2, WatchMoves DEF WatchStep, TimeOut, FireTimer, Close,
                                      CleanUp, Report, Apply, Aborted, Wired
      <4>2. LaunchStep(l)
        BY <2>2, <4>1, MonitorSteps
      <4> QED
        BY <2>2, <4>2, LaunchMoves DEF Moves
    <3>2. os'[p] = [leader |-> l, others |-> Nobody]
      BY <3>1 DEF TypeOK, Spawn
    <3> QED
      BY <3>1, <3>2 DEF OwnGroup
  <2> QED
    BY <2>1, <2>2
<1>3. ASSUME NEW i \in Instances, exec[i].state # "none",
             NEW p \in Pids, p = Pid(i), NEW l \in Launches,
             l = exec[i].launch, OwnGroup(p, l), Held(p) \/ UNCHANGED os
      PROVE  OwnGroup(Pid(i), exec[i].launch)'
  <2>1. Pid(i)' = p /\ exec'[i].launch = l
    BY <1>3, HandleStands
  <2>2. OwnGroup(p, l)'
    BY <1>3, GroupStaysOwn DEF OwnGroup
  <2> QED
    BY <2>1, <2>2 DEF OwnGroup
<1>4. ASSUME NEW i \in Instances, stop'[i].pc = "killing"
      PROVE  OwnGroup(Pid(i), exec[i].launch)'
  <2>1. exec[i].state # "none"
    BY <1>4, KillersBegin, Defaults DEF Wired
  <2>2. Pid(i) \in Pids /\ exec[i].launch \in Launches
    BY <2>1, PidTyped
  <2>3. CASE stop[i].pc = "killing"
    <3>1. OwnGroup(Pid(i), exec[i].launch) /\ Held(Pid(i))
      BY <2>3 DEF TargetsOwn, Held
    <3> QED
      BY <1>3, <2>1, <2>2, <3>1
  <2>4. CASE StopDurable(i)
    <3>1. Verified(i) /\ UNCHANGED os
      BY <1>4, <2>4, AnswerTyped DEF StopDurable
    <3> QED
      BY <1>3, <2>1, <2>2, <3>1, VerifiedOwn
  <2> QED
    BY <1>4, <2>3, <2>4, KillersBegin
<1>5. ASSUME NEW t \in Ticks, rec'[t].pc \in {"stopActive", "stopBuried"},
             NEW i \in Instances, i = rec'[t].i
      PROVE  OwnGroup(Pid(i), exec[i].launch)'
  <2>0. rec[t] \in Works /\ rec'[t] # NoWork
    BY <1>5 DEF TypeOK, NoWork
  <2>1. ~ \E k \in Instances : Scan(t, k)
    BY <1>5 DEF TypeOK, Scan, Take
  <2>2. rec[t].pc # "idle" /\ rec[t].i = i
    BY <1>5, <2>0, <2>1, WorkSteps, WorkMoves
  <2>3. exec[i].state # "none"
    BY <2>2 DEF Wired
  <2>4. Pid(i) \in Pids /\ exec[i].launch \in Launches
    BY <2>3, PidTyped
  <2>5. CASE rec[t].pc \in {"stopActive", "stopBuried"}
    <3>1. OwnGroup(Pid(i), exec[i].launch) /\ Held(Pid(i))
      BY <2>2, <2>5 DEF TargetsOwn, Held
    <3> QED
      BY <1>3, <2>3, <2>4, <3>1
  <2>6. CASE rec[t].pc \notin {"stopActive", "stopBuried"}
    <3>1. Reconcile(t)
      BY <1>5, <2>0, <2>6, WorkSteps
    <3>2. ASSUME NEW pc, Proceed(t, pc) PROVE rec'[t].pc = pc
      BY <2>0, <3>2 DEF TypeOK, Proceed, Works
    <3>3. ~Rest(t)
      BY <2>0 DEF TypeOK, Rest
    <3>4. Inspect(t) \/ InspectBuried(t)
      <4>1. ~Reread(t) /\ ~Repair(t)
        BY <1>5, <2>0, <3>3 DEF TypeOK, Reread, Repair, Works
      <4>2. ~ \E pc \in {"converge", "reread", "bury", "project", "repair"} :
                  Proceed(t, pc)
        BY <1>5, <3>2
      <4> QED
        BY <2>1, <2>6, <3>1, <3>3, <4>1, <4>2
           DEF Reconcile, RecKill, Converge, Lose, Mark, Bury, Project, Fill
    <3>5. Verified(i) /\ UNCHANGED os
      BY <1>5, <2>2, <3>2, <3>3, <3>4 DEF Inspect, InspectBuried
    <3> QED
      BY <1>3, <2>3, <2>4, <3>5, VerifiedOwn
  <2> QED
    BY <2>5, <2>6
<1>6. \A t \in Ticks : rec'[t].pc \in {"stopActive", "stopBuried"} =>
         OwnGroup(Pid(rec[t].i), exec[rec[t].i].launch)'
  BY <1>5, StepTyped DEF TypeOK, Works
<1> QED
  BY <1>1, <1>2, <1>4, <1>6, StepNoBystander DEF TargetsOwn

\* No signal hits a process of another launch, provided a process id is not
\* given out again while somebody may still signal the group it named.
THEOREM NobodyElseIsHit ==
    ASSUME "pid" \notin Tardy
    PROVE  Spec => []NoBystander
<1>1. Init => TargetsOwn
  <2> SUFFICES ASSUME Init PROVE TargetsOwn
    OBVIOUS
  <2>1. \A l \in Launches : mon[l].pc = "none"
    BY DEF Init, Unlaunched
  <2>2. /\ \A p \in Pids : os[p].others = Nobody
        /\ \A i \in Instances : stop[i].pc = "none"
        /\ \A t \in Ticks : rec[t].pc = "idle"
        /\ NoBystander
    BY DEF Init, NoWork, NoBystander
  <2> QED
    BY <2>1, <2>2 DEF TargetsOwn
<1>2. TypeOK /\ Wired /\ TargetsOwn /\ [Next]_vars => TargetsOwn'
  BY StepTargets
<1>3. TargetsOwn => NoBystander
  BY DEF TargetsOwn
<1> QED
  BY <1>1, <1>2, <1>3, Typed, PTL DEF Spec

---------------------------------------------------------------------------
(* Success on record                                                        *)

\* How a tick goes from one piece of its work to the next.
WorkGoes(t, from, to) == rec[t].pc = from /\ rec'[t].pc \in to
LEMMA WorkPcs ==
    ASSUME TypeOK, NEW t \in Ticks, Reconcile(t)
    PROVE  \/ rec'[t] = NoWork
           \/ \E i \in Instances :
                 /\ Scan(t, i)
                 /\ rec'[t].i = i /\ rec'[t].job = job[i]
                 /\ rec'[t].state = exec[i].state
                 /\ rec'[t].waited = Waited(i)
                 /\ \/ rec'[t].pc = "active" /\ exec[i].state \in Active
                    \/ rec'[t].pc = "buried" /\ exec[i].state \in Terminal
           \/ /\ rec'[t].job = rec[t].job
              /\ \/ /\ WorkGoes(t, "active", {"stopActive", "converge", "lose"})
                    /\ rec'[t].pc = "lose" => rec[t].waited
                 \/ WorkGoes(t, "buried", {"stopBuried", "project"})
                 \/ WorkGoes(t, "stopActive", {"converge"})
                 \/ WorkGoes(t, "stopBuried", {"project"})
                 \/ /\ WorkGoes(t, "lose", {"bury", "reread"}) /\ Lose(t)
                    /\ rec'[t].pc = "reread" => ~EndClaimed(rec[t].i)
                 \/ WorkGoes(t, "mark", {"bury"})
                 \/ WorkGoes(t, "project", {"repair"})
           \/ /\ rec'[t].job = job[rec[t].i] /\ UNCHANGED job
              /\ \/ WorkGoes(t, "reread", {"converge", "mark"})
                 \/ WorkGoes(t, "repair", {"fill"}) /\ ~RunLive(rec[t].i)
<1>0. rec[t] \in Works
  BY DEF TypeOK
<1>1. ASSUME NEW i \in Instances, Scan(t, i)
      PROVE  /\ rec'[t].i = i /\ rec'[t].job = job[i]
             /\ rec'[t].state = exec[i].state
             /\ rec'[t].waited = Waited(i)
             /\ \/ rec'[t].pc = "active" /\ exec[i].state \in Active
                \/ rec'[t].pc = "buried" /\ exec[i].state \in Terminal
  BY <1>1 DEF TypeOK, Scan, Take
<1>2. ASSUME NEW pc, Proceed(t, pc)
      PROVE  rec'[t].pc = pc /\ rec'[t].job = rec[t].job
  BY <1>0, <1>2 DEF TypeOK, Proceed, Works
<1>3. Rest(t) => rec'[t] = NoWork
  BY DEF TypeOK, Rest
<1>4. CASE Reread(t)
  BY <1>0, <1>4 DEF TypeOK, Reread, Works, WorkGoes
<1>5. CASE Repair(t)
  <2>1. RunLive(rec[t].i) => Rest(t)
    BY <1>5 DEF Repair
  <2>2. ~RunLive(rec[t].i) =>
           /\ rec'[t].job = job[rec[t].i] /\ UNCHANGED job
           /\ WorkGoes(t, "repair", {"fill"})
    BY <1>0, <1>5 DEF TypeOK, Repair, Works, WorkGoes
  <2> QED
    BY <1>3, <2>1, <2>2
<1>6. CASE Inspect(t)
  BY <1>2, <1>3, <1>6 DEF Inspect, WorkGoes
<1>7. CASE InspectBuried(t) \/ RecKill(t)
  BY <1>2, <1>3, <1>7 DEF InspectBuried, RecKill, WorkGoes
<1>8. CASE Lose(t)
  BY <1>2, <1>8 DEF Lose, WorkGoes
<1>9. CASE Mark(t) \/ Project(t)
  BY <1>2, <1>3, <1>9 DEF Mark, Project, WorkGoes
<1>10. Converge(t) \/ Bury(t) \/ Fill(t) => Rest(t)
  BY DEF Converge, Bury, Fill
<1> QED
  BY <1>1, <1>3, <1>4, <1>5, <1>6, <1>7, <1>8, <1>9, <1>10 DEF Reconcile

\* Whose step writes the row of a run.
LEMMA RunSteps ==
    ASSUME TypeOK, [Next]_vars, NEW i \in Instances, job'[i] # job[i]
    PROVE  \/ job'[i] = [job[i] EXCEPT !.st = "failed"]
           \/ \E success \in {"yes", "no"} : ApplyEnd(i, success, "self")
           \/ CloseRun(i) \/ Confirm(i)
           \/ \E t \in Ticks :
                 /\ rec[t].i = i
                 /\ Lose(t) \/ Mark(t) \/ Project(t) \/ Repair(t) \/ Fill(t)
<1> DEFINE Goal == \/ job'[i] = [job[i] EXCEPT !.st = "failed"]
                   \/ \E success \in {"yes", "no"} :
                         ApplyEnd(i, success, "self")
                   \/ CloseRun(i) \/ Confirm(i)
                   \/ \E t \in Ticks :
                         /\ rec[t].i = i
                         /\ \/ Lose(t) \/ Mark(t) \/ Project(t) \/ Repair(t)
                            \/ Fill(t)
<1>0. ~UNCHANGED job
  OBVIOUS
<1>1. ASSUME NEW l \in Launches, LaunchStep(l) PROVE Goal
  <2>1. FailRun(l) \/ DeliverFails(l) => Goal
    BY DEF TypeOK, FailRun, DeliverFails
  <2> QED
    BY <1>0, <1>1, <2>1
       DEF LaunchStep, Spawn, PersistStart, PersistStartFails, TearDown,
           TearKill, Deliver
<1>2. ASSUME NEW k, NEW success, NEW source, ApplyEnd(k, success, source)
      PROVE  k = i
  BY <1>2 DEF TypeOK, ApplyEnd
<1>3. ASSUME NEW l \in Launches, WatchStep(l) PROVE Goal
  <2>1. Apply(l) => Goal
    BY <1>0, <1>2 DEF Apply
  <2> QED
    BY <1>0, <1>3, <2>1
       DEF WatchStep, TimeOut, FireTimer, Close, CleanUp, Report
<1>4. ASSUME NEW k \in Instances,
             \/ CloseRun(k) \/ Stop(k) \/ Interrupt(k) \/ AbortChild(k)
             \/ StopDurable(k) \/ StopKill(k) \/ Confirm(k)
      PROVE  Goal
  <2>1. CloseRun(k) \/ Confirm(k) => k = i
    BY DEF TypeOK, CloseRun, Confirm
  <2>2. Stop(k) => Goal
    BY DEF TypeOK, Stop
  <2> QED
    BY <1>0, <1>4, <2>1, <2>2 DEF Interrupt, AbortChild, StopDurable, StopKill
<1>5. ASSUME NEW t \in Ticks, Reconcile(t) \/ RecFault(t) PROVE Goal
  <2>1. Lose(t) \/ Mark(t) \/ Project(t) \/ Repair(t) \/ Fill(t)
    BY <1>0, <1>5 DEF Reconcile, RecFault, Scan, Inspect, InspectBuried,
                      RecKill, Converge, Reread, Bury
  <2>2. Lose(t) \/ Project(t) => rec[t].i = i
    BY <1>0, <1>2 DEF Lose, Project
  <2>3. Mark(t) \/ Repair(t) \/ Fill(t) => rec[t].i = i
    BY DEF TypeOK, Mark, Repair, Fill, MarkEnded
  <2> QED
    BY <2>1, <2>2, <2>3
<1>6. ~Running /\ ~Crash /\ vars' # vars
  BY <1>0 DEF Running, Fork, LeaderExits, OthersExit, Crash, vars
<1> QED
  BY <1>1, <1>3, <1>4, <1>5, <1>6
     DEF Next, Launching, LaunchStep, Watching, WatchStep, Stopping

\* What the row of a run may become: no life after an end, no end without a
\* verdict, no other verdict than a success once given.
Onward(j, k) ==
    /\ k.st = "live" => k = NewJob
    /\ Verdicts(k)
    /\ j.success = "yes" => k.success = "yes"
    /\ j.st # "live" => k.st # "live"

LEMMA EndedOnward ==
    ASSUME NEW j \in Jobs, NEW st \in {"done", "failed", "cancelled"},
           NEW success \in {"yes", "no"}, NEW source
    PROVE  /\ Onward(j, Ended(j, st, success, source))
           /\ Ended(j, st, success, source).success =
                 IF j.success = "unset" THEN success ELSE j.success
           /\ Ended(j, st, success, source).source = source
BY DEF Onward, Ended, Verdicts, Jobs

\* An end is claimed of a run that knows nothing of an end.
LEMMA ApplyEndOnward ==
    ASSUME TypeOK, RunsEndOnce, NEW i \in Instances,
           NEW success \in {"yes", "no"}, NEW source,
           ApplyEnd(i, success, source), job'[i] # job[i]
    PROVE  /\ Onward(job[i], job'[i])
           /\ job[i].success = "unset"
           /\ job'[i].success = success
           /\ job'[i].source = source
<1>1. job[i] \in Jobs
  BY DEF TypeOK
<1>2. EndClaimed(i)
  BY DEF ApplyEnd
<1>3. PICK st \in {"failed", "done"} :
         job' = [job EXCEPT ![i] = Ended(job[i], st, success, source)]
  BY <1>2 DEF ApplyEnd
<1>4. job'[i] = Ended(job[i], st, success, source)
  BY <1>3 DEF TypeOK
<1>5. job[i].success = "unset"
  BY <1>2 DEF EndClaimed, RunsEndOnce, NewJob
<1> QED
  BY <1>1, <1>4, <1>5, EndedOnward

LEMMA MarkEndedOnward ==
    ASSUME TypeOK, RunsEndOnce, NEW t \in Ticks,
           NEW success \in {"yes", "no"}, MarkEnded(t, success),
           rec[t].pc \in {"mark", "fill"}
    PROVE  LET i == rec[t].i IN
           /\ Onward(job[i], job'[i])
           /\ job'[i].success = IF job[i].success = "unset" THEN success
                                ELSE job[i].success
<1>1. rec[t].i \in Instances /\ rec[t].job \in Jobs
  BY DEF TypeOK, Works
<1>2. job[rec[t].i] \in Jobs
  BY <1>1 DEF TypeOK
<1>3. rec[t].job.st \in {"done", "failed", "cancelled"}
  BY <1>1 DEF RunsEndOnce, Jobs
<1>4. job'[rec[t].i] =
         Ended(job[rec[t].i], rec[t].job.st, success, "reconciler")
  BY <1>1 DEF TypeOK, MarkEnded
<1> QED
  BY <1>2, <1>3, <1>4, EndedOnward

LEMMA RepairOnward ==
    ASSUME TypeOK, RunsEndOnce, NEW t \in Ticks, Repair(t),
           job'[rec[t].i] # job[rec[t].i]
    PROVE  LET i == rec[t].i IN
           /\ Onward(job[i], job'[i])
           /\ job'[i].success = RowSuccess(t)
<1>1. rec[t].i \in Instances
  BY DEF TypeOK, Works
<1>2. RunLive(rec[t].i)
  BY DEF Repair
<1>3. job[rec[t].i].success = "unset"
  BY <1>1, <1>2 DEF RunsEndOnce, NewJob
<1>4. PICK st \in {"done", "cancelled", "failed"} :
         job'[rec[t].i] = [st |-> st, ended |-> TRUE, success |-> RowSuccess(t),
                           source |-> "reconciler"]
  BY <1>1, <1>2 DEF TypeOK, Repair
<1> QED
  BY <1>3, <1>4 DEF Onward, Verdicts, RowSuccess

LEMMA RunStands ==
    ASSUME TypeOK, RunsEndOnce, [Next]_vars, NEW i \in Instances
    PROVE  Onward(job[i], job'[i])
<1>0. /\ job[i] \in Jobs /\ Verdicts(job[i])
      /\ job[i].st = "live" => job[i] = NewJob
  BY DEF TypeOK, RunsEndOnce, RunLive
<1>1. CASE job'[i] = job[i]
  BY <1>0, <1>1 DEF Onward
<1>2. CASE job'[i] # job[i]
  <2>1. CASE job'[i] = [job[i] EXCEPT !.st = "failed"]
    BY <1>0, <2>1 DEF Onward, Verdicts, Jobs
  <2>2. ASSUME NEW success \in {"yes", "no"}, ApplyEnd(i, success, "self")
        PROVE  Onward(job[i], job'[i])
    BY <1>2, <2>2, ApplyEndOnward
  <2>3. CASE CloseRun(i)
    BY <1>0, <2>3 DEF TypeOK, CloseRun, Onward, Verdicts, Jobs
  <2>4. CASE Confirm(i)
    BY <1>0, <2>4 DEF TypeOK, Confirm, Onward, Verdicts, Jobs
  <2>5. ASSUME NEW t \in Ticks, rec[t].i = i,
               Lose(t) \/ Mark(t) \/ Project(t) \/ Repair(t) \/ Fill(t)
        PROVE  Onward(job[i], job'[i])
    <3>1. RowSuccess(t) \in {"yes", "no"}
      BY DEF RowSuccess
    <3>2. CASE Lose(t) \/ Project(t)
      BY <1>2, <2>5, <3>1, <3>2, ApplyEndOnward DEF Lose, Project
    <3>3. CASE Mark(t) \/ Fill(t)
      BY <2>5, <3>1, <3>3, MarkEndedOnward DEF Mark, Fill
    <3>4. CASE Repair(t)
      BY <1>2, <2>5, <3>4, RepairOnward
    <3> QED
      BY <2>5, <3>2, <3>3, <3>4
  <2> QED
    BY <1>2, <2>1, <2>2, <2>3, <2>4, <2>5, RunSteps
<1> QED
  BY <1>1, <1>2

LEMMA StepRunsEndOnce ==
    ASSUME TypeOK, RunsEndOnce, [Next]_vars
    PROVE  RunsEndOnce'
<1>1. \A i \in Instances : Onward(job[i], job'[i])
  BY RunStands
<1>2. \A i \in Instances : /\ RunLive(i)' => job'[i] = NewJob
                           /\ Verdicts(job'[i])
                           /\ ~RunLive(i) => ~RunLive(i)'
                           /\ job[i].success = "yes" => job'[i].success = "yes"
  BY <1>1 DEF Onward, RunLive
<1>3. ASSUME NEW t \in Ticks
      PROVE  /\ Verdicts(rec'[t].job)
             /\ rec'[t].job.success = "yes" => job'[rec'[t].i].success = "yes"
             /\ rec'[t].pc = "reread" => job'[rec'[t].i].st # "live"
             /\ rec'[t].pc \in {"mark", "fill"} => rec'[t].job.st # "live"
  <2>0. /\ rec[t] \in Works /\ rec[t].i \in Instances
        /\ Verdicts(rec[t].job)
        /\ rec[t].job.success = "yes" => job[rec[t].i].success = "yes"
        /\ rec[t].pc = "reread" => ~RunLive(rec[t].i)
        /\ rec[t].pc \in {"mark", "fill"} => rec[t].job.st # "live"
    BY DEF TypeOK, Works, RunsEndOnce
  <2>1. CASE rec'[t] = rec[t]
    BY <1>2, <2>0, <2>1 DEF RunLive
  <2>2. CASE rec'[t] = NoWork
    BY <2>2 DEF NoWork, NewJob, Verdicts
  <2>3. ASSUME NEW i \in Instances, Scan(t, i),
               rec'[t].i = i, rec'[t].job = job[i],
               rec'[t].pc \in {"active", "buried"}
        PROVE  /\ Verdicts(rec'[t].job)
               /\ rec'[t].job.success = "yes" =>
                     job'[rec'[t].i].success = "yes"
    BY <1>2, <2>3 DEF RunsEndOnce
  <2>4. CASE Reconcile(t) /\ rec[t].pc # "idle" /\ rec'[t].i = rec[t].i
    <3>1. CASE rec'[t].job = rec[t].job
      <4>1. WorkGoes(t, "lose", {"bury", "reread"}) /\ rec'[t].pc = "reread"
               /\ ~EndClaimed(rec[t].i)
               => ~RunLive(rec[t].i)
        BY <2>0 DEF EndClaimed, RunsEndOnce, NewJob
      <4>2. \/ rec'[t] = NoWork
            \/ rec'[t].pc = "reread" => ~RunLive(rec[t].i)
        BY <2>4, <4>1, WorkPcs DEF WorkGoes, Scan
      <4>3. rec'[t].pc \in {"mark", "fill"} => rec'[t].job.st # "live"
        <5>1. CASE rec'[t].pc = "mark"
          BY <2>0, <2>2, <2>4, <3>1, <5>1, WorkPcs
             DEF WorkGoes, Scan, RunLive, NoWork
        <5>2. CASE rec'[t].pc = "fill"
          BY <2>0, <2>2, <2>4, <3>1, <5>2, WorkPcs
             DEF WorkGoes, Scan, RunLive, NoWork
        <5> QED
          BY <5>1, <5>2
      <4> QED
        BY <1>2, <2>0, <2>2, <2>4, <3>1, <4>2, <4>3 DEF RunLive
    <3>2. CASE /\ rec'[t].job = job[rec[t].i] /\ UNCHANGED job
               /\ \/ WorkGoes(t, "reread", {"converge", "mark"})
                  \/ WorkGoes(t, "repair", {"fill"}) /\ ~RunLive(rec[t].i)
      BY <1>2, <2>0, <2>4, <3>2 DEF RunsEndOnce, WorkGoes, RunLive
    <3> QED
      BY <2>2, <2>4, <3>1, <3>2, WorkPcs DEF Scan
  <2>5. CASE Reconcile(t) /\ rec[t].pc = "idle" /\ rec'[t] # NoWork
    <3>1. PICK i \in Instances :
             /\ Scan(t, i)
             /\ rec'[t].i = i /\ rec'[t].job = job[i]
             /\ rec'[t].pc \in {"active", "buried"}
      BY <2>5, WorkPcs DEF WorkGoes
    <3> QED
      BY <2>3, <3>1
  <2> QED
    BY <2>1, <2>2, <2>4, <2>5, WorkSteps, WorkMoves
<1> QED
  BY <1>2, <1>3 DEF RunsEndOnce, RunLive

\* A run and what a tick holds of it agree on its end.
LEMMA AlwaysEndOnce == Spec => []RunsEndOnce
<1>1. Init => RunsEndOnce
  <2> SUFFICES ASSUME Init PROVE RunsEndOnce
    OBVIOUS
  <2>1. Verdicts(NewJob) /\ NewJob.success # "yes"
    BY DEF Verdicts, NewJob
  <2>2. \A i \in Instances : job[i] = NewJob
    BY DEF Init
  <2>3. \A t \in Ticks : rec[t].pc = "idle" /\ rec[t].job = NewJob
    BY DEF Init, NoWork
  <2> QED
    BY <2>1, <2>2, <2>3 DEF RunsEndOnce
<1>2. TypeOK /\ RunsEndOnce /\ [Next]_vars => RunsEndOnce'
  BY StepRunsEndOnce
<1> QED
  BY <1>1, <1>2, Typed, PTL DEF Spec

Losing(t) == \/ rec[t].pc = "active" /\ rec[t].waited
             \/ rec[t].pc \in {"lose", "reread", "mark"}
Burying(t) == rec[t].pc \in {"buried", "stopBuried", "project", "repair",
                             "fill"}

\* Of a row whose monitor is over a success comes only from its run.
LEMMA SuccessFollows ==
    ASSUME TypeOK, ClaimedFirst, RunsEndOnce, [Next]_vars, NEW i \in Instances,
           mon[exec[i].launch].pc = "over",
           exec[i].state = "succeeded" => job[i].success = "yes",
           exec'[i].state = "succeeded"
    PROVE  job'[i].success = "yes"
<1>1. Onward(job[i], job'[i])
  BY RunStands
<1>2. CASE exec[i].state \in Terminal
  BY <1>1, <1>2, RowStands DEF Onward
<1>3. CASE exec[i].state \notin Terminal
  <2>1. "succeeded" \in Terminal
    BY DEF Terminal
  <2>2. ~ \E l \in Launches : Report(l) /\ instanceOf[l] = i
    BY DEF Report, ClaimedFirst, Claimed
  <2>3. PICK t \in Ticks : (Converge(t) \/ Bury(t)) /\ rec[t].i = i
    BY <1>3, <2>1, <2>2, TerminalSteps
  <2>4. ~Bury(t)
    <3>1. Terminate(i, "lost") => exec'[i].state = "lost"
                                  \/ exec'[i] = exec[i]
      BY DEF TypeOK, Terminate, Rows
    <3> QED
      BY <1>3, <2>1, <2>3, <3>1 DEF Bury
  <2>5. Projected(rec[t].job) = "succeeded"
    <3>1. \A s : Terminate(i, s) => exec'[i].state = s \/ exec'[i] = exec[i]
      BY DEF TypeOK, Terminate, Rows
    <3> QED
      BY <1>3, <2>1, <2>3, <2>4, <3>1 DEF Converge
  <2>6. rec[t].job.success = "yes"
    BY <2>5 DEF Projected, RunsEndOnce, Verdicts
  <2> QED
    BY <1>1, <2>3, <2>6 DEF RunsEndOnce, Onward
<1> QED
  BY <1>2, <1>3

LEMMA StepReadTruly ==
    ASSUME "monitor" \notin Tardy, TypeOK, Wired, ClaimedFirst, RunsEndOnce,
           ReadTruly, [Next]_vars
    PROVE  ReadTruly'
<1>1. ASSUME NEW t \in Ticks, Losing(t)', NEW i \in Instances, i = rec'[t].i
      PROVE  /\ mon'[exec'[i].launch].pc = "over"
             /\ exec'[i].state = "succeeded" => job'[i].success = "yes"
  <2>0. rec'[t] # NoWork
    BY <1>1 DEF Losing, NoWork
  <2>1. CASE Losing(t) /\ rec[t].i = i
    <3>1. exec[i].state # "none"
      BY <2>1 DEF Wired, Losing
    <3>2. /\ mon[exec[i].launch].pc = "over"
          /\ exec[i].state = "succeeded" => job[i].success = "yes"
      BY <2>1 DEF ReadTruly, Losing
    <3>3. exec'[i].launch = exec[i].launch /\ exec[i].launch \in Launches
      BY <3>1, HandleStands
    <3> QED
      BY <3>2, <3>3, MonitorStands, SuccessFollows
  <2>2. CASE Scan(t, i) /\ exec[i].state \in Active /\ Waited(i)
    <3>1. mon[exec[i].launch].pc = "over"
      BY <2>2 DEF Waited
    <3>2. UNCHANGED <<exec, mon>>
      BY <2>2 DEF Scan
    <3> QED
      BY <2>2, <3>1, <3>2 DEF Active
  <2>3. \/ Losing(t) /\ rec[t].i = i
        \/ Scan(t, i) /\ exec[i].state \in Active /\ Waited(i)
    <3>1. CASE rec'[t] = rec[t]
      BY <1>1, <3>1 DEF Losing
    <3>2. CASE Reconcile(t) /\ rec[t].pc # "idle"
      <4>1. rec'[t].i = rec[t].i /\ rec'[t].waited = rec[t].waited
        BY <2>0, <3>2, WorkMoves
      <4>2. Losing(t)
        BY <1>1, <2>0, <3>2, WorkPcs DEF Losing, WorkGoes, Scan
      <4> QED
        BY <1>1, <4>1, <4>2
    <3>3. CASE Reconcile(t) /\ rec[t].pc = "idle"
      BY <1>1, <2>0, <3>3, WorkPcs DEF Losing, WorkGoes
    <3> QED
      BY <2>0, <3>1, <3>2, <3>3, WorkSteps
  <2> QED
    BY <2>1, <2>2, <2>3
<1>2. ASSUME NEW t \in Ticks, Burying(t)', NEW i \in Instances, i = rec'[t].i
      PROVE  /\ rec'[t].state \in Terminal
             /\ exec'[i].state = rec'[t].state
  <2>0. rec'[t] # NoWork
    BY <1>2 DEF Burying, NoWork
  <2>1. CASE Burying(t) /\ rec[t].i = i /\ rec'[t].state = rec[t].state
    <3>1. rec[t].state \in Terminal /\ exec[i].state = rec[t].state
      BY <2>1 DEF ReadTruly, Burying
    <3> QED
      BY <2>1, <3>1, RowStands
  <2>2. CASE /\ Scan(t, i) /\ exec[i].state \in Terminal
             /\ rec'[t].state = exec[i].state
    BY <2>2 DEF Scan
  <2>3. \/ Burying(t) /\ rec[t].i = i /\ rec'[t].state = rec[t].state
        \/ /\ Scan(t, i) /\ exec[i].state \in Terminal
           /\ rec'[t].state = exec[i].state
    <3>1. CASE rec'[t] = rec[t]
      BY <1>2, <3>1 DEF Burying
    <3>2. CASE Reconcile(t) /\ rec[t].pc # "idle"
      <4>1. rec'[t].i = rec[t].i /\ rec'[t].state = rec[t].state
        BY <2>0, <3>2, WorkMoves
      <4>2. Burying(t)
        BY <1>2, <2>0, <3>2, WorkPcs DEF Burying, WorkGoes, Scan
      <4> QED
        BY <1>2, <4>1, <4>2
    <3>3. CASE Reconcile(t) /\ rec[t].pc = "idle"
      BY <1>2, <2>0, <3>3, WorkPcs DEF Burying, WorkGoes
    <3> QED
      BY <2>0, <3>1, <3>2, <3>3, WorkSteps
  <2> QED
    BY <2>1, <2>2, <2>3
<1>3. \A t \in Ticks : rec'[t].i \in Instances
  BY StepTyped DEF TypeOK, Works
<1> QED
  BY <1>1, <1>2, <1>3 DEF ReadTruly, Losing, Burying

\* What the reconciler writes it knows: it makes no failure of a run whose
\* process is on record as a success.
LEMMA StepSuccess ==
    ASSUME TypeOK, RunsEndOnce, ReadTruly, [Next]_vars, NEW i \in Instances,
           job[i].success # "no", job'[i].success = "no",
           job'[i].source = "reconciler"
    PROVE  exec[i].state # "succeeded"
<1>0. job[i] \in Jobs
  BY DEF TypeOK
<1>1. job'[i] # [job[i] EXCEPT !.st = "failed"]
  BY <1>0 DEF Jobs
<1>2. \A success \in {"yes", "no"} : ~ApplyEnd(i, success, "self")
  BY ApplyEndOnward
<1>3. ~CloseRun(i) /\ ~Confirm(i)
  BY <1>0 DEF TypeOK, CloseRun, Confirm, RunsEndOnce, Verdicts, Jobs
<1>4. PICK t \in Ticks :
         /\ rec[t].i = i
         /\ Lose(t) \/ Mark(t) \/ Project(t) \/ Repair(t) \/ Fill(t)
  BY <1>1, <1>2, <1>3, RunSteps
<1>5. CASE Lose(t)
  <2>1. job[i].success = "unset"
    BY <1>4, <1>5, ApplyEndOnward DEF Lose
  <2> QED
    BY <1>4, <1>5, <2>1 DEF Lose, ReadTruly
<1>6. CASE Mark(t)
  <2>1. job[i].success = "unset"
    BY <1>0, <1>4, <1>6, MarkEndedOnward DEF Mark, Jobs
  <2> QED
    BY <1>4, <1>6, <2>1 DEF Mark, ReadTruly
<1>7. CASE Project(t) \/ Repair(t) \/ Fill(t)
  <2>1. RowSuccess(t) = "no"
    <3>1. RowSuccess(t) \in {"yes", "no"}
      BY DEF RowSuccess
    <3>2. Project(t) => RowSuccess(t) = "no"
      BY <1>4, <3>1, ApplyEndOnward DEF Project
    <3>3. Repair(t) => RowSuccess(t) = "no"
      BY <1>4, RepairOnward
    <3>4. Fill(t) => RowSuccess(t) = "no"
      BY <1>0, <1>4, <3>1, MarkEndedOnward DEF Fill, Jobs
    <3> QED
      BY <1>7, <3>2, <3>3, <3>4
  <2>2. exec[i].state = rec[t].state
    BY <1>4, <1>7 DEF Project, Repair, Fill, ReadTruly
  <2> QED
    BY <2>1, <2>2 DEF RowSuccess
<1> QED
  BY <1>4, <1>5, <1>6, <1>7

\* The reconciler never makes a failure of a recorded success, provided a
\* monitor is done when the tick that confirms a loss reads the row.
THEOREM SuccessIsKept ==
    ASSUME "monitor" \notin Tardy
    PROVE  Spec => SuccessNotLost
<1>1. Init => ReadTruly
  BY DEF Init, ReadTruly, NoWork
<1>2. TypeOK /\ Wired /\ ClaimedFirst /\ RunsEndOnce /\ ReadTruly
         /\ [Next]_vars
         => ReadTruly'
  BY StepReadTruly
<1>3. TypeOK /\ RunsEndOnce /\ ReadTruly /\ [Next]_vars =>
         [\A i \in Instances :
             /\ job[i].success # "no"
             /\ job'[i].success = "no"
             /\ job'[i].source = "reconciler"
             => exec[i].state # "succeeded"]_vars
  BY StepSuccess
<1> QED
  BY <1>1, <1>2, <1>3, Typed, AlwaysClaimed, AlwaysEndOnce, PTL
     DEF Spec, SuccessNotLost
=============================================================================
