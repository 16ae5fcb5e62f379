------------------------ MODULE RunLifecycle_proofs ------------------------
(* Proofs about RunLifecycle, for every number of tasks, agents, runs,      *)
(* dispatchers and handlers and every workflow.  Statements on the tables   *)
(* only ever shrink the set of live runs, or are the claim that adds one;   *)
(* so each statement is shown to shrink, shrinking to keep the tables sound,*)
(* and each action is then a matter of what it carries in its record.       *)
EXTENDS RunLifecycle, TLAPS

(* The tables are sound when they show the invariants on db.                *)
Sound(d) ==
    /\ d \in Database
    /\ \A t \in Tasks, i \in Runs :
          d.task[t].active = i => d.run[i].task = t /\ Present(d, i)
    /\ \A i \in Runs : Live(d, i) => /\ d.run[i].task \in Tasks
                                     /\ d.task[d.run[i].task].active = i
    /\ \A i, j \in Runs :
          Live(d, i) /\ Live(d, j) /\ d.run[i].agent = d.run[j].agent => i = j
    /\ \A i \in Runs : Anchored(d, i) => ~Live(d, i)

(* e comes from d by statements that let runs end and links go.  Only runs  *)
(* that were sent are ever marked running.                                  *)
Shrinks(d, e) ==
    /\ e \in Database
    /\ \A i \in Runs :
          /\ Live(e, i) => /\ Live(d, i) /\ ~Anchored(e, i)
                           /\ e.run[i].task = d.run[i].task
          /\ e.run[i].agent = d.run[i].agent
          /\ Present(e, i) <=> Present(d, i)
          /\ e.run[i].st = "queued" => d.run[i].st = "queued"
          /\ e.run[i].st = "running" => d.run[i].st = "running" \/ i \in sent
    /\ \A t \in Tasks :
          /\ e.task[t].active \in {d.task[t].active, NoRun}
          /\ \A i \in Runs : d.task[t].active = i =>
                /\ Live(e, i) => e.task[t].active = i
                /\ e.task[t].active = i => e.run[i].task = d.run[i].task

---------------------------------------------------------------------------
(* Shrinking.                                                               *)

LEMMA NoRunNotIn == NoRun \notin Runs
BY RunsAssumption DEF NoRun

LEMMA ShrinkKeeps ==
    ASSUME NEW d, NEW e, Sound(d), Shrinks(d, e)
    PROVE  Sound(e)
<1>1. e \in Database
  BY DEF Shrinks
<1>2. ASSUME NEW t \in Tasks, NEW i \in Runs, e.task[t].active = i
      PROVE  e.run[i].task = t /\ Present(e, i)
  BY <1>2, NoRunNotIn DEF Shrinks, Sound
<1>3. ASSUME NEW i \in Runs, Live(e, i)
      PROVE  e.run[i].task \in Tasks /\ e.task[e.run[i].task].active = i
  BY <1>3 DEF Shrinks, Sound
<1>4. ASSUME NEW i \in Runs, NEW j \in Runs, Live(e, i), Live(e, j),
             e.run[i].agent = e.run[j].agent
      PROVE  i = j
  BY <1>4 DEF Shrinks, Sound
<1>5. ASSUME NEW i \in Runs, Anchored(e, i)
      PROVE  ~Live(e, i)
  BY <1>5 DEF Shrinks
<1> QED
  BY <1>1, <1>2, <1>3, <1>4, <1>5 DEF Sound

LEMMA ShrinkRefl ==
    ASSUME NEW d, Sound(d)
    PROVE  Shrinks(d, d)
BY DEF Shrinks, Sound

LEMMA ShrinkTrans ==
    ASSUME NEW d, NEW e, NEW f, Shrinks(d, e), Shrinks(e, f)
    PROVE  Shrinks(d, f)
<1>1. ASSUME NEW i \in Runs
      PROVE  /\ Live(f, i) => /\ Live(d, i) /\ ~Anchored(f, i)
                              /\ f.run[i].task = d.run[i].task
             /\ f.run[i].agent = d.run[i].agent
             /\ Present(f, i) <=> Present(d, i)
             /\ f.run[i].st = "queued" => d.run[i].st = "queued"
             /\ f.run[i].st = "running" => d.run[i].st = "running" \/ i \in sent
  BY DEF Shrinks
<1>2. ASSUME NEW t \in Tasks
      PROVE  f.task[t].active \in {d.task[t].active, NoRun}
  BY DEF Shrinks
<1>3. ASSUME NEW t \in Tasks, NEW i \in Runs, d.task[t].active = i
      PROVE  /\ Live(f, i) => f.task[t].active = i
             /\ f.task[t].active = i => f.run[i].task = d.run[i].task
  BY <1>3, NoRunNotIn DEF Shrinks
<1> QED
  BY <1>1, <1>2, <1>3 DEF Shrinks

---------------------------------------------------------------------------
(* Statements.                                                              *)

LEMMA DetachShrinks ==
    ASSUME NEW d, Sound(d), NEW t \in Tasks, NEW i \in Runs, ~Live(d, i)
    PROVE  Shrinks(d, Detach(d, t, i))
<1> DEFINE e == Detach(d, t, i)
<1>1. e \in Database /\ e.run = d.run
  BY DEF Sound, Database, Detach, TaskRows
<1>2. \A u \in Tasks : \/ e.task[u].active = d.task[u].active
                       \/ d.task[u].active = i /\ e.task[u].active = NoRun
  BY DEF Sound, Database, Detach, TaskRows
<1> QED
  BY <1>1, <1>2 DEF Sound, Shrinks, Live, Present, Anchored

LEMMA StatusShrinks ==
    ASSUME NEW d, Sound(d), NEW t \in Tasks, NEW s \in Statuses
    PROVE  Shrinks(d, SetStatus(d, t, s))
<1> DEFINE e == SetStatus(d, t, s)
<1>1. e \in Database /\ e.run = d.run
  BY DEF Sound, Database, SetStatus, TaskRows
<1>2. \A u \in Tasks : e.task[u].active = d.task[u].active
  BY DEF Sound, Database, SetStatus, TaskRows
<1> QED
  BY <1>1, <1>2 DEF Sound, Shrinks, Live, Present, Anchored

LEMMA TaskRowShrinks ==
    ASSUME NEW d, Sound(d), NEW t \in Tasks, NEW q \in TaskRows,
           q.active = d.task[t].active
    PROVE  Shrinks(d, [d EXCEPT !.task[t] = q])
<1> DEFINE e == [d EXCEPT !.task[t] = q]
<1>1. e \in Database /\ e.run = d.run
  BY DEF Sound, Database
<1>2. \A u \in Tasks : e.task[u].active = d.task[u].active
  BY DEF Sound, Database
<1> QED
  BY <1>1, <1>2 DEF Sound, Shrinks, Live, Present, Anchored

(* Any statement on one run that          leaves it over, or leaves it live *)
(* and unanchored, shrinks, if only runs that were sent become running.     *)
LEMMA RunRowShrinks ==
    ASSUME NEW d, Sound(d), NEW i \in Runs, NEW r \in RunRows,
           r.st = "absent" <=> d.run[i].st = "absent",
           r.task = d.run[i].task, r.agent = d.run[i].agent,
           r.st \in LiveStates => Live(d, i) /\ ~r.ended /\ ~r.outcome,
           r.st = "queued" => d.run[i].st = "queued",
           r.st = "running" => d.run[i].st = "running" \/ i \in sent
    PROVE  Shrinks(d, [d EXCEPT !.run[i] = r])
<1> DEFINE e == [d EXCEPT !.run[i] = r]
<1>1. e \in Database /\ e.task = d.task
  BY DEF Sound, Database
<1>2. e.run[i] = r /\ \A j \in Runs \ {i} : e.run[j] = d.run[j]
  BY DEF Sound, Database
<1> QED
  BY <1>1, <1>2 DEF Sound, Shrinks, Live, Present, Anchored

Final == {"done", "failed", "cancelled"}

LEMMA SetRunShrinks ==
    ASSUME NEW d, Sound(d), NEW i \in Runs, NEW s \in Final, Present(d, i)
    PROVE  Shrinks(d, SetRun(d, i, s)) /\ ~Live(SetRun(d, i, s), i)
<1> DEFINE r == [d.run[i] EXCEPT !.st = s]
<1>1. r \in RunRows /\ d.run[i] \in RunRows
  BY DEF Sound, Database, RunRows, RunStates, Final
<1>2. /\ r.st = s /\ r.task = d.run[i].task /\ r.agent = d.run[i].agent
      /\ r.st \notin LiveStates /\ r.st # "absent"
  BY <1>1 DEF RunRows, Final, LiveStates
<1>3. Shrinks(d, [d EXCEPT !.run[i] = r])
  BY <1>1, <1>2, RunRowShrinks DEF LiveStates, Present
<1>4. SetRun(d, i, s) = [d EXCEPT !.run[i] = r]
  BY DEF SetRun
<1>5. [d EXCEPT !.run[i] = r].run[i] = r
  BY DEF Sound, Database
<1> QED
  BY <1>2, <1>3, <1>4, <1>5 DEF Live

LEMMA CloseRunShrinks ==
    ASSUME NEW d, Sound(d), NEW i \in Runs, NEW s \in Final, Present(d, i)
    PROVE  Shrinks(d, CloseRun(d, i, s)) /\ ~Live(CloseRun(d, i, s), i)
<1> DEFINE r == [d.run[i] EXCEPT !.st = s, !.ended = TRUE]
<1>0. d.run[i] \in RunRows
  BY DEF Sound, Database
<1>1. r \in RunRows
  BY <1>0 DEF RunRows, RunStates, Final
<1>2. /\ r.st = s /\ r.task = d.run[i].task /\ r.agent = d.run[i].agent
      /\ r.st \notin LiveStates /\ r.st # "absent"
  BY <1>0 DEF RunRows, Final, LiveStates
<1>3. Shrinks(d, [d EXCEPT !.run[i] = r])
  BY <1>1, <1>2, RunRowShrinks DEF LiveStates, Present
<1>4. CloseRun(d, i, s) = [d EXCEPT !.run[i] = r]
  BY DEF CloseRun, Sound, Database, RunRows
<1>5. [d EXCEPT !.run[i] = r].run[i] = r
  BY DEF Sound, Database
<1> QED
  BY <1>2, <1>3, <1>4, <1>5 DEF Live

\* A closed run is over, whatever it was before.
LEMMA ClosedIsOver ==
    ASSUME NEW d, Sound(d), NEW i \in Runs, NEW s \in Final
    PROVE  ~Live(CloseRun(d, i, s), i)
<1>1. CloseRun(d, i, s).run[i].st = s
  BY DEF CloseRun, Sound, Database, RunRows
<1> QED
  BY <1>1 DEF Live, LiveStates, Final

LEMMA MarkRunningShrinks ==
    ASSUME NEW d, Sound(d), NEW i \in Runs, i \in sent
    PROVE  Shrinks(d, MarkRunning(d, i))
<1> DEFINE r == [d.run[i] EXCEPT !.st = "running"]
<1>1. CASE d.run[i].st \in {"queued", "dispatched"}
  <2>1. r \in RunRows /\ d.run[i] \in RunRows
    BY DEF Sound, Database, RunRows, RunStates, LiveStates
  <2>2. /\ r.st = "running" /\ r.task = d.run[i].task
        /\ r.agent = d.run[i].agent
        /\ r.ended = d.run[i].ended /\ r.outcome = d.run[i].outcome
    BY <2>1 DEF RunRows
  <2>3. Live(d, i) /\ Present(d, i) /\ ~d.run[i].ended /\ ~d.run[i].outcome
    BY <1>1 DEF Sound, Live, Present, Anchored, LiveStates
  <2>4. Shrinks(d, [d EXCEPT !.run[i] = r])
    BY <2>1, <2>2, <2>3, RunRowShrinks DEF Present
  <2> QED
    BY <1>1, <2>4 DEF MarkRunning, SetRun
<1>2. CASE d.run[i].st \notin {"queued", "dispatched"}
  BY <1>2, ShrinkRefl DEF MarkRunning
<1> QED
  BY <1>1, <1>2

(* In sound tables cleanup never finds a live run to finish: it lets go of  *)
(* a link to a run that is over, or does nothing.                           *)
LEMMA CleanupIsDetach ==
    ASSUME NEW d, Sound(d), NEW t \in Tasks
    PROVE  \/ Cleanup(d, t) = d
           \/ /\ d.task[t].active \in Runs
              /\ ~Live(d, d.task[t].active)
              /\ Cleanup(d, t) = Detach(d, t, d.task[t].active)
<1> DEFINE i == d.task[t].active
<1>1. CASE ~CleanupDetaches(d, t)
  BY <1>1 DEF Cleanup
<1>2. CASE CleanupDetaches(d, t)
  <2>1. i \in Runs
    BY <1>2 DEF CleanupDetaches, Sound, Database, TaskRows
  <2>2. d.run[i].task = t
    BY <2>1 DEF Sound
  <2>3. ~Live(d, i)
    BY <1>2, <2>1, <2>2 DEF CleanupDetaches, Sound
  <2> QED
    BY <1>2, <2>1, <2>3 DEF Cleanup, Finalizes
<1> QED
  BY <1>1, <1>2

LEMMA CleanupShrinks ==
    ASSUME NEW d, Sound(d), NEW t \in Tasks
    PROVE  Shrinks(d, Cleanup(d, t))
BY CleanupIsDetach, DetachShrinks, ShrinkRefl

(* The timers it leaves behind name the task.                               *)
LEMMA CleanupJobsTyped ==
    ASSUME NEW d, Sound(d), NEW t \in Tasks, NEW j \in CleanupJobs(d, t)
    PROVE  /\ j \in Jobs /\ j.job \in {"cleanup", "abort"}
           /\ j.job # "abort" => j.task \in Tasks
<1> DEFINE i == d.task[t].active
<1>1. i \in Runs
  BY DEF CleanupJobs, CleanupDetaches, Sound, Database, TaskRows
<1>2. j = CleanupJob(t, i) \/ j = AbortJob(i)
  BY DEF CleanupJobs, ScheduleJobs
<1> QED
  BY <1>1, <1>2 DEF CleanupJob, AbortJob, Jobs

---------------------------------------------------------------------------
(* Transactions.                                                            *)

(* The claim is the one transaction that adds a live run: it needs the task *)
(* free and the agent idle.                                                 *)
LEMMA ClaimSound ==
    ASSUME NEW d, Sound(d), NEW t \in Tasks, NEW a \in Agents, NEW i \in Runs,
           ~Present(d, i), ~AgentBusy(d, a), d.task[t].active = NoRun
    PROVE  /\ Sound(ClaimTx(d, t, a, i))
           /\ \A j \in Runs \ {i} : ClaimTx(d, t, a, i).run[j] = d.run[j]
           /\ ClaimTx(d, t, a, i).run[i].st = "queued"
<1> DEFINE e == ClaimTx(d, t, a, i)
           r == Queued(t, a)
           q == [d.task[t] EXCEPT !.active = i, !.cooling = TRUE]
<1>1. r \in RunRows /\ r.st = "queued" /\ r.task = t /\ r.agent = a
      /\ ~r.ended /\ ~r.outcome
  BY DEF Queued, RunRows, RunStates, LiveStates
<1>2. d.task \in [Tasks -> TaskRows] /\ d.run \in [Runs -> RunRows]
  BY DEF Sound, Database
<1>3. q \in TaskRows /\ q.active = i
  <2>1. d.task[t] \in TaskRows
    BY <1>2
  <2> QED
    BY <2>1 DEF TaskRows
<1>4. /\ e \in Database
      /\ e.run[i] = r /\ \A j \in Runs \ {i} : e.run[j] = d.run[j]
      /\ e.task[t].active = i
      /\ \A u \in Tasks \ {t} : e.task[u] = d.task[u]
  <2> HIDE DEF q, r
  <2>1. e = [d EXCEPT !.run = [d.run EXCEPT ![i] = r],
                      !.task = [d.task EXCEPT ![t] = q]]
    BY DEF ClaimTx, q, r
  <2>2. d \in [task : [Tasks -> TaskRows], run : [Runs -> RunRows]]
    BY DEF Sound, Database
  <2> DEFINE e1 == [d EXCEPT !.run = [d.run EXCEPT ![i] = r]]
  <2>3. /\ e1 \in Database /\ e1.task = d.task
        /\ e1.run = [d.run EXCEPT ![i] = r]
    BY <1>1, <1>2, <2>2 DEF Database
  <2> HIDE DEF e1
  <2>4. e = [e1 EXCEPT !.task = [d.task EXCEPT ![t] = q]]
    BY <2>1 DEF e1
  <2> HIDE DEF e
  <2>5. /\ e \in Database /\ e.run = e1.run
        /\ e.task = [d.task EXCEPT ![t] = q]
    BY <1>2, <1>3, <2>3, <2>4 DEF Database
  <2> QED
    BY <1>1, <1>2, <1>3, <2>3, <2>5
<1>5. \A u \in Tasks : d.task[u].active # i
  BY DEF Sound
<1>6. ~Live(d, i) /\ i # NoRun
  BY NoRunNotIn DEF Live, Present, LiveStates
<1> HIDE DEF e, q, r
<1>7. ASSUME NEW u \in Tasks, NEW j \in Runs, e.task[u].active = j
      PROVE  e.run[j].task = u /\ Present(e, j)
  BY <1>1, <1>4, <1>5, <1>7 DEF Sound, Present
<1>8. ASSUME NEW j \in Runs, Live(e, j)
      PROVE  e.run[j].task \in Tasks /\ e.task[e.run[j].task].active = j
  <2>1. CASE j = i
    BY <2>1, <1>1, <1>4
  <2>2. CASE j # i
    <3>1. Live(d, j) /\ e.run[j] = d.run[j]
      BY <1>4, <1>8, <2>2 DEF Live
    <3>2. d.run[j].task # t
      BY <3>1, NoRunNotIn DEF Sound
    <3> QED
      BY <3>1, <3>2, <1>4 DEF Sound
  <2> QED
    BY <2>1, <2>2
<1>9. ASSUME NEW j \in Runs, NEW k \in Runs, Live(e, j), Live(e, k),
             e.run[j].agent = e.run[k].agent
      PROVE  j = k
  BY <1>1, <1>4, <1>9 DEF Sound, Live, AgentBusy
<1>10. ASSUME NEW j \in Runs, Anchored(e, j)
       PROVE  ~Live(e, j)
  BY <1>1, <1>4, <1>10 DEF Sound, Live, Anchored
<1>11. Sound(e)
  BY <1>4, <1>7, <1>8, <1>9, <1>10 DEF Sound
<1> QED
  BY <1>1, <1>4, <1>11 DEF e

(* A dispatch that failed before the run ran: the run fails, the task is    *)
(* freed.                                                                   *)
LEMMA UnwindShrinks ==
    ASSUME NEW d, Sound(d), NEW t \in Tasks, NEW i \in Runs,
           d.run[i].st \notin {"absent", "running"}
    PROVE  Shrinks(d, UnwindTx(d, t, i))
<1> DEFINE e == IF d.run[i].st \in {"queued", "dispatched"}
                THEN SetRun(d, i, "failed") ELSE d
<1>1. Shrinks(d, e) /\ ~Live(e, i)
  <2>1. CASE d.run[i].st \in {"queued", "dispatched"}
    BY <2>1, SetRunShrinks DEF Present, Final
  <2>2. CASE d.run[i].st \notin {"queued", "dispatched"}
    BY <2>2, ShrinkRefl DEF Live, LiveStates
  <2> QED
    BY <2>1, <2>2
<1>2. Sound(e)
  BY <1>1, ShrinkKeeps
<1>3. UnwindTx(d, t, i) = Detach(e, t, i)
  <2>1. CASE d.run[i].st \in {"queued", "dispatched"}
    BY <2>1 DEF UnwindTx, SetRun
  <2>2. CASE d.run[i].st \notin {"queued", "dispatched"}
    <3>1. [d EXCEPT !.run[i].st = d.run[i].st] = d
      BY DEF Sound, Database, RunRows
    <3> QED
      BY <2>2, <3>1 DEF UnwindTx
  <2> QED
    BY <2>1, <2>2
<1> QED
  BY <1>1, <1>2, <1>3, DetachShrinks, ShrinkTrans

LEMMA StartupFailureShrinks ==
    ASSUME NEW d, Sound(d), NEW t \in Tasks, NEW i \in Runs,
           NEW prior \in Statuses, d.run[i].st \notin {"absent", "running"}
    PROVE  Shrinks(d, StartupFailureTx(d, t, i, prior))
<1> DEFINE f == UnwindTx(d, t, i)
           e == StartupFailureTx(d, t, i, prior)
<1>1. CASE d.task[t].active # i
  BY <1>1, ShrinkRefl DEF StartupFailureTx
<1>2. CASE d.task[t].active = i
  <2>1. Shrinks(d, f) /\ Sound(f)
    BY UnwindShrinks, ShrinkKeeps
  <2>2. StartupFailed[prior] \in Statuses
    BY WorkflowAssumption
  <2> DEFINE g == SetStatus(f, t, StartupFailed[prior])
  <2>3. Shrinks(f, g) /\ Sound(g)
    BY <2>1, <2>2, StatusShrinks, ShrinkKeeps
  <2> DEFINE q == [g.task[t] EXCEPT !.cooling = TRUE]
  <2> HIDE DEF g
  <2>4. g.task[t] \in TaskRows
    BY <2>3 DEF Sound, Database
  <2>5. q \in TaskRows /\ q.active = g.task[t].active
    BY <2>4 DEF TaskRows
  <2> HIDE DEF q
  <2>6. Shrinks(g, [g EXCEPT !.task[t] = q])
    BY <2>3, <2>5, TaskRowShrinks
  <2>7. e = [g EXCEPT !.task[t] = q]
    BY <1>2 DEF StartupFailureTx, g, q
  <2> QED
    BY <2>1, <2>3, <2>6, <2>7, ShrinkTrans
<1> QED
  BY <1>1, <1>2

\* No run has lost its task and a link still.
LEMMA NothingToTie ==
    ASSUME NEW d, Sound(d), NEW i \in Runs
    PROVE  Retied(d, i) = d
BY NullsAssumption DEF Sound, Retied, Linking

LEMMA PostShrinks ==
    ASSUME NEW d, Sound(d), NEW t \in Tasks, NEW i \in Runs,
           NEW s \in Statuses, NEW final \in Final, Present(d, i)
    PROVE  Shrinks(d, PostTx(d, t, i, s, final))
<1> DEFINE m == SetStatus(d, t, s)
           posted == [m.run[i] EXCEPT !.outcome = TRUE]
           closed == [m.run[i] EXCEPT !.outcome = TRUE, !.st = final,
                                      !.ended = TRUE]
<1>1. Shrinks(d, m) /\ Sound(m)
  BY StatusShrinks, ShrinkKeeps
<1>2. m.run = d.run
  BY DEF SetStatus, Sound, Database
<1>3. m.run[i] \in RunRows /\ Present(m, i)
  BY <1>1, <1>2 DEF Sound, Database, Present
<1>4. CASE d.run[i].st \in {"done", "failed"}
  <2>1. /\ posted \in RunRows /\ posted.st = m.run[i].st
        /\ posted.task = m.run[i].task /\ posted.agent = m.run[i].agent
    BY <1>3 DEF RunRows
  <2>2. posted.st \notin LiveStates /\ posted.st # "absent"
    BY <1>2, <1>4, <2>1 DEF LiveStates
  <2> HIDE DEF m, posted
  <2>3. Shrinks(m, [m EXCEPT !.run[i] = posted])
    BY <1>1, <1>3, <2>1, <2>2, RunRowShrinks DEF LiveStates, Present
  <2>4. PostTx(d, t, i, s, final) = [m EXCEPT !.run[i] = posted]
    BY <1>4 DEF PostTx, m, posted
  <2> QED
    BY <1>1, <2>3, <2>4, ShrinkTrans
<1>5. CASE d.run[i].st \notin {"done", "failed"}
  <2>1. /\ closed \in RunRows /\ closed.st = final
        /\ closed.task = m.run[i].task /\ closed.agent = m.run[i].agent
    BY <1>3 DEF RunRows, RunStates, Final
  <2>2. closed.st \notin LiveStates /\ closed.st # "absent"
    BY <2>1 DEF LiveStates, Final
  <2> HIDE DEF m
  <2>3. Shrinks(m, [m EXCEPT !.run[i] = closed])
    <3> HIDE DEF closed
    <3> QED BY <1>1, <1>3, <2>1, <2>2, RunRowShrinks DEF LiveStates, Present
  <2> DEFINE x == [m EXCEPT !.run[i] = posted]
  <2>a. posted \in RunRows
    BY <1>3 DEF RunRows
  <2>b. closed = [posted EXCEPT !.st = final, !.ended = TRUE]
    BY DEF posted
  <2>c. PostTx(d, t, i, s, final) = Retied(CloseRun(x, i, final), i)
    BY <1>5 DEF PostTx, m
  <2>d. CloseRun(x, i, final)
          = [x EXCEPT !.run[i] = [x.run[i] EXCEPT !.st = final, !.ended = TRUE]]
    <3> HIDE DEF posted
    <3>1. x \in Database
      BY <1>1, <2>a DEF Sound, Database
    <3> HIDE DEF x
    <3> QED BY <3>1 DEF CloseRun, Database, RunRows
  <2>e. CloseRun(x, i, final) = [m EXCEPT !.run[i] = closed]
    <3> HIDE DEF posted
    <3> SUFFICES [x EXCEPT !.run[i] = closed] = [m EXCEPT !.run[i] = closed]
      BY <1>1, <2>a, <2>b, <2>d DEF Sound, Database
    <3> QED BY <1>1, <2>a DEF Sound, Database
  <2>f. Sound([m EXCEPT !.run[i] = closed])
    BY <1>1, <2>3, ShrinkKeeps
  <2>4. PostTx(d, t, i, s, final) = [m EXCEPT !.run[i] = closed]
    <3> HIDE DEF x, closed
    <3> QED BY <2>c, <2>e, <2>f, NothingToTie
  <2> QED
    BY <1>1, <2>3, <2>4, ShrinkTrans
<1> QED
  BY <1>4, <1>5

LEMMA OutcomeShrinks ==
    ASSUME NEW d, Sound(d), NEW t \in Tasks, NEW i \in Runs,
           NEW s \in Statuses, NEW final \in Final, Present(d, i)
    PROVE  /\ Shrinks(d, OutcomeTx(d, t, i, s, final))
           /\ \A j \in OutcomeJobs(d, t, i, s, final) :
                 /\ j \in Jobs /\ j.job \in {"cleanup", "abort"}
                 /\ j.job # "abort" => j.task \in Tasks
<1> DEFINE e == PostTx(d, t, i, s, final)
<1>1. Shrinks(d, e) /\ Sound(e)
  BY PostShrinks, ShrinkKeeps
<1>2. Shrinks(e, Cleanup(e, t))
  BY <1>1, CleanupShrinks
<1> HIDE DEF e
<1>3. Shrinks(d, Cleanup(e, t))
  BY <1>1, <1>2, ShrinkTrans
<1>4. \A j \in CleanupJobs(e, t) :
         /\ j \in Jobs /\ j.job \in {"cleanup", "abort"}
         /\ j.job # "abort" => j.task \in Tasks
  BY <1>1, CleanupJobsTyped
<1> QED
  BY <1>3, <1>4 DEF OutcomeTx, OutcomeJobs, e

LEMMA CancelShrinks ==
    ASSUME NEW d, Sound(d), NEW t \in Tasks
    PROVE  Shrinks(d, CancelTx(d, t))
<1> DEFINE i == d.task[t].active
           m == SetStatus(d, t, "cancelled")
<1>1. Shrinks(d, m) /\ Sound(m)
  BY StatusShrinks, ShrinkKeeps, StatusesAssumption
<1>2. m.run = d.run
  BY DEF SetStatus, Sound, Database
<1>3. CASE i = NoRun
  BY <1>1, <1>3 DEF CancelTx
<1>4. CASE i # NoRun
  <2>1. i \in Runs
    BY <1>4 DEF Sound, Database, TaskRows
  <2>2. Joined(d, t, i) /\ Present(m, i)
    BY <1>2, <1>4, <2>1 DEF Joined, Sound, Present
  <2> DEFINE e == IF Live(d, i) THEN SetRun(m, i, "cancelled") ELSE m
  <2>3. CancelTx(d, t) = Detach(e, t, i)
    BY <1>4, <2>2 DEF CancelTx
  <2>4. Shrinks(m, e) /\ ~Live(e, i)
    <3>1. CASE Live(d, i)
      <4> HIDE DEF m
      <4> QED BY <1>1, <2>1, <2>2, <3>1, SetRunShrinks DEF Final
    <3>2. CASE ~Live(d, i)
      BY <1>1, <1>2, <3>2, ShrinkRefl DEF Live
    <3> QED
      BY <3>1, <3>2
  <2> HIDE DEF e, m
  <2>5. Sound(e)
    BY <1>1, <2>4, ShrinkKeeps
  <2>6. Shrinks(e, Detach(e, t, i))
    BY <2>1, <2>4, <2>5, DetachShrinks
  <2> QED
    BY <1>1, <2>3, <2>4, <2>6, ShrinkTrans
<1> QED
  BY <1>3, <1>4

(* A stop cuts the run off from its task and the task off from the run.     *)
LEMMA StopShrinks ==
    ASSUME NEW d, Sound(d), NEW i \in Runs, NEW behavior \in StopBehaviors,
           Present(d, i)
    PROVE  Shrinks(d, StopTx(d, i, behavior))
<1> DEFINE t == d.run[i].task
           r == [d.run[i] EXCEPT !.st = "failed", !.task = NoTask]
           x == [d EXCEPT !.run[i] = r]
           linked == t # NoTask /\ d.task[t].active = i
           e == StopTx(d, i, behavior)
<1>1. d.run[i] \in RunRows
  BY DEF Sound, Database
<1>2. /\ r \in RunRows /\ r.st = "failed" /\ r.agent = d.run[i].agent
  BY <1>1 DEF RunRows, RunStates
<1>3. t \in Tasks \cup {NoTask}
  BY <1>1 DEF RunRows
<1> HIDE DEF r
<1>4. /\ x \in Database /\ x.task = d.task /\ x.run[i] = r
      /\ \A j \in Runs \ {i} : x.run[j] = d.run[j]
  BY <1>2 DEF Sound, Database
<1>5. [d EXCEPT !.run[i].st = "failed", !.run[i].task = NoTask] = x
  BY <1>1 DEF r, Sound, Database, RunRows
<1> HIDE DEF x
<1>6. CASE ~linked
  <2>1. e = x
    BY <1>5, <1>6 DEF StopTx
  <2>2. \A u \in Tasks : d.task[u].active # i
    BY <1>6, NullsAssumption DEF Sound
  <2> QED
    BY <1>2, <1>4, <2>1, <2>2
       DEF Shrinks, Sound, Live, Present, LiveStates, Anchored
<1>7. CASE linked
  <2>1. t \in Tasks
    BY <1>3, <1>7
  <2> DEFINE s == StopStatus(d.task[t].status, behavior)
             y == Detach(x, t, i)
             z == SetStatus(y, t, s)
  <2>2. s \in Statuses
    BY <2>1, StatusesAssumption
       DEF Sound, Database, TaskRows, StopStatus, StopBehaviors
  <2>3. /\ y \in Database /\ y.run = x.run /\ y.task[t].active = NoRun
        /\ \A u \in Tasks \ {t} : y.task[u] = x.task[u]
    BY <1>4, <1>7, <2>1 DEF Detach, Database, TaskRows
  <2> HIDE DEF y, s
  <2>4. /\ z \in Database /\ z.run = x.run /\ z.task[t].active = NoRun
        /\ \A u \in Tasks \ {t} : z.task[u] = x.task[u]
    BY <2>1, <2>2, <2>3 DEF SetStatus, Database, TaskRows
  <2>5. e = z
    BY <1>5, <1>7 DEF StopTx, y, s
  <2>6. \A u \in Tasks \ {t} : d.task[u].active # i
    BY DEF Sound
  <2> HIDE DEF z, e
  <2>7. ASSUME NEW j \in Runs
        PROVE  /\ Live(z, j) => /\ Live(d, j) /\ ~Anchored(z, j)
                                /\ z.run[j].task = d.run[j].task
               /\ z.run[j].agent = d.run[j].agent
               /\ Present(z, j) <=> Present(d, j)
               /\ z.run[j].st = "queued" => d.run[j].st = "queued"
               /\ z.run[j].st = "running" => d.run[j].st = "running"
    BY <1>2, <1>4, <2>4 DEF Sound, Live, Present, LiveStates, Anchored
  <2>8. ASSUME NEW u \in Tasks
        PROVE  z.task[u].active \in {d.task[u].active, NoRun}
    BY <1>4, <2>4
  <2>9. ASSUME NEW u \in Tasks, NEW j \in Runs, d.task[u].active = j
        PROVE  /\ Live(z, j) => z.task[u].active = j
               /\ z.task[u].active = j => z.run[j].task = d.run[j].task
    <3>1. CASE u = t
      BY <1>2, <1>4, <1>7, <2>4, <2>9, <3>1, NoRunNotIn DEF Live, LiveStates
    <3>2. CASE u # t
      BY <1>4, <2>4, <2>6, <2>9, <3>2
    <3> QED
      BY <3>1, <3>2
  <2> QED
    BY <2>4, <2>5, <2>7, <2>8, <2>9 DEF Shrinks, e
<1> QED
  BY <1>6, <1>7

---------------------------------------------------------------------------
(* What the in-flight records owe to the tables, record by record.          *)

CallOK(p, d) ==
    /\ p.pc \notin {"adopt", "tie", "link"}
    /\ p.pc # "idle" => p.run \in Runs /\ Present(d, p.run)
    /\ p.pc = "lookup" => Linking(d, p.run) = {}
    /\ p.pc \in {"check", "lookup"} <=> p.next # "none"
    /\ Stage(p) \in {"start", "note", "event"} => p.run \in sent
    /\ Stage(p) \in {"close", "claim", "rewrite"} => p.seen \in Final
    /\ Stage(p) \in {"close", "claim", "completion", "rewrite"} =>
          p.owe \in {"none", "handoff", "authority"}
    /\ Stage(p) \in FollowUps => ~Live(d, p.run)
    /\ p.pc \in {"move", "handoff", "flag", "authority", "commit"} =>
          p.task \in Tasks
    /\ p.pc \in {"move", "flag", "commit"} => p.seen \in Statuses
    /\ p.pc = "revoke" => p.seen \in StopBehaviors

JobOK(j, d) ==
    /\ j \in Jobs
    /\ j.job # "abort" => j.task \in Tasks
    /\ j.job = "unlink" => Present(d, j.run) /\ ~Live(d, j.run)

LEMMA ConsistentSound ==
    ASSUME Consistent
    PROVE  /\ Sound(db)
           /\ \A c \in Calls : call[c] \in CallStates /\ CallOK(call[c], db)
           /\ \A j \in jobs : JobOK(j, db)
<1>1. Sound(db)
  BY DEF Consistent, TypeOK, Sound, LinkNamesOwnRun, LinkedRunPresent,
         LiveRunOwnsItsTask, AgentCapacity, EndedRunIsOver
<1>2. \A c \in Calls : call[c] \in CallStates /\ CallOK(call[c], db)
  BY DEF Consistent, TypeOK, CallsCarryTheirReadings, CallOK, Final
<1>3. \A j \in jobs : JobOK(j, db)
  BY DEF Consistent, TypeOK, JobsNameTheirTask, JobOK
<1> QED
  BY <1>1, <1>2, <1>3

LEMMA SoundPrimed ==
    ASSUME Sound(db')
    PROVE  /\ db' \in Database
           /\ LinkNamesOwnRun' /\ LinkedRunPresent' /\ LiveRunOwnsItsTask'
           /\ AgentCapacity' /\ EndedRunIsOver'
BY DEF Sound, LinkNamesOwnRun, LinkedRunPresent, LiveRunOwnsItsTask,
       AgentCapacity, EndedRunIsOver, Live, Present, Anchored

LEMMA CallOKKept ==
    ASSUME NEW d, NEW e, Shrinks(d, e), NEW p \in CallStates, CallOK(p, d)
    PROVE  CallOK(p, e)
<1>1. Stage(p) \in FollowUps => p.pc # "idle"
  BY DEF CallStates, CallOK, Stage, FollowUps
<1>2. ASSUME p.run \in Runs, Linking(d, p.run) = {}
      PROVE  Linking(e, p.run) = {}
  BY <1>2, NoRunNotIn DEF Linking, Shrinks
<1> QED
  BY <1>1, <1>2 DEF CallOK, Shrinks

LEMMA JobOKKept ==
    ASSUME NEW d, NEW e, Shrinks(d, e), NEW j, JobOK(j, d)
    PROVE  JobOK(j, e)
<1>1. j.run \in Runs
  BY DEF JobOK, Jobs
<1> QED
  BY <1>1 DEF JobOK, Shrinks

(* A step that only shrinks the tables keeps what dispatchers and launches  *)
(* rely on.                                                                 *)
LEMMA HoldersKept ==
    ASSUME Consistent, Shrinks(db, db'), UNCHANGED <<attempt, launch, sent>>
    PROVE  AttemptsHoldTheirRun' /\ LaunchesFollowTheMark'
<1>1. ASSUME NEW i \in Runs
      PROVE  /\ db'.run[i].st = "absent" => db.run[i].st = "absent"
             /\ db'.run[i].st = "queued" => db.run[i].st = "queued"
             /\ db'.run[i].st = "running" => db.run[i].st = "running" \/ i \in sent
             /\ Live(db', i) => Live(db, i)
  BY DEF Shrinks, Present
<1>2. \A w \in Dispatchers : attempt[w].run \in Runs \cup {NoRun}
  BY DEF Consistent, TypeOK, Attempts
<1>3. AttemptsHoldTheirRun'
  BY <1>1, <1>2 DEF Consistent, AttemptsHoldTheirRun
<1>4. LaunchesFollowTheMark'
  BY <1>1 DEF Consistent, LaunchesFollowTheMark, Live, Present
<1> QED
  BY <1>3, <1>4

LEMMA Carried ==
    ASSUME Consistent, Shrinks(db, db'), UNCHANGED <<attempt, launch, sent>>,
           call' \in [Calls -> CallStates],
           \A c \in Calls : CallOK(call'[c], db'),
           \A j \in jobs' : j \in jobs \/ JobOK(j, db')
    PROVE  Consistent'
<1>1. Sound(db')
  BY ConsistentSound, ShrinkKeeps
<1>2. \A j \in jobs' : JobOK(j, db')
  BY ConsistentSound, JobOKKept
<1>3. TypeOK'
  BY <1>1, <1>2 DEF Consistent, TypeOK, Sound, JobOK
<1>4. CallsCarryTheirReadings'
  BY DEF CallOK, CallsCarryTheirReadings, Final, Present, Live
<1>5. JobsNameTheirTask'
  BY <1>2 DEF JobOK, JobsNameTheirTask, Present, Live
<1> QED
  BY <1>1, <1>3, <1>4, <1>5, SoundPrimed, HoldersKept DEF Consistent

(* The same for the steps that leave every handler alone ...                *)
LEMMA CarriedQuietly ==
    ASSUME Consistent, Shrinks(db, db'),
           UNCHANGED <<attempt, launch, sent, call>>,
           \A j \in jobs' : j \in jobs \/ JobOK(j, db')
    PROVE  Consistent'
<1>1. \A c \in Calls : CallOK(call'[c], db')
  BY ConsistentSound, CallOKKept
<1> QED
  BY <1>1, Carried DEF Consistent, TypeOK

(* ... and for those that move one handler.                                 *)
LEMMA CarriedByCall ==
    ASSUME Consistent, NEW c \in Calls, NEW q \in CallStates,
           Shrinks(db, db'), UNCHANGED <<attempt, launch, sent>>,
           call' = [call EXCEPT ![c] = q], CallOK(q, db'),
           \A j \in jobs' : j \in jobs \/ JobOK(j, db')
    PROVE  Consistent'
<1>1. call' \in [Calls -> CallStates]
  BY DEF Consistent, TypeOK
<1>2. \A k \in Calls : CallOK(call'[k], db')
  <2>1. ASSUME NEW k \in Calls, k # c
        PROVE  call'[k] = call[k] /\ CallOK(call[k], db')
    BY <2>1, ConsistentSound, CallOKKept DEF Consistent, TypeOK
  <2>2. call'[c] = q
    BY DEF Consistent, TypeOK
  <2> QED
    BY <2>1, <2>2
<1> QED
  BY <1>1, <1>2, Carried

---------------------------------------------------------------------------
(* Operators and the background.                                            *)

LEMMA PausedShrinks ==
    ASSUME NEW d, Sound(d), NEW t \in Tasks, NEW b \in BOOLEAN
    PROVE  /\ Shrinks(d, [d EXCEPT !.task[t].paused = b])
           /\ Shrinks(d, [d EXCEPT !.task[t].cooling = b])
<1> DEFINE q == [d.task[t] EXCEPT !.paused = b]
           r == [d.task[t] EXCEPT !.cooling = b]
<1>1. d.task[t] \in TaskRows
  BY DEF Sound, Database
<1>2. q \in TaskRows /\ q.active = d.task[t].active
  BY <1>1 DEF TaskRows
<1>3. r \in TaskRows /\ r.active = d.task[t].active
  BY <1>1 DEF TaskRows
<1> HIDE DEF q, r
<1>4. /\ Shrinks(d, [d EXCEPT !.task[t] = q])
      /\ Shrinks(d, [d EXCEPT !.task[t] = r])
  BY <1>2, <1>3, TaskRowShrinks
<1> QED
  BY <1>4 DEF q, r

LEMMA OverRowShrinks ==
    ASSUME NEW d, Sound(d), NEW i \in Runs, ~Live(d, i)
    PROVE  /\ Shrinks(d, [d EXCEPT !.run[i].ended = TRUE])
           /\ Shrinks(d, [d EXCEPT !.run[i].aged = TRUE])
<1> DEFINE q == [d.run[i] EXCEPT !.ended = TRUE]
           r == [d.run[i] EXCEPT !.aged = TRUE]
<1>1. d.run[i] \in RunRows
  BY DEF Sound, Database
<1>2. /\ q \in RunRows /\ q.st = d.run[i].st
      /\ q.task = d.run[i].task /\ q.agent = d.run[i].agent
  BY <1>1 DEF RunRows
<1>3. /\ r \in RunRows /\ r.st = d.run[i].st
      /\ r.task = d.run[i].task /\ r.agent = d.run[i].agent
  BY <1>1 DEF RunRows
<1> HIDE DEF q, r
<1>4. q.st \notin LiveStates /\ r.st \notin LiveStates
  BY <1>2, <1>3 DEF Live
<1>6. /\ Shrinks(d, [d EXCEPT !.run[i] = q])
      /\ Shrinks(d, [d EXCEPT !.run[i] = r])
  BY <1>2, <1>3, <1>4, RunRowShrinks DEF LiveStates
<1> QED
  BY <1>6 DEF q, r

LEMMA TaskStepKeeps ==
    ASSUME Consistent, NEW t \in Tasks, TaskStep(t)
    PROVE  Consistent'
<1>0. Sound(db)
  BY ConsistentSound
<1>1. ASSUME NEW s \in Statuses, Edit(t, s)
      PROVE  Consistent'
  <2> DEFINE m == SetStatus(db, t, s)
  <2>1. Shrinks(db, m) /\ Sound(m)
    BY <1>0, StatusShrinks, ShrinkKeeps
  <2> HIDE DEF m
  <2>2. Shrinks(db, Cleanup(m, t))
    BY <2>1, CleanupShrinks, ShrinkTrans
  <2>3. \A j \in CleanupJobs(m, t) : JobOK(j, db')
    BY <2>1, CleanupJobsTyped DEF JobOK
  <2> QED
    BY <1>1, <2>2, <2>3, CarriedQuietly DEF Edit, m
<1>2. CASE Pause(t)
  BY <1>0, <1>2, PausedShrinks, CarriedQuietly DEF Pause
<1>3. CASE Unpause(t)
  BY <1>0, <1>3, PausedShrinks, CarriedQuietly DEF Unpause
<1>4. CASE CancelTask(t)
  <2>1. Shrinks(db, db')
    BY <1>0, <1>4, CancelShrinks DEF CancelTask
  <2>2. \A j \in CancelJobs(db, t) : JobOK(j, db')
    BY DEF CancelJobs, AbortJob, JobOK, Jobs
  <2> QED
    BY <1>4, <2>1, <2>2, CarriedQuietly DEF CancelTask
<1>5. CASE ClearDeadLink(t)
  <2>1. db.task[t].active \in Runs
    BY <1>0, <1>5 DEF ClearDeadLink, Sound, Database, TaskRows
  <2>2. ~Live(db, db.task[t].active)
    BY <1>0, <1>5, <2>1 DEF ClearDeadLink, Sound
  <2> QED
    BY <1>0, <1>5, <2>1, <2>2, DetachShrinks, CarriedQuietly DEF ClearDeadLink
<1>6. CASE Sweep(t)
  <2>1. \A j \in CleanupJobs(db, t) : JobOK(j, db')
    BY <1>0, CleanupJobsTyped DEF JobOK
  <2> QED
    BY <1>0, <1>6, <2>1, CleanupShrinks, CarriedQuietly DEF Sweep
<1>7. CASE BackoffElapses(t)
  BY <1>0, <1>7, PausedShrinks, CarriedQuietly DEF BackoffElapses
<1> QED
  BY <1>1, <1>2, <1>3, <1>4, <1>5, <1>6, <1>7 DEF TaskStep

LEMMA RunStepKeeps ==
    ASSUME Consistent, NEW i \in Runs, RunStep(i)
    PROVE  Consistent'
<1>0. Sound(db)
  BY ConsistentSound
<1>1. CASE CheckIn(i)
  BY <1>0, <1>1, MarkRunningShrinks, CarriedQuietly DEF CheckIn
<1>2. CASE Expire(i)
  <2>1. Present(db, i)
    BY <1>2 DEF Expire, Live, Present, LiveStates
  <2>2. Shrinks(db, db') /\ ~Live(db', i)
    BY <1>0, <1>2, <2>1, CloseRunShrinks DEF Expire, Final
  <2>3. Present(db', i)
    BY <2>1, <2>2 DEF Shrinks
  <2>4. db.run[i].task \in Tasks \cup {NoTask}
    BY <1>0 DEF Sound, Database, RunRows
  <2>5. db.run[i].task # NoTask => JobOK(UnlinkJob(db.run[i].task, i), db')
    BY <2>2, <2>3, <2>4 DEF UnlinkJob, JobOK, Jobs
  <2> QED
    BY <1>2, <2>2, <2>5, CarriedQuietly DEF Expire
<1>3. CASE GraceElapses(i)
  <2>1. ~Live(db, i)
    BY <1>0, <1>3 DEF GraceElapses, Sound
  <2> QED
    BY <1>0, <1>3, <2>1, OverRowShrinks, CarriedQuietly DEF GraceElapses
<1>4. ASSUME NEW t \in Tasks, NEW to \in Statuses, PostOutcome(i, t, to)
      PROVE  Consistent'
  <2>1. Present(db, i)
    BY <1>4 DEF PostOutcome, Consistent, LaunchesFollowTheMark
  <2>2. /\ Shrinks(db, db')
        /\ \A j \in OutcomeJobs(db, t, i, to, "done") : JobOK(j, db')
    BY <1>0, <1>4, <2>1, OutcomeShrinks DEF PostOutcome, Final, JobOK
  <2> QED
    BY <1>4, <2>2, CarriedQuietly DEF PostOutcome
<1> QED
  BY <1>1, <1>2, <1>3, <1>4 DEF RunStep

LEMMA JobStepKeeps ==
    ASSUME Consistent, NEW j \in jobs, JobStep(j)
    PROVE  Consistent'
<1>0. Sound(db) /\ JobOK(j, db)
  BY ConsistentSound
<1>1. CASE FireCleanup(j)
  <2>1. j.task \in Tasks
    BY <1>0, <1>1 DEF FireCleanup, JobOK
  <2>2. \A k \in CleanupJobs(db, j.task) : JobOK(k, db')
    BY <1>0, <2>1, CleanupJobsTyped DEF JobOK
  <2>3. Shrinks(db, db')
    BY <1>0, <1>1, <2>1, CleanupShrinks, ShrinkRefl DEF FireCleanup
  <2> QED
    BY <1>1, <2>2, <2>3, CarriedQuietly DEF FireCleanup
<1>2. CASE FireUnlink(j)
  <2>1. j.task \in Tasks /\ j.run \in Runs /\ ~Live(db, j.run)
    BY <1>0, <1>2 DEF FireUnlink, JobOK, Jobs
  <2> QED
    BY <1>0, <1>2, <2>1, DetachShrinks, CarriedQuietly DEF FireUnlink
<1>3. ASSUME NEW confirmed \in BOOLEAN, FireAbort(j, confirmed)
      PROVE  Consistent'
  <2> DEFINE i == j.run
             f == IF Live(db, i) THEN SetRun(db, i, "cancelled") ELSE db
             e == IF confirmed THEN [f EXCEPT !.run[i].ended = TRUE] ELSE f
  <2>1. i \in Runs
    BY <1>0 DEF JobOK, Jobs
  <2>2. Shrinks(db, f) /\ ~Live(f, i)
    <3>1. CASE Live(db, i)
      BY <1>0, <2>1, <3>1, SetRunShrinks DEF Live, Present, LiveStates, Final
    <3>2. CASE ~Live(db, i)
      BY <1>0, <3>2, ShrinkRefl
    <3> QED
      BY <3>1, <3>2
  <2> HIDE DEF f
  <2>3. Sound(f)
    BY <1>0, <2>2, ShrinkKeeps
  <2>4. Shrinks(f, e)
    BY <2>1, <2>2, <2>3, OverRowShrinks, ShrinkRefl
  <2>5. db' = e /\ jobs' = jobs \ {j}
    BY <1>3 DEF FireAbort, f
  <2>6. UNCHANGED <<attempt, launch, sent, call>>
    BY <1>3 DEF FireAbort
  <2> HIDE DEF e
  <2> QED
    BY <2>2, <2>4, <2>5, <2>6, ShrinkTrans, CarriedQuietly
<1> QED
  BY <1>1, <1>2, <1>3 DEF JobStep

---------------------------------------------------------------------------
(* Handlers.                                                                *)

LEMMA NoCallOK ==
    ASSUME NEW d
    PROVE  NoCall \in CallStates /\ CallOK(NoCall, d)
BY DEF NoCall, CallStates, CallOK, Stage, FollowUps

(* A step of handler c that leaves the tables and the jobs alone.           *)
LEMMA CarriedByReading ==
    ASSUME Consistent, NEW c \in Calls, NEW q \in CallStates, CallOK(q, db),
           call' = [call EXCEPT ![c] = q],
           UNCHANGED <<db, jobs, attempt, launch, sent>>
    PROVE  Consistent'
<1>1. Shrinks(db, db')
  BY ConsistentSound, ShrinkRefl
<1> QED
  BY <1>1, CarriedByCall

(* A step in which handler c returns.                                       *)
LEMMA CarriedByReturn ==
    ASSUME Consistent, NEW c \in Calls, Return(c), Shrinks(db, db'),
           UNCHANGED <<attempt, launch, sent>>,
           \A j \in jobs' : j \in jobs \/ JobOK(j, db')
    PROVE  Consistent'
BY NoCallOK, CarriedByCall DEF Return

LEMMA AuthoriseKeeps ==
    ASSUME Consistent, NEW c \in Calls, "completion" \notin Moves,
           NEW i \in Runs, NEW op \in {"start", "complete", "completion"},
           Authorise(c, i, op)
    PROVE  Consistent'
<1> DEFINE q == IF op = "complete" THEN [NoCall EXCEPT !.pc = op, !.run = i]
                ELSE [NoCall EXCEPT !.pc = "check", !.run = i, !.next = op]
<1>1. op \in {"start", "complete"}
  BY DEF Authorise
<1>2. /\ q \in CallStates /\ q.run = i
      /\ q.pc = IF op = "complete" THEN op ELSE "check"
      /\ q.next = IF op = "complete" THEN "none" ELSE op
  BY <1>1 DEF NoCall, CallStates
<1>3. Present(db, i) /\ i \in sent
  BY DEF Authorise, Consistent, LaunchesFollowTheMark
<1>4. CallOK(q, db)
  <2> HIDE DEF q
  <2> QED
    BY <1>1, <1>2, <1>3 DEF CallOK, Stage, FollowUps
<1>5. /\ call' = [call EXCEPT ![c] = q]
      /\ UNCHANGED <<db, jobs, attempt, launch, sent>>
  BY DEF Authorise
<1> HIDE DEF q
<1> QED
  BY <1>2, <1>4, <1>5, CarriedByReading

(* A check-in goes on once it has settled which task it is about.           *)
LEMMA ProceedKeeps ==
    ASSUME Consistent, NEW c \in Calls, Proceed(c),
           call[c].pc \in {"check", "lookup"},
           UNCHANGED <<db, jobs, attempt, launch, sent>>
    PROVE  Consistent'
<1> DEFINE p == call[c]
           q == [p EXCEPT !.pc = p.next, !.next = "none", !.tie = NoTask]
<1>0. p \in CallStates /\ CallOK(p, db)
  BY ConsistentSound
<1>1. p.next \in {"start", "completion", "rewrite", "note"}
  BY <1>0 DEF CallStates, CallOK
<1>2. /\ q \in CallStates /\ q.pc = p.next /\ q.next = "none"
      /\ q.run = p.run /\ q.seen = p.seen /\ q.owe = p.owe
  <2> DEFINE base == [p EXCEPT !.next = "none", !.tie = NoTask]
  <2>1. /\ base \in CallStates /\ base.next = "none"
        /\ base.run = p.run /\ base.seen = p.seen /\ base.owe = p.owe
    BY <1>0 DEF CallStates
  <2>2. q = [base EXCEPT !.pc = p.next]
    BY <1>0 DEF CallStates
  <2>3. ASSUME NEW r \in CallStates,
               NEW pc \in {"start", "completion", "rewrite", "note"}
        PROVE  LET e == [r EXCEPT !.pc = pc] IN
               /\ e \in CallStates /\ e.pc = pc /\ e.next = r.next
               /\ e.run = r.run /\ e.seen = r.seen /\ e.owe = r.owe
    BY DEF CallStates
  <2> HIDE DEF base, q
  <2> QED
    BY <1>1, <2>1, <2>2, <2>3
<1>3. Stage(q) = p.next /\ Stage(p) = p.next
  BY <1>1, <1>2 DEF Stage
<1>4. call' = [call EXCEPT ![c] = q]
  BY DEF Proceed, Consistent, TypeOK
<1> HIDE DEF q
<1>5. CallOK(q, db)
  BY <1>0, <1>1, <1>2, <1>3 DEF CallOK
<1> QED
  BY <1>2, <1>4, <1>5, CarriedByReading

LEMMA CheckInKeeps ==
    ASSUME Consistent, NEW c \in Calls,
           \/ \E i \in Runs : Heartbeat(c, i)
           \/ ResolveTask(c) \/ LookUpLink(c) \/ AttachRun(c) \/ AttachTask(c)
           \/ Note(c)
    PROVE  Consistent'
<1> DEFINE p == call[c]
<1>0. Sound(db) /\ p \in CallStates /\ CallOK(p, db)
  BY ConsistentSound
<1>a. \A i \in Runs : db.run[i].task = NoTask => Linking(db, i) = {}
  BY <1>0, NullsAssumption DEF Sound, Linking
<1>1. ASSUME NEW i \in Runs, Heartbeat(c, i)
      PROVE  Consistent'
  <2> DEFINE q == [NoCall EXCEPT !.pc = "lookup", !.run = i, !.next = "note"]
  <2>1. /\ q \in CallStates /\ q.pc = "lookup" /\ q.run = i
        /\ q.next = "note"
    BY DEF NoCall, CallStates
  <2>2. i \in sent /\ Present(db, i) /\ Linking(db, i) = {}
    BY <1>1, <1>a DEF Heartbeat, Consistent, LaunchesFollowTheMark
  <2>3. /\ call' = [call EXCEPT ![c] = q]
        /\ UNCHANGED <<db, jobs, attempt, launch, sent>>
    BY <1>1 DEF Heartbeat
  <2> HIDE DEF q
  <2>4. CallOK(q, db)
    BY <2>1, <2>2 DEF CallOK, Stage, FollowUps
  <2> QED
    BY <2>1, <2>3, <2>4, CarriedByReading
<1>2. CASE ResolveTask(c)
  <2>1. CASE db.run[p.run].task # NoTask
    BY <1>2, <2>1, ProceedKeeps DEF ResolveTask
  <2>2. CASE db.run[p.run].task = NoTask
    <3> DEFINE q == [p EXCEPT !.pc = "lookup"]
    <3>1. p.pc = "check" /\ p.run \in Runs /\ Linking(db, p.run) = {}
      BY <1>0, <1>2, <1>a, <2>2 DEF ResolveTask, CallOK
    <3>2. /\ q \in CallStates /\ q.pc = "lookup" /\ q.next = p.next
          /\ q.run = p.run /\ q.seen = p.seen /\ q.owe = p.owe
      BY <1>0 DEF CallStates
    <3>3. Stage(q) = p.next /\ Stage(p) = p.next
      BY <3>1, <3>2 DEF Stage
    <3>4. /\ call' = [call EXCEPT ![c] = q]
          /\ UNCHANGED <<db, jobs, attempt, launch, sent>>
      BY <1>2, <2>2 DEF ResolveTask, Goto
    <3> HIDE DEF q
    <3>5. CallOK(q, db)
      BY <1>0, <3>1, <3>2, <3>3 DEF CallOK
    <3> QED
      BY <3>2, <3>4, <3>5, CarriedByReading
  <2> QED
    BY <2>1, <2>2
<1>3. CASE LookUpLink(c)
  <2>1. Linking(db, p.run) = {}
    BY <1>0, <1>3 DEF LookUpLink, CallOK
  <2> QED
    BY <1>3, <2>1, ProceedKeeps DEF LookUpLink
<1>4. ~AttachRun(c) /\ ~AttachTask(c)
  BY <1>0 DEF AttachRun, AttachTask, CallOK
<1>5. CASE Note(c)
  <2>1. p.run \in Runs /\ p.run \in sent
    BY <1>0, <1>5 DEF Note, CallOK, Stage
  <2>2. Shrinks(db, db')
    BY <1>0, <1>5, <2>1, MarkRunningShrinks DEF Note
  <2> QED
    BY <1>5, <2>2, CarriedByReturn DEF Note
<1> QED
  BY <1>1, <1>2, <1>3, <1>4, <1>5

LEMMA StartCallbackKeeps ==
    ASSUME Consistent, NEW c \in Calls,
           Start(c) \/ StartEventRead(c) \/ Adopt(c) \/ MoveStarted(c)
    PROVE  Consistent'
<1> DEFINE p == call[c]
<1>0. Sound(db) /\ p \in CallStates /\ CallOK(p, db)
  BY ConsistentSound
<1>2. CASE Start(c)
  <2> DEFINE q == [p EXCEPT !.pc = "event"]
  <2>1. p.pc = "start" /\ p.run \in Runs /\ p.run \in sent
    BY <1>0, <1>2 DEF Start, CallOK, Stage
  <2>2. Shrinks(db, db')
    BY <1>0, <1>2, <2>1, MarkRunningShrinks DEF Start
  <2>3. /\ q \in CallStates /\ q.pc = "event" /\ q.run = p.run
        /\ q.next = "none"
    BY <1>0, <2>1 DEF CallStates, CallOK
  <2>4. Present(db', p.run)
    BY <1>0, <2>1, <2>2 DEF Shrinks, CallOK, Stage
  <2>5. CallOK(q, db')
    BY <2>1, <2>3, <2>4 DEF CallOK, Stage, FollowUps
  <2>6. /\ call' = [call EXCEPT ![c] = q]
        /\ UNCHANGED <<jobs, attempt, launch, sent>>
    BY <1>2 DEF Start, Goto
  <2> HIDE DEF q
  <2> QED
    BY <2>2, <2>3, <2>5, <2>6, CarriedByCall
<1>3. CASE StartEventRead(c)
  <2> DEFINE i == p.run
             t == db.run[i].task
             to == StartEvent[db.task[t].status]
             after == IF to = db.task[t].status THEN "none" ELSE "move"
             q == [p EXCEPT !.pc = "move", !.task = t, !.seen = to]
  <2>1. i \in Runs /\ Present(db, i)
    BY <1>0, <1>3 DEF StartEventRead, CallOK, Stage
  <2>2. ~(t # NoTask /\ db.task[t].active = NoRun /\ Live(db, i))
    BY <1>0, <2>1, NoRunNotIn DEF Sound
  <2>3. CASE t # NoTask /\ db.task[t].active = i /\ after = "move"
    <3>1. t \in Tasks
      BY <1>0, <2>1, <2>3 DEF Sound, Database, RunRows
    <3>2. db.task[t].status \in Statuses
      BY <1>0, <3>1 DEF Sound, Database, TaskRows
    <3>3. to \in Statuses
      BY <3>2, WorkflowAssumption
    <3>4. /\ q \in CallStates /\ q.pc = "move" /\ q.run = i
          /\ q.task = t /\ q.seen = to /\ q.next = "none"
      <4>1. p.next = "none"
        BY <1>0, <1>3 DEF StartEventRead, CallOK
      <4> HIDE DEF t, to
      <4> QED BY <1>0, <3>1, <3>3, <4>1 DEF CallStates
    <3>5. CallOK(q, db)
      <4> HIDE DEF q, t, to
      <4> QED BY <2>1, <3>1, <3>3, <3>4 DEF CallOK, Stage, FollowUps
    <3>6. /\ call' = [call EXCEPT ![c] = q]
          /\ UNCHANGED <<db, jobs, attempt, launch, sent>>
      BY <1>3, <2>2, <2>3 DEF StartEventRead
    <3> HIDE DEF q
    <3> QED
      BY <3>4, <3>5, <3>6, CarriedByReading
  <2>4. CASE ~(t # NoTask /\ db.task[t].active = i /\ after = "move")
    <3>1. /\ call' = [call EXCEPT ![c] = NoCall]
          /\ UNCHANGED <<db, jobs, attempt, launch, sent>>
      BY <1>3, <2>2, <2>4 DEF StartEventRead
    <3> QED
      BY <3>1, NoCallOK, CarriedByReading
  <2> QED
    BY <2>3, <2>4
<1>4. CASE Adopt(c)
  BY <1>0, <1>4 DEF Adopt, CallOK, Stage
<1>5. CASE MoveStarted(c)
  <2>1. p.task \in Tasks /\ p.seen \in Statuses
    BY <1>0, <1>5 DEF MoveStarted, CallOK, Stage
  <2>2. Shrinks(db, db')
    BY <1>0, <1>5, <2>1, StatusShrinks DEF MoveStarted
  <2> QED
    BY <1>5, <2>2, CarriedByReturn DEF MoveStarted
<1> QED
  BY <1>2, <1>3, <1>4, <1>5

LEMMA EndCallbackKeeps ==
    ASSUME Consistent, NEW c \in Calls,
           \/ \E label \in {"done", "failed"} : CompleteRead(c, label)
           \/ Close(c) \/ CompletionRead(c) \/ Rewrite(c)
    PROVE  Consistent'
<1> DEFINE p == call[c]
<1>0. Sound(db) /\ p \in CallStates /\ CallOK(p, db)
  BY ConsistentSound
<1>1. ASSUME NEW label \in {"done", "failed"}, CompleteRead(c, label)
      PROVE  Consistent'
  <2> DEFINE i == p.run
             r == db.run[i]
             missing == /\ label = "done"
                        /\ r.task # NoTask
                        /\ db.task[r.task].status \in NeedsOutcome
                        /\ ~r.outcome
             owed == IF missing THEN "handoff"
                     ELSE IF label = "failed" /\ r.task # NoTask
                          THEN "authority" ELSE "none"
             q == [NoCall EXCEPT !.pc = "close", !.run = i, !.task = r.task,
                                 !.seen = label, !.owe = owed]
  <2>1. i \in Runs /\ Present(db, i)
    BY <1>0, <1>1 DEF CompleteRead, CallOK, Stage
  <2>2. r.task \in Tasks \cup {NoTask}
    BY <1>0, <2>1 DEF Sound, Database, RunRows
  <2>3. owed \in {"none", "handoff", "authority"}
    OBVIOUS
  <2>4. /\ call' = [call EXCEPT ![c] = q]
        /\ UNCHANGED <<db, jobs, attempt, launch, sent>>
    BY <1>1 DEF CompleteRead
  <2> HIDE DEF owed
  <2>5. /\ q \in CallStates /\ q.pc = "close" /\ q.run = i
        /\ q.seen = label /\ q.owe = owed /\ q.next = "none"
    BY <2>1, <2>2, <2>3 DEF NoCall, CallStates, RunStates, LiveStates
  <2>6. CallOK(q, db)
    <3> HIDE DEF q
    <3> QED
      BY <2>1, <2>3, <2>5 DEF CallOK, Stage, Final, FollowUps
  <2> HIDE DEF q
  <2> QED
    BY <2>4, <2>5, <2>6, CarriedByReading
<1>2. CASE Close(c)
  <2> DEFINE q == [p EXCEPT !.pc = "check", !.next = "rewrite"]
  <2>1. /\ p.run \in Runs /\ Present(db, p.run) /\ p.seen \in Final
        /\ p.owe \in {"none", "handoff", "authority"}
    BY <1>0, <1>2 DEF Close, CallOK, Stage
  <2>2. Shrinks(db, db')
    BY <1>0, <1>2, <2>1, CloseRunShrinks DEF Close
  <2>3. /\ q \in CallStates /\ q.pc = "check" /\ q.next = "rewrite"
        /\ q.run = p.run /\ q.seen = p.seen /\ q.owe = p.owe
    BY <1>0 DEF CallStates
  <2>4. Present(db', p.run) /\ ~Live(db', p.run)
    <3>1. db' = CloseRun(db, p.run, p.seen)
      BY <1>2 DEF Close
    <3> QED
      BY <1>0, <2>1, <2>2, <3>1, ClosedIsOver DEF Shrinks
  <2>5. CallOK(q, db')
    BY <2>1, <2>3, <2>4 DEF CallOK, Stage, FollowUps
  <2>6. /\ call' = [call EXCEPT ![c] = q]
        /\ UNCHANGED <<attempt, launch, sent>>
    BY <1>2 DEF Close, Consistent, TypeOK
  <2>7. p.task \in Tasks \cup {NoTask}
    BY <1>0 DEF CallStates
  <2>8. \A j \in ScheduleJobs(db', p.task, p.run) : JobOK(j, db')
    BY <2>1, <2>7 DEF ScheduleJobs, CleanupJob, JobOK, Jobs
  <2>9. jobs' = jobs \cup ScheduleJobs(db', p.task, p.run)
    BY <1>2 DEF Close
  <2> HIDE DEF q
  <2> QED
    BY <2>2, <2>3, <2>5, <2>6, <2>8, <2>9, CarriedByCall
<1>3. CASE CompletionRead(c)
  <2> DEFINE i == p.run
             q == [p EXCEPT !.pc = "rewrite", !.seen = db.run[i].st]
  <2>1. /\ p.pc = "completion" /\ i \in Runs /\ Present(db, i)
        /\ ~Live(db, i) /\ p.owe \in {"none", "handoff", "authority"}
    BY <1>0, <1>3 DEF CompletionRead, CallOK, Stage, FollowUps
  <2>2. db.run[i].st \in Final
    <3>1. db.run[i].st \in RunStates
      BY <1>0, <2>1 DEF Sound, Database, RunRows
    <3> QED
      BY <2>1, <3>1 DEF Live, Present, RunStates, LiveStates, Final
  <2>3. db' = db
    BY <1>3, <2>1 DEF CompletionRead, MarkRunning, Live, LiveStates
  <2>4. /\ call' = [call EXCEPT ![c] = q]
        /\ UNCHANGED <<db, jobs, attempt, launch, sent>>
    BY <1>3, <2>3 DEF CompletionRead, Consistent, TypeOK
  <2> HIDE DEF i
  <2>5. /\ q \in CallStates /\ q.pc = "rewrite" /\ q.run = p.run
        /\ q.seen = db.run[i].st /\ q.owe = p.owe /\ q.next = "none"
    BY <1>0, <2>1, <2>2 DEF CallStates, RunStates, Final, CallOK
  <2> HIDE DEF q
  <2>6. CallOK(q, db)
    BY <2>1, <2>2, <2>5 DEF CallOK, Stage, i
  <2> QED
    BY <2>4, <2>5, <2>6, CarriedByReading
<1>4. CASE Rewrite(c)
  <2> DEFINE t == IF p.task = NoTask THEN db.run[p.run].task ELSE p.task
             q == [p EXCEPT !.pc = p.owe, !.task = t, !.owe = "none"]
  <2>1. /\ p.run \in Runs /\ Present(db, p.run) /\ p.seen \in Final
        /\ p.owe \in {"none", "handoff", "authority"}
    BY <1>0, <1>4 DEF Rewrite, CallOK, Stage
  <2>2. Shrinks(db, db')
    BY <1>0, <1>4, <2>1, CloseRunShrinks DEF Rewrite
  <2>3. t \in Tasks \cup {NoTask}
    BY <1>0, <2>1 DEF CallStates, Sound, Database, RunRows
  <2>4. CASE p.owe = "none" \/ t = NoTask
    <3>1. Return(c) /\ UNCHANGED <<jobs, attempt, launch, sent>>
      BY <1>4, <2>4 DEF Rewrite, Return
    <3> QED
      BY <2>2, <3>1, CarriedByReturn
  <2>5. CASE ~(p.owe = "none" \/ t = NoTask)
    <3>1. /\ call' = [call EXCEPT ![c] = q]
          /\ UNCHANGED <<jobs, attempt, launch, sent>>
      BY <1>4, <2>5 DEF Rewrite
    <3> HIDE DEF t
    <3>2. /\ q \in CallStates /\ q.pc \in {"handoff", "authority"}
          /\ q.run = p.run /\ q.task = t /\ q.next = "none"
      <4>1. p.next = "none"
        BY <1>0, <1>4 DEF Rewrite, CallOK
      <4> QED
        BY <1>0, <2>1, <2>3, <2>5, <4>1 DEF CallStates
    <3>3. Present(db', p.run) /\ ~Live(db', p.run)
      BY <1>0, <1>4, <2>1, <2>2 DEF Shrinks, Rewrite, CallOK, Stage, FollowUps
    <3> HIDE DEF q
    <3>4. CallOK(q, db')
      BY <2>1, <2>3, <2>5, <3>2, <3>3 DEF CallOK, Stage
    <3> QED
      BY <2>2, <3>1, <3>2, <3>4, CarriedByCall
  <2> QED
    BY <2>4, <2>5
<1> QED
  BY <1>1, <1>2, <1>3, <1>4

LEMMA RuntimeEndKeeps ==
    ASSUME Consistent, NEW c \in Calls,
           \/ \E i \in Runs, success \in BOOLEAN : RuntimeEnd(c, i, success)
           \/ ClaimEnd(c)
    PROVE  Consistent'
<1> DEFINE p == call[c]
<1>0. Sound(db) /\ p \in CallStates /\ CallOK(p, db)
  BY ConsistentSound
<1>1. ASSUME NEW i \in Runs, NEW success \in BOOLEAN, RuntimeEnd(c, i, success)
      PROVE  Consistent'
  <2> DEFINE r == db.run[i]
             requires == /\ r.task # NoTask
                         /\ db.task[r.task].status \in NeedsOutcome
             next == IF r.st \in LiveStates /\ ~r.outcome
                     THEN IF success /\ ~requires THEN "done" ELSE "failed"
                     ELSE r.st
             owed == IF r.outcome \/ (success /\ ~requires) THEN "none"
                     ELSE IF success THEN "handoff" ELSE "authority"
             q == [NoCall EXCEPT !.pc = "claim", !.run = i, !.task = r.task,
                                 !.seen = next, !.owe = owed]
  <2>1. Present(db, i)
    BY <1>1 DEF RuntimeEnd, Consistent, LaunchesFollowTheMark
  <2>2. r.task \in Tasks \cup {NoTask} /\ r.st \in RunStates
    BY <1>0 DEF Sound, Database, RunRows
  <2>3. next \in Final
    BY <1>0, <2>1, <2>2
       DEF Sound, Live, Anchored, Present, RunStates, LiveStates, Final
  <2>4. owed \in {"none", "handoff", "authority"}
    OBVIOUS
  <2>5. /\ call' = [call EXCEPT ![c] = q]
        /\ UNCHANGED <<db, jobs, attempt, launch, sent>>
    BY <1>1 DEF RuntimeEnd
  <2> HIDE DEF next, owed
  <2>6. /\ q \in CallStates /\ q.pc = "claim" /\ q.run = i
        /\ q.seen = next /\ q.owe = owed /\ q.next = "none"
    BY <2>2, <2>3, <2>4 DEF NoCall, CallStates, RunStates, Final
  <2>7. CallOK(q, db)
    <3> HIDE DEF q
    <3> QED
      BY <2>1, <2>3, <2>4, <2>6 DEF CallOK, Stage, FollowUps
  <2> HIDE DEF q
  <2> QED
    BY <2>5, <2>6, <2>7, CarriedByReading
<1>2. CASE ClaimEnd(c)
  <2> DEFINE q == [p EXCEPT !.pc = "check", !.task = NoTask,
                            !.next = "completion"]
  <2>1. /\ p.run \in Runs /\ Present(db, p.run) /\ p.seen \in Final
        /\ p.owe \in {"none", "handoff", "authority"}
    BY <1>0, <1>2 DEF ClaimEnd, CallOK, Stage
  <2>2. CASE Live(db, p.run) /\ ~db.run[p.run].ended
    <3>1. /\ db' = CloseRun(db, p.run, p.seen)
          /\ jobs' = jobs \cup ScheduleJobs(db', p.task, p.run)
          /\ UNCHANGED <<attempt, launch, sent>>
      BY <1>2, <2>2 DEF ClaimEnd
    <3>2. call' = [call EXCEPT ![c] = q]
      BY <1>2, <2>2 DEF ClaimEnd, Consistent, TypeOK
    <3>3. Shrinks(db, db')
      BY <1>0, <2>1, <3>1, CloseRunShrinks
    <3>4. /\ q \in CallStates /\ q.pc = "check" /\ q.next = "completion"
          /\ q.run = p.run /\ q.owe = p.owe
      BY <1>0 DEF CallStates
    <3>5. Present(db', p.run) /\ ~Live(db', p.run)
      BY <1>0, <2>1, <3>1, <3>3, ClosedIsOver DEF Shrinks
    <3>6. CallOK(q, db')
      BY <2>1, <3>4, <3>5 DEF CallOK, Stage
    <3>7. p.task \in Tasks \cup {NoTask}
      BY <1>0 DEF CallStates
    <3>8. \A j \in ScheduleJobs(db', p.task, p.run) : JobOK(j, db')
      BY <2>1, <3>7 DEF ScheduleJobs, CleanupJob, JobOK, Jobs
    <3> HIDE DEF q
    <3> QED
      BY <3>1, <3>2, <3>3, <3>4, <3>6, <3>8, CarriedByCall
  <2>3. CASE ~(Live(db, p.run) /\ ~db.run[p.run].ended)
    <3>1. Return(c) /\ UNCHANGED <<db, jobs, attempt, launch, sent>>
      BY <1>2, <2>3 DEF ClaimEnd
    <3> QED
      BY <1>0, <3>1, ShrinkRefl, CarriedByReturn
  <2> QED
    BY <2>2, <2>3
<1> QED
  BY <1>1, <1>2

LEMMA FollowUpKeeps ==
    ASSUME Consistent, NEW c \in Calls,
           \/ Handoff(c) \/ Flag(c) \/ ReadAuthority(c) \/ CommitFailure(c)
           \/ \E t \in Tasks : ReconcileMissing(c, t)
    PROVE  Consistent'
<1> DEFINE p == call[c]
<1>0. Sound(db) /\ p \in CallStates /\ CallOK(p, db)
  BY ConsistentSound
<1>1. CASE Handoff(c)
  <2> DEFINE s == db.task[p.task].status
             q == [p EXCEPT !.pc = "flag", !.seen = MissingEvent[s]]
  <2>1. /\ p.task \in Tasks /\ p.run \in Runs /\ Present(db, p.run)
        /\ ~Live(db, p.run) /\ p.next = "none"
    BY <1>0, <1>1 DEF Handoff, CallOK, Stage, FollowUps
  <2>2. s \in Statuses
    BY <1>0, <2>1 DEF Sound, Database, TaskRows
  <2>3. MissingEvent[s] \in Statuses
    BY <2>2, WorkflowAssumption
  <2>4. CASE MissingEvent[s] = s
    <3>1. Return(c) /\ UNCHANGED <<db, jobs, attempt, launch, sent>>
      BY <1>1, <2>4 DEF Handoff
    <3> QED
      BY <1>0, <3>1, ShrinkRefl, CarriedByReturn
  <2>5. CASE MissingEvent[s] # s
    <3>1. /\ call' = [call EXCEPT ![c] = q]
          /\ UNCHANGED <<db, jobs, attempt, launch, sent>>
      BY <1>1, <2>5 DEF Handoff, Consistent, TypeOK
    <3>2. /\ q \in CallStates /\ q.pc = "flag" /\ q.run = p.run
          /\ q.task = p.task /\ q.seen = MissingEvent[s] /\ q.next = "none"
      BY <1>0, <2>1, <2>3 DEF CallStates
    <3> HIDE DEF q
    <3>3. CallOK(q, db)
      BY <2>1, <2>3, <3>2 DEF CallOK, Stage
    <3> QED
      BY <3>1, <3>2, <3>3, CarriedByReading
  <2> QED
    BY <2>4, <2>5
<1>2. CASE Flag(c)
  <2>1. p.task \in Tasks /\ p.seen \in Statuses
    BY <1>0, <1>2 DEF Flag, CallOK, Stage
  <2>2. Shrinks(db, db')
    BY <1>0, <1>2, <2>1, StatusShrinks DEF Flag
  <2> QED
    BY <1>2, <2>2, CarriedByReturn DEF Flag
<1>3. CASE ReadAuthority(c)
  <2> DEFINE s == db.task[p.task].status
             allowed == /\ s \notin {"cancelled", "done"}
                        /\ Authoritative(db, p.task, p.run)
                        /\ FailureRoutes[s] # {}
  <2>1. /\ p.task \in Tasks /\ p.run \in Runs /\ Present(db, p.run)
        /\ ~Live(db, p.run) /\ p.next = "none"
    BY <1>0, <1>3 DEF ReadAuthority, CallOK, Stage, FollowUps
  <2>2. s \in Statuses
    BY <1>0, <2>1 DEF Sound, Database, TaskRows
  <2>3. CASE ~allowed
    <3>1. Return(c) /\ UNCHANGED <<db, jobs, attempt, launch, sent>>
      BY <1>3, <2>3 DEF ReadAuthority
    <3> QED
      BY <1>0, <3>1, ShrinkRefl, CarriedByReturn
  <2>4. ASSUME NEW to \in FailureRoutes[s],
               call' = [call EXCEPT ![c].pc = "commit", ![c].seen = to]
        PROVE  Consistent'
    <3> DEFINE q == [p EXCEPT !.pc = "commit", !.seen = to]
    <3>1. to \in Statuses
      BY <2>2, WorkflowAssumption
    <3>2. /\ call' = [call EXCEPT ![c] = q]
          /\ UNCHANGED <<db, jobs, attempt, launch, sent>>
      BY <1>3, <2>4 DEF ReadAuthority, Consistent, TypeOK
    <3>3. /\ q \in CallStates /\ q.pc = "commit" /\ q.run = p.run
          /\ q.task = p.task /\ q.seen = to /\ q.next = "none"
      BY <1>0, <2>1, <3>1 DEF CallStates
    <3> HIDE DEF q
    <3>4. CallOK(q, db)
      BY <2>1, <3>1, <3>3 DEF CallOK, Stage
    <3> QED
      BY <3>2, <3>3, <3>4, CarriedByReading
  <2> QED
    BY <1>3, <2>3, <2>4 DEF ReadAuthority
<1>4. CASE CommitFailure(c)
  <2>1. /\ p.task \in Tasks /\ p.seen \in Statuses
        /\ p.run \in Runs /\ Present(db, p.run)
    BY <1>0, <1>4 DEF CommitFailure, CallOK, Stage
  <2>2. /\ Shrinks(db, db')
        /\ \A j \in OutcomeJobs(db, p.task, p.run, p.seen, "failed") :
              JobOK(j, db')
    BY <1>0, <1>4, <2>1, OutcomeShrinks DEF CommitFailure, Final, JobOK
  <2> QED
    BY <1>4, <2>2, CarriedByReturn DEF CommitFailure
<1>5. ASSUME NEW t \in Tasks, ReconcileMissing(c, t)
      PROVE  Consistent'
  <2> DEFINE i == db.task[t].active
             q == [NoCall EXCEPT !.pc = "handoff", !.run = i, !.task = t]
  <2>1. i \in Runs /\ Present(db, i) /\ ~Live(db, i)
    <3>1. i # NoRun /\ db.run[i].ended
      BY <1>5 DEF ReconcileMissing
    <3>2. i \in Runs
      BY <1>0, <3>1 DEF Sound, Database, TaskRows
    <3> QED
      BY <1>0, <3>1, <3>2 DEF Sound, Anchored
  <2>2. /\ call' = [call EXCEPT ![c] = q]
        /\ UNCHANGED <<db, jobs, attempt, launch, sent>>
    BY <1>5 DEF ReconcileMissing
  <2> HIDE DEF i
  <2>3. /\ q \in CallStates /\ q.pc = "handoff" /\ q.run = i /\ q.task = t
        /\ q.next = "none"
    BY <2>1 DEF NoCall, CallStates
  <2> HIDE DEF q
  <2>4. CallOK(q, db)
    BY <2>1, <2>3 DEF CallOK, Stage
  <2> QED
    BY <2>2, <2>3, <2>4, CarriedByReading
<1> QED
  BY <1>1, <1>2, <1>3, <1>4, <1>5

LEMMA StopKeeps ==
    ASSUME Consistent, NEW c \in Calls,
           \/ \E i \in Runs, behavior \in StopBehaviors : Stop(c, i, behavior)
           \/ Revoke(c)
           \/ \E confirmed \in BOOLEAN : Confirm(c, confirmed)
    PROVE  Consistent'
<1> DEFINE p == call[c]
<1>0. Sound(db) /\ p \in CallStates /\ CallOK(p, db)
  BY ConsistentSound
<1>1. ASSUME NEW i \in Runs, NEW behavior \in StopBehaviors,
             Stop(c, i, behavior)
      PROVE  Consistent'
  <2> DEFINE q == [NoCall EXCEPT !.pc = "revoke", !.run = i, !.seen = behavior]
  <2>1. /\ call' = [call EXCEPT ![c] = q]
        /\ UNCHANGED <<db, jobs, attempt, launch, sent>>
        /\ Present(db, i)
    BY <1>1 DEF Stop
  <2>2. /\ q \in CallStates /\ q.pc = "revoke" /\ q.run = i
        /\ q.seen = behavior /\ q.next = "none"
    BY DEF NoCall, CallStates
  <2> HIDE DEF q
  <2>3. CallOK(q, db)
    BY <2>1, <2>2 DEF CallOK, Stage, FollowUps
  <2> QED
    BY <2>1, <2>2, <2>3, CarriedByReading
<1>2. CASE Revoke(c)
  <2> DEFINE q == [p EXCEPT !.pc = "confirm"]
  <2>1. p.run \in Runs /\ Present(db, p.run) /\ p.seen \in StopBehaviors
    BY <1>0, <1>2 DEF Revoke, CallOK, Stage
  <2>2. Shrinks(db, db')
    BY <1>0, <1>2, <2>1, StopShrinks DEF Revoke
  <2>3. /\ call' = [call EXCEPT ![c] = q]
        /\ UNCHANGED <<jobs, attempt, launch, sent>>
    BY <1>2 DEF Revoke, Goto
  <2>4. /\ q \in CallStates /\ q.pc = "confirm" /\ q.run = p.run
        /\ q.next = "none"
    BY <1>0, <1>2 DEF Revoke, CallStates, CallOK
  <2>5. Present(db', p.run)
    BY <2>1, <2>2 DEF Shrinks
  <2> HIDE DEF q
  <2>6. CallOK(q, db')
    BY <2>1, <2>4, <2>5 DEF CallOK, Stage, FollowUps
  <2> QED
    BY <2>2, <2>3, <2>4, <2>6, CarriedByCall
<1>3. ASSUME NEW confirmed \in BOOLEAN, Confirm(c, confirmed)
      PROVE  Consistent'
  <2>1. p.run \in Runs /\ Present(db, p.run)
    BY <1>0, <1>3 DEF Confirm, CallOK, Stage
  <2>2. Shrinks(db, db')
    BY <1>0, <1>3, <2>1, CloseRunShrinks, SetRunShrinks DEF Confirm, Final
  <2> QED
    BY <1>3, <2>2, CarriedByReturn DEF Confirm
<1> QED
  BY <1>1, <1>2, <1>3

LEMMA CallStepKeeps ==
    ASSUME Consistent, "completion" \notin Moves, NEW c \in Calls, CallStep(c)
    PROVE  Consistent'
BY AuthoriseKeeps, CheckInKeeps, StartCallbackKeeps, EndCallbackKeeps,
   RuntimeEndKeeps, FollowUpKeeps, StopKeeps DEF CallStep

---------------------------------------------------------------------------
(* Dispatch.                                                                *)

(* The tables shrink under a launch step: what is left is the launch itself.*)
LEMMA CarriedByLaunch ==
    ASSUME Consistent, NEW i \in Runs, NEW q \in Launches,
           Shrinks(db, db'), launch' = [launch EXCEPT ![i] = q],
           launch[i].pc # "none",
           q.pc # "none" => db'.run[i].st \notin {"absent", "queued"},
           q.pc \in {"starting", "asserted"} => i \notin sent',
           q.pc = "recording" => ~Live(db', i),
           sent' \in {sent, sent \cup {i}},
           UNCHANGED <<jobs, attempt, call>>
    PROVE  Consistent'
<1>0. Sound(db) /\ Sound(db')
  BY ConsistentSound, ShrinkKeeps
<1>1. TypeOK'
  BY <1>0 DEF Consistent, TypeOK, Sound
<1>2. ASSUME NEW j \in Runs
      PROVE  /\ db'.run[j].st = "absent" => db.run[j].st = "absent"
             /\ db'.run[j].st = "queued" => db.run[j].st = "queued"
             /\ db'.run[j].st = "running" => db.run[j].st = "running" \/ j \in sent
             /\ Live(db', j) => Live(db, j)
  BY DEF Shrinks, Present
<1>3. db.run[i].st \notin {"absent", "queued"}
  BY DEF Consistent, LaunchesFollowTheMark
<1>4. AttemptsHoldTheirRun'
  <2>1. \A w \in Dispatchers : attempt[w].run \in Runs \cup {NoRun}
    BY DEF Consistent, TypeOK, Attempts
  <2>2. \A w \in Dispatchers : attempt[w].run # i
    BY NoRunNotIn DEF Consistent, AttemptsHoldTheirRun
  <2>3. \A j \in Runs \ {i} : launch'[j] = launch[j] /\ (j \in sent' <=> j \in sent)
    BY DEF Consistent, TypeOK
  <2> QED
    BY <1>2, <2>1, <2>2, <2>3 DEF Consistent, AttemptsHoldTheirRun
<1>5. LaunchesFollowTheMark'
  <2>1. launch'[i] = q /\ Present(db', i)
    BY <1>2, <1>3 DEF Consistent, TypeOK, Present
  <2>2. \A j \in Runs \ {i} : launch'[j] = launch[j] /\ (j \in sent' <=> j \in sent)
    BY DEF Consistent, TypeOK
  <2> QED
    BY <1>2, <2>1, <2>2 DEF Consistent, LaunchesFollowTheMark, Live, Present
<1>6. CallsCarryTheirReadings'
  <2>1. \A c \in Calls : CallOK(call[c], db')
    BY ConsistentSound, CallOKKept
  <2> QED
    BY <2>1 DEF CallOK, Stage, CallsCarryTheirReadings, Final, Present, Live
<1>7. JobsNameTheirTask'
  <2>1. \A j \in jobs : JobOK(j, db')
    BY ConsistentSound, JobOKKept
  <2> QED
    BY <2>1 DEF JobOK, JobsNameTheirTask, Present, Live
<1> QED
  BY <1>0, <1>1, <1>4, <1>5, <1>6, <1>7, SoundPrimed DEF Consistent

LEMMA LaunchStepKeeps ==
    ASSUME Consistent, NEW i \in Runs, LaunchStep(i)
    PROVE  Consistent'
<1> DEFINE l == launch[i]
<1>0. Sound(db) /\ Shrinks(db, db) /\ l \in Launches
  BY ConsistentSound, ShrinkRefl DEF Consistent, TypeOK
<1>1. /\ l.pc # "none" => db.run[i].st \notin {"absent", "queued"}
      /\ l.pc \in {"starting", "asserted"} => i \notin sent
      /\ l.pc = "recording" => ~Live(db, i)
  BY DEF Consistent, LaunchesFollowTheMark
<1>2. Unlaunched \in Launches /\ Unlaunched.pc = "none"
  BY StatusesAssumption DEF Unlaunched, Launches
<1>3. CASE LaunchLost(i)
  BY <1>0, <1>2, <1>3, CarriedByLaunch DEF LaunchLost
<1>4. ASSUME NEW prepared \in BOOLEAN, CheckOwned(i, prepared)
      PROVE  Consistent'
  <2> DEFINE to == IF prepared /\ StillOwned(db, i) THEN "asserted" ELSE "raised"
             q == [l EXCEPT !.pc = to]
  <2>1. q \in Launches /\ q.pc = to /\ to \in {"asserted", "raised"}
    BY <1>0 DEF Launches
  <2>2. /\ launch' = [launch EXCEPT ![i] = q] /\ l.pc = "starting"
        /\ UNCHANGED <<db, jobs, attempt, sent, call>>
    BY <1>4 DEF CheckOwned
  <2> HIDE DEF to, q
  <2> QED
    BY <1>0, <1>1, <2>1, <2>2, CarriedByLaunch
<1>5. ASSUME NEW reached \in BOOLEAN, NEW raised \in BOOLEAN,
             Dispatch(i, reached, raised)
      PROVE  Consistent'
  <2> DEFINE q == IF raised THEN [l EXCEPT !.pc = "raised"] ELSE Unlaunched
  <2>1. q \in Launches /\ q.pc \in {"raised", "none"}
    BY <1>0, <1>2 DEF Launches
  <2>2. /\ launch' = [launch EXCEPT ![i] = q] /\ l.pc = "asserted"
        /\ sent' \in {sent, sent \cup {i}}
        /\ UNCHANGED <<db, jobs, attempt, call>>
    BY <1>5 DEF Dispatch
  <2> HIDE DEF q
  <2> QED
    BY <1>0, <1>1, <2>1, <2>2, CarriedByLaunch
<1>6. CASE FailRun(i)
  <2> DEFINE q == [l EXCEPT !.pc = "recording"]
  <2>1. q \in Launches /\ q.pc = "recording"
    BY <1>0 DEF Launches
  <2>2. /\ launch' = [launch EXCEPT ![i] = q] /\ l.pc = "raised"
        /\ UNCHANGED <<jobs, attempt, sent, call>>
    BY <1>6 DEF FailRun
  <2>3. Shrinks(db, db') /\ ~Live(db', i)
    <3>1. CASE db.run[i].st \in {"dispatched", "running"}
      BY <1>0, <1>6, <3>1, SetRunShrinks DEF FailRun, Final, Present
    <3>2. CASE db.run[i].st \notin {"dispatched", "running"}
      BY <1>0, <1>1, <1>6, <3>2, <2>2 DEF FailRun, Live, LiveStates
    <3> QED
      BY <3>1, <3>2
  <2>4. db'.run[i].st \notin {"absent", "queued"}
    BY <1>1, <2>2, <2>3 DEF Shrinks, Present
  <2> HIDE DEF q
  <2> QED
    BY <2>1, <2>2, <2>3, <2>4, CarriedByLaunch
<1>7. CASE RecordStartupFailure(i)
  <2>1. /\ launch' = [launch EXCEPT ![i] = Unlaunched] /\ l.pc = "recording"
        /\ UNCHANGED <<jobs, attempt, sent, call>>
    BY <1>7 DEF RecordStartupFailure
  <2>2. l.prior \in Statuses
    BY <1>0 DEF Launches
  <2>3. db.run[i].st \notin {"absent", "running"}
    BY <1>1, <2>1 DEF Live, LiveStates
  <2>4. Shrinks(db, db')
    BY <1>0, <1>7, <2>2, <2>3, StartupFailureShrinks DEF RecordStartupFailure
  <2> QED
    BY <1>2, <2>1, <2>4, CarriedByLaunch
<1> QED
  BY <1>3, <1>4, <1>5, <1>6, <1>7 DEF LaunchStep

LEMMA CarriedByAttempt ==
    ASSUME Consistent, NEW w \in Dispatchers, NEW q \in Attempts,
           Shrinks(db, db'), attempt' = [attempt EXCEPT ![w] = q],
           q.run \in {attempt[w].run, NoRun},
           q.pc # "idle" => q.task \in Tasks /\ q.agent \in Agents,
           q.pc \in {"idle", "listed"} <=> q.run = NoRun,
           q.pc = "marked" => db'.run[q.run].st # "queued",
           UNCHANGED <<jobs, launch, sent, call>>
    PROVE  Consistent'
<1>0. Sound(db) /\ Sound(db')
  BY ConsistentSound, ShrinkKeeps
<1>1. TypeOK'
  BY <1>0 DEF Consistent, TypeOK, Sound
<1>2. ASSUME NEW j \in Runs
      PROVE  /\ db'.run[j].st = "absent" => db.run[j].st = "absent"
             /\ db'.run[j].st = "queued" => db.run[j].st = "queued"
             /\ db'.run[j].st = "running" => db.run[j].st = "running" \/ j \in sent
             /\ Live(db', j) => Live(db, j)
  BY DEF Shrinks, Present
<1>3. /\ attempt'[w] = q
      /\ \A v \in Dispatchers \ {w} : attempt'[v] = attempt[v]
  BY DEF Consistent, TypeOK
<1>4. \A v \in Dispatchers : attempt[v].run \in Runs \cup {NoRun}
  BY DEF Consistent, TypeOK, Attempts
<1>5. AttemptsHoldTheirRun'
  BY <1>2, <1>3, <1>4 DEF Consistent, AttemptsHoldTheirRun
<1>6. LaunchesFollowTheMark'
  BY <1>2 DEF Consistent, LaunchesFollowTheMark, Live, Present
<1>7. CallsCarryTheirReadings'
  <2>1. \A c \in Calls : CallOK(call[c], db')
    BY ConsistentSound, CallOKKept
  <2> QED
    BY <2>1 DEF CallOK, Stage, CallsCarryTheirReadings, Final, Present, Live
<1>8. JobsNameTheirTask'
  <2>1. \A j \in jobs : JobOK(j, db')
    BY ConsistentSound, JobOKKept
  <2> QED
    BY <2>1 DEF JobOK, JobsNameTheirTask, Present, Live
<1> QED
  BY <1>0, <1>1, <1>5, <1>6, <1>7, <1>8, SoundPrimed DEF Consistent

LEMMA ClaimKeeps ==
    ASSUME Consistent, NEW w \in Dispatchers, NEW i \in Runs, Claim(w, i)
    PROVE  Consistent'
<1> DEFINE p == attempt[w]
           q == [p EXCEPT !.pc = "claimed", !.run = i]
<1>0. Sound(db) /\ p \in Attempts /\ p.pc = "listed"
  BY ConsistentSound DEF Consistent, TypeOK, Claim
<1>1. p.task \in Tasks /\ p.agent \in Agents
  BY <1>0 DEF Consistent, AttemptsHoldTheirRun
<1>2. /\ ~Present(db, i) /\ ~AgentBusy(db, p.agent)
      /\ db.task[p.task].active = NoRun
  BY DEF Claim, Claimable, NextRun, Dispatchable
<1>3. /\ Sound(db') /\ db'.run[i].st = "queued"
      /\ \A j \in Runs \ {i} : db'.run[j] = db.run[j]
  BY <1>0, <1>1, <1>2, ClaimSound DEF Claim
<1>4. /\ attempt' = [attempt EXCEPT ![w] = q]
      /\ UNCHANGED <<jobs, launch, sent, call>>
  BY DEF Claim, Consistent, TypeOK
<1>5. /\ q \in Attempts /\ q.pc = "claimed" /\ q.run = i
      /\ q.task = p.task /\ q.agent = p.agent
  BY <1>0 DEF Attempts
<1> HIDE DEF q
<1>6. TypeOK'
  BY <1>3, <1>4, <1>5 DEF Consistent, TypeOK, Sound
<1>7. /\ attempt'[w] = q
      /\ \A v \in Dispatchers \ {w} : attempt'[v] = attempt[v]
  BY <1>4 DEF Consistent, TypeOK
<1>8. i # NoRun /\ db.run[i].st = "absent"
  BY <1>2, NoRunNotIn DEF Present
<1>9. AttemptsHoldTheirRun'
  <2>1. \A v \in Dispatchers : attempt[v].run \in (Runs \ {i}) \cup {NoRun}
    BY <1>8 DEF Consistent, TypeOK, Attempts, AttemptsHoldTheirRun
  <2>2. i \notin sent /\ launch[i].pc = "none"
    BY <1>2, <1>8 DEF Consistent, LaunchesFollowTheMark
  <2> QED
    BY <1>1, <1>3, <1>4, <1>5, <1>7, <1>8, <2>1, <2>2
       DEF Consistent, AttemptsHoldTheirRun
<1>10. LaunchesFollowTheMark'
  BY <1>2, <1>3, <1>4, <1>8
     DEF Consistent, LaunchesFollowTheMark, Live, Present
<1>11. CallsCarryTheirReadings'
  <2>1. ASSUME NEW c \in Calls, call[c].pc # "idle"
        PROVE  /\ call[c].run \in Runs \ {i}
               /\ db'.run[call[c].run] = db.run[call[c].run]
    BY <1>2, <1>3, <2>1 DEF Consistent, CallsCarryTheirReadings
  <2>2. ASSUME NEW c \in Calls, call[c].pc = "lookup"
        PROVE  Linking(db', call[c].run) = {}
    <3>1. /\ Linking(db, call[c].run) = {}
          /\ call[c].run # i
      BY <2>1, <2>2 DEF Consistent, CallsCarryTheirReadings
    <3>2. \A t \in Tasks : db'.task[t].active \in {db.task[t].active, i}
      BY <1>0, <1>1 DEF Claim, ClaimTx, Sound, Database
    <3> QED
      BY <3>1, <3>2 DEF Linking
  <2>3. ASSUME NEW c \in Calls
        PROVE  /\ call[c].pc # "idle" => Present(db', call[c].run)
               /\ Stage(call[c]) \in FollowUps => ~Live(db', call[c].run)
    <3>1. call[c].pc = "idle" => Stage(call[c]) \notin FollowUps
      BY DEF Stage, FollowUps
    <3> QED
      BY <2>1, <3>1 DEF Consistent, CallsCarryTheirReadings, Present, Live
  <2> QED
    BY <1>4, <2>2, <2>3 DEF Consistent, CallsCarryTheirReadings
<1>12. JobsNameTheirTask'
  <2>1. ASSUME NEW j \in jobs, j.job = "unlink"
        PROVE  Present(db', j.run) /\ ~Live(db', j.run)
    <3>1. j.run \in Runs
      BY DEF Consistent, TypeOK, Jobs
    <3> QED
      BY <1>2, <1>3, <2>1, <3>1
         DEF Consistent, JobsNameTheirTask, Present, Live
  <2> QED
    BY <1>4, <2>1 DEF Consistent, JobsNameTheirTask, Present, Live
<1> QED
  BY <1>3, <1>6, <1>9, <1>10, <1>11, <1>12, SoundPrimed DEF Consistent

LEMMA LaunchKeeps ==
    ASSUME Consistent, NEW w \in Dispatchers, Launch(w)
    PROVE  Consistent'
<1> DEFINE p == attempt[w]
           q == [pc |-> "starting", prior |-> p.seen]
<1>0. p \in Attempts /\ p.pc = "marked" /\ p.run \in Runs /\ p.run # NoRun
  BY NoRunNotIn DEF Consistent, TypeOK, Launch, AttemptsHoldTheirRun, Attempts
<1>1. /\ p.run \notin sent /\ db.run[p.run].st \notin {"absent", "queued"}
      /\ \A v \in Dispatchers : attempt[v].run = p.run => v = w
  BY <1>0 DEF Consistent, AttemptsHoldTheirRun
<1>2. q \in Launches /\ q.pc = "starting"
  BY <1>0 DEF Launches, Attempts
<1>3. Resting \in Attempts /\ Resting.pc = "idle" /\ Resting.run = NoRun
  BY StatusesAssumption DEF Resting, Attempts
<1>4. /\ launch' = [launch EXCEPT ![p.run] = q]
      /\ attempt' = [attempt EXCEPT ![w] = Resting]
      /\ UNCHANGED <<db, jobs, sent, call>>
  BY DEF Launch
<1> HIDE DEF q
<1>5. TypeOK'
  BY <1>2, <1>3, <1>4 DEF Consistent, TypeOK
<1>6. /\ launch'[p.run] = q
      /\ \A j \in Runs \ {p.run} : launch'[j] = launch[j]
      /\ attempt'[w] = Resting
      /\ \A v \in Dispatchers \ {w} : attempt'[v] = attempt[v]
  BY <1>0, <1>4 DEF Consistent, TypeOK
<1>7. \A v \in Dispatchers : attempt[v].run \in Runs \cup {NoRun}
  BY DEF Consistent, TypeOK, Attempts
<1>8. AttemptsHoldTheirRun'
  BY <1>0, <1>1, <1>3, <1>4, <1>6, <1>7
     DEF Consistent, AttemptsHoldTheirRun
<1>9. LaunchesFollowTheMark'
  BY <1>0, <1>1, <1>2, <1>4, <1>6
     DEF Consistent, LaunchesFollowTheMark, Live, Present
<1>10. CallsCarryTheirReadings' /\ JobsNameTheirTask'
  BY <1>4 DEF Consistent, CallsCarryTheirReadings, JobsNameTheirTask,
              Present, Live
<1>11. Sound(db')
  BY <1>4, ConsistentSound
<1> QED
  BY <1>5, <1>8, <1>9, <1>10, <1>11, SoundPrimed DEF Consistent

LEMMA DispatcherStepKeeps ==
    ASSUME Consistent, NEW w \in Dispatchers, DispatcherStep(w)
    PROVE  Consistent'
<1> DEFINE p == attempt[w]
           At(pc) == [p EXCEPT !.pc = pc]
<1>0. /\ Sound(db) /\ Shrinks(db, db)
      /\ p \in Attempts
      /\ p.pc # "idle" => p.task \in Tasks /\ p.agent \in Agents
      /\ p.pc \in {"idle", "listed"} <=> p.run = NoRun
  BY ConsistentSound, ShrinkRefl DEF Consistent, TypeOK, AttemptsHoldTheirRun
<1>1. p.run # NoRun => p.run \in Runs /\ db.run[p.run].st \notin {"absent", "running"}
  BY <1>0 DEF Consistent, AttemptsHoldTheirRun, Attempts
<1>2. Resting \in Attempts /\ Resting.pc = "idle" /\ Resting.run = NoRun
  BY StatusesAssumption DEF Resting, Attempts
<1>3. ASSUME NEW pc \in {"checked", "marked", "unwind"}
      PROVE  /\ At(pc) \in Attempts /\ At(pc).pc = pc /\ At(pc).run = p.run
             /\ At(pc).task = p.task /\ At(pc).agent = p.agent
  BY <1>0 DEF Attempts
<1>4. ASSUME NEW t \in Tasks, NEW a \in Agents, List(w, t, a)
      PROVE  Consistent'
  <2> DEFINE q == [pc |-> "listed", task |-> t, agent |-> a,
                   seen |-> db.task[t].status, run |-> NoRun]
  <2>1. q \in Attempts
    BY <1>0 DEF Attempts, Sound, Database, TaskRows
  <2>2. /\ attempt' = [attempt EXCEPT ![w] = q]
        /\ UNCHANGED <<db, jobs, launch, sent, call>>
    BY <1>4 DEF List
  <2>3. /\ q.pc = "listed" /\ q.run = NoRun
        /\ q.task = t /\ q.agent = a
    OBVIOUS
  <2> HIDE DEF q
  <2> QED
    BY <1>0, <2>1, <2>2, <2>3, CarriedByAttempt
<1>5. ASSUME NEW i \in Runs, Claim(w, i)
      PROVE  Consistent'
  BY <1>5, ClaimKeeps
<1>6. CASE ClaimRefused(w)
  BY <1>0, <1>2, <1>6, CarriedByAttempt DEF ClaimRefused
<1>7. CASE PrepFail(w)
  <2>1. p.pc = "claimed" /\ p.run \in Runs /\ p.seen \in Statuses
    BY <1>0, <1>1, <1>7 DEF PrepFail, Attempts
  <2>2. Shrinks(db, db')
    BY <1>0, <1>1, <1>7, <2>1, StartupFailureShrinks, NoRunNotIn DEF PrepFail
  <2>3. /\ attempt' = [attempt EXCEPT ![w] = At("unwind")]
        /\ UNCHANGED <<jobs, launch, sent, call>>
    BY <1>7 DEF PrepFail
  <2> HIDE DEF At
  <2> QED
    BY <1>0, <1>3, <2>1, <2>2, <2>3, CarriedByAttempt
<1>8. CASE Recheck(w)
  <2>1. PICK pc \in {"checked", "unwind"} :
           attempt' = [attempt EXCEPT ![w] = At(pc)]
    BY <1>8 DEF Recheck
  <2>2. p.pc = "claimed" /\ UNCHANGED <<db, jobs, launch, sent, call>>
    BY <1>8 DEF Recheck
  <2> HIDE DEF At
  <2> QED
    BY <1>0, <1>3, <2>1, <2>2, CarriedByAttempt
<1>9. CASE MarkDispatched(w)
  <2>1. p.pc = "checked" /\ p.run \in Runs /\ UNCHANGED <<jobs, launch, sent, call>>
    BY <1>0, <1>1, <1>9 DEF MarkDispatched
  <2> DEFINE owned == /\ db.run[p.run].st = "queued"
                      /\ db.task[p.task].active = p.run
  <2>2. CASE owned
    <3> DEFINE r == [db.run[p.run] EXCEPT !.st = "dispatched"]
    <3>0. db.run[p.run] \in RunRows
      BY <1>0, <2>1 DEF Sound, Database
    <3>1. /\ r \in RunRows /\ r.st = "dispatched"
          /\ r.task = db.run[p.run].task /\ r.agent = db.run[p.run].agent
          /\ r.ended = db.run[p.run].ended
          /\ r.outcome = db.run[p.run].outcome
      BY <3>0 DEF RunRows, RunStates, LiveStates
    <3>2. Live(db, p.run) /\ ~db.run[p.run].ended /\ ~db.run[p.run].outcome
      BY <1>0, <2>1, <2>2 DEF Sound, Live, Anchored, LiveStates
    <3>3. db' = [db EXCEPT !.run[p.run] = r]
      BY <1>9, <2>2 DEF MarkDispatched, SetRun
    <3>4. db'.run[p.run] = r
      BY <1>0, <2>1, <3>3 DEF Sound, Database
    <3>5. attempt' = [attempt EXCEPT ![w] = At("marked")]
      BY <1>9, <2>2 DEF MarkDispatched
    <3> HIDE DEF r, At
    <3>6. Shrinks(db, db')
      BY <1>0, <2>1, <2>2, <3>1, <3>2, <3>3, RunRowShrinks
    <3> QED
      BY <1>0, <1>3, <2>1, <3>1, <3>4, <3>5, <3>6, CarriedByAttempt
  <2>3. CASE ~owned
    <3>1. db' = db /\ attempt' = [attempt EXCEPT ![w] = At("unwind")]
      BY <1>9, <2>3 DEF MarkDispatched
    <3> HIDE DEF At, owned
    <3> QED
      BY <1>0, <1>3, <2>1, <3>1, CarriedByAttempt
  <2> QED
    BY <2>2, <2>3
<1>10. CASE Launch(w)
  BY <1>10, LaunchKeeps
<1>11. CASE PromptFail(w)
  <2>1. /\ p.pc = "marked" /\ attempt' = [attempt EXCEPT ![w] = At("unwind")]
        /\ UNCHANGED <<db, jobs, launch, sent, call>>
    BY <1>11 DEF PromptFail
  <2> HIDE DEF At
  <2> QED
    BY <1>0, <1>3, <2>1, CarriedByAttempt
<1>12. CASE Unwind(w)
  <2>1. /\ p.pc = "unwind" /\ attempt' = [attempt EXCEPT ![w] = Resting]
        /\ UNCHANGED <<jobs, launch, sent, call>>
    BY <1>12 DEF Unwind
  <2>2. Shrinks(db, db')
    BY <1>0, <1>1, <1>12, UnwindShrinks DEF Unwind
  <2> QED
    BY <1>2, <2>1, <2>2, CarriedByAttempt
<1> QED
  BY <1>4, <1>5, <1>6, <1>7, <1>8, <1>9, <1>10, <1>11, <1>12
     DEF DispatcherStep

(* A restart forgets every record in flight, and with it every duty.        *)
LEMMA CrashKeeps ==
    ASSUME Consistent, Crash
    PROVE  Consistent'
<1>1. /\ Resting \in Attempts /\ Unlaunched \in Launches
      /\ NoCall \in CallStates
  BY StatusesAssumption
     DEF Resting, Attempts, Unlaunched, Launches, NoCall, CallStates
<1>2. TypeOK'
  BY <1>1 DEF Crash, Consistent, TypeOK
<1>3. Sound(db')
  BY ConsistentSound DEF Crash
<1>4. AttemptsHoldTheirRun'
  BY DEF Crash, AttemptsHoldTheirRun, Resting
<1>5. LaunchesFollowTheMark'
  BY DEF Crash, Consistent, LaunchesFollowTheMark, Unlaunched, Live, Present
<1>6. CallsCarryTheirReadings' /\ JobsNameTheirTask'
  BY DEF Crash, CallsCarryTheirReadings, JobsNameTheirTask, NoCall, FollowUps,
         Stage
<1> QED
  BY <1>2, <1>3, <1>4, <1>5, <1>6, SoundPrimed DEF Consistent

---------------------------------------------------------------------------
(* The theorems.                                                            *)

LEMMA InitConsistent == Init => Consistent
<1> SUFFICES ASSUME Init
             PROVE  Consistent
  OBVIOUS
<1>1. /\ Resting \in Attempts /\ Unlaunched \in Launches
      /\ NoCall \in CallStates
  BY StatusesAssumption
     DEF Resting, Attempts, Unlaunched, Launches, NoCall, CallStates
<1>2. NewTask \in TaskRows /\ NoRow \in RunRows
  BY StatusesAssumption DEF NewTask, NoRow, TaskRows, RunRows, RunStates
<1>3. db \in Database
  BY <1>2 DEF Init, EmptyDatabase, Database
<1>4. TypeOK
  BY <1>1, <1>3 DEF Init, TypeOK
<1>5. /\ \A t \in Tasks : db.task[t].active = NoRun
      /\ \A i \in Runs : db.run[i] = NoRow
  BY DEF Init, EmptyDatabase, NewTask
<1>6. \A i \in Runs : ~Live(db, i) /\ ~Anchored(db, i)
  BY <1>5 DEF Live, Anchored, NoRow, LiveStates
<1>7. /\ LinkNamesOwnRun /\ LinkedRunPresent /\ LiveRunOwnsItsTask
      /\ AgentCapacity /\ EndedRunIsOver
  BY <1>5, <1>6, NoRunNotIn
     DEF LinkNamesOwnRun, LinkedRunPresent, LiveRunOwnsItsTask, AgentCapacity,
         EndedRunIsOver
<1>8. AttemptsHoldTheirRun /\ LaunchesFollowTheMark
  BY DEF Init, AttemptsHoldTheirRun, Resting, LaunchesFollowTheMark, Unlaunched
<1>9. CallsCarryTheirReadings /\ JobsNameTheirTask
  BY DEF Init, CallsCarryTheirReadings, NoCall, JobsNameTheirTask, FollowUps,
         Stage
<1> QED
  BY <1>4, <1>7, <1>8, <1>9 DEF Consistent

LEMMA StepConsistent ==
    ASSUME "completion" \notin Moves, Consistent, [Next]_vars
    PROVE  Consistent'
<1>1. CASE Next
  BY <1>1, DispatcherStepKeeps, LaunchStepKeeps, RunStepKeeps, CallStepKeeps,
     TaskStepKeeps, JobStepKeeps, CrashKeeps DEF Next
<1>2. CASE UNCHANGED vars
  <2>1. Shrinks(db, db')
    BY <1>2, ConsistentSound, ShrinkRefl DEF vars
  <2> QED
    BY <1>2, <2>1, CarriedQuietly DEF vars
<1> QED
  BY <1>1, <1>2

\* Whatever dispatchers, launches, callbacks, ends, stops, edits, timers and
\* restarts do, in any number and any order, the inductive invariant holds,
\* as long as no agent posts a bare completion check-in.
THEOREM StaysConsistent ==
    ASSUME "completion" \notin Moves
    PROVE  Spec => []Consistent
<1>1. Consistent /\ [Next]_vars => Consistent'
  BY StepConsistent
<1> QED
  BY <1>1, InitConsistent, PTL DEF Spec

\* A live run owns the task it was claimed for, whichever paths race: no
\* repair, stop, outcome or second dispatcher frees or reassigns its task.
THEOREM LiveRunsOwnTheirTask ==
    ASSUME "completion" \notin Moves
    PROVE  Spec => []LiveRunOwnsItsTask
<1>1. Consistent => LiveRunOwnsItsTask
  BY DEF Consistent
<1> QED
  BY <1>1, StaysConsistent, PTL

\* No claim, adoption or stop ever leaves a task pointing at another task's
\* run.
THEOREM LinksNameOwnRuns ==
    ASSUME "completion" \notin Moves
    PROVE  Spec => []LinkNamesOwnRun
<1>1. Consistent => LinkNamesOwnRun
  BY DEF Consistent
<1> QED
  BY <1>1, StaysConsistent, PTL

\* claimTaskDispatch reserves capacity for good: an agent never has two live
\* runs.
THEOREM AgentsHaveOneLiveRun ==
    ASSUME "completion" \notin Moves
    PROVE  Spec => []AgentCapacity
<1>1. Consistent => AgentCapacity
  BY DEF Consistent
<1> QED
  BY <1>1, StaysConsistent, PTL

\* An end or an accepted outcome closes its run, and nothing reopens it.
THEOREM EndedRunsAreOver ==
    ASSUME "completion" \notin Moves
    PROVE  Spec => []EndedRunIsOver
<1>1. Consistent => EndedRunIsOver
  BY DEF Consistent
<1> QED
  BY <1>1, StaysConsistent, PTL

\* A prompt goes out once: after it has, nothing can launch the run again.
THEOREM RunsAreLaunchedOnce ==
    ASSUME "completion" \notin Moves
    PROVE  Spec => []LaunchedOnce
<1>1. Consistent => LaunchedOnce
  BY NoRunNotIn DEF Consistent, AttemptsHoldTheirRun, LaunchesFollowTheMark,
                    LaunchedOnce, TypeOK
<1> QED
  BY <1>1, StaysConsistent, PTL
=============================================================================
