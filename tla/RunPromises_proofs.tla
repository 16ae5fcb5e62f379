------------------------- MODULE RunPromises_proofs ------------------------
(* Proof that RunLifecycle implements RunOwnership, for every number of     *)
(* tasks, agents, runs, dispatchers and handlers.  What is added to         *)
(* Consistent is locality: one step ends at most one run, and lets go of a  *)
(* link to that run only.  So no step but the claim needs more than one     *)
(* step of the abstract protocol.                                           *)
(* Further, proof that reports of one runtime end are followed up once, for *)
(* every number of reports in flight.  Whoever follows up an end holds a    *)
(* run that is over (Consistent), and ClaimEnd starts a follow-up of a live *)
(* run only.                                                                *)
(* Last, what is left of all this when agents post bare completion check-ins*)
(* and Consistent does not hold: types, OnlyCheckInUndoes, OnlyAttachSteals,*)
(* and from the last, NoSteal where stops and such check-ins do not meet.   *)
EXTENDS RunLifecycle_proofs

---------------------------------------------------------------------------
(* Ownership                                                                *)

(* From d to e nobody's life or link is touched but run i's.                *)
Spares(d, e, i) ==
    /\ \A j \in Runs \ {i} : Live(d, j) => Live(e, j)
    /\ \A t \in Tasks : d.task[t].active # i =>
          e.task[t].active = d.task[t].active

LEMMA SpareRefl ==
    ASSUME NEW d, NEW i
    PROVE  Spares(d, d, i)
BY DEF Spares

LEMMA SpareTrans ==
    ASSUME NEW d, NEW e, NEW f, NEW i, Spares(d, e, i), Spares(e, f, i)
    PROVE  Spares(d, f, i)
BY DEF Spares

---------------------------------------------------------------------------
(* Statements.                                                              *)

LEMMA RunRowSpares ==
    ASSUME NEW d \in Database, NEW i \in Runs, NEW r
    PROVE  Spares(d, [d EXCEPT !.run[i] = r], i)
BY DEF Spares, Database, Live

LEMMA TaskRowSpares ==
    ASSUME NEW d \in Database, NEW t \in Tasks, NEW q, NEW i,
           q.active = d.task[t].active
    PROVE  Spares(d, [d EXCEPT !.task[t] = q], i)
BY DEF Spares, Database, Live

LEMMA StatusSpares ==
    ASSUME NEW d \in Database, NEW t \in Tasks, NEW s, NEW i
    PROVE  Spares(d, SetStatus(d, t, s), i)
BY DEF Spares, Database, TaskRows, SetStatus, Live

LEMMA DetachSpares ==
    ASSUME NEW d \in Database, NEW t \in Tasks, NEW i
    PROVE  Spares(d, Detach(d, t, i), i)
BY DEF Spares, Database, TaskRows, Detach, Live

LEMMA DetachTyped ==
    ASSUME NEW d \in Database, NEW t \in Tasks, NEW i
    PROVE  Detach(d, t, i) \in Database
BY DEF Detach, Database, TaskRows

LEMMA SetRunSpares ==
    ASSUME NEW d \in Database, NEW i \in Runs, NEW s
    PROVE  Spares(d, SetRun(d, i, s), i)
BY DEF Spares, Database, SetRun, Live

LEMMA SetRunTyped ==
    ASSUME NEW d \in Database, NEW i \in Runs, NEW s \in RunStates
    PROVE  SetRun(d, i, s) \in Database
BY DEF SetRun, Database, RunRows

LEMMA CloseRunSpares ==
    ASSUME NEW d \in Database, NEW i \in Runs, NEW s
    PROVE  Spares(d, CloseRun(d, i, s), i)
<1>1. /\ CloseRun(d, i, s).task = d.task
      /\ \A j \in Runs \ {i} : CloseRun(d, i, s).run[j] = d.run[j]
  BY DEF Database, CloseRun
<1> QED
  BY <1>1 DEF Spares, Live

LEMMA MarkRunningSpares ==
    ASSUME NEW d \in Database, NEW i \in Runs
    PROVE  Spares(d, MarkRunning(d, i), i)
BY SetRunSpares, SpareRefl DEF MarkRunning

LEMMA CleanupSpares ==
    ASSUME NEW d, Sound(d), NEW t \in Tasks, NEW i,
           d.task[t].active \in {i, NoRun}
    PROVE  Spares(d, Cleanup(d, t), i)
<1>1. CASE Cleanup(d, t) = d
  BY <1>1, SpareRefl
<1>2. CASE Cleanup(d, t) # d
  <2>1. d.task[t].active = i /\ Cleanup(d, t) = Detach(d, t, i)
    BY <1>2, CleanupIsDetach, NoRunNotIn
  <2> QED
    BY <2>1, DetachSpares DEF Sound
<1> QED
  BY <1>1, <1>2

---------------------------------------------------------------------------
(* Transactions.                                                            *)

LEMMA UnwindSpares ==
    ASSUME NEW d \in Database, NEW t \in Tasks, NEW i \in Runs
    PROVE  Spares(d, UnwindTx(d, t, i), i)
<1> DEFINE s == IF d.run[i].st \in {"queued", "dispatched"} THEN "failed"
                                                            ELSE d.run[i].st
           e == [d EXCEPT !.run[i].st = s]
<1>1. e.task = d.task /\ \A j \in Runs \ {i} : e.run[j] = d.run[j]
  BY DEF Database
<1>2. UnwindTx(d, t, i) = Detach(e, t, i)
  BY DEF UnwindTx, Database, RunRows
<1>3. Detach(e, t, i).run = e.run
  BY <1>1 DEF Detach, Database
<1>4. \A u \in Tasks : e.task[u].active # i =>
                          Detach(e, t, i).task[u] = e.task[u]
  BY <1>1 DEF Detach, Database
<1> HIDE DEF e
<1> QED
  BY <1>1, <1>2, <1>3, <1>4 DEF Spares, Live

LEMMA StartupFailureSpares ==
    ASSUME NEW d, Sound(d), NEW t \in Tasks, NEW i \in Runs,
           NEW prior \in Statuses, d.run[i].st \notin {"absent", "running"}
    PROVE  Spares(d, StartupFailureTx(d, t, i, prior), i)
<1> DEFINE f == UnwindTx(d, t, i)
           g == SetStatus(f, t, StartupFailed[prior])
           q == [g.task[t] EXCEPT !.cooling = TRUE]
<1>1. CASE d.task[t].active # i
  BY <1>1, SpareRefl DEF StartupFailureTx
<1>2. CASE d.task[t].active = i
  <2>1. Spares(d, f, i) /\ Sound(f)
    BY UnwindSpares, UnwindShrinks, ShrinkKeeps DEF Sound
  <2>2. StartupFailed[prior] \in Statuses
    BY WorkflowAssumption
  <2> HIDE DEF f
  <2>3. Spares(f, g, i) /\ Sound(g)
    BY <2>1, <2>2, StatusSpares, StatusShrinks, ShrinkKeeps DEF Sound
  <2> HIDE DEF g
  <2>4. q.active = g.task[t].active
    BY <2>3 DEF Sound, Database, TaskRows
  <2>5. StartupFailureTx(d, t, i, prior) = [g EXCEPT !.task[t] = q]
    BY <1>2 DEF StartupFailureTx, f, g
  <2> HIDE DEF q
  <2>6. Spares(g, [g EXCEPT !.task[t] = q], i)
    BY <2>3, <2>4, TaskRowSpares DEF Sound
  <2> QED
    BY <2>1, <2>3, <2>5, <2>6, SpareTrans
<1> QED
  BY <1>1, <1>2

(* A run that gets its task back keeps everything else.                     *)
LEMMA RetiedTouches ==
    ASSUME NEW d \in Database, NEW i \in Runs
    PROVE  /\ Retied(d, i) \in Database
           /\ Retied(d, i).task = d.task
           /\ \A j \in Runs \ {i} : Retied(d, i).run[j] = d.run[j]
           /\ Retied(d, i).run[i].st = d.run[i].st
           /\ Retied(d, i).run[i].ended = d.run[i].ended
           /\ Retied(d, i).run[i].outcome = d.run[i].outcome
           /\ \/ Retied(d, i).run[i].task = d.run[i].task
              \/ Retied(d, i).run[i].task \in Tasks
<1>1. CASE Retied(d, i) = d
  BY <1>1
<1>2. CASE Retied(d, i) # d
  <2> DEFINE u == CHOOSE t \in Linking(d, i) : TRUE
             r == [d.run[i] EXCEPT !.task = u]
  <2>1. Linking(d, i) # {}
    BY <1>2 DEF Retied
  <2>2. u \in Tasks
    BY <2>1 DEF Linking
  <2>3. Retied(d, i) = [d EXCEPT !.run[i] = r]
    BY <1>2 DEF Retied
  <2> HIDE DEF u
  <2>4. /\ r \in RunRows /\ r.st = d.run[i].st /\ r.task \in Tasks
        /\ r.ended = d.run[i].ended /\ r.outcome = d.run[i].outcome
    <3>1. d.run[i] \in RunRows
      BY DEF Database
    <3> QED
      BY <2>2, <3>1 DEF RunRows
  <2> HIDE DEF r
  <2> QED
    BY <2>3, <2>4 DEF Database
<1> QED
  BY <1>1, <1>2

(* An outcome reported by run i.                                            *)
LEMMA PostSpares ==
    ASSUME NEW d \in Database, NEW t \in Tasks, NEW i \in Runs,
           NEW s \in Statuses, NEW final \in Final
    PROVE  /\ Spares(d, PostTx(d, t, i, s, final), i)
           /\ \A u \in Tasks :
                 PostTx(d, t, i, s, final).task[u].active = d.task[u].active
<1> DEFINE m == SetStatus(d, t, s)
           x == [m EXCEPT !.run[i].outcome = TRUE]
<1>1. /\ m \in Database /\ m.run = d.run
      /\ \A u \in Tasks : m.task[u].active = d.task[u].active
  BY DEF SetStatus, Database, TaskRows
<1> HIDE DEF m
<1>2. /\ x.task = m.task
      /\ \A j \in Runs \ {i} : x.run[j] = m.run[j]
  BY <1>1 DEF Database
<1> DEFINE y == CloseRun(x, i, final)
           z == Retied(y, i)
<1>3. PostTx(d, t, i, s, final) \in {x, z}
  BY DEF PostTx, x, y, z, m
<1>4. /\ y.task = x.task /\ y \in Database
      /\ \A j \in Runs \ {i} : y.run[j] = x.run[j]
  <2>0. m.run[i] \in RunRows
    BY <1>1 DEF Database
  <2>1. [m.run[i] EXCEPT !.outcome = TRUE] \in RunRows
    BY <2>0 DEF RunRows
  <2>2. x \in Database
    BY <1>1, <2>1 DEF Database
  <2> HIDE DEF x
  <2>3. [x.run[i] EXCEPT !.st = final, !.ended = TRUE] \in RunRows
    <3>1. x.run[i] \in RunRows
      BY <2>2 DEF Database
    <3> QED
      BY <3>1 DEF RunRows, RunStates, Final
  <2> QED
    BY <2>2, <2>3 DEF CloseRun, Database, RunRows
<1> HIDE DEF x, y
<1>5. z.task = y.task /\ \A j \in Runs \ {i} : z.run[j] = y.run[j]
  BY <1>4, RetiedTouches
<1> HIDE DEF z
<1> QED
  BY <1>1, <1>2, <1>3, <1>4, <1>5 DEF Spares, Live

(* The link it then lets go of names run i, or run i was over before, and   *)
(* the outcome ends no other run.                                           *)
LEMMA OutcomeSpares ==
    ASSUME NEW d, Sound(d), NEW t \in Tasks, NEW i \in Runs,
           NEW s \in Statuses, NEW final \in Final, Present(d, i),
           d.task[t].active = i \/ ~Live(d, i)
    PROVE  \E k \in Runs : Spares(d, OutcomeTx(d, t, i, s, final), k)
<1> DEFINE e == PostTx(d, t, i, s, final)
           l == d.task[t].active
           k == IF l \in Runs THEN l ELSE i
<1>1. Sound(e) /\ Shrinks(d, e)
  BY PostShrinks, ShrinkKeeps
<1>2. Spares(d, e, i) /\ \A u \in Tasks : e.task[u].active = d.task[u].active
  BY PostSpares DEF Sound
<1>3. l \in Runs \cup {NoRun}
  BY DEF Sound, Database, TaskRows
<1> HIDE DEF e
<1>4. Spares(d, e, k)
  <2>1. \A j \in Runs : j # i /\ Live(d, j) => Live(e, j)
    BY <1>2 DEF Spares
  <2>2. k = i \/ ~Live(d, i)
    BY NoRunNotIn
  <2> QED
    BY <1>2, <2>1, <2>2 DEF Spares
<1>5. Spares(e, Cleanup(e, t), k)
  BY <1>1, <1>2, <1>3, CleanupSpares
<1>6. Spares(d, Cleanup(e, t), k)
  BY <1>4, <1>5, SpareTrans
<1> QED
  BY <1>6 DEF OutcomeTx, e

LEMMA CancelSpares ==
    ASSUME NEW d, Sound(d), NEW t \in Tasks, NEW k,
           d.task[t].active \in {k, NoRun}
    PROVE  Spares(d, CancelTx(d, t), k)
<1> DEFINE i == d.task[t].active
           m == SetStatus(d, t, "cancelled")
           e == IF Joined(d, t, i) /\ Live(d, i)
                THEN SetRun(m, i, "cancelled") ELSE m
<1>1. Sound(m) /\ Spares(d, m, k)
  BY StatusShrinks, StatusSpares, ShrinkKeeps, StatusesAssumption DEF Sound
<1> HIDE DEF m
<1>2. CASE i = NoRun
  BY <1>1, <1>2 DEF CancelTx, m
<1>3. CASE i # NoRun
  <2>1. i = k /\ i \in Runs
    BY <1>3 DEF Sound, Database, TaskRows
  <2>2. Spares(m, e, k)
    BY <1>1, <2>1, SetRunSpares, SpareRefl DEF Sound
  <2>3. e \in Database
    BY <1>1, <2>1, SetRunTyped DEF Sound, RunStates
  <2>4. CancelTx(d, t) = Detach(e, t, k)
    BY <1>3, <2>1 DEF CancelTx, m
  <2> HIDE DEF e
  <2>5. Spares(e, Detach(e, t, k), k)
    BY <2>3, DetachSpares
  <2> QED
    BY <1>1, <2>2, <2>4, <2>5, SpareTrans
<1> QED
  BY <1>2, <1>3

LEMMA StopSpares ==
    ASSUME NEW d \in Database, NEW i \in Runs, NEW behavior \in StopBehaviors
    PROVE  Spares(d, StopTx(d, i, behavior), i)
<1> DEFINE t == d.run[i].task
           r == [d.run[i] EXCEPT !.st = "failed", !.task = NoTask]
           x == [d EXCEPT !.run[i] = r]
           s == StopStatus(d.task[t].status, behavior)
<1>1. x \in Database /\ Spares(d, x, i) /\ t \in Tasks \cup {NoTask}
  <2>1. d.run[i] \in RunRows
    BY DEF Database
  <2>2. r \in RunRows /\ t \in Tasks \cup {NoTask}
    BY <2>1 DEF RunRows, RunStates
  <2> HIDE DEF r
  <2> QED
    BY <2>2, RunRowSpares DEF Database
<1>2. [d EXCEPT !.run[i].st = "failed", !.run[i].task = NoTask] = x
  BY DEF Database, RunRows
<1> HIDE DEF x
<1>3. CASE t = NoTask \/ d.task[t].active # i
  BY <1>1, <1>2, <1>3 DEF StopTx
<1>4. CASE t # NoTask /\ d.task[t].active = i
  <2>1. t \in Tasks
    BY <1>1, <1>4
  <2> DEFINE y == Detach(x, t, i)
  <2>2. y \in Database /\ Spares(x, y, i)
    BY <1>1, <2>1, DetachSpares, DetachTyped
  <2>3. StopTx(d, i, behavior) = SetStatus(y, t, s)
    BY <1>2, <1>4 DEF StopTx
  <2> HIDE DEF y, s
  <2>4. Spares(y, SetStatus(y, t, s), i)
    BY <2>1, <2>2, StatusSpares
  <2> QED
    BY <1>1, <2>2, <2>3, <2>4, SpareTrans
<1> QED
  BY <1>3, <1>4

---------------------------------------------------------------------------
(* Steps.  A local step shrinks the tables and touches one run at most.     *)
Local == Shrinks(db, db') /\ \E i \in Runs \cup {NoRun} : Spares(db, db', i)

LEMMA QuietIsLocal ==
    ASSUME Consistent, UNCHANGED db
    PROVE  Local
BY ConsistentSound, ShrinkRefl, SpareRefl DEF Local

LEMMA DispatcherIsLocal ==
    ASSUME Consistent, NEW w \in Dispatchers, DispatcherStep(w)
    PROVE  Local \/ \E i \in Runs : Claim(w, i)
<1> DEFINE p == attempt[w]
<1>0. /\ Sound(db) /\ db \in Database
      /\ p \in Attempts
      /\ p.pc # "idle" => p.task \in Tasks
      /\ p.pc \in {"idle", "listed"} <=> p.run = NoRun
  BY ConsistentSound DEF Consistent, TypeOK, AttemptsHoldTheirRun
<1>1. p.pc \notin {"idle", "listed"} =>
         p.run \in Runs /\ db.run[p.run].st \notin {"absent", "running"}
  BY <1>0 DEF Consistent, AttemptsHoldTheirRun, Attempts
<1>2. CASE \/ \E t \in Tasks, a \in Agents : List(w, t, a)
           \/ ClaimRefused(w) \/ Recheck(w) \/ Launch(w) \/ PromptFail(w)
  BY <1>2, QuietIsLocal DEF List, ClaimRefused, Recheck, Launch, PromptFail
<1>3. CASE PrepFail(w)
  <2>1. p.pc = "claimed" /\ p.run \in Runs /\ p.seen \in Statuses
    BY <1>0, <1>1, <1>3 DEF PrepFail, Attempts
  <2> QED
    BY <1>0, <1>1, <1>3, <2>1, StartupFailureShrinks, StartupFailureSpares
       DEF PrepFail, Local
<1>4. CASE MarkDispatched(w)
  <2>1. p.run \in Runs
    BY <1>1, <1>4 DEF MarkDispatched
  <2>2. CASE db' = db
    BY <2>2, QuietIsLocal
  <2>3. CASE db' # db
    <3> DEFINE r == [db.run[p.run] EXCEPT !.st = "dispatched"]
    <3>1. db.run[p.run].st = "queued" /\ db' = [db EXCEPT !.run[p.run] = r]
      BY <1>4, <2>3 DEF MarkDispatched, SetRun
    <3>2. db.run[p.run] \in RunRows
      BY <1>0, <2>1 DEF Database
    <3>3. /\ r \in RunRows /\ r.st = "dispatched"
          /\ r.task = db.run[p.run].task /\ r.agent = db.run[p.run].agent
          /\ r.ended = db.run[p.run].ended
          /\ r.outcome = db.run[p.run].outcome
      BY <3>2 DEF RunRows, RunStates, LiveStates
    <3>4. Live(db, p.run) /\ ~db.run[p.run].ended /\ ~db.run[p.run].outcome
      BY <1>0, <2>1, <3>1 DEF Sound, Live, Anchored, LiveStates
    <3> HIDE DEF r
    <3> QED
      BY <1>0, <2>1, <3>1, <3>3, <3>4, RunRowShrinks, RunRowSpares DEF Local
  <2> QED
    BY <2>2, <2>3
<1>5. CASE Unwind(w)
  BY <1>0, <1>1, <1>5, UnwindShrinks, UnwindSpares DEF Unwind, Local
<1> QED
  BY <1>2, <1>3, <1>4, <1>5 DEF DispatcherStep

LEMMA LaunchIsLocal ==
    ASSUME Consistent, NEW i \in Runs, LaunchStep(i)
    PROVE  Local
<1> DEFINE l == launch[i]
<1>0. /\ Sound(db) /\ db \in Database
      /\ l \in Launches /\ l.prior \in Statuses
      /\ l.pc # "none" => db.run[i].st \notin {"absent", "queued"}
      /\ l.pc = "recording" => ~Live(db, i)
  BY ConsistentSound
     DEF Consistent, TypeOK, Launches, LaunchesFollowTheMark
<1>1. CASE \/ LaunchLost(i)
           \/ \E prepared \in BOOLEAN : CheckOwned(i, prepared)
           \/ \E reached, raised \in BOOLEAN : Dispatch(i, reached, raised)
  BY <1>1, QuietIsLocal DEF LaunchLost, CheckOwned, Dispatch
<1>2. CASE FailRun(i)
  BY <1>0, <1>2, SetRunShrinks, SetRunSpares, QuietIsLocal
     DEF FailRun, Local, Final, Present
<1>3. CASE RecordStartupFailure(i)
  <2>1. db.run[i].st \notin {"absent", "running"}
    BY <1>0, <1>3 DEF RecordStartupFailure, Live, LiveStates
  <2> QED
    BY <1>0, <1>3, <2>1, StartupFailureShrinks, StartupFailureSpares,
       QuietIsLocal DEF RecordStartupFailure, Local
<1> QED
  BY <1>1, <1>2, <1>3 DEF LaunchStep

LEMMA TaskIsLocal ==
    ASSUME Consistent, NEW t \in Tasks, TaskStep(t)
    PROVE  Local
<1> DEFINE i == db.task[t].active
<1>0. Sound(db) /\ db \in Database /\ i \in Runs \cup {NoRun}
  BY ConsistentSound DEF Sound, Database, TaskRows
<1>1. ASSUME NEW s \in Statuses, Edit(t, s)
      PROVE  Local
  <2> DEFINE m == SetStatus(db, t, s)
  <2>1. Shrinks(db, m) /\ Sound(m) /\ Spares(db, m, i)
    BY <1>0, StatusShrinks, StatusSpares, ShrinkKeeps
  <2>2. m.task[t].active = i
    BY <1>0 DEF SetStatus, Database, TaskRows
  <2> HIDE DEF m
  <2>3. Shrinks(db, Cleanup(m, t)) /\ Spares(db, Cleanup(m, t), i)
    BY <2>1, <2>2, CleanupShrinks, CleanupSpares, ShrinkTrans, SpareTrans
  <2> QED
    BY <1>0, <1>1, <2>3 DEF Edit, Local, m
<1>2. CASE Pause(t) \/ Unpause(t) \/ BackoffElapses(t)
  <2>1. PICK b \in BOOLEAN : \/ db' = [db EXCEPT !.task[t].paused = b]
                             \/ db' = [db EXCEPT !.task[t].cooling = b]
    BY <1>2 DEF Pause, Unpause, BackoffElapses
  <2>2. db'.run = db.run /\ \A u \in Tasks : db'.task[u].active = db.task[u].active
    BY <1>0, <2>1 DEF Database, TaskRows
  <2>3. Spares(db, db', i)
    BY <2>2 DEF Spares, Live
  <2>4. Shrinks(db, db')
    <3>1. CASE db' = [db EXCEPT !.task[t].paused = b]
      BY <1>0, <3>1, PausedShrinks
    <3>2. CASE db' = [db EXCEPT !.task[t].cooling = b]
      BY <1>0, <3>2, PausedShrinks
    <3> QED
      BY <2>1, <3>1, <3>2
  <2> QED
    BY <1>0, <2>3, <2>4 DEF Local
<1>3. CASE CancelTask(t)
  BY <1>0, <1>3, CancelShrinks, CancelSpares DEF CancelTask, Local
<1>4. CASE ClearDeadLink(t)
  <2>1. i \in Runs
    BY <1>0, <1>4 DEF ClearDeadLink
  <2>2. ~Live(db, i)
    BY <1>0, <1>4, <2>1 DEF ClearDeadLink, Sound
  <2> QED
    BY <1>0, <1>4, <2>1, <2>2, DetachShrinks, DetachSpares
       DEF ClearDeadLink, Local
<1>5. CASE Sweep(t)
  BY <1>0, <1>5, CleanupShrinks, CleanupSpares DEF Sweep, Local
<1> QED
  BY <1>1, <1>2, <1>3, <1>4, <1>5 DEF TaskStep

LEMMA RunIsLocal ==
    ASSUME Consistent, NEW i \in Runs, RunStep(i)
    PROVE  Local
<1>0. Sound(db) /\ db \in Database
  BY ConsistentSound DEF Sound
<1>1. CASE CheckIn(i)
  BY <1>0, <1>1, MarkRunningShrinks, MarkRunningSpares DEF CheckIn, Local
<1>2. CASE Expire(i)
  <2>1. Present(db, i)
    BY <1>2 DEF Expire, Live, Present, LiveStates
  <2> QED
    BY <1>0, <1>2, <2>1, CloseRunShrinks, CloseRunSpares
       DEF Expire, Final, Local
<1>3. CASE GraceElapses(i)
  <2>1. ~Live(db, i)
    BY <1>0, <1>3 DEF GraceElapses, Sound
  <2>2. db'.task = db.task /\ \A j \in Runs \ {i} : db'.run[j] = db.run[j]
    BY <1>0, <1>3 DEF GraceElapses, Database
  <2> QED
    BY <1>0, <1>3, <2>1, <2>2, OverRowShrinks
       DEF GraceElapses, Local, Spares, Live
<1>4. ASSUME NEW t \in Tasks, NEW to \in Statuses, PostOutcome(i, t, to)
      PROVE  Local
  <2>1. Present(db, i) /\ db.task[t].active = i
    BY <1>4 DEF PostOutcome, Joined, Consistent, LaunchesFollowTheMark
  <2> QED
    BY <1>0, <1>4, <2>1, OutcomeShrinks, OutcomeSpares
       DEF PostOutcome, Final, Local
<1> QED
  BY <1>1, <1>2, <1>3, <1>4 DEF RunStep

LEMMA JobIsLocal ==
    ASSUME Consistent, NEW j \in jobs, JobStep(j)
    PROVE  Local
<1> DEFINE i == j.run
<1>0. Sound(db) /\ db \in Database /\ JobOK(j, db) /\ i \in Runs
  BY ConsistentSound DEF Sound, JobOK, Jobs
<1>1. CASE FireCleanup(j)
  <2>1. j.task \in Tasks
    BY <1>0, <1>1 DEF FireCleanup, JobOK
  <2> QED
    BY <1>0, <1>1, <2>1, CleanupShrinks, CleanupSpares, QuietIsLocal
       DEF FireCleanup, Local
<1>2. CASE FireUnlink(j)
  <2>1. j.task \in Tasks /\ ~Live(db, i)
    BY <1>0, <1>2 DEF FireUnlink, JobOK
  <2> QED
    BY <1>0, <1>2, <2>1, DetachShrinks, DetachSpares DEF FireUnlink, Local
<1>3. ASSUME NEW confirmed \in BOOLEAN, FireAbort(j, confirmed)
      PROVE  Local
  <2> DEFINE f == IF Live(db, i) THEN SetRun(db, i, "cancelled") ELSE db
             e == IF confirmed THEN [f EXCEPT !.run[i].ended = TRUE] ELSE f
  <2>1. Shrinks(db, f) /\ ~Live(f, i) /\ Spares(db, f, i)
    BY <1>0, SetRunShrinks, SetRunSpares, ShrinkRefl, SpareRefl
       DEF Live, Present, LiveStates, Final
  <2> HIDE DEF f
  <2>2. Sound(f)
    BY <1>0, <2>1, ShrinkKeeps
  <2>3. e.task = f.task /\ \A k \in Runs \ {i} : e.run[k] = f.run[k]
    BY <2>2 DEF Sound, Database
  <2>4. Shrinks(f, e) /\ Spares(f, e, i)
    BY <1>0, <2>1, <2>2, <2>3, OverRowShrinks, ShrinkRefl DEF Spares, Live
  <2>5. db' = e
    BY <1>3 DEF FireAbort, f
  <2> HIDE DEF e
  <2> QED
    BY <1>0, <2>1, <2>4, <2>5, ShrinkTrans, SpareTrans DEF Local
<1> QED
  BY <1>1, <1>2, <1>3 DEF JobStep

LEMMA CallIsLocal ==
    ASSUME Consistent, NEW c \in Calls, CallStep(c)
    PROVE  Local
<1> DEFINE p == call[c]
<1>0. /\ Sound(db) /\ db \in Database
      /\ p \in CallStates /\ CallOK(p, db)
  BY ConsistentSound DEF Sound
<1>1. CASE \/ \E i \in Runs : \E op \in {"start", "complete", "completion"} :
                 Authorise(c, i, op)
           \/ \E i \in Runs : Heartbeat(c, i)
           \/ ResolveTask(c) \/ LookUpLink(c)
           \/ StartEventRead(c) \/ Handoff(c) \/ ReadAuthority(c)
           \/ \E label \in {"done", "failed"} : CompleteRead(c, label)
           \/ \E i \in Runs, success \in BOOLEAN : RuntimeEnd(c, i, success)
           \/ \E t \in Tasks : ReconcileMissing(c, t)
           \/ \E i \in Runs, behavior \in StopBehaviors : Stop(c, i, behavior)
  BY <1>1, QuietIsLocal
     DEF Authorise, Heartbeat, ResolveTask, LookUpLink, StartEventRead, Handoff, ReadAuthority, CompleteRead,
         RuntimeEnd, ReconcileMissing, Stop
<1>2. CASE Start(c) \/ Note(c)
  <2>1. p.run \in Runs /\ p.run \in sent
    BY <1>0, <1>2 DEF Start, Note, CallOK, Stage
  <2> QED
    BY <1>0, <1>2, <2>1, MarkRunningShrinks, MarkRunningSpares
       DEF Start, Note, Local
<1>3. CASE Adopt(c) \/ AttachRun(c) \/ AttachTask(c)
  BY <1>0, <1>3 DEF Adopt, AttachRun, AttachTask, CallOK
<1>4. CASE MoveStarted(c) \/ Flag(c)
  <2>1. /\ p.task \in Tasks /\ p.seen \in Statuses
        /\ db' = SetStatus(db, p.task, p.seen)
    BY <1>0, <1>4 DEF MoveStarted, Flag, CallOK
  <2> QED
    BY <1>0, <2>1, StatusShrinks, StatusSpares DEF Local
<1>5. CASE Close(c) \/ Rewrite(c) \/ ClaimEnd(c)
  <2>1. /\ p.run \in Runs /\ Present(db, p.run) /\ p.seen \in Final
        /\ db' \in {db, CloseRun(db, p.run, p.seen)}
    BY <1>0, <1>5 DEF Close, Rewrite, ClaimEnd, CallOK, Stage
  <2> QED
    BY <1>0, <2>1, CloseRunShrinks, CloseRunSpares, QuietIsLocal DEF Local
<1>6. CASE CompletionRead(c)
  <2>1. ~Live(db, p.run)
    BY <1>0, <1>6 DEF CompletionRead, CallOK, Stage, FollowUps
  <2>2. db' = db
    BY <1>6, <2>1 DEF CompletionRead, MarkRunning, Live, LiveStates
  <2> QED
    BY <2>2, QuietIsLocal
<1>7. CASE CommitFailure(c)
  <2>1. /\ p.task \in Tasks /\ p.seen \in Statuses
        /\ p.run \in Runs /\ Present(db, p.run) /\ ~Live(db, p.run)
    BY <1>0, <1>7 DEF CommitFailure, CallOK, Stage, FollowUps
  <2> QED
    BY <1>0, <1>7, <2>1, OutcomeShrinks, OutcomeSpares
       DEF CommitFailure, Final, Local
<1>8. CASE Revoke(c)
  <2>1. p.run \in Runs /\ Present(db, p.run) /\ p.seen \in StopBehaviors
    BY <1>0, <1>8 DEF Revoke, CallOK
  <2> QED
    BY <1>0, <1>8, <2>1, StopShrinks, StopSpares DEF Revoke, Local
<1>9. ASSUME NEW confirmed \in BOOLEAN, Confirm(c, confirmed)
      PROVE  Local
  <2>1. p.run \in Runs /\ Present(db, p.run)
    BY <1>0, <1>9 DEF Confirm, CallOK
  <2> QED
    BY <1>0, <1>9, <2>1, CloseRunShrinks, CloseRunSpares, SetRunShrinks,
       SetRunSpares DEF Confirm, Final, Local
<1> QED
  BY <1>1, <1>2, <1>3, <1>4, <1>5, <1>6, <1>7, <1>8, <1>9 DEF CallStep

LEMMA StepIsLocal ==
    ASSUME Consistent, [Next]_vars
    PROVE  Local \/ \E w \in Dispatchers, i \in Runs : Claim(w, i)
<1>1. CASE \E w \in Dispatchers : DispatcherStep(w)
  BY <1>1, DispatcherIsLocal
<1>2. CASE UNCHANGED vars \/ Crash
  BY <1>2, QuietIsLocal DEF vars, Crash
<1> QED
  BY <1>1, <1>2, LaunchIsLocal, TaskIsLocal, RunIsLocal, JobIsLocal,
     CallIsLocal DEF Next

---------------------------------------------------------------------------
(* The abstract protocol takes each of them as one step.                    *)

LEMMA PhaseIs ==
    ASSUME NEW d \in Database, NEW i \in Runs
    PROVE  /\ PhaseOf(d.run[i]) = "live" <=> Live(d, i)
           /\ PhaseOf(d.run[i]) = "new" <=> ~Present(d, i)
           /\ PhaseOf(d.run[i]) = "over" <=> Present(d, i) /\ ~Live(d, i)
BY DEF PhaseOf, Live, Present, LiveStates

LEMMA LocalImplements ==
    ASSUME Consistent, Local
    PROVE  [Ownership!Next]_<<[t \in Tasks |-> db.task[t].active],
                              [i \in Runs |-> db.run[i].agent],
                              [i \in Runs |-> PhaseOf(db.run[i])]>>
<1> DEFINE owner  == [t \in Tasks |-> db.task[t].active]
           worker == [i \in Runs |-> db.run[i].agent]
           phase  == [i \in Runs |-> PhaseOf(db.run[i])]
<1>0. Sound(db) /\ db \in Database /\ db' \in Database /\ Shrinks(db, db')
  BY ConsistentSound DEF Sound, Local, Shrinks
<1>1. PICK i \in Runs \cup {NoRun} : Spares(db, db', i)
  BY DEF Local
<1>2. worker' = worker
  BY <1>0 DEF Shrinks
<1>3. \A j \in Runs : j # i => PhaseOf(db'.run[j]) = PhaseOf(db.run[j])
  <2>1. ASSUME NEW j \in Runs, j # i
        PROVE  PhaseOf(db'.run[j]) = PhaseOf(db.run[j])
    <3>1. (Live(db', j) <=> Live(db, j)) /\ (Present(db', j) <=> Present(db, j))
      BY <1>0, <1>1, <2>1 DEF Shrinks, Spares
    <3> QED
      BY <1>0, <3>1 DEF PhaseOf, Live, Present
  <2> QED
    BY <2>1
<1>4. \A t \in Tasks :
         \/ db'.task[t].active = db.task[t].active
         \/ db.task[t].active = i /\ db'.task[t].active = NoRun
  BY <1>0, <1>1 DEF Shrinks, Spares
<1>5. CASE owner' = owner
  <2>1. CASE phase' = phase
    BY <1>2, <1>5, <2>1
  <2>2. CASE phase' # phase
    <3>1. i \in Runs /\ PhaseOf(db'.run[i]) # PhaseOf(db.run[i])
      BY <1>3, <2>2
    <3>2. Live(db, i) /\ PhaseOf(db'.run[i]) = "over"
      BY <1>0, <3>1 DEF Shrinks, PhaseOf, Live, Present
    <3>3. phase[i] = "live" /\ phase' = [phase EXCEPT ![i] = "over"]
      BY <1>0, <1>3, <3>1, <3>2, PhaseIs
    <3>4. Ownership!End(i)
      BY <1>2, <1>5, <3>1, <3>3 DEF Ownership!End
    <3> QED
      BY <3>1, <3>4 DEF Ownership!Next
  <2> QED
    BY <2>1, <2>2
<1>6. CASE owner' # owner
  <2>1. PICK t \in Tasks : db.task[t].active = i /\ db'.task[t].active = NoRun
                           /\ i # NoRun
    BY <1>4, <1>6
  <2>2. i \in Runs /\ db.run[i].task = t /\ Present(db, i)
    BY <1>0, <1>1, <2>1 DEF Sound
  <2>3. \A u \in Tasks \ {t} : db'.task[u].active = db.task[u].active
    BY <1>0, <1>4, <2>2 DEF Sound
  <2>4. owner[t] = i /\ owner' = [owner EXCEPT ![t] = NoRun]
    <3>1. \A u \in Tasks : db'.task[u].active =
             IF u = t THEN NoRun ELSE db.task[u].active
      BY <2>1, <2>3
    <3> QED
      BY <2>1, <3>1
  <2>5. ~Live(db', i) /\ Present(db', i)
    BY <1>0, <2>1, <2>2 DEF Shrinks
  <2>6. PhaseOf(db'.run[i]) = "over"
    BY <1>0, <2>2, <2>5, PhaseIs
  <2>7. CASE Live(db, i)
    <3>1. phase[i] = "live" /\ phase' = [phase EXCEPT ![i] = "over"]
      BY <1>0, <1>3, <2>2, <2>6, <2>7, PhaseIs
    <3>2. Ownership!End(i)
      BY <1>2, <2>2, <2>4, <3>1 DEF Ownership!End
    <3> QED
      BY <2>2, <3>2 DEF Ownership!Next
  <2>8. CASE ~Live(db, i)
    <3>1. phase[i] = "over" /\ phase' = phase
      BY <1>0, <1>3, <2>2, <2>6, <2>8, PhaseIs
    <3>2. Ownership!Release(t)
      BY <1>2, <2>2, <2>4, <3>1 DEF Ownership!Release
    <3> QED
      BY <3>2 DEF Ownership!Next
  <2> QED
    BY <2>7, <2>8
<1> QED
  BY <1>5, <1>6

LEMMA ClaimImplements ==
    ASSUME Consistent, NEW w \in Dispatchers, NEW i \in Runs, Claim(w, i)
    PROVE  Ownership!Next
<1> DEFINE p == attempt[w]
           owner  == [t \in Tasks |-> db.task[t].active]
           worker == [j \in Runs |-> db.run[j].agent]
           phase  == [j \in Runs |-> PhaseOf(db.run[j])]
<1>0. /\ Sound(db) /\ db \in Database
      /\ p.task \in Tasks /\ p.agent \in Agents
  BY ConsistentSound DEF Consistent, TypeOK, AttemptsHoldTheirRun, Claim
<1>1. /\ ~Present(db, i) /\ ~AgentBusy(db, p.agent)
      /\ db.task[p.task].active = NoRun
  BY DEF Claim, Claimable, NextRun, Dispatchable
<1>2. db' = ClaimTx(db, p.task, p.agent, i)
  BY DEF Claim
<1>3. /\ db'.run = [db.run EXCEPT ![i] = Queued(p.task, p.agent)]
      /\ \A t \in Tasks : db'.task[t].active =
             IF t = p.task THEN i ELSE db.task[t].active
  BY <1>0, <1>2 DEF ClaimTx, Database, TaskRows
<1>4. owner' = [owner EXCEPT ![p.task] = i]
  BY <1>0, <1>3
<1> DEFINE r == Queued(p.task, p.agent)
<1>5. r.agent = p.agent /\ PhaseOf(r) = "live"
  BY DEF Queued, PhaseOf, LiveStates
<1> HIDE DEF r
<1>6. \A j \in Runs : db'.run[j] = IF j = i THEN r ELSE db.run[j]
  BY <1>0, <1>3 DEF Database, r
<1>7. worker' = [worker EXCEPT ![i] = p.agent]
  BY <1>5, <1>6
<1>8. phase' = [phase EXCEPT ![i] = "live"]
  BY <1>5, <1>6
<1>9. owner[p.task] = NoRun /\ phase[i] = "new"
  BY <1>0, <1>1, PhaseIs
<1>10. \A j \in Runs : phase[j] = "live" => worker[j] # p.agent
  BY <1>0, <1>1, PhaseIs DEF AgentBusy
<1>11. Ownership!Claim(p.task, p.agent, i)
  BY <1>4, <1>7, <1>8, <1>9, <1>10 DEF Ownership!Claim, Ownership!Idle
<1> QED
  BY <1>0, <1>11 DEF Ownership!Next

LEMMA InitImplements ==
    ASSUME Init
    PROVE  Ownership!Init
BY DEF Init, EmptyDatabase, NewTask, NoRow, PhaseOf, Ownership!Init

\* Every behaviour of dispatchers, callbacks, ends, operators and repairs is
\* one of the ownership protocol: a run takes a free task and an idle agent in
\* one step, keeps the task while it lives and is over for good.
THEOREM ImplementsRunOwnership ==
    ASSUME "completion" \notin Moves
    PROVE  Spec => ImplementsOwnership
<1>1. Consistent /\ [Next]_vars =>
         [Ownership!Next]_<<[t \in Tasks |-> db.task[t].active],
                            [i \in Runs |-> db.run[i].agent],
                            [i \in Runs |-> PhaseOf(db.run[i])]>>
  BY StepIsLocal, LocalImplements, ClaimImplements
<1> QED
  BY <1>1, InitImplements, StaysConsistent, PTL
     DEF Spec, ImplementsOwnership, Ownership!Spec

---------------------------------------------------------------------------
(* Runtime ends                                                             *)

Reporting == FollowUps \ {"handoff", "flag"}

OneReport ==
    /\ Consistent
    /\ EndHandledOnce
    /\ \A c \in Calls : Stage(call[c]) \notin {"complete", "close"}

(* What a handler may become: no reporter, the reporter it was, or the      *)
(* first reporter of a run that was live.                                   *)
MayBecome(p, q) ==
    /\ Stage(q) \notin {"complete", "close"}
    /\ \/ Stage(q) \notin Reporting
       \/ q.run = p.run /\ (Stage(p) \in Reporting \/ Live(db, p.run))

LEMMA CallBecomes ==
    ASSUME OneReport, NEW c \in Calls, CallStep(c),
           {"complete", "completion"} \cap Moves = {}
    PROVE  \E q : call' = [call EXCEPT ![c] = q] /\ MayBecome(call[c], q)
<1> DEFINE p == call[c]
<1>0. p \in CallStates /\ CallOK(p, db) /\ p.pc \notin {"complete", "close"}
  BY ConsistentSound DEF OneReport, Stage
<1>a. \A q : Stage(q) \notin Reporting \cup {"complete", "close"} =>
                MayBecome(p, q)
  BY DEF MayBecome
<1>b. NoCall.pc = "idle" /\ NoCall \in CallStates
  BY DEF NoCall, CallStates
<1>1. CASE \/ \E i \in Runs : \E op \in {"start", "complete", "completion"} :
                 Authorise(c, i, op)
           \/ \E i \in Runs, behavior \in StopBehaviors : Stop(c, i, behavior)
           \/ \E i \in Runs, success \in BOOLEAN : RuntimeEnd(c, i, success)
           \/ \E t \in Tasks : ReconcileMissing(c, t)
  <2>1. CASE \E i \in Runs : \E op \in {"start", "complete", "completion"} :
                Authorise(c, i, op)
    <3>1. PICK i \in Runs : Authorise(c, i, "start")
      BY <2>1 DEF Authorise
    <3> DEFINE q == [NoCall EXCEPT !.pc = "check", !.run = i, !.next = "start"]
    <3>2. call' = [call EXCEPT ![c] = q] /\ Stage(q) = "start"
      BY <3>1 DEF Authorise, NoCall, Stage
    <3> HIDE DEF q
    <3>3. MayBecome(p, q)
      BY <3>2 DEF MayBecome, Reporting, FollowUps
    <3> QED
      BY <3>2, <3>3
  <2>2. CASE \E i \in Runs, behavior \in StopBehaviors : Stop(c, i, behavior)
    <3>1. PICK i \in Runs, behavior \in StopBehaviors : Stop(c, i, behavior)
      BY <2>2
    <3> DEFINE q == [NoCall EXCEPT !.pc = "revoke", !.run = i,
                                   !.seen = behavior]
    <3>2. call' = [call EXCEPT ![c] = q] /\ q.pc = "revoke"
      BY <3>1 DEF Stop, NoCall
    <3> HIDE DEF q
    <3>3. MayBecome(p, q)
      BY <3>2 DEF MayBecome, Stage, Reporting, FollowUps
    <3> QED
      BY <3>2, <3>3
  <2>3. CASE \E i \in Runs, success \in BOOLEAN : RuntimeEnd(c, i, success)
    <3>1. PICK i \in Runs, success \in BOOLEAN : RuntimeEnd(c, i, success)
      BY <2>3
    <3> DEFINE r == db.run[i]
               requires == r.task # NoTask /\ db.task[r.task].status \in NeedsOutcome
               seen == IF r.st \in LiveStates /\ ~r.outcome
                       THEN IF success /\ ~requires THEN "done" ELSE "failed"
                       ELSE r.st
               owe == IF r.outcome \/ (success /\ ~requires) THEN "none"
                      ELSE IF success THEN "handoff" ELSE "authority"
               q == [NoCall EXCEPT !.pc = "claim", !.run = i, !.task = r.task,
                                   !.seen = seen, !.owe = owe]
    <3>2. call' = [call EXCEPT ![c] = q]
      BY <3>1 DEF RuntimeEnd
    <3>3. q.pc = "claim"
      BY DEF NoCall
    <3> HIDE DEF q
    <3>4. MayBecome(p, q)
      BY <3>3 DEF MayBecome, Stage, Reporting, FollowUps
    <3> QED
      BY <3>2, <3>4
  <2>4. CASE \E t \in Tasks : ReconcileMissing(c, t)
    <3>1. PICK t \in Tasks : ReconcileMissing(c, t)
      BY <2>4
    <3> DEFINE q == [NoCall EXCEPT !.pc = "handoff",
                                   !.run = db.task[t].active, !.task = t]
    <3>2. call' = [call EXCEPT ![c] = q] /\ q.pc = "handoff"
      BY <3>1 DEF ReconcileMissing, NoCall
    <3> HIDE DEF q
    <3>3. MayBecome(p, q)
      BY <3>2 DEF MayBecome, Stage, Reporting, FollowUps
    <3> QED
      BY <3>2, <3>3
  <2> QED
    BY <1>1, <2>1, <2>2, <2>3, <2>4
<1>2. CASE \/ \E label \in {"done", "failed"} : CompleteRead(c, label)
           \/ Close(c)
  BY <1>0, <1>2 DEF CompleteRead, Close
<1>3. CASE Return(c)
  <2>1. call' = [call EXCEPT ![c] = NoCall]
    BY <1>3 DEF Return
  <2>2. MayBecome(p, NoCall)
    BY <1>a, <1>b DEF Stage, Reporting, FollowUps
  <2> QED
    BY <2>1, <2>2
<1>4. ASSUME NEW pc \in {"event", "move", "confirm"}, Goto(c, pc)
      PROVE  \E q : call' = [call EXCEPT ![c] = q] /\ MayBecome(p, q)
  <2> DEFINE q == [p EXCEPT !.pc = pc]
  <2>1. call' = [call EXCEPT ![c] = q] /\ q.pc = pc
    BY <1>0, <1>4 DEF Goto, CallStates
  <2> QED
    BY <2>1 DEF MayBecome, Stage, Reporting, FollowUps
<1>5. CASE Start(c) \/ MoveStarted(c) \/ Flag(c) \/ CommitFailure(c)
           \/ Revoke(c) \/ Adopt(c) \/ Note(c)
           \/ \E confirmed \in BOOLEAN : Confirm(c, confirmed)
  BY <1>3, <1>4, <1>5
     DEF Start, MoveStarted, Flag, CommitFailure, Revoke, Adopt, Note,
         Confirm
<1>6. CASE StartEventRead(c)
  <2> DEFINE i == p.run
             t == db.run[i].task
             to == StartEvent[db.task[t].status]
             after == IF to = db.task[t].status THEN "none" ELSE "move"
             adopt == [p EXCEPT !.pc = "adopt", !.task = t,
                                !.seen = to, !.owe = after]
             move == [p EXCEPT !.pc = "move", !.task = t, !.seen = to]
  <2>1. adopt.pc = "adopt" /\ move.pc = "move"
    BY <1>0 DEF CallStates
  <2>2. call' \in {[call EXCEPT ![c] = NoCall], [call EXCEPT ![c] = adopt],
                    [call EXCEPT ![c] = move]}
    BY <1>6 DEF StartEventRead
  <2>3. MayBecome(p, NoCall) /\ MayBecome(p, adopt) /\ MayBecome(p, move)
    <3> HIDE DEF adopt, move
    <3> QED
      BY <1>a, <1>b, <2>1 DEF Stage, Reporting, FollowUps
  <2> HIDE DEF adopt, move
  <2> QED
    BY <2>2, <2>3
<1>7. CASE CompletionRead(c)
  <2> DEFINE q == [p EXCEPT !.pc = "rewrite", !.seen = db'.run[p.run].st]
  <2>1. p.pc = "completion" /\ call' = [call EXCEPT ![c] = q]
    BY <1>7 DEF CompletionRead, OneReport, Consistent, TypeOK
  <2>2. q.pc = "rewrite" /\ q.run = p.run
    BY <1>0 DEF CallStates
  <2> QED
    BY <2>1, <2>2 DEF MayBecome, Stage, Reporting, FollowUps
<1>8. CASE Rewrite(c)
  <2> DEFINE t == IF p.task = NoTask THEN db.run[p.run].task ELSE p.task
             q == [p EXCEPT !.pc = p.owe, !.task = t, !.owe = "none"]
  <2>1. /\ p.pc = "rewrite" /\ p.owe \in {"none", "handoff", "authority"}
        /\ call' \in {[call EXCEPT ![c] = NoCall], [call EXCEPT ![c] = q]}
    BY <1>0, <1>8 DEF Rewrite, CallOK, Stage
  <2>2. q.pc = p.owe /\ q.run = p.run
    BY <1>0 DEF CallStates
  <2> HIDE DEF q
  <2>3. Stage(p) = "rewrite" /\ Stage(q) = p.owe /\ Stage(NoCall) = "idle"
    BY <2>1, <2>2, <1>b DEF Stage
  <2> QED
    BY <2>1, <2>2, <2>3, <1>a, <1>b DEF MayBecome, Reporting, FollowUps
<1>9. CASE ClaimEnd(c)
  <2> DEFINE q == [p EXCEPT !.pc = "check", !.task = NoTask,
                            !.next = "completion"]
  <2>1. CASE Return(c)
    BY <1>3, <2>1
  <2>2. CASE ~Return(c)
    <3>1. Live(db, p.run) /\ call' = [call EXCEPT ![c] = q]
      BY <1>9, <2>2 DEF ClaimEnd, OneReport, Consistent, TypeOK
    <3>2. Stage(q) = "completion" /\ q.run = p.run
      BY <1>0 DEF CallStates, Stage
    <3> QED
      BY <3>1, <3>2 DEF MayBecome, Reporting, FollowUps
  <2> QED
    BY <2>1, <2>2
<1>10. CASE Handoff(c)
  <2> DEFINE q == [p EXCEPT !.pc = "flag",
                            !.seen = MissingEvent[db.task[p.task].status]]
  <2>1. CASE Return(c)
    BY <1>3, <2>1
  <2>2. CASE ~Return(c)
    <3>1. call' = [call EXCEPT ![c] = q] /\ q.pc = "flag"
      BY <1>0, <1>10, <2>2
         DEF Handoff, OneReport, Consistent, TypeOK, CallStates
    <3> QED
      BY <3>1 DEF MayBecome, Stage, Reporting, FollowUps
  <2> QED
    BY <2>1, <2>2
<1>11. CASE ReadAuthority(c)
  <2>1. CASE Return(c)
    BY <1>3, <2>1
  <2>2. CASE ~Return(c)
    <3>1. PICK to : call' = [call EXCEPT ![c].pc = "commit", ![c].seen = to]
      BY <1>11, <2>2 DEF ReadAuthority
    <3> DEFINE q == [p EXCEPT !.pc = "commit", !.seen = to]
    <3>2. /\ call' = [call EXCEPT ![c] = q] /\ p.pc = "authority"
          /\ q.pc = "commit" /\ q.run = p.run
      BY <1>0, <1>11, <3>1
         DEF ReadAuthority, OneReport, Consistent, TypeOK, CallStates
    <3> QED
      BY <3>2 DEF MayBecome, Stage, Reporting, FollowUps
  <2> QED
    BY <2>1, <2>2
<1>12. CASE Proceed(c) /\ p.pc \in {"check", "lookup"}
  <2> DEFINE q == [p EXCEPT !.pc = p.next, !.next = "none", !.tie = NoTask]
  <2>1. call' = [call EXCEPT ![c] = q]
    BY <1>12 DEF Proceed, OneReport, Consistent, TypeOK
  <2>2. p.next \in {"start", "completion", "rewrite", "note"}
    BY <1>0, <1>12 DEF CallStates, CallOK
  <2>3. Stage(q) = p.next /\ Stage(p) = p.next /\ q.run = p.run
    BY <1>0, <1>12, <2>2 DEF CallStates, Stage
  <2> QED
    BY <2>1, <2>2, <2>3 DEF MayBecome
<1>13. CASE ResolveTask(c) /\ ~Proceed(c)
  <2> DEFINE q == [p EXCEPT !.pc = "lookup"]
  <2>1. p.pc = "check" /\ call' = [call EXCEPT ![c] = q]
    BY <1>0, <1>13 DEF ResolveTask, Goto, CallStates
  <2>2. Stage(q) = Stage(p) /\ q.run = p.run
    BY <1>0, <2>1 DEF CallStates, Stage
  <2>3. Stage(p) \notin {"complete", "close"}
    BY DEF OneReport
  <2> QED
    BY <2>1, <2>2, <2>3 DEF MayBecome
<1>14. CASE LookUpLink(c) /\ ~Proceed(c)
  BY <1>0, <1>14 DEF LookUpLink, CallOK
<1>15. ASSUME NEW i \in Runs, Heartbeat(c, i)
       PROVE  \E q : call' = [call EXCEPT ![c] = q] /\ MayBecome(p, q)
  <2> DEFINE q == [NoCall EXCEPT !.pc = "lookup", !.run = i, !.next = "note"]
  <2>1. call' = [call EXCEPT ![c] = q] /\ Stage(q) = "note"
    BY <1>15 DEF Heartbeat, NoCall, Stage
  <2> HIDE DEF q
  <2> QED
    BY <2>1 DEF MayBecome, Reporting, FollowUps
<1>16. ~AttachRun(c) /\ ~AttachTask(c)
  BY <1>0 DEF AttachRun, AttachTask, CallOK
<1>17. ResolveTask(c) \/ LookUpLink(c) => p.pc \in {"check", "lookup"}
  BY DEF ResolveTask, LookUpLink
<1> QED
  BY <1>1, <1>2, <1>5, <1>6, <1>7, <1>8, <1>9, <1>10, <1>11, <1>12, <1>13,
     <1>14, <1>15, <1>16, <1>17 DEF CallStep

LEMMA BecomingKeepsOne ==
    ASSUME OneReport, NEW c \in Calls, NEW q,
           call' = [call EXCEPT ![c] = q], MayBecome(call[c], q)
    PROVE  /\ EndHandledOnce'
           /\ \A d \in Calls : Stage(call'[d]) \notin {"complete", "close"}
<1>1. call'[c] = q /\ \A d \in Calls \ {c} : call'[d] = call[d]
  BY DEF OneReport, Consistent, TypeOK
<1>2. \A d \in Calls : Stage(call[d]) \in Reporting => ~Live(db, call[d].run)
  BY ConsistentSound DEF OneReport, CallOK, Reporting
<1>3. \A d, e \in Calls :
         d # e /\ {Stage(call[d]), Stage(call[e])} \subseteq Reporting
             => call[d].run # call[e].run
  BY DEF OneReport, EndHandledOnce, Reporting
<1>4. ASSUME NEW d \in Calls, d # c, Stage(call[d]) \in Reporting,
             Stage(q) \in Reporting
      PROVE  call[d].run # q.run
  BY <1>2, <1>3, <1>4 DEF MayBecome
<1>5. \A d, e \in Calls :
         d # e /\ {Stage(call'[d]), Stage(call'[e])} \subseteq Reporting
             => call'[d].run # call'[e].run
  BY <1>1, <1>3, <1>4
<1> QED
  BY <1>1, <1>5 DEF EndHandledOnce, MayBecome, OneReport, Reporting

LEMMA StepKeepsOne ==
    ASSUME OneReport, [Next]_vars, {"complete", "completion"} \cap Moves = {}
    PROVE  OneReport'
<1>1. Consistent'
  BY StepConsistent DEF OneReport
<1>2. CASE call' = call
  BY <1>1, <1>2 DEF OneReport, EndHandledOnce
<1>3. CASE Crash
  BY <1>1, <1>3 DEF Crash, NoCall, Stage, OneReport, EndHandledOnce, FollowUps
<1>4. ASSUME NEW c \in Calls, CallStep(c)
      PROVE  OneReport'
  BY <1>1, <1>4, CallBecomes, BecomingKeepsOne DEF OneReport
<1>5. ASSUME NEW w \in Dispatchers, DispatcherStep(w)
      PROVE  call' = call
  BY <1>5 DEF DispatcherStep, List, Claim, ClaimRefused, PrepFail, Recheck,
              MarkDispatched, Launch, PromptFail, Unwind
<1>6. ASSUME NEW i \in Runs, LaunchStep(i) \/ RunStep(i)
      PROVE  call' = call
  BY <1>6 DEF LaunchStep, LaunchLost, CheckOwned, Dispatch, FailRun,
              RecordStartupFailure, RunStep, CheckIn, Expire, GraceElapses,
              PostOutcome
<1>7. ASSUME NEW t \in Tasks, TaskStep(t)
      PROVE  call' = call
  BY <1>7 DEF TaskStep, Edit, Pause, Unpause, CancelTask, ClearDeadLink,
              Sweep, BackoffElapses
<1>8. ASSUME NEW j \in jobs, JobStep(j)
      PROVE  call' = call
  BY <1>8 DEF JobStep, FireCleanup, FireUnlink, FireAbort
<1> QED
  BY <1>2, <1>3, <1>4, <1>5, <1>6, <1>7, <1>8 DEF Next, vars

\* However many reports of a runtime end are in flight, the guarded UPDATE of
\* applyRuntimeEndToJobInstance lets one of them follow the end up: unless
\* the agent completes the run itself, which no guard keeps apart.
THEOREM EndsAreHandledOnce ==
    ASSUME {"complete", "completion"} \cap Moves = {}
    PROVE  Spec => []EndHandledOnce
<1>1. Init => OneReport
  BY InitConsistent DEF Init, OneReport, EndHandledOnce, NoCall, Stage, FollowUps
<1>2. OneReport /\ [Next]_vars => OneReport'
  BY StepKeepsOne
<1>3. OneReport => EndHandledOnce
  BY DEF OneReport
<1> QED
  BY <1>1, <1>2, <1>3, PTL DEF Spec

---------------------------------------------------------------------------
(* Whatever agents check in.  With bare completion check-ins the tables are *)
(* not sound any more.  What is left of Shrinks is that nothing on record   *)
(* is undone: no run vanishes, no outcome is erased, links are let go at    *)
(* most, no run comes to be live beside its end, and only a stop cuts a run *)
(* off from its task.                                                       *)
Undone(d, i) == Anchored(d, i) /\ Live(d, i)
Cut(d, i)    == Present(d, i) /\ d.run[i].task = NoTask

Keeps(d, e) ==
    /\ e \in Database
    /\ \A i \in Runs : Present(d, i) =>
          /\ Present(e, i)
          /\ d.run[i].outcome => e.run[i].outcome
    /\ \A i \in Runs : Cut(e, i) => Cut(d, i) \/ "stop" \in Moves

Tame(d, e) ==
    /\ Keeps(d, e)
    /\ \A i \in Runs : Undone(e, i) => Undone(d, i)
    /\ \A t \in Tasks : e.task[t].active \in {d.task[t].active, NoRun}

LEMMA TameRefl ==
    ASSUME NEW d \in Database
    PROVE  Tame(d, d)
BY DEF Tame, Keeps

LEMMA TameTrans ==
    ASSUME NEW d, NEW e, NEW f, Tame(d, e), Tame(e, f)
    PROVE  Tame(d, f)
BY DEF Tame, Keeps

---------------------------------------------------------------------------
(* Statements.                                                              *)

LEMMA TaskRowTame ==
    ASSUME NEW d \in Database, NEW t \in Tasks, NEW q \in TaskRows,
           q.active \in {d.task[t].active, NoRun}
    PROVE  Tame(d, [d EXCEPT !.task[t] = q])
<1> DEFINE e == [d EXCEPT !.task[t] = q]
<1>1. /\ e \in Database /\ e.run = d.run
      /\ \A u \in Tasks : e.task[u].active \in {d.task[u].active, NoRun}
  BY DEF Database
<1> QED
  BY <1>1 DEF Tame, Keeps, Cut, Undone, Live, Present, Anchored

LEMMA RunRowTame ==
    ASSUME NEW d \in Database, NEW i \in Runs, NEW r \in RunRows,
           r.st = "absent" => ~Present(d, i),
           Present(d, i) /\ d.run[i].outcome => r.outcome,
           r.st # "absent" /\ r.task = NoTask =>
              Cut(d, i) \/ "stop" \in Moves,
           r.st \in LiveStates /\ (r.ended \/ r.outcome) => Undone(d, i)
    PROVE  Tame(d, [d EXCEPT !.run[i] = r])
<1> DEFINE e == [d EXCEPT !.run[i] = r]
<1>1. e \in Database /\ e.task = d.task
  BY DEF Database
<1>2. e.run[i] = r /\ \A j \in Runs \ {i} : e.run[j] = d.run[j]
  BY DEF Database
<1> HIDE DEF e
<1>3. Keeps(d, e)
  BY <1>1, <1>2 DEF Keeps, Cut, Present
<1>4. \A j \in Runs : Undone(e, j) => Undone(d, j)
  BY <1>2 DEF Undone, Live, Anchored
<1> QED
  BY <1>1, <1>3, <1>4 DEF Tame, e

LEMMA StatusTame ==
    ASSUME NEW d \in Database, NEW t \in Tasks, NEW s \in Statuses
    PROVE  Tame(d, SetStatus(d, t, s))
<1> DEFINE q == [d.task[t] EXCEPT !.status = s]
<1>1. q \in TaskRows /\ q.active = d.task[t].active
  BY DEF Database, TaskRows
<1> HIDE DEF q
<1> QED
  BY <1>1, TaskRowTame DEF SetStatus, q

LEMMA FlagsTame ==
    ASSUME NEW d \in Database, NEW t \in Tasks, NEW b \in BOOLEAN
    PROVE  /\ Tame(d, [d EXCEPT !.task[t].paused = b])
           /\ Tame(d, [d EXCEPT !.task[t].cooling = b])
<1> DEFINE p == [d.task[t] EXCEPT !.paused = b]
           q == [d.task[t] EXCEPT !.cooling = b]
<1>1. /\ p \in TaskRows /\ p.active = d.task[t].active
      /\ q \in TaskRows /\ q.active = d.task[t].active
  BY DEF Database, TaskRows
<1> HIDE DEF p, q
<1>2. Tame(d, [d EXCEPT !.task[t] = p]) /\ Tame(d, [d EXCEPT !.task[t] = q])
  BY <1>1, TaskRowTame
<1> QED
  BY <1>2 DEF p, q

LEMMA DetachTame ==
    ASSUME NEW d \in Database, NEW t \in Tasks, NEW i
    PROVE  Tame(d, Detach(d, t, i))
<1> DEFINE q == [d.task[t] EXCEPT !.active = NoRun]
<1>1. q \in TaskRows /\ q.active = NoRun
  BY DEF Database, TaskRows
<1> HIDE DEF q
<1>2. Tame(d, [d EXCEPT !.task[t] = q])
  BY <1>1, TaskRowTame
<1> QED
  BY <1>2, TameRefl DEF Detach, q

LEMMA SetRunTame ==
    ASSUME NEW d \in Database, NEW i \in Runs, NEW s \in Final,
           Present(d, i)
    PROVE  Tame(d, SetRun(d, i, s))
<1> DEFINE r == [d.run[i] EXCEPT !.st = s]
<1>1. d.run[i] \in RunRows
  BY DEF Database
<1>2. /\ r \in RunRows /\ r.st = s
      /\ r.outcome = d.run[i].outcome /\ r.task = d.run[i].task
  BY <1>1 DEF RunRows, RunStates, Final
<1> HIDE DEF r
<1>3. Tame(d, [d EXCEPT !.run[i] = r])
  BY <1>2, RunRowTame DEF Final, LiveStates, Cut
<1> QED
  BY <1>3 DEF SetRun, r

(* A close writes what it has read: a final status, or that of a run whose  *)
(* outcome is on record.                                                    *)
LEMMA CloseRunTame ==
    ASSUME NEW d \in Database, NEW i \in Runs,
           NEW s \in RunStates \ {"absent"}, Present(d, i),
           s \in LiveStates => Undone(d, i)
    PROVE  Tame(d, CloseRun(d, i, s))
<1> DEFINE r == [d.run[i] EXCEPT !.st = s, !.ended = TRUE]
<1>1. d.run[i] \in RunRows
  BY DEF Database
<1>2. /\ r \in RunRows /\ r.st = s
      /\ r.outcome = d.run[i].outcome /\ r.task = d.run[i].task
  BY <1>1 DEF RunRows
<1>3. CloseRun(d, i, s) = [d EXCEPT !.run[i] = r]
  BY DEF CloseRun, Database, RunRows
<1> HIDE DEF r
<1>4. Tame(d, [d EXCEPT !.run[i] = r])
  BY <1>2, RunRowTame DEF Cut
<1> QED
  BY <1>3, <1>4

LEMMA MarkRunningTame ==
    ASSUME NEW d \in Database, NEW i \in Runs
    PROVE  Tame(d, MarkRunning(d, i))
<1> DEFINE r == [d.run[i] EXCEPT !.st = "running"]
<1>1. CASE d.run[i].st \in {"queued", "dispatched"}
  <2>1. d.run[i] \in RunRows
    BY DEF Database
  <2>2. /\ r \in RunRows /\ r.st = "running"
        /\ r.ended = d.run[i].ended /\ r.outcome = d.run[i].outcome
        /\ r.task = d.run[i].task
    BY <2>1 DEF RunRows, RunStates, LiveStates
  <2> HIDE DEF r
  <2>3. Live(d, i)
    BY <1>1 DEF Live, LiveStates
  <2>4. Tame(d, [d EXCEPT !.run[i] = r])
    BY <2>2, <2>3, RunRowTame
       DEF Undone, Anchored, Cut, Present, Live, LiveStates
  <2> QED
    BY <1>1, <2>4 DEF MarkRunning, SetRun, r
<1>2. CASE d.run[i].st \notin {"queued", "dispatched"}
  BY <1>2, TameRefl DEF MarkRunning
<1> QED
  BY <1>1, <1>2

LEMMA CleanupTame ==
    ASSUME NEW d \in Database, NEW t \in Tasks
    PROVE  Tame(d, Cleanup(d, t))
<1> DEFINE i == d.task[t].active
           e == IF d.run[i].task = t /\ Finalizes(d, i)
                THEN CloseRun(d, i, "done") ELSE d
<1>1. CASE ~CleanupDetaches(d, t)
  BY <1>1, TameRefl DEF Cleanup
<1>2. CASE CleanupDetaches(d, t)
  <2>1. i \in Runs
    BY <1>2 DEF CleanupDetaches, Database, TaskRows
  <2>2. Tame(d, e)
    BY <2>1, CloseRunTame, TameRefl DEF RunStates, LiveStates, Finalizes, Live,
       Present
  <2>3. Cleanup(d, t) = Detach(e, t, i)
    BY <1>2 DEF Cleanup
  <2> HIDE DEF e
  <2>4. Tame(e, Detach(e, t, i))
    BY <2>2, DetachTame DEF Tame, Keeps
  <2> QED
    BY <2>2, <2>3, <2>4, TameTrans
<1> QED
  BY <1>1, <1>2

---------------------------------------------------------------------------
(* Transactions.                                                            *)

LEMMA UnwindTame ==
    ASSUME NEW d \in Database, NEW t \in Tasks, NEW i \in Runs
    PROVE  Tame(d, UnwindTx(d, t, i))
<1> DEFINE e == IF d.run[i].st \in {"queued", "dispatched"}
                THEN SetRun(d, i, "failed") ELSE d
<1>1. Tame(d, e)
  BY SetRunTame, TameRefl DEF Final, Present
<1>2. UnwindTx(d, t, i) = Detach(e, t, i)
  BY DEF UnwindTx, SetRun, Database, RunRows
<1> HIDE DEF e
<1>3. Tame(e, Detach(e, t, i))
  BY <1>1, DetachTame DEF Tame, Keeps
<1> QED
  BY <1>1, <1>2, <1>3, TameTrans

LEMMA StartupFailureTame ==
    ASSUME NEW d \in Database, NEW t \in Tasks, NEW i \in Runs,
           NEW prior \in Statuses
    PROVE  Tame(d, StartupFailureTx(d, t, i, prior))
<1> DEFINE f == UnwindTx(d, t, i)
           g == SetStatus(f, t, StartupFailed[prior])
<1>1. CASE d.task[t].active # i
  BY <1>1, TameRefl DEF StartupFailureTx
<1>2. CASE d.task[t].active = i
  <2>1. Tame(d, f) /\ StartupFailed[prior] \in Statuses
    BY UnwindTame, WorkflowAssumption
  <2>2. StartupFailureTx(d, t, i, prior) = [g EXCEPT !.task[t].cooling = TRUE]
    BY <1>2 DEF StartupFailureTx
  <2> HIDE DEF f
  <2>3. Tame(f, g)
    BY <2>1, StatusTame DEF Tame, Keeps
  <2> HIDE DEF g
  <2>4. Tame(g, [g EXCEPT !.task[t].cooling = TRUE])
    BY <2>3, FlagsTame DEF Tame, Keeps
  <2> QED
    BY <2>1, <2>2, <2>3, <2>4, TameTrans
<1> QED
  BY <1>1, <1>2

LEMMA RetiedTame ==
    ASSUME NEW d \in Database, NEW i \in Runs
    PROVE  Tame(d, Retied(d, i))
<1> DEFINE e == Retied(d, i)
<1>1. /\ e \in Database /\ e.task = d.task
      /\ \A j \in Runs \ {i} : e.run[j] = d.run[j]
      /\ e.run[i].st = d.run[i].st /\ e.run[i].ended = d.run[i].ended
      /\ e.run[i].outcome = d.run[i].outcome
      /\ e.run[i].task = d.run[i].task \/ e.run[i].task \in Tasks
  BY RetiedTouches
<1> HIDE DEF e
<1>2. \A j \in Runs : /\ Present(e, j) <=> Present(d, j)
                      /\ e.run[j].outcome = d.run[j].outcome
                      /\ Undone(e, j) => Undone(d, j)
                      /\ Cut(e, j) => Cut(d, j)
  BY <1>1, NullsAssumption DEF Cut, Undone, Live, Present, Anchored
<1> QED
  BY <1>1, <1>2 DEF Tame, Keeps, e

(* The one transaction that records an outcome leaves no run live.          *)
LEMMA PostTame ==
    ASSUME NEW d \in Database, NEW t \in Tasks, NEW i \in Runs,
           NEW s \in Statuses, NEW final \in Final, Present(d, i)
    PROVE  Tame(d, PostTx(d, t, i, s, final))
<1> DEFINE m == SetStatus(d, t, s)
           over == d.run[i].st \in {"done", "failed"}
           st == IF over THEN d.run[i].st ELSE final
           r == [m.run[i] EXCEPT !.outcome = TRUE, !.st = st,
                     !.ended = IF over THEN @ ELSE TRUE]
           x == [m EXCEPT !.run[i] = r]
<1>1. Tame(d, m) /\ m \in Database /\ m.run = d.run
  <2>1. Tame(d, m)
    BY StatusTame
  <2>2. m \in Database
    BY <2>1 DEF Tame, Keeps
  <2> QED
    BY <2>1, <2>2 DEF SetStatus, Database
<1>2. m.run[i] \in RunRows
  BY <1>1 DEF Database
<1>3. st \in Final
  BY DEF Final
<1>4. PostTx(d, t, i, s, final) = IF over THEN x ELSE Retied(x, i)
  <2>1. CASE over
    BY <1>1, <1>2, <2>1 DEF PostTx, Database, RunRows
  <2>2. CASE ~over
    BY <1>1, <1>2, <2>2 DEF PostTx, CloseRun, Database, RunRows
  <2> QED
    BY <2>1, <2>2
<1> HIDE DEF m
<1>5. r \in RunRows /\ r.st = st /\ r.outcome /\ r.task = m.run[i].task
  <2> HIDE DEF st, over
  <2> QED
    BY <1>2, <1>3 DEF RunRows, RunStates, Final
<1> HIDE DEF r, st
<1>6. Tame(m, x)
  BY <1>1, <1>3, <1>5, RunRowTame
     DEF Final, LiveStates, Cut, Present
<1> HIDE DEF x
<1>7. Tame(x, Retied(x, i))
  BY <1>6, RetiedTame DEF Tame, Keeps
<1> HIDE DEF over
<1> QED
  BY <1>1, <1>4, <1>6, <1>7, TameTrans

LEMMA OutcomeTame ==
    ASSUME NEW d \in Database, NEW t \in Tasks, NEW i \in Runs,
           NEW s \in Statuses, NEW final \in Final, Present(d, i)
    PROVE  Tame(d, OutcomeTx(d, t, i, s, final))
<1> DEFINE e == PostTx(d, t, i, s, final)
<1>1. Tame(d, e)
  BY PostTame
<1>2. Tame(e, Cleanup(e, t))
  <2> HIDE DEF e
  <2> QED
    BY <1>1, CleanupTame DEF Tame, Keeps
<1> QED
  BY <1>1, <1>2, TameTrans DEF OutcomeTx

LEMMA CancelTame ==
    ASSUME NEW d \in Database, NEW t \in Tasks
    PROVE  Tame(d, CancelTx(d, t))
<1> DEFINE i == d.task[t].active
           m == SetStatus(d, t, "cancelled")
           e == IF Joined(d, t, i) /\ Live(d, i)
                THEN SetRun(m, i, "cancelled") ELSE m
<1>1. Tame(d, m) /\ m \in Database
  BY StatusTame, StatusesAssumption DEF Tame, Keeps
<1> HIDE DEF m
<1>2. CASE i = NoRun
  BY <1>1, <1>2 DEF CancelTx, m
<1>3. CASE i # NoRun
  <2>1. i \in Runs
    BY <1>3 DEF Database, TaskRows
  <2>2. Tame(m, e)
    <3>1. Live(d, i) => Present(m, i)
      BY <1>1, <2>1 DEF Tame, Keeps, Live, Present, LiveStates
    <3> QED
      BY <1>1, <2>1, <3>1, SetRunTame, TameRefl DEF Final
  <2>3. CancelTx(d, t) = Detach(e, t, i)
    BY <1>3 DEF CancelTx, m
  <2> HIDE DEF e
  <2>4. Tame(e, Detach(e, t, i))
    BY <2>2, DetachTame DEF Tame, Keeps
  <2> QED
    BY <1>1, <2>2, <2>3, <2>4, TameTrans
<1> QED
  BY <1>2, <1>3

LEMMA StopTame ==
    ASSUME NEW d \in Database, NEW i \in Runs, NEW behavior \in StopBehaviors,
           "stop" \in Moves
    PROVE  Tame(d, StopTx(d, i, behavior))
<1> DEFINE t == d.run[i].task
           r == [d.run[i] EXCEPT !.st = "failed", !.task = NoTask]
           x == [d EXCEPT !.run[i] = r]
           s == StopStatus(d.task[t].status, behavior)
<1>0. d.run[i] \in RunRows
  BY DEF Database
<1>1. /\ r \in RunRows /\ r.st = "failed" /\ r.outcome = d.run[i].outcome
      /\ t \in Tasks \cup {NoTask}
  BY <1>0 DEF RunRows, RunStates
<1>2. [d EXCEPT !.run[i].st = "failed", !.run[i].task = NoTask] = x
  BY DEF Database, RunRows
<1> HIDE DEF r
<1>3. Tame(d, x)
  BY <1>1, RunRowTame DEF LiveStates
<1> HIDE DEF x
<1>4. CASE t = NoTask \/ d.task[t].active # i
  BY <1>2, <1>3, <1>4 DEF StopTx
<1>5. CASE t # NoTask /\ d.task[t].active = i
  <2>1. t \in Tasks
    BY <1>1, <1>5
  <2> DEFINE y == Detach(x, t, i)
  <2>2. Tame(x, y)
    BY <1>3, <2>1, DetachTame DEF Tame, Keeps
  <2>3. StopTx(d, i, behavior) = SetStatus(y, t, s)
    BY <1>2, <1>5 DEF StopTx
  <2>4. s \in Statuses
    <3>1. d.task[t].status \in Statuses
      BY <2>1 DEF Database, TaskRows
    <3> QED
      BY <3>1, StatusesAssumption DEF StopStatus, StopBehaviors
  <2> HIDE DEF y, s
  <2>5. Tame(y, SetStatus(y, t, s))
    BY <2>1, <2>2, <2>4, StatusTame DEF Tame, Keeps
  <2> QED
    BY <1>3, <2>2, <2>3, <2>5, TameTrans
<1> QED
  BY <1>4, <1>5

---------------------------------------------------------------------------
(* What handlers, launches, dispatchers and jobs rely on all the same.      *)
Owed == {"none", "handoff", "authority"}

Carries(p, d) ==
    /\ p.pc # "idle" => p.run \in Runs
    /\ p.pc \notin {"idle", "handoff", "flag"} => Present(d, p.run)
    /\ p.pc \in {"check", "lookup", "tie", "link"} <=> p.next # "none"
    /\ p.pc \in {"tie", "link"} => p.tie \in Tasks
    /\ p.pc \in {"lookup", "tie", "link", "revoke"} => "stop" \in Moves
    /\ p.pc = "close" => p.seen \in {"done", "failed"}
    /\ Stage(p) \in {"claim", "rewrite"} => p.seen \in RunStates \ {"absent"}
    /\ p.pc = "claim" /\ p.seen \in LiveStates => d.run[p.run].outcome
    /\ Stage(p) \in {"close", "claim", "completion", "rewrite"} =>
          p.owe \in Owed
    /\ p.pc \in {"adopt", "move", "handoff", "flag", "authority", "commit"} =>
          p.task \in Tasks
    /\ p.pc \in {"adopt", "move", "flag", "commit"} => p.seen \in Statuses
    /\ p.pc = "revoke" => p.seen \in StopBehaviors

Holds(p, d) ==
    /\ p.pc # "idle" => p.task \in Tasks
    /\ p.pc \notin {"idle", "listed"} => p.run \in Runs /\ Present(d, p.run)

TaskJobs == {j \in Jobs : j.job # "abort" => j.task \in Tasks}

Bearing ==
    /\ TypeOK
    /\ \A c \in Calls : Carries(call[c], db)
    /\ \A w \in Dispatchers : Holds(attempt[w], db)
    /\ \A i \in Runs : launch[i].pc # "none" \/ i \in sent => Present(db, i)
    /\ jobs \subseteq TaskJobs
    /\ \A i \in Runs : Cut(db, i) => "stop" \in Moves

(* A step of OnlyAttachSteals and OnlyCheckInUndoes.                        *)
Takes == \A t \in Tasks : db.task[t].active # NoRun =>
            \/ db'.task[t].active \in {db.task[t].active, NoRun}
            \/ \E c \in Calls :
                  /\ call[c].pc = "link" /\ call'[c].pc # "link"
                  /\ call[c].tie = t /\ call[c].run = db'.task[t].active
Undoes == \A i \in Runs :
          Anchored(db', i) /\ Live(db', i) =>
              \/ Anchored(db, i) /\ Live(db, i)
              \/ \E c \in Calls :
                    /\ call[c].pc = "rewrite" /\ call'[c].pc # "rewrite"
                    /\ call[c].run = i /\ call[c].seen = db'.run[i].st
Right == Bearing' /\ Takes /\ Undoes

LEMMA TameIsRight ==
    ASSUME Tame(db, db')
    PROVE  Keeps(db, db') /\ Takes /\ Undoes
BY DEF Tame, Takes, Undoes, Undone

LEMMA CarriesOn ==
    ASSUME NEW d, NEW e, Keeps(d, e), NEW p, Carries(p, d)
    PROVE  Carries(p, e)
BY DEF Carries, Keeps

LEMMA OthersBear ==
    ASSUME Bearing, Keeps(db, db'), UNCHANGED <<attempt, launch, sent>>
    PROVE  /\ db' \in Database
           /\ \A c \in Calls : Carries(call[c], db')
           /\ \A w \in Dispatchers : Holds(attempt'[w], db')
           /\ \A i \in Runs :
                 launch'[i].pc # "none" \/ i \in sent' => Present(db', i)
<1>1. \A c \in Calls : Carries(call[c], db')
  BY CarriesOn DEF Bearing
<1>2. \A w \in Dispatchers : Holds(attempt[w], db')
  BY DEF Bearing, Holds, Keeps
<1> QED
  BY <1>1, <1>2 DEF Bearing, Keeps

LEMMA QuietBears ==
    ASSUME Bearing, Tame(db, db'), UNCHANGED <<attempt, launch, sent, call>>,
           jobs' \subseteq TaskJobs
    PROVE  Right
<1>1. Keeps(db, db') /\ Takes /\ Undoes
  BY TameIsRight
<1>2. Bearing'
  <2>1. TypeOK'
    BY <1>1, OthersBear DEF Bearing, TypeOK, TaskJobs
  <2>2. \A c \in Calls : Carries(call'[c], db')
    BY <1>1, OthersBear
  <2> QED
    BY <1>1, <2>1, <2>2, OthersBear DEF Bearing, Keeps
<1> QED
  BY <1>1, <1>2 DEF Right

LEMMA CallBears ==
    ASSUME Bearing, Keeps(db, db'), UNCHANGED <<attempt, launch, sent>>,
           NEW c \in Calls, NEW q \in CallStates, Carries(q, db'),
           call' = [call EXCEPT ![c] = q], jobs' \subseteq TaskJobs
    PROVE  Bearing'
<1>1. TypeOK'
  BY OthersBear DEF Bearing, TypeOK, TaskJobs
<1>2. \A k \in Calls : Carries(call'[k], db')
  <2>1. call'[c] = q /\ \A k \in Calls \ {c} : call'[k] = call[k]
    BY DEF Bearing, TypeOK
  <2> QED
    BY <2>1, OthersBear
<1> QED
  BY <1>1, <1>2, OthersBear DEF Bearing, Keeps

(* Jobs name a task, or nothing depends on it.                              *)
LEMMA NewJobs ==
    ASSUME NEW d \in Database, NEW t \in Tasks
    PROVE  /\ CleanupJobs(d, t) \subseteq TaskJobs
           /\ CancelJobs(d, t) \subseteq TaskJobs
<1> DEFINE i == d.task[t].active
<1>1. i \in Runs \cup {NoRun}
  BY DEF Database, TaskRows
<1>2. CASE i \in Runs
  <2>1. CleanupJobs(d, t) \subseteq {CleanupJob(t, i), AbortJob(i)}
    BY <1>2 DEF CleanupJobs, ScheduleJobs
  <2>2. {CleanupJob(t, i), AbortJob(i)} \subseteq TaskJobs
    BY <1>2 DEF TaskJobs, Jobs, CleanupJob, AbortJob
  <2> QED
    BY <2>1, <2>2 DEF CancelJobs, TaskJobs, Jobs, AbortJob
<1>3. CASE i = NoRun
  BY <1>3 DEF CleanupJobs, CleanupDetaches, CancelJobs, TaskJobs, Jobs,
              AbortJob
<1> QED
  BY <1>1, <1>2, <1>3

LEMMA NewTimers ==
    ASSUME NEW d, NEW t \in Tasks \cup {NoTask}, NEW i \in Runs
    PROVE  ScheduleJobs(d, t, i) \subseteq TaskJobs
BY DEF ScheduleJobs, CleanupJob, TaskJobs, Jobs

---------------------------------------------------------------------------
(* Steps that are not a handler's.                                          *)

LEMMA TaskIsRight ==
    ASSUME Bearing, NEW t \in Tasks, TaskStep(t)
    PROVE  Right
<1>1. db \in Database /\ jobs \subseteq TaskJobs
  BY DEF Bearing, TypeOK
<1>2. ASSUME NEW s \in Statuses, Edit(t, s)
      PROVE  Right
  <2> DEFINE m == SetStatus(db, t, s)
  <2>1. Tame(db, m) /\ m \in Database
    BY <1>1, StatusTame DEF Tame, Keeps
  <2>2. db' = Cleanup(m, t) /\ jobs' = jobs \cup CleanupJobs(m, t)
    BY <1>2 DEF Edit
  <2> HIDE DEF m
  <2>3. Tame(db, db') /\ jobs' \subseteq TaskJobs
    BY <1>1, <2>1, <2>2, CleanupTame, TameTrans, NewJobs
  <2> QED
    BY <1>2, <2>3, QuietBears DEF Edit
<1>3. CASE Pause(t) \/ Unpause(t) \/ BackoffElapses(t)
  BY <1>1, <1>3, FlagsTame, QuietBears DEF Pause, Unpause, BackoffElapses
<1>4. CASE CancelTask(t)
  BY <1>1, <1>4, CancelTame, NewJobs, QuietBears DEF CancelTask
<1>5. CASE ClearDeadLink(t)
  BY <1>1, <1>5, DetachTame, QuietBears DEF ClearDeadLink
<1>6. CASE Sweep(t)
  BY <1>1, <1>6, CleanupTame, NewJobs, QuietBears DEF Sweep
<1> QED
  BY <1>2, <1>3, <1>4, <1>5, <1>6 DEF TaskStep

LEMMA RunIsRight ==
    ASSUME Bearing, NEW i \in Runs, RunStep(i)
    PROVE  Right
<1>1. db \in Database /\ jobs \subseteq TaskJobs /\ db.run[i] \in RunRows
  BY DEF Bearing, TypeOK, Database
<1>2. CASE CheckIn(i)
  BY <1>1, <1>2, MarkRunningTame, QuietBears DEF CheckIn
<1>3. CASE Expire(i)
  <2>1. Tame(db, db')
    BY <1>1, <1>3, CloseRunTame
       DEF Expire, RunStates, Live, LiveStates, Present
  <2>2. db.run[i].task # NoTask => UnlinkJob(db.run[i].task, i) \in TaskJobs
    BY <1>1 DEF UnlinkJob, TaskJobs, Jobs, RunRows
  <2> QED
    BY <1>1, <1>3, <2>1, <2>2, QuietBears DEF Expire
<1>4. CASE GraceElapses(i)
  <2> DEFINE r == [db.run[i] EXCEPT !.aged = TRUE]
  <2>1. /\ r \in RunRows /\ r.st = db.run[i].st
        /\ r.ended = db.run[i].ended /\ r.outcome = db.run[i].outcome
        /\ r.task = db.run[i].task
    BY <1>1 DEF RunRows
  <2>2. db' = [db EXCEPT !.run[i] = r]
    BY <1>4 DEF GraceElapses
  <2> HIDE DEF r
  <2>3. Tame(db, db')
    BY <1>1, <2>1, <2>2, RunRowTame DEF Undone, Live, Anchored, Present, Cut
  <2> QED
    BY <1>1, <1>4, <2>3, QuietBears DEF GraceElapses
<1>5. ASSUME NEW t \in Tasks, NEW to \in Statuses, PostOutcome(i, t, to)
      PROVE  Right
  <2>0. Present(db, i)
    BY <1>5 DEF PostOutcome, Bearing
  <2>1. Tame(db, db')
    BY <1>1, <1>5, <2>0, OutcomeTame DEF PostOutcome, Final
  <2>2. PostTx(db, t, i, to, "done") \in Database
    BY <1>1, <2>0, PostTame DEF Final, Tame, Keeps
  <2>3. jobs' \subseteq TaskJobs
    BY <1>1, <1>5, <2>2, NewJobs DEF PostOutcome, OutcomeJobs
  <2> QED
    BY <1>5, <2>1, <2>3, QuietBears DEF PostOutcome
<1> QED
  BY <1>2, <1>3, <1>4, <1>5 DEF RunStep

LEMMA JobIsRight ==
    ASSUME Bearing, NEW j \in jobs, JobStep(j)
    PROVE  Right
<1>1. /\ db \in Database /\ jobs \subseteq TaskJobs
      /\ j.run \in Runs /\ (j.job # "abort" => j.task \in Tasks)
  BY DEF Bearing, TypeOK, TaskJobs, Jobs
<1>2. CASE FireCleanup(j)
  <2>1. j.task \in Tasks
    BY <1>1, <1>2 DEF FireCleanup
  <2> QED
    BY <1>1, <1>2, <2>1, CleanupTame, TameRefl, NewJobs, QuietBears
       DEF FireCleanup
<1>3. CASE FireUnlink(j)
  BY <1>1, <1>3, DetachTame, QuietBears DEF FireUnlink
<1>4. ASSUME NEW confirmed \in BOOLEAN, FireAbort(j, confirmed)
      PROVE  Right
  <2> DEFINE i == j.run
             f == IF Live(db, i) THEN SetRun(db, i, "cancelled") ELSE db
             r == [f.run[i] EXCEPT !.ended = TRUE]
  <2>1. Tame(db, f) /\ f \in Database
    BY <1>1, SetRunTame, TameRefl
       DEF Final, Tame, Keeps, Live, LiveStates, Present
  <2>2. f.run[i] \in RunRows /\ ~Live(f, i)
    <3>1. f.run[i] \in RunRows
      BY <1>1, <2>1 DEF Database
    <3>2. Live(db, i) => f.run[i].st = "cancelled"
      BY <1>1 DEF Database, RunRows, SetRun
    <3> QED
      BY <3>1, <3>2 DEF Live, LiveStates
  <2>3. db' = f \/ db' = [f EXCEPT !.run[i] = r]
    BY <1>4 DEF FireAbort
  <2> HIDE DEF f
  <2>4. /\ r \in RunRows /\ r.st = f.run[i].st
        /\ r.outcome = f.run[i].outcome /\ r.task = f.run[i].task
    BY <2>2 DEF RunRows
  <2> HIDE DEF r
  <2>5. Tame(f, [f EXCEPT !.run[i] = r])
    BY <1>1, <2>1, <2>2, <2>4, RunRowTame DEF Live, Present, Cut
  <2>6. Tame(db, db')
    BY <2>1, <2>3, <2>5, TameTrans
  <2> QED
    BY <1>1, <1>4, <2>6, QuietBears DEF FireAbort
<1> QED
  BY <1>2, <1>3, <1>4 DEF JobStep

LEMMA LaunchBears ==
    ASSUME Bearing, NEW i \in Runs, Tame(db, db'), Present(db, i),
           UNCHANGED <<jobs, attempt, call>>, sent' \in {sent, sent \cup {i}},
           NEW l \in Launches, launch' = [launch EXCEPT ![i] = l]
    PROVE  Right
<1>1. Keeps(db, db') /\ Takes /\ Undoes
  BY TameIsRight
<1>2. TypeOK'
  BY <1>1 DEF Bearing, TypeOK, Keeps
<1>3. \A c \in Calls : Carries(call'[c], db')
  BY <1>1, CarriesOn DEF Bearing
<1>4. \A w \in Dispatchers : Holds(attempt'[w], db')
  BY <1>1 DEF Bearing, Holds, Keeps
<1>5. \A k \in Runs : launch'[k].pc # "none" \/ k \in sent' => Present(db', k)
  BY <1>1 DEF Bearing, TypeOK, Keeps
<1> QED
  BY <1>1, <1>2, <1>3, <1>4, <1>5
     DEF Right, Bearing, Keeps

LEMMA LaunchIsRight ==
    ASSUME Bearing, NEW i \in Runs, LaunchStep(i)
    PROVE  Right
<1>0. /\ db \in Database /\ launch[i] \in Launches
      /\ launch[i].prior \in Statuses
      /\ launch \in [Runs -> Launches]
      /\ (launch[i].pc # "none" => Present(db, i))
  BY DEF Bearing, TypeOK, Launches
<1>1. Unlaunched \in Launches
  BY StatusesAssumption DEF Unlaunched, Launches
<1>2. Tame(db, db)
  BY <1>0, TameRefl
<1>3. \A pc \in {"asserted", "raised", "recording"} :
         [launch[i] EXCEPT !.pc = pc] \in Launches
  BY <1>0 DEF Launches
<1>4. CASE LaunchLost(i)
  BY <1>0, <1>1, <1>2, <1>4, LaunchBears DEF LaunchLost
<1>5. ASSUME NEW prepared \in BOOLEAN, CheckOwned(i, prepared)
      PROVE  Right
  <2> DEFINE pc == IF prepared /\ StillOwned(db, i) THEN "asserted"
                                                    ELSE "raised"
  <2>1. launch' = [launch EXCEPT ![i] = [launch[i] EXCEPT !.pc = pc]]
    BY <1>0, <1>5 DEF CheckOwned
  <2>2. [launch[i] EXCEPT !.pc = pc] \in Launches
    BY <1>3
  <2> HIDE DEF pc
  <2> QED
    BY <1>0, <1>2, <1>5, <2>1, <2>2, LaunchBears DEF CheckOwned
<1>6. ASSUME NEW reached \in BOOLEAN, NEW raised \in BOOLEAN,
             Dispatch(i, reached, raised)
      PROVE  Right
  <2> DEFINE l == IF raised THEN [launch[i] EXCEPT !.pc = "raised"]
                            ELSE Unlaunched
  <2>1. launch' = [launch EXCEPT ![i] = l]
    BY <1>0, <1>6 DEF Dispatch
  <2>2. l \in Launches
    BY <1>1, <1>3
  <2> HIDE DEF l
  <2> QED
    BY <1>0, <1>2, <1>6, <2>1, <2>2, LaunchBears DEF Dispatch
<1>7. CASE FailRun(i)
  <2>1. launch' = [launch EXCEPT ![i] = [launch[i] EXCEPT !.pc = "recording"]]
    BY <1>0, <1>7 DEF FailRun
  <2>2. Tame(db, db')
    BY <1>0, <1>2, <1>7, SetRunTame DEF FailRun, Final
  <2> QED
    BY <1>0, <1>3, <1>7, <2>1, <2>2, LaunchBears DEF FailRun
<1>8. CASE RecordStartupFailure(i)
  <2>1. Tame(db, db')
    BY <1>0, <1>2, <1>8, StartupFailureTame DEF RecordStartupFailure
  <2> QED
    BY <1>0, <1>1, <1>8, <2>1, LaunchBears DEF RecordStartupFailure
<1> QED
  BY <1>4, <1>5, <1>6, <1>7, <1>8 DEF LaunchStep

LEMMA AttemptBears ==
    ASSUME Bearing, NEW w \in Dispatchers, Keeps(db, db'), Takes, Undoes,
           UNCHANGED <<jobs, sent, call>>,
           launch' \in [Runs -> Launches],
           \A i \in Runs : launch'[i].pc # "none" =>
                              launch[i].pc # "none" \/ Present(db, i),
           NEW p \in Attempts, attempt' = [attempt EXCEPT ![w] = p],
           Holds(p, db')
    PROVE  Right
<1>1. TypeOK'
  BY DEF Bearing, TypeOK, Keeps
<1>2. \A c \in Calls : Carries(call'[c], db')
  BY CarriesOn DEF Bearing
<1>3. \A v \in Dispatchers : Holds(attempt'[v], db')
  <2>1. attempt'[w] = p /\ \A v \in Dispatchers \ {w} : attempt'[v] = attempt[v]
    BY DEF Bearing, TypeOK
  <2>2. \A v \in Dispatchers : Holds(attempt[v], db')
    BY DEF Bearing, Holds, Keeps
  <2> QED
    BY <2>1, <2>2
<1>4. \A i \in Runs : launch'[i].pc # "none" \/ i \in sent' => Present(db', i)
  BY DEF Bearing, Keeps
<1> QED
  BY <1>1, <1>2, <1>3, <1>4 DEF Right, Bearing, Keeps

LEMMA DispatcherIsRight ==
    ASSUME Bearing, NEW w \in Dispatchers, DispatcherStep(w)
    PROVE  Right
<1> DEFINE p == attempt[w]
<1>0. /\ db \in Database /\ p \in Attempts /\ Holds(p, db)
      /\ attempt \in [Dispatchers -> Attempts]
      /\ launch \in [Runs -> Launches]
      /\ p.seen \in Statuses
  BY DEF Bearing, TypeOK, Attempts
<1>1. Tame(db, db) /\ Keeps(db, db)
  BY <1>0, TameRefl DEF Tame
<1>2. ASSUME Tame(db, db'), UNCHANGED <<jobs, launch, sent, call>>,
             NEW q \in Attempts, attempt' = [attempt EXCEPT ![w] = q],
             Holds(q, db)
      PROVE  Right
  <2>1. Keeps(db, db') /\ Takes /\ Undoes
    BY <1>2, TameIsRight
  <2>2. Holds(q, db')
    BY <1>2, <2>1 DEF Holds, Keeps
  <2> QED
    BY <1>0, <1>2, <2>1, <2>2, AttemptBears
<1>3. /\ Resting \in Attempts /\ Holds(Resting, db)
      /\ Resting.pc = "idle"
  BY StatusesAssumption DEF Resting, Attempts, Holds
<1>4. ASSUME NEW pc \in {"checked", "marked", "unwind"},
             p.pc \notin {"idle", "listed"}
      PROVE  [p EXCEPT !.pc = pc] \in Attempts /\ Holds([p EXCEPT !.pc = pc], db)
  BY <1>0, <1>4 DEF Attempts, Holds
<1>5. ASSUME NEW t \in Tasks, NEW a \in Agents, List(w, t, a)
      PROVE  Right
  <2> DEFINE q == [pc |-> "listed", task |-> t, agent |-> a,
                   seen |-> db.task[t].status, run |-> NoRun]
  <2>1. q \in Attempts /\ Holds(q, db)
    BY <1>0 DEF Attempts, Holds, Database, TaskRows
  <2>2. attempt' = [attempt EXCEPT ![w] = q] /\ UNCHANGED <<db, jobs, launch, sent, call>>
    BY <1>5 DEF List
  <2> HIDE DEF q
  <2> QED
    BY <1>1, <1>2, <2>1, <2>2
<1>6. ASSUME NEW i \in Runs, Claim(w, i)
      PROVE  Right
  <2> DEFINE q == [p EXCEPT !.pc = "claimed", !.run = i]
             r == Queued(p.task, p.agent)
             s == [db.task[p.task] EXCEPT !.active = i, !.cooling = TRUE]
  <2>1. /\ p.pc = "listed" /\ p.task \in Tasks
        /\ p.agent \in Agents \cup {NoAgent}
        /\ db.task[p.task].active = NoRun /\ ~Present(db, i)
    BY <1>0, <1>6
       DEF Claim, Claimable, Dispatchable, NextRun, Holds, Attempts
  <2>2. /\ r \in RunRows /\ r.st = "queued" /\ ~r.ended /\ ~r.outcome
        /\ r.task = p.task /\ s \in TaskRows
    <3>1. /\ r \in RunRows /\ r.st = "queued" /\ ~r.ended /\ ~r.outcome
          /\ r.task = p.task
      BY <2>1 DEF Queued, RunRows, RunStates, LiveStates
    <3>2. db.task[p.task] \in TaskRows
      BY <1>0, <2>1 DEF Database
    <3>3. s \in TaskRows
      BY <3>2 DEF TaskRows
    <3> QED
      BY <3>1, <3>3
  <2>3. db' = [db EXCEPT !.run[i] = r, !.task[p.task] = s]
    BY <1>6 DEF Claim, ClaimTx
  <2>4. UNCHANGED <<jobs, launch, sent, call>>
    BY <1>6 DEF Claim
  <2>5. attempt' = [attempt EXCEPT ![w] = q]
    BY <1>0, <1>6 DEF Claim
  <2>6. q \in Attempts /\ q.run = i /\ q.task = p.task /\ q.pc = "claimed"
    BY <1>0 DEF Attempts
  <2> HIDE DEF q, r, s
  <2>7. /\ db' \in Database
        /\ db'.run[i] = r /\ \A j \in Runs \ {i} : db'.run[j] = db.run[j]
        /\ \A t \in Tasks \ {p.task} : db'.task[t] = db.task[t]
    BY <1>0, <2>1, <2>2, <2>3 DEF Database
  <2>8. Keeps(db, db') /\ Takes /\ Undoes
    BY <2>1, <2>2, <2>7, NullsAssumption
       DEF Keeps, Cut, Takes, Undoes, Present, Anchored, Live
  <2>9. Holds(q, db')
    BY <2>1, <2>2, <2>6, <2>7 DEF Holds, Present
  <2> QED
    BY <1>0, <2>4, <2>5, <2>6, <2>8, <2>9, AttemptBears
<1>7. CASE ClaimRefused(w)
  BY <1>1, <1>2, <1>3, <1>7 DEF ClaimRefused
<1>8. CASE PrepFail(w)
  <2>1. p.pc = "claimed" /\ p.task \in Tasks /\ p.run \in Runs
    BY <1>0, <1>8 DEF PrepFail, Holds
  <2>2. Tame(db, db')
    BY <1>0, <1>8, <2>1, StartupFailureTame DEF PrepFail
  <2>3. /\ attempt' = [attempt EXCEPT ![w] = [p EXCEPT !.pc = "unwind"]]
        /\ UNCHANGED <<jobs, launch, sent, call>>
    BY <1>0, <1>8 DEF PrepFail
  <2> QED
    BY <1>2, <1>4, <2>1, <2>2, <2>3
<1>9. CASE Recheck(w)
  <2> DEFINE t == db.task[p.task]
             same == t.active = p.run /\ ~t.paused /\ t.status = p.seen
             pc == IF same THEN "checked" ELSE "unwind"
  <2>1. /\ p.pc = "claimed" /\ UNCHANGED <<db, jobs, launch, sent, call>>
        /\ attempt' = [attempt EXCEPT ![w] = [p EXCEPT !.pc = pc]]
    BY <1>0, <1>9 DEF Recheck
  <2>2. pc \in {"checked", "unwind"}
    OBVIOUS
  <2> HIDE DEF pc
  <2> QED
    BY <1>1, <1>2, <1>4, <2>1, <2>2
<1>10. CASE MarkDispatched(w)
  <2> DEFINE owned == /\ db.run[p.run].st = "queued"
                      /\ db.task[p.task].active = p.run
             pc == IF owned THEN "marked" ELSE "unwind"
  <2>1. /\ p.pc = "checked" /\ UNCHANGED <<jobs, launch, sent, call>>
        /\ attempt' = [attempt EXCEPT ![w] = [p EXCEPT !.pc = pc]]
        /\ db' = IF owned THEN SetRun(db, p.run, "dispatched") ELSE db
    BY <1>0, <1>10 DEF MarkDispatched
  <2>2. pc \in {"marked", "unwind"} /\ p.run \in Runs
    BY <1>0, <2>1 DEF Holds
  <2>3. Tame(db, db')
    <3> DEFINE r == [db.run[p.run] EXCEPT !.st = "dispatched"]
    <3>1. db.run[p.run] \in RunRows
      BY <1>0, <2>2 DEF Database
    <3>2. /\ r \in RunRows /\ r.st = "dispatched"
          /\ r.ended = db.run[p.run].ended
          /\ r.outcome = db.run[p.run].outcome
          /\ r.task = db.run[p.run].task
      BY <3>1 DEF RunRows, RunStates, LiveStates
    <3> HIDE DEF r
    <3>3. CASE owned
      <4>1. Live(db, p.run)
        BY <3>3 DEF Live, LiveStates
      <4>2. Tame(db, [db EXCEPT !.run[p.run] = r])
        BY <1>0, <2>2, <3>2, <4>1, RunRowTame
             DEF Undone, Anchored, Cut, Live, LiveStates, Present
      <4> QED
        BY <2>1, <3>3, <4>2 DEF SetRun, r
    <3> QED
      BY <1>1, <2>1, <3>3
  <2> HIDE DEF pc
  <2> QED
    BY <1>2, <1>4, <2>1, <2>2, <2>3
<1>11. CASE Launch(w)
  <2> DEFINE l == [pc |-> "starting", prior |-> p.seen]
  <2>1. /\ p.pc = "marked" /\ UNCHANGED <<db, jobs, sent, call>>
        /\ launch' = [launch EXCEPT ![p.run] = l]
        /\ attempt' = [attempt EXCEPT ![w] = Resting]
    BY <1>11 DEF Launch
  <2>2. l \in Launches /\ p.run \in Runs /\ Present(db, p.run)
    BY <1>0, <2>1 DEF Launches, Holds
  <2> HIDE DEF l
  <2>3. /\ launch' \in [Runs -> Launches]
        /\ \A i \in Runs : launch'[i].pc # "none" =>
                               launch[i].pc # "none" \/ Present(db, i)
    BY <1>0, <2>1, <2>2
  <2>4. Keeps(db, db') /\ Takes /\ Undoes /\ Holds(Resting, db')
    BY <1>1, <1>3, <2>1, TameIsRight
  <2> QED
    BY <1>3, <2>1, <2>3, <2>4, AttemptBears
<1>12. CASE PromptFail(w)
  <2>1. /\ attempt' = [attempt EXCEPT ![w] = [p EXCEPT !.pc = "unwind"]]
        /\ p.pc = "marked" /\ UNCHANGED <<db, jobs, launch, sent, call>>
    BY <1>0, <1>12 DEF PromptFail
  <2> QED
    BY <1>1, <1>2, <1>4, <2>1
<1>13. CASE Unwind(w)
  <2>1. p.pc = "unwind" /\ p.task \in Tasks /\ p.run \in Runs
    BY <1>0, <1>13 DEF Unwind, Holds
  <2>2. Tame(db, db')
    BY <1>0, <1>13, <2>1, UnwindTame DEF Unwind
  <2> QED
    BY <1>2, <1>3, <1>13, <2>2 DEF Unwind
<1> QED
  BY <1>5, <1>6, <1>7, <1>8, <1>9, <1>10, <1>11, <1>12, <1>13
     DEF DispatcherStep

---------------------------------------------------------------------------
(* Handlers.                                                                *)

LEMMA CallIsTame ==
    ASSUME Bearing, NEW c \in Calls, Tame(db, db'),
           UNCHANGED <<attempt, launch, sent>>, jobs' \subseteq TaskJobs,
           NEW q \in CallStates, Carries(q, db'),
           call' = [call EXCEPT ![c] = q]
    PROVE  Right
BY TameIsRight, CallBears DEF Right

LEMMA NoCallCarries == NoCall \in CallStates /\ \A d : Carries(NoCall, d)
BY DEF NoCall, CallStates, Carries, Stage

LEMMA ReturnIsRight ==
    ASSUME Bearing, NEW c \in Calls, Tame(db, db'), Return(c),
           UNCHANGED <<attempt, launch, sent>>, jobs' \subseteq TaskJobs
    PROVE  Right
BY CallIsTame, NoCallCarries DEF Return

LEMMA BeginsRight ==
    ASSUME Bearing, NEW c \in Calls,
           \/ \E i \in Runs : \E op \in {"start", "complete", "completion"} :
                 Authorise(c, i, op)
           \/ \E i \in Runs, behavior \in StopBehaviors : Stop(c, i, behavior)
           \/ \E i \in Runs, success \in BOOLEAN : RuntimeEnd(c, i, success)
           \/ \E t \in Tasks : ReconcileMissing(c, t)
           \/ \E i \in Runs : Heartbeat(c, i)
    PROVE  Right
<1>0. /\ db \in Database /\ jobs \subseteq TaskJobs
      /\ Tame(db, db) /\ \A i \in sent : i \in Runs /\ Present(db, i)
  BY TameRefl DEF Bearing, TypeOK
<1>1. ASSUME NEW i \in Runs, NEW op \in {"start", "complete", "completion"},
             Authorise(c, i, op)
      PROVE  Right
  <2> DEFINE q == IF op = "complete" THEN [NoCall EXCEPT !.pc = op, !.run = i]
                  ELSE [NoCall EXCEPT !.pc = "check", !.run = i, !.next = op]
  <2>1. /\ q \in CallStates /\ q.run = i /\ q.owe = "none"
        /\ q.pc = IF op = "complete" THEN op ELSE "check"
        /\ q.next = IF op = "complete" THEN "none" ELSE op
    BY DEF NoCall, CallStates
  <2>2. /\ UNCHANGED <<db, jobs, attempt, launch, sent>>
        /\ call' = [call EXCEPT ![c] = q] /\ i \in sent
    BY <1>1 DEF Authorise
  <2> HIDE DEF q
  <2>3. Carries(q, db)
    BY <1>0, <2>1, <2>2 DEF Carries, Stage, Owed
  <2> QED
    BY <1>0, <2>1, <2>2, <2>3, CallIsTame
<1>2. ASSUME NEW i \in Runs, NEW behavior \in StopBehaviors,
             Stop(c, i, behavior)
      PROVE  Right
  <2> DEFINE q == [NoCall EXCEPT !.pc = "revoke", !.run = i,
                                 !.seen = behavior]
  <2>1. /\ q \in CallStates /\ q.pc = "revoke" /\ q.run = i
        /\ q.seen = behavior /\ q.next = "none"
        /\ UNCHANGED <<db, jobs, attempt, launch, sent>>
        /\ call' = [call EXCEPT ![c] = q]
    BY <1>2 DEF Stop, NoCall, CallStates
  <2> HIDE DEF q
  <2>2. Carries(q, db)
    BY <1>2, <2>1 DEF Stop, Carries, Stage
  <2> QED
    BY <1>0, <2>1, <2>2, CallIsTame
<1>3. ASSUME NEW i \in Runs, NEW success \in BOOLEAN,
             RuntimeEnd(c, i, success)
      PROVE  Right
  <2> DEFINE r == db.run[i]
             requires == r.task # NoTask /\ db.task[r.task].status \in NeedsOutcome
             seen == IF r.st \in LiveStates /\ ~r.outcome
                     THEN IF success /\ ~requires THEN "done" ELSE "failed"
                     ELSE r.st
             owe == IF r.outcome \/ (success /\ ~requires) THEN "none"
                    ELSE IF success THEN "handoff" ELSE "authority"
             q == [NoCall EXCEPT !.pc = "claim", !.run = i, !.task = r.task,
                                 !.seen = seen, !.owe = owe]
  <2>1. /\ UNCHANGED <<db, jobs, attempt, launch, sent>> /\ i \in sent
        /\ call' = [call EXCEPT ![c] = q]
    BY <1>3 DEF RuntimeEnd
  <2>2. r \in RunRows /\ Present(db, i) /\ owe \in Owed
    BY <1>0, <2>1 DEF Database, Owed
  <2>3. /\ seen \in RunStates \ {"absent"}
        /\ seen \in LiveStates => db.run[i].outcome
    BY <2>2 DEF RunRows, RunStates, LiveStates, Present
  <2> HIDE DEF seen, owe
  <2>4. /\ q \in CallStates /\ q.pc = "claim" /\ q.run = i
        /\ q.seen = seen /\ q.owe = owe /\ q.next = "none"
    BY <2>2, <2>3 DEF NoCall, CallStates, RunRows, Owed
  <2> HIDE DEF q
  <2>5. Carries(q, db)
    BY <2>2, <2>3, <2>4 DEF Carries, Stage
  <2> QED
    BY <1>0, <2>1, <2>4, <2>5, CallIsTame
<1>4. ASSUME NEW t \in Tasks, ReconcileMissing(c, t)
      PROVE  Right
  <2> DEFINE i == db.task[t].active
             q == [NoCall EXCEPT !.pc = "handoff", !.run = i, !.task = t]
  <2>1. i \in Runs
    BY <1>0, <1>4 DEF ReconcileMissing, Database, TaskRows
  <2>2. /\ q \in CallStates /\ q.pc = "handoff" /\ q.run = i /\ q.task = t
        /\ q.next = "none"
        /\ UNCHANGED <<db, jobs, attempt, launch, sent>>
        /\ call' = [call EXCEPT ![c] = q]
        /\ db.run[i].ended
    BY <1>4, <2>1 DEF ReconcileMissing, NoCall, CallStates
  <2> HIDE DEF q
  <2>3. Carries(q, db)
    BY <2>1, <2>2 DEF Carries, Stage
  <2> QED
    BY <1>0, <2>2, <2>3, CallIsTame
<1>5. ASSUME NEW i \in Runs, Heartbeat(c, i)
      PROVE  Right
  <2> DEFINE q == [NoCall EXCEPT !.pc = "lookup", !.run = i, !.next = "note"]
  <2>1. /\ q \in CallStates /\ q.pc = "lookup" /\ q.run = i
        /\ q.next = "note"
    BY DEF NoCall, CallStates
  <2>2. Present(db, i) /\ "stop" \in Moves
    BY <1>0, <1>5 DEF Heartbeat, Bearing, Cut
  <2>3. /\ UNCHANGED <<db, jobs, attempt, launch, sent>>
        /\ call' = [call EXCEPT ![c] = q]
    BY <1>5 DEF Heartbeat
  <2> HIDE DEF q
  <2>4. Carries(q, db)
    BY <2>1, <2>2 DEF Carries, Stage
  <2> QED
    BY <1>0, <2>1, <2>3, <2>4, CallIsTame
<1> QED
  BY <1>1, <1>2, <1>3, <1>4, <1>5

(* The beginning of a check-in: it goes on where it was bound for, or ties  *)
(* the run to the task it found.                                            *)
LEMMA ProceedBears ==
    ASSUME Bearing, NEW c \in Calls, Keeps(db, db'), Proceed(c),
           call[c].pc \in {"check", "lookup", "link"},
           UNCHANGED <<jobs, attempt, launch, sent>>
    PROVE  Bearing' /\ call'[c].pc # "link"
<1> DEFINE p == call[c]
           q == [p EXCEPT !.pc = p.next, !.next = "none", !.tie = NoTask]
<1>0. /\ p \in CallStates /\ Carries(p, db) /\ jobs \subseteq TaskJobs
      /\ call \in [Calls -> CallStates]
  BY DEF Bearing, TypeOK
<1>1. p.next \in {"start", "completion", "rewrite", "note"}
  BY <1>0 DEF CallStates, Carries
<1>2. /\ q \in CallStates /\ q.pc = p.next /\ q.next = "none"
      /\ q.run = p.run /\ q.seen = p.seen /\ q.owe = p.owe
  <2>1. p \in CallStates
    BY <1>0
  <2> HIDE DEF p
  <2>2. /\ q.pc = p.next /\ q.next = "none" /\ q.run = p.run
        /\ q.seen = p.seen /\ q.owe = p.owe
    BY <2>1 DEF CallStates
  <2>3. p.next \in {"start", "completion", "rewrite", "note"} =>
           q \in CallStates
    BY <2>1 DEF CallStates
  <2> QED
    BY <1>1, <2>2, <2>3
<1>4. call' = [call EXCEPT ![c] = q]
  BY <1>0 DEF Proceed
<1> HIDE DEF q
<1>3. Stage(q) = p.next /\ Stage(p) = p.next
  <2>1. Stage(q) = q.pc
    BY <1>1, <1>2 DEF Stage
  <2>2. Stage(p) = p.next
    BY DEF Stage
  <2> QED
    BY <1>2, <2>1, <2>2
<1>5. Carries(q, db)
  BY <1>0, <1>1, <1>2, <1>3 DEF Carries
<1>6. Carries(q, db')
  BY <1>5, CarriesOn
<1>7. call'[c] = q
  BY <1>0, <1>4
<1> QED
  BY <1>0, <1>1, <1>2, <1>4, <1>6, <1>7, CallBears

LEMMA CheckInsRight ==
    ASSUME Bearing, NEW c \in Calls,
           \/ ResolveTask(c) \/ LookUpLink(c) \/ AttachRun(c) \/ AttachTask(c)
           \/ Note(c)
    PROVE  Right
<1> DEFINE p == call[c]
<1>0. /\ db \in Database /\ jobs \subseteq TaskJobs /\ Tame(db, db)
      /\ p \in CallStates /\ Carries(p, db)
      /\ call \in [Calls -> CallStates]
  BY TameRefl DEF Bearing, TypeOK
<1>a. ASSUME p.pc \in {"check", "lookup"}, Proceed(c),
             UNCHANGED <<db, jobs, attempt, launch, sent>>
      PROVE  Right
  <2>1. Tame(db, db')
    BY <1>0, <1>a
  <2> QED
    BY <1>a, <2>1, TameIsRight, ProceedBears DEF Right
<1>1. CASE ResolveTask(c)
  <2>1. CASE db.run[p.run].task # NoTask
    BY <1>1, <1>a, <2>1 DEF ResolveTask
  <2>2. CASE db.run[p.run].task = NoTask
    <3> DEFINE q == [p EXCEPT !.pc = "lookup"]
    <3>1. /\ p.pc = "check" /\ p.run \in Runs /\ Present(db, p.run)
          /\ p.next # "none"
      BY <1>0, <1>1 DEF ResolveTask, Carries
    <3>2. "stop" \in Moves
      BY <2>2, <3>1 DEF Bearing, Cut
    <3>3. /\ call' = [call EXCEPT ![c] = q]
          /\ UNCHANGED <<db, jobs, attempt, launch, sent>>
      BY <1>0, <1>1, <2>2 DEF ResolveTask, Goto
    <3>4. /\ q \in CallStates /\ q.pc = "lookup" /\ q.run = p.run
          /\ q.next = p.next /\ q.seen = p.seen /\ q.owe = p.owe
      BY <1>0 DEF CallStates
    <3> HIDE DEF q
    <3>5. Stage(q) = Stage(p)
      BY <3>1, <3>4 DEF Stage
    <3>6. Carries(q, db)
      BY <1>0, <3>1, <3>2, <3>4, <3>5 DEF Carries
    <3> QED
      BY <1>0, <3>3, <3>4, <3>6, CallIsTame
  <2> QED
    BY <2>1, <2>2
<1>2. CASE LookUpLink(c)
  <2>1. CASE Proceed(c)
    BY <1>2, <1>a, <2>1 DEF LookUpLink
  <2>2. CASE ~Proceed(c)
    <3>1. PICK t \in Tasks :
             call' = [call EXCEPT ![c] = [p EXCEPT !.pc = "tie", !.tie = t]]
      BY <1>0, <1>2, <2>2 DEF LookUpLink, Linking
    <3> DEFINE q == [p EXCEPT !.pc = "tie", !.tie = t]
    <3>2. /\ p.pc = "lookup" /\ p.run \in Runs /\ Present(db, p.run)
          /\ p.next # "none" /\ "stop" \in Moves
          /\ UNCHANGED <<db, jobs, attempt, launch, sent>>
      BY <1>0, <1>2 DEF LookUpLink, Carries
    <3>3. /\ q \in CallStates /\ q.pc = "tie" /\ q.run = p.run
          /\ q.next = p.next /\ q.seen = p.seen /\ q.owe = p.owe
          /\ q.tie = t
      BY <1>0 DEF CallStates
    <3> HIDE DEF q
    <3>4. Stage(q) = Stage(p)
      BY <3>2, <3>3 DEF Stage
    <3>5. Carries(q, db)
      BY <1>0, <3>2, <3>3, <3>4 DEF Carries
    <3> QED
      BY <1>0, <3>1, <3>2, <3>3, <3>5, CallIsTame DEF q
  <2> QED
    BY <2>1, <2>2
<1>3. CASE AttachRun(c)
  <2> DEFINE q == [p EXCEPT !.pc = "link"]
             r == [db.run[p.run] EXCEPT !.task = p.tie]
  <2>1. /\ p.pc = "tie" /\ p.run \in Runs /\ Present(db, p.run)
        /\ p.next # "none" /\ "stop" \in Moves /\ p.tie \in Tasks
        /\ db.run[p.run] \in RunRows
    BY <1>0, <1>3 DEF AttachRun, Carries, Database
  <2>2. /\ r \in RunRows /\ r.st = db.run[p.run].st
        /\ r.ended = db.run[p.run].ended
        /\ r.outcome = db.run[p.run].outcome
    BY <2>1 DEF RunRows
  <2>3. /\ db' = [db EXCEPT !.run[p.run] = r]
        /\ call' = [call EXCEPT ![c] = q]
        /\ UNCHANGED <<jobs, attempt, launch, sent>>
    BY <1>0, <1>3 DEF AttachRun, Goto
  <2> HIDE DEF r
  <2>4. Tame(db, db')
    BY <1>0, <2>1, <2>2, <2>3, RunRowTame
       DEF Undone, Live, Anchored, Present
  <2>5. /\ q \in CallStates /\ q.pc = "link" /\ q.run = p.run
        /\ q.next = p.next /\ q.seen = p.seen /\ q.owe = p.owe
        /\ q.tie = p.tie
    BY <1>0 DEF CallStates
  <2> HIDE DEF q
  <2>6. Stage(q) = Stage(p)
    BY <2>1, <2>5 DEF Stage
  <2>7. Carries(q, db)
    BY <1>0, <2>1, <2>5, <2>6 DEF Carries
  <2>8. Carries(q, db')
    BY <2>4, <2>7, CarriesOn DEF Tame
  <2> QED
    BY <1>0, <2>3, <2>4, <2>5, <2>8, CallIsTame
<1>4. CASE AttachTask(c)
  <2> DEFINE s == [db.task[p.tie] EXCEPT !.active = p.run]
  <2>1. p.pc = "link" /\ p.run \in Runs /\ p.tie \in Tasks
    BY <1>0, <1>4 DEF AttachTask, Carries
  <2>2. s \in TaskRows /\ s.active = p.run
    <3>1. db.task[p.tie] \in TaskRows
      BY <1>0, <2>1 DEF Database
    <3> QED
      BY <2>1, <3>1 DEF TaskRows
  <2>3. db' = [db EXCEPT !.task[p.tie] = s]
    BY <1>4 DEF AttachTask
  <2> HIDE DEF s
  <2>4. /\ db' \in Database /\ db'.run = db.run
        /\ db'.task[p.tie].active = p.run
        /\ \A t \in Tasks \ {p.tie} : db'.task[t] = db.task[t]
    BY <1>0, <2>1, <2>2, <2>3 DEF Database
  <2>5. Keeps(db, db') /\ Undoes
    BY <2>4 DEF Keeps, Cut, Undoes, Present, Live, Anchored
  <2>6. Bearing' /\ call'[c].pc # "link"
    BY <1>4, <2>1, <2>5, ProceedBears DEF AttachTask
  <2>7. Takes
    BY <2>1, <2>4, <2>6 DEF Takes
  <2> QED
    BY <2>5, <2>6, <2>7 DEF Right
<1>5. CASE Note(c)
  <2>1. p.run \in Runs
    BY <1>0, <1>5 DEF Note, Carries
  <2> QED
    BY <1>0, <1>5, <2>1, MarkRunningTame, ReturnIsRight DEF Note
<1> QED
  BY <1>1, <1>2, <1>3, <1>4, <1>5

LEMMA StartsRight ==
    ASSUME Bearing, NEW c \in Calls,
           Start(c) \/ StartEventRead(c) \/ Adopt(c) \/ MoveStarted(c)
    PROVE  Right
<1> DEFINE p == call[c]
<1>0. /\ db \in Database /\ jobs \subseteq TaskJobs /\ Tame(db, db)
      /\ p \in CallStates /\ Carries(p, db)
      /\ call \in [Calls -> CallStates]
  BY TameRefl DEF Bearing, TypeOK
<1>1. CASE Start(c)
  <2> DEFINE q == [p EXCEPT !.pc = "event"]
  <2>1. /\ p.pc = "start" /\ p.run \in Runs /\ Present(db, p.run)
        /\ p.next = "none"
    BY <1>0, <1>1 DEF Start, Carries
  <2>2. Tame(db, db')
    BY <1>0, <1>1, <2>1, MarkRunningTame DEF Start
  <2>3. /\ call' = [call EXCEPT ![c] = q] /\ q \in CallStates
        /\ q.pc = "event" /\ q.run = p.run /\ q.next = p.next
    BY <1>0, <1>1 DEF Start, Goto, CallStates
  <2> HIDE DEF q
  <2>4. Carries(q, db')
    BY <2>1, <2>2, <2>3 DEF Carries, Stage, Tame, Keeps
  <2> QED
    BY <1>0, <1>1, <2>2, <2>3, <2>4, CallIsTame DEF Start
<1>2. CASE StartEventRead(c)
  <2> DEFINE i == p.run
             t == db.run[i].task
             to == StartEvent[db.task[t].status]
             after == IF to = db.task[t].status THEN "none" ELSE "move"
             adopt == [p EXCEPT !.pc = "adopt", !.task = t,
                                !.seen = to, !.owe = after]
             move == [p EXCEPT !.pc = "move", !.task = t, !.seen = to]
  <2>1. /\ p.pc = "event" /\ i \in Runs /\ Present(db, i)
        /\ p.next = "none"
        /\ UNCHANGED <<db, jobs, attempt, launch, sent>>
    BY <1>0, <1>2 DEF StartEventRead, Carries
  <2>2. db.run[i] \in RunRows /\ t \in Tasks \cup {NoTask}
    BY <1>0, <2>1 DEF Database, RunRows
  <2>3. CASE t = NoTask \/ Return(c)
    BY <1>0, <1>2, <2>1, <2>3, ReturnIsRight DEF StartEventRead, Return
  <2>4. CASE t # NoTask /\ ~Return(c)
    <3>1. t \in Tasks /\ db.task[t] \in TaskRows
      BY <1>0, <2>2, <2>4 DEF Database
    <3>2. to \in Statuses
      BY <3>1, WorkflowAssumption DEF TaskRows
    <3>3. \/ call' = [call EXCEPT ![c] = adopt]
          \/ call' = [call EXCEPT ![c] = move]
      BY <1>2, <2>4 DEF StartEventRead, Return
    <3>4. after \in {"none", "move"}
      OBVIOUS
    <3> HIDE DEF after, to
    <3>5. /\ adopt \in CallStates /\ adopt.pc = "adopt" /\ adopt.run = i
          /\ adopt.task = t /\ adopt.seen = to
          /\ adopt.next = p.next
      BY <1>0, <3>1, <3>2, <3>4 DEF CallStates
    <3>6. /\ move \in CallStates /\ move.pc = "move" /\ move.run = i
          /\ move.task = t /\ move.seen = to
          /\ move.next = p.next
      BY <1>0, <3>1, <3>2 DEF CallStates
    <3> HIDE DEF adopt, move
    <3>7. Carries(adopt, db) /\ Carries(move, db)
      BY <2>1, <3>1, <3>2, <3>5, <3>6 DEF Carries, Stage
    <3> QED
      BY <1>0, <2>1, <3>3, <3>5, <3>6, <3>7, CallIsTame
  <2> QED
    BY <2>3, <2>4
<1>3. CASE Adopt(c)
  <2> DEFINE free == db.task[p.task].active = NoRun
             q == [p EXCEPT !.pc = "move"]
             s == [db.task[p.task] EXCEPT !.active = p.run]
  <2>1. /\ p.pc = "adopt" /\ p.run \in Runs /\ Present(db, p.run)
        /\ p.task \in Tasks /\ p.seen \in Statuses /\ p.next = "none"
    BY <1>0, <1>3 DEF Adopt, Carries
  <2>2. db' = db \/ (free /\ db' = [db EXCEPT !.task[p.task] = s])
    BY <1>3 DEF Adopt
  <2>3. s \in TaskRows
    <3>1. db.task[p.task] \in TaskRows
      BY <1>0, <2>1 DEF Database
    <3> QED
      BY <2>1, <3>1 DEF TaskRows
  <2> HIDE DEF s
  <2>4. /\ db' \in Database /\ db'.run = db.run
        /\ \A t \in Tasks : db.task[t].active # NoRun =>
              db'.task[t] = db.task[t]
    BY <1>0, <2>1, <2>2, <2>3 DEF Database
  <2>5. Keeps(db, db') /\ Takes /\ Undoes
    BY <2>4 DEF Keeps, Cut, Takes, Undoes, Present, Live, Anchored
  <2>6. call' = [call EXCEPT ![c] = q] \/ call' = [call EXCEPT ![c] = NoCall]
    BY <1>0, <1>3 DEF Adopt, Goto, Return, CallStates
  <2>7. /\ q \in CallStates /\ q.pc = "move" /\ q.run = p.run
        /\ q.task = p.task /\ q.seen = p.seen /\ q.next = p.next
    BY <1>0 DEF CallStates
  <2> HIDE DEF q
  <2>8. Carries(q, db')
    BY <2>1, <2>4, <2>7 DEF Carries, Stage, Present
  <2>9. UNCHANGED <<jobs, attempt, launch, sent>>
    BY <1>3 DEF Adopt
  <2>10. Bearing'
    BY <1>0, <2>5, <2>6, <2>7, <2>8, <2>9, NoCallCarries, CallBears
  <2> QED
    BY <2>5, <2>10 DEF Right
<1>4. CASE MoveStarted(c)
  <2>1. p.task \in Tasks /\ p.seen \in Statuses
    BY <1>0, <1>4 DEF MoveStarted, Carries
  <2> QED
    BY <1>0, <1>4, <2>1, StatusTame, ReturnIsRight DEF MoveStarted
<1> QED
  BY <1>1, <1>2, <1>3, <1>4

LEMMA ClosesRight ==
    ASSUME Bearing, NEW c \in Calls,
           \/ \E label \in {"done", "failed"} : CompleteRead(c, label)
           \/ Close(c) \/ CompletionRead(c) \/ ClaimEnd(c)
    PROVE  Right
<1> DEFINE p == call[c]
<1>0. /\ db \in Database /\ jobs \subseteq TaskJobs /\ Tame(db, db)
      /\ p \in CallStates /\ Carries(p, db)
      /\ call \in [Calls -> CallStates]
  BY TameRefl DEF Bearing, TypeOK
<1>1. ASSUME NEW label \in {"done", "failed"}, CompleteRead(c, label)
      PROVE  Right
  <2> DEFINE r == db.run[p.run]
             missing == /\ label = "done"
                        /\ r.task # NoTask
                        /\ db.task[r.task].status \in NeedsOutcome
                        /\ ~r.outcome
             owe == IF missing THEN "handoff"
                    ELSE IF label = "failed" /\ r.task # NoTask
                         THEN "authority" ELSE "none"
             q == [NoCall EXCEPT !.pc = "close", !.run = p.run,
                                 !.task = r.task, !.seen = label, !.owe = owe]
  <2>1. /\ p.run \in Runs /\ Present(db, p.run)
        /\ UNCHANGED <<db, jobs, attempt, launch, sent>>
    BY <1>0, <1>1 DEF CompleteRead, Carries
  <2>2. call' = [call EXCEPT ![c] = q]
    BY <1>1 DEF CompleteRead
  <2>3. r \in RunRows /\ owe \in Owed
    BY <1>0, <2>1 DEF Database, Owed
  <2> HIDE DEF owe
  <2>4. /\ q \in CallStates /\ q.pc = "close" /\ q.run = p.run
        /\ q.seen = label /\ q.owe = owe /\ q.next = "none"
    BY <2>1, <2>3 DEF NoCall, CallStates, RunStates, RunRows, Owed
  <2> HIDE DEF q
  <2>5. Carries(q, db)
    BY <2>1, <2>3, <2>4 DEF Carries, Stage
  <2> QED
    BY <1>0, <2>1, <2>2, <2>4, <2>5, CallIsTame
<1>2. CASE Close(c)
  <2> DEFINE q == [p EXCEPT !.pc = "check", !.next = "rewrite"]
  <2>1. /\ p.pc = "close" /\ p.run \in Runs /\ Present(db, p.run)
        /\ p.seen \in {"done", "failed"} /\ p.owe \in Owed
        /\ p.task \in Tasks \cup {NoTask}
    BY <1>0, <1>2 DEF Close, Carries, Stage, CallStates
  <2>2. Tame(db, db')
    BY <1>0, <1>2, <2>1, CloseRunTame DEF Close, RunStates, LiveStates
  <2>3. /\ call' = [call EXCEPT ![c] = q] /\ q \in CallStates
        /\ q.pc = "check" /\ q.next = "rewrite" /\ q.run = p.run
        /\ q.seen = p.seen /\ q.owe = p.owe
    BY <1>0, <1>2 DEF Close, CallStates
  <2>4. jobs' \subseteq TaskJobs /\ UNCHANGED <<attempt, launch, sent>>
    BY <1>0, <1>2, <2>1, NewTimers DEF Close
  <2> HIDE DEF q
  <2>5. Carries(q, db')
    BY <2>1, <2>2, <2>3 DEF Carries, Stage, Tame, Keeps, RunStates
  <2> QED
    BY <2>2, <2>3, <2>4, <2>5, CallIsTame
<1>3. CASE CompletionRead(c)
  <2> DEFINE s == db'.run[p.run].st
             q == [p EXCEPT !.pc = "rewrite", !.seen = s]
  <2>1. /\ p.pc = "completion" /\ p.run \in Runs /\ Present(db, p.run)
        /\ p.owe \in Owed /\ p.next = "none"
    BY <1>0, <1>3 DEF CompletionRead, Carries, Stage
  <2>2. Tame(db, db') /\ UNCHANGED <<jobs, attempt, launch, sent>>
    BY <1>0, <1>3, <2>1, MarkRunningTame DEF CompletionRead
  <2>3. s \in RunStates \ {"absent"} /\ Present(db', p.run)
    BY <2>1, <2>2 DEF Tame, Keeps, Present, Database, RunRows
  <2>4. call' = [call EXCEPT ![c] = q]
    BY <1>0, <1>3 DEF CompletionRead, CallStates
  <2> HIDE DEF s
  <2>5. /\ q \in CallStates /\ q.pc = "rewrite" /\ q.run = p.run
        /\ q.seen = s /\ q.owe = p.owe /\ q.next = p.next
    BY <1>0, <2>3 DEF CallStates
  <2> HIDE DEF q
  <2>6. Carries(q, db')
    BY <2>1, <2>3, <2>5 DEF Carries, Stage
  <2> QED
    BY <1>0, <2>2, <2>4, <2>5, <2>6, CallIsTame
<1>4. CASE ClaimEnd(c)
  <2>1. /\ p.pc = "claim" /\ p.run \in Runs /\ Present(db, p.run)
        /\ p.seen \in RunStates \ {"absent"} /\ p.owe \in Owed
        /\ p.seen \in LiveStates => db.run[p.run].outcome
        /\ p.task \in Tasks \cup {NoTask}
    BY <1>0, <1>4 DEF ClaimEnd, Carries, Stage, CallStates
  <2>2. CASE Live(db, p.run) /\ ~db.run[p.run].ended
    <3> DEFINE q == [p EXCEPT !.pc = "check", !.task = NoTask,
                              !.next = "completion"]
    <3>1. Tame(db, db')
      BY <1>0, <1>4, <2>1, <2>2, CloseRunTame DEF ClaimEnd, Undone, Anchored
    <3>2. call' = [call EXCEPT ![c] = q]
      BY <1>0, <1>4, <2>2 DEF ClaimEnd, CallStates
    <3>3. /\ q \in CallStates /\ q.pc = "check" /\ q.next = "completion"
          /\ q.run = p.run /\ q.owe = p.owe
      BY <1>0 DEF CallStates
    <3>4. jobs' \subseteq TaskJobs /\ UNCHANGED <<attempt, launch, sent>>
      BY <1>0, <1>4, <2>1, <2>2, NewTimers DEF ClaimEnd
    <3> HIDE DEF q
    <3>5. Carries(q, db')
      BY <2>1, <3>1, <3>3 DEF Carries, Stage, Tame, Keeps
    <3> QED
      BY <3>1, <3>2, <3>3, <3>4, <3>5, CallIsTame
  <2>3. CASE ~(Live(db, p.run) /\ ~db.run[p.run].ended)
    BY <1>0, <1>4, <2>3, ReturnIsRight DEF ClaimEnd
  <2> QED
    BY <2>2, <2>3
<1> QED
  BY <1>1, <1>2, <1>3, <1>4

(* The one statement that may leave a run live beside its end.              *)
LEMMA RewriteIsRight ==
    ASSUME Bearing, NEW c \in Calls, Rewrite(c)
    PROVE  Right
<1> DEFINE p == call[c]
           t == IF p.task = NoTask THEN db.run[p.run].task ELSE p.task
           q == IF p.owe = "none" \/ t = NoTask THEN NoCall
                ELSE [p EXCEPT !.pc = p.owe, !.task = t, !.owe = "none"]
           r == [db.run[p.run] EXCEPT !.st = p.seen, !.ended = TRUE]
<1>1. /\ db \in Database /\ jobs \subseteq TaskJobs
      /\ p \in CallStates /\ Carries(p, db)
      /\ call \in [Calls -> CallStates]
  BY DEF Bearing, TypeOK
<1>2. /\ p.pc = "rewrite" /\ p.run \in Runs /\ Present(db, p.run)
      /\ p.seen \in RunStates \ {"absent"} /\ p.owe \in Owed
      /\ p.next = "none"
      /\ p.task \in Tasks \cup {NoTask}
      /\ UNCHANGED <<jobs, attempt, launch, sent>>
  BY <1>1 DEF Rewrite, Carries, Stage, CallStates
<1>3. db.run[p.run] \in RunRows
  BY <1>1, <1>2 DEF Database
<1>4. /\ r \in RunRows /\ r.st = p.seen /\ r.outcome = db.run[p.run].outcome
      /\ r.task = db.run[p.run].task
  BY <1>2, <1>3 DEF RunRows
<1>5. db' = [db EXCEPT !.run[p.run] = r]
  BY <1>1 DEF Rewrite, CloseRun, Database, RunRows
<1>6. t \in Tasks \cup {NoTask}
  BY <1>2, <1>3 DEF RunRows
<1>7. call' = [call EXCEPT ![c] = q]
  BY DEF Rewrite
<1> HIDE DEF r
<1>8. /\ db' \in Database /\ db'.task = db.task /\ db'.run[p.run] = r
      /\ \A i \in Runs \ {p.run} : db'.run[i] = db.run[i]
  BY <1>1, <1>2, <1>4, <1>5 DEF Database
<1>9. Keeps(db, db')
  BY <1>2, <1>4, <1>8 DEF Keeps, Cut, Present
<1>10. q \in CallStates /\ Carries(q, db') /\ q.pc # "rewrite"
  <2>1. CASE p.owe = "none" \/ t = NoTask
    BY <2>1, NoCallCarries DEF NoCall
  <2>2. CASE ~(p.owe = "none" \/ t = NoTask)
    <3> DEFINE n == [p EXCEPT !.pc = p.owe, !.task = t, !.owe = "none"]
    <3>1. t \in Tasks /\ p.owe \in {"handoff", "authority"} /\ q = n
      BY <1>2, <1>6, <2>2 DEF Owed
    <3> HIDE DEF t
    <3>2. /\ n \in CallStates /\ n.pc = p.owe /\ n.run = p.run
          /\ n.task = t /\ n.next = p.next
      BY <1>1, <3>1 DEF CallStates
    <3> HIDE DEF n, q
    <3>3. Present(db', p.run)
      BY <1>2, <1>9 DEF Keeps
    <3>4. Carries(n, db')
      BY <1>2, <3>1, <3>2, <3>3 DEF Carries, Stage
    <3> QED
      BY <3>1, <3>2, <3>4
  <2> QED
    BY <2>1, <2>2
<1> HIDE DEF q, t
<1>11. Takes /\ Undoes
  <2>1. call'[c] = q
    BY <1>1, <1>7
  <2>2. Takes
    BY <1>8 DEF Takes
  <2>3. ASSUME NEW i \in Runs, Anchored(db', i), Live(db', i), i # p.run
        PROVE  Anchored(db, i) /\ Live(db, i)
    BY <1>8, <2>3 DEF Anchored, Live
  <2>4. /\ p.pc = "rewrite" /\ call'[c].pc # "rewrite"
        /\ p.seen = db'.run[p.run].st
    BY <1>2, <1>4, <1>8, <1>10, <2>1
  <2> QED
    BY <2>2, <2>3, <2>4 DEF Undoes
<1> QED
  BY <1>1, <1>2, <1>7, <1>9, <1>10, <1>11, CallBears DEF Right

LEMMA FollowsRight ==
    ASSUME Bearing, NEW c \in Calls,
           \/ Handoff(c) \/ Flag(c) \/ ReadAuthority(c) \/ CommitFailure(c)
           \/ Revoke(c) \/ \E confirmed \in BOOLEAN : Confirm(c, confirmed)
    PROVE  Right
<1> DEFINE p == call[c]
<1>0. /\ db \in Database /\ jobs \subseteq TaskJobs /\ Tame(db, db)
      /\ p \in CallStates /\ Carries(p, db)
      /\ call \in [Calls -> CallStates]
  BY TameRefl DEF Bearing, TypeOK
<1>1. CASE Handoff(c)
  <2> DEFINE s == MissingEvent[db.task[p.task].status]
             q == [p EXCEPT !.pc = "flag", !.seen = s]
  <2>1. /\ p.pc = "handoff" /\ p.run \in Runs /\ p.task \in Tasks
        /\ p.next = "none"
        /\ UNCHANGED <<db, jobs, attempt, launch, sent>>
    BY <1>0, <1>1 DEF Handoff, Carries
  <2>2. s \in Statuses
    BY <1>0, <2>1, WorkflowAssumption DEF Database, TaskRows
  <2>3. Return(c) \/ call' = [call EXCEPT ![c] = q]
    BY <1>0, <1>1 DEF Handoff, CallStates
  <2> HIDE DEF s
  <2>4. /\ q \in CallStates /\ q.pc = "flag" /\ q.run = p.run
        /\ q.task = p.task /\ q.seen = s /\ q.next = p.next
    BY <1>0, <2>2 DEF CallStates
  <2> HIDE DEF q
  <2>5. Carries(q, db)
    BY <2>1, <2>2, <2>4 DEF Carries, Stage
  <2> QED
    BY <1>0, <2>1, <2>3, <2>4, <2>5, ReturnIsRight, CallIsTame
<1>2. CASE Flag(c)
  <2>1. p.task \in Tasks /\ p.seen \in Statuses
    BY <1>0, <1>2 DEF Flag, Carries
  <2> QED
    BY <1>0, <1>2, <2>1, StatusTame, ReturnIsRight DEF Flag
<1>3. CASE ReadAuthority(c)
  <2> DEFINE s == db.task[p.task].status
  <2>1. /\ p.pc = "authority" /\ p.run \in Runs /\ p.task \in Tasks
        /\ Present(db, p.run) /\ p.next = "none"
        /\ UNCHANGED <<db, jobs, attempt, launch, sent>>
    BY <1>0, <1>3 DEF ReadAuthority, Carries
  <2>2. CASE Return(c)
    BY <1>0, <2>1, <2>2, ReturnIsRight
  <2>3. CASE ~Return(c)
    <3>1. PICK to \in FailureRoutes[s] :
             call' = [call EXCEPT ![c].pc = "commit", ![c].seen = to]
      BY <1>3, <2>3 DEF ReadAuthority
    <3> DEFINE q == [p EXCEPT !.pc = "commit", !.seen = to]
    <3>2. s \in Statuses
      BY <1>0, <2>1 DEF Database, TaskRows
    <3>3. to \in Statuses
      BY <3>1, <3>2, WorkflowAssumption
    <3>4. call' = [call EXCEPT ![c] = q]
      BY <1>0, <3>1 DEF CallStates
    <3>5. /\ q \in CallStates /\ q.pc = "commit" /\ q.run = p.run
          /\ q.task = p.task /\ q.seen = to /\ q.next = p.next
      BY <1>0, <3>3 DEF CallStates
    <3> HIDE DEF q
    <3>6. Carries(q, db)
      BY <2>1, <3>3, <3>5 DEF Carries, Stage
    <3> QED
      BY <1>0, <2>1, <3>4, <3>5, <3>6, CallIsTame
  <2> QED
    BY <2>2, <2>3
<1>4. CASE CommitFailure(c)
  <2>1. /\ p.run \in Runs /\ p.task \in Tasks /\ p.seen \in Statuses
        /\ Present(db, p.run)
    BY <1>0, <1>4 DEF CommitFailure, Carries
  <2>2. PostTx(db, p.task, p.run, p.seen, "failed") \in Database
    BY <1>0, <2>1, PostTame DEF Final, Tame, Keeps
  <2>3. Tame(db, db') /\ jobs' \subseteq TaskJobs
    BY <1>0, <1>4, <2>1, <2>2, OutcomeTame, NewJobs
       DEF CommitFailure, OutcomeJobs, Final
  <2> QED
    BY <1>4, <2>3, ReturnIsRight DEF CommitFailure
<1>5. CASE Revoke(c)
  <2> DEFINE q == [p EXCEPT !.pc = "confirm"]
  <2>1. /\ p.run \in Runs /\ p.seen \in StopBehaviors /\ Present(db, p.run)
        /\ p.pc = "revoke" /\ p.next = "none" /\ "stop" \in Moves
    BY <1>0, <1>5 DEF Revoke, Carries
  <2>2. Tame(db, db') /\ UNCHANGED <<jobs, attempt, launch, sent>>
    BY <1>0, <1>5, <2>1, StopTame DEF Revoke
  <2>3. /\ call' = [call EXCEPT ![c] = q] /\ q \in CallStates
        /\ q.pc = "confirm" /\ q.run = p.run /\ q.next = p.next
    BY <1>0, <1>5 DEF Revoke, Goto, CallStates
  <2> HIDE DEF q
  <2>4. Carries(q, db')
    BY <2>1, <2>2, <2>3 DEF Carries, Stage, Tame, Keeps
  <2> QED
    BY <1>0, <2>2, <2>3, <2>4, CallIsTame
<1>6. ASSUME NEW confirmed \in BOOLEAN, Confirm(c, confirmed)
      PROVE  Right
  <2>1. p.run \in Runs /\ Present(db, p.run)
    BY <1>0, <1>6 DEF Confirm, Carries
  <2>2. Tame(db, db')
    BY <1>0, <1>6, <2>1, SetRunTame, CloseRunTame
       DEF Confirm, Final, RunStates, LiveStates
  <2> QED
    BY <1>0, <1>6, <2>2, ReturnIsRight DEF Confirm
<1> QED
  BY <1>1, <1>2, <1>3, <1>4, <1>5, <1>6

LEMMA CallIsRight ==
    ASSUME Bearing, NEW c \in Calls, CallStep(c)
    PROVE  Right
BY BeginsRight, CheckInsRight, StartsRight, ClosesRight, RewriteIsRight, FollowsRight
   DEF CallStep

LEMMA CrashIsRight ==
    ASSUME Bearing, Crash
    PROVE  Right
<1>1. /\ db' = db /\ jobs' = {} /\ sent' = sent
      /\ attempt' = [w \in Dispatchers |-> Resting]
      /\ launch' = [i \in Runs |-> Unlaunched]
      /\ call' = [c \in Calls |-> NoCall]
  BY DEF Crash
<1>2. Resting \in Attempts /\ Holds(Resting, db)
  BY StatusesAssumption DEF Resting, Attempts, Holds
<1>3. Unlaunched \in Launches /\ Unlaunched.pc = "none"
  BY StatusesAssumption DEF Unlaunched, Launches
<1>4. Takes /\ Undoes
  BY <1>1, TameRefl, TameIsRight DEF Bearing, TypeOK
<1> QED
  BY <1>1, <1>2, <1>3, <1>4, NoCallCarries
     DEF Right, Bearing, TypeOK, Holds, Present, Cut

LEMMA InitBears == Init => Bearing
<1> SUFFICES ASSUME Init PROVE Bearing
  OBVIOUS
<1>1. EmptyDatabase \in Database
  BY InitConsistent DEF Consistent, TypeOK, Init
<1>2. Resting \in Attempts /\ Holds(Resting, db)
  BY StatusesAssumption DEF Resting, Attempts, Holds
<1>3. Unlaunched \in Launches /\ Unlaunched.pc = "none"
  BY StatusesAssumption DEF Unlaunched, Launches
<1>4. \A i \in Runs : ~Present(db, i)
  BY DEF Init, EmptyDatabase, NoRow, Present
<1> QED
  BY <1>1, <1>2, <1>3, <1>4, NoCallCarries DEF Init, Bearing, TypeOK, Cut

LEMMA StepIsRight == Bearing /\ [Next]_vars => Bearing' /\ Takes /\ Undoes
<1> SUFFICES ASSUME Bearing, [Next]_vars
             PROVE  Right
  BY DEF Right
<1>1. CASE UNCHANGED vars
  <2>1. Tame(db, db')
    BY <1>1, TameRefl DEF Bearing, TypeOK, vars
  <2> QED
    BY <1>1, <2>1, QuietBears DEF vars, Bearing
<1>2. CASE Next
  BY <1>2, DispatcherIsRight, LaunchIsRight, RunIsRight, CallIsRight,
     TaskIsRight, JobIsRight, CrashIsRight DEF Next
<1> QED
  BY <1>1, <1>2

\* Whatever agents check in, crashes and restarts included, the tables and
\* every in-flight record keep their types.
THEOREM AlwaysTyped == Spec => []TypeOK
<1>1. Bearing => TypeOK
  BY DEF Bearing
<1> QED
  BY <1>1, InitBears, StepIsRight, PTL DEF Spec

\* Whatever agents check in and operators stop, a task goes straight from one
\* run to another by one statement only: the last one of a reattachment, which
\* writes back to the task the link it had found some statements before.
THEOREM ReattachingAloneSteals == Spec => OnlyAttachSteals
BY InitBears, StepIsRight, PTL DEF Spec, OnlyAttachSteals, Takes

\* Where agents post no bare completion check-in, or nobody stops a run, no
\* adoption, claim or delayed repair hands a task straight from one run to
\* another: the links of runs that are cut off are gone then, or no run is
\* cut off, and a reattachment finds nothing to write back.
THEOREM NoStealing ==
    ASSUME ~({"completion", "stop"} \subseteq Moves)
    PROVE  Spec => NoSteal
<1> DEFINE Unattached == \A c \in Calls : call[c].pc # "link"
           Given == \A t \in Tasks : db.task[t].active # NoRun =>
                       db'.task[t].active \in {db.task[t].active, NoRun}
<1>1. Takes /\ Unattached => Given
  BY DEF Takes
<1>2. CASE "completion" \notin Moves
  <2>1. Consistent => Unattached
    BY DEF Consistent, CallsCarryTheirReadings
  <2>2. Spec => []Consistent
    BY <1>2, StaysConsistent
  <2>3. Consistent /\ Bearing /\ [Next]_vars => Bearing' /\ [Given]_vars
    BY <1>1, <2>1, StepIsRight
  <2> QED
    BY <2>2, <2>3, InitBears, PTL DEF Spec, NoSteal
<1>3. CASE "stop" \notin Moves
  <2>1. Bearing => Unattached
    BY <1>3 DEF Bearing, Carries
  <2>2. Bearing /\ [Next]_vars => Bearing' /\ [Given]_vars
    BY <1>1, <2>1, StepIsRight
  <2> QED
    BY <2>2, InitBears, PTL DEF Spec, NoSteal
<1> QED
  BY <1>2, <1>3

\* A run comes to be live beside its end or its outcome by one statement only:
\* the write-back of a completion check-in, to the status it had read.
THEOREM CheckInsAloneUndo == Spec => OnlyCheckInUndoes
BY InitBears, StepIsRight, PTL DEF Spec, OnlyCheckInUndoes, Undoes
=============================================================================
