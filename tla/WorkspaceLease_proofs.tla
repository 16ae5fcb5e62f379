----------------------- MODULE WorkspaceLease_proofs -----------------------
(* That two processes never work in one workspace unless a reclaim has hit  *)
(* a lease in use, for any number of processes, ids, inodes and exits.      *)
EXTENDS WorkspaceLease, TLAPS

\* The lock that is not there belongs to nobody.
LEMMA NoLockUnused == ~NoLock.used /\ NoLock.pid = NoPid
BY DEF NoLock

LEMMA InitGuarded == Init => Guarded
<1> SUFFICES ASSUME Init PROVE Guarded
  OBVIOUS
<1>1. lock \in Locks \cup {NoLock}
  <2>1. \A i \in Inodes : Debris(i) \in Locks
    BY DEF Debris, Locks
  <2> QED
    BY <2>1 DEF Init
<1>2. TypeOK
  BY <1>1 DEF Init, TypeOK, Idle, Calls
<1>3. RunningApart /\ OnlyRunningHold /\ OnlyReclaimBreaksExclusion
  BY DEF Init, RunningApart, OnlyRunningHold, OnlyReclaimBreaksExclusion
<1> QED
  BY <1>2, <1>3 DEF Guarded

\* The steps of an acquisition before the link leave leases and processes
\* alone; only the unlink changes the lock.
LEMMA ReadingKeeps ==
    ASSUME Guarded, NEW p \in Procs,
           Open(p) \/ Judge(p) \/ Stat(p) \/ LinkFails(p)
    PROVE  Guarded'
<1>1. call' \in [Procs -> Calls]
  BY DEF Guarded, TypeOK, Open, Judge, Stat, LinkFails, Goto, Refuse, Idle,
         Calls
<1>2. UNCHANGED <<lock, pid, held, crashes, wronged>>
  BY DEF Open, Judge, Stat, LinkFails
<1> QED
  BY <1>1, <1>2 DEF Guarded, TypeOK, RunningApart, OnlyRunningHold,
                    OnlyReclaimBreaksExclusion

LEMMA UnlinkKeeps ==
    ASSUME Guarded, NEW p \in Procs, Unlink(p)
    PROVE  Guarded'
<1>1. TypeOK'
  BY DEF Guarded, TypeOK, Unlink, Goto, Calls, Locks, NoLock
<1>2. RunningApart' /\ OnlyRunningHold'
  BY DEF Guarded, Unlink, RunningApart, OnlyRunningHold
<1>3. OnlyReclaimBreaksExclusion'
  \* If the lock was not in use, nobody held a lease.
  <2>1. ~wronged' => ~wronged /\ ~lock.used
    BY DEF Unlink, Guarded, TypeOK
  <2>2. ~wronged /\ ~lock.used => \A q \in Procs : ~(held[q] > 0)
    BY DEF Guarded, OnlyReclaimBreaksExclusion
  <2>3. held' = held
    BY DEF Unlink
  <2> QED
    BY <2>1, <2>2, <2>3 DEF OnlyReclaimBreaksExclusion
<1> QED
  BY <1>1, <1>2, <1>3 DEF Guarded

LEMMA LinkKeeps ==
    ASSUME Guarded, NEW p \in Procs, Link(p)
    PROVE  Guarded'
<1>1. PICK i \in Inodes :
          lock' = [ino |-> i, pid |-> pid[p], old |-> FALSE, used |-> TRUE]
  BY DEF Link
<1>2. pid[p] \in Pids /\ held[p] \in Nat
  BY DEF Guarded, TypeOK, Link, At
<1>3. TypeOK'
  <2>1. lock' \in Locks
    BY <1>1, <1>2 DEF Locks
  <2>2. held' \in [Procs -> Nat]
    BY <1>2 DEF Link, Guarded, TypeOK
  <2>3. call' \in [Procs -> Calls]
    BY DEF Link, Refuse, Idle, Calls, Guarded, TypeOK
  <2> QED
    BY <2>1, <2>2, <2>3 DEF Link, Guarded, TypeOK
<1>4. RunningApart' /\ OnlyRunningHold'
  BY <1>2, NoLockUnused, PidsAssumption
     DEF Guarded, TypeOK, Link, RunningApart, OnlyRunningHold
<1>5. OnlyReclaimBreaksExclusion'
  <2> SUFFICES ASSUME ~wronged
               PROVE  OnlyReclaimBreaksExclusion'
    BY DEF Link, OnlyReclaimBreaksExclusion
  \* There was no lock, so there was no lease.
  <2>1. \A q \in Procs : ~(held[q] > 0)
    BY NoLockUnused
       DEF Link, Present, Guarded, OnlyReclaimBreaksExclusion
  <2>2. held[p] = 0
    BY <1>2, <2>1
  <2>3. held'[p] = 1 /\ \A q \in Procs \ {p} : held'[q] = held[q]
    BY <2>2 DEF Link, Guarded, TypeOK
  <2>4. lock'.used /\ lock'.pid = pid'[p]
    BY <1>1 DEF Link
  <2> QED
    BY <2>1, <2>3, <2>4 DEF OnlyReclaimBreaksExclusion
<1> QED
  BY <1>3, <1>4, <1>5 DEF Guarded

LEMMA ReleaseKeeps ==
    ASSUME Guarded, NEW p \in Procs, Release(p)
    PROVE  Guarded'
<1>1. held[p] \in Nat /\ held[p] > 0
  BY DEF Release, Guarded, TypeOK
<1>2. held'[p] = held[p] - 1 /\ \A q \in Procs \ {p} : held'[q] = held[q]
  BY DEF Release, Guarded, TypeOK
<1>3. held' \in [Procs -> Nat]
  BY <1>1 DEF Release, Guarded, TypeOK
<1>4. TypeOK'
  BY <1>3 DEF Release, Guarded, TypeOK
<1>5. RunningApart'
  BY DEF Guarded, Release, RunningApart
<1>6. OnlyRunningHold'
  <2>1. pid[p] # NoPid
    BY <1>1 DEF Guarded, OnlyRunningHold
  <2> QED
    BY <1>2, <2>1 DEF Guarded, Release, OnlyRunningHold
<1>7. OnlyReclaimBreaksExclusion'
  <2> SUFFICES ASSUME ~wronged
               PROVE  OnlyReclaimBreaksExclusion'
    BY DEF Release, OnlyReclaimBreaksExclusion
  <2>1. held[p] = 1 /\ \A q \in Procs : held[q] > 0 => q = p
    BY <1>1 DEF Guarded, OnlyReclaimBreaksExclusion
  <2>2. \A q \in Procs : ~(held'[q] > 0)
    BY <1>2, <2>1
  <2> QED
    BY <2>2 DEF OnlyReclaimBreaksExclusion
<1> QED
  BY <1>4, <1>5, <1>6, <1>7 DEF Guarded

LEMMA CrashKeeps ==
    ASSUME Guarded, NEW p \in Procs, Crash(p)
    PROVE  Guarded'
<1>1. /\ pid'[p] = NoPid /\ held'[p] = 0
      /\ \A q \in Procs \ {p} : pid'[q] = pid[q] /\ held'[q] = held[q]
  BY DEF Crash, Guarded, TypeOK
<1>2. TypeOK'
  <2>1. lock' \in Locks \cup {NoLock}
    <3>1. CASE lock = NoLock
      BY <3>1, NoLockUnused DEF Crash, NoLock, Guarded, TypeOK, At
    <3>2. CASE lock \in Locks
      BY <3>2 DEF Crash, Locks
    <3> QED
      BY <3>1, <3>2 DEF Guarded, TypeOK
  <2>2. /\ pid' \in [Procs -> Pids \cup {NoPid}] /\ held' \in [Procs -> Nat]
        /\ crashes' \in Nat /\ wronged' \in BOOLEAN
    BY DEF Crash, Guarded, TypeOK
  <2>3. call' \in [Procs -> Calls]
    BY DEF Crash, Idle, Calls, Guarded, TypeOK
  <2> QED
    BY <2>1, <2>2, <2>3 DEF TypeOK
<1>3. RunningApart' /\ OnlyRunningHold'
  BY <1>1 DEF Guarded, RunningApart, OnlyRunningHold
<1>4. OnlyReclaimBreaksExclusion'
  <2> SUFFICES ASSUME ~wronged, NEW q \in Procs, held'[q] > 0
               PROVE  /\ held'[q] = 1 /\ lock'.used /\ lock'.pid = pid'[q]
                      /\ \A r \in Procs : held'[r] > 0 => r = q
    BY DEF Crash, OnlyReclaimBreaksExclusion
  <2>1. q # p /\ held[q] > 0
    BY <1>1
  <2>2. /\ held[q] = 1 /\ lock.used /\ lock.pid = pid[q]
        /\ \A r \in Procs : held[r] > 0 => r = q
    BY <2>1 DEF Guarded, OnlyReclaimBreaksExclusion
  \* The survivor runs, and under another id than the process that exits.
  <2>3. pid[q] # pid[p]
    BY <2>1 DEF Guarded, RunningApart, OnlyRunningHold
  <2>4. lock' = lock
    BY <2>2, <2>3 DEF Crash
  <2> QED
    BY <1>1, <2>1, <2>2, <2>4
<1> QED
  BY <1>2, <1>3, <1>4 DEF Guarded

LEMMA RestartKeeps ==
    ASSUME Guarded, NEW p \in Procs, Restart(p)
    PROVE  Guarded'
<1>1. PICK x \in Pids : ~Running(x) /\ pid' = [pid EXCEPT ![p] = x]
  BY DEF Restart
<1>2. pid'[p] = x /\ \A q \in Procs \ {p} : pid'[q] = pid[q] /\ pid[q] # x
  BY <1>1, PidsAssumption DEF Running, Guarded, TypeOK
<1>3. ~(held[p] > 0)
  BY DEF Restart, Guarded, OnlyRunningHold
<1>4. TypeOK'
  BY <1>1 DEF Restart, Guarded, TypeOK
<1>5. RunningApart' /\ OnlyRunningHold'
  BY <1>2, <1>3 DEF Restart, Guarded, RunningApart, OnlyRunningHold
<1>6. OnlyReclaimBreaksExclusion'
  BY <1>2, <1>3 DEF Restart, Guarded, OnlyReclaimBreaksExclusion
<1> QED
  BY <1>4, <1>5, <1>6 DEF Guarded

LEMMA AgeKeeps ==
    ASSUME Guarded, Age
    PROVE  Guarded'
<1>1. lock' \in Locks \cup {NoLock} /\ lock'.used = lock.used
      /\ lock'.pid = lock.pid
  BY DEF Age, Present, Guarded, TypeOK, Locks
<1> QED
  BY <1>1 DEF Age, Guarded, TypeOK, RunningApart, OnlyRunningHold,
              OnlyReclaimBreaksExclusion

LEMMA StepGuarded == Guarded /\ [Next]_vars => Guarded'
<1> SUFFICES ASSUME Guarded, [Next]_vars PROVE Guarded'
  OBVIOUS
<1>1. CASE UNCHANGED vars
  BY <1>1 DEF vars, Guarded, TypeOK, RunningApart, OnlyRunningHold,
              OnlyReclaimBreaksExclusion
<1>2. ASSUME NEW p \in Procs, Acquiring(p) PROVE Guarded'
  BY <1>2, ReadingKeeps, UnlinkKeeps, LinkKeeps DEF Acquiring
<1>3. ASSUME NEW p \in Procs, Release(p) \/ Crash(p) \/ Restart(p)
      PROVE  Guarded'
  BY <1>3, ReleaseKeeps, CrashKeeps, RestartKeeps
<1> QED
  BY <1>1, <1>2, <1>3, AgeKeeps DEF Next

\* Whatever dies or returns in between, the lock file names a process id or
\* none, and every acquisition is at one of the steps of the code.
THEOREM LeaseTypeCorrect == Spec => []TypeOK
<1>1. Spec => []Guarded
  BY InitGuarded, StepGuarded, PTL DEF Spec
<1>2. Guarded => TypeOK
  BY DEF Guarded
<1> QED
  BY <1>1, <1>2, PTL

\* With any number of processes, ids and exits, a workspace has two workers, or
\* one without the lock, only after removeLockIfUnchanged has unlinked a lock
\* in use.
THEOREM ExclusionUnlessWronged == Spec => []OnlyReclaimBreaksExclusion
<1>1. Spec => []Guarded
  BY InitGuarded, StepGuarded, PTL DEF Spec
<1>2. Guarded => OnlyReclaimBreaksExclusion
  BY DEF Guarded
<1> QED
  BY <1>1, <1>2, PTL
=============================================================================
