--------------------------- MODULE WorkspaceLease --------------------------
(* The lock file that serialises dispatch and cleanup in one task workspace *)
(* across the API processes of a host.  Every file-system call is a step of *)
(* its own: between two of them other processes run, exit and restart.      *)
(* Within one process the calls of an acquisition are synchronous, but many *)
(* leases may be held at once by its asynchronous work.                     *)
EXTENDS Naturals, FiniteSets

CONSTANTS
    Procs,       \* API processes of the host
    Pids, NoPid, \* process ids
    Inodes,      \* inode numbers; a freed one is given out again
    MaxLeases,   \* bound: leases one process believes to hold
    MaxCrashes   \* bound: processes that exit without releasing

ASSUME PidsAssumption == NoPid \notin Pids
ASSUME BoundsAssumption == MaxLeases \in Nat /\ MaxCrashes \in Nat

VARIABLES
    lock,     \* the file at lockPath, or NoLock
    pid,      \* pid[p]: the id of process p, NoPid while it is not running
    call,     \* call[p]: where its acquireWorkspaceLease is
    held,     \* held[p]: leases it has been given and not released
    crashes,  \* exits so far
    wronged   \* a reclaim has removed the lock of a lease in use

vars == <<lock, pid, call, held, crashes, wronged>>

NoLock == [ino |-> 0, pid |-> NoPid, old |-> FALSE, used |-> FALSE]

\* pid is NoPid for a lock with no valid pid in it; `old` says such a lock is
\* past INVALID_LOCK_RECLAIM_MS; `used` that the lease it was made for lasts.
Locks == [ino : Inodes, pid : Pids \cup {NoPid}, old : BOOLEAN, used : BOOLEAN]
Debris(i) == [ino |-> i, pid |-> NoPid, old |-> FALSE, used |-> FALSE]

Idle == [pc |-> "idle", seen |-> NoLock]
Calls == [pc : {"idle", "read", "stale", "same", "free"},
          seen : Locks \cup {NoLock}]

TypeOK ==
    /\ lock \in Locks \cup {NoLock}
    /\ pid \in [Procs -> Pids \cup {NoPid}]
    /\ call \in [Procs -> Calls]
    /\ held \in [Procs -> Nat]
    /\ crashes \in Nat
    /\ wronged \in BOOLEAN

Running(x) == x # NoPid /\ \E p \in Procs : pid[p] = x
Present == lock # NoLock

\* A release of Agent HQ that wrote the pid after creating the lock, or a full
\* disk, may have left one without a pid.
Init ==
    /\ lock \in {NoLock} \cup {Debris(i) : i \in Inodes}
    /\ pid \in [Procs -> Pids]
    /\ \A p, q \in Procs : pid[p] = pid[q] => p = q
    /\ call = [p \in Procs |-> Idle]
    /\ held = [p \in Procs |-> 0]
    /\ crashes = 0
    /\ wronged = FALSE

At(p, pc)     == pid[p] # NoPid /\ call[p].pc = pc
Goto(p, pc)   == call' = [call EXCEPT ![p].pc = pc]
Refuse(p)     == call' = [call EXCEPT ![p] = Idle]

---------------------------------------------------------------------------
(* workspaceIsLeased                                                        *)

\* openSync, fstatSync and readFileSync on one descriptor: one file.
Open(p) ==
    /\ At(p, "idle")
    /\ call' = [call EXCEPT ![p] =
          [pc |-> IF Present THEN "read" ELSE "free", seen |-> lock]]
    /\ UNCHANGED <<lock, pid, held, crashes, wronged>>

\* A seeded fault, the one of 2026-10-05: a lock without a pid holds for ever.
JudgeNoDebrisBug(p) ==
    LET x == call[p].seen.pid IN
    /\ At(p, "read")
    /\ IF x # NoPid /\ ~Running(x) THEN Goto(p, "stale") ELSE Refuse(p)
    /\ UNCHANGED <<lock, pid, held, crashes, wronged>>

\* kill(pid, 0) tells whether the owner runs; no valid pid is a matter of age.
Judge(p) ==
    LET x == call[p].seen.pid
        stale == IF x = NoPid THEN call[p].seen.old ELSE ~Running(x)
    IN  /\ At(p, "read")
        /\ IF stale THEN Goto(p, "stale") ELSE Refuse(p)
        /\ UNCHANGED <<lock, pid, held, crashes, wronged>>

---------------------------------------------------------------------------
(* removeLockIfUnchanged                                                    *)

Stat(p) ==
    /\ At(p, "stale")
    /\ IF ~Present THEN Goto(p, "free")
       ELSE IF lock.ino # call[p].seen.ino THEN Refuse(p)
       ELSE Goto(p, "same")
    /\ UNCHANGED <<lock, pid, held, crashes, wronged>>

\* unlinkSync goes by the path, whatever is there now.
Unlink(p) ==
    /\ At(p, "same")
    /\ lock' = NoLock
    /\ wronged' = (wronged \/ lock.used)
    /\ Goto(p, "free")
    /\ UNCHANGED <<pid, held, crashes>>

---------------------------------------------------------------------------
(* acquireWorkspaceLease and the release it returns                         *)

\* A seeded fault: rename instead of link, so an existing lock is replaced.
LinkReplacesBug(p) ==
    /\ At(p, "free")
    /\ held[p] < MaxLeases
    /\ \E i \in Inodes :
          lock' = [ino |-> i, pid |-> pid[p], old |-> FALSE, used |-> TRUE]
    /\ held' = [held EXCEPT ![p] = @ + 1]
    /\ Refuse(p)
    /\ UNCHANGED <<pid, crashes, wronged>>

\* linkSync of the staged file, with the pid inside, fails if a lock exists.
Link(p) ==
    /\ At(p, "free")
    /\ ~Present
    /\ held[p] < MaxLeases
    /\ \E i \in Inodes :
          lock' = [ino |-> i, pid |-> pid[p], old |-> FALSE, used |-> TRUE]
    /\ held' = [held EXCEPT ![p] = @ + 1]
    /\ Refuse(p)
    /\ UNCHANGED <<pid, crashes, wronged>>

\* EEXIST, or the staged file could not be written.
LinkFails(p) ==
    /\ At(p, "free")
    /\ Refuse(p)
    /\ UNCHANGED <<lock, pid, held, crashes, wronged>>

\* A seeded fault: the release runs again after it ran.
ReleaseTwiceBug(p) ==
    /\ At(p, "idle")
    /\ lock' = NoLock
    /\ held' = [held EXCEPT ![p] = @ - 1]
    /\ UNCHANGED <<pid, call, crashes, wronged>>

\* The release unlinks the path too, and so whatever lock is there.
Release(p) ==
    /\ At(p, "idle")
    /\ held[p] > 0
    /\ lock' = NoLock
    /\ held' = [held EXCEPT ![p] = @ - 1]
    /\ UNCHANGED <<pid, call, crashes, wronged>>

---------------------------------------------------------------------------
(* The host.                                                                *)

\* A process exits; whatever it held is no longer used by anyone.
Crash(p) ==
    /\ pid[p] # NoPid
    /\ crashes < MaxCrashes
    /\ lock' = IF lock.pid = pid[p] THEN [lock EXCEPT !.used = FALSE] ELSE lock
    /\ pid' = [pid EXCEPT ![p] = NoPid]
    /\ call' = [call EXCEPT ![p] = Idle]
    /\ held' = [held EXCEPT ![p] = 0]
    /\ crashes' = crashes + 1
    /\ UNCHANGED wronged

\* It comes back with any id that is free, one it had before included.
Restart(p) ==
    /\ pid[p] = NoPid
    /\ \E x \in Pids : ~Running(x) /\ pid' = [pid EXCEPT ![p] = x]
    /\ UNCHANGED <<lock, call, held, crashes, wronged>>

Age ==
    /\ Present /\ lock.pid = NoPid /\ ~lock.old
    /\ lock' = [lock EXCEPT !.old = TRUE]
    /\ UNCHANGED <<pid, call, held, crashes, wronged>>

Acquiring(p) ==
    Open(p) \/ Judge(p) \/ Stat(p) \/ Unlink(p) \/ Link(p) \/ LinkFails(p)

Next ==
    \/ \E p \in Procs : Acquiring(p) \/ Release(p) \/ Crash(p) \/ Restart(p)
    \/ Age

Spec == Init /\ [][Next]_vars

\* The dispatcher and the worktree prune try a workspace again on each tick,
\* a supervisor restarts the API, and time passes.
FairSpec == /\ Spec
            /\ \A p \in Procs : WF_vars(Acquiring(p)) /\ WF_vars(Restart(p))
            /\ WF_vars(Age)

---------------------------------------------------------------------------
\* Two processes never work in one workspace, and whoever works there has the
\* lock, except after a reclaim has removed the lock of a lease in use: there
\* is no other hole in the protocol, whatever exits and restarts with which id.
OnlyReclaimBreaksExclusion ==
    wronged \/ \A p \in Procs : held[p] > 0 =>
        /\ held[p] = 1
        /\ lock.used /\ lock.pid = pid[p]
        /\ \A q \in Procs : held[q] > 0 => q = p

\* "Locks that blocked their tasks' dispatch for a month": a lock without a
\* pid, or with a pid that no process has, does not stay.  (It does when the
\* restarted API is given the dead owner's pid and so appears to hold it.)
Stale == Present /\ ~Running(lock.pid)
StaleLockGoes == Stale ~> ~Stale

\* "A lock another process created in the meantime survives": what a reclaim
\* unlinks is never the lock of a lease in use.
ReclaimSparesNewLocks ==
    [][\A p \in Procs : Unlink(p) => ~lock.used]_vars

---------------------------------------------------------------------------
\* What makes OnlyReclaimBreaksExclusion inductive.
RunningApart ==
    \A p, q \in Procs : pid[p] = pid[q] /\ pid[p] # NoPid => p = q
OnlyRunningHold == \A p \in Procs : held[p] > 0 => pid[p] # NoPid

Guarded ==
    /\ TypeOK
    /\ RunningApart
    /\ OnlyRunningHold
    /\ OnlyReclaimBreaksExclusion
=============================================================================
