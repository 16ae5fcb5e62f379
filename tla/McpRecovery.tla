----------------------------- MODULE McpRecovery ---------------------------
(* Bringing an agent's MCP configuration to the running OpenClaw gateway.   *)
(* Edits queue a sync; a sync writes the configuration files and has the    *)
(* gateway reload them, one sync of an agent at a time; one that fails      *)
(* opens an incident, and the recovery worker then repeats it by force.     *)
(* The API may die between any two steps, and a gateway call may take       *)
(* effect although its reply is lost.                                       *)
EXTENDS Naturals, Sequences

CONSTANTS
    Contents,    \* what an agent's configuration may be
    Initial,     \* what it is at first
    MaxEdits,    \* bound: edits of the assigned configuration
    MaxSetbacks  \* bound: crashes, lost replies, refusals, foreign edits

\* What is taken for granted of the constants.
ConstantsOK ==
    Initial \in Contents /\ MaxEdits \in Nat /\ MaxSetbacks \in Nat

VARIABLES
    want,       \* the configuration assigned in the database
    edits,      \* edits so far
    queued,     \* its row of openclaw_mcp_sync_queue; rev 0 is no row;
                \* spent says attempts has reached 3
    disk,       \* the configuration files
    gateway,    \* what it has loaded, what call it works on
    record,     \* the row of openclaw_mcp_reconciliation
    receipt,    \* `applied`, in memory, as far as its epoch is the current one
    incident,   \* the unresolved row of openclaw_mcp_recovery
    line,       \* the callers of syncAssignedMcpForAgent, served in order
    sync,       \* the sync of the first in line
    queueJob,   \* the job of drainOpenClawMcpSyncQueue
    mine,       \* the incident attemptMcpRecovery was called for is open
    restored,   \* restoreMcpRecoveries is done
    unsure,     \* a gateway call of unknown outcome since the last good one
    overruled,  \* a forced sync was begun since then
    setbacks    \* setbacks so far

vars == <<want, edits, queued, disk, gateway, record, receipt, incident, line,
          sync, queueJob, mine, restored, unsure, overruled, setbacks>>

\* openClawMcpRevision digests the agent's own files and openclaw.json, which
\* it shares with others.
Revisions == [own : Contents, shared : 0 .. MaxSetbacks]
First     == [own |-> Initial, shared |-> 0]
NoReceipt == [held |-> FALSE, rev |-> First]
NoSync    == [pc |-> "idle", rev |-> First, cut |-> FALSE]
NoJob     == [pc |-> "idle", rev |-> 0]

McpTypeOK ==
    /\ want \in Contents /\ edits \in 0 .. MaxEdits
    /\ queued \in [rev : 0 .. MaxEdits, spent : BOOLEAN]
    /\ disk \in Revisions
    /\ gateway \in [loaded : Revisions, busy : {"no", "refresh", "reload"}]
    /\ record \in [state : {"none", "prepared", "refresh", "reload", "applied",
                            "failed"},
                   desired : Revisions, retry : BOOLEAN, required : BOOLEAN]
    /\ receipt \in [held : BOOLEAN, rev : Revisions]
    /\ incident \in {"none", "recovering", "late", "attention"}
    /\ line \in Seq([by : {"queue", "recovery", "other"}, force : BOOLEAN])
    /\ sync \in [pc : {"idle", "write", "begin", "prepared", "refresh",
                       "sent refresh", "refreshed", "reload", "sent reload",
                       "reloaded", "failed", "failed, may retry", "unknown",
                       "resolve", "alarm"},
                 rev : Revisions, cut : BOOLEAN]
    /\ queueJob \in [pc : {"idle", "waiting", "ok", "failed"},
                     rev : 0 .. MaxEdits]
    /\ mine \in BOOLEAN
    /\ restored \in BOOLEAN
    /\ unsure \in BOOLEAN /\ overruled \in BOOLEAN
    /\ setbacks \in 0 .. MaxSetbacks

Init ==
    /\ want = Initial
    /\ edits = 0
    /\ queued = [rev |-> 0, spent |-> FALSE]
    /\ disk = First
    /\ gateway = [loaded |-> First, busy |-> "no"]
    /\ record = [state |-> "none", desired |-> First, retry |-> FALSE,
                 required |-> FALSE]
    /\ receipt = NoReceipt
    /\ incident = "none"
    /\ line = <<>>
    /\ sync = NoSync
    /\ queueJob = NoJob
    /\ mine = FALSE
    /\ restored = TRUE
    /\ unsure = FALSE
    /\ overruled = FALSE
    /\ setbacks = 0

Setback ==
    /\ setbacks < MaxSetbacks
    /\ setbacks' = setbacks + 1

\* The reconciliation row does not exclude that a call took effect.
Uncertain == record.required \/ record.state \in {"refresh", "reload"}
Open == incident # "none"
Waits(by) == \E n \in 1 .. Len(line) : line[n].by = by

---------------------------------------------------------------------------
(* Callers of syncAssignedMcpForAgent                                       *)

\* The triggers of migration 45: the edit and its queue row commit together.
Edit ==
    /\ edits < MaxEdits
    /\ edits' = edits + 1
    /\ \E new \in Contents \ {want} : want' = new
    /\ queued' = [rev |-> queued.rev + 1, spent |-> FALSE]
    /\ UNCHANGED <<disk, gateway, record, receipt, incident, line, sync,
                   queueJob, mine, restored, unsure, overruled, setbacks>>

JoinLine(by, force) == line' = Append(line, [by |-> by, force |-> force])

\* drainOpenClawMcpSyncQueue: attempts < 3 and no unresolved incident.
QueueTakes ==
    /\ queueJob.pc = "idle"
    /\ queued.rev # 0 /\ ~queued.spent
    /\ ~Open
    /\ queueJob' = [pc |-> "waiting", rev |-> queued.rev]
    /\ JoinLine("queue", FALSE)
    /\ UNCHANGED <<want, edits, queued, disk, gateway, record, receipt,
                   incident, sync, mine, restored, unsure, overruled,
                   setbacks>>

\* A seeded fault: the row is deleted whatever its revision has become.
QueueEndsAnyRevisionBug ==
    /\ queueJob.pc \in {"ok", "failed"}
    /\ \E spent \in BOOLEAN :
          queued' = IF queueJob.pc = "ok" THEN [rev |-> 0, spent |-> FALSE]
                    ELSE [queued EXCEPT !.spent = spent]
    /\ queueJob' = NoJob
    /\ UNCHANGED <<want, edits, disk, gateway, record, receipt, incident,
                   line, sync, mine, restored, unsure, overruled, setbacks>>

\* "An edit committed while we worked retains its own queue revision."
\* Which failure is the third is left open.
QueueEnds ==
    /\ queueJob.pc \in {"ok", "failed"}
    /\ \E spent \in BOOLEAN :
          queued' = IF queued.rev # queueJob.rev THEN queued
                    ELSE IF queueJob.pc = "ok"
                    THEN [rev |-> 0, spent |-> FALSE]
                    ELSE [queued EXCEPT !.spent = spent]
    /\ queueJob' = NoJob
    /\ UNCHANGED <<want, edits, disk, gateway, record, receipt, incident,
                   line, sync, mine, restored, unsure, overruled, setbacks>>

\* A seeded fault: an escalated incident is left to the operator.
RecoveryTakesBeforeEscalationBug ==
    /\ restored
    /\ ~Waits("recovery")
    /\ incident = "recovering"
    /\ mine' = TRUE
    /\ JoinLine("recovery", TRUE)
    /\ UNCHANGED <<want, edits, queued, disk, gateway, record, receipt,
                   incident, sync, queueJob, restored, unsure, overruled,
                   setbacks>>

\* attemptMcpRecovery: when an attempt is due is left open, but past its
\* deadline an incident waits for escalation.  The agent modelled is enabled
\* and not deleted; the worker passes over the others.
RecoveryTakes ==
    /\ restored
    /\ ~Waits("recovery")
    /\ incident \in {"recovering", "attention"}
    /\ mine' = TRUE
    /\ JoinLine("recovery", TRUE)
    /\ UNCHANGED <<want, edits, queued, disk, gateway, record, receipt,
                   incident, sync, queueJob, restored, unsure, overruled,
                   setbacks>>

\* Dispatch (which goes no further during an incident: claimTaskDispatch,
\* dispatchInstance), or a client of the API, perhaps with force_reconcile.
Other ==
    /\ ~Waits("other")
    /\ \E force \in BOOLEAN : JoinLine("other", force)
    /\ UNCHANGED <<want, edits, queued, disk, gateway, record, receipt,
                   incident, sync, queueJob, mine, restored, unsure,
                   overruled, setbacks>>

---------------------------------------------------------------------------
(* syncAssignedMcpForAgent                                                  *)

At(pc) == line # <<>> /\ sync.pc = pc
Forced == Head(line).force

\* assertRecoveryActive: an attempt of an incident that is resolved, or late
\* and not yet escalated, goes no further.
Admitted == Head(line).by = "recovery" => mine /\ incident # "late"

\* The call returns to its caller, and the next one starts.
Finish(ok) ==
    /\ line' = Tail(line)
    /\ sync' = NoSync
    /\ queueJob' = IF Head(line).by # "queue" THEN queueJob
                   ELSE [queueJob EXCEPT !.pc = IF ok THEN "ok" ELSE "failed"]
    /\ mine' = (mine /\ Head(line).by # "recovery")

\* The assigned configuration is read ...
Enter ==
    /\ At("idle")
    /\ IF Admitted
       THEN /\ sync' = [sync EXCEPT !.pc = "write",
                                  !.rev = [@ EXCEPT !.own = want]]
            /\ UNCHANGED <<line, queueJob, mine>>
       ELSE Finish(FALSE)
    /\ UNCHANGED <<want, edits, queued, disk, gateway, record, receipt,
                   incident, restored, unsure, overruled, setbacks>>

\* ... and written to the files, whose revision is the one to apply.  The agent
\* modelled has servers before and after every edit: taking the last one away
\* ends a sync here, without a call of the gateway.
WriteFiles ==
    /\ At("write")
    /\ disk' = [disk EXCEPT !.own = sync.rev.own]
    /\ sync' = [sync EXCEPT !.pc = "begin", !.rev = disk']
    /\ UNCHANGED <<want, edits, queued, gateway, record, receipt, incident,
                   line, queueJob, mine, restored, unsure, overruled,
                   setbacks>>

WriteFails ==
    /\ At("write")
    /\ Setback
    /\ Finish(FALSE)
    /\ UNCHANGED <<want, edits, queued, disk, gateway, record, receipt,
                   incident, restored, unsure, overruled>>

---------------------------------------------------------------------------
(* reconcileOpenClawMcp                                                     *)

\* Applied to this very connection already.
Current == receipt.held /\ receipt.rev = sync.rev

\* A failed revision waits for its retry_at, three times at most; when that
\* has passed is left open.
CoolsDown == record.state = "failed" /\ record.desired = sync.rev

Prepared ==
    /\ record' = [state |-> "prepared", desired |-> sync.rev, retry |-> FALSE,
                  required |-> FALSE]
    /\ sync' = [sync EXCEPT !.pc = "prepared", !.cut = FALSE]
    /\ overruled' = (overruled \/ (Forced /\ unsure))
    /\ UNCHANGED receipt

Rejected ==
    /\ sync' = [NoSync EXCEPT !.pc = "alarm"]
    /\ UNCHANGED <<record, overruled>>

\* A seeded fault: only a failure that was written down counts as uncertain.
MayPrepareForgetsInterruptionBug ==
    /\ ~Current /\ ~record.required
    /\ CoolsDown => record.retry

\* Unless forced, only what is not applied yet, not in doubt, and not to be
\* tried later (or no more) may be applied.
MayPrepare ==
    /\ ~Current /\ ~Uncertain
    /\ CoolsDown => record.retry

Begin ==
    /\ At("begin")
    /\ \/ /\ ~Forced /\ Current
          /\ sync' = [NoSync EXCEPT !.pc = "resolve"]
          /\ UNCHANGED <<record, receipt, overruled>>
       \/ /\ IF Forced THEN ~Admitted
             ELSE ~Current /\ (Uncertain \/ CoolsDown)
          /\ receipt' = IF Uncertain /\ ~Forced THEN NoReceipt
                        ELSE receipt
          /\ Rejected
       \/ /\ IF Forced THEN Admitted ELSE MayPrepare
          /\ Prepared
    /\ UNCHANGED <<want, edits, queued, disk, gateway, incident, line,
                   queueJob, mine, restored, unsure, setbacks>>

\* health or plugins.list fails: the gateway is away.
GatewayAway ==
    /\ At("begin")
    /\ Setback
    /\ Rejected
    /\ UNCHANGED <<want, edits, queued, disk, gateway, receipt, incident,
                   line, queueJob, mine, restored, unsure>>

\* ApplicationFailure, or an error of which nothing is known.
Fail(how) == sync' = [sync EXCEPT !.pc = how]
Failures == {"failed", "failed, may retry", "unknown"}

\* plugins.refresh when forced or when the metadata has changed, then
\* plugins.reload.
NextPhase ==
    IF sync.pc = "refreshed" THEN {"reload"}
    ELSE IF Forced THEN {"refresh"} ELSE {"refresh", "reload"}

\* A seeded fault: the phase is not written.
PhaseUnwrittenBug ==
    /\ At("prepared") \/ At("refreshed")
    /\ IF Admitted
       THEN \E phase \in NextPhase : sync' = [sync EXCEPT !.pc = phase]
       ELSE Fail("unknown")
    /\ UNCHANGED <<want, edits, queued, disk, gateway, record, receipt,
                   incident, line, queueJob, mine, restored, unsure,
                   overruled, setbacks>>

\* The phase is on record before the gateway is called.
Phase ==
    /\ At("prepared") \/ At("refreshed")
    /\ IF Admitted
       THEN \E phase \in NextPhase :
               /\ record' = [record EXCEPT !.state = phase]
               /\ sync' = [sync EXCEPT !.pc = phase]
       ELSE Fail("unknown") /\ UNCHANGED record
    /\ UNCHANGED <<want, edits, queued, disk, gateway, receipt, incident,
                   line, queueJob, mine, restored, unsure, overruled,
                   setbacks>>

\* A seeded fault: the answer to a refresh is taken for that to a reload.
SentRefreshSufficesBug ==
    [refresh |-> "sent reload", reload |-> "sent reload"]

Sent == [refresh |-> "sent refresh", reload |-> "sent reload"]

\* mutation.  The gateway refuses a call while an earlier one is at work.
Send ==
    /\ At("refresh") \/ At("reload")
    /\ IF ~Admitted THEN Fail("unknown") /\ UNCHANGED gateway
       ELSE IF gateway.busy # "no"
       THEN Fail("failed, may retry") /\ UNCHANGED gateway
       ELSE /\ gateway' = [gateway EXCEPT !.busy = sync.pc]
            /\ sync' = [sync EXCEPT !.pc = Sent[sync.pc]]
    /\ UNCHANGED <<want, edits, queued, disk, record, receipt, incident, line,
                   queueJob, mine, restored, unsure, overruled, setbacks>>

Awaited == At("sent refresh") \/ At("sent reload")

Refuse ==
    /\ Awaited
    /\ Setback
    /\ gateway' = [gateway EXCEPT !.busy = "no"]
    /\ \E how \in {"failed", "failed, may retry"} : Fail(how)
    /\ UNCHANGED <<want, edits, queued, disk, record, receipt, incident, line,
                   queueJob, mine, restored, unsure, overruled>>

\* The time is up: the call may still take effect.
TimeOut ==
    /\ Awaited
    /\ Setback
    /\ Fail("unknown")
    /\ unsure' = TRUE
    /\ UNCHANGED <<want, edits, queued, disk, gateway, record, receipt,
                   incident, line, queueJob, mine, restored, overruled>>

\* The acknowledgement counts if files and connection are still the same.
Verify ==
    /\ At("reloaded")
    /\ IF disk # sync.rev
       THEN Fail("failed, may retry") /\ UNCHANGED <<record, receipt>>
       ELSE IF sync.cut
       THEN Fail("unknown") /\ UNCHANGED <<record, receipt>>
       ELSE /\ record' = [record EXCEPT !.state = "applied"]
            /\ receipt' = [held |-> TRUE, rev |-> sync.rev]
            /\ sync' = [NoSync EXCEPT !.pc = "resolve"]
    /\ UNCHANGED <<want, edits, queued, disk, gateway, incident, line,
                   queueJob, mine, restored, unsure, overruled, setbacks>>

\* The failure is written down, with what is known of it; after the third
\* there is no retry.
WriteFailure ==
    /\ line # <<>> /\ sync.pc \in Failures
    /\ receipt' = NoReceipt
    /\ \E retry \in {FALSE, sync.pc = "failed, may retry"} :
          record' = [record EXCEPT !.state = "failed", !.retry = retry,
                                   !.required = sync.pc = "unknown"]
    /\ sync' = [NoSync EXCEPT !.pc = "alarm"]
    /\ UNCHANGED <<want, edits, queued, disk, gateway, incident, line,
                   queueJob, mine, restored, unsure, overruled, setbacks>>

\* resolveMcpRecovery
Resolve ==
    /\ At("resolve")
    /\ incident' = "none"
    /\ line' = Tail(line)
    /\ sync' = NoSync
    /\ queueJob' = IF Head(line).by = "queue"
                   THEN [queueJob EXCEPT !.pc = "ok"] ELSE queueJob
    /\ mine' = FALSE
    /\ UNCHANGED <<want, edits, queued, disk, gateway, record, receipt,
                   restored, unsure, overruled, setbacks>>

\* beginMcpRecovery, which leaves an incident that is open as it is.
Alarm ==
    /\ At("alarm")
    /\ incident' = IF Open THEN incident ELSE "recovering"
    /\ Finish(FALSE)
    /\ UNCHANGED <<want, edits, queued, disk, gateway, record, receipt,
                   restored, unsure, overruled, setbacks>>

\* The incident cannot be written.  When it cannot be resolved, the error
\* goes on to beginMcpRecovery like any other.
AlarmFails ==
    /\ At("alarm")
    /\ Setback
    /\ Finish(FALSE)
    /\ UNCHANGED <<want, edits, queued, disk, gateway, record, receipt,
                   incident, restored, unsure, overruled>>

ResolveFails ==
    /\ At("resolve")
    /\ Setback
    /\ sync' = [NoSync EXCEPT !.pc = "alarm"]
    /\ UNCHANGED <<want, edits, queued, disk, gateway, record, receipt,
                   incident, line, queueJob, mine, restored, unsure,
                   overruled>>

---------------------------------------------------------------------------
(* Incidents                                                                *)

\* deadline_at passes.
Late ==
    /\ incident = "recovering"
    /\ incident' = "late"
    /\ UNCHANGED <<want, edits, queued, disk, gateway, record, receipt, line,
                   sync, queueJob, mine, restored, unsure, overruled,
                   setbacks>>

\* escalateMcpRecoveries
Escalate ==
    /\ restored
    /\ incident = "late"
    /\ incident' = "attention"
    /\ UNCHANGED <<want, edits, queued, disk, gateway, record, receipt, line,
                   sync, queueJob, mine, restored, unsure, overruled,
                   setbacks>>

\* retryMcpRecovery
OperatorRetries ==
    /\ incident \in {"late", "attention"}
    /\ Setback
    /\ incident' = "recovering"
    /\ UNCHANGED <<want, edits, queued, disk, gateway, record, receipt, line,
                   sync, queueJob, mine, restored, unsure, overruled>>

\* restoreMcpRecoveries: what an API that died did not get to record.
Restore ==
    /\ ~restored
    /\ restored' = TRUE
    /\ incident' \in IF Open \/ ~(record.state = "failed" \/ Uncertain)
                     THEN {incident} ELSE {"recovering", "late"}
    /\ UNCHANGED <<want, edits, queued, disk, gateway, record, receipt, line,
                   sync, queueJob, mine, unsure, overruled, setbacks>>

---------------------------------------------------------------------------
(* Gateway, API process and shared files                                    *)

\* The gateway completes a call; if it is awaited still, this is the reply,
\* and a reload so acknowledged leaves nothing in doubt.
Perform ==
    /\ gateway.busy # "no"
    /\ gateway' = [gateway EXCEPT !.busy = "no",
                      !.loaded = IF gateway.busy = "reload" THEN disk ELSE @]
    /\ sync' = [sync EXCEPT !.pc = IF At("sent refresh") THEN "refreshed"
                                   ELSE IF At("sent reload") THEN "reloaded"
                                   ELSE @]
    /\ IF At("sent reload") THEN unsure' = FALSE /\ overruled' = FALSE
       ELSE UNCHANGED <<unsure, overruled>>
    /\ UNCHANGED <<want, edits, queued, disk, record, receipt, incident, line,
                   queueJob, mine, restored, setbacks>>

\* The connection drops and a new one is made; a call at work goes on, or is
\* gone with the gateway, which reads the files when it starts.
Disconnect ==
    /\ Setback
    /\ gateway' \in {gateway, [loaded |-> disk, busy |-> "no"]}
    /\ receipt' = NoReceipt
    /\ IF Awaited THEN Fail("unknown") /\ unsure' = TRUE
       ELSE /\ sync' = [sync EXCEPT !.cut = sync.pc \in {"prepared", "refresh",
                                            "refreshed", "reload", "reloaded"}]
            /\ UNCHANGED unsure
    /\ UNCHANGED <<want, edits, queued, disk, record, incident, line,
                   queueJob, mine, restored, overruled>>

Crash ==
    /\ Setback
    /\ receipt' = NoReceipt
    /\ line' = <<>>
    /\ sync' = NoSync
    /\ queueJob' = NoJob
    /\ mine' = FALSE
    /\ restored' = FALSE
    /\ unsure' = (unsure \/ Awaited)
    /\ UNCHANGED <<want, edits, queued, disk, gateway, record, incident,
                   overruled>>

\* Another agent's sync, or the gateway, writes openclaw.json.
ForeignEdit ==
    /\ Setback
    /\ disk' = [disk EXCEPT !.shared = @ + 1]
    /\ UNCHANGED <<want, edits, queued, gateway, record, receipt, incident,
                   line, sync, queueJob, mine, restored, unsure, overruled>>

SyncStep ==
    Enter \/ WriteFiles \/ Begin \/ Phase \/ Send \/ Verify \/ WriteFailure
          \/ Resolve \/ Alarm

Next ==
    \/ Edit \/ QueueTakes \/ QueueEnds \/ RecoveryTakes \/ Other
    \/ SyncStep \/ WriteFails \/ GatewayAway \/ AlarmFails \/ ResolveFails
    \/ Perform \/ Refuse \/ TimeOut \/ Disconnect
    \/ Late \/ Escalate \/ OperatorRetries \/ Restore
    \/ Crash \/ ForeignEdit

\* The workers tick every five seconds, a sync and a gateway that was called
\* go on, and deadlines pass.
Fairness ==
    /\ WF_vars(SyncStep) /\ WF_vars(Perform)
    /\ WF_vars(RecoveryTakes) /\ WF_vars(Restore)
    /\ WF_vars(Late) /\ WF_vars(Escalate)

Spec == Init /\ [][Next]_vars
FairSpec == Spec /\ Fairness

---------------------------------------------------------------------------
\* A sync that finds its revision applied in memory finds it loaded by the
\* gateway too: neither a file edit during a reload nor a call that takes
\* effect late nor a reconnection makes the receipt a lie.
ReceiptIsTrue == At("begin") /\ Current => gateway.loaded = sync.rev

\* An edit leaves the queue only when the gateway has it.
EditReachesGateway == queued.rev = 0 => gateway.loaded.own = want

\* "Persist maintenance progress so restarting an API cannot erase
\* uncertainty": while the outcome of a gateway call is unknown the row says
\* so, until somebody overrules it by force.
UncertaintyOnRecord == unsure /\ ~overruled => Uncertain

\* "Escalation alerts but never stops recovery": an incident comes to an end.
IncidentEnds == Open ~> ~Open

---------------------------------------------------------------------------
(* Why these hold: what is so at every step between two steps.              *)

\* The bounds of what is counted, and a sync that has its caller.
WithinBounds == /\ queued.rev <= edits /\ disk.shared <= setbacks
                /\ sync.pc # "idle" => line # <<>>

\* The row is at the phase the sync is at, and the sync is only at one if
\* nothing was in doubt when it began, or it is there by force.
Refreshing == {"refresh", "sent refresh", "refreshed"}
Reloading  == {"reload", "sent reload", "reloaded"}
PhaseOnRecord ==
    /\ sync.pc \in Refreshing => record.state = "refresh"
    /\ sync.pc \in Reloading => record.state = "reload"
    /\ sync.pc \in {"prepared", "failed", "failed, may retry"}
                      \cup Refreshing \cup Reloading
          => ~unsure \/ overruled

\* From the writing of the files to the acknowledgement the agent's own file
\* is as written, and what was loaded is what was on disk at some time since.
Applying == {"begin", "prepared"} \cup Refreshing \cup Reloading
FilesAsWritten ==
    /\ sync.pc \in Applying =>
          disk.own = sync.rev.own /\ sync.rev.shared <= disk.shared
    /\ sync.pc = "reloaded" =>
          /\ gateway.busy = "no"
          /\ gateway.loaded.own = disk.own
          /\ sync.rev.shared <= gateway.loaded.shared
          /\ gateway.loaded.shared <= disk.shared

\* A receipt is true but where the sync at hand may have made it a lie, and
\* no call is at work that could make it one but the sync's own.
Doubtful == {"reloaded", "failed", "failed, may retry", "unknown"}
ReceiptStands ==
    /\ sync.pc = "sent refresh" => gateway.busy = "refresh"
    /\ sync.pc = "sent reload" => gateway.busy = "reload"
    /\ receipt.held =>
          /\ sync.pc \notin Doubtful => gateway.loaded = receipt.rev
          /\ sync.pc \notin {"sent refresh", "sent reload", "unknown"}
                => gateway.busy = "no"

\* The queue's job waits in line once, for a revision no later than the
\* row's.
OneQueueCall ==
    /\ \A n \in 1 .. Len(line) :
          line[n].by = "queue" =>
             /\ queueJob.pc = "waiting"
             /\ \A m \in 1 .. Len(line) : line[m].by = "queue" => m = n
    /\ queueJob.pc # "idle" => queueJob.rev # 0 /\ queueJob.rev <= queued.rev

\* Where no edit waits, or the job has brought the last one to the gateway,
\* the gateway and the files have it, and so has every sync under way; the
\* job's own has it before.
CarriesWant == sync.pc \in {"write"} \cup Applying => sync.rev.own = want
WantIsThere == gateway.loaded.own = want /\ disk.own = want
EditsArrive ==
    /\ \/ queued.rev = 0
       \/ queueJob.pc = "ok" /\ queueJob.rev = queued.rev
       => WantIsThere /\ CarriesWant
    /\ line # <<>> /\ Head(line).by = "queue" /\ queueJob.rev = queued.rev
       => CarriesWant /\ (sync.pc = "resolve" => WantIsThere)
=============================================================================
