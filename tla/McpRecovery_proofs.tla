------------------------- MODULE McpRecovery_proofs -------------------------
(* What holds of an agent's MCP configuration on its way to the gateway,    *)
(* for any number of edits, crashes, lost replies, refusals and foreign     *)
(* edits, and whatever the configuration may be.                            *)
EXTENDS McpRecovery, TLAPS

Entries == [by : {"queue", "recovery", "other"}, force : BOOLEAN]
Steps == {"idle", "write", "begin", "prepared", "refresh", "sent refresh",
          "refreshed", "reload", "sent reload", "reloaded", "failed",
          "failed, may retry", "unknown", "resolve", "alarm"}
Syncs == [pc : Steps, rev : Revisions, cut : BOOLEAN]
Jobs == [pc : {"idle", "waiting", "ok", "failed"}, rev : 0 .. MaxEdits]
Rows == [rev : 0 .. MaxEdits, spent : BOOLEAN]
Gateways == [loaded : Revisions, busy : {"no", "refresh", "reload"}]
Records == [state : {"none", "prepared", "refresh", "reload", "applied",
                     "failed"},
            desired : Revisions, retry : BOOLEAN, required : BOOLEAN]
Receipts == [held : BOOLEAN, rev : Revisions]

LEMMA Typed ==
    ASSUME McpTypeOK
    PROVE  /\ want \in Contents /\ edits \in 0 .. MaxEdits
           /\ queued \in Rows /\ disk \in Revisions /\ gateway \in Gateways
           /\ record \in Records /\ receipt \in Receipts
           /\ line \in Seq(Entries) /\ sync \in Syncs /\ queueJob \in Jobs
           /\ mine \in BOOLEAN /\ unsure \in BOOLEAN /\ overruled \in BOOLEAN
           /\ setbacks \in 0 .. MaxSetbacks
BY DEF McpTypeOK, Entries, Steps, Syncs, Jobs, Rows, Gateways, Records,
       Receipts

LEMMA Constants ==
    ASSUME ConstantsOK
    PROVE  /\ First \in Revisions
           /\ NoReceipt \in Receipts /\ NoReceipt.held = FALSE
           /\ NoSync \in Syncs /\ NoSync.pc = "idle"
           /\ [NoSync EXCEPT !.pc = "alarm"] \in Syncs
           /\ [NoSync EXCEPT !.pc = "alarm"].pc = "alarm"
           /\ [NoSync EXCEPT !.pc = "resolve"] \in Syncs
           /\ [NoSync EXCEPT !.pc = "resolve"].pc = "resolve"
           /\ NoJob \in Jobs /\ NoJob.pc = "idle"
           /\ MaxEdits \in Nat /\ MaxSetbacks \in Nat
<1>1. First \in Revisions
  BY DEF ConstantsOK, First, Revisions
<1>2. NoReceipt \in Receipts /\ NoReceipt.held = FALSE
  BY <1>1 DEF NoReceipt, Receipts
<1>3. NoSync \in Syncs /\ NoSync.pc = "idle"
  BY <1>1 DEF NoSync, Syncs, Steps
<1>4. \A pc \in Steps : [NoSync EXCEPT !.pc = pc] \in Syncs
                       /\ [NoSync EXCEPT !.pc = pc].pc = pc
  BY <1>3 DEF Syncs
<1>5. "alarm" \in Steps /\ "resolve" \in Steps
  BY DEF Steps
<1>6. MaxEdits \in Nat /\ MaxSetbacks \in Nat
  BY DEF ConstantsOK
<1>7. NoJob \in Jobs /\ NoJob.pc = "idle"
  BY <1>6 DEF NoJob, Jobs
<1> QED
  BY <1>1, <1>2, <1>3, <1>4, <1>5, <1>6, <1>7

---------------------------------------------------------------------------
(* The line                                                                 *)

LEMMA Line ==
    ASSUME McpTypeOK, line # <<>>
    PROVE  /\ Head(line) = line[1] /\ Head(line) \in Entries
           /\ 1 \in 1 .. Len(line)
           /\ Tail(line) \in Seq(Entries)
           /\ Len(Tail(line)) = Len(line) - 1
           /\ \A n \in 1 .. Len(Tail(line)) :
                 n + 1 \in 1 .. Len(line) /\ Tail(line)[n] = line[n + 1]
BY Typed

LEMMA Joined ==
    ASSUME McpTypeOK, NEW by \in {"queue", "recovery", "other"},
           NEW force \in BOOLEAN, JoinLine(by, force)
    PROVE  /\ line' \in Seq(Entries) /\ line' # <<>>
           /\ Len(line') = Len(line) + 1 /\ Len(line) \in Nat
           /\ \A n \in 1 .. Len(line) : line'[n] = line[n]
           /\ line'[Len(line) + 1].by = by
           /\ line # <<>> => Head(line') = Head(line)
<1>1. [by |-> by, force |-> force] \in Entries
  BY DEF Entries
<1>2. line' = Append(line, [by |-> by, force |-> force])
  BY DEF JoinLine
<1>3. line \in Seq(Entries)
  BY Typed
<1>4. [by |-> by, force |-> force].by = by
  OBVIOUS
<1> HIDE DEF Entries
<1> QED
  BY <1>1, <1>2, <1>3, <1>4

LEMMA Finished ==
    ASSUME ConstantsOK, McpTypeOK, line # <<>>, NEW ok \in BOOLEAN, Finish(ok)
    PROVE  /\ line' = Tail(line) /\ line' \in Seq(Entries)
           /\ sync' \in Syncs /\ sync'.pc = "idle"
           /\ queueJob' \in Jobs /\ queueJob'.rev = queueJob.rev
           /\ IF Head(line).by = "queue"
              THEN queueJob'.pc = IF ok THEN "ok" ELSE "failed"
              ELSE queueJob' = queueJob
           /\ mine' \in BOOLEAN
<1>1. queueJob \in Jobs /\ mine \in BOOLEAN
  BY Typed
<1>2. /\ [queueJob EXCEPT !.pc = IF ok THEN "ok" ELSE "failed"] \in Jobs
      /\ [queueJob EXCEPT !.pc = IF ok THEN "ok" ELSE "failed"].pc =
            IF ok THEN "ok" ELSE "failed"
      /\ [queueJob EXCEPT !.pc = IF ok THEN "ok" ELSE "failed"].rev =
            queueJob.rev
  BY <1>1 DEF Jobs
<1> QED
  BY <1>1, <1>2, Constants, Line DEF Finish

---------------------------------------------------------------------------
(* What the steps of a sync do                                              *)

LEMMA SyncGoes ==
    ASSUME McpTypeOK, NEW pc \in Steps
    PROVE  LET new == [sync EXCEPT !.pc = pc]
           IN  /\ new \in Syncs /\ new.pc = pc
               /\ new.rev = sync.rev /\ new.cut = sync.cut
BY Typed DEF Syncs

LEMMA EnterEffect ==
    ASSUME ConstantsOK, McpTypeOK, Enter
    PROVE  /\ line # <<>> /\ sync.pc = "idle"
           /\ \/ Finish(FALSE)
              \/ /\ sync' \in Syncs /\ sync'.pc = "write"
                 /\ sync'.rev.own = want
                 /\ UNCHANGED <<line, queueJob, mine>>
<1>1. sync \in Syncs /\ sync.rev \in Revisions /\ want \in Contents
  BY Typed DEF Syncs
<1> DEFINE rev == [sync.rev EXCEPT !.own = want]
           new == [sync EXCEPT !.pc = "write", !.rev = rev]
<1>2. rev \in Revisions /\ rev.own = want
  BY <1>1 DEF Revisions
<1>3. new \in Syncs /\ new.pc = "write" /\ new.rev.own = want
  <2> HIDE DEF rev
  <2> QED
    BY <1>1, <1>2 DEF Syncs, Steps
<1>4. line # <<>> /\ sync.pc = "idle"
  BY DEF Enter, At
<1>5. Finish(FALSE) \/ (sync' = new /\ UNCHANGED <<line, queueJob, mine>>)
  BY DEF Enter
<1> HIDE DEF new
<1> QED
  BY <1>3, <1>4, <1>5

LEMMA WriteFilesEffect ==
    ASSUME McpTypeOK, WriteFiles
    PROVE  /\ line # <<>> /\ sync.pc = "write"
           /\ disk' \in Revisions
           /\ disk'.own = sync.rev.own /\ disk'.shared = disk.shared
           /\ sync' \in Syncs /\ sync'.pc = "begin" /\ sync'.rev = disk'
<1>1. sync \in Syncs /\ sync.rev \in Revisions /\ disk \in Revisions
  BY Typed DEF Syncs
<1>2. disk' = [disk EXCEPT !.own = sync.rev.own]
  BY DEF WriteFiles
<1>3. /\ disk' \in Revisions
      /\ disk'.own = sync.rev.own /\ disk'.shared = disk.shared
  BY <1>1, <1>2 DEF Revisions
<1>4. sync' = [sync EXCEPT !.pc = "begin", !.rev = disk']
  BY DEF WriteFiles
<1>5. sync' \in Syncs /\ sync'.pc = "begin" /\ sync'.rev = disk'
  BY <1>1, <1>3, <1>4 DEF Syncs, Steps
<1> QED
  BY <1>3, <1>5 DEF WriteFiles, At

LEMMA RejectedEffect ==
    ASSUME ConstantsOK, Rejected
    PROVE  /\ sync' \in Syncs /\ sync'.pc = "alarm"
           /\ UNCHANGED <<record, overruled>>
BY Constants DEF Rejected

\* What a begin comes to.
LEMMA BeginEffect ==
    ASSUME ConstantsOK, McpTypeOK, Begin
    PROVE  /\ line # <<>> /\ sync.pc = "begin" /\ sync' \in Syncs
           /\ receipt' \in {receipt, NoReceipt}
           /\ \/ /\ sync'.pc = "resolve" /\ Current
                 /\ UNCHANGED <<record, receipt, overruled>>
              \/ sync'.pc = "alarm" /\ UNCHANGED <<record, overruled>>
              \/ /\ sync'.pc = "prepared" /\ sync'.rev = sync.rev
                 /\ record' \in Records
                 /\ overruled' \in BOOLEAN
                 /\ unsure => overruled' \/ ~Uncertain
                 /\ overruled => overruled'
                 /\ UNCHANGED receipt
<1>1. /\ sync \in Syncs /\ sync.rev \in Revisions
      /\ unsure \in BOOLEAN /\ overruled \in BOOLEAN
  BY Typed DEF Syncs
<1>2. line # <<>> /\ sync.pc = "begin" /\ Forced \in BOOLEAN
  <2>1. line # <<>> /\ sync.pc = "begin"
    BY DEF Begin, At
  <2> QED
    BY <2>1, Line DEF Forced, Entries
<1>3. CASE /\ Current /\ sync' = [NoSync EXCEPT !.pc = "resolve"]
           /\ UNCHANGED <<record, receipt, overruled>>
  BY <1>2, <1>3, Constants
<1>4. CASE Rejected /\ receipt' \in {receipt, NoReceipt}
  BY <1>2, <1>4, RejectedEffect
<1>5. CASE Prepared /\ (Forced \/ ~Uncertain)
  <2> DEFINE new == [sync EXCEPT !.pc = "prepared", !.cut = FALSE]
  <2>1. new \in Syncs /\ new.pc = "prepared" /\ new.rev = sync.rev
    BY <1>1 DEF Syncs, Steps
  <2>2. [state |-> "prepared", desired |-> sync.rev, retry |-> FALSE,
         required |-> FALSE] \in Records
    BY <1>1 DEF Records
  <2> QED
    BY <1>1, <1>2, <1>5, <2>1, <2>2 DEF Prepared
<1>6. \/ /\ Current /\ sync' = [NoSync EXCEPT !.pc = "resolve"]
         /\ UNCHANGED <<record, receipt, overruled>>
      \/ Rejected /\ receipt' \in {receipt, NoReceipt}
      \/ Prepared /\ (Forced \/ ~Uncertain)
  BY DEF Begin, MayPrepare
<1> QED
  BY <1>3, <1>4, <1>5, <1>6

LEMMA PhaseEffect ==
    ASSUME ConstantsOK, McpTypeOK, Phase
    PROVE  /\ line # <<>> /\ sync.pc \in {"prepared", "refreshed"}
           /\ sync' \in Syncs /\ sync'.rev = sync.rev
           /\ record' \in Records
           /\ \/ sync'.pc = "unknown" /\ UNCHANGED record
              \/ /\ sync'.pc \in {"refresh", "reload"}
                 /\ record'.state = sync'.pc
                 /\ record'.required = record.required
<1>1. line # <<>> /\ sync.pc \in {"prepared", "refreshed"}
  BY DEF Phase, At
<1>2. record \in Records
  BY Typed
<1>3. CASE Fail("unknown") /\ UNCHANGED record
  <2>1. "unknown" \in Steps
    BY DEF Steps
  <2> QED
    BY <1>1, <1>2, <1>3, <2>1, SyncGoes DEF Fail
<1>4. ASSUME NEW phase \in {"refresh", "reload"},
             record' = [record EXCEPT !.state = phase],
             sync' = [sync EXCEPT !.pc = phase]
      PROVE  /\ sync' \in Syncs /\ sync'.rev = sync.rev
             /\ record' \in Records
             /\ sync'.pc = phase /\ record'.state = phase
             /\ record'.required = record.required
  <2>1. phase \in Steps
    BY DEF Steps
  <2>2. /\ record' \in Records /\ record'.state = phase
        /\ record'.required = record.required
    BY <1>2, <1>4 DEF Records
  <2> QED
    BY <1>4, <2>1, <2>2, SyncGoes
<1>5. \/ Fail("unknown") /\ UNCHANGED record
      \/ \E phase \in {"refresh", "reload"} :
            /\ record' = [record EXCEPT !.state = phase]
            /\ sync' = [sync EXCEPT !.pc = phase]
  BY DEF Phase, NextPhase
<1> QED
  BY <1>1, <1>3, <1>4, <1>5

LEMMA SendEffect ==
    ASSUME ConstantsOK, McpTypeOK, Send
    PROVE  /\ line # <<>> /\ sync' \in Syncs /\ sync'.rev = sync.rev
           /\ sync.pc \in {"refresh", "reload"}
           /\ \/ /\ sync'.pc = "unknown" /\ UNCHANGED gateway
              \/ /\ sync'.pc = "failed, may retry" /\ UNCHANGED gateway
                 /\ gateway.busy # "no"
              \/ /\ gateway' \in Gateways /\ gateway'.busy = sync.pc
                 /\ gateway'.loaded = gateway.loaded
                 /\ sync'.pc = IF sync.pc = "refresh" THEN "sent refresh"
                               ELSE "sent reload"
<1>1. line # <<>> /\ sync.pc \in {"refresh", "reload"}
  BY DEF Send, At
<1>2. gateway \in Gateways
  BY Typed
<1>3. {"unknown", "failed, may retry", "sent refresh", "sent reload"}
         \subseteq Steps
  BY DEF Steps
<1>4. CASE Fail("unknown") /\ UNCHANGED gateway
  BY <1>1, <1>3, <1>4, SyncGoes DEF Fail
<1>5. CASE /\ Fail("failed, may retry") /\ UNCHANGED gateway
           /\ gateway.busy # "no"
  BY <1>1, <1>3, <1>5, SyncGoes DEF Fail
<1>6. CASE /\ gateway' = [gateway EXCEPT !.busy = sync.pc]
           /\ sync' = [sync EXCEPT !.pc = Sent[sync.pc]]
  <2>1. Sent[sync.pc] = IF sync.pc = "refresh" THEN "sent refresh"
                        ELSE "sent reload"
    <3>1. CASE sync.pc = "refresh"
      BY <3>1 DEF Sent
    <3>2. CASE sync.pc = "reload"
      BY <3>2 DEF Sent
    <3> QED
      BY <1>1, <3>1, <3>2
  <2>2. /\ gateway' \in Gateways /\ gateway'.busy = sync.pc
        /\ gateway'.loaded = gateway.loaded
    BY <1>1, <1>2, <1>6 DEF Gateways
  <2> QED
    BY <1>1, <1>3, <1>6, <2>1, <2>2, SyncGoes
<1> QED
  BY <1>4, <1>5, <1>6 DEF Send

LEMMA VerifyEffect ==
    ASSUME ConstantsOK, McpTypeOK, Verify
    PROVE  /\ line # <<>> /\ sync.pc = "reloaded" /\ sync' \in Syncs
           /\ \/ /\ sync'.pc \in {"failed, may retry", "unknown"}
                 /\ UNCHANGED <<record, receipt>>
              \/ /\ sync'.pc = "resolve" /\ disk = sync.rev
                 /\ record' \in Records
                 /\ receipt' \in Receipts /\ receipt'.rev = sync.rev
<1>1. line # <<>> /\ sync.pc = "reloaded"
  BY DEF Verify, At
<1>2. {"unknown", "failed, may retry"} \subseteq Steps
  BY DEF Steps
<1>3. CASE /\ \E how \in {"failed, may retry", "unknown"} : Fail(how)
           /\ UNCHANGED <<record, receipt>>
  BY <1>1, <1>2, <1>3, SyncGoes DEF Fail
<1>4. CASE /\ disk = sync.rev
           /\ record' = [record EXCEPT !.state = "applied"]
           /\ receipt' = [held |-> TRUE, rev |-> sync.rev]
           /\ sync' = [NoSync EXCEPT !.pc = "resolve"]
  <2>1. sync.rev \in Revisions /\ record \in Records
    BY Typed DEF Syncs
  <2>2. record' \in Records
    BY <1>4, <2>1 DEF Records
  <2>3. receipt' \in Receipts /\ receipt'.rev = sync.rev
    BY <1>4, <2>1 DEF Receipts
  <2> QED
    BY <1>1, <1>4, <2>2, <2>3, Constants
<1> QED
  BY <1>3, <1>4 DEF Verify

LEMMA WriteFailureEffect ==
    ASSUME ConstantsOK, McpTypeOK, WriteFailure
    PROVE  /\ sync.pc \in {"failed", "failed, may retry", "unknown"}
           /\ line # <<>> /\ receipt' = NoReceipt /\ record' \in Records
           /\ record'.required = (sync.pc = "unknown")
           /\ sync' \in Syncs /\ sync'.pc = "alarm"
<1>1. PICK retry \in {FALSE, sync.pc = "failed, may retry"} :
         record' = [record EXCEPT !.state = "failed", !.retry = retry,
                                  !.required = sync.pc = "unknown"]
  BY DEF WriteFailure
<1>2. record \in Records /\ retry \in BOOLEAN
  BY Typed
<1>3. record' \in Records /\ record'.required = (sync.pc = "unknown")
  BY <1>1, <1>2 DEF Records
<1> QED
  BY <1>3, Constants DEF WriteFailure, Failures

LEMMA ResolveEffect ==
    ASSUME ConstantsOK, McpTypeOK, Resolve
    PROVE  /\ line # <<>> /\ sync.pc = "resolve"
           /\ incident' = "none"
           /\ line' = Tail(line) /\ line' \in Seq(Entries)
           /\ sync' \in Syncs /\ sync'.pc = "idle"
           /\ queueJob' \in Jobs /\ queueJob'.rev = queueJob.rev
           /\ IF Head(line).by = "queue" THEN queueJob'.pc = "ok"
              ELSE queueJob' = queueJob
           /\ mine' = FALSE
<1>1. line # <<>> /\ sync.pc = "resolve" /\ queueJob \in Jobs
  BY Typed DEF Resolve, At
<1>2. /\ [queueJob EXCEPT !.pc = "ok"] \in Jobs
      /\ [queueJob EXCEPT !.pc = "ok"].pc = "ok"
      /\ [queueJob EXCEPT !.pc = "ok"].rev = queueJob.rev
  BY <1>1 DEF Jobs
<1> QED
  BY <1>1, <1>2, Line, Constants DEF Resolve

---------------------------------------------------------------------------
(* What the gateway, the process and others do                              *)

IsSent == sync.pc \in {"sent refresh", "sent reload"}

LEMMA RefuseEffect ==
    ASSUME McpTypeOK, Refuse
    PROVE  /\ line # <<>> /\ IsSent
           /\ gateway' \in Gateways /\ gateway'.busy = "no"
           /\ gateway'.loaded = gateway.loaded
           /\ sync' \in Syncs
           /\ sync'.pc \in {"failed", "failed, may retry"}
<1>1. gateway \in Gateways /\ gateway' = [gateway EXCEPT !.busy = "no"]
  BY Typed DEF Refuse
<1>2. /\ gateway' \in Gateways /\ gateway'.busy = "no"
      /\ gateway'.loaded = gateway.loaded
  BY <1>1 DEF Gateways
<1>3. {"failed", "failed, may retry"} \subseteq Steps
  BY DEF Steps
<1> QED
  BY <1>2, <1>3, SyncGoes DEF Refuse, Fail, Awaited, At, IsSent

LEMMA TimeOutEffect ==
    ASSUME McpTypeOK, TimeOut
    PROVE  /\ line # <<>> /\ IsSent /\ unsure' = TRUE
           /\ sync' \in Syncs /\ sync'.pc = "unknown"
<1>1. "unknown" \in Steps
  BY DEF Steps
<1> QED
  BY <1>1, SyncGoes DEF TimeOut, Fail, Awaited, At, IsSent

\* A call that the gateway completes.
LEMMA PerformEffect ==
    ASSUME McpTypeOK, WithinBounds, Perform
    PROVE  /\ gateway.busy # "no"
           /\ gateway' \in Gateways /\ gateway'.busy = "no"
           /\ gateway'.loaded = IF gateway.busy = "reload" THEN disk
                                ELSE gateway.loaded
           /\ sync' \in Syncs /\ sync'.rev = sync.rev
           /\ sync'.pc = IF sync.pc = "sent refresh" THEN "refreshed"
                         ELSE IF sync.pc = "sent reload" THEN "reloaded"
                         ELSE sync.pc
           /\ unsure' \in BOOLEAN /\ overruled' \in BOOLEAN
           /\ IF sync.pc = "sent reload" THEN unsure' = FALSE
              ELSE UNCHANGED <<unsure, overruled>>
<1>1. /\ gateway \in Gateways /\ disk \in Revisions /\ sync.pc \in Steps
      /\ unsure \in BOOLEAN /\ overruled \in BOOLEAN
  BY Typed DEF Syncs
<1>2. gateway' = [gateway EXCEPT !.busy = "no",
                     !.loaded = IF gateway.busy = "reload" THEN disk
                                ELSE gateway.loaded]
  BY DEF Perform
<1>3. /\ gateway' \in Gateways /\ gateway'.busy = "no"
      /\ gateway'.loaded = IF gateway.busy = "reload" THEN disk
                           ELSE gateway.loaded
  BY <1>1, <1>2 DEF Gateways
<1>4. \A pc \in {"sent refresh", "sent reload"} : At(pc) <=> sync.pc = pc
  BY DEF At, WithinBounds
<1> DEFINE pc == IF sync.pc = "sent refresh" THEN "refreshed"
                 ELSE IF sync.pc = "sent reload" THEN "reloaded"
                 ELSE sync.pc
<1>5. pc \in Steps
  BY <1>1 DEF Steps
<1>6. sync' = [sync EXCEPT !.pc = pc]
  BY <1>4 DEF Perform
<1> HIDE DEF pc
<1>7. sync' \in Syncs /\ sync'.rev = sync.rev /\ sync'.pc = pc
  BY <1>5, <1>6, SyncGoes
<1>8. /\ gateway.busy # "no"
      /\ IF sync.pc = "sent reload" THEN unsure' = FALSE /\ overruled' = FALSE
         ELSE UNCHANGED <<unsure, overruled>>
  BY <1>4 DEF Perform
<1> QED
  BY <1>1, <1>3, <1>7, <1>8 DEF pc

LEMMA DisconnectEffect ==
    ASSUME ConstantsOK, McpTypeOK, WithinBounds, Disconnect
    PROVE  /\ gateway' \in Gateways
           /\ gateway' = gateway \/ /\ gateway'.loaded = disk
                                    /\ gateway'.busy = "no"
           /\ receipt' = NoReceipt
           /\ sync' \in Syncs /\ sync'.rev = sync.rev
           /\ IF IsSent THEN sync'.pc = "unknown" /\ unsure' = TRUE
              ELSE sync'.pc = sync.pc /\ UNCHANGED unsure
<1>1. gateway \in Gateways /\ disk \in Revisions /\ sync \in Syncs
  BY Typed
<1>2. /\ [loaded |-> disk, busy |-> "no"] \in Gateways
      /\ [loaded |-> disk, busy |-> "no"].loaded = disk
      /\ [loaded |-> disk, busy |-> "no"].busy = "no"
  BY <1>1 DEF Gateways
<1>3. gateway' \in {gateway, [loaded |-> disk, busy |-> "no"]}
  BY DEF Disconnect
<1>4. Awaited <=> IsSent
  BY DEF Awaited, At, IsSent, WithinBounds
<1>5. CASE IsSent
  <2>1. sync' = [sync EXCEPT !.pc = "unknown"] /\ unsure' = TRUE
    BY <1>4, <1>5 DEF Disconnect, Fail
  <2>2. "unknown" \in Steps
    BY DEF Steps
  <2> QED
    BY <1>1, <1>2, <1>3, <1>5, <2>1, <2>2, SyncGoes DEF Disconnect
<1>6. CASE ~IsSent
  <2> DEFINE cut == sync.pc \in {"prepared", "refresh", "refreshed",
                                 "reload", "reloaded"}
  <2>1. UNCHANGED unsure /\ sync' = [sync EXCEPT !.cut = cut]
    BY <1>4, <1>6 DEF Disconnect
  <2>2. cut \in BOOLEAN
    OBVIOUS
  <2> HIDE DEF cut
  <2>3. sync' \in Syncs /\ sync'.rev = sync.rev /\ sync'.pc = sync.pc
    BY <1>1, <2>1, <2>2 DEF Syncs
  <2> QED
    BY <1>1, <1>2, <1>3, <1>6, <2>1, <2>3 DEF Disconnect
<1> QED
  BY <1>5, <1>6

LEMMA CrashEffect ==
    ASSUME ConstantsOK, McpTypeOK, WithinBounds, Crash
    PROVE  /\ receipt' = NoReceipt /\ line' = <<>> /\ sync' = NoSync
           /\ queueJob' = NoJob /\ mine' = FALSE
           /\ unsure' \in BOOLEAN /\ unsure' = (unsure \/ IsSent)
<1>1. Awaited <=> IsSent
  BY DEF Awaited, At, IsSent, WithinBounds
<1> QED
  BY <1>1, Typed DEF Crash

LEMMA ForeignEditEffect ==
    ASSUME ConstantsOK, McpTypeOK, WithinBounds, ForeignEdit
    PROVE  /\ disk' \in Revisions /\ disk'.own = disk.own
           /\ disk'.shared = disk.shared + 1 /\ disk'.shared <= setbacks'
<1>1. /\ disk \in Revisions /\ setbacks \in 0 .. MaxSetbacks
      /\ MaxSetbacks \in Nat
  BY Typed, Constants
<1>2. /\ setbacks < MaxSetbacks /\ setbacks' = setbacks + 1
      /\ disk' = [disk EXCEPT !.shared = @ + 1] /\ disk.shared <= setbacks
  BY DEF ForeignEdit, Setback, WithinBounds
<1>3. disk.shared + 1 \in 0 .. MaxSetbacks
  BY <1>1, <1>2 DEF Revisions
<1> QED
  BY <1>1, <1>2, <1>3 DEF Revisions

LEMMA EditEffect ==
    ASSUME ConstantsOK, McpTypeOK, WithinBounds, Edit
    PROVE  /\ edits' \in 0 .. MaxEdits /\ want' \in Contents
           /\ queued' \in Rows /\ queued'.rev = queued.rev + 1
           /\ queued'.rev <= edits' /\ queued.rev \in Nat
<1>1. edits \in 0 .. MaxEdits /\ queued \in Rows /\ MaxEdits \in Nat
  BY Typed, Constants
<1>2. /\ edits < MaxEdits /\ edits' = edits + 1 /\ queued.rev <= edits
      /\ queued' = [rev |-> queued.rev + 1, spent |-> FALSE]
      /\ want' \in Contents
  BY DEF Edit, WithinBounds
<1>3. queued.rev \in 0 .. MaxEdits
  BY <1>1 DEF Rows
<1>4. queued' \in Rows /\ queued'.rev = queued.rev + 1
  BY <1>1, <1>2, <1>3 DEF Rows
<1> QED
  BY <1>1, <1>2, <1>3, <1>4

LEMMA QueueTakesEffect ==
    ASSUME ConstantsOK, McpTypeOK, QueueTakes
    PROVE  /\ queueJob.pc = "idle" /\ queued.rev # 0
           /\ queueJob' \in Jobs /\ queueJob'.pc = "waiting"
           /\ queueJob'.rev = queued.rev
           /\ JoinLine("queue", FALSE)
<1>1. queued.rev \in 0 .. MaxEdits
  BY Typed DEF Rows
<1>2. /\ queueJob.pc = "idle" /\ queued.rev # 0
      /\ queueJob' = [pc |-> "waiting", rev |-> queued.rev]
  BY DEF QueueTakes
<1>3. JoinLine("queue", FALSE)
  BY DEF QueueTakes
<1>4. /\ queueJob' \in Jobs /\ queueJob'.pc = "waiting"
      /\ queueJob'.rev = queued.rev
  BY <1>1, <1>2 DEF Jobs
<1> QED
  BY <1>2, <1>3, <1>4

LEMMA QueueEndsEffect ==
    ASSUME ConstantsOK, McpTypeOK, QueueEnds
    PROVE  /\ queueJob.pc \in {"ok", "failed"} /\ queueJob' = NoJob
           /\ queued' \in Rows
           /\ queued'.rev = IF queued.rev = queueJob.rev /\ queueJob.pc = "ok"
                            THEN 0 ELSE queued.rev
<1>1. queued \in Rows /\ MaxEdits \in Nat
  BY Typed, Constants
<1>2. PICK spent \in BOOLEAN :
         queued' = IF queued.rev # queueJob.rev THEN queued
                   ELSE IF queueJob.pc = "ok"
                   THEN [rev |-> 0, spent |-> FALSE]
                   ELSE [queued EXCEPT !.spent = spent]
  BY DEF QueueEnds
<1>3. /\ [rev |-> 0, spent |-> FALSE] \in Rows
      /\ [rev |-> 0, spent |-> FALSE].rev = 0
      /\ [queued EXCEPT !.spent = spent] \in Rows
      /\ [queued EXCEPT !.spent = spent].rev = queued.rev
  BY <1>1 DEF Rows
<1> QED
  BY <1>1, <1>2, <1>3 DEF QueueEnds

---------------------------------------------------------------------------
(* Typing                                                                   *)

\* What a sync that comes to an end, at whichever step, leaves alone.
Ends == \/ Enter /\ Finish(FALSE)
        \/ WriteFails \/ Alarm \/ AlarmFails

LEMMA EndsEffect ==
    ASSUME ConstantsOK, McpTypeOK, Ends
    PROVE  /\ line # <<>> /\ Finish(FALSE)
           /\ sync.pc \in {"idle", "write", "alarm"}
           /\ UNCHANGED <<want, edits, queued, disk, gateway, record, receipt,
                          unsure, overruled>>
BY DEF Ends, Enter, WriteFails, Alarm, AlarmFails, At

\* Steps that have to do with incidents alone.
Incidents == Late \/ Escalate \/ OperatorRetries \/ Restore

\* What begins a sync, the queue aside.
NotQueue == RecoveryTakes \/ Other

LEMMA NextIs ==
    ASSUME [Next]_vars
    PROVE  \/ Edit \/ QueueTakes \/ QueueEnds \/ NotQueue
           \/ (Enter /\ ~Finish(FALSE)) \/ Ends
           \/ WriteFiles \/ Begin \/ Phase \/ Send \/ Verify \/ WriteFailure
           \/ Resolve \/ GatewayAway \/ ResolveFails
           \/ Perform \/ Refuse \/ TimeOut \/ Disconnect \/ Incidents
           \/ Crash \/ ForeignEdit \/ UNCHANGED vars
BY DEF Next, SyncStep, NotQueue, Ends, Incidents

LEMMA SmallTyped ==
    ASSUME ConstantsOK, McpTypeOK, [Next]_vars
    PROVE  /\ incident' \in {"none", "recovering", "late", "attention"}
           /\ restored' \in BOOLEAN /\ mine' \in BOOLEAN
           /\ setbacks' \in 0 .. MaxSetbacks /\ setbacks <= setbacks'
<1>1. incident' \in {"none", "recovering", "late", "attention"}
  BY DEF McpTypeOK, Next, SyncStep, Edit, QueueTakes, QueueEnds,
         RecoveryTakes, Other, Enter, WriteFiles, Begin, Phase, Send, Verify,
         WriteFailure, Resolve, Alarm, WriteFails, GatewayAway, AlarmFails,
         ResolveFails, Perform, Refuse, TimeOut, Disconnect, Late, Escalate,
         OperatorRetries, Restore, Crash, ForeignEdit, vars
<1>2. restored' \in BOOLEAN
  BY DEF McpTypeOK, Next, SyncStep, Edit, QueueTakes, QueueEnds,
         RecoveryTakes, Other, Enter, WriteFiles, Begin, Phase, Send, Verify,
         WriteFailure, Resolve, Alarm, WriteFails, GatewayAway, AlarmFails,
         ResolveFails, Perform, Refuse, TimeOut, Disconnect, Late, Escalate,
         OperatorRetries, Restore, Crash, ForeignEdit, vars
<1>3. mine' \in BOOLEAN
  <2>1. \/ UNCHANGED mine \/ Ends \/ RecoveryTakes \/ Resolve \/ Crash
    BY DEF Next, SyncStep, Ends, Edit, QueueTakes, QueueEnds, Other, Enter,
           WriteFiles, Begin, Phase, Send, Verify, WriteFailure, GatewayAway,
           ResolveFails, Perform, Refuse, TimeOut, Disconnect, Late, Escalate,
           OperatorRetries, Restore, ForeignEdit, vars
  <2>2. mine \in BOOLEAN
    BY Typed
  <2> QED
    BY <2>1, <2>2, EndsEffect, Finished DEF RecoveryTakes, Resolve, Crash
<1>4. \/ UNCHANGED setbacks
      \/ setbacks < MaxSetbacks /\ setbacks' = setbacks + 1
  BY DEF Setback, Next, SyncStep, Edit, QueueTakes, QueueEnds, RecoveryTakes,
         Other, Enter, WriteFiles, Begin, Phase, Send, Verify, WriteFailure,
         Resolve, Alarm, WriteFails, GatewayAway, AlarmFails, ResolveFails,
         Perform, Refuse, TimeOut, Disconnect, Late, Escalate,
         OperatorRetries, Restore, Crash, ForeignEdit, vars
<1> QED
  BY <1>1, <1>2, <1>3, <1>4, Typed, Constants

\* The rest of the typing, and the bounds.
Shaped ==
    /\ want \in Contents /\ edits \in 0 .. MaxEdits
    /\ queued \in Rows /\ disk \in Revisions /\ gateway \in Gateways
    /\ record \in Records /\ receipt \in Receipts
    /\ line \in Seq(Entries) /\ sync \in Syncs /\ queueJob \in Jobs
    /\ unsure \in BOOLEAN /\ overruled \in BOOLEAN
    /\ queued.rev <= edits /\ disk.shared <= setbacks
    /\ sync.pc # "idle" => line # <<>>

LEMMA StepShaped ==
    ASSUME ConstantsOK, McpTypeOK, WithinBounds, [Next]_vars
    PROVE  Shaped'
<1>0. Shaped /\ NoReceipt \in Receipts
  BY Typed, Constants DEF Shaped, WithinBounds
<1>1. disk.shared <= setbacks'
  <2>1. disk.shared \in 0 .. MaxSetbacks /\ setbacks \in 0 .. MaxSetbacks
    BY Typed DEF Revisions
  <2> QED
    BY <2>1, Constants, SmallTyped DEF WithinBounds
<1>2. CASE Edit
  BY <1>0, <1>1, <1>2, EditEffect DEF Shaped, Edit
<1>3. CASE QueueTakes
  BY <1>0, <1>1, <1>3, QueueTakesEffect, Joined DEF Shaped, QueueTakes
<1>4. CASE QueueEnds
  <2>1. 0 <= edits
    BY Typed, Constants
  <2> QED
    BY <1>0, <1>1, <1>4, <2>1, QueueEndsEffect, Constants
    DEF Shaped, QueueEnds
<1>5. CASE NotQueue
  <2>1. \/ JoinLine("recovery", TRUE)
        \/ \E force \in BOOLEAN : JoinLine("other", force)
    BY <1>5 DEF NotQueue, RecoveryTakes, Other
  <2>2. line' \in Seq(Entries) /\ line' # <<>>
    BY <2>1, Joined
  <2> QED
    BY <1>0, <1>1, <1>5, <2>2 DEF Shaped, NotQueue, RecoveryTakes, Other
<1>6. CASE Enter /\ ~Finish(FALSE)
  BY <1>0, <1>1, <1>6, EnterEffect DEF Shaped, Enter
<1>7. CASE Ends
  BY <1>0, <1>1, <1>7, EndsEffect, Finished DEF Shaped
<1>8. CASE WriteFiles
  BY <1>0, <1>1, <1>8, WriteFilesEffect DEF Shaped, WriteFiles
<1>9. CASE Begin
  BY <1>0, <1>1, <1>9, BeginEffect DEF Shaped, Begin
<1>10. CASE Phase
  BY <1>0, <1>1, <1>10, PhaseEffect DEF Shaped, Phase
<1>11. CASE Send
  BY <1>0, <1>1, <1>11, SendEffect DEF Shaped, Send
<1>12. CASE Verify
  BY <1>0, <1>1, <1>12, VerifyEffect DEF Shaped, Verify
<1>13. CASE WriteFailure
  BY <1>0, <1>1, <1>13, WriteFailureEffect DEF Shaped, WriteFailure
<1>14. CASE Resolve
  BY <1>0, <1>1, <1>14, ResolveEffect DEF Shaped, Resolve
<1>15. CASE GatewayAway
  BY <1>0, <1>1, <1>15, RejectedEffect DEF Shaped, GatewayAway, At
<1>16. CASE ResolveFails
  BY <1>0, <1>1, <1>16, Constants DEF Shaped, ResolveFails, At
<1>17. CASE Perform
  BY <1>0, <1>1, <1>17, PerformEffect DEF Shaped, Perform
<1>18. CASE Refuse
  BY <1>0, <1>1, <1>18, RefuseEffect DEF Shaped, Refuse
<1>19. CASE TimeOut
  BY <1>0, <1>1, <1>19, TimeOutEffect DEF Shaped, TimeOut
<1>20. CASE Disconnect
  BY <1>0, <1>1, <1>20, DisconnectEffect DEF Shaped, Disconnect, IsSent
<1>21. CASE Crash
  BY <1>0, <1>1, <1>21, CrashEffect, Constants DEF Shaped, Crash
<1>22. CASE ForeignEdit
  BY <1>0, <1>22, ForeignEditEffect DEF Shaped, ForeignEdit
<1>23. CASE Incidents \/ UNCHANGED vars
  BY <1>0, <1>1, <1>23
  DEF Shaped, Incidents, Late, Escalate, OperatorRetries, Restore, vars
<1> QED
  BY <1>2, <1>3, <1>4, <1>5, <1>6, <1>7, <1>8, <1>9, <1>10, <1>11, <1>12,
     <1>13, <1>14, <1>15, <1>16, <1>17, <1>18, <1>19, <1>20, <1>21, <1>22,
     <1>23, NextIs

LEMMA StepTyped ==
    ASSUME ConstantsOK, McpTypeOK, WithinBounds, [Next]_vars
    PROVE  McpTypeOK' /\ WithinBounds'
<1>1. Shaped'
  BY StepShaped
<1> QED
  BY <1>1, SmallTyped
  DEF Shaped, WithinBounds, McpTypeOK, Entries, Steps, Syncs, Jobs, Rows,
      Gateways, Records, Receipts

---------------------------------------------------------------------------
(* Uncertainty                                                              *)

\* Steps of callers, operators and others, who are not at the sync.
Outside == Edit \/ QueueTakes \/ QueueEnds \/ NotQueue \/ Incidents

LEMMA OutsideFrame ==
    ASSUME Outside \/ UNCHANGED vars
    PROVE  UNCHANGED <<disk, gateway, record, receipt, sync, unsure,
                       overruled>>
BY DEF Outside, Edit, QueueTakes, QueueEnds, NotQueue, RecoveryTakes, Other,
       Incidents, Late, Escalate, OperatorRetries, Restore, vars

LEMMA StepPhase ==
    ASSUME ConstantsOK, McpTypeOK, WithinBounds, PhaseOnRecord,
           UncertaintyOnRecord, [Next]_vars
    PROVE  PhaseOnRecord' /\ UncertaintyOnRecord'
<1> USE DEF PhaseOnRecord, UncertaintyOnRecord, Uncertain, Refreshing,
            Reloading
<1>0. /\ unsure \in BOOLEAN /\ overruled \in BOOLEAN
      /\ unsure' \in BOOLEAN /\ overruled' \in BOOLEAN
      /\ record \in Records /\ record.required \in BOOLEAN
  BY Typed, StepShaped DEF Shaped, Records
<1>1. CASE Outside \/ UNCHANGED vars
  BY <1>0, <1>1, OutsideFrame
<1>2. CASE Enter /\ ~Finish(FALSE)
  BY <1>0, <1>2, EnterEffect DEF Enter
<1>3. CASE Ends
  BY <1>0, <1>3, EndsEffect, Finished
<1>4. CASE WriteFiles
  BY <1>0, <1>4, WriteFilesEffect DEF WriteFiles
<1>5. CASE Begin
  <2>1. UNCHANGED unsure
    BY <1>5 DEF Begin
  <2>2. CASE sync'.pc # "prepared"
    BY <1>0, <1>5, <2>1, <2>2, BeginEffect
  <2>3. CASE sync'.pc = "prepared"
    BY <1>0, <1>5, <2>1, <2>3, BeginEffect
  <2> QED
    BY <2>2, <2>3
<1>6. CASE Phase
  BY <1>0, <1>6, PhaseEffect DEF Phase
<1>7. CASE Send
  BY <1>0, <1>7, SendEffect DEF Send
<1>8. CASE Verify
  <2>1. UNCHANGED <<unsure, overruled>>
    BY <1>8 DEF Verify
  <2> QED
    BY <1>0, <1>8, <2>1, VerifyEffect
<1>9. CASE WriteFailure
  <2>1. UNCHANGED <<unsure, overruled>>
    BY <1>9 DEF WriteFailure
  <2> QED
    BY <1>0, <1>9, <2>1, WriteFailureEffect
<1>10. CASE Resolve
  BY <1>0, <1>10, ResolveEffect DEF Resolve
<1>11. CASE GatewayAway
  BY <1>0, <1>11, RejectedEffect DEF GatewayAway
<1>12. CASE ResolveFails
  BY <1>0, <1>12, Constants DEF ResolveFails
<1>13. CASE Perform
  <2>1. UNCHANGED record
    BY <1>13 DEF Perform
  <2>2. CASE sync.pc = "sent reload"
    BY <1>0, <1>13, <2>1, <2>2, PerformEffect
  <2>3. CASE sync.pc # "sent reload"
    BY <1>0, <1>13, <2>1, <2>3, PerformEffect
  <2> QED
    BY <2>2, <2>3
<1>14. CASE Refuse
  BY <1>0, <1>14, RefuseEffect DEF Refuse, IsSent
<1>15. CASE TimeOut
  BY <1>0, <1>15, TimeOutEffect DEF TimeOut, IsSent
<1>16. CASE Disconnect
  BY <1>0, <1>16, DisconnectEffect DEF Disconnect, IsSent
<1>17. CASE Crash
  BY <1>0, <1>17, CrashEffect, Constants DEF Crash, IsSent
<1>18. CASE ForeignEdit
  BY <1>0, <1>18 DEF ForeignEdit
<1> QED
  BY <1>1, <1>2, <1>3, <1>4, <1>5, <1>6, <1>7, <1>8, <1>9, <1>10, <1>11,
     <1>12, <1>13, <1>14, <1>15, <1>16, <1>17, <1>18, NextIs DEF Outside

---------------------------------------------------------------------------
(* Files, gateway and receipt                                               *)

LEMMA Shares ==
    ASSUME McpTypeOK, ConstantsOK
    PROVE  /\ sync.rev \in Revisions /\ gateway.loaded \in Revisions
           /\ disk \in Revisions /\ receipt.rev \in Revisions
           /\ sync.rev.shared \in Nat /\ gateway.loaded.shared \in Nat
           /\ disk.shared \in Nat
<1>1. /\ sync.rev \in Revisions /\ gateway.loaded \in Revisions
      /\ disk \in Revisions /\ receipt.rev \in Revisions
  BY Typed DEF Syncs, Gateways, Receipts
<1>2. /\ sync.rev.shared \in Nat /\ gateway.loaded.shared \in Nat
      /\ disk.shared \in Nat
  BY <1>1, Constants DEF Revisions
<1> QED
  BY <1>1, <1>2

LEMMA Ordered ==
    /\ \A n \in Nat : n <= n
    /\ \A m, n \in Nat : m <= n => m <= n + 1
    /\ \A m, n \in Nat : m <= n /\ n <= m => m = n
OBVIOUS

LEMMA Alike ==
    ASSUME NEW r \in Revisions, NEW s \in Revisions,
           r.own = s.own, r.shared = s.shared
    PROVE  r = s
BY DEF Revisions

LEMMA StepFiles ==
    ASSUME ConstantsOK, McpTypeOK, WithinBounds, FilesAsWritten,
           ReceiptStands, [Next]_vars
    PROVE  FilesAsWritten'
<1> USE DEF FilesAsWritten, Applying, Refreshing, Reloading
<1>00. /\ sync.rev.shared \in Nat /\ gateway.loaded.shared \in Nat
       /\ disk.shared \in Nat
       /\ sync.rev \in Revisions /\ gateway.loaded \in Revisions
  BY Shares
<1>1. CASE Outside \/ UNCHANGED vars
  BY <1>1, OutsideFrame
<1>2. CASE Enter /\ ~Finish(FALSE)
  BY <1>2, EnterEffect
<1>3. CASE Ends
  BY <1>3, EndsEffect, Finished
<1>4. CASE WriteFiles
  <2>1. /\ sync'.pc = "begin" /\ sync'.rev = disk'
        /\ disk'.shared = disk.shared
    BY <1>4, WriteFilesEffect
  <2>2. disk.shared <= disk.shared
    BY <1>00, Ordered
  <2> QED
    BY <2>1, <2>2
<1>5. CASE Begin
  BY <1>5, BeginEffect DEF Begin
<1>6. CASE Phase
  BY <1>6, PhaseEffect DEF Phase
<1>7. CASE Send
  BY <1>7, SendEffect DEF Send
<1>8. CASE Verify
  BY <1>8, VerifyEffect
<1>9. CASE WriteFailure
  BY <1>9, WriteFailureEffect
<1>10. CASE Resolve
  BY <1>10, ResolveEffect
<1>11. CASE GatewayAway
  BY <1>11, RejectedEffect DEF GatewayAway
<1>12. CASE ResolveFails
  BY <1>12, Constants DEF ResolveFails
<1>13. CASE Perform
  <2>1. UNCHANGED disk
    BY <1>13 DEF Perform
  <2>2. sync.pc # "reloaded"
    BY <1>13 DEF Perform
  <2>3. CASE sync.pc = "sent reload"
    <3>1. gateway.busy = "reload"
      BY <2>3 DEF ReceiptStands
    <3>2. /\ sync'.pc = "reloaded" /\ sync'.rev = sync.rev
          /\ gateway'.busy = "no" /\ gateway'.loaded = disk
      BY <1>13, <2>3, <3>1, PerformEffect
    <3>3. disk.own = sync.rev.own /\ sync.rev.shared <= disk.shared
      BY <2>3
    <3>4. disk.shared <= disk.shared
      BY <1>00, Ordered
    <3> QED
      BY <2>1, <3>2, <3>3, <3>4
  <2>4. CASE sync.pc # "sent reload"
    <3>1. sync'.pc # "reloaded" /\ sync'.rev = sync.rev
      BY <1>13, <2>2, <2>4, PerformEffect
    <3>2. sync'.pc \in Applying => sync.pc \in Applying
      BY <1>13, <2>4, PerformEffect
    <3> QED
      BY <2>1, <3>1, <3>2
  <2> QED
    BY <2>3, <2>4
<1>14. CASE Refuse
  BY <1>14, RefuseEffect
<1>15. CASE TimeOut
  BY <1>15, TimeOutEffect
<1>16. CASE Disconnect
  <2>1. UNCHANGED disk
    BY <1>16 DEF Disconnect
  <2>2. /\ sync'.pc \in Applying => sync.pc = sync'.pc
        /\ sync'.rev = sync.rev
    BY <1>16, DisconnectEffect
  <2>3. sync'.pc = "reloaded" => sync.pc = "reloaded"
    BY <2>2
  <2>4. \/ UNCHANGED gateway
        \/ gateway'.loaded = disk /\ gateway'.busy = "no"
    BY <1>16, DisconnectEffect
  <2>5. disk.shared <= disk.shared
    BY <1>00, Ordered
  <2>6. CASE sync.pc = "reloaded"
    BY <2>1, <2>2, <2>3, <2>4, <2>5, <2>6
  <2>7. CASE sync.pc # "reloaded"
    BY <2>1, <2>2, <2>3, <2>7
  <2> QED
    BY <2>6, <2>7
<1>17. CASE Crash
  BY <1>17, CrashEffect, Constants
<1>18. CASE ForeignEdit
  <2>1. UNCHANGED <<gateway, sync>>
    BY <1>18 DEF ForeignEdit
  <2> QED
    <3>1. disk'.own = disk.own /\ disk'.shared = disk.shared + 1
      BY <1>18, ForeignEditEffect
    <3>2. sync.rev.shared <= disk.shared
             => sync.rev.shared <= disk.shared + 1
      BY <1>00, Ordered
    <3>3. gateway.loaded.shared <= disk.shared
             => gateway.loaded.shared <= disk.shared + 1
      BY <1>00, Ordered
    <3> QED
      BY <2>1, <3>1, <3>2, <3>3
<1> QED
  BY <1>1, <1>2, <1>3, <1>4, <1>5, <1>6, <1>7, <1>8, <1>9, <1>10, <1>11,
     <1>12, <1>13, <1>14, <1>15, <1>16, <1>17, <1>18, NextIs DEF Outside

LEMMA StepReceipt ==
    ASSUME ConstantsOK, McpTypeOK, WithinBounds, FilesAsWritten,
           ReceiptStands, [Next]_vars
    PROVE  ReceiptStands'
<1> USE DEF ReceiptStands, Doubtful
<1>0. NoReceipt.held = FALSE
  BY Constants
<1>00. /\ sync.rev.shared \in Nat /\ gateway.loaded.shared \in Nat
       /\ disk.shared \in Nat
       /\ sync.rev \in Revisions /\ gateway.loaded \in Revisions
  BY Shares
<1>1. CASE Outside \/ UNCHANGED vars
  BY <1>1, OutsideFrame
<1>2. CASE Enter /\ ~Finish(FALSE)
  BY <1>2, EnterEffect DEF Enter
<1>3. CASE Ends
  BY <1>3, EndsEffect, Finished
<1>4. CASE WriteFiles
  BY <1>4, WriteFilesEffect DEF WriteFiles
<1>5. CASE Begin
  <2>1. UNCHANGED gateway
    BY <1>5 DEF Begin
  <2>2. sync'.pc \in {"resolve", "alarm", "prepared"}
    BY <1>5, BeginEffect
  <2> QED
    BY <1>0, <1>5, <2>1, <2>2, BeginEffect
<1>6. CASE Phase
  BY <1>6, PhaseEffect DEF Phase
<1>7. CASE Send
  BY <1>7, SendEffect DEF Send
<1>8. CASE Verify
  <2>1. UNCHANGED gateway
    BY <1>8 DEF Verify
  <2>2. CASE UNCHANGED receipt /\ sync'.pc \in {"failed, may retry", "unknown"}
    BY <1>8, <2>1, <2>2, VerifyEffect
  <2>3. CASE /\ sync'.pc = "resolve" /\ disk = sync.rev
             /\ receipt'.rev = sync.rev
    <3>1. sync.pc = "reloaded"
      BY <1>8, VerifyEffect
    <3>2. /\ gateway.busy = "no" /\ gateway.loaded.own = sync.rev.own
          /\ sync.rev.shared <= gateway.loaded.shared
          /\ gateway.loaded.shared <= sync.rev.shared
      BY <2>3, <3>1 DEF FilesAsWritten
    <3>3. gateway.loaded.shared = sync.rev.shared
      BY <3>2, <1>00, Ordered
    <3>4. gateway.loaded = sync.rev
      BY <3>2, <3>3, <1>00, Alike
    <3> QED
      BY <2>1, <2>3, <3>2, <3>4
  <2> QED
    BY <1>8, <2>2, <2>3, VerifyEffect
<1>9. CASE WriteFailure
  <2>1. UNCHANGED gateway
    BY <1>9 DEF WriteFailure
  <2> QED
    BY <1>0, <1>9, <2>1, WriteFailureEffect
<1>10. CASE Resolve
  BY <1>10, ResolveEffect DEF Resolve
<1>11. CASE GatewayAway
  BY <1>11, RejectedEffect DEF GatewayAway, At
<1>12. CASE ResolveFails
  BY <1>12, Constants DEF ResolveFails, At
<1>13. CASE Perform
  <2>1. UNCHANGED receipt
    BY <1>13 DEF Perform
  <2> QED
    BY <1>13, <2>1, PerformEffect
<1>14. CASE Refuse
  BY <1>14, RefuseEffect DEF Refuse, IsSent
<1>15. CASE TimeOut
  BY <1>15, TimeOutEffect DEF TimeOut, IsSent
<1>16. CASE Disconnect
  <2>1. sync'.pc \notin {"sent refresh", "sent reload"}
    BY <1>16, DisconnectEffect DEF IsSent
  <2>2. receipt' = NoReceipt
    BY <1>16, DisconnectEffect
  <2> QED
    BY <1>0, <2>1, <2>2
<1>17. CASE Crash
  BY <1>0, <1>17, CrashEffect, Constants
<1>18. CASE ForeignEdit
  BY <1>18 DEF ForeignEdit
<1> QED
  BY <1>1, <1>2, <1>3, <1>4, <1>5, <1>6, <1>7, <1>8, <1>9, <1>10, <1>11,
     <1>12, <1>13, <1>14, <1>15, <1>16, <1>17, <1>18, NextIs DEF Outside

---------------------------------------------------------------------------
(* The queue's call                                                         *)

NoQueueCall(l) == \A n \in 1 .. Len(l) : l[n].by # "queue"
QueueCallOnce(l) ==
    \A n, m \in 1 .. Len(l) : l[n].by = "queue" /\ l[m].by = "queue" => n = m

LEMMA QueueCalls ==
    OneQueueCall <=>
       /\ QueueCallOnce(line)
       /\ queueJob.pc = "waiting" \/ NoQueueCall(line)
       /\ queueJob.pc # "idle"
             => queueJob.rev # 0 /\ queueJob.rev <= queued.rev
BY DEF OneQueueCall, QueueCallOnce, NoQueueCall

LEMMA QueueCallsNext ==
    ASSUME QueueCallOnce(line'),
           queueJob'.pc = "waiting" \/ NoQueueCall(line'),
           queueJob'.pc # "idle"
              => queueJob'.rev # 0 /\ queueJob'.rev <= queued'.rev
    PROVE  OneQueueCall'
BY DEF OneQueueCall, QueueCallOnce, NoQueueCall

LEMMA JoinedOnce ==
    ASSUME McpTypeOK, OneQueueCall, NEW by \in {"queue", "recovery", "other"},
           NEW force \in BOOLEAN, JoinLine(by, force),
           by = "queue" => NoQueueCall(line)
    PROVE  /\ QueueCallOnce(line')
           /\ by # "queue" /\ NoQueueCall(line) => NoQueueCall(line')
<1>1. \A n \in 1 .. Len(line') : n \in 1 .. Len(line) \/ n = Len(line) + 1
  BY Joined
<1>2. /\ \A n \in 1 .. Len(line) : line'[n] = line[n]
      /\ line'[Len(line) + 1].by = by
  BY Joined
<1>3. QueueCallOnce(line)
  BY QueueCalls
<1> QED
  BY <1>1, <1>2, <1>3 DEF QueueCallOnce, NoQueueCall

LEMMA LeftOnce ==
    ASSUME McpTypeOK, OneQueueCall, line # <<>>, line' = Tail(line)
    PROVE  /\ QueueCallOnce(line')
           /\ Head(line).by = "queue" \/ NoQueueCall(line)
                 => NoQueueCall(line')
<1>1. \A n \in 1 .. Len(line') :
         n \in Nat /\ n + 1 \in 1 .. Len(line) /\ line'[n] = line[n + 1]
  <2>1. \A n \in 1 .. Len(line') : n \in Nat
    BY Line
  <2> QED
    BY <2>1, Line
<1>2. Head(line) = line[1] /\ 1 \in 1 .. Len(line)
  BY Line
<1>3. QueueCallOnce(line)
  BY QueueCalls
<1>4. \A n \in Nat : n + 1 = 1 => n = 0
  OBVIOUS
<1>5. QueueCallOnce(line')
  <2> SUFFICES ASSUME NEW n \in 1 .. Len(line'), NEW m \in 1 .. Len(line'),
                      line'[n].by = "queue", line'[m].by = "queue"
               PROVE  n = m
    BY DEF QueueCallOnce
  <2>1. n + 1 = m + 1
    BY <1>1, <1>3 DEF QueueCallOnce
  <2> QED
    BY <1>1, <2>1
<1>6. ASSUME Head(line).by = "queue" \/ NoQueueCall(line),
             NEW n \in 1 .. Len(line'), line'[n].by = "queue"
      PROVE  FALSE
  <2>1. line[n + 1].by = "queue" /\ n + 1 \in 1 .. Len(line)
    BY <1>1, <1>6
  <2>2. n + 1 = 1
    BY <1>2, <1>3, <1>6, <2>1 DEF QueueCallOnce, NoQueueCall
  <2>3. n \in 1 .. Len(line')
    BY <1>6
  <2> QED
    BY <2>2, <2>3
<1> QED
  BY <1>5, <1>6 DEF NoQueueCall

\* Steps at which nobody joins or leaves the line.
LEMMA LineFrame ==
    ASSUME [Next]_vars
    PROVE  \/ Edit \/ QueueTakes \/ QueueEnds \/ NotQueue
           \/ Ends \/ Resolve \/ Crash
           \/ UNCHANGED <<queued, queueJob, line>>
BY DEF Next, SyncStep, NotQueue, Ends, Enter, WriteFiles, Begin, Phase, Send,
       Verify, WriteFailure, GatewayAway, ResolveFails, Perform, Refuse,
       TimeOut, Disconnect, Late, Escalate, OperatorRetries, Restore,
       ForeignEdit, vars

LEMMA StepQueueCall ==
    ASSUME ConstantsOK, McpTypeOK, WithinBounds, OneQueueCall, [Next]_vars
    PROVE  OneQueueCall'
<1>0. /\ QueueCallOnce(line)
      /\ queueJob.pc = "waiting" \/ NoQueueCall(line)
      /\ queueJob.pc # "idle"
             => queueJob.rev # 0 /\ queueJob.rev <= queued.rev
  BY QueueCalls
<1>1. queueJob.rev \in Nat /\ queued.rev \in Nat
  BY Typed, Constants DEF Jobs, Rows
<1>2. CASE Edit
  <2>1. UNCHANGED <<line, queueJob>> /\ queued'.rev = queued.rev + 1
    BY <1>2, EditEffect DEF Edit
  <2>2. queueJob.rev <= queued.rev => queueJob.rev <= queued.rev + 1
    BY <1>1, Ordered
  <2> QED
    BY <1>0, <2>1, <2>2, QueueCallsNext
<1>3. CASE QueueTakes
  <2>1. /\ queueJob.pc = "idle" /\ queued.rev # 0
        /\ queueJob'.pc = "waiting" /\ queueJob'.rev = queued.rev
        /\ JoinLine("queue", FALSE) /\ UNCHANGED queued
    BY <1>3, QueueTakesEffect DEF QueueTakes
  <2>2. QueueCallOnce(line')
    BY <1>0, <2>1, JoinedOnce
  <2>3. queued.rev <= queued.rev
    BY <1>1, Ordered
  <2> QED
    BY <2>1, <2>2, <2>3, QueueCallsNext
<1>4. CASE QueueEnds
  <2>1. queueJob.pc # "waiting" /\ queueJob'.pc = "idle" /\ UNCHANGED line
    BY <1>4, QueueEndsEffect, Constants DEF QueueEnds
  <2> QED
    BY <1>0, <2>1, QueueCallsNext
<1>5. CASE NotQueue
  <2>1. /\ UNCHANGED <<queueJob, queued>>
        /\ \E by \in {"recovery", "other"}, force \in BOOLEAN :
              JoinLine(by, force)
    BY <1>5 DEF NotQueue, RecoveryTakes, Other
  <2>2. /\ QueueCallOnce(line')
        /\ NoQueueCall(line) => NoQueueCall(line')
    BY <2>1, JoinedOnce
  <2> QED
    BY <1>0, <2>1, <2>2, QueueCallsNext
<1>6. CASE Ends \/ Resolve
  <2>1. /\ line # <<>> /\ line' = Tail(line) /\ UNCHANGED queued
        /\ queueJob'.rev = queueJob.rev
        /\ Head(line).by # "queue" => UNCHANGED queueJob
    <3>1. CASE Ends
      BY <3>1, EndsEffect, Finished
    <3>2. CASE Resolve
      BY <3>2, ResolveEffect DEF Resolve
    <3> QED
      BY <1>6, <3>1, <3>2
  <2>2. QueueCallOnce(line')
    BY <2>1, LeftOnce
  <2>3. CASE Head(line).by = "queue"
    <3>1. queueJob.pc = "waiting" /\ NoQueueCall(line')
      BY <1>0, <2>1, <2>3, LeftOnce, Line DEF NoQueueCall
    <3> QED
      BY <1>0, <2>1, <2>2, <3>1, QueueCallsNext
  <2>4. CASE Head(line).by # "queue"
    BY <1>0, <2>1, <2>2, <2>4, LeftOnce, QueueCallsNext
  <2> QED
    BY <2>3, <2>4
<1>7. CASE Crash
  <2>1. line' = <<>> /\ queueJob'.pc = "idle"
    BY <1>7, CrashEffect, Constants
  <2>2. QueueCallOnce(line') /\ NoQueueCall(line')
    BY <2>1 DEF QueueCallOnce, NoQueueCall
  <2> QED
    BY <2>1, <2>2, QueueCallsNext
<1>8. CASE UNCHANGED <<queued, queueJob, line>>
  BY <1>0, <1>8, QueueCallsNext
<1> QED
  BY <1>2, <1>3, <1>4, <1>5, <1>6, <1>7, <1>8, LineFrame

---------------------------------------------------------------------------
(* Edits                                                                    *)

\* No edit waits, or the queue's call has come back with the last one.
Arrived == \/ queued.rev = 0
           \/ queueJob.pc = "ok" /\ queueJob.rev = queued.rev

\* The sync at hand is the queue's, for the last edit.
BringsLast ==
    line # <<>> /\ Head(line).by = "queue" /\ queueJob.rev = queued.rev

LEMMA EditsArriveParts ==
    EditsArrive <=>
       /\ Arrived => WantIsThere /\ CarriesWant
       /\ BringsLast => CarriesWant /\ (sync.pc = "resolve" => WantIsThere)
BY DEF EditsArrive, Arrived, BringsLast

LEMMA EditsArriveNext ==
    ASSUME Arrived' => WantIsThere' /\ CarriesWant',
           BringsLast' => CarriesWant' /\ (sync'.pc = "resolve" => WantIsThere')
    PROVE  EditsArrive'
BY DEF EditsArrive, Arrived, BringsLast

\* A step of the sync at hand that keeps what it brings, if it still does.
LEMMA SyncGoesOn ==
    ASSUME EditsArrive, UNCHANGED <<want, queued, queueJob, line>>,
           WantIsThere => WantIsThere',
           CarriesWant => CarriesWant',
           sync'.pc = "resolve" => sync.pc = "resolve"
    PROVE  EditsArrive'
<1>1. (Arrived' <=> Arrived) /\ (BringsLast' <=> BringsLast)
  BY DEF Arrived, BringsLast
<1> QED
  BY <1>1, EditsArriveParts, EditsArriveNext

\* A step that ends it, or takes it where nothing is carried any more.
LEMMA SyncDrops ==
    ASSUME EditsArrive, UNCHANGED <<want, queued, queueJob, line>>,
           WantIsThere => WantIsThere',
           sync'.pc \in {"alarm", "failed", "failed, may retry", "unknown"}
    PROVE  EditsArrive'
<1>1. CarriesWant'
  BY DEF CarriesWant, Applying, Refreshing, Reloading
<1> QED
  BY <1>1, SyncGoesOn

LEMMA StepArrive ==
    ASSUME ConstantsOK, McpTypeOK, WithinBounds, FilesAsWritten,
           ReceiptStands, OneQueueCall, EditsArrive, [Next]_vars
    PROVE  EditsArrive'
<1>0. /\ Arrived => WantIsThere /\ CarriesWant
      /\ BringsLast => CarriesWant /\ (sync.pc = "resolve" => WantIsThere)
  BY EditsArriveParts
<1>00. /\ queueJob.pc = "waiting" \/ NoQueueCall(line)
       /\ queueJob.pc # "idle"
             => queueJob.rev # 0 /\ queueJob.rev <= queued.rev
  BY QueueCalls
<1>01. queueJob.rev \in Nat /\ queued.rev \in Nat
  BY Typed, Constants DEF Jobs, Rows
<1>02. line # <<>> /\ Head(line).by = "queue" => queueJob.pc = "waiting"
  BY <1>00, Line DEF NoQueueCall
<1>1. CASE Edit
  <2>1. UNCHANGED <<line, queueJob>> /\ queued'.rev = queued.rev + 1
    BY <1>1, EditEffect DEF Edit
  <2>2. queued.rev + 1 # 0 /\ ~(queued.rev + 1 <= queued.rev)
    BY <1>01
  <2>3. ~Arrived' /\ ~BringsLast'
    BY <1>00, <1>02, <2>1, <2>2 DEF Arrived, BringsLast
  <2> QED
    BY <2>3, EditsArriveNext
<1>2. CASE QueueTakes
  <2>1. /\ queueJob.pc = "idle" /\ queued.rev # 0
        /\ queueJob'.pc = "waiting"
        /\ JoinLine("queue", FALSE) /\ UNCHANGED <<queued, sync>>
    BY <1>2, QueueTakesEffect DEF QueueTakes
  <2>2. ~Arrived'
    BY <2>1 DEF Arrived
  <2>3. CASE line # <<>>
    <3>1. Head(line').by # "queue"
      BY <1>02, <2>1, <2>3, Joined
    <3> QED
      BY <2>2, <3>1, EditsArriveNext DEF BringsLast
  <2>4. CASE line = <<>>
    <3>1. sync'.pc = "idle"
      BY <2>1, <2>4 DEF WithinBounds
    <3> QED
      BY <2>2, <3>1, EditsArriveNext
      DEF CarriesWant, Applying, Refreshing, Reloading
  <2> QED
    BY <2>3, <2>4
<1>3. CASE QueueEnds
  <2>1. /\ queueJob.pc \in {"ok", "failed"} /\ queueJob'.pc = "idle"
        /\ queued'.rev = IF queued.rev = queueJob.rev /\ queueJob.pc = "ok"
                         THEN 0 ELSE queued.rev
        /\ UNCHANGED <<want, disk, gateway, sync, line>>
    BY <1>3, QueueEndsEffect, Constants DEF QueueEnds
  <2>2. Arrived' => Arrived
    BY <2>1 DEF Arrived
  <2>3. ~BringsLast'
    BY <1>02, <2>1 DEF BringsLast
  <2>4. /\ WantIsThere => WantIsThere'
        /\ CarriesWant => CarriesWant'
    BY <2>1 DEF WantIsThere, CarriesWant
  <2> QED
    BY <1>0, <2>2, <2>3, <2>4, EditsArriveNext
<1>4. CASE NotQueue
  <2>1. /\ UNCHANGED <<want, disk, gateway, queued, queueJob, sync>>
        /\ \E by \in {"recovery", "other"}, force \in BOOLEAN :
              JoinLine(by, force)
    BY <1>4 DEF NotQueue, RecoveryTakes, Other
  <2>2. /\ Arrived' <=> Arrived
        /\ WantIsThere' <=> WantIsThere
        /\ CarriesWant' <=> CarriesWant
    BY <2>1 DEF Arrived, WantIsThere, CarriesWant
  <2>3. CASE line # <<>>
    <3>1. Head(line') = Head(line)
      BY <2>1, <2>3, Joined
    <3>2. BringsLast' => BringsLast
      BY <2>1, <2>3, <3>1 DEF BringsLast
    <3> QED
      BY <1>0, <2>1, <2>2, <3>2, EditsArriveNext
  <2>4. CASE line = <<>>
    <3>1. sync'.pc = "idle"
      BY <2>1, <2>4 DEF WithinBounds
    <3>2. CarriesWant' /\ sync'.pc # "resolve"
      BY <3>1 DEF CarriesWant, Applying, Refreshing, Reloading
    <3> QED
      BY <1>0, <2>2, <3>2, EditsArriveNext
  <2> QED
    BY <2>3, <2>4
<1>5. CASE Enter /\ ~Finish(FALSE)
  <2>1. /\ sync'.pc = "write" /\ sync'.rev.own = want
        /\ UNCHANGED <<want, disk, gateway, queued, queueJob, line>>
    BY <1>5, EnterEffect DEF Enter
  <2>2. CarriesWant' /\ (WantIsThere => WantIsThere')
    BY <2>1 DEF CarriesWant, WantIsThere
  <2> QED
    BY <2>1, <2>2, SyncGoesOn
<1>6. CASE Ends \/ Resolve
  <2>1. /\ line # <<>> /\ sync'.pc = "idle"
        /\ UNCHANGED <<want, disk, gateway, queued>>
        /\ queueJob'.rev = queueJob.rev
        /\ Head(line).by # "queue" => UNCHANGED queueJob
        /\ Head(line).by = "queue" =>
              \/ queueJob'.pc = "failed"
              \/ queueJob'.pc = "ok" /\ sync.pc = "resolve"
    <3>1. CASE Ends
      BY <3>1, EndsEffect, Finished
    <3>2. CASE Resolve
      BY <3>2, ResolveEffect DEF Resolve
    <3> QED
      BY <1>6, <3>1, <3>2
  <2>2. CarriesWant' /\ sync'.pc # "resolve"
    BY <2>1 DEF CarriesWant, Applying, Refreshing, Reloading
  <2>3. Arrived' => WantIsThere
    <3>1. Arrived' => Arrived \/ (BringsLast /\ sync.pc = "resolve")
      BY <2>1 DEF Arrived, BringsLast
    <3> QED
      BY <1>0, <3>1
  <2>4. WantIsThere => WantIsThere'
    BY <2>1 DEF WantIsThere
  <2> QED
    BY <2>2, <2>3, <2>4, EditsArriveNext
<1>7. CASE WriteFiles
  <2>1. /\ sync.pc = "write" /\ sync'.pc = "begin" /\ sync'.rev = disk'
        /\ disk'.own = sync.rev.own
        /\ UNCHANGED <<want, gateway, queued, queueJob, line>>
    BY <1>7, WriteFilesEffect DEF WriteFiles
  <2>2. CarriesWant => sync.rev.own = want
    BY <2>1 DEF CarriesWant
  <2>3. CarriesWant => CarriesWant'
    BY <2>1, <2>2 DEF CarriesWant
  <2>4. WantIsThere /\ CarriesWant => WantIsThere'
    BY <2>1, <2>2 DEF WantIsThere
  <2>5. (Arrived' <=> Arrived) /\ (BringsLast' <=> BringsLast)
    BY <2>1 DEF Arrived, BringsLast
  <2> QED
    BY <1>0, <2>1, <2>3, <2>4, <2>5, EditsArriveNext
<1>8. CASE Begin
  <2>1. UNCHANGED <<want, disk, gateway, queued, queueJob, line>>
    BY <1>8 DEF Begin
  <2>2. WantIsThere => WantIsThere'
    BY <2>1 DEF WantIsThere
  <2>3. CASE sync'.pc = "resolve" /\ Current
    <3>1. /\ sync.pc = "begin" /\ receipt.held /\ receipt.rev = sync.rev
      BY <1>8, <2>3, BeginEffect DEF Current
    <3>2. gateway.loaded = sync.rev /\ disk.own = sync.rev.own
      BY <3>1 DEF ReceiptStands, Doubtful, FilesAsWritten, Applying
    <3>3. CarriesWant => WantIsThere'
      BY <2>1, <3>1, <3>2 DEF CarriesWant, Applying, WantIsThere
    <3>4. CarriesWant'
      BY <2>3 DEF CarriesWant, Applying, Refreshing, Reloading
    <3>5. (Arrived' <=> Arrived) /\ (BringsLast' <=> BringsLast)
      BY <2>1 DEF Arrived, BringsLast
    <3> QED
      BY <1>0, <2>2, <3>3, <3>4, <3>5, EditsArriveNext
  <2>4. CASE sync'.pc = "alarm"
    BY <2>1, <2>2, <2>4, SyncDrops
  <2>5. CASE sync'.pc = "prepared" /\ sync'.rev = sync.rev
    <3>1. sync.pc = "begin"
      BY <1>8, BeginEffect
    <3>2. CarriesWant => CarriesWant'
      BY <2>1, <2>5, <3>1 DEF CarriesWant, Applying
    <3> QED
      BY <2>1, <2>2, <2>5, <3>2, SyncGoesOn
  <2> QED
    BY <1>8, <2>3, <2>4, <2>5, BeginEffect
<1>9. CASE Phase \/ Send
  <2>1. /\ UNCHANGED <<want, disk, queued, queueJob, line>>
        /\ gateway'.loaded = gateway.loaded
        /\ sync'.rev = sync.rev /\ sync'.pc # "resolve"
        /\ sync.pc \in {"prepared", "refreshed", "refresh", "reload"}
    <3>1. CASE Phase
      BY <3>1, PhaseEffect DEF Phase
    <3>2. CASE Send
      <4>1. /\ gateway'.loaded = gateway.loaded /\ sync'.rev = sync.rev
            /\ sync'.pc # "resolve" /\ sync.pc \in {"refresh", "reload"}
        BY <3>2, SendEffect
      <4> QED
        BY <3>2, <4>1 DEF Send
    <3> QED
      BY <1>9, <3>1, <3>2
  <2>2. /\ CarriesWant => CarriesWant'
        /\ WantIsThere => WantIsThere'
    BY <2>1 DEF CarriesWant, WantIsThere, Applying, Refreshing, Reloading
  <2> QED
    BY <2>1, <2>2, SyncGoesOn
<1>10. CASE Verify
  <2>1. UNCHANGED <<want, disk, gateway, queued, queueJob, line>>
    BY <1>10 DEF Verify
  <2>2. WantIsThere => WantIsThere'
    BY <2>1 DEF WantIsThere
  <2>3. CASE sync'.pc \in {"failed, may retry", "unknown"}
    BY <2>1, <2>2, <2>3, SyncDrops
  <2>4. CASE sync'.pc = "resolve" /\ disk = sync.rev
    <3>1. sync.pc = "reloaded"
      BY <1>10, VerifyEffect
    <3>2. gateway.loaded.own = disk.own
      BY <3>1 DEF FilesAsWritten
    <3>3. CarriesWant => WantIsThere'
      BY <2>1, <2>4, <3>1, <3>2
      DEF CarriesWant, WantIsThere, Applying, Reloading
    <3>4. CarriesWant'
      BY <2>4 DEF CarriesWant, Applying, Refreshing, Reloading
    <3>5. (Arrived' <=> Arrived) /\ (BringsLast' <=> BringsLast)
      BY <2>1 DEF Arrived, BringsLast
    <3> QED
      BY <1>0, <2>2, <3>3, <3>4, <3>5, EditsArriveNext
  <2> QED
    BY <1>10, <2>3, <2>4, VerifyEffect
<1>11. CASE WriteFailure \/ GatewayAway \/ ResolveFails
  <2>1. /\ sync'.pc = "alarm"
        /\ UNCHANGED <<want, disk, gateway, queued, queueJob, line>>
    <3>1. CASE WriteFailure
      BY <3>1, WriteFailureEffect DEF WriteFailure
    <3>2. CASE GatewayAway
      BY <3>2, RejectedEffect DEF GatewayAway
    <3>3. CASE ResolveFails
      BY <3>3, Constants DEF ResolveFails
    <3> QED
      BY <1>11, <3>1, <3>2, <3>3
  <2>2. WantIsThere => WantIsThere'
    BY <2>1 DEF WantIsThere
  <2> QED
    BY <2>1, <2>2, SyncDrops
<1>12. CASE Perform \/ Disconnect
  <2>1. /\ UNCHANGED <<want, disk, queued, queueJob, line>>
        /\ gateway'.loaded = gateway.loaded \/ gateway'.loaded = disk
        /\ sync'.rev = sync.rev
        /\ sync'.pc = "resolve" => sync.pc = "resolve"
        /\ sync'.pc \in {"write"} \cup Applying
              => sync.pc \in {"write"} \cup Applying
    <3>1. CASE Perform
      <4>1. UNCHANGED <<want, disk, queued, queueJob, line>>
        BY <3>1 DEF Perform
      <4> QED
        BY <3>1, <4>1, PerformEffect DEF Applying, Refreshing, Reloading
    <3>2. CASE Disconnect
      <4>1. UNCHANGED <<want, disk, queued, queueJob, line>>
        BY <3>2 DEF Disconnect
      <4>2. gateway'.loaded = gateway.loaded \/ gateway'.loaded = disk
        BY <3>2, DisconnectEffect
      <4>3. /\ sync'.rev = sync.rev
            /\ sync'.pc = "unknown" \/ sync'.pc = sync.pc
        BY <3>2, DisconnectEffect
      <4> QED
        BY <4>1, <4>2, <4>3 DEF Applying, Refreshing, Reloading
    <3> QED
      BY <1>12, <3>1, <3>2
  <2>2. /\ CarriesWant => CarriesWant'
        /\ WantIsThere => WantIsThere'
    BY <2>1 DEF CarriesWant, WantIsThere
  <2> QED
    BY <2>1, <2>2, SyncGoesOn
<1>13. CASE Refuse \/ TimeOut
  <2>1. /\ UNCHANGED <<want, disk, queued, queueJob, line>>
        /\ gateway'.loaded = gateway.loaded
        /\ sync'.pc \in {"failed", "failed, may retry", "unknown"}
    <3>1. CASE Refuse
      BY <3>1, RefuseEffect DEF Refuse
    <3>2. CASE TimeOut
      BY <3>2, TimeOutEffect DEF TimeOut
    <3> QED
      BY <1>13, <3>1, <3>2
  <2>2. WantIsThere => WantIsThere'
    BY <2>1 DEF WantIsThere
  <2> QED
    BY <2>1, <2>2, SyncDrops
<1>14. CASE Crash
  <2>1. /\ line' = <<>> /\ queueJob'.pc = "idle" /\ sync'.pc = "idle"
        /\ UNCHANGED <<want, disk, gateway, queued>>
    BY <1>14, CrashEffect, Constants DEF Crash
  <2>2. ~BringsLast' /\ (Arrived' => Arrived)
    BY <2>1 DEF Arrived, BringsLast
  <2>3. CarriesWant' /\ (WantIsThere => WantIsThere')
    BY <2>1
    DEF CarriesWant, WantIsThere, Applying, Refreshing, Reloading
  <2> QED
    BY <1>0, <2>2, <2>3, EditsArriveNext
<1>15. CASE ForeignEdit
  <2>1. /\ UNCHANGED <<want, gateway, queued, queueJob, line, sync>>
        /\ disk'.own = disk.own
    BY <1>15, ForeignEditEffect DEF ForeignEdit
  <2>2. /\ CarriesWant => CarriesWant'
        /\ WantIsThere => WantIsThere'
    BY <2>1 DEF CarriesWant, WantIsThere
  <2> QED
    BY <2>1, <2>2, SyncGoesOn
<1>16. CASE Incidents \/ UNCHANGED vars
  <2>1. UNCHANGED <<want, disk, gateway, queued, queueJob, line, sync>>
    BY <1>16
    DEF Incidents, Late, Escalate, OperatorRetries, Restore, vars
  <2>2. /\ CarriesWant => CarriesWant'
        /\ WantIsThere => WantIsThere'
    BY <2>1 DEF CarriesWant, WantIsThere
  <2> QED
    BY <2>1, <2>2, SyncGoesOn
<1> QED
  BY <1>1, <1>2, <1>3, <1>4, <1>5, <1>6, <1>7, <1>8, <1>9, <1>10, <1>11,
     <1>12, <1>13, <1>14, <1>15, <1>16, NextIs

---------------------------------------------------------------------------
(* Together                                                                 *)

\* Neither the truth of a receipt nor the arrival of an edit is inductive by
\* itself: either rests on what the sync at hand has written and loaded, and
\* that on the one call that is at work.
McpInv ==
    /\ McpTypeOK /\ WithinBounds
    /\ PhaseOnRecord /\ UncertaintyOnRecord
    /\ FilesAsWritten /\ ReceiptStands
    /\ OneQueueCall /\ EditsArrive

LEMMA InitHolds ==
    ASSUME ConstantsOK, Init
    PROVE  McpInv
<1> USE DEF Init
<1>1. McpTypeOK
  <2>1. /\ First \in Revisions /\ receipt \in Receipts /\ sync \in Syncs
        /\ queueJob \in Jobs /\ MaxEdits \in Nat /\ MaxSetbacks \in Nat
    BY Constants
  <2>2. /\ queued \in Rows /\ gateway \in Gateways /\ record \in Records
        /\ line \in Seq(Entries)
    BY <2>1 DEF Rows, Gateways, Records
  <2>3. want \in Contents /\ disk \in Revisions
    BY <2>1 DEF ConstantsOK
  <2>4. edits \in 0 .. MaxEdits /\ setbacks \in 0 .. MaxSetbacks
    BY <2>1
  <2>5. /\ incident \in {"none", "recovering", "late", "attention"}
        /\ mine \in BOOLEAN /\ restored \in BOOLEAN
        /\ unsure \in BOOLEAN /\ overruled \in BOOLEAN
    BY Zenon
  <2> HIDE DEF Init
  <2> QED
    BY <2>1, <2>2, <2>3, <2>4, <2>5
    DEF McpTypeOK, Entries, Steps, Syncs, Jobs, Rows, Gateways, Records,
        Receipts
<1>2. /\ sync.pc = "idle" /\ ~receipt.held /\ queueJob.pc = "idle"
      /\ disk.shared = 0 /\ gateway.loaded.own = want /\ disk.own = want
  BY Constants DEF First
<1>3. WithinBounds
  BY <1>2 DEF WithinBounds
<1>4. PhaseOnRecord /\ UncertaintyOnRecord
  BY <1>2 DEF PhaseOnRecord, UncertaintyOnRecord, Refreshing, Reloading
<1>5. FilesAsWritten /\ ReceiptStands
  BY <1>2
  DEF FilesAsWritten, ReceiptStands, Applying, Refreshing, Reloading
<1>6. OneQueueCall
  BY <1>2 DEF OneQueueCall
<1>7. EditsArrive
  BY <1>2
  DEF EditsArrive, WantIsThere, CarriesWant, Applying, Refreshing, Reloading
<1> QED
  BY <1>1, <1>3, <1>4, <1>5, <1>6, <1>7 DEF McpInv

LEMMA NextHolds ==
    ASSUME ConstantsOK, McpInv, [Next]_vars
    PROVE  McpInv'
BY StepTyped, StepPhase, StepFiles, StepReceipt, StepQueueCall, StepArrive
DEF McpInv

LEMMA Invariant ==
    ASSUME ConstantsOK
    PROVE  Spec => []McpInv
<1>1. Init => McpInv
  BY InitHolds
<1>2. McpInv /\ [Next]_vars => McpInv'
  BY NextHolds
<1> QED
  BY <1>1, <1>2, PTL DEF Spec

---------------------------------------------------------------------------
\* Every part of the state keeps its type, and what is counted its bound.
THEOREM McpTypes ==
    ASSUME ConstantsOK
    PROVE  Spec => []McpTypeOK
<1>1. McpInv => McpTypeOK
  BY DEF McpInv
<1> QED
  BY <1>1, Invariant, PTL

\* Whatever crashes, times out or is cut off, the reconciliation row says
\* that a call is in doubt for as long as it is, or somebody has overruled
\* it by force.
THEOREM UncertaintyKept ==
    ASSUME ConstantsOK
    PROVE  Spec => []UncertaintyOnRecord
<1>1. McpInv => UncertaintyOnRecord
  BY DEF McpInv
<1> QED
  BY <1>1, Invariant, PTL

\* A sync that reads from the receipt that its revision is applied already
\* is right: the gateway has that very revision loaded.
THEOREM ReceiptsTrue ==
    ASSUME ConstantsOK
    PROVE  Spec => []ReceiptIsTrue
<1>1. McpInv => ReceiptIsTrue
  BY DEF McpInv, ReceiptIsTrue, ReceiptStands, Doubtful, At, Current
<1> QED
  BY <1>1, Invariant, PTL

\* No edit of an agent's assigned servers gets lost: when none waits in the
\* queue, the gateway has loaded the last.
THEOREM EditsReach ==
    ASSUME ConstantsOK
    PROVE  Spec => []EditReachesGateway
<1>1. McpInv => EditReachesGateway
  BY DEF McpInv, EditReachesGateway, EditsArrive, WantIsThere
<1> QED
  BY <1>1, Invariant, PTL

=============================================================================
