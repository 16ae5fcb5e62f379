---------------------------- MODULE MCBackground ---------------------------
(* Small instances, for TLC, of RuntimeExecution and of the modules of the  *)
(* background work that shares no state with it or with one another.  Each  *)
(* behaviour is one of one of them, "which" says of which.  The variables   *)
(* of the others are kept in v1 to v16, by whichever of them moves.  Each   *)
(* is instantiated with what is proved of it, if that is a module of its    *)
(* own: Background_proofs draws on it.                                      *)
EXTENDS RuntimeExecution, TLC

CONSTANTS
    Series, Callers, Limit, MaxTime, MaxCalls, MaxRollbacks, Never,
    Contents, Initial, MaxEdits, MaxSetbacks,
    Sources, Projects, Gone, Queries, Workers, Clients, Freezers,
    MaxSnapshots, MaxMoves, MaxFaults,
    Deliveries, Senders

VARIABLES
    which, v1, v2, v3, v4, v5, v6, v7, v8, v9, v10, v11, v12, v13, v14, v15,
    v16

Recurring == INSTANCE RecurringSeries_proofs WITH
    MaxFaults <- MaxRollbacks, now <- v1, row <- v2, flow <- v3, run <- v4,
    made <- v5, open <- v6, tick <- v7, edit <- v8, calls <- v9,
    faults <- v10, stale <- v11, overtaken <- v12
Mcp == INSTANCE McpRecovery_proofs WITH
    want <- v1, edits <- v2, queued <- v3, disk <- v4, gateway <- v5,
    record <- v6, receipt <- v7, incident <- v8, line <- v9, sync <- v10,
    queueJob <- v11, mine <- v12, restored <- v13, unsure <- v14,
    overruled <- v15, setbacks <- v16
Telemetry == INSTANCE TelemetryQueries_proofs WITH
    place <- v1, row <- v2, job <- v3, freeze <- v4, moves <- v5, faults <- v6
Alerts == INSTANCE NotificationDelivery WITH
    delivery <- v1, sender <- v2, faults <- v3

\* What the components take for granted of their constants.
ASSUME SeriesAssumption == Recurring!ConstantsOK
ASSUME McpAssumption == Mcp!ConstantsOK
ASSUME TelemetryAssumption == Telemetry!ConstantsOK
ASSUME AlertsAssumption == Alerts!ConstantsOK

From4  == <<v4, v5, v6>>
From7  == <<v7, v8, v9, v10, v11, v12>>
From13 == <<v13, v14, v15, v16>>
shared == <<v1, v2, v3, From4, From7, From13>>
MCVars == <<which, vars, shared>>

Off4  == v4 = 0 /\ v5 = 0 /\ v6 = 0
Off7  == v7 = 0 /\ v8 = 0 /\ v9 = 0 /\ v10 = 0 /\ v11 = 0 /\ v12 = 0
Off13 == v13 = 0 /\ v14 = 0 /\ v15 = 0 /\ v16 = 0

MCInit ==
    /\ Init
    /\ \/ /\ which = "runtime"
          /\ v1 = 0 /\ v2 = 0 /\ v3 = 0 /\ Off4 /\ Off7 /\ Off13
       \/ which = "series" /\ Recurring!Init /\ Off13
       \/ which = "mcp" /\ Mcp!Init
       \/ which = "telemetry" /\ Telemetry!Init /\ Off7 /\ Off13
       \/ which = "alerts" /\ Alerts!Init /\ Off4 /\ Off7 /\ Off13

\* Ticks overlap only while a launch is yet to be made, the last mishap is yet
\* to come and nobody stops the run.
FewTicks == \/ \E t \in Ticks : rec[t].pc = "idle"
            \/ /\ \E l \in Launches : mon[l].pc = "none"
               /\ mishaps < MaxMishaps
               /\ \A i \in Instances : stop[i].pc = "none"

\* Nothing is being frozen in the presence of a fault: a fault concerns a
\* result that is not complete, a freeze one that is.
FaultOrFreeze == \/ v6 = 0
                 \/ \A f \in Freezers : v4[f] = Telemetry!Idle

MCNext ==
    /\ UNCHANGED which
    /\ \/ /\ which = "runtime" /\ Next /\ FewTicks'
          /\ UNCHANGED shared
       \/ which = "series" /\ Recurring!Next /\ UNCHANGED <<vars, From13>>
       \/ which = "mcp" /\ Mcp!Next /\ UNCHANGED vars
       \/ /\ which = "telemetry" /\ Telemetry!Next /\ FaultOrFreeze'
          /\ UNCHANGED <<vars, From7, From13>>
       \/ /\ which = "alerts" /\ Alerts!Next
          /\ UNCHANGED <<vars, From4, From7, From13>>

MCSpec == MCInit /\ [][MCNext]_MCVars

\* These are only ever compared.  Sets of different components may share
\* their values, as only one component moves: fewer permutations to try.
MCSymmetry ==
    Permutations(Launches \cup Queries \cup Deliveries)
    \cup Permutations(Pids \cup Workers \cup Senders)
    \cup Permutations(Ticks \cup Freezers \cup Projects)

---------------------------------------------------------------------------
\* The type invariants of the components but RuntimeExecution's TypeOK.
BackgroundTypeOK ==
    /\ which = "series" => Recurring!SeriesTypeOK
    /\ which = "mcp" => Mcp!McpTypeOK
    /\ which = "telemetry" => Telemetry!TelemetryTypeOK
    /\ which = "alerts" => Alerts!DeliveryTypeOK

\* Recurring series: a run on record and a task for every occurrence done.
OneTaskPerOccurrence == which = "series" => Recurring!OneTaskPerOccurrence

\* Recurring series: one task is open at a time.
OneActiveTask == which = "series" => Recurring!OneActiveTask

\* Recurring series: no series waits for an occurrence already done.
NextIsAhead == which = "series" => Recurring!NextIsAhead

\* MCP configuration: what is taken for loaded is.
ReceiptIsTrue == which = "mcp" => Mcp!ReceiptIsTrue

\* MCP configuration: no edit is lost.
EditReachesGateway == which = "mcp" => Mcp!EditReachesGateway

\* MCP configuration: no doubt about a gateway call is forgotten.
UncertaintyOnRecord == which = "mcp" => Mcp!UncertaintyOnRecord

\* Telemetry: a result does not outlive the access to its sources.
ProofStands == which = "telemetry" => Telemetry!ProofStands

\* Telemetry: no more results are frozen than allowed.
SnapshotLimit == which = "telemetry" => Telemetry!SnapshotLimit

\* Telemetry: a query's end is not rewritten.
VerdictStands == [][which = "telemetry" => Telemetry!VerdictStep]_MCVars

\* Alerts: a finished delivery is not put back.
FinishedStays == [][which = "alerts" => Alerts!FinishedStep]_MCVars
=============================================================================
