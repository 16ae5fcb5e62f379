----------------------------- MODULE MCLiveness ----------------------------
(* What must happen in the end, on small instances of the components that   *)
(* share no state with one another: WorkspaceLease and five that work in    *)
(* the background.  Each behaviour is one of one of them, "which" says of   *)
(* which; the others rest in a state in which nothing that is fair can      *)
(* happen.                                                                  *)
EXTENDS WorkspaceLease, TLC

CONSTANTS
    Instances, Launches, RunPids, Nobody, MaxMishaps, Tardy,
    Series, Ticks, Callers, Limit, MaxTime, MaxCalls, MaxRollbacks, Never,
    Contents, Initial, MaxEdits, MaxSetbacks,
    Sources, Projects, Gone, Queries, Workers, Clients, Freezers,
    MaxSnapshots, MaxMoves, MaxFaults,
    Deliveries, Senders

VARIABLES
    which,
    instanceOf, os, exec, job, mon, stop, rec, missing, prompted, bystanders,
    mishaps,
    now, row, flow, run, made, open, tick, edit, calls, rollbacks, stale,
    overtaken,
    want, edits, queued, disk, gateway, record, receipt, incident, line, sync,
    queueJob, mine, restored, unsure, overruled, setbacks,
    place, result, evaluation, freeze, moves, queryFaults,
    delivery, sender, deliveryFaults

Runtime   == INSTANCE RuntimeExecution WITH Pids <- RunPids
Recurring == INSTANCE RecurringSeries
                 WITH MaxFaults <- MaxRollbacks, faults <- rollbacks
Mcp       == INSTANCE McpRecovery
Telemetry == INSTANCE TelemetryQueries
                 WITH row <- result, job <- evaluation, faults <- queryFaults
Alerts    == INSTANCE NotificationDelivery WITH faults <- deliveryFaults

runtimeVars == <<instanceOf, os, exec, job, mon, stop, rec, missing, prompted,
                 bystanders, mishaps>>
seriesVars == <<now, row, flow, run, made, open, tick, edit, calls, rollbacks,
                stale, overtaken>>
mcpVars == <<want, edits, queued, disk, gateway, record, receipt, incident,
             line, sync, queueJob, mine, restored, unsure, overruled,
             setbacks>>
telemetryVars == <<place, result, evaluation, freeze, moves, queryFaults>>
alertVars == <<delivery, sender, deliveryFaults>>
MCVars == <<which, vars, runtimeVars, seriesVars, mcpVars, telemetryVars,
            alertVars>>

\* One initial state is enough for a component that rests.
MCInit ==
    /\ which \in {"lease", "runtime", "series", "mcp", "telemetry", "alerts"}
    /\ Init /\ Runtime!Init /\ Recurring!Init /\ Mcp!Init /\ Telemetry!Init
    /\ Alerts!Init
    /\ which = "lease" \/ /\ lock = NoLock
                          /\ pid = CHOOSE f \in [Procs -> Pids] :
                                \A p, q \in Procs : f[p] = f[q] => p = q
    /\ which = "series" \/ row = CHOOSE r \in [Series -> Recurring!NewRows] :
                                           TRUE
    /\ which = "telemetry" \/ place = CHOOSE f \in [Sources -> Projects] : TRUE

MCNext ==
    /\ UNCHANGED which
    /\ \/ /\ which = "lease" /\ Next
          /\ UNCHANGED <<runtimeVars, seriesVars, mcpVars, telemetryVars,
                         alertVars>>
       \/ /\ which = "runtime" /\ Runtime!Next
          /\ UNCHANGED <<vars, seriesVars, mcpVars, telemetryVars, alertVars>>
       \/ /\ which = "series" /\ Recurring!Next
          /\ UNCHANGED <<vars, runtimeVars, mcpVars, telemetryVars, alertVars>>
       \/ /\ which = "mcp" /\ Mcp!Next
          /\ UNCHANGED <<vars, runtimeVars, seriesVars, telemetryVars,
                         alertVars>>
       \/ /\ which = "telemetry" /\ Telemetry!Next
          /\ UNCHANGED <<vars, runtimeVars, seriesVars, mcpVars, alertVars>>
       \/ /\ which = "alerts" /\ Alerts!Next
          /\ UNCHANGED <<vars, runtimeVars, seriesVars, mcpVars,
                         telemetryVars>>

\* WorkspaceLease's fairness is that of the component that moves only.
LeaseFairness ==
    /\ \A p \in Procs : /\ WF_vars(which = "lease" /\ Acquiring(p))
                        /\ WF_vars(which = "lease" /\ Restart(p))
    /\ WF_vars(which = "lease" /\ Age)

MCSpec ==
    /\ MCInit /\ [][MCNext]_MCVars
    /\ LeaseFairness
    /\ Runtime!Fairness /\ Recurring!Fairness /\ Mcp!Fairness
    /\ Telemetry!Fairness /\ Alerts!Fairness

---------------------------------------------------------------------------
\* Processes and runs of recorded executions end on record.
ExecutionSettles == Runtime!ExecutionSettles

\* A due series is done with.
DueIsDone == Recurring!DueIsDone

\* An incident of the MCP configuration comes to an end.
IncidentEnds == Mcp!IncidentEnds

\* A background query comes to an end.
QueryEnds == Telemetry!QueryEnds

\* An alert is sent in the end.
DeliveryEnds == Alerts!DeliveryEnds
=============================================================================
