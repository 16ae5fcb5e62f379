-------------------------- MODULE TelemetryQueries -------------------------
(* Retained telemetry results.  A result carries the sources it was made of *)
(* and the project each belonged to; a source that moves or is deleted      *)
(* revokes it.  Background queries are run by workers under a lease,        *)
(* interactive ones by the request itself, and a finished one can be frozen *)
(* as a snapshot.  Every action is a transaction, or a part of one up to    *)
(* where others can see it.                                                 *)
EXTENDS Naturals, FiniteSets

CONSTANTS
    Sources,       \* tasks, runs, agents ... a metric is computed from
    Projects,      \* where a source may belong
    Gone,          \* a source that is deleted
    Queries,       \* ids of telemetry_query_results
    Workers,       \* processes that run startTelemetryQueryWorker
    Clients,       \* requests of queryTelemetry and queryTelemetryBatch
    Freezers,      \* requests of freezeReport
    MaxSnapshots,  \* telemetry_settings.max_snapshots
    MaxMoves,      \* bound: changes of telemetry_source_context
    MaxFaults,     \* bound: evaluations that fail, die or are late
    Nobody

Makers == Workers \cup Clients

\* What is taken for granted of the constants.
ConstantsOK ==
    /\ Workers \cap Clients = {}
    /\ Gone \notin Projects
    /\ IsFiniteSet(Queries)
    /\ MaxSnapshots \in Nat /\ MaxMoves \in Nat /\ MaxFaults \in Nat

VARIABLES
    place,   \* place[s]: project of source s in telemetry_source_context
    row,     \* row[q]: the row of telemetry_query_results
    job,     \* job[m]: the evaluation m is at
    freeze,  \* freeze[f]: the freeze f is at
    moves,   \* moves so far
    faults   \* faults so far

vars == <<place, row, job, freeze, moves, faults>>

\* Sources and their projects, as telemetry_query_sources keeps them.
Manifests == UNION {[S -> Projects] : S \in SUBSET Sources}
NoSources == [s \in {} |-> Gone]

NoRow == [state |-> "none", claim |-> Nobody, lease |-> FALSE,
          expired |-> FALSE, frozen |-> FALSE, batch |-> FALSE,
          sources |-> NoSources]
Idle == [pc |-> "idle"]
Over == {"complete", "failed", "cancelled"}

TelemetryTypeOK ==
    /\ place \in [Sources -> Projects \cup {Gone}]
    /\ row \in [Queries -> [state : {"none", "queued", "running"} \cup Over,
                            claim : Workers \cup {Nobody}, lease : BOOLEAN,
                            expired : BOOLEAN, frozen : BOOLEAN,
                            batch : BOOLEAN, sources : Manifests]]
    /\ job \in [Makers -> {Idle}
                   \cup [pc : {"claimed"}, q : Queries]
                   \cup [pc : {"evaluated", "verified"}, q : Queries,
                         batch : BOOLEAN, sources : Manifests]]
    /\ freeze \in [Freezers -> {Idle}
                      \cup [pc : {"asked", "counted"}, q : Queries]]
    /\ moves \in 0 .. MaxMoves
    /\ faults \in 0 .. MaxFaults

Init ==
    /\ place \in [Sources -> Projects]
    /\ row = [q \in Queries |-> NoRow]
    /\ job = [m \in Makers |-> Idle]
    /\ freeze = [f \in Freezers |-> Idle]
    /\ moves = 0
    /\ faults = 0

Active(q) == row[q].state \in {"queued", "running"}
InUse(q) == \E m \in Makers : job[m] # Idle /\ job[m].q = q
Fault == faults < MaxFaults /\ faults' = faults + 1

\* verifySources, on what has been committed.
Holds(sources) == \A s \in DOMAIN sources : place[s] = sources[s]

\* getQueryRecord finds nothing to object to.
Readable(q) ==
    /\ row[q].state # "none" /\ ~row[q].expired
    /\ row[q].state = "complete" => Holds(row[q].sources)

---------------------------------------------------------------------------
(* Background queries                                                       *)

\* executeQuery in the background, of one and the same request: one that is
\* still active is used again.
Request(q) ==
    /\ row[q].state = "none" /\ ~InUse(q)
    /\ ~\E o \in Queries : Active(o) /\ ~row[o].expired
    /\ row' = [o \in Queries |->
                  IF o = q THEN [NoRow EXCEPT !.state = "queued"]
                  ELSE IF Active(o) THEN [row[o] EXCEPT !.state = "cancelled"]
                  ELSE row[o]]
    /\ UNCHANGED <<place, job, freeze, moves, faults>>

\* A seeded fault: a lease that is over is not looked at.
ClaimQueuedOnlyBug(w) ==
    /\ job[w] = Idle
    /\ \E q \in Queries :
          /\ ~row[q].expired
          /\ row[q].state = "queued"
          /\ row' = [row EXCEPT ![q].state = "running", ![q].claim = w,
                                ![q].lease = TRUE]
          /\ job' = [job EXCEPT ![w] = [pc |-> "claimed", q |-> q]]
    /\ UNCHANGED <<place, freeze, moves, faults>>

\* runTelemetryQueryJobs
Claim(w) ==
    /\ job[w] = Idle
    /\ \E q \in Queries :
          /\ ~row[q].expired
          /\ \/ row[q].state = "queued"
             \/ row[q].state = "running" /\ ~row[q].lease
          /\ row' = [row EXCEPT ![q].state = "running", ![q].claim = w,
                                ![q].lease = TRUE]
          /\ job' = [job EXCEPT ![w] = [pc |-> "claimed", q |-> q]]
    /\ UNCHANGED <<place, freeze, moves, faults>>

\* evaluatePlans: values and sources come from one snapshot.
Evaluated(m, q, batch) ==
    LET alive == {s \in Sources : place[s] # Gone}
    IN  job' = [job EXCEPT ![m] = [pc |-> "evaluated", q |-> q,
                                   batch |-> batch,
                                   sources |-> [s \in alive |-> place[s]]]]

Evaluate(w) ==
    /\ job[w].pc = "claimed"
    /\ Evaluated(w, job[w].q, FALSE)
    /\ UNCHANGED <<place, row, freeze, moves, faults>>

\* A request evaluates at once, under a new id.  The snapshot of a batch is
\* the one its transaction goes on with.
Ask(c) ==
    /\ job[c] = Idle
    /\ \E q \in Queries, batch \in BOOLEAN :
          row[q].state = "none" /\ ~InUse(q) /\ Evaluated(c, q, batch)
    /\ UNCHANGED <<place, row, freeze, moves, faults>>

\* The claim that wrote "running" is still the one.
Owns(w) ==
    LET q == job[w].q
    IN  row[q].state = "running" /\ row[q].claim = w

Failed(m) ==
    /\ job' = [job EXCEPT ![m] = Idle]
    /\ row' = IF m \in Workers /\ Owns(m)
              THEN [row EXCEPT ![job[m].q].state = "failed"] ELSE row

\* publishWithSources: under the shared lock of the tenant's proofs, which
\* Move waits for, the sources are looked at again.  In a batch this reads
\* the snapshot.
Verify(m) ==
    /\ job[m].pc = "evaluated"
    /\ IF job[m].batch \/ Holds(job[m].sources)
       THEN job' = [job EXCEPT ![m].pc = "verified"] /\ UNCHANGED row
       ELSE Failed(m)
    /\ UNCHANGED <<place, freeze, moves, faults>>

Result(m) ==
    [NoRow EXCEPT !.state = "complete", !.batch = job[m].batch,
                  !.claim = IF m \in Workers THEN m ELSE Nobody,
                  !.expired = row[job[m].q].expired,
                  !.sources = job[m].sources]

\* A seeded fault: whoever has a result writes it.
PublishUnclaimedBug(m) ==
    /\ job[m].pc = "verified"
    /\ row' = IF row[job[m].q].state = "none" /\ m \in Workers THEN row
              ELSE [row EXCEPT ![job[m].q] = Result(m)]
    /\ job' = [job EXCEPT ![m] = Idle]
    /\ UNCHANGED <<place, freeze, moves, faults>>

\* The result and its sources are written and committed, a background one
\* only by the holder of its claim.
Publish(m) ==
    /\ job[m].pc = "verified"
    /\ row' = IF m \in Workers /\ ~Owns(m) THEN row
              ELSE [row EXCEPT ![job[m].q] = Result(m)]
    /\ job' = [job EXCEPT ![m] = Idle]
    /\ UNCHANGED <<place, freeze, moves, faults>>

\* The evaluation throws: limits, statement timeouts.
Fails(m) ==
    /\ job[m] # Idle
    /\ Fault
    /\ Failed(m)
    /\ UNCHANGED <<place, freeze, moves>>

Dies(m) ==
    /\ job[m] # Idle
    /\ Fault
    /\ job' = [job EXCEPT ![m] = Idle]
    /\ UNCHANGED <<place, row, freeze, moves>>

\* Five minutes pass.  That an evaluation takes longer counts as a fault.
LeaseEnds(q) ==
    /\ row[q].state = "running" /\ row[q].lease
    /\ IF \E w \in Workers : job[w] # Idle /\ job[w].q = q /\ Owns(w)
       THEN Fault ELSE UNCHANGED faults
    /\ row' = [row EXCEPT ![q].lease = FALSE]
    /\ UNCHANGED <<place, job, freeze, moves>>

\* cancelQuery
Cancel(q) ==
    /\ Active(q) /\ Readable(q)
    /\ row' = [row EXCEPT ![q].state = "cancelled"]
    /\ UNCHANGED <<place, job, freeze, moves, faults>>

---------------------------------------------------------------------------
(* Sources, snapshots, retention                                            *)

Revoked(q, s, to) ==
    /\ row[q].state = "complete" /\ s \in DOMAIN row[q].sources
    /\ \/ to = Gone
       \/ \E o \in DOMAIN row[q].sources :
             row[q].sources[o] # IF o = s THEN to ELSE place[o]

\* A seeded fault: the trigger does not wait for publications.
MoveUnlockedBug(s) ==
    /\ moves < MaxMoves
    /\ moves' = moves + 1
    /\ place[s] # Gone
    /\ \E to \in (Projects \cup {Gone}) \ {place[s]} :
          /\ place' = [place EXCEPT ![s] = to]
          /\ row' = [q \in Queries |->
                        IF Revoked(q, s, to) THEN NoRow ELSE row[q]]
    /\ UNCHANGED <<job, freeze, faults>>

\* A source is moved or deleted.  The trigger takes the tenant's lock for
\* itself, revokes the results the change touches, and commits with it.
Move(s) ==
    /\ moves < MaxMoves
    /\ moves' = moves + 1
    /\ place[s] # Gone
    /\ \A m \in Makers : job[m].pc # "verified"
    /\ \E to \in (Projects \cup {Gone}) \ {place[s]} :
          /\ place' = [place EXCEPT ![s] = to]
          /\ row' = [q \in Queries |->
                        IF Revoked(q, s, to) THEN NoRow ELSE row[q]]
    /\ UNCHANGED <<job, freeze, faults>>

\* freezeReport looks at the result ...
FreezeAsk(f) ==
    /\ freeze[f] = Idle
    /\ \E q \in Queries :
          /\ row[q].state = "complete" /\ Readable(q)
          /\ freeze' = [freeze EXCEPT ![f] = [pc |-> "asked", q |-> q]]
    /\ UNCHANGED <<place, row, job, moves, faults>>

Snapshots == {q \in Queries : row[q].frozen /\ ~row[q].expired}

\* A seeded fault: snapshots are counted before the lock is taken.
FreezeCountUnlockedBug(f) ==
    LET q == freeze[f].q
    IN  /\ freeze[f].pc = "asked"
        /\ freeze' = [freeze EXCEPT ![f] =
              IF Readable(q) /\ Cardinality(Snapshots \ {q}) < MaxSnapshots
              THEN [pc |-> "counted", q |-> q] ELSE Idle]
        /\ UNCHANGED <<place, row, job, moves, faults>>

\* ... and again under the tenant's snapshot lock, counts the others ...
FreezeCount(f) ==
    LET q == freeze[f].q
    IN  /\ freeze[f].pc = "asked"
        /\ \A g \in Freezers : freeze[g].pc # "counted"
        /\ freeze' = [freeze EXCEPT ![f] =
              IF Readable(q) /\ Cardinality(Snapshots \ {q}) < MaxSnapshots
              THEN [pc |-> "counted", q |-> q] ELSE Idle]
        /\ UNCHANGED <<place, row, job, moves, faults>>

\* ... and keeps the result, if it is still there.
FreezeWrite(f) ==
    LET q == freeze[f].q
    IN  /\ freeze[f].pc = "counted"
        /\ row' = IF row[q].state = "none" THEN row
                  ELSE [row EXCEPT ![q].frozen = TRUE, ![q].expired = FALSE]
        /\ freeze' = [freeze EXCEPT ![f] = Idle]
        /\ UNCHANGED <<place, job, moves, faults>>

Expire(q) ==
    /\ row[q].state # "none" /\ ~row[q].expired
    /\ row' = [row EXCEPT ![q].expired = TRUE]
    /\ UNCHANGED <<place, job, freeze, moves, faults>>

\* enforceTelemetryRetention
Sweep(q) ==
    /\ row[q].expired
    /\ row' = [row EXCEPT ![q] = NoRow]
    /\ UNCHANGED <<place, job, freeze, moves, faults>>

WorkerStep(w) == Claim(w) \/ Evaluate(w) \/ Verify(w) \/ Publish(w)

Next ==
    \/ \E q \in Queries : \/ Request(q) \/ LeaseEnds(q) \/ Cancel(q)
                          \/ Expire(q) \/ Sweep(q)
    \/ \E w \in Workers : Claim(w) \/ Evaluate(w)
    \/ \E c \in Clients : Ask(c)
    \/ \E m \in Makers : Verify(m) \/ Publish(m) \/ Fails(m) \/ Dies(m)
    \/ \E s \in Sources : Move(s)
    \/ \E f \in Freezers : FreezeAsk(f) \/ FreezeCount(f) \/ FreezeWrite(f)

\* The worker ticks every second and sweeps after each query; leases end.
Fairness ==
    /\ \A w \in Workers : WF_vars(WorkerStep(w))
    /\ \A q \in Queries : WF_vars(LeaseEnds(q)) /\ WF_vars(Sweep(q))

Spec == Init /\ [][Next]_vars
FairSpec == Spec /\ Fairness

---------------------------------------------------------------------------
\* "A concurrent mutation either revokes that proof after publication or is
\* observed before publication": a retained result never outlives what made
\* its sources accessible.  The results of batches are excepted, see below.
ProofStands ==
    \A q \in Queries : row[q].state = "complete" /\ ~row[q].batch
                          => Holds(row[q].sources)

\* The same of every result.
EveryProofStands ==
    \A q \in Queries : row[q].state = "complete" => Holds(row[q].sources)

\* Neither a worker whose lease was over nor one whose query was cancelled
\* changes what became of the query.
VerdictStep ==
    \A q \in Queries :
        row[q].state \in Over => row'[q].state \in {row[q].state, "none"}
VerdictStands == [][VerdictStep]_vars

\* Concurrent requests do not freeze more results than the settings allow.
SnapshotLimit == Cardinality(Snapshots) <= MaxSnapshots

\* A background query comes to an end, though workers die.
QueryEnds == \A q \in Queries : Active(q) ~> ~Active(q)

---------------------------------------------------------------------------
(* Why these hold: what is so at every step between two steps.              *)

\* What was verified holds until it is published.
VerifiedHolds ==
    \A m \in Makers : job[m].pc = "verified" /\ ~job[m].batch
                         => Holds(job[m].sources)

\* One freeze at a time has counted, and there is room for its result.
RoomForFrozen ==
    /\ \A f, g \in Freezers :
          freeze[f].pc = "counted" /\ freeze[g].pc = "counted" => f = g
    /\ \A f \in Freezers :
          freeze[f].pc = "counted" =>
             Cardinality(Snapshots \ {freeze[f].q}) < MaxSnapshots

\* The id a request evaluates under is its own, and nothing is stored there.
OwnIds ==
    \A c \in Clients :
        job[c] # Idle =>
           /\ row[job[c].q].state = "none"
           /\ \A d \in Clients \ {c} : job[d] # Idle => job[d].q # job[c].q
=============================================================================
