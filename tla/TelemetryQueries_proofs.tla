---------------------- MODULE TelemetryQueries_proofs ----------------------
(* What holds of retained telemetry results for any number of queries,      *)
(* workers, requests, freezes, moves and faults.                            *)
EXTENDS TelemetryQueries, TLAPS, FiniteSetTheorems

Rows == [state : {"none", "queued", "running"} \cup Over,
         claim : Workers \cup {Nobody}, lease : BOOLEAN, expired : BOOLEAN,
         frozen : BOOLEAN, batch : BOOLEAN, sources : Manifests]
Jobs == {Idle} \cup [pc : {"claimed"}, q : Queries]
        \cup [pc : {"evaluated", "verified"}, q : Queries, batch : BOOLEAN,
              sources : Manifests]
Freezes == {Idle} \cup [pc : {"asked", "counted"}, q : Queries]

LEMMA NoRowTyped ==
    /\ NoRow \in Rows
    /\ NoRow.state = "none" /\ ~NoRow.frozen
<1>1. NoSources \in Manifests
  <2>1. NoSources \in [{} -> Projects]
    BY DEF NoSources
  <2> QED
    BY <2>1 DEF Manifests
<1> QED
  BY <1>1 DEF NoRow, Rows

\* Who is at something is at a query, and with a result at its sources.
LEMMA JobTyped ==
    ASSUME TelemetryTypeOK, NEW m \in Makers, job[m] # Idle
    PROVE  /\ job[m].q \in Queries
           /\ job[m].pc \in {"claimed", "evaluated", "verified"}
           /\ job[m].pc \in {"evaluated", "verified"} =>
                 job[m].batch \in BOOLEAN /\ job[m].sources \in Manifests
BY DEF TelemetryTypeOK

LEMMA FreezeTyped ==
    ASSUME TelemetryTypeOK, NEW f \in Freezers,
           freeze[f].pc \in {"asked", "counted"}
    PROVE  freeze[f].q \in Queries
BY DEF TelemetryTypeOK, Idle

LEMMA AtWork ==
    ASSUME TelemetryTypeOK, NEW m \in Makers,
           job[m].pc \in {"claimed", "evaluated", "verified"}
    PROVE  job[m] # Idle
BY DEF Idle

LEMMA ManifestOfPlace ==
    ASSUME TelemetryTypeOK
    PROVE  LET alive == {s \in Sources : place[s] # Gone}
           IN  [s \in alive |-> place[s]] \in Manifests
<1> DEFINE alive == {s \in Sources : place[s] # Gone}
<1>1. alive \in SUBSET Sources /\ [s \in alive |-> place[s]] \in [alive -> Projects]
  BY DEF TelemetryTypeOK
<1> QED
  BY <1>1 DEF Manifests

LEMMA EvaluatedTyped ==
    ASSUME TelemetryTypeOK, NEW m \in Makers, NEW q \in Queries,
           NEW batch \in BOOLEAN, Evaluated(m, q, batch)
    PROVE  /\ job' \in [Makers -> Jobs]
           /\ job'[m].pc = "evaluated" /\ job'[m].q = q
           /\ \A n \in Makers \ {m} : job'[n] = job[n]
<1> DEFINE alive == {s \in Sources : place[s] # Gone}
           sources == [s \in alive |-> place[s]]
           new == [pc |-> "evaluated", q |-> q, batch |-> batch,
                   sources |-> sources]
<1>1. job' = [job EXCEPT ![m] = new]
  BY DEF Evaluated
<1>2. sources \in Manifests
  BY ManifestOfPlace
<1> HIDE DEF sources
<1>3. new \in Jobs /\ new.pc = "evaluated" /\ new.q = q
  BY <1>2 DEF Jobs
<1>4. job \in [Makers -> Jobs]
  BY DEF TelemetryTypeOK, Jobs
<1> QED
  BY <1>1, <1>3, <1>4

LEMMA FailedTyped ==
    ASSUME TelemetryTypeOK, NEW m \in Makers, job[m] # Idle, Failed(m)
    PROVE  /\ job' \in [Makers -> Jobs] /\ job'[m] = Idle
           /\ \A n \in Makers \ {m} : job'[n] = job[n]
           /\ row' \in [Queries -> Rows]
           /\ \A q \in Queries :
                 \/ row'[q] = row[q]
                 \/ /\ row[q].state = "running"
                    /\ row'[q] = [row[q] EXCEPT !.state = "failed"]
<1>1. /\ job \in [Makers -> Jobs] /\ row \in [Queries -> Rows]
      /\ job[m].q \in Queries
  BY JobTyped DEF TelemetryTypeOK, Jobs, Rows
<1>2. job' = [job EXCEPT ![m] = Idle] /\ Idle \in Jobs
  BY DEF Failed, Jobs
<1>3. \/ row' = row
      \/ /\ row[job[m].q].state = "running"
         /\ row' = [row EXCEPT ![job[m].q].state = "failed"]
  BY DEF Failed, Owns
<1>4. \A q \in Queries : [row[q] EXCEPT !.state = "failed"] \in Rows
  BY <1>1 DEF Rows, Over
<1> QED
  BY <1>1, <1>2, <1>3, <1>4

\* A result is written under the id it was made for, by the holder of the
\* claim or by the request.
LEMMA PublishTyped ==
    ASSUME TelemetryTypeOK, NEW m \in Makers, Publish(m)
    PROVE  /\ job' \in [Makers -> Jobs] /\ job'[m] = Idle
           /\ \A n \in Makers \ {m} : job'[n] = job[n]
           /\ row' \in [Queries -> Rows]
           /\ \A q \in Queries :
                 \/ row'[q] = row[q]
                 \/ /\ q = job[m].q
                    /\ m \in Clients \/ row[q].state = "running"
                    /\ row'[q].state = "complete"
                    /\ ~row'[q].frozen
                    /\ row'[q].batch = job[m].batch
                    /\ row'[q].sources = job[m].sources
<1>1. /\ job \in [Makers -> Jobs] /\ row \in [Queries -> Rows]
      /\ Idle \in Jobs
  BY DEF TelemetryTypeOK, Jobs, Rows
<1>2. /\ job[m] # Idle /\ job[m].q \in Queries
      /\ job[m].batch \in BOOLEAN /\ job[m].sources \in Manifests
  BY AtWork, JobTyped DEF Publish
<1>3. /\ Result(m) \in Rows /\ Result(m).state = "complete"
      /\ ~Result(m).frozen /\ Result(m).batch = job[m].batch
      /\ Result(m).sources = job[m].sources
  <2>1. row[job[m].q].expired \in BOOLEAN
    BY <1>1, <1>2 DEF Rows
  <2> QED
    BY <1>2, <2>1, NoRowTyped DEF Result, Rows, Over
<1>4. \/ row' = row
      \/ /\ m \in Clients \/ row[job[m].q].state = "running"
         /\ row' = [row EXCEPT ![job[m].q] = Result(m)]
  BY DEF Publish, Owns, Makers
<1>5. job' = [job EXCEPT ![m] = Idle]
  BY DEF Publish
<1> QED
  BY <1>1, <1>2, <1>3, <1>4, <1>5

\* What a step may make of the row of a query.
Usual(q) ==
    /\ row'[q] \in Rows
    /\ row'[q].state = "complete" =>
          /\ row[q].state = "complete"
          /\ row'[q].batch = row[q].batch /\ row'[q].sources = row[q].sources
    /\ row'[q].frozen /\ ~row'[q].expired => row[q].frozen /\ ~row[q].expired
    /\ row[q].state = "none" => row'[q].state = "none" \/ ~InUse(q)
    /\ row[q].state \in Over => row'[q].state \in {row[q].state, "none"}

LEMMA UsualForms ==
    ASSUME TelemetryTypeOK, NEW q \in Queries
    PROVE  /\ row'[q] = row[q] => Usual(q)
           /\ row'[q] = NoRow => Usual(q)
           /\ \A w \in Workers :
                 /\ Active(q)
                 /\ row'[q] = [row[q] EXCEPT !.state = "running", !.claim = w,
                                             !.lease = TRUE]
                 => Usual(q)
           /\ \A st \in {"cancelled", "failed"} :
                 Active(q) /\ row'[q] = [row[q] EXCEPT !.state = st] => Usual(q)
           /\ row'[q] = [row[q] EXCEPT !.lease = FALSE] => Usual(q)
           /\ row'[q] = [row[q] EXCEPT !.expired = TRUE] => Usual(q)
           /\ /\ row[q].state = "none" /\ ~InUse(q)
              /\ row'[q] = [NoRow EXCEPT !.state = "queued"]
              => Usual(q)
<1>1. row[q] \in Rows
  BY DEF TelemetryTypeOK, Rows
<1> QED
  BY <1>1, NoRowTyped DEF Rows, Usual, Active, Over

\* Only a publication completes a query, only a freeze keeps it.
LEMMA RowSteps ==
    ASSUME TelemetryTypeOK, [Next]_vars, NEW q \in Queries
    PROVE  \/ Usual(q)
           \/ \E m \in Makers : Publish(m) /\ job[m].q = q
           \/ \E f \in Freezers : FreezeWrite(f) /\ freeze[f].q = q
<1> DEFINE Goal == \/ Usual(q)
                   \/ \E m \in Makers : Publish(m) /\ job[m].q = q
                   \/ \E f \in Freezers : FreezeWrite(f) /\ freeze[f].q = q
<1>0. row'[q] = row[q] => Goal
  BY UsualForms
<1>1. row \in [Queries -> Rows]
  BY DEF TelemetryTypeOK, Rows
<1>2. ASSUME NEW o \in Queries,
             Request(o) \/ LeaseEnds(o) \/ Cancel(o) \/ Expire(o) \/ Sweep(o)
      PROVE  Goal
  <2>1. CASE Request(o)
    BY <1>1, <2>1, UsualForms DEF Request
  <2>2. CASE LeaseEnds(o)
    BY <1>1, <2>2, UsualForms DEF LeaseEnds
  <2>3. CASE Cancel(o)
    BY <1>1, <2>3, UsualForms DEF Cancel
  <2>4. CASE Expire(o) \/ Sweep(o)
    BY <1>1, <2>4, UsualForms DEF Expire, Sweep
  <2> QED
    BY <1>2, <2>1, <2>2, <2>3, <2>4
<1>3. ASSUME NEW w \in Workers, Claim(w) PROVE Goal
  <2>1. PICK o \in Queries :
           /\ Active(o)
           /\ row' = [row EXCEPT ![o].state = "running", ![o].claim = w,
                                 ![o].lease = TRUE]
    BY <1>3 DEF Claim, Active
  <2>2. row'[q] = IF q = o
                  THEN [row[q] EXCEPT !.state = "running", !.claim = w,
                                      !.lease = TRUE]
                  ELSE row[q]
    BY <1>1, <2>1
  <2> QED
    BY <2>1, <2>2, UsualForms
<1>4. ASSUME NEW m \in Makers, job[m] # Idle, Failed(m) PROVE Goal
  BY <1>4, FailedTyped, UsualForms DEF Active
<1>5. ASSUME NEW m \in Makers, Verify(m) \/ Fails(m) \/ Dies(m) PROVE Goal
  BY <1>0, <1>4, <1>5, AtWork DEF Verify, Fails, Dies
<1>6. ASSUME NEW m \in Makers, Publish(m) PROVE Goal
  BY <1>0, <1>6, PublishTyped
<1>7. ASSUME NEW s \in Sources, Move(s) PROVE Goal
  <2>1. row'[q] \in {row[q], NoRow}
    BY <1>7 DEF Move
  <2> QED
    BY <2>1, UsualForms
<1>8. ASSUME NEW f \in Freezers, FreezeWrite(f) PROVE Goal
  <2>1. freeze[f].q # q => row'[q] = row[q]
    BY <1>1, <1>8 DEF FreezeWrite
  <2> QED
    BY <1>0, <1>8, <2>1
<1>9. ASSUME \/ \E w \in Workers : Evaluate(w)
             \/ \E c \in Clients : Ask(c)
             \/ \E f \in Freezers : FreezeAsk(f) \/ FreezeCount(f)
             \/ UNCHANGED vars
      PROVE  Goal
  BY <1>0, <1>9 DEF Evaluate, Ask, FreezeAsk, FreezeCount, vars
<1> QED
  BY <1>2, <1>3, <1>5, <1>6, <1>7, <1>8, <1>9 DEF Next

\* Who makes a result goes from one query to the next alone.
Goes(m) ==
    /\ job'[m] \in Jobs
    /\ \/ job'[m] \in {job[m], Idle}
       \/ /\ m \in Workers
          /\ job'[m].pc \in {"claimed", "evaluated"}
       \/ /\ m \in Clients
          /\ job'[m].pc = "evaluated"
          /\ row[job'[m].q].state = "none" /\ ~InUse(job'[m].q)
          /\ UNCHANGED row
          /\ \A n \in Makers \ {m} : job'[n] = job[n]
       \/ /\ job[m].pc = "evaluated" /\ UNCHANGED <<row, place>>
          /\ job[m].batch \/ Holds(job[m].sources)
          /\ job'[m] = [job[m] EXCEPT !.pc = "verified"]

LEMMA JobSteps ==
    ASSUME TelemetryTypeOK, [Next]_vars, NEW m \in Makers
    PROVE  Goes(m)
<1>0. job'[m] = job[m] => Goes(m)
  BY DEF TelemetryTypeOK, Jobs, Goes
<1>1. job \in [Makers -> Jobs] /\ Idle \in Jobs
  BY DEF TelemetryTypeOK, Jobs
<1>2. ASSUME NEW w \in Workers, Claim(w) PROVE Goes(m)
  <2>1. PICK q \in Queries :
           job' = [job EXCEPT ![w] = [pc |-> "claimed", q |-> q]]
    BY <1>2 DEF Claim
  <2>2. w \in Makers /\ [pc |-> "claimed", q |-> q] \in Jobs
    BY DEF Makers, Jobs
  <2> QED
    BY <1>0, <1>1, <2>1, <2>2 DEF Goes
<1>3. ASSUME NEW w \in Workers, Evaluate(w) PROVE Goes(m)
  <2>1. w \in Makers
    BY DEF Makers
  <2>2. job[w].q \in Queries
    BY <1>3, <2>1, AtWork, JobTyped DEF Evaluate
  <2>3. /\ job'[w] \in Jobs /\ job'[w].pc = "evaluated"
        /\ \A n \in Makers \ {w} : job'[n] = job[n]
    BY <1>3, <2>1, <2>2, EvaluatedTyped DEF Evaluate
  <2> QED
    BY <1>0, <2>3 DEF Goes
<1>4. ASSUME NEW c \in Clients, Ask(c) PROVE Goes(m)
  <2>1. c \in Makers
    BY DEF Makers
  <2>2. PICK q \in Queries, batch \in BOOLEAN :
           row[q].state = "none" /\ ~InUse(q) /\ Evaluated(c, q, batch)
    BY <1>4 DEF Ask
  <2>3. /\ job'[c] \in Jobs /\ job'[c].pc = "evaluated" /\ job'[c].q = q
        /\ \A n \in Makers \ {c} : job'[n] = job[n]
        /\ UNCHANGED row
    BY <1>4, <2>1, <2>2, EvaluatedTyped DEF Ask
  <2> QED
    BY <1>0, <1>4, <2>2, <2>3 DEF Goes
<1>5. ASSUME NEW n \in Makers, Publish(n) \/ Fails(n) \/ Dies(n) PROVE Goes(m)
  <2>1. job'[m] \in {job[m], Idle}
    BY <1>1, <1>5, FailedTyped, PublishTyped DEF Fails, Dies
  <2> QED
    BY <1>0, <1>1, <2>1 DEF Goes
<1>6. ASSUME NEW n \in Makers, Verify(n) PROVE Goes(m)
  <2>1. CASE Failed(n)
    <3>1. job'[m] \in {job[m], Idle}
      BY <1>6, <2>1, AtWork, FailedTyped DEF Verify
    <3> QED
      BY <1>0, <1>1, <3>1 DEF Goes
  <2>2. CASE ~Failed(n)
    <3>1. /\ job[n].pc = "evaluated" /\ UNCHANGED <<row, place>>
          /\ job[n].batch \/ Holds(job[n].sources)
          /\ job' = [job EXCEPT ![n].pc = "verified"]
      BY <1>6, <2>2 DEF Verify
    <3>2. n # m => job'[m] = job[m]
      BY <1>1, <3>1
    <3>3. job'[n] = [job[n] EXCEPT !.pc = "verified"]
      BY <1>1, <3>1
    <3>4. job'[n] \in Jobs
      <4>1. job[n] \in [pc : {"evaluated", "verified"}, q : Queries,
                        batch : BOOLEAN, sources : Manifests]
        BY <1>1, <3>1 DEF Jobs, Idle
      <4> QED
        BY <3>3, <4>1 DEF Jobs
    <3> QED
      BY <1>0, <3>1, <3>2, <3>3, <3>4 DEF Goes
  <2> QED
    BY <2>1, <2>2
<1>7. ASSUME \/ \E q \in Queries : \/ Request(q) \/ LeaseEnds(q) \/ Cancel(q)
                                   \/ Expire(q) \/ Sweep(q)
             \/ \E s \in Sources : Move(s)
             \/ \E f \in Freezers : \/ FreezeAsk(f) \/ FreezeCount(f)
                                    \/ FreezeWrite(f)
             \/ UNCHANGED vars
      PROVE  Goes(m)
  <2>1. UNCHANGED job
    BY <1>7 DEF Request, LeaseEnds, Cancel, Expire, Sweep, Move, FreezeAsk,
                FreezeCount, FreezeWrite, vars
  <2> QED
    BY <1>0, <2>1
<1> QED
  BY <1>2, <1>3, <1>4, <1>5, <1>6, <1>7 DEF Next

\* A freeze goes from looking to counting under the lock, and writes.
LEMMA FreezeSteps ==
    ASSUME TelemetryTypeOK, [Next]_vars, NEW f \in Freezers
    PROVE  /\ freeze'[f] \in Freezes
           /\ \/ freeze'[f] \in {freeze[f], Idle}
              \/ freeze'[f].pc = "asked"
              \/ /\ freeze'[f].pc = "counted" /\ UNCHANGED row
                 /\ \A g \in Freezers : freeze[g].pc # "counted"
                 /\ \A g \in Freezers \ {f} : freeze'[g] = freeze[g]
                 /\ Cardinality(Snapshots \ {freeze'[f].q}) < MaxSnapshots
<1>1. freeze \in [Freezers -> Freezes] /\ Idle \in Freezes
  BY DEF TelemetryTypeOK, Freezes
<1>2. ASSUME NEW g \in Freezers, FreezeAsk(g)
      PROVE  /\ freeze'[f] \in Freezes
             /\ freeze'[f] = freeze[f] \/ freeze'[f].pc = "asked"
  BY <1>1, <1>2 DEF FreezeAsk, Freezes
<1>3. ASSUME NEW g \in Freezers, FreezeCount(g)
      PROVE  /\ freeze'[f] \in Freezes
             /\ \/ freeze'[f] \in {freeze[f], Idle}
                \/ /\ freeze'[f].pc = "counted" /\ UNCHANGED row
                   /\ \A h \in Freezers : freeze[h].pc # "counted"
                   /\ \A h \in Freezers \ {f} : freeze'[h] = freeze[h]
                   /\ Cardinality(Snapshots \ {freeze'[f].q}) < MaxSnapshots
  <2>1. freeze[g].q \in Queries
    BY <1>3, FreezeTyped DEF FreezeCount
  <2>2. [pc |-> "counted", q |-> freeze[g].q] \in Freezes
    BY <2>1 DEF Freezes
  <2>3. \/ /\ freeze' = [freeze EXCEPT ![g] = [pc |-> "counted",
                                                q |-> freeze[g].q]]
           /\ Cardinality(Snapshots \ {freeze[g].q}) < MaxSnapshots
        \/ freeze' = [freeze EXCEPT ![g] = Idle]
    BY <1>3 DEF FreezeCount
  <2>4. UNCHANGED row /\ \A h \in Freezers : freeze[h].pc # "counted"
    BY <1>3 DEF FreezeCount
  <2> QED
    BY <1>1, <2>2, <2>3, <2>4
<1>4. ASSUME NEW g \in Freezers, FreezeWrite(g)
      PROVE  freeze'[f] \in Freezes /\ freeze'[f] \in {freeze[f], Idle}
  BY <1>1, <1>4 DEF FreezeWrite
<1>5. ASSUME UNCHANGED freeze
      PROVE  freeze'[f] \in Freezes /\ freeze'[f] = freeze[f]
  BY <1>1, <1>5
<1>6. \/ UNCHANGED freeze
      \/ \E g \in Freezers : FreezeAsk(g) \/ FreezeCount(g) \/ FreezeWrite(g)
  BY DEF Next, Request, LeaseEnds, Cancel, Expire, Sweep, Claim, Evaluate, Ask,
         Verify, Publish, Fails, Dies, Move, vars
<1> QED
  BY <1>2, <1>3, <1>4, <1>5, <1>6

---------------------------------------------------------------------------
(* Typing                                                                   *)

LEMMA CountersTyped ==
    ASSUME ConstantsOK, TelemetryTypeOK, [Next]_vars
    PROVE  /\ place' \in [Sources -> Projects \cup {Gone}]
           /\ moves' \in 0 .. MaxMoves /\ faults' \in 0 .. MaxFaults
<1>1. \/ UNCHANGED <<place, moves>>
      \/ \E s \in Sources : Move(s)
  BY DEF Next, Request, LeaseEnds, Cancel, Expire, Sweep, Claim, Evaluate, Ask,
         Verify, Publish, Fails, Dies, FreezeAsk, FreezeCount, FreezeWrite,
         vars
<1>2. /\ place' \in [Sources -> Projects \cup {Gone}]
      /\ moves' \in 0 .. MaxMoves
  BY <1>1 DEF ConstantsOK, TelemetryTypeOK, Move
<1>3. UNCHANGED faults \/ Fault
  BY DEF Next, Request, LeaseEnds, Cancel, Expire, Sweep, Claim, Evaluate, Ask,
         Verify, Publish, Fails, Dies, Move, FreezeAsk, FreezeCount,
         FreezeWrite, vars
<1>4. faults' \in 0 .. MaxFaults
  BY <1>3 DEF ConstantsOK, TelemetryTypeOK, Fault
<1> QED
  BY <1>2, <1>4

\* The row that a freeze keeps, if it is still there.
LEMMA FreezeWriteTyped ==
    ASSUME TelemetryTypeOK, NEW f \in Freezers, FreezeWrite(f),
           NEW q \in Queries
    PROVE  \/ row'[q] = row[q]
           \/ /\ q = freeze[f].q /\ row[q].state # "none"
              /\ row'[q] \in Rows
              /\ row'[q].state = row[q].state
              /\ row'[q].batch = row[q].batch
              /\ row'[q].sources = row[q].sources
<1>1. row \in [Queries -> Rows]
  BY DEF TelemetryTypeOK, Rows
<1> DEFINE new == [row[q] EXCEPT !.frozen = TRUE, !.expired = FALSE]
<1>2. /\ new \in Rows /\ new.state = row[q].state
      /\ new.batch = row[q].batch /\ new.sources = row[q].sources
  BY <1>1 DEF Rows
<1>3. \/ row' = row
      \/ /\ row[freeze[f].q].state # "none"
         /\ row' = [row EXCEPT ![freeze[f].q].frozen = TRUE,
                               ![freeze[f].q].expired = FALSE]
  BY DEF FreezeWrite
<1> QED
  BY <1>1, <1>2, <1>3

LEMMA FunctionsTyped ==
    ASSUME TelemetryTypeOK, [Next]_vars
    PROVE  /\ row' \in [Queries -> Rows]
           /\ job' \in [Makers -> Jobs]
           /\ freeze' \in [Freezers -> Freezes]
<1>0. /\ row = [q \in Queries |-> row[q]]
      /\ job = [m \in Makers |-> job[m]]
      /\ freeze = [f \in Freezers |-> freeze[f]]
  BY DEF TelemetryTypeOK
<1>1. /\ DOMAIN row' = Queries /\ row' = [q \in Queries |-> row'[q]]
      /\ DOMAIN job' = Makers /\ job' = [m \in Makers |-> job'[m]]
      /\ DOMAIN freeze' = Freezers /\ freeze' = [f \in Freezers |-> freeze'[f]]
  BY <1>0
     DEF Next, Request, LeaseEnds, Cancel, Expire, Sweep, Claim, Evaluate,
         Evaluated, Ask, Verify, Failed, Publish, Fails, Dies, Move, FreezeAsk,
         FreezeCount, FreezeWrite, vars
<1>2. \A q \in Queries : row'[q] \in Rows
  BY RowSteps, PublishTyped, FreezeWriteTyped DEF Usual, TelemetryTypeOK, Rows
<1> QED
  BY <1>1, <1>2, JobSteps, FreezeSteps DEF Goes

LEMMA StepTyped ==
    ASSUME ConstantsOK, TelemetryTypeOK, [Next]_vars
    PROVE  TelemetryTypeOK'
BY FunctionsTyped, CountersTyped
   DEF TelemetryTypeOK, Rows, Jobs, Freezes

LEMMA InitTyped ==
    ASSUME ConstantsOK, Init
    PROVE  TelemetryTypeOK
<1>1. NoRow \in Rows
  BY NoRowTyped
<1> QED
  BY <1>1 DEF ConstantsOK, Init, TelemetryTypeOK, Rows

\* Rows, evaluations and freezes keep to the states their code knows.
THEOREM TelemetryTypes ==
    ASSUME ConstantsOK
    PROVE  Spec => []TelemetryTypeOK
<1>1. Init => TelemetryTypeOK
  BY InitTyped
<1>2. TelemetryTypeOK /\ [Next]_vars => TelemetryTypeOK'
  BY StepTyped
<1> QED
  BY <1>1, <1>2, PTL DEF Spec

---------------------------------------------------------------------------
(* Proofs of access                                                         *)

\* Sources move only while nobody stands between looking and publishing, and
\* what is moved revokes the results it was a source of.
LEMMA PlaceSteps ==
    ASSUME TelemetryTypeOK, [Next]_vars
    PROVE  \/ UNCHANGED place
           \/ /\ UNCHANGED job
              /\ \A m \in Makers : job[m].pc # "verified"
              /\ \A q \in Queries :
                    row[q].state = "complete" =>
                       \/ row'[q] = NoRow
                       \/ /\ row'[q] = row[q]
                          /\ Holds(row[q].sources) => Holds(row[q].sources)'
<1>1. \/ UNCHANGED place
      \/ \E s \in Sources : Move(s)
  BY DEF Next, Request, LeaseEnds, Cancel, Expire, Sweep, Claim, Evaluate, Ask,
         Verify, Publish, Fails, Dies, FreezeAsk, FreezeCount, FreezeWrite,
         vars
<1>2. ASSUME NEW s \in Sources, Move(s), NEW q \in Queries,
             row[q].state = "complete"
      PROVE  \/ row'[q] = NoRow
             \/ /\ row'[q] = row[q]
                /\ \A o \in DOMAIN row[q].sources :
                      place[o] = row[q].sources[o] =>
                         place'[o] = row[q].sources[o]
  <2>1. PICK to \in (Projects \cup {Gone}) \ {place[s]} :
           /\ place' = [place EXCEPT ![s] = to]
           /\ row' = [o \in Queries |->
                         IF Revoked(o, s, to) THEN NoRow ELSE row[o]]
    BY <1>2 DEF Move
  <2>2. CASE Revoked(q, s, to)
    BY <2>1, <2>2
  <2>3. CASE ~Revoked(q, s, to)
    <3>1. row'[q] = row[q]
      BY <2>1, <2>3
    <3>2. s \in DOMAIN row[q].sources => row[q].sources[s] = to
      BY <1>2, <2>3 DEF Revoked
    <3>3. DOMAIN row[q].sources \subseteq Sources
      BY DEF TelemetryTypeOK, Manifests
    <3>4. \A o \in Sources : place'[o] = IF o = s THEN to ELSE place[o]
      BY <2>1 DEF TelemetryTypeOK
    <3> QED
      BY <3>1, <3>2, <3>3, <3>4
  <2> QED
    BY <2>2, <2>3
<1>3. ASSUME NEW s \in Sources, Move(s), NEW q \in Queries,
             row[q].state = "complete"
      PROVE  \/ row'[q] = NoRow
             \/ /\ row'[q] = row[q]
                /\ Holds(row[q].sources) => Holds(row[q].sources)'
  <2>1. CASE row'[q] = NoRow
    BY <2>1
  <2>2. CASE row'[q] # NoRow
    <3>1. row'[q] = row[q]
      BY <1>2, <1>3, <2>2
    <3>2. Holds(row[q].sources) =>
             \A o \in DOMAIN row'[q].sources : place'[o] = row'[q].sources[o]
      BY <1>2, <1>3, <2>2, <3>1 DEF Holds
    <3> QED
      BY <3>1, <3>2 DEF Holds
  <2> QED
    BY <2>1, <2>2
<1> QED
  BY <1>1, <1>3 DEF Move

LEMMA StepVerified ==
    ASSUME TelemetryTypeOK, VerifiedHolds, [Next]_vars
    PROVE  VerifiedHolds'
<1> SUFFICES ASSUME NEW m \in Makers, job'[m].pc = "verified",
                    ~job'[m].batch
             PROVE  Holds(job[m].sources)'
  BY DEF VerifiedHolds
<1>1. CASE job[m].pc = "verified"
  <2>0. Goes(m)
    BY JobSteps
  <2>1. job'[m] = job[m]
    BY <1>1, <2>0 DEF Goes, Idle
  <2>2. UNCHANGED place
    BY <1>1, PlaceSteps
  <2> QED
    BY <1>1, <2>1, <2>2 DEF VerifiedHolds, Holds
<1>2. CASE job[m].pc # "verified"
  <2>1. /\ job[m].pc = "evaluated" /\ UNCHANGED place
        /\ job[m].batch \/ Holds(job[m].sources)
        /\ job'[m] = [job[m] EXCEPT !.pc = "verified"]
    BY <1>2, JobSteps DEF Goes, Idle
  <2>2. job[m] \in [pc : {"evaluated", "verified"}, q : Queries,
                    batch : BOOLEAN, sources : Manifests]
    BY <2>1 DEF TelemetryTypeOK, Idle
  <2>3. job'[m].batch = job[m].batch /\ job'[m].sources = job[m].sources
    BY <2>1, <2>2
  <2> QED
    BY <2>1, <2>3 DEF Holds
<1> QED
  BY <1>1, <1>2

LEMMA StepProof ==
    ASSUME TelemetryTypeOK, VerifiedHolds, ProofStands, [Next]_vars
    PROVE  ProofStands'
<1> SUFFICES ASSUME NEW q \in Queries, row'[q].state = "complete",
                    ~row'[q].batch
             PROVE  Holds(row[q].sources)'
  BY DEF ProofStands
<1>1. row'[q] # NoRow
  BY NoRowTyped
<1>2. CASE /\ row[q].state = "complete"
           /\ row'[q].batch = row[q].batch /\ row'[q].sources = row[q].sources
  <2>1. Holds(row[q].sources)
    BY <1>2 DEF ProofStands
  <2>2. CASE UNCHANGED place
    BY <1>2, <2>1, <2>2 DEF Holds
  <2> QED
    BY <1>1, <1>2, <2>1, <2>2, PlaceSteps
<1>3. ASSUME NEW m \in Makers, Publish(m), job[m].q = q
      PROVE  Holds(row[q].sources)'
  <2>1. UNCHANGED place
    BY <1>3 DEF Publish
  <2>2. CASE row'[q] = row[q]
    BY <1>2, <2>2
  <2>3. CASE row'[q] # row[q]
    <3>1. row'[q].batch = job[m].batch /\ row'[q].sources = job[m].sources
      BY <1>3, <2>3, PublishTyped
    <3>2. Holds(job[m].sources)
      BY <1>3, <3>1 DEF Publish, VerifiedHolds
    <3> QED
      BY <2>1, <3>1, <3>2 DEF Holds
  <2> QED
    BY <2>2, <2>3
<1>4. ASSUME NEW f \in Freezers, FreezeWrite(f)
      PROVE  Holds(row[q].sources)'
  <2>1. /\ row'[q].state = row[q].state /\ row'[q].batch = row[q].batch
        /\ row'[q].sources = row[q].sources
    BY <1>4, FreezeWriteTyped
  <2> QED
    BY <1>2, <2>1
<1> QED
  BY <1>2, <1>3, <1>4, RowSteps DEF Usual

\* No retained result but a batch's outlives the access to a source of it:
\* a source that moves either finds the result, and revokes it, or is seen
\* to have moved before the result is published.
THEOREM ProofsStand ==
    ASSUME ConstantsOK
    PROVE  Spec => []ProofStands
<1>1. Init => VerifiedHolds /\ ProofStands
  BY NoRowTyped DEF Init, VerifiedHolds, ProofStands, Idle
<1>2. TelemetryTypeOK /\ VerifiedHolds /\ ProofStands /\ [Next]_vars
         => VerifiedHolds' /\ ProofStands'
  BY StepVerified, StepProof
<1> QED
  BY <1>1, <1>2, TelemetryTypes, PTL DEF Spec

---------------------------------------------------------------------------
(* Verdicts                                                                 *)

LEMMA StepOwnIds ==
    ASSUME ConstantsOK, TelemetryTypeOK, OwnIds, [Next]_vars
    PROVE  OwnIds'
<1>0. \A c \in Clients : c \in Makers /\ c \notin Workers
  BY DEF ConstantsOK, Makers
\* Whoever is at a query with nothing stored stays alone with it.
<1>1. ASSUME NEW c \in Clients, job[c] # Idle, job'[c] # Idle
      PROVE  row'[job[c].q].state = "none"
  <2> DEFINE q == job[c].q
  <2>1. q \in Queries /\ row[q].state = "none" /\ InUse(q)
    BY <1>0, <1>1, JobTyped DEF OwnIds, InUse
  <2>2. CASE Usual(q)
    BY <2>1, <2>2 DEF Usual
  <2>3. ASSUME NEW m \in Makers, Publish(m), job[m].q = q
        PROVE  row'[q].state = "none"
    <3>1. m # c
      BY <1>1, <2>3, PublishTyped
    <3>2. m \notin Clients
      BY <1>1, <2>3, <3>1, AtWork DEF OwnIds, Publish
    <3> QED
      BY <2>1, <2>3, <3>2, PublishTyped
  <2>4. ASSUME NEW f \in Freezers, FreezeWrite(f) PROVE row'[q].state = "none"
    BY <2>1, <2>4, FreezeWriteTyped
  <2> QED
    BY <2>1, <2>2, <2>3, <2>4, RowSteps
\* A request keeps its query, or takes one that nobody is at.
<1>2. ASSUME NEW c \in Clients, job'[c] # Idle
      PROVE  \/ job[c] # Idle /\ job'[c].q = job[c].q
             \/ /\ row[job'[c].q].state = "none" /\ ~InUse(job'[c].q)
                /\ UNCHANGED row
                /\ \A m \in Makers \ {c} : job'[m] = job[m]
  <2>1. job[c].pc = "evaluated" => job[c] # Idle
    BY DEF Idle
  <2>2. job[c].pc = "evaluated" /\ job'[c] = [job[c] EXCEPT !.pc = "verified"]
           => job'[c].q = job[c].q
    BY <1>0 DEF TelemetryTypeOK, Idle
  <2> QED
    BY <1>0, <1>2, <2>1, <2>2, JobSteps DEF Goes
<1>3. ASSUME NEW c \in Clients, job'[c] # Idle
      PROVE  row'[job'[c].q].state = "none"
  BY <1>1, <1>2, <1>3
<1>4. ASSUME NEW c \in Clients, NEW d \in Clients \ {c}, job'[c] # Idle,
             job'[d] # Idle
      PROVE  job'[d].q # job'[c].q
  <2>1. CASE /\ job[c] # Idle /\ job'[c].q = job[c].q
             /\ job[d] # Idle /\ job'[d].q = job[d].q
    BY <1>4, <2>1 DEF OwnIds
  <2>2. ASSUME NEW a \in Clients, NEW b \in Clients \ {a}, job'[b] # Idle,
               ~InUse(job'[a].q),
               \A m \in Makers \ {a} : job'[m] = job[m]
        PROVE  job'[b].q # job'[a].q
    BY <1>0, <2>2 DEF InUse
  <2> QED
    BY <1>2, <1>4, <2>1, <2>2
<1> QED
  BY <1>3, <1>4 DEF OwnIds

LEMMA StepVerdict ==
    ASSUME ConstantsOK, TelemetryTypeOK, OwnIds, [Next]_vars
    PROVE  VerdictStep
<1> SUFFICES ASSUME NEW q \in Queries, row[q].state \in Over
             PROVE  row'[q].state \in {row[q].state, "none"}
  BY DEF VerdictStep
<1>1. ASSUME NEW m \in Makers, Publish(m), job[m].q = q
      PROVE  row'[q] = row[q]
  <2>1. m \notin Clients
    <3>1. row[q].state # "none"
      BY DEF Over
    <3> QED
      BY <1>1, <3>1, AtWork DEF OwnIds, Publish
  <2>2. row[q].state # "running"
    BY DEF Over
  <2> QED
    BY <1>1, <2>1, <2>2, PublishTyped
<1>2. ASSUME NEW f \in Freezers, FreezeWrite(f)
      PROVE  row'[q].state = row[q].state
  BY <1>2, FreezeWriteTyped
<1> QED
  BY <1>1, <1>2, RowSteps DEF Usual

\* What became of a query is not rewritten: not by the worker that lost its
\* lease, not by one whose query was cancelled.
THEOREM VerdictsStand ==
    ASSUME ConstantsOK
    PROVE  Spec => VerdictStands
<1>1. Init => OwnIds
  BY DEF Init, OwnIds, Makers
<1>2. TelemetryTypeOK /\ OwnIds /\ [Next]_vars => OwnIds'
  BY StepOwnIds
<1>3. TelemetryTypeOK /\ OwnIds /\ [Next]_vars => [VerdictStep]_vars
  BY StepVerdict
<1> QED
  BY <1>1, <1>2, <1>3, TelemetryTypes, PTL DEF Spec, VerdictStands

---------------------------------------------------------------------------
(* Snapshots                                                                *)

LEMMA FewerSnapshots ==
    ASSUME ConstantsOK, NEW S \in SUBSET Queries, NEW T \in SUBSET S
    PROVE  /\ IsFiniteSet(S) /\ Cardinality(S) \in Nat
           /\ Cardinality(T) \in Nat
           /\ Cardinality(T) <= Cardinality(S)
<1>1. IsFiniteSet(S)
  BY FS_Subset DEF ConstantsOK
<1>2. IsFiniteSet(T) /\ Cardinality(T) <= Cardinality(S)
  BY <1>1, FS_Subset
<1> QED
  BY <1>1, <1>2, FS_CardinalityType

\* A step that freezes nothing adds no snapshot, and one that freezes adds
\* the one for which there was room.
LEMMA SnapshotSteps ==
    ASSUME TelemetryTypeOK, [Next]_vars
    PROVE  \/ Snapshots' \subseteq Snapshots
           \/ \E f \in Freezers :
                 /\ FreezeWrite(f)
                 /\ Snapshots' \subseteq Snapshots \cup {freeze[f].q}
<1>1. ASSUME NEW q \in Queries, q \in Snapshots', q \notin Snapshots
      PROVE  \E f \in Freezers : FreezeWrite(f) /\ freeze[f].q = q
  <2>1. row'[q].frozen /\ ~row'[q].expired
        /\ ~(row[q].frozen /\ ~row[q].expired)
    BY <1>1 DEF Snapshots
  <2>2. ASSUME NEW m \in Makers, Publish(m) PROVE FALSE
    BY <2>1, <2>2, PublishTyped
  <2> QED
    BY <2>1, <2>2, RowSteps DEF Usual
<1>2. ASSUME NEW f \in Freezers, FreezeWrite(f), NEW q \in Queries,
             q \in Snapshots', q \notin Snapshots
      PROVE  q = freeze[f].q
  <2>1. q # freeze[f].q => row'[q] = row[q]
    BY <1>2, FreezeWriteTyped
  <2> QED
    BY <1>2, <2>1 DEF Snapshots
<1>3. Snapshots' \subseteq Queries
  BY DEF Snapshots
<1> QED
  BY <1>1, <1>2, <1>3

LEMMA CountedComes ==
    ASSUME TelemetryTypeOK, [Next]_vars, NEW f \in Freezers,
           freeze'[f].pc = "counted"
    PROVE  \/ freeze[f].pc = "counted"
           \/ /\ \A g \in Freezers : freeze[g].pc # "counted"
              /\ \A g \in Freezers \ {f} : freeze'[g] = freeze[g]
<1>1. \/ freeze'[f] \in {freeze[f], Idle}
      \/ freeze'[f].pc = "asked"
      \/ /\ \A g \in Freezers : freeze[g].pc # "counted"
         /\ \A g \in Freezers \ {f} : freeze'[g] = freeze[g]
  BY FreezeSteps
<1>2. Idle.pc = "idle"
  BY DEF Idle
<1> QED
  BY <1>1, <1>2

LEMMA StepRoom ==
    ASSUME ConstantsOK, TelemetryTypeOK, RoomForFrozen, SnapshotLimit,
           [Next]_vars
    PROVE  RoomForFrozen' /\ SnapshotLimit'
<1>0. Snapshots \subseteq Queries /\ Snapshots' \subseteq Queries
  BY DEF Snapshots
<1>1. CASE Snapshots' \subseteq Snapshots
  <2>1. SnapshotLimit'
    BY <1>0, <1>1, FewerSnapshots DEF SnapshotLimit, ConstantsOK
  <2>2. ASSUME NEW f \in Freezers, freeze'[f].pc = "counted"
        PROVE  /\ Cardinality((Snapshots \ {freeze[f].q})') < MaxSnapshots
               /\ \A g \in Freezers : freeze'[g].pc = "counted" => f = g
    <3>1. \A S \in SUBSET Queries : \A T \in SUBSET S :
             Cardinality(S) < MaxSnapshots => Cardinality(T) < MaxSnapshots
      BY FewerSnapshots DEF ConstantsOK
    <3>2. (Snapshots \ {freeze[f].q})' \subseteq Snapshots \ {freeze'[f].q}
      BY <1>1
    <3>3. Cardinality(Snapshots \ {freeze'[f].q}) < MaxSnapshots
      BY <2>2, FreezeSteps DEF RoomForFrozen, Idle
    <3>4. ASSUME NEW g \in Freezers, freeze'[g].pc = "counted" PROVE f = g
      <4>1. \A h \in {f, g} :
               \/ freeze[h].pc = "counted"
               \/ /\ \A o \in Freezers : freeze[o].pc # "counted"
                  /\ \A o \in Freezers \ {h} : freeze'[o] = freeze[o]
        BY <2>2, <3>4, CountedComes
      <4>2. CASE freeze[f].pc = "counted" /\ freeze[g].pc = "counted"
        BY <4>2 DEF RoomForFrozen
      <4> QED
        BY <2>2, <3>4, <4>1, <4>2
    <3> QED
      BY <1>0, <3>1, <3>2, <3>3, <3>4
  <2> QED
    BY <2>1, <2>2 DEF RoomForFrozen
<1>2. ASSUME NEW f \in Freezers, FreezeWrite(f),
             Snapshots' \subseteq Snapshots \cup {freeze[f].q}
      PROVE  RoomForFrozen' /\ SnapshotLimit'
  <2>1. freeze[f].pc = "counted"
    BY <1>2 DEF FreezeWrite
  <2>2. \A g \in Freezers : freeze'[g].pc # "counted"
    BY <1>2, <2>1 DEF RoomForFrozen, TelemetryTypeOK, FreezeWrite, Idle
  <2> DEFINE q == freeze[f].q
             others == Snapshots \ {q}
  <2>3. /\ IsFiniteSet(others) /\ Cardinality(others) \in Nat
        /\ Cardinality(others) < MaxSnapshots
    BY <1>0, <2>1, FewerSnapshots DEF RoomForFrozen
  <2>4. /\ IsFiniteSet(others \cup {q})
        /\ Cardinality(others \cup {q}) = Cardinality(others) + 1
    BY <2>3, FS_AddElement
  <2>5. Snapshots' \subseteq others \cup {q}
    BY <1>2
  <2>6. Cardinality(Snapshots') <= Cardinality(others \cup {q})
    BY <2>4, <2>5, FS_Subset
  <2>7. Cardinality(Snapshots') \in Nat
    BY <1>0, FewerSnapshots
  <2>8. Cardinality(Snapshots') <= MaxSnapshots
    BY <2>3, <2>4, <2>6, <2>7 DEF ConstantsOK
  <2> QED
    BY <2>2, <2>8 DEF RoomForFrozen, SnapshotLimit
<1> QED
  BY <1>1, <1>2, SnapshotSteps

\* However many freeze at once, no more results are kept than allowed: one
\* freeze at a time counts, and what it counted stands until it has written.
THEOREM SnapshotsLimited ==
    ASSUME ConstantsOK
    PROVE  Spec => []SnapshotLimit
<1>1. Init => RoomForFrozen /\ SnapshotLimit
  <2> SUFFICES ASSUME Init PROVE RoomForFrozen /\ SnapshotLimit
    OBVIOUS
  <2>1. Snapshots = {}
    BY NoRowTyped DEF Init, Snapshots
  <2>2. Cardinality(Snapshots) = 0
    BY <2>1, FS_EmptySet
  <2> QED
    BY <2>2 DEF Init, RoomForFrozen, SnapshotLimit, Idle, ConstantsOK
<1>2. TelemetryTypeOK /\ RoomForFrozen /\ SnapshotLimit /\ [Next]_vars
         => RoomForFrozen' /\ SnapshotLimit'
  BY StepRoom
<1> QED
  BY <1>1, <1>2, TelemetryTypes, PTL DEF Spec
=============================================================================
