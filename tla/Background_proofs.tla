-------------------------- MODULE Background_proofs -------------------------
(* The background work as MCBackground composes it: every behaviour is one  *)
(* of one component, so that what is proved of a component by itself holds  *)
(* of all of them.  The delivery of alerts has its proof here.              *)
EXTENDS MCBackground, TLAPS

---------------------------------------------------------------------------
(* Recurring series                                                         *)

OfSeries == which = "series"

LEMMA SeriesAlone == MCSpec => Recurring!Spec \/ []~OfSeries
<1>1. MCInit /\ OfSeries => Recurring!Init
  BY DEF MCInit, OfSeries
<1>2. OfSeries /\ [MCNext]_MCVars
         => OfSeries' /\ [Recurring!Next]_Recurring!vars
  BY DEF MCNext, MCVars, shared, From4, From7, OfSeries, Recurring!vars
<1>3. ~OfSeries /\ [MCNext]_MCVars => ~OfSeries'
  BY DEF MCNext, MCVars, OfSeries
<1> QED
  BY <1>1, <1>2, <1>3, PTL DEF MCSpec, Recurring!Spec

\* An occurrence has a run on record if and only if it has its task, and one
\* task only, however many ticks and edits overlap.
THEOREM OccurrencesHaveTasks == MCSpec => []OneTaskPerOccurrence
<1>1. Recurring!Spec => []Recurring!OneTaskPerOccurrence
  BY SeriesAssumption, Recurring!OneTaskEach, PTL
<1>2. ~OfSeries \/ Recurring!OneTaskPerOccurrence => OneTaskPerOccurrence
  BY DEF OneTaskPerOccurrence, OfSeries
<1> QED
  BY <1>1, <1>2, SeriesAlone, PTL

\* A series that skips while a task is active has one active at most, unless
\* one writer has overtaken another.
THEOREM SeriesSkip == MCSpec => []OneActiveTask
<1>1. Recurring!Spec => []Recurring!OneActiveTask
  BY SeriesAssumption, Recurring!OneActive, PTL
<1>2. ~OfSeries \/ Recurring!OneActiveTask => OneActiveTask
  BY DEF OneActiveTask, OfSeries
<1> QED
  BY <1>1, <1>2, SeriesAlone, PTL

\* An enabled series does not wait for an occurrence that it has done, unless
\* one writer has overtaken another.
THEOREM SeriesGoOn == MCSpec => []NextIsAhead
<1>1. Recurring!Spec => []Recurring!NextIsAhead
  BY SeriesAssumption, Recurring!NextStaysAhead, PTL
<1>2. ~OfSeries \/ Recurring!NextIsAhead => NextIsAhead
  BY DEF NextIsAhead, OfSeries
<1> QED
  BY <1>1, <1>2, SeriesAlone, PTL

---------------------------------------------------------------------------
(* MCP configuration                                                        *)

OfMcp == which = "mcp"

LEMMA McpAlone == MCSpec => Mcp!Spec \/ []~OfMcp
<1>1. MCInit /\ OfMcp => Mcp!Init
  BY DEF MCInit, OfMcp
<1>2. OfMcp /\ [MCNext]_MCVars => OfMcp' /\ [Mcp!Next]_Mcp!vars
  BY DEF MCNext, MCVars, shared, From4, From7, From13, OfMcp, Mcp!vars
<1>3. ~OfMcp /\ [MCNext]_MCVars => ~OfMcp'
  BY DEF MCNext, MCVars, OfMcp
<1> QED
  BY <1>1, <1>2, <1>3, PTL DEF MCSpec, Mcp!Spec

\* A sync that reads from its receipt that the gateway has the configuration
\* is right.
THEOREM GatewayHasIt == MCSpec => []ReceiptIsTrue
<1>1. Mcp!Spec => []Mcp!ReceiptIsTrue
  BY McpAssumption, Mcp!ReceiptsTrue, PTL
<1>2. ~OfMcp \/ Mcp!ReceiptIsTrue => ReceiptIsTrue
  BY DEF ReceiptIsTrue, OfMcp
<1> QED
  BY <1>1, <1>2, McpAlone, PTL

\* When no edit is queued the gateway has loaded the last one.
THEOREM NoEditIsLost == MCSpec => []EditReachesGateway
<1>1. Mcp!Spec => []Mcp!EditReachesGateway
  BY McpAssumption, Mcp!EditsReach, PTL
<1>2. ~OfMcp \/ Mcp!EditReachesGateway => EditReachesGateway
  BY DEF EditReachesGateway, OfMcp
<1> QED
  BY <1>1, <1>2, McpAlone, PTL

\* A gateway call in doubt is on record as such until a reload is
\* acknowledged or the doubt is overruled.
THEOREM NoDoubtIsForgotten == MCSpec => []UncertaintyOnRecord
<1>1. Mcp!Spec => []Mcp!UncertaintyOnRecord
  BY McpAssumption, Mcp!UncertaintyKept, PTL
<1>2. ~OfMcp \/ Mcp!UncertaintyOnRecord => UncertaintyOnRecord
  BY DEF UncertaintyOnRecord, OfMcp
<1> QED
  BY <1>1, <1>2, McpAlone, PTL

---------------------------------------------------------------------------
(* Telemetry queries                                                        *)

OfTelemetry == which = "telemetry"

LEMMA TelemetryStep ==
    OfTelemetry /\ [MCNext]_MCVars
        => OfTelemetry' /\ [Telemetry!Next]_Telemetry!vars
BY DEF MCNext, MCVars, shared, From4, OfTelemetry, Telemetry!vars

LEMMA TelemetryAlone == MCSpec => Telemetry!Spec \/ []~OfTelemetry
<1>1. MCInit /\ OfTelemetry => Telemetry!Init
  BY DEF MCInit, OfTelemetry
<1>2. ~OfTelemetry /\ [MCNext]_MCVars => ~OfTelemetry'
  BY DEF MCNext, MCVars, OfTelemetry
<1> QED
  BY <1>1, <1>2, TelemetryStep, PTL DEF MCSpec, Telemetry!Spec

\* A retained result does not outlive the access to its sources.
THEOREM ResultsAreAccessible == MCSpec => []ProofStands
<1>1. Telemetry!Spec => []Telemetry!ProofStands
  BY TelemetryAssumption, Telemetry!ProofsStand, PTL
<1>2. ~OfTelemetry \/ Telemetry!ProofStands => ProofStands
  BY DEF ProofStands, OfTelemetry
<1> QED
  BY <1>1, <1>2, TelemetryAlone, PTL

\* No more results are frozen than the settings allow.
THEOREM FrozenAreFew == MCSpec => []SnapshotLimit
<1>1. Telemetry!Spec => []Telemetry!SnapshotLimit
  BY TelemetryAssumption, Telemetry!SnapshotsLimited, PTL
<1>2. ~OfTelemetry \/ Telemetry!SnapshotLimit => SnapshotLimit
  BY DEF SnapshotLimit, OfTelemetry
<1> QED
  BY <1>1, <1>2, TelemetryAlone, PTL

\* A query that is over is not given another end.
THEOREM VerdictsAreFinal == MCSpec => VerdictStands
<1>1. Telemetry!Spec => [][Telemetry!VerdictStep]_Telemetry!vars
  BY TelemetryAssumption, Telemetry!VerdictsStand, PTL
     DEF Telemetry!VerdictStands
<1>2. /\ ~OfTelemetry \/ [Telemetry!VerdictStep]_Telemetry!vars
      /\ [MCNext]_MCVars
      => [which = "telemetry" => Telemetry!VerdictStep]_MCVars
  BY DEF OfTelemetry, Telemetry!VerdictStep, Telemetry!vars
<1> QED
  BY <1>1, <1>2, TelemetryAlone, PTL DEF VerdictStands, MCSpec

---------------------------------------------------------------------------
(* Alerts: v1 is Alerts!delivery, v2 is Alerts!sender                       *)

OfAlerts == which = "alerts"

DeliveryRows ==
    [state : {"none", "pending", "sending", "sent", "disabled"},
     claim : Senders \cup {Nobody}, lease : {"none", "valid", "over"}]
Sendings == [pc : {"sending", "acknowledged", "failed", "unwanted"},
             d : Deliveries]

\* What a step does to a delivery and to whom it is done by.
LEMMA DeliverySteps ==
    ASSUME Alerts!DeliveryTypeOK, [Alerts!Next]_Alerts!vars,
           NEW d \in Deliveries
    PROVE  /\ v1'[d] \in DeliveryRows
           /\ \/ v1'[d] = v1[d]
              \/ /\ v1[d].state = "none" /\ v1'[d].state = "pending"
                 /\ v1'[d].lease = v1[d].lease
                 /\ v1'[d].claim = v1[d].claim /\ UNCHANGED v2
              \/ /\ v1[d].lease = "valid" /\ v1'[d].lease = "over"
                 /\ v1'[d].state = v1[d].state
                 /\ v1'[d].claim = v1[d].claim /\ UNCHANGED v2
              \/ \E w \in Senders :
                    /\ v1[d].state \in {"pending", "sending"}
                    /\ v1'[d].state = "sending" /\ v1'[d].claim = w
                    /\ v2' = [v2 EXCEPT ![w] = [pc |-> "sending", d |-> d]]
              \/ \E w \in Senders :
                    /\ v2[w] # Alerts!Idle /\ v2[w].d = d
                    /\ v1[d].claim = w /\ v1'[d].claim = w
                    /\ v1'[d].lease = "none"
                    /\ v2' = [v2 EXCEPT ![w] = Alerts!Idle]
<1> DEFINE row == v1[d]
<1>0. /\ v1 \in [Deliveries -> DeliveryRows] /\ row \in DeliveryRows
      /\ v2 \in [Senders -> {Alerts!Idle} \cup Sendings]
  BY DEF Alerts!DeliveryTypeOK, DeliveryRows, Sendings
<1>1. CASE v1'[d] = v1[d]
  BY <1>0, <1>1
<1>2. ASSUME NEW e \in Deliveries, Alerts!Notify(e), e = d
      PROVE  /\ v1'[d] \in DeliveryRows
             /\ v1[d].state = "none" /\ v1'[d].state = "pending"
             /\ v1'[d].lease = v1[d].lease
             /\ v1'[d].claim = v1[d].claim /\ UNCHANGED v2
  <2>1. v1'[d] = [row EXCEPT !.state = "pending"]
    BY <1>0, <1>2 DEF Alerts!Notify
  <2> QED
    BY <1>0, <1>2, <2>1 DEF Alerts!Notify, DeliveryRows
<1>3. ASSUME NEW e \in Deliveries, Alerts!LeaseEnds(e), e = d
      PROVE  /\ v1'[d] \in DeliveryRows
             /\ v1[d].lease = "valid" /\ v1'[d].lease = "over"
             /\ v1'[d].state = v1[d].state
             /\ v1'[d].claim = v1[d].claim /\ UNCHANGED v2
  <2>1. v1'[d] = [row EXCEPT !.lease = "over"]
    BY <1>0, <1>3 DEF Alerts!LeaseEnds
  <2> QED
    BY <1>0, <1>3, <2>1 DEF Alerts!LeaseEnds, DeliveryRows
<1>4. ASSUME NEW w \in Senders, Alerts!Claim(w), v1'[d] # v1[d]
      PROVE  /\ v1'[d] \in DeliveryRows
             /\ v1[d].state \in {"pending", "sending"}
             /\ v1'[d].state = "sending" /\ v1'[d].claim = w
             /\ v2' = [v2 EXCEPT ![w] = [pc |-> "sending", d |-> d]]
  <2>1. PICK e \in Deliveries :
           /\ v1[e].state \in {"pending", "sending"}
           /\ v1' = [v1 EXCEPT ![e] =
                 [state |-> "sending", claim |-> w, lease |-> "valid"]]
           /\ v2' = [v2 EXCEPT ![w] = [pc |-> "sending", d |-> e]]
    BY <1>4 DEF Alerts!Claim, Alerts!Unfinished
  <2>2. e = d
    BY <1>0, <1>4, <2>1
  <2>3. v1'[d] = [state |-> "sending", claim |-> w, lease |-> "valid"]
    BY <1>0, <2>1, <2>2
  <2> QED
    BY <2>1, <2>2, <2>3 DEF DeliveryRows
<1>5. ASSUME NEW w \in Senders, Alerts!Finish(w), v1'[d] # v1[d]
      PROVE  /\ v1'[d] \in DeliveryRows
             /\ v2[w] # Alerts!Idle /\ v2[w].d = d
             /\ v1[d].claim = w /\ v1'[d].claim = w
             /\ v1'[d].lease = "none"
             /\ v2' = [v2 EXCEPT ![w] = Alerts!Idle]
  <2>1. v2[w].pc \in {"acknowledged", "unwanted", "failed"}
    BY <1>5 DEF Alerts!Finish, Alerts!NewState
  <2>2. v2[w] # Alerts!Idle
    BY <2>1 DEF Alerts!Idle
  <2> DEFINE e == v2[w].d
             new == Alerts!NewState[v2[w].pc]
  <2>3. new \in {"sent", "disabled", "pending"}
    BY <2>1 DEF Alerts!NewState
  <2>4. /\ v1[e].claim = w
        /\ v1' = [v1 EXCEPT ![e].lease = "none", ![e].state = new]
    BY <1>5 DEF Alerts!Finish
  <2>5. e = d
    BY <1>0, <1>5, <2>4
  <2> HIDE DEF new
  <2>6. v1'[d] = [row EXCEPT !.lease = "none", !.state = new]
    BY <1>0, <2>4, <2>5
  <2>7. /\ v1'[d] \in DeliveryRows /\ v1'[d].claim = row.claim
        /\ v1'[d].lease = "none"
    BY <1>0, <2>3, <2>6 DEF DeliveryRows
  <2> QED
    BY <1>5, <2>2, <2>4, <2>5, <2>7 DEF Alerts!Finish
<1>6. \/ UNCHANGED v1
      \/ \E e \in Deliveries : Alerts!Notify(e) \/ Alerts!LeaseEnds(e)
      \/ \E w \in Senders : Alerts!Claim(w) \/ Alerts!Finish(w)
  BY DEF Alerts!Next, Alerts!SenderStep, Alerts!Send, Alerts!SendFails,
         Alerts!Crash, Alerts!vars
<1>7. ASSUME NEW e \in Deliveries, Alerts!Notify(e) \/ Alerts!LeaseEnds(e),
             v1'[d] # v1[d]
      PROVE  e = d
  BY <1>0, <1>7 DEF Alerts!Notify, Alerts!LeaseEnds
<1> QED
  BY <1>1, <1>2, <1>3, <1>4, <1>5, <1>6, <1>7

\* What a step does to a sender.
LEMMA SenderSteps ==
    ASSUME Alerts!DeliveryTypeOK, [Alerts!Next]_Alerts!vars,
           NEW w \in Senders
    PROVE  /\ v2'[w] \in {Alerts!Idle} \cup Sendings
           /\ \/ v2'[w] = Alerts!Idle
              \/ v2[w] # Alerts!Idle /\ v2'[w].d = v2[w].d
              \/ \E d \in Deliveries :
                    /\ v2'[w].d = d /\ v1'[d].state = "sending"
<1>0. /\ v1 \in [Deliveries -> DeliveryRows]
      /\ v2 \in [Senders -> {Alerts!Idle} \cup Sendings]
      /\ v2[w] \in {Alerts!Idle} \cup Sendings
  BY DEF Alerts!DeliveryTypeOK, DeliveryRows, Sendings
<1>1. CASE v2'[w] = v2[w]
  BY <1>0, <1>1
<1>2. CASE v2'[w] = Alerts!Idle
  BY <1>2
<1>3. ASSUME NEW u \in Senders, Alerts!Claim(u), v2'[w] # v2[w]
      PROVE  /\ v2'[w] \in Sendings
             /\ \E d \in Deliveries :
                    v2'[w].d = d /\ v1'[d].state = "sending"
  <2>1. PICK e \in Deliveries :
           /\ v1' = [v1 EXCEPT ![e] =
                 [state |-> "sending", claim |-> u, lease |-> "valid"]]
           /\ v2' = [v2 EXCEPT ![u] = [pc |-> "sending", d |-> e]]
    BY <1>3 DEF Alerts!Claim
  <2>2. v2'[w] = [pc |-> "sending", d |-> e] /\ v1'[e].state = "sending"
    BY <1>0, <1>3, <2>1
  <2> QED
    BY <2>2 DEF Sendings
<1>4. ASSUME NEW u \in Senders, Alerts!Send(u) \/ Alerts!SendFails(u),
             v2'[w] # v2[w]
      PROVE  /\ v2'[w] \in Sendings
             /\ v2[w] # Alerts!Idle /\ v2'[w].d = v2[w].d
  <2>1. PICK pc \in {"acknowledged", "unwanted", "failed"} :
           v2' = [v2 EXCEPT ![u].pc = pc]
    BY <1>4 DEF Alerts!Send, Alerts!SendFails, Alerts!Outcome
  <2>2. u = w
    BY <1>0, <1>4, <2>1
  <2>3. v2[w].pc = "sending"
    BY <1>4, <2>2 DEF Alerts!Send, Alerts!SendFails
  <2>4. v2[w] # Alerts!Idle
    BY <2>3 DEF Alerts!Idle
  <2>5. v2'[w] = [v2[w] EXCEPT !.pc = pc]
    BY <1>0, <2>1, <2>2
  <2> QED
    BY <1>0, <2>4, <2>5 DEF Sendings
<1>5. ASSUME NEW u \in Senders, Alerts!Finish(u) \/ Alerts!Crash(u),
             v2'[w] # v2[w]
      PROVE  v2'[w] = Alerts!Idle
  BY <1>0, <1>5 DEF Alerts!Finish, Alerts!Crash
<1>6. \/ UNCHANGED v2
      \/ \E u \in Senders : \/ Alerts!Claim(u) \/ Alerts!Finish(u)
                            \/ Alerts!Send(u) \/ Alerts!SendFails(u)
                            \/ Alerts!Crash(u)
  BY DEF Alerts!Next, Alerts!SenderStep, Alerts!Notify, Alerts!LeaseEnds,
         Alerts!vars
<1> QED
  BY <1>1, <1>2, <1>3, <1>4, <1>5, <1>6

AlertsInv == Alerts!DeliveryTypeOK /\ Alerts!ClaimsAreOpen

LEMMA DeliveriesTyped ==
    ASSUME Alerts!DeliveryTypeOK, [Alerts!Next]_Alerts!vars
    PROVE  Alerts!DeliveryTypeOK'
<1>1. v1' = [d \in Deliveries |-> v1'[d]]
  BY DEF Alerts!DeliveryTypeOK, Alerts!Next, Alerts!SenderStep,
         Alerts!Notify, Alerts!LeaseEnds, Alerts!Claim, Alerts!Send,
         Alerts!Finish, Alerts!SendFails, Alerts!Crash, Alerts!vars
<1>2. v2' = [w \in Senders |-> v2'[w]]
  BY DEF Alerts!DeliveryTypeOK, Alerts!Next, Alerts!SenderStep,
         Alerts!Notify, Alerts!LeaseEnds, Alerts!Claim, Alerts!Send,
         Alerts!Finish, Alerts!SendFails, Alerts!Crash, Alerts!Outcome,
         Alerts!vars
<1>3. v1' \in [Deliveries -> DeliveryRows]
  BY <1>1, DeliverySteps
<1>4. v2' \in [Senders -> {Alerts!Idle} \cup Sendings]
  BY <1>2, SenderSteps
<1>5. v3' \in 0 .. MaxFaults
  <2>1. UNCHANGED v3 \/ (v3 < MaxFaults /\ v3' = v3 + 1)
    BY DEF Alerts!Next, Alerts!SenderStep, Alerts!Notify,
           Alerts!LeaseEnds, Alerts!Claim, Alerts!Send, Alerts!Finish,
           Alerts!SendFails, Alerts!Crash, Alerts!Fault, Alerts!vars
  <2>2. v3 \in 0 .. MaxFaults /\ MaxFaults \in Nat
    BY AlertsAssumption DEF Alerts!DeliveryTypeOK, Alerts!ConstantsOK
  <2> QED
    BY <2>1, <2>2
<1> QED
  BY <1>3, <1>4, <1>5
  DEF Alerts!DeliveryTypeOK, DeliveryRows, Sendings

LEMMA ClaimsStayOpen ==
    ASSUME AlertsInv, [Alerts!Next]_Alerts!vars
    PROVE  Alerts!ClaimsAreOpen'
<1>0. /\ Alerts!DeliveryTypeOK /\ Alerts!DeliveryTypeOK'
      /\ v2 \in [Senders -> {Alerts!Idle} \cup Sendings]
  BY DeliveriesTyped DEF AlertsInv, Alerts!DeliveryTypeOK, Sendings
<1>1. ASSUME NEW w \in Senders, v2'[w] # Alerts!Idle,
             v1'[v2'[w].d].claim = w
      PROVE  v1'[v2'[w].d].state = "sending"
  <2> DEFINE d == v2'[w].d
  <2>1. d \in Deliveries
    BY <1>0, <1>1, SenderSteps DEF Sendings
  <2>2. CASE v2[w] # Alerts!Idle /\ v2[w].d = d
    <3>1. v1[d].claim = w => v1[d].state = "sending"
      BY <1>1, <2>2 DEF AlertsInv, Alerts!ClaimsAreOpen
    <3>2. \A u \in Senders :
             v1'[d].claim = u => v2' # [v2 EXCEPT ![u] = Alerts!Idle]
      BY <1>0, <1>1
    <3> HIDE DEF d
    <3> QED
      BY <1>0, <1>1, <2>1, <3>1, <3>2, DeliverySteps DEF d
  <2> QED
    BY <1>0, <1>1, <2>2, SenderSteps
<1>2. ASSUME NEW d \in Deliveries, v1'[d].lease = "valid"
      PROVE  v1'[d].state = "sending"
  BY <1>0, <1>2, DeliverySteps DEF AlertsInv, Alerts!ClaimsAreOpen
<1> QED
  BY <1>1, <1>2 DEF Alerts!ClaimsAreOpen

LEMMA FinishedIsLeft ==
    ASSUME AlertsInv, [Alerts!Next]_Alerts!vars
    PROVE  Alerts!FinishedStep
<1> SUFFICES ASSUME NEW d \in Deliveries, v1[d].state \in {"sent", "disabled"}
             PROVE  v1'[d] = v1[d]
  BY DEF Alerts!FinishedStep
<1>1. Alerts!DeliveryTypeOK
  BY DEF AlertsInv
<1>2. /\ v1[d].lease # "valid"
      /\ \A w \in Senders : ~(/\ v2[w] # Alerts!Idle /\ v2[w].d = d
                              /\ v1[d].claim = w)
  BY DEF AlertsInv, Alerts!ClaimsAreOpen
<1> QED
  BY <1>1, <1>2, DeliverySteps

LEMMA AlertsStart ==
    ASSUME Alerts!Init
    PROVE  AlertsInv
<1>1. MaxFaults \in Nat
  BY AlertsAssumption DEF Alerts!ConstantsOK
<1>2. Alerts!DeliveryTypeOK
  BY <1>1 DEF Alerts!Init, Alerts!DeliveryTypeOK
<1>3. Alerts!ClaimsAreOpen
  BY DEF Alerts!Init, Alerts!ClaimsAreOpen
<1> QED
  BY <1>2, <1>3 DEF AlertsInv

LEMMA AlertsStep ==
    OfAlerts /\ [MCNext]_MCVars => OfAlerts' /\ [Alerts!Next]_Alerts!vars
BY DEF MCNext, MCVars, shared, OfAlerts, Alerts!vars

LEMMA AlertsAlways == MCSpec => [](OfAlerts => AlertsInv)
<1>1. MCInit => (OfAlerts => AlertsInv)
  BY AlertsStart DEF MCInit, OfAlerts
<1>2. (OfAlerts => AlertsInv) /\ [MCNext]_MCVars => (OfAlerts' => AlertsInv')
  <2>1. OfAlerts' /\ [MCNext]_MCVars => OfAlerts
    BY DEF MCNext, MCVars, OfAlerts
  <2>2. AlertsInv /\ [Alerts!Next]_Alerts!vars => AlertsInv'
    BY DeliveriesTyped, ClaimsStayOpen DEF AlertsInv
  <2> QED
    BY <2>1, <2>2, AlertsStep
<1> QED
  BY <1>1, <1>2, PTL DEF MCSpec

\* A sender whose lease ran out finds, when its answer comes at last, that
\* another has taken the delivery over, and leaves it as that one ended it.
THEOREM AlertsStayFinished == MCSpec => FinishedStays
<1>1. (OfAlerts => AlertsInv) /\ [MCNext]_MCVars
         => [which = "alerts" => Alerts!FinishedStep]_MCVars
  BY AlertsStep, FinishedIsLeft DEF OfAlerts
<1> QED
  BY <1>1, AlertsAlways, PTL DEF FinishedStays, MCSpec

---------------------------------------------------------------------------
\* The state of every component of the background work keeps its type.
THEOREM BackgroundTypes == MCSpec => []BackgroundTypeOK
<1>1. Recurring!Spec => []Recurring!SeriesTypeOK
  BY SeriesAssumption, Recurring!SeriesTypes, PTL
<1>2. Mcp!Spec => []Mcp!McpTypeOK
  BY McpAssumption, Mcp!McpTypes, PTL
<1>3. Telemetry!Spec => []Telemetry!TelemetryTypeOK
  BY TelemetryAssumption, Telemetry!TelemetryTypes, PTL
<1>4. /\ ~OfSeries \/ Recurring!SeriesTypeOK
      /\ ~OfMcp \/ Mcp!McpTypeOK
      /\ ~OfTelemetry \/ Telemetry!TelemetryTypeOK
      /\ OfAlerts => AlertsInv
      => BackgroundTypeOK
  BY DEF BackgroundTypeOK, OfSeries, OfMcp, OfTelemetry, OfAlerts, AlertsInv
<1> QED
  BY <1>1, <1>2, <1>3, <1>4, SeriesAlone, McpAlone, TelemetryAlone,
     AlertsAlways, PTL
=============================================================================
