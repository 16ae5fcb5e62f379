------------------------ MODULE NotificationDelivery -----------------------
(* The outbox of external alerts, drained by the worker of every API        *)
(* process: a delivery is claimed under a lease, sent, and finished by the  *)
(* claim that sent it.                                                      *)
EXTENDS Naturals

CONSTANTS
    Deliveries,  \* rows of notification_deliveries
    Senders,     \* calls of deliverPendingNotifications
    MaxFaults,   \* bound: rejections, crashes, leases that end too early
    Nobody

\* What is taken for granted of the constants.
ConstantsOK == MaxFaults \in Nat

VARIABLES
    delivery,  \* delivery[d]: its row
    sender,    \* sender[w]: the delivery w is at, and what became of it
    faults     \* faults so far

vars == <<delivery, sender, faults>>

Idle == [pc |-> "idle"]

DeliveryTypeOK ==
    /\ delivery \in [Deliveries ->
          [state : {"none", "pending", "sending", "sent", "disabled"},
           claim : Senders \cup {Nobody}, lease : {"none", "valid", "over"}]]
    /\ sender \in [Senders -> {Idle}
          \cup [pc : {"sending", "acknowledged", "failed", "unwanted"},
                d : Deliveries]]
    /\ faults \in 0 .. MaxFaults

Init ==
    /\ delivery = [d \in Deliveries |-> [state |-> "none", claim |-> Nobody,
                                         lease |-> "none"]]
    /\ sender = [w \in Senders |-> Idle]
    /\ faults = 0

Fault == faults < MaxFaults /\ faults' = faults + 1
Unfinished(d) == delivery[d].state \in {"pending", "sending"}

\* notifyRecovery adds a delivery.
Notify(d) ==
    /\ delivery[d].state = "none"
    /\ delivery' = [delivery EXCEPT ![d].state = "pending"]
    /\ UNCHANGED <<sender, faults>>

\* A seeded fault: what a dead sender left is not taken up.
ClaimPendingOnlyBug(w) ==
    /\ sender[w] = Idle
    /\ \E d \in Deliveries :
          /\ delivery[d].state = "pending" /\ delivery[d].lease # "valid"
          /\ delivery' = [delivery EXCEPT ![d] =
                [state |-> "sending", claim |-> w, lease |-> "valid"]]
          /\ sender' = [sender EXCEPT ![w] = [pc |-> "sending", d |-> d]]
    /\ UNCHANGED faults

\* When next_attempt_at has come is left open.
Claim(w) ==
    /\ sender[w] = Idle
    /\ \E d \in Deliveries :
          /\ Unfinished(d) /\ delivery[d].lease # "valid"
          /\ delivery' = [delivery EXCEPT ![d] =
                [state |-> "sending", claim |-> w, lease |-> "valid"]]
          /\ sender' = [sender EXCEPT ![w] = [pc |-> "sending", d |-> d]]
    /\ UNCHANGED faults

Outcome(w, pc) == sender' = [sender EXCEPT ![w].pc = pc]

\* Telegram acknowledges the message, or the preferences forbid it.
Send(w) ==
    /\ sender[w].pc = "sending"
    /\ \E pc \in {"acknowledged", "unwanted"} : Outcome(w, pc)
    /\ UNCHANGED <<delivery, faults>>

\* It refuses, is not configured, or does not answer in time.
SendFails(w) ==
    /\ sender[w].pc = "sending"
    /\ Fault
    /\ Outcome(w, "failed")
    /\ UNCHANGED delivery

NewState == [acknowledged |-> "sent", unwanted |-> "disabled",
             failed |-> "pending"]

\* A seeded fault: the claim is not compared.
FinishUnclaimedBug(w) ==
    LET d == sender[w].d
    IN  /\ sender[w].pc \in DOMAIN NewState
        /\ delivery' = [delivery EXCEPT ![d].lease = "none",
                                        ![d].state = NewState[sender[w].pc]]
        /\ sender' = [sender EXCEPT ![w] = Idle]
        /\ UNCHANGED faults

\* WHERE id = ? AND claim_token = ?
Finish(w) ==
    LET d == sender[w].d
    IN  /\ sender[w].pc \in DOMAIN NewState
        /\ delivery' = IF delivery[d].claim # w THEN delivery
                       ELSE [delivery EXCEPT ![d].lease = "none",
                                ![d].state = NewState[sender[w].pc]]
        /\ sender' = [sender EXCEPT ![w] = Idle]
        /\ UNCHANGED faults

\* Thirty seconds pass; while the sender is still at it, which Telegram's
\* ten allow only to a slow database, this is a fault.
LeaseEnds(d) ==
    /\ delivery[d].lease = "valid"
    /\ IF \E w \in Senders : /\ sender[w] # Idle
                             /\ sender[w].d = d /\ delivery[d].claim = w
       THEN Fault ELSE UNCHANGED faults
    /\ delivery' = [delivery EXCEPT ![d].lease = "over"]
    /\ UNCHANGED sender

Crash(w) ==
    /\ sender[w] # Idle
    /\ Fault
    /\ sender' = [sender EXCEPT ![w] = Idle]
    /\ UNCHANGED delivery

SenderStep(w) == Claim(w) \/ Send(w) \/ Finish(w)

Next ==
    \/ \E d \in Deliveries : Notify(d) \/ LeaseEnds(d)
    \/ \E w \in Senders : SenderStep(w) \/ SendFails(w) \/ Crash(w)

\* The worker ticks every five seconds, and leases end.
Fairness ==
    /\ \A w \in Senders : WF_vars(SenderStep(w))
    /\ \A d \in Deliveries : WF_vars(LeaseEnds(d))

Spec == Init /\ [][Next]_vars
FairSpec == Spec /\ Fairness

---------------------------------------------------------------------------
\* A late sender, whose delivery another has taken over and finished, does
\* not put it back in the queue: the alert would be sent once more.
FinishedStep ==
    \A d \in Deliveries : delivery[d].state \in {"sent", "disabled"} =>
                               delivery'[d] = delivery[d]
FinishedStays == [][FinishedStep]_vars

\* "A crash or rejected send remains retryable after the lease expires", so
\* an alert is sent in the end.
DeliveryEnds == (\E d \in Deliveries : Unfinished(d)) ~>
                    (\A d \in Deliveries : ~Unfinished(d))

---------------------------------------------------------------------------
(* Why a finished delivery stays: its claim is nobody's who is still at it. *)

ClaimsAreOpen ==
    /\ \A w \in Senders :
          sender[w] # Idle /\ delivery[sender[w].d].claim = w =>
              delivery[sender[w].d].state = "sending"
    /\ \A d \in Deliveries :
          delivery[d].lease = "valid" => delivery[d].state = "sending"
=============================================================================
