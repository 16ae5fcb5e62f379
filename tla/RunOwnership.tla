---------------------------- MODULE RunOwnership ----------------------------
(* What the dispatcher, the callbacks and every repair path together promise *)
(* about who works on what.  A run is new, then live, then over for good.    *)
(* It becomes live by taking, in one step, a task nobody owns and an agent   *)
(* with no other live run; it can lose the task only when it is over.        *)
EXTENDS Naturals

CONSTANTS Tasks, Agents, Runs, NoRun, NoAgent

VARIABLES
    owner,   \* owner[t]: the run task t is linked to, or NoRun
    worker,  \* worker[i]: the agent run i was given to
    phase    \* phase[i]: "new", "live" or "over"

Phases == {"new", "live", "over"}

Init ==
    /\ owner = [t \in Tasks |-> NoRun]
    /\ worker = [i \in Runs |-> NoAgent]
    /\ phase = [i \in Runs |-> "new"]

Idle(a) == \A i \in Runs : phase[i] = "live" => worker[i] # a

Claim(t, a, i) ==
    /\ owner[t] = NoRun
    /\ Idle(a)
    /\ phase[i] = "new"
    /\ owner' = [owner EXCEPT ![t] = i]
    /\ worker' = [worker EXCEPT ![i] = a]
    /\ phase' = [phase EXCEPT ![i] = "live"]

\* A run ends; its task lets go of it at once, or keeps the link for now.
End(i) ==
    /\ phase[i] = "live"
    /\ phase' = [phase EXCEPT ![i] = "over"]
    /\ \/ UNCHANGED owner
       \/ \E t \in Tasks : owner[t] = i /\ owner' = [owner EXCEPT ![t] = NoRun]
    /\ UNCHANGED worker

Release(t) ==
    /\ \E i \in Runs : owner[t] = i /\ phase[i] = "over"
    /\ owner' = [owner EXCEPT ![t] = NoRun]
    /\ UNCHANGED <<worker, phase>>

Next ==
    \/ \E t \in Tasks, a \in Agents, i \in Runs : Claim(t, a, i)
    \/ \E i \in Runs : End(i)
    \/ \E t \in Tasks : Release(t)

Spec == Init /\ [][Next]_<<owner, worker, phase>>
=============================================================================
