--------------------------- MODULE MCRunLifecycle ---------------------------
(* Small instances of RunLifecycle for TLC.                                 *)
EXTENDS RunLifecycle, TLC

CONSTANTS t1, t2, a1, a2

MCStatuses == {"ready", "working", "done", "cancelled"}
MCTerminal == {"done", "cancelled"}
MCNeedsOutcome == {"working"}

\* Every open status is dispatched, to any agent.
MCRules == [s \in MCStatuses |->
               IF s \in MCTerminal THEN {} ELSE Agents]

\* The second task waits for the first.
MCBlockedBy == [t \in Tasks |-> IF t = t2 THEN {t1} \cap Tasks ELSE {}]
MCUnblocked == [t \in Tasks |-> {}]

MCStartEvent == [s \in MCStatuses |-> IF s = "ready" THEN "working" ELSE s]
MCMissingEvent == [s \in MCStatuses |-> IF s = "working" THEN "ready" ELSE s]
MCNoEvent == [s \in MCStatuses |-> s]

MCOutcomeRoutes == [s \in MCStatuses |->
    CASE s = "ready"   -> {"done"}
      [] s = "working" -> {"ready", "done"}
      [] OTHER         -> {}]
MCFailureRoutes == [s \in MCStatuses |->
    IF s = "working" THEN {"ready"} ELSE {}]

\* The shortest workflow: one open status, moved by agents' outcomes only.
MCShortStatuses == {"ready", "done", "cancelled"}
MCShortNeeds == {"ready"}
MCShortRules == [s \in MCShortStatuses |->
                    IF s = "ready" THEN Agents ELSE {}]
MCShortEvent == [s \in MCShortStatuses |-> s]
MCShortRoutes == [s \in MCShortStatuses |->
                     IF s = "ready" THEN {"done"} ELSE {}]

MC1Run == 1..1
MC2Runs == 1..2
MC3Runs == 1..3

\* At most two of the API's timers and handlers at a time, one once a second
\* run is out.  A second handler is a stop, and a stop meets one launched run
\* and no "complete" of its agent.
Stopping(c) == call[c].pc \in {"revoke", "confirm"}
CutOff(i) == Present(db, i) /\ db.run[i].task = NoTask
FewDeferred ==
    LET handlers == {c \in Calls : call[c].pc # "idle"} IN
    /\ Cardinality(jobs) + Cardinality(handlers)
           <= IF sent \subseteq {1} THEN 2 ELSE 1
    /\ \A c, d \in handlers : c # d => (Stopping(c) <=> ~Stopping(d))
    /\ (\E c \in handlers : Stopping(c)) \/ (\E i \in Runs : CutOff(i)) =>
          /\ \A i \in Runs \ {1} : launch[i].pc = "none" /\ i \notin sent
          /\ \A c \in handlers : call[c].pc \notin {"complete", "close"}

\* Tasks are alike when none blocks another; dispatchers and slots always are.
MCSymmetry == Permutations(Dispatchers) \cup Permutations(Calls)
MCTaskSymmetry == MCSymmetry \cup Permutations(Tasks)
=============================================================================
