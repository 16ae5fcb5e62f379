--------------------------- MODULE RecurringSeries -------------------------
(* Recurring task series.  Scheduler ticks overlap, because a reconciler    *)
(* tick that times out runs on while the next one starts.  Each due series  *)
(* is a READ COMMITTED transaction that locks nothing but the index entry   *)
(* of the occurrence it claims; API calls read the series, validate, and    *)
(* write it with one UPDATE.                                                *)
EXTENDS Naturals, FiniteSets

CONSTANTS
    Series,    \* recurring_task_series
    Ticks,     \* calls of runRecurringTaskSchedulerTick that may overlap
    Callers,   \* clients of the series API
    Limit,     \* series one tick takes on, DEFAULT_LIMIT
    MaxTime,   \* bound: the clock, in occurrences
    MaxCalls,  \* bound: calls of the series API
    MaxFaults, \* bound: transactions that are rolled back
    Never      \* next_run_at IS NULL

\* What is taken for granted of the constants.
ConstantsOK ==
    /\ Ticks \cap Callers = {}
    /\ MaxTime \in Nat /\ MaxCalls \in Nat /\ MaxFaults \in Nat
    /\ Never \notin 0 .. MaxTime + 1

VARIABLES
    now,       \* the clock
    row,       \* row[s]: the series
    flow,      \* flow[s]: status of its fixed workflow
    run,       \* run[s][k]: its run of occurrence k in recurring_task_runs
    made,      \* made[s]: occurrences that have a generated task
    open,      \* open[s]: those whose task is not terminal
    tick,      \* tick[t]: where tick t is
    edit,      \* edit[c]: where the call of c is
    calls,     \* API calls so far
    faults,    \* rollbacks so far
    stale,     \* ticks and callers at a series written since they read it
    overtaken  \* one of these has written it all the same

vars == <<now, row, flow, run, made, open, tick, edit, calls, faults, stale,
          overtaken>>

\* Scheduled occurrences bear their time; a run started by hand bears the
\* instant of the call, which is none of these.
Times == 0 .. MaxTime + 1
ByHand == MaxTime + 2
Occurrences == Times \cup {ByHand}

\* "at" is an expression like "every day at 09:00".
Rows == [enabled : BOOLEAN, next : Times \cup {Never},
         schedule : {"plain", "at"},
         policy : {"skip_if_active", "create_anyway"}]

Todos == SUBSET (Series \X Times)
Idle == [pc |-> "idle", todo |-> {}]

SeriesTypeOK ==
    /\ now \in 0 .. MaxTime
    /\ row \in [Series -> Rows]
    /\ flow \in [Series -> {"active", "paused", "closed"}]
    /\ run \in [Series -> [Occurrences -> {"none", "created", "skipped",
                                           "failed"}]]
    /\ made \in [Series -> SUBSET Occurrences]
    /\ open \in [Series -> SUBSET Occurrences]
    /\ tick \in [Ticks -> [pc : {"idle", "loop"}, todo : Todos]
                     \cup [pc : {"read", "claimed"}, todo : Todos, s : Series,
                           k : Times, seen : Rows]
                     \cup [pc : {"decided"}, todo : Todos, s : Series,
                           k : Times, seen : Rows,
                           verdict : {"create", "skip", "disable"}]]
    /\ edit \in [Callers -> [op : {"none"}]
                     \cup [op : {"enable", "disable", "update", "runNow"},
                           s : Series, seen : Rows, since : 0 .. MaxTime]]
    /\ calls \in 0 .. MaxCalls
    /\ faults \in 0 .. MaxFaults
    /\ stale \subseteq Ticks \cup Callers
    /\ overtaken \in BOOLEAN

\* createRecurringTaskSeries.  Its grammar has the word "at", the
\* scheduler's has not.
NewRows == {r \in Rows : r.next = IF r.enabled THEN 1 ELSE Never}

Init ==
    /\ now = 0
    /\ row \in [Series -> NewRows]
    /\ flow = [s \in Series |-> "active"]
    /\ run = [s \in Series |-> [k \in Occurrences |-> "none"]]
    /\ made = [s \in Series |-> {}]
    /\ open = [s \in Series |-> {}]
    /\ tick = [t \in Ticks |-> Idle]
    /\ edit = [c \in Callers |-> [op |-> "none"]]
    /\ calls = 0
    /\ faults = 0
    /\ stale = {}
    /\ overtaken = FALSE

---------------------------------------------------------------------------
(* runRecurringTaskSchedulerTick                                            *)

\* loadDueSeries: WHERE enabled = 1 AND next_run_at <= now ...
Due(s) == row[s].enabled /\ row[s].next # Never /\ row[s].next <= now

\* ... ORDER BY next_run_at LIMIT ?
FirstDue ==
    LET due == {s \in Series : Due(s)}
        room == IF Cardinality(due) < Limit THEN Cardinality(due) ELSE Limit
    IN  {D \in SUBSET due :
            /\ Cardinality(D) = room
            /\ \A s \in D, o \in due \ D : row[s].next <= row[o].next}

List(t) ==
    /\ tick[t].pc = "idle"
    /\ \E D \in FirstDue \ {{}} :
          tick' = [tick EXCEPT ![t] =
                      [pc |-> "loop", todo |-> {<<s, row[s].next>> : s \in D}]]
    /\ UNCHANGED <<now, row, flow, run, made, open, edit, calls, faults,
                   stale, overtaken>>

\* On to the next series of the list.
Onward(todo) ==
    IF todo = {} THEN Idle ELSE [pc |-> "loop", todo |-> todo]
Resume(t) == tick' = [tick EXCEPT ![t] = Onward(@.todo)]

\* processDueSeries re-reads its series: nobody must have moved it on.
Read(t) ==
    /\ tick[t].pc = "loop"
    /\ \E w \in tick[t].todo :
          LET s == w[1]
              k == w[2]
              rest == tick[t].todo \ {w}
          IN  /\ \A v \in tick[t].todo : k <= v[2]
              /\ tick' = [tick EXCEPT ![t] =
                    IF row[s].enabled /\ row[s].next = k
                    THEN [pc |-> "read", todo |-> rest, s |-> s, k |-> k,
                          seen |-> row[s]]
                    ELSE Onward(rest)]
    /\ UNCHANGED <<now, row, flow, run, made, open, edit, calls, faults,
                   stale, overtaken>>

Claimed(s, k) ==
    \E t \in Ticks : /\ tick[t].pc \in {"claimed", "decided"}
                     /\ tick[t].s = s
                     /\ tick[t].k = k

\* A seeded fault: no unique index behind the re-reading.
ClaimUncheckedBug(t) ==
    /\ tick[t].pc = "read"
    /\ tick' = [tick EXCEPT ![t].pc = "claimed"]
    /\ UNCHANGED <<now, row, flow, run, made, open, edit, calls, faults,
                   stale, overtaken>>

\* createStartedRun: the INSERT waits for a transaction that has claimed the
\* same occurrence, and a run on record makes this one a duplicate.
Claim(t) ==
    LET s == tick[t].s
        k == tick[t].k
    IN  /\ tick[t].pc = "read"
        /\ ~Claimed(s, k)
        /\ IF run[s][k] # "none" THEN Resume(t) /\ stale' = stale \ {t}
           ELSE tick' = [tick EXCEPT ![t].pc = "claimed"] /\ UNCHANGED stale
        /\ UNCHANGED <<now, row, flow, run, made, open, edit, calls, faults,
                       overtaken>>

Schedulable(r) == r.schedule = "plain"

\* A seeded fault: only a task of the occurrence itself counts as active.
VerdictsOwnOccurrenceBug(s, seen) ==
    IF flow[s] = "closed" \/ ~Schedulable(seen) THEN {"disable"}
    ELSE IF flow[s] = "paused" THEN {"skip"}
    ELSE {"disable",
          IF seen.policy = "skip_if_active" /\ seen.next \in open[s]
          THEN "skip" ELSE "create"}

\* What becomes of an occurrence: of the workflow, the expression, what
\* validateSeriesForCreation finds, and the tasks that are still active.
Verdicts(s, seen) ==
    IF flow[s] = "closed" \/ ~Schedulable(seen) THEN {"disable"}
    ELSE IF flow[s] = "paused" THEN {"skip"}
    ELSE {"disable",
          IF seen.policy = "skip_if_active" /\ open[s] # {} THEN "skip"
          ELSE "create"}

Decide(t) ==
    /\ tick[t].pc = "claimed"
    /\ \E v \in Verdicts(tick[t].s, tick[t].seen) :
          tick' = [tick EXCEPT ![t] =
                      [pc |-> "decided", todo |-> @.todo, s |-> @.s,
                       k |-> @.k, seen |-> @.seen, verdict |-> v]]
    /\ UNCHANGED <<now, row, flow, run, made, open, edit, calls, faults,
                   stale, overtaken>>

\* Those who have read the series and may yet write it.
Readers(s) ==
    {t \in Ticks : tick[t].pc \in {"read", "claimed", "decided"}
                      /\ tick[t].s = s}
    \cup {c \in Callers : edit[c].op # "none" /\ edit[c].s = s}

Write(w, s, new) ==
    /\ row' = [row EXCEPT ![s] = new]
    /\ stale' = (stale \cup Readers(s)) \ {w}
    /\ overtaken' = (overtaken \/ w \in stale)

\* A seeded fault: while its workflow is paused a series is not advanced.
AdvanceNotPausedBug(t, s, k, disable) ==
    Write(t, s,
          IF flow[s] = "paused" THEN row[s]
          ELSE [row[s] EXCEPT !.enabled = @ /\ ~disable,
                              !.next = IF disable THEN Never ELSE k + 1])

\* advanceSeries: by id, whatever the row has become.
Advance(t, s, k, disable) ==
    Write(t, s, [row[s] EXCEPT !.enabled = @ /\ ~disable,
                               !.next = IF disable THEN Never ELSE k + 1])

\* The transaction commits: the run is finished, the task linked, the series
\* advanced.  A task for the occurrence can be there only once.
Commit(t) ==
    LET s == tick[t].s
        k == tick[t].k
        v == tick[t].verdict
        Record(status) ==
            /\ run' = [run EXCEPT ![s][k] = status]
            /\ IF status = "created"
               THEN /\ made' = [made EXCEPT ![s] = @ \cup {k}]
                    /\ open' = [open EXCEPT ![s] = @ \cup {k}]
               ELSE UNCHANGED <<made, open>>
    IN  /\ tick[t].pc = "decided"
        /\ \/ v = "create" /\ k \notin made[s] /\ Record("created")
           \/ v \in {"create", "disable"} /\ Record("failed")
           \/ v = "skip" /\ Record("skipped")
        /\ Advance(t, s, k, v = "disable")
        /\ Resume(t)
        /\ UNCHANGED <<now, flow, edit, calls, faults>>

\* A statement throws, or the API dies: the transaction leaves no trace.
Rollback(t) ==
    /\ tick[t].pc \in {"read", "claimed", "decided"}
    /\ faults < MaxFaults
    /\ faults' = faults + 1
    /\ Resume(t)
    /\ stale' = stale \ {t}
    /\ UNCHANGED <<now, row, flow, run, made, open, edit, calls, overtaken>>

---------------------------------------------------------------------------
(* The series API                                                           *)

\* A call reads the series; normalizeCreateInput refuses one that is to be
\* enabled while its workflow is closed.
CallRead(c) ==
    /\ edit[c].op = "none"
    /\ calls < MaxCalls
    /\ calls' = calls + 1
    /\ \E s \in Series, op \in {"enable", "disable", "update", "runNow"} :
          /\ op = "enable" \/ (op # "disable" /\ row[s].enabled)
                => flow[s] # "closed"
          /\ edit' = [edit EXCEPT ![c] =
                [op |-> op, s |-> s, seen |-> row[s], since |-> now]]
    /\ UNCHANGED <<now, row, flow, run, made, open, tick, faults, stale,
                   overtaken>>

\* A seeded fault: an occurrence further on, past the end of the clock.
NextRunsTooFarBug(since, enabled) ==
    IF enabled THEN {k + 2 : k \in since .. now} ELSE {Never}

\* calculateNextRunAt, at some time since the call began.
NextRuns(since, enabled) ==
    IF enabled THEN {k + 1 : k \in since .. now} ELSE {Never}

\* A seeded fault: next_run_at is left as it is.
CallWriteKeepsNextBug(c) ==
    LET m == edit[c]
        enabled == IF m.op = "update" THEN m.seen.enabled ELSE m.op = "enable"
    IN  /\ m.op \in {"enable", "disable", "update"}
        /\ Write(c, m.s, [row[m.s] EXCEPT !.enabled = enabled])
        /\ edit' = [edit EXCEPT ![c] = [op |-> "none"]]
        /\ UNCHANGED <<now, flow, run, made, open, tick, calls, faults>>

\* setRecurringTaskSeriesEnabled and updateRecurringTaskSeries, which writes
\* every column back as it was read.
CallWrite(c) ==
    LET m == edit[c]
        enabled == IF m.op = "update" THEN m.seen.enabled ELSE m.op = "enable"
    IN  /\ m.op \in {"enable", "disable", "update"}
        /\ \E k \in NextRuns(m.since, enabled) :
              Write(c, m.s, [row[m.s] EXCEPT !.enabled = enabled,
                                             !.next = k])
        /\ edit' = [edit EXCEPT ![c] = [op |-> "none"]]
        /\ UNCHANGED <<now, flow, run, made, open, tick, calls, faults>>

\* The transaction of runRecurringTaskSeriesNow.
RunNow(c) ==
    LET m == edit[c] IN
    /\ m.op = "runNow"
    /\ run[m.s][ByHand] = "none"
    /\ run' = [run EXCEPT ![m.s][ByHand] = "created"]
    /\ made' = [made EXCEPT ![m.s] = @ \cup {ByHand}]
    /\ open' = [open EXCEPT ![m.s] = @ \cup {ByHand}]
    /\ \E k \in NextRuns(now, m.seen.enabled) :
          Write(c, m.s, [row[m.s] EXCEPT !.next = k])
    /\ edit' = [edit EXCEPT ![c] = [op |-> "none"]]
    /\ UNCHANGED <<now, flow, tick, calls, faults>>

\* Validation or a statement fails.
CallFails(c) ==
    /\ edit[c].op # "none"
    /\ edit' = [edit EXCEPT ![c] = [op |-> "none"]]
    /\ stale' = stale \ {c}
    /\ UNCHANGED <<now, row, flow, run, made, open, tick, calls, faults,
                   overtaken>>

---------------------------------------------------------------------------
\* Time, tasks and workflows go on by themselves.
Clock ==
    /\ now < MaxTime
    /\ now' = now + 1
    /\ UNCHANGED <<row, flow, run, made, open, tick, edit, calls, faults,
                   stale, overtaken>>

TaskEnds(s) ==
    /\ \E k \in open[s] : open' = [open EXCEPT ![s] = @ \ {k}]
    /\ UNCHANGED <<now, row, flow, run, made, tick, edit, calls, faults,
                   stale, overtaken>>

FlowMoves(s) ==
    /\ \/ flow[s] = "active" /\ flow' \in {[flow EXCEPT ![s] = "paused"],
                                          [flow EXCEPT ![s] = "closed"]}
       \/ flow[s] = "paused" /\ flow' = [flow EXCEPT ![s] = "active"]
    /\ UNCHANGED <<now, row, run, made, open, tick, edit, calls, faults,
                   stale, overtaken>>

TickStep(t) == List(t) \/ Read(t) \/ Claim(t) \/ Decide(t) \/ Commit(t)

Next ==
    \/ \E t \in Ticks : TickStep(t) \/ Rollback(t)
    \/ \E c \in Callers : CallRead(c) \/ CallWrite(c) \/ RunNow(c)
                          \/ CallFails(c)
    \/ Clock
    \/ \E s \in Series : TaskEnds(s) \/ FlowMoves(s)

\* Ticks are started again and again and each goes through its list.
Fairness == \A t \in Ticks : WF_vars(TickStep(t))

Spec == Init /\ [][Next]_vars
FairSpec == Spec /\ Fairness

---------------------------------------------------------------------------
\* However many ticks look at an occurrence, one task comes of it, and the
\* run on record says so: never a task without its run, or a run in state
\* created without its task.
OneTaskPerOccurrence ==
    \A s \in Series, k \in Occurrences :
        run[s][k] = "created" <=> k \in made[s]

\* With skip_if_active the scheduler has at most one task open, unless one
\* writer overtook another (advanceSeries and the API write by id alone).
OneActiveTask ==
    \A s \in Series :
        row[s].policy = "skip_if_active" /\ ~overtaken
            => Cardinality(open[s] \ {ByHand}) <= 1

\* Nor is an enabled series without a next occurrence, or with one that is
\* on record already, at which every later tick would take it for done.
NextIsAhead ==
    \A s \in Series :
        row[s].enabled /\ ~overtaken =>
            row[s].next # Never /\ run[s][row[s].next] = "none"

\* What is due is done with: recorded and advanced, or the series is switched
\* off; a paused workflow or a failing series holds up no other.
DueIsDone == (\E s \in Series : Due(s)) ~>
                 overtaken \/ \A s \in Series : ~Due(s)

---------------------------------------------------------------------------
(* Why these hold: what is so at every step between two steps.              *)

Recorded(s) == {k \in Times : run[s][k] # "none"}

\* A claimed occurrence is not on record, and its claim is the only one.
ClaimsAreFirst ==
    \A t \in Ticks :
       tick[t].pc \in {"claimed", "decided"} =>
          /\ run[tick[t].s][tick[t].k] = "none"
          /\ \A o \in Ticks \ {t} :
                tick[o].pc \in {"claimed", "decided"} =>
                   <<tick[o].s, tick[o].k>> # <<tick[t].s, tick[t].k>>

\* What is listed, at work or on record has come due.
InThePast ==
    /\ \A t \in Ticks : \A w \in tick[t].todo : w[2] <= now
    /\ \A t \in Ticks :
          tick[t].pc \in {"read", "claimed", "decided"} => tick[t].k <= now
    /\ \A s \in Series, k \in Times : run[s][k] # "none" => k <= now
    /\ \A c \in Callers : edit[c].op # "none" => edit[c].since <= now

\* Unless it is stale, who has read a series has read what is there.
ReadingsFresh ==
    /\ \A t \in Ticks \ stale :
          tick[t].pc \in {"read", "claimed", "decided"} =>
             /\ row[tick[t].s] = tick[t].seen
             /\ tick[t].seen.enabled /\ tick[t].seen.next = tick[t].k
    /\ \A c \in Callers \ stale :
          edit[c].op # "none" =>
             /\ row[edit[c].s] = edit[c].seen
             /\ \A k \in Recorded(edit[c].s) : k <= edit[c].since

\* NextIsAhead, of all that is on record.
RecordIsBehind ==
    ~overtaken =>
       \A s \in Series :
          row[s].enabled => /\ row[s].next # Never
                            /\ \A k \in Recorded(s) : k < row[s].next

\* OneActiveTask, and why a task is yet to be made.
RoomForTask ==
    /\ ~overtaken =>
          \A s \in Series :
             row[s].policy = "skip_if_active" =>
                \A j, k \in open[s] \ {ByHand} : j = k
    /\ \A t \in Ticks \ stale :
          /\ tick[t].pc = "decided" /\ tick[t].verdict = "create"
          /\ tick[t].seen.policy = "skip_if_active"
          => open[tick[t].s] = {}
=============================================================================
