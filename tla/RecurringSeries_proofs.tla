----------------------- MODULE RecurringSeries_proofs -----------------------
(* What holds of recurring task series for any number of series, ticks,     *)
(* callers, calls and rollbacks, and however far the clock goes.            *)
EXTENDS RecurringSeries, TLAPS, FiniteSetTheorems

Runs == [Occurrences -> {"none", "created", "skipped", "failed"}]
Waiting == [pc : {"idle", "loop"}, todo : Todos]
AtOccurrence == [pc : {"read", "claimed"}, todo : Todos, s : Series,
                 k : Times, seen : Rows]
AtVerdict == [pc : {"decided"}, todo : Todos, s : Series, k : Times,
              seen : Rows, verdict : {"create", "skip", "disable"}]
TickStates == Waiting \cup AtOccurrence \cup AtVerdict
NoCall == [op |-> "none"]
Calls == [op : {"enable", "disable", "update", "runNow"}, s : Series,
          seen : Rows, since : 0 .. MaxTime]
EditStates == [op : {"none"}] \cup Calls

Busy(t) == tick[t].pc \in {"read", "claimed", "decided"}
Calling(c) == edit[c].op # "none"

\* Who is at no series any more.
LetGo(w) == /\ w \in Ticks => ~Busy(w)
            /\ w \in Callers => ~Calling(w)

LEMMA Typed ==
    ASSUME SeriesTypeOK
    PROVE  /\ now \in 0 .. MaxTime
           /\ row \in [Series -> Rows]
           /\ run \in [Series -> Runs]
           /\ made \in [Series -> SUBSET Occurrences]
           /\ open \in [Series -> SUBSET Occurrences]
           /\ tick \in [Ticks -> TickStates]
           /\ edit \in [Callers -> EditStates]
           /\ stale \subseteq Ticks \cup Callers
           /\ overtaken \in BOOLEAN
BY DEF SeriesTypeOK, Runs, TickStates, Waiting, AtOccurrence, AtVerdict,
       EditStates, Calls

LEMMA BusyTyped ==
    ASSUME SeriesTypeOK, NEW t \in Ticks
    PROVE  /\ tick[t].todo \in Todos
           /\ tick[t].pc \in {"idle", "loop", "read", "claimed", "decided"}
           /\ Busy(t) => /\ tick[t].s \in Series /\ tick[t].k \in Times
                         /\ tick[t].seen \in Rows
           /\ tick[t].pc \in {"read", "claimed"} => tick[t] \in AtOccurrence
           /\ tick[t].pc = "decided" => tick[t] \in AtVerdict
<1>1. tick[t] \in Waiting \/ tick[t] \in AtOccurrence \/ tick[t] \in AtVerdict
  BY Typed DEF TickStates
<1> QED
  BY <1>1 DEF Busy, Waiting, AtOccurrence, AtVerdict

LEMMA CallTyped ==
    ASSUME SeriesTypeOK, NEW c \in Callers, Calling(c)
    PROVE  /\ edit[c].s \in Series /\ edit[c].seen \in Rows
           /\ edit[c].since \in 0 .. MaxTime
           /\ edit[c].op \in {"enable", "disable", "update", "runNow"}
<1>1. edit[c] \in Calls
  BY Typed DEF EditStates, Calling
<1> QED
  BY <1>1 DEF Calls

LEMMA OnwardWaits ==
    ASSUME NEW todo \in Todos
    PROVE  /\ Onward(todo) \in Waiting
           /\ \A w \in Onward(todo).todo : w \in todo
<1>1. {} \in Todos
  BY DEF Todos
<1> QED
  BY <1>1 DEF Onward, Waiting, Idle

LEMMA ResumeEffect ==
    ASSUME SeriesTypeOK, NEW t \in Ticks, Resume(t)
    PROVE  /\ tick' = [tick EXCEPT ![t] = Onward(tick[t].todo)]
           /\ tick'[t] \in Waiting
           /\ \A w \in tick'[t].todo : w \in tick[t].todo
           /\ \A o \in Ticks \ {t} : tick'[o] = tick[o]
<1>1. tick' = [tick EXCEPT ![t] = Onward(tick[t].todo)]
  BY DEF Resume
<1>2. tick \in [Ticks -> TickStates] /\ tick[t].todo \in Todos
  BY Typed, BusyTyped
<1> QED
  BY <1>1, <1>2, OnwardWaits

---------------------------------------------------------------------------
(* The steps, by what they do to a tick, to a call and to a series          *)

\* What is listed is due.
LEMMA ListEffect ==
    ASSUME SeriesTypeOK, ConstantsOK, NEW t \in Ticks, List(t)
    PROVE  /\ tick'[t] \in Waiting
           /\ \A w \in tick'[t].todo : w[2] <= now
           /\ \A o \in Ticks \ {t} : tick'[o] = tick[o]
           /\ tick' \in [Ticks -> TickStates]
<1>1. PICK D \in FirstDue :
         tick' = [tick EXCEPT ![t] =
                     [pc |-> "loop", todo |-> {<<s, row[s].next>> : s \in D}]]
  BY DEF List
<1>2. \A s \in D : s \in Series /\ Due(s)
  BY DEF FirstDue
<1>3. \A s \in D : row[s].next \in Times /\ row[s].next <= now
  BY <1>2, Typed DEF Due, Rows
<1> DEFINE todo == {<<s, row[s].next>> : s \in D}
           new == [pc |-> "loop", todo |-> todo]
<1>4. todo \in Todos /\ \A w \in todo : w[2] <= now
  BY <1>2, <1>3 DEF Todos
<1> HIDE DEF todo
<1>5. new \in Waiting /\ new.todo = todo /\ new \in TickStates
  BY <1>4 DEF Waiting, TickStates
<1>6. tick' = [tick EXCEPT ![t] = new]
  BY <1>1 DEF todo
<1> HIDE DEF new
<1> QED
  BY <1>4, <1>5, <1>6, Typed

\* What is read is as it was listed.
LEMMA ReadEffect ==
    ASSUME SeriesTypeOK, NEW t \in Ticks, Read(t)
    PROVE  /\ tick' \in [Ticks -> TickStates]
           /\ \A o \in Ticks \ {t} : tick'[o] = tick[o]
           /\ \A w \in tick'[t].todo : w \in tick[t].todo
           /\ \/ tick'[t] \in Waiting
              \/ /\ tick'[t] \in AtOccurrence /\ tick'[t].pc = "read"
                 /\ <<tick'[t].s, tick'[t].k>> \in tick[t].todo
                 /\ tick'[t].seen = row[tick'[t].s]
                 /\ tick'[t].seen.enabled
                 /\ tick'[t].seen.next = tick'[t].k
<1>1. /\ tick \in [Ticks -> TickStates] /\ tick[t].todo \in Todos
      /\ row \in [Series -> Rows]
  BY Typed, BusyTyped
<1>2. PICK w \in tick[t].todo :
         tick' = [tick EXCEPT ![t] =
             IF row[w[1]].enabled /\ row[w[1]].next = w[2]
             THEN [pc |-> "read", todo |-> tick[t].todo \ {w}, s |-> w[1],
                   k |-> w[2], seen |-> row[w[1]]]
             ELSE Onward(tick[t].todo \ {w})]
  BY DEF Read
<1>3. /\ w[1] \in Series /\ w[2] \in Times /\ w = <<w[1], w[2]>>
      /\ tick[t].todo \ {w} \in Todos
  BY <1>1 DEF Todos
<1>4. CASE row[w[1]].enabled /\ row[w[1]].next = w[2]
  <2> DEFINE new == [pc |-> "read", todo |-> tick[t].todo \ {w}, s |-> w[1],
                     k |-> w[2], seen |-> row[w[1]]]
  <2>1. new \in AtOccurrence /\ new \in TickStates
    BY <1>1, <1>3 DEF AtOccurrence, TickStates
  <2>2. tick' = [tick EXCEPT ![t] = new]
    BY <1>2, <1>4
  <2>3. tick'[t] = new
    BY <1>1, <2>2
  <2> QED
    BY <1>1, <1>3, <1>4, <2>1, <2>2, <2>3
<1>5. CASE ~(row[w[1]].enabled /\ row[w[1]].next = w[2])
  <2> DEFINE new == Onward(tick[t].todo \ {w})
  <2>1. /\ new \in Waiting /\ new \in TickStates
        /\ \A v \in new.todo : v \in tick[t].todo
    BY <1>3, OnwardWaits DEF TickStates
  <2>2. tick' = [tick EXCEPT ![t] = new]
    BY <1>2, <1>5
  <2> HIDE DEF new
  <2> QED
    BY <1>1, <2>1, <2>2
<1> QED
  BY <1>4, <1>5

\* What is claimed is claimed alone and not on record.
LEMMA ClaimEffect ==
    ASSUME SeriesTypeOK, NEW t \in Ticks, Claim(t)
    PROVE  /\ tick' \in [Ticks -> TickStates]
           /\ \A o \in Ticks \ {t} : tick'[o] = tick[o]
           /\ \/ /\ tick'[t] \in Waiting
                 /\ \A w \in tick'[t].todo : w \in tick[t].todo
                 /\ stale' = stale \ {t}
              \/ /\ tick[t].pc = "read"
                 /\ tick'[t] = [tick[t] EXCEPT !.pc = "claimed"]
                 /\ tick'[t] \in AtOccurrence
                 /\ run[tick[t].s][tick[t].k] = "none"
                 /\ ~Claimed(tick[t].s, tick[t].k)
                 /\ stale' = stale
<1>1. tick \in [Ticks -> TickStates] /\ tick[t].pc = "read"
  BY Typed DEF Claim
<1>2. tick[t] \in AtOccurrence
  BY <1>1, BusyTyped
<1>3. CASE Resume(t) /\ stale' = stale \ {t}
  <2>1. tick'[t] \in TickStates
    BY <1>3, ResumeEffect DEF TickStates
  <2> QED
    BY <1>1, <1>3, <2>1, ResumeEffect
<1>4. CASE /\ tick' = [tick EXCEPT ![t].pc = "claimed"] /\ stale' = stale
           /\ run[tick[t].s][tick[t].k] = "none"
  <2>1. /\ [tick[t] EXCEPT !.pc = "claimed"] \in AtOccurrence
        /\ [tick[t] EXCEPT !.pc = "claimed"] \in TickStates
    BY <1>2 DEF AtOccurrence, TickStates
  <2> QED
    BY <1>1, <1>4, <2>1 DEF Claim
<1> QED
  BY <1>3, <1>4 DEF Claim

\* A task is made in the presence of another only where that is allowed.
LEMMA DecideEffect ==
    ASSUME SeriesTypeOK, NEW t \in Ticks, Decide(t)
    PROVE  /\ tick' \in [Ticks -> TickStates]
           /\ \A o \in Ticks \ {t} : tick'[o] = tick[o]
           /\ tick[t].pc = "claimed"
           /\ tick'[t] \in AtVerdict
           /\ tick'[t].todo = tick[t].todo
           /\ tick'[t].s = tick[t].s /\ tick'[t].k = tick[t].k
           /\ tick'[t].seen = tick[t].seen
           /\ /\ tick'[t].verdict = "create"
              /\ tick[t].seen.policy = "skip_if_active"
              => open[tick[t].s] = {}
<1>1. tick \in [Ticks -> TickStates] /\ tick[t].pc = "claimed"
  BY Typed DEF Decide
<1>2. tick[t] \in AtOccurrence
  BY <1>1, BusyTyped
<1>3. PICK v \in Verdicts(tick[t].s, tick[t].seen) :
         tick' = [tick EXCEPT ![t] =
                     [pc |-> "decided", todo |-> tick[t].todo,
                      s |-> tick[t].s, k |-> tick[t].k,
                      seen |-> tick[t].seen, verdict |-> v]]
  BY DEF Decide
<1>4. /\ v \in {"create", "skip", "disable"}
      /\ /\ v = "create" /\ tick[t].seen.policy = "skip_if_active"
         => open[tick[t].s] = {}
  BY DEF Verdicts
<1> DEFINE new == [pc |-> "decided", todo |-> tick[t].todo,
                   s |-> tick[t].s, k |-> tick[t].k,
                   seen |-> tick[t].seen, verdict |-> v]
<1>5. new \in AtVerdict /\ new \in TickStates
  BY <1>2, <1>4 DEF AtOccurrence, AtVerdict, TickStates
<1>6. tick'[t] = new
  BY <1>1, <1>3
<1> QED
  BY <1>1, <1>3, <1>4, <1>5, <1>6

\* A series is written by one of its readers: the others are stale then.
Rewritten(w, s) ==
    /\ row' \in [Series -> Rows] /\ row'[s].policy = row[s].policy
    /\ \A o \in Series \ {s} : row'[o] = row[o]
    /\ stale' = (stale \cup Readers(s)) \ {w}
    /\ overtaken' = (overtaken \/ w \in stale)

LEMMA WriteEffect ==
    ASSUME SeriesTypeOK, NEW w, NEW s \in Series, NEW new \in Rows,
           new.policy = row[s].policy, Write(w, s, new)
    PROVE  Rewritten(w, s) /\ row'[s] = new
BY Typed DEF Write, Rewritten

LEMMA CommitEffect ==
    ASSUME SeriesTypeOK, ConstantsOK, InThePast, NEW t \in Ticks, Commit(t)
    PROVE  /\ tick[t] \in AtVerdict /\ tick[t].s \in Series
           /\ tick[t].k \in Times /\ tick[t].k \in 0 .. now
           /\ tick'[t] \in Waiting
           /\ \A o \in Ticks \ {t} : tick'[o] = tick[o]
           /\ \A w \in tick'[t].todo : w \in tick[t].todo
           /\ tick' \in [Ticks -> TickStates]
           /\ Rewritten(t, tick[t].s)
           /\ row'[tick[t].s].enabled =>
                 /\ row[tick[t].s].enabled
                 /\ row'[tick[t].s].next = tick[t].k + 1
<1>1. /\ tick \in [Ticks -> TickStates] /\ now \in 0 .. MaxTime
      /\ row \in [Series -> Rows] /\ tick[t].pc = "decided"
  BY Typed DEF Commit
<1>2. tick[t] \in AtVerdict /\ Busy(t)
  BY <1>1, BusyTyped DEF Busy
<1>3. tick[t].s \in Series /\ tick[t].k \in Times /\ tick[t].k <= now
  BY <1>1, <1>2, BusyTyped DEF InThePast
<1>4. tick[t].k \in 0 .. now /\ tick[t].k + 1 \in Times
  BY <1>1, <1>3 DEF Times, ConstantsOK
<1> DEFINE s == tick[t].s
           off == tick[t].verdict = "disable"
           new == [row[s] EXCEPT !.enabled = @ /\ ~off,
                                 !.next = IF off THEN Never ELSE tick[t].k + 1]
<1>5. row[s] \in Rows
  BY <1>1, <1>3
<1>6. /\ new \in Rows /\ new.policy = row[s].policy
      /\ new.enabled => row[s].enabled /\ new.next = tick[t].k + 1
  BY <1>4, <1>5 DEF Rows
<1>7. Write(t, s, new)
  BY DEF Commit, Advance
<1> HIDE DEF new
<1>8. Rewritten(t, s) /\ row'[s] = new
  BY <1>3, <1>6, <1>7, WriteEffect
<1>9. /\ tick'[t] \in Waiting
      /\ \A o \in Ticks \ {t} : tick'[o] = tick[o]
      /\ \A w \in tick'[t].todo : w \in tick[t].todo
      /\ tick' = [tick EXCEPT ![t] = Onward(tick[t].todo)]
  BY ResumeEffect DEF Commit
<1>10. tick' \in [Ticks -> TickStates]
  BY <1>1, <1>9 DEF TickStates
<1> QED
  BY <1>2, <1>3, <1>4, <1>6, <1>8, <1>9, <1>10

\* What a commit leaves on record.
LEMMA CommitRecords ==
    ASSUME SeriesTypeOK, ConstantsOK, InThePast, NEW t \in Ticks, Commit(t)
    PROVE  \E status \in {"created", "skipped", "failed"} :
              /\ run' = [run EXCEPT ![tick[t].s][tick[t].k] = status]
              /\ IF status = "created"
                 THEN /\ tick[t].verdict = "create"
                      /\ made' = [made EXCEPT ![tick[t].s] =
                                     made[tick[t].s] \cup {tick[t].k}]
                      /\ open' = [open EXCEPT ![tick[t].s] =
                                     open[tick[t].s] \cup {tick[t].k}]
                 ELSE UNCHANGED <<made, open>>
BY DEF Commit

LEMMA CallWriteEffect ==
    ASSUME SeriesTypeOK, ConstantsOK, NEW c \in Callers, CallWrite(c)
    PROVE  /\ Calling(c) /\ edit[c].s \in Series
           /\ edit' = [edit EXCEPT ![c] = NoCall]
           /\ Rewritten(c, edit[c].s)
           /\ row'[edit[c].s].enabled =>
                 /\ row'[edit[c].s].next \in Times
                 /\ row'[edit[c].s].next > edit[c].since
<1> DEFINE s == edit[c].s
           since == edit[c].since
           enabled == IF edit[c].op = "update" THEN edit[c].seen.enabled
                      ELSE edit[c].op = "enable"
<1>1. Calling(c)
  BY DEF CallWrite, Calling
<1>2. /\ s \in Series /\ since \in 0 .. MaxTime /\ now \in 0 .. MaxTime
      /\ row[s] \in Rows /\ enabled \in BOOLEAN
  BY <1>1, CallTyped, Typed DEF Rows
<1>3. PICK k \in NextRuns(since, enabled) :
         Write(c, s, [row[s] EXCEPT !.enabled = enabled, !.next = k])
  BY DEF CallWrite
<1> DEFINE new == [row[s] EXCEPT !.enabled = enabled, !.next = k]
<1>4. IF enabled THEN k \in Times /\ k > since ELSE k = Never
  BY <1>2 DEF NextRuns, Times, ConstantsOK
<1> HIDE DEF enabled
<1>5. /\ new \in Rows /\ new.policy = row[s].policy
      /\ new.enabled = enabled /\ new.next = k
  BY <1>2, <1>4 DEF Rows
<1> HIDE DEF new
<1>6. Write(c, s, new)
  BY <1>3 DEF new
<1>7. Rewritten(c, s) /\ row'[s] = new
  BY <1>2, <1>5, <1>6, WriteEffect
<1>8. edit' = [edit EXCEPT ![c] = NoCall]
  BY DEF CallWrite, NoCall
<1> QED
  BY <1>1, <1>2, <1>4, <1>5, <1>7, <1>8

LEMMA RunNowEffect ==
    ASSUME SeriesTypeOK, ConstantsOK, NEW c \in Callers, RunNow(c)
    PROVE  /\ Calling(c) /\ edit[c].s \in Series
           /\ edit' = [edit EXCEPT ![c] = NoCall]
           /\ Rewritten(c, edit[c].s)
           /\ row'[edit[c].s].enabled = row[edit[c].s].enabled
           /\ edit[c].seen.enabled => row'[edit[c].s].next = now + 1
<1> DEFINE s == edit[c].s
<1>1. Calling(c)
  BY DEF RunNow, Calling
<1>2. /\ s \in Series /\ now \in 0 .. MaxTime /\ row[s] \in Rows
      /\ edit[c].seen \in Rows
  BY <1>1, CallTyped, Typed
<1>3. PICK k \in NextRuns(now, edit[c].seen.enabled) :
         Write(c, s, [row[s] EXCEPT !.next = k])
  BY DEF RunNow
<1> DEFINE new == [row[s] EXCEPT !.next = k]
<1>4. IF edit[c].seen.enabled THEN k = now + 1 /\ k \in Times ELSE k = Never
  BY <1>2 DEF NextRuns, Times, ConstantsOK
<1>5. /\ new \in Rows /\ new.policy = row[s].policy
      /\ new.enabled = row[s].enabled /\ new.next = k
  BY <1>2, <1>4 DEF Rows
<1> HIDE DEF new
<1>6. Write(c, s, new)
  BY <1>3 DEF new
<1>7. Rewritten(c, s) /\ row'[s] = new
  BY <1>2, <1>5, <1>6, WriteEffect
<1>8. edit' = [edit EXCEPT ![c] = NoCall]
  BY DEF RunNow, NoCall
<1> QED
  BY <1>1, <1>2, <1>4, <1>5, <1>7, <1>8

LEMMA CallReadEffect ==
    ASSUME SeriesTypeOK, NEW c \in Callers, CallRead(c)
    PROVE  /\ ~Calling(c)
           /\ edit' \in [Callers -> EditStates]
           /\ \A d \in Callers \ {c} : edit'[d] = edit[d]
           /\ edit'[c] \in Calls
           /\ edit'[c].seen = row[edit'[c].s] /\ edit'[c].since = now
<1>1. PICK s \in Series, op \in {"enable", "disable", "update", "runNow"} :
         edit' = [edit EXCEPT ![c] =
                     [op |-> op, s |-> s, seen |-> row[s], since |-> now]]
  BY DEF CallRead
<1> DEFINE new == [op |-> op, s |-> s, seen |-> row[s], since |-> now]
<1>2. new \in Calls /\ new \in EditStates
  BY Typed DEF Calls, EditStates
<1>3. edit \in [Callers -> EditStates]
  BY Typed
<1>4. edit'[c] = new
  BY <1>1, <1>3
<1>5. ~Calling(c)
  BY DEF CallRead, Calling
<1> QED
  BY <1>1, <1>2, <1>3, <1>4, <1>5

\* A step that writes no series.
Quiet ==
    /\ UNCHANGED <<row, overtaken, run, made>>
    /\ \A s \in Series : open'[s] \subseteq open[s]
    /\ stale' \subseteq stale
    /\ \A w \in stale \ stale' : LetGo(w)'

Moves == \/ \E t \in Ticks : List(t) \/ Read(t) \/ Claim(t) \/ Decide(t)
         \/ \E t \in Ticks : Rollback(t)
         \/ \E c \in Callers : CallRead(c) \/ CallFails(c)
         \/ Clock
         \/ \E s \in Series : TaskEnds(s) \/ FlowMoves(s)
         \/ UNCHANGED vars

LEMMA NextIs ==
    ASSUME [Next]_vars
    PROVE  \/ Moves
           \/ \E t \in Ticks : Commit(t)
           \/ \E c \in Callers : CallWrite(c)
           \/ \E c \in Callers : RunNow(c)
BY DEF Next, TickStep, Moves

LEMMA WaitingIsGone ==
    ASSUME ConstantsOK, NEW t \in Ticks, tick'[t] \in Waiting
    PROVE  LetGo(t)'
<1>1. tick'[t].pc \in {"idle", "loop"} /\ t \notin Callers
  BY DEF Waiting, ConstantsOK
<1> QED
  BY <1>1 DEF LetGo, Busy

LEMMA NoCallIsGone ==
    ASSUME ConstantsOK, SeriesTypeOK, NEW c \in Callers,
           edit' = [edit EXCEPT ![c] = NoCall]
    PROVE  LetGo(c)' /\ ~Calling(c)'
<1>1. edit'[c] = NoCall /\ c \notin Ticks
  BY Typed DEF ConstantsOK
<1> QED
  BY <1>1 DEF LetGo, Calling, NoCall

LEMMA MovesAreQuiet ==
    ASSUME SeriesTypeOK, ConstantsOK, Moves
    PROVE  Quiet
<1>0. open \in [Series -> SUBSET Occurrences]
  BY Typed
<1>1. ASSUME NEW t \in Ticks, List(t) \/ Read(t) \/ Decide(t) PROVE Quiet
  BY <1>1 DEF List, Read, Decide, Quiet
<1>2. ASSUME NEW t \in Ticks, Claim(t) PROVE Quiet
  <2>1. UNCHANGED <<row, overtaken, run, made, open>>
    BY <1>2 DEF Claim
  <2>2. stale' = stale \/ (stale' = stale \ {t} /\ tick'[t] \in Waiting)
    BY <1>2, ClaimEffect
  <2> QED
    BY <2>1, <2>2, WaitingIsGone DEF Quiet
<1>3. ASSUME NEW t \in Ticks, Rollback(t) PROVE Quiet
  <2>1. UNCHANGED <<row, overtaken, run, made, open>> /\ stale' = stale \ {t}
    BY <1>3 DEF Rollback
  <2>2. LetGo(t)'
    BY <1>3, ResumeEffect, WaitingIsGone DEF Rollback
  <2> QED
    BY <2>1, <2>2 DEF Quiet
<1>4. ASSUME NEW c \in Callers, CallRead(c) PROVE Quiet
  BY <1>4 DEF CallRead, Quiet
<1>5. ASSUME NEW c \in Callers, CallFails(c) PROVE Quiet
  <2>1. UNCHANGED <<row, overtaken, run, made, open>> /\ stale' = stale \ {c}
    BY <1>5 DEF CallFails
  <2>2. LetGo(c)'
    BY <1>5, NoCallIsGone DEF CallFails, NoCall
  <2> QED
    BY <2>1, <2>2 DEF Quiet
<1>6. ASSUME NEW s \in Series, TaskEnds(s) PROVE Quiet
  BY <1>0, <1>6 DEF TaskEnds, Quiet
<1>7. ASSUME Clock \/ (\E s \in Series : FlowMoves(s)) \/ UNCHANGED vars
      PROVE  Quiet
  BY <1>7 DEF Clock, FlowMoves, vars, Quiet
<1> QED
  BY <1>1, <1>2, <1>3, <1>4, <1>5, <1>6, <1>7 DEF Moves

\* How a tick goes on.
TickGoes(t) ==
    \/ tick'[t] = tick[t]
    \/ /\ tick'[t] \in Waiting
       /\ \A w \in tick'[t].todo : w \in tick[t].todo \/ w[2] <= now
    \/ /\ tick'[t] \in AtOccurrence /\ tick'[t].pc = "read"
       /\ \A w \in tick'[t].todo : w \in tick[t].todo
       /\ <<tick'[t].s, tick'[t].k>> \in tick[t].todo
       /\ tick'[t].seen = row[tick'[t].s] /\ tick'[t].seen.enabled
       /\ tick'[t].seen.next = tick'[t].k
    \/ /\ tick[t].pc = "read"
       /\ tick'[t] = [tick[t] EXCEPT !.pc = "claimed"]
       /\ tick'[t] \in AtOccurrence
       /\ run[tick[t].s][tick[t].k] = "none"
       /\ ~Claimed(tick[t].s, tick[t].k)
    \/ /\ tick[t].pc = "claimed" /\ tick'[t] \in AtVerdict
       /\ tick'[t].todo = tick[t].todo
       /\ tick'[t].s = tick[t].s /\ tick'[t].k = tick[t].k
       /\ tick'[t].seen = tick[t].seen
       /\ /\ tick'[t].verdict = "create"
          /\ tick[t].seen.policy = "skip_if_active"
          => open[tick[t].s] = {}

LEMMA MovingTick ==
    ASSUME SeriesTypeOK, ConstantsOK, Moves
    PROVE  /\ tick' \in [Ticks -> TickStates]
           /\ \A t \in Ticks : TickGoes(t)
           /\ \/ UNCHANGED tick
              \/ \E o \in Ticks : \A t \in Ticks \ {o} : tick'[t] = tick[t]
           /\ UNCHANGED tick \/ UNCHANGED <<now, open>>
<1> DEFINE Goal ==
             /\ tick' \in [Ticks -> TickStates]
             /\ \A t \in Ticks : TickGoes(t)
             /\ \/ UNCHANGED tick
                \/ \E o \in Ticks : \A t \in Ticks \ {o} : tick'[t] = tick[t]
             /\ UNCHANGED tick \/ UNCHANGED <<now, open>>
<1>0. tick \in [Ticks -> TickStates]
  BY Typed
<1>1. ASSUME NEW o \in Ticks, List(o) PROVE Goal
  <2>1. UNCHANGED <<now, open>>
    BY <1>1 DEF List
  <2> QED
    BY <1>1, <2>1, ListEffect DEF TickGoes
<1>2. ASSUME NEW o \in Ticks, Read(o) PROVE Goal
  <2>1. UNCHANGED <<now, open>>
    BY <1>2 DEF Read
  <2> QED
    BY <1>2, <2>1, ReadEffect DEF TickGoes
<1>3. ASSUME NEW o \in Ticks, Claim(o) PROVE Goal
  <2>1. UNCHANGED <<now, open>>
    BY <1>3 DEF Claim
  <2> QED
    BY <1>3, <2>1, ClaimEffect DEF TickGoes
<1>4. ASSUME NEW o \in Ticks, Decide(o) PROVE Goal
  <2>1. UNCHANGED <<now, open>>
    BY <1>4 DEF Decide
  <2> QED
    BY <1>4, <2>1, DecideEffect DEF TickGoes
<1>5. ASSUME NEW o \in Ticks, Rollback(o) PROVE Goal
  <2>1. UNCHANGED <<now, open>> /\ Resume(o)
    BY <1>5 DEF Rollback
  <2>2. tick' \in [Ticks -> TickStates]
    BY <1>0, <2>1, ResumeEffect DEF TickStates
  <2> QED
    BY <2>1, <2>2, ResumeEffect DEF TickGoes
<1>6. ASSUME \/ \E c \in Callers : CallRead(c) \/ CallFails(c)
             \/ Clock
             \/ \E s \in Series : TaskEnds(s) \/ FlowMoves(s)
             \/ UNCHANGED vars
      PROVE  Goal
  <2>1. UNCHANGED tick
    BY <1>6 DEF CallRead, CallFails, Clock, TaskEnds, FlowMoves, vars
  <2> QED
    BY <1>0, <2>1 DEF TickGoes
<1> HIDE DEF Goal
<1>7. Goal
  BY <1>1, <1>2, <1>3, <1>4, <1>5, <1>6 DEF Moves
<1> QED
  BY <1>7 DEF Goal

\* How a call goes on.
CallGoes(c) ==
    \/ edit'[c] = edit[c]
    \/ edit'[c] = NoCall
    \/ /\ edit'[c] \in Calls
       /\ edit'[c].seen = row[edit'[c].s] /\ edit'[c].since = now
       /\ UNCHANGED now

LEMMA MovingCall ==
    ASSUME SeriesTypeOK, Moves
    PROVE  /\ edit' \in [Callers -> EditStates]
           /\ \A c \in Callers : CallGoes(c)
<1>0. edit \in [Callers -> EditStates]
  BY Typed
<1>1. ASSUME NEW d \in Callers, CallRead(d)
      PROVE  /\ edit' \in [Callers -> EditStates]
             /\ \A c \in Callers : CallGoes(c)
  <2>1. UNCHANGED now
    BY <1>1 DEF CallRead
  <2> QED
    BY <1>1, <2>1, CallReadEffect DEF CallGoes
<1>2. ASSUME NEW d \in Callers, CallFails(d)
      PROVE  /\ edit' \in [Callers -> EditStates]
             /\ \A c \in Callers : CallGoes(c)
  <2>1. edit' = [edit EXCEPT ![d] = NoCall] /\ NoCall \in EditStates
    BY <1>2 DEF CallFails, NoCall, EditStates
  <2> QED
    BY <1>0, <2>1 DEF CallGoes
<1>3. ASSUME UNCHANGED edit
      PROVE  /\ edit' \in [Callers -> EditStates]
             /\ \A c \in Callers : CallGoes(c)
  BY <1>0, <1>3 DEF CallGoes
<1> QED
  BY <1>1, <1>2, <1>3
  DEF Moves, List, Read, Claim, Decide, Rollback, Clock, TaskEnds, FlowMoves,
      vars

LEMMA StepTyped ==
    ASSUME SeriesTypeOK, ConstantsOK, InThePast, [Next]_vars
    PROVE  SeriesTypeOK'
<1> DEFINE Back == /\ (now \in 0 .. MaxTime)'
                   /\ (row \in [Series -> Rows])'
                   /\ (run \in [Series -> Runs])'
                   /\ (made \in [Series -> SUBSET Occurrences])'
                   /\ (open \in [Series -> SUBSET Occurrences])'
                   /\ (tick \in [Ticks -> TickStates])'
                   /\ (edit \in [Callers -> EditStates])'
                   /\ (stale \subseteq Ticks \cup Callers)'
                   /\ (overtaken \in BOOLEAN)'
<1>1. /\ (flow \in [Series -> {"active", "paused", "closed"}])'
      /\ (calls \in 0 .. MaxCalls)'
      /\ (faults \in 0 .. MaxFaults)'
  <2>1. (flow \in [Series -> {"active", "paused", "closed"}])'
    <3>1. UNCHANGED flow \/ \E s \in Series : FlowMoves(s)
      BY DEF Next, TickStep, List, Read, Claim, Decide, Commit, Rollback,
             CallRead, CallWrite, RunNow, CallFails, Clock, TaskEnds, vars
    <3> QED
      BY <3>1 DEF SeriesTypeOK, FlowMoves
  <2>2. (calls \in 0 .. MaxCalls)'
    <3>1. UNCHANGED calls \/ \E c \in Callers : CallRead(c)
      BY DEF Next, TickStep, List, Read, Claim, Decide, Commit, Rollback,
             CallWrite, RunNow, CallFails, Clock, TaskEnds, FlowMoves, vars
    <3> QED
      BY <3>1 DEF SeriesTypeOK, CallRead, ConstantsOK
  <2>3. (faults \in 0 .. MaxFaults)'
    <3>1. UNCHANGED faults \/ \E t \in Ticks : Rollback(t)
      BY DEF Next, TickStep, List, Read, Claim, Decide, Commit, CallRead,
             CallWrite, RunNow, CallFails, Clock, TaskEnds, FlowMoves, vars
    <3> QED
      BY <3>1 DEF SeriesTypeOK, Rollback, ConstantsOK
  <2> QED
    BY <2>1, <2>2, <2>3
<1>2. Back => SeriesTypeOK'
  BY <1>1 DEF SeriesTypeOK, Runs, TickStates, Waiting, AtOccurrence,
              AtVerdict, EditStates, Calls
<1>3. now \in 0 .. MaxTime /\ (now \in 0 .. MaxTime)'
  <2>1. UNCHANGED now \/ Clock
    BY DEF Next, TickStep, List, Read, Claim, Decide, Commit, Rollback,
           CallRead, CallWrite, RunNow, CallFails, TaskEnds, FlowMoves, vars
  <2> QED
    BY <2>1, Typed DEF Clock, ConstantsOK
<1>4. ASSUME NEW w \in Ticks \cup Callers, NEW s \in Series, Rewritten(w, s)
      PROVE  /\ (row \in [Series -> Rows])'
             /\ (stale \subseteq Ticks \cup Callers)'
             /\ (overtaken \in BOOLEAN)'
  BY <1>4, Typed DEF Rewritten, Readers
<1>5. CASE Moves
  <2>1. Quiet
    BY <1>5, MovesAreQuiet
  <2>2. (open \in [Series -> SUBSET Occurrences])'
    <3>1. UNCHANGED open \/ \E s \in Series : TaskEnds(s)
      BY <1>5 DEF Moves, List, Read, Claim, Decide, Rollback, CallRead,
                  CallFails, Clock, FlowMoves, vars
    <3> QED
      BY <3>1, Typed DEF TaskEnds
  <2> HIDE DEF Back
  <2>3. Back
    BY <1>3, <1>5, <2>1, <2>2, MovingTick, MovingCall, Typed DEF Back, Quiet
  <2> QED
    BY <1>2, <2>3
<1>6. ASSUME NEW t \in Ticks, Commit(t) PROVE SeriesTypeOK'
  <2>1. PICK status \in {"created", "skipped", "failed"} :
           /\ run' = [run EXCEPT ![tick[t].s][tick[t].k] = status]
           /\ IF status = "created"
              THEN /\ made' = [made EXCEPT ![tick[t].s] =
                                  made[tick[t].s] \cup {tick[t].k}]
                   /\ open' = [open EXCEPT ![tick[t].s] =
                                  open[tick[t].s] \cup {tick[t].k}]
              ELSE UNCHANGED <<made, open>>
    BY <1>6, CommitRecords
  <2>2. /\ tick[t].s \in Series /\ tick[t].k \in Occurrences
        /\ tick' \in [Ticks -> TickStates] /\ Rewritten(t, tick[t].s)
    BY <1>6, CommitEffect DEF Occurrences
  <2>3. run' \in [Series -> Runs]
    BY <2>1, <2>2, Typed DEF Runs
  <2>4. /\ made' \in [Series -> SUBSET Occurrences]
        /\ open' \in [Series -> SUBSET Occurrences]
    BY <2>1, <2>2, Typed
  <2>5. edit' \in [Callers -> EditStates]
    BY <1>6, Typed DEF Commit
  <2> QED
    BY <1>2, <1>3, <1>4, <2>2, <2>3, <2>4, <2>5
<1>7. NoCall \in EditStates
  BY DEF NoCall, EditStates
<1>8. ASSUME NEW c \in Callers, CallWrite(c) PROVE SeriesTypeOK'
  <2>1. UNCHANGED <<run, made, open, tick>>
    BY <1>8 DEF CallWrite
  <2>2. /\ edit[c].s \in Series /\ Rewritten(c, edit[c].s)
        /\ edit' \in [Callers -> EditStates]
    BY <1>7, <1>8, CallWriteEffect, Typed
  <2> QED
    BY <1>2, <1>3, <1>4, <2>1, <2>2, Typed
<1>9. ASSUME NEW c \in Callers, RunNow(c) PROVE SeriesTypeOK'
  <2>1. /\ edit[c].s \in Series /\ Rewritten(c, edit[c].s)
        /\ edit' \in [Callers -> EditStates]
    BY <1>7, <1>9, RunNowEffect, Typed
  <2>2. /\ run' = [run EXCEPT ![edit[c].s][ByHand] = "created"]
        /\ made' = [made EXCEPT ![edit[c].s] = made[edit[c].s] \cup {ByHand}]
        /\ open' = [open EXCEPT ![edit[c].s] = open[edit[c].s] \cup {ByHand}]
        /\ UNCHANGED tick
    BY <1>9 DEF RunNow
  <2>3. ByHand \in Occurrences
    BY DEF Occurrences
  <2>4. run' \in [Series -> Runs]
    BY <2>1, <2>2, <2>3, Typed DEF Runs
  <2>5. /\ made' \in [Series -> SUBSET Occurrences]
        /\ open' \in [Series -> SUBSET Occurrences]
    BY <2>1, <2>2, <2>3, Typed
  <2> QED
    BY <1>2, <1>3, <1>4, <2>1, <2>2, <2>4, <2>5, Typed
<1> QED
  BY <1>5, <1>6, <1>8, <1>9, NextIs

---------------------------------------------------------------------------
(* The invariants, one by one                                               *)

LEMMA Numbers ==
    ASSUME SeriesTypeOK, ConstantsOK
    PROVE  /\ now \in Nat /\ MaxTime \in Nat /\ Times \subseteq Nat
           /\ ByHand \notin Times /\ ByHand \in Occurrences
           /\ Times \subseteq Occurrences /\ Never \notin Times
BY Typed DEF ConstantsOK, Times, ByHand, Occurrences

LEMMA ClockGoesOn ==
    ASSUME SeriesTypeOK, ConstantsOK, [Next]_vars
    PROVE  /\ now' \in Nat /\ now <= now'
           /\ ~Moves => now' = now
<1>1. now' = now \/ (Clock /\ Moves)
  BY DEF Next, Moves, TickStep, List, Read, Claim, Decide, Commit, Rollback,
         CallRead, CallWrite, RunNow, CallFails, TaskEnds, FlowMoves, vars
<1>2. Clock => now' = now + 1
  BY DEF Clock
<1> QED
  BY <1>1, <1>2, Numbers

LEMMA NextTyped ==
    ASSUME SeriesTypeOK'
    PROVE  /\ \A t \in Ticks :
                 /\ tick'[t].todo \in Todos
                 /\ Busy(t)' => tick'[t].s \in Series /\ tick'[t].k \in Times
           /\ \A c \in Callers :
                 Calling(c)' => /\ edit'[c].s \in Series
                                /\ edit'[c].since \in 0 .. MaxTime
<1>1. ASSUME NEW t \in Ticks
      PROVE  /\ tick'[t].todo \in Todos
             /\ Busy(t)' => tick'[t].s \in Series /\ tick'[t].k \in Times
  <2>1. tick'[t] \in Waiting \/ tick'[t] \in AtOccurrence
        \/ tick'[t] \in AtVerdict
    BY DEF SeriesTypeOK, Waiting, AtOccurrence, AtVerdict
  <2> QED
    BY <2>1 DEF Busy, Waiting, AtOccurrence, AtVerdict
<1>2. ASSUME NEW c \in Callers, Calling(c)'
      PROVE  edit'[c].s \in Series /\ edit'[c].since \in 0 .. MaxTime
  <2>1. edit'[c] \in Calls
    BY <1>2 DEF SeriesTypeOK, Calls, Calling
  <2> QED
    BY <2>1 DEF Calls
<1> QED
  BY <1>1, <1>2

\* What a busy tick was at before, if it was busy, and what it has read, if
\* it was not.
LEMMA BusyBefore ==
    ASSUME SeriesTypeOK, NEW t \in Ticks, TickGoes(t), Busy(t)'
    PROVE  \/ /\ Busy(t)
              /\ tick'[t].s = tick[t].s /\ tick'[t].k = tick[t].k
              /\ tick'[t].seen = tick[t].seen
           \/ /\ tick'[t] \in AtOccurrence
              /\ tick'[t].pc = "read"
              /\ <<tick'[t].s, tick'[t].k>> \in tick[t].todo
              /\ tick'[t].seen = row[tick'[t].s]
              /\ tick'[t].seen.enabled
              /\ tick'[t].seen.next = tick'[t].k
<1>1. tick'[t] \notin Waiting
  BY DEF Busy, Waiting
<1>2. CASE /\ tick[t].pc = "read"
           /\ tick'[t] = [tick[t] EXCEPT !.pc = "claimed"]
  <2>1. tick[t] \in AtOccurrence
    BY <1>2, BusyTyped
  <2> QED
    BY <1>2, <2>1 DEF AtOccurrence, Busy
<1>3. CASE tick'[t] = tick[t]
  BY <1>3 DEF Busy
<1> QED
  BY <1>1, <1>2, <1>3 DEF TickGoes, Busy

LEMMA TodoPast ==
    ASSUME SeriesTypeOK, ConstantsOK, InThePast, [Next]_vars,
           NEW t \in Ticks, TickGoes(t)
    PROVE  \A w \in tick'[t].todo : w[2] <= now'
<1>1. \A w \in tick'[t].todo : w \in tick[t].todo \/ w[2] <= now
  <2>1. tick[t].pc = "read" => tick[t] \in AtOccurrence
    BY BusyTyped
  <2>2. /\ tick[t].pc = "read" /\ tick'[t] = [tick[t] EXCEPT !.pc = "claimed"]
        => tick'[t].todo = tick[t].todo
    BY <2>1 DEF AtOccurrence
  <2> QED
    BY <2>2 DEF TickGoes
<1>2. \A w \in tick'[t].todo : w[2] \in Nat /\ w[2] <= now
  <2>1. tick'[t].todo \in Todos
    BY StepTyped, NextTyped
  <2> QED
    BY <1>1, <2>1, Numbers DEF InThePast, Todos
<1> QED
  BY <1>2, ClockGoesOn, Numbers

LEMMA CommitGoes ==
    ASSUME SeriesTypeOK, ConstantsOK, InThePast, NEW o \in Ticks, Commit(o)
    PROVE  \A t \in Ticks : TickGoes(t)
BY CommitEffect DEF TickGoes

LEMMA StepPast ==
    ASSUME SeriesTypeOK, ConstantsOK, InThePast, [Next]_vars
    PROVE  InThePast'
<1>0. SeriesTypeOK' /\ now \in Nat /\ now' \in Nat /\ now <= now'
  BY StepTyped, ClockGoesOn, Numbers
<1>1. \A t \in Ticks : TickGoes(t)
  <2>1. UNCHANGED tick => \A t \in Ticks : TickGoes(t)
    BY DEF TickGoes
  <2> QED
    BY <2>1, NextIs, MovingTick, CommitGoes DEF CallWrite, RunNow
<1>2. ASSUME NEW t \in Ticks
      PROVE  \A w \in tick'[t].todo : w[2] <= now'
  BY <1>1, TodoPast
<1>3. ASSUME NEW t \in Ticks, Busy(t)'
      PROVE  tick'[t].k <= now'
  <2>1. TickGoes(t)
    BY <1>1
  <2>2. tick'[t].k <= now /\ tick'[t].k \in Nat
    <3>1. tick'[t].k \in Times
      BY <1>0, <1>3, NextTyped
    <3>2. CASE Busy(t) /\ tick'[t].k = tick[t].k
      BY <3>1, <3>2, Numbers DEF InThePast, Busy
    <3>3. CASE <<tick'[t].s, tick'[t].k>> \in tick[t].todo
      BY <3>1, <3>3, Numbers DEF InThePast
    <3> QED
      BY <1>3, <2>1, <3>2, <3>3, BusyBefore
  <2> QED
    BY <1>0, <2>2
<1>4. ASSUME NEW s \in Series, NEW k \in Times, run'[s][k] # "none"
      PROVE  k <= now'
  <2>0. k \in Nat
    BY Numbers
  <2>1. CASE run'[s][k] = run[s][k]
    BY <1>0, <1>4, <2>0, <2>1 DEF InThePast
  <2>2. CASE Moves \/ \E c \in Callers : CallWrite(c)
    <3>1. run' = run
      BY <2>2, MovesAreQuiet DEF Quiet, CallWrite
    <3> QED
      BY <2>1, <3>1
  <2>3. ASSUME NEW t \in Ticks, Commit(t) PROVE k <= now'
    <3>1. PICK status \in {"created", "skipped", "failed"} :
             run' = [run EXCEPT ![tick[t].s][tick[t].k] = status]
      BY <2>3, CommitRecords
    <3>2. CASE s = tick[t].s /\ k = tick[t].k
      BY <1>0, <2>0, <2>3, <3>2, CommitEffect
    <3>3. CASE ~(s = tick[t].s /\ k = tick[t].k)
      BY <2>1, <3>1, <3>3, Typed, Numbers DEF Runs
    <3> QED
      BY <3>2, <3>3
  <2>4. ASSUME NEW c \in Callers, RunNow(c) PROVE k <= now'
    <3>1. run' = [run EXCEPT ![edit[c].s][ByHand] = "created"] /\ k # ByHand
      BY <2>4, Numbers DEF RunNow
    <3> QED
      BY <2>1, <3>1, Typed, Numbers DEF Runs
  <2> QED
    BY <2>2, <2>3, <2>4, NextIs
<1>5. ASSUME NEW c \in Callers, Calling(c)'
      PROVE  edit'[c].since <= now'
  <2>1. CallGoes(c)
    <3>1. UNCHANGED edit => CallGoes(c)
      BY DEF CallGoes
    <3>2. ASSUME NEW d \in Callers, edit' = [edit EXCEPT ![d] = NoCall]
          PROVE  CallGoes(c)
      BY <3>2, Typed DEF CallGoes
    <3> QED
      BY <3>1, <3>2, NextIs, MovingCall, CallWriteEffect, RunNowEffect
      DEF Commit
  <2>2. edit'[c] # NoCall
    BY <1>5 DEF Calling, NoCall
  <2>3. edit'[c].since \in Nat
    BY <1>0, <1>5, NextTyped, Numbers
  <2>4. CASE edit'[c] = edit[c]
    BY <1>0, <1>5, <2>3, <2>4 DEF InThePast, Calling
  <2>5. CASE edit'[c].since = now
    BY <1>0, <2>5
  <2> QED
    BY <2>1, <2>2, <2>4, <2>5 DEF CallGoes
<1> QED
  BY <1>2, <1>3, <1>4, <1>5 DEF InThePast, Busy, Calling

LEMMA StepClaims ==
    ASSUME SeriesTypeOK, ConstantsOK, InThePast, ClaimsAreFirst, [Next]_vars
    PROVE  ClaimsAreFirst'
<1> DEFINE Has(t) == tick[t].pc \in {"claimed", "decided"}
<1>1. CASE Moves
  <2>1. run' = run
    BY <1>1, MovesAreQuiet DEF Quiet
  <2>2. ASSUME NEW t \in Ticks, Has(t)'
        PROVE  /\ tick'[t].s = tick[t].s /\ tick'[t].k = tick[t].k
               /\ Has(t) \/ /\ ~Claimed(tick[t].s, tick[t].k)
                            /\ run[tick[t].s][tick[t].k] = "none"
                            /\ tick'[t] # tick[t]
    <3>1. TickGoes(t)
      BY <1>1, MovingTick
    <3>2. tick[t].pc = "read" => tick[t] \in AtOccurrence
      BY BusyTyped
    <3>3. tick'[t] \notin Waiting
      BY <2>2 DEF Waiting
    <3> QED
      BY <2>2, <3>1, <3>2, <3>3 DEF TickGoes, AtOccurrence
  <2>3. ASSUME NEW t \in Ticks, Has(t)'
        PROVE  run'[tick'[t].s][tick'[t].k] = "none"
    BY <2>1, <2>2, <2>3 DEF ClaimsAreFirst
  <2>4. ASSUME NEW t \in Ticks, NEW o \in Ticks \ {t}, Has(t)', Has(o)'
        PROVE  <<tick'[o].s, tick'[o].k>> # <<tick'[t].s, tick'[t].k>>
    <3>1. tick'[t] = tick[t] \/ tick'[o] = tick[o]
      BY <1>1, MovingTick
    <3> QED
      BY <2>2, <2>4, <3>1 DEF ClaimsAreFirst, Claimed
  <2> QED
    BY <2>3, <2>4 DEF ClaimsAreFirst
<1>2. ASSUME NEW c \in Callers, CallWrite(c) PROVE ClaimsAreFirst'
  BY <1>2 DEF CallWrite, ClaimsAreFirst
<1>3. ASSUME NEW c \in Callers, RunNow(c) PROVE ClaimsAreFirst'
  <2>1. UNCHANGED tick /\ run' = [run EXCEPT ![edit[c].s][ByHand] = "created"]
    BY <1>3 DEF RunNow
  <2>2. ASSUME NEW t \in Ticks, Has(t)
        PROVE  run'[tick[t].s][tick[t].k] = run[tick[t].s][tick[t].k]
    <3>1. tick[t].s \in Series /\ tick[t].k \in Times
      BY <2>2, BusyTyped DEF Busy
    <3> QED
      BY <2>1, <3>1, Typed, Numbers DEF Runs
  <2> QED
    BY <2>1, <2>2 DEF ClaimsAreFirst
<1>4. ASSUME NEW c \in Ticks, Commit(c) PROVE ClaimsAreFirst'
  <2>1. PICK status \in {"created", "skipped", "failed"} :
           run' = [run EXCEPT ![tick[c].s][tick[c].k] = status]
    BY <1>4, CommitRecords
  <2>2. Has(c) /\ ~Has(c)'
    <3>1. tick'[c] \in Waiting
      BY <1>4, CommitEffect
    <3> QED
      BY <1>4, <3>1 DEF Commit, Waiting
  <2>3. \A o \in Ticks \ {c} : tick'[o] = tick[o]
    BY <1>4, CommitEffect
  <2>4. ASSUME NEW t \in Ticks, Has(t), t # c
        PROVE  run'[tick[t].s][tick[t].k] = run[tick[t].s][tick[t].k]
    <3>1. tick[t].s \in Series /\ tick[t].k \in Times
      BY <2>4, BusyTyped DEF Busy
    <3>2. ~(tick[t].s = tick[c].s /\ tick[t].k = tick[c].k)
      BY <2>2, <2>4 DEF ClaimsAreFirst
    <3> QED
      BY <2>1, <3>1, <3>2, Typed, Numbers DEF Runs
  <2> QED
    BY <2>2, <2>3, <2>4 DEF ClaimsAreFirst
<1> QED
  BY <1>1, <1>2, <1>3, <1>4, NextIs

LEMMA StepRecorded ==
    ASSUME SeriesTypeOK, ConstantsOK, InThePast, ClaimsAreFirst,
           OneTaskPerOccurrence, [Next]_vars
    PROVE  OneTaskPerOccurrence'
<1>0. run \in [Series -> Runs] /\ made \in [Series -> SUBSET Occurrences]
  BY Typed
<1>1. CASE Moves \/ \E c \in Callers : CallWrite(c)
  <2>1. UNCHANGED <<run, made>>
    BY <1>1, MovesAreQuiet DEF Quiet, CallWrite
  <2> QED
    BY <2>1 DEF OneTaskPerOccurrence
<1>2. ASSUME NEW s \in Series, NEW k \in Occurrences, run[s][k] = "none",
             NEW status \in {"created", "skipped", "failed"},
             run' = [run EXCEPT ![s][k] = status],
             IF status = "created"
             THEN made' = [made EXCEPT ![s] = made[s] \cup {k}]
             ELSE UNCHANGED made
      PROVE  OneTaskPerOccurrence'
  <2>1. k \notin made[s]
    BY <1>2 DEF OneTaskPerOccurrence
  <2>2. ASSUME NEW r \in Series, NEW j \in Occurrences
        PROVE  run'[r][j] = "created" <=> j \in made'[r]
    <3>1. CASE r = s /\ j = k
      BY <1>0, <1>2, <2>1, <3>1 DEF Runs
    <3>2. CASE ~(r = s /\ j = k)
      <4>1. run'[r][j] = run[r][j]
        BY <1>0, <1>2, <3>2 DEF Runs
      <4>2. j \in made'[r] <=> j \in made[r]
        BY <1>0, <1>2, <3>2
      <4> QED
        BY <4>1, <4>2 DEF OneTaskPerOccurrence
    <3> QED
      BY <3>1, <3>2
  <2> QED
    BY <2>2 DEF OneTaskPerOccurrence
<1>3. ASSUME NEW c \in Callers, RunNow(c) PROVE OneTaskPerOccurrence'
  <2>1. /\ edit[c].s \in Series /\ ByHand \in Occurrences
        /\ run[edit[c].s][ByHand] = "none"
        /\ run' = [run EXCEPT ![edit[c].s][ByHand] = "created"]
        /\ made' = [made EXCEPT ![edit[c].s] = made[edit[c].s] \cup {ByHand}]
    BY <1>3, RunNowEffect, Numbers DEF RunNow
  <2> QED
    BY <1>2, <2>1
<1>4. ASSUME NEW t \in Ticks, Commit(t) PROVE OneTaskPerOccurrence'
  <2>1. /\ tick[t].s \in Series /\ tick[t].k \in Occurrences
        /\ run[tick[t].s][tick[t].k] = "none"
    BY <1>4, CommitEffect, Numbers DEF Commit, ClaimsAreFirst
  <2> QED
    BY <1>2, <1>4, <2>1, CommitRecords
<1> QED
  BY <1>1, <1>3, <1>4, NextIs

\* A step that is not quiet: who writes is done, and nothing else moves
\* but the series.
OneWrites(w, s) ==
    /\ s \in Series /\ Rewritten(w, s)
    /\ \A t \in Ticks : \/ t # w /\ tick'[t] = tick[t]
                        \/ tick'[t] \in Waiting
    /\ \A c \in Callers : \/ c # w /\ edit'[c] = edit[c]
                          \/ edit'[c] = NoCall
    /\ \A o \in Series \ {s} : run'[o] = run[o] /\ open'[o] = open[o]

LEMMA CommitWrites ==
    ASSUME SeriesTypeOK, ConstantsOK, InThePast, NEW t \in Ticks, Commit(t)
    PROVE  OneWrites(t, tick[t].s)
<1>1. UNCHANGED edit /\ t \notin Callers
  BY DEF Commit, ConstantsOK
<1>2. \A o \in Series \ {tick[t].s} : run'[o] = run[o] /\ open'[o] = open[o]
  BY CommitRecords, Typed
<1> QED
  BY <1>1, <1>2, CommitEffect DEF OneWrites

LEMMA CallWrites ==
    ASSUME SeriesTypeOK, ConstantsOK, NEW c \in Callers,
           CallWrite(c) \/ RunNow(c)
    PROVE  OneWrites(c, edit[c].s)
<1>1. UNCHANGED tick /\ c \notin Ticks
  BY DEF CallWrite, RunNow, ConstantsOK
<1>2. \A o \in Series \ {edit[c].s} : run'[o] = run[o] /\ open'[o] = open[o]
  BY Typed DEF CallWrite, RunNow
<1>3. /\ edit[c].s \in Series /\ Rewritten(c, edit[c].s)
      /\ edit' = [edit EXCEPT ![c] = NoCall]
  BY CallWriteEffect, RunNowEffect
<1>4. \A d \in Callers : \/ d # c /\ edit'[d] = edit[d]
                        \/ edit'[d] = NoCall
  BY <1>3, Typed
<1> QED
  BY <1>1, <1>2, <1>3, <1>4 DEF OneWrites

LEMMA OverwritingIsSeen ==
    ASSUME NEW w, NEW s \in Series, Rewritten(w, s)
    PROVE  /\ \A t \in Ticks \ {w} :
                 t \notin stale' /\ Busy(t) => t \notin stale /\ tick[t].s # s
           /\ \A c \in Callers \ {w} :
                 c \notin stale' /\ Calling(c)
                    => c \notin stale /\ edit[c].s # s
BY DEF Rewritten, Readers, Busy, Calling

LEMMA StepFresh ==
    ASSUME SeriesTypeOK, ConstantsOK, InThePast, ReadingsFresh, [Next]_vars
    PROVE  ReadingsFresh'
<1>1. CASE Moves
  <2>1. Quiet
    BY <1>1, MovesAreQuiet
  <2>2. ASSUME NEW t \in Ticks, t \notin stale', Busy(t)'
        PROVE  /\ row'[tick'[t].s] = tick'[t].seen
               /\ tick'[t].seen.enabled /\ tick'[t].seen.next = tick'[t].k
    <3>1. t \notin stale
      BY <2>1, <2>2 DEF Quiet, LetGo
    <3>2. TickGoes(t) /\ row' = row
      BY <1>1, <2>1, MovingTick DEF Quiet
    <3>3. CASE /\ Busy(t) /\ tick'[t].s = tick[t].s /\ tick'[t].k = tick[t].k
               /\ tick'[t].seen = tick[t].seen
      BY <3>1, <3>2, <3>3 DEF ReadingsFresh, Busy
    <3> QED
      BY <2>2, <3>2, <3>3, BusyBefore
  <2>3. ASSUME NEW c \in Callers, c \notin stale', Calling(c)'
        PROVE  /\ row'[edit'[c].s] = edit'[c].seen
               /\ \A k \in Recorded(edit[c].s)' : k <= edit'[c].since
    <3>1. c \notin stale
      BY <2>1, <2>3 DEF Quiet, LetGo
    <3>2. CallGoes(c) /\ edit'[c] # NoCall /\ row' = row /\ run' = run
      BY <1>1, <2>1, <2>3, MovingCall DEF Quiet, Calling, NoCall
    <3>3. CASE edit'[c] = edit[c]
      BY <2>3, <3>1, <3>2, <3>3 DEF ReadingsFresh, Calling, Recorded
    <3>4. CASE /\ edit'[c] \in Calls /\ edit'[c].seen = row[edit'[c].s]
               /\ edit'[c].since = now
      <4>1. edit'[c].s \in Series
        BY <3>4 DEF Calls
      <4> QED
        BY <3>2, <3>4, <4>1 DEF InThePast, Recorded
    <3> QED
      BY <3>2, <3>3, <3>4 DEF CallGoes
  <2> QED
    BY <2>2, <2>3 DEF ReadingsFresh, Busy, Calling
<1>2. ASSUME NEW w, NEW s, OneWrites(w, s) PROVE ReadingsFresh'
  <2>1. s \in Series /\ Rewritten(w, s)
    BY <1>2 DEF OneWrites
  <2>2. ASSUME NEW t \in Ticks, t \notin stale', Busy(t)'
        PROVE  /\ row'[tick'[t].s] = tick'[t].seen
               /\ tick'[t].seen.enabled /\ tick'[t].seen.next = tick'[t].k
    <3>1. t # w /\ tick'[t] = tick[t] /\ Busy(t)
      BY <1>2, <2>2 DEF OneWrites, Busy, Waiting
    <3>2. t \notin stale /\ tick[t].s # s /\ tick[t].s \in Series
      BY <2>1, <2>2, <3>1, OverwritingIsSeen, BusyTyped
    <3> QED
      BY <2>1, <3>1, <3>2 DEF Rewritten, ReadingsFresh, Busy
  <2>3. ASSUME NEW c \in Callers, c \notin stale', Calling(c)'
        PROVE  /\ row'[edit'[c].s] = edit'[c].seen
               /\ \A k \in Recorded(edit[c].s)' : k <= edit'[c].since
    <3>1. c # w /\ edit'[c] = edit[c] /\ Calling(c)
      BY <1>2, <2>3 DEF OneWrites, Calling, NoCall
    <3>2. c \notin stale /\ edit[c].s # s /\ edit[c].s \in Series
      BY <2>1, <2>3, <3>1, OverwritingIsSeen, CallTyped
    <3>3. /\ row'[edit[c].s] = row[edit[c].s]
          /\ run'[edit[c].s] = run[edit[c].s]
      BY <1>2, <2>1, <3>2 DEF Rewritten, OneWrites
    <3> QED
      BY <3>1, <3>2, <3>3 DEF ReadingsFresh, Calling, Recorded
  <2> QED
    BY <2>2, <2>3 DEF ReadingsFresh, Busy, Calling
<1> QED
  BY <1>1, <1>2, NextIs, CommitWrites, CallWrites

LEMMA StepBehind ==
    ASSUME SeriesTypeOK, ConstantsOK, InThePast, ReadingsFresh, RecordIsBehind,
           [Next]_vars
    PROVE  RecordIsBehind'
<1> SUFFICES ASSUME ~overtaken', NEW r \in Series, row'[r].enabled
             PROVE  /\ row'[r].next # Never
                    /\ \A k \in Recorded(r)' : k < row'[r].next
  BY DEF RecordIsBehind
<1>1. CASE Moves
  <2>1. UNCHANGED <<row, run, overtaken>>
    BY <1>1, MovesAreQuiet DEF Quiet
  <2> QED
    BY <2>1 DEF RecordIsBehind, Recorded
<1>2. ASSUME NEW w, NEW s, OneWrites(w, s), r # s
      PROVE  /\ row'[r].next # Never
             /\ \A k \in Recorded(r)' : k < row'[r].next
  <2>1. row'[r] = row[r] /\ run'[r] = run[r] /\ ~overtaken
    BY <1>2 DEF OneWrites, Rewritten
  <2> QED
    BY <2>1 DEF RecordIsBehind, Recorded
<1>3. ASSUME NEW t \in Ticks, Commit(t), r = tick[t].s
      PROVE  /\ row'[r].next # Never
             /\ \A k \in Recorded(r)' : k < row'[r].next
  <2>1. /\ tick[t].k \in Times /\ tick[t].k \in 0 .. now
        /\ row[r].enabled /\ row'[r].next = tick[t].k + 1
        /\ t \notin stale /\ ~overtaken
    BY <1>3, CommitEffect DEF Rewritten
  <2>2. row[r].next = tick[t].k
    BY <1>3, <2>1 DEF Commit, ReadingsFresh
  <2>3. \A k \in Recorded(r) : k < tick[t].k
    BY <2>1, <2>2 DEF RecordIsBehind
  <2>4. \A k \in Recorded(r)' : k \in Recorded(r) \/ k = tick[t].k
    <3>1. PICK status \in {"created", "skipped", "failed"} :
             run' = [run EXCEPT ![r][tick[t].k] = status]
      BY <1>3, CommitRecords
    <3>2. \A k \in Times \ {tick[t].k} : run'[r][k] = run[r][k]
      BY <3>1, Typed, Numbers DEF Runs
    <3> QED
      BY <3>2 DEF Recorded
  <2>5. tick[t].k + 1 \in Times
    BY <2>1, Typed DEF Times, ConstantsOK
  <2>6. Recorded(r)' \subseteq Nat /\ tick[t].k \in Nat
    BY <2>1, Numbers DEF Recorded
  <2> QED
    BY <2>1, <2>3, <2>4, <2>5, <2>6, Numbers
<1>4. ASSUME NEW c \in Callers, CallWrite(c) \/ RunNow(c), r = edit[c].s
      PROVE  /\ row'[r].next # Never
             /\ \A k \in Recorded(r)' : k < row'[r].next
  <2>1. Calling(c) /\ c \notin stale /\ Rewritten(c, r)
    BY <1>4, CallWriteEffect, RunNowEffect DEF Rewritten
  <2>2. /\ edit[c].since \in Nat /\ edit[c].since <= now
        /\ row[r] = edit[c].seen
        /\ \A k \in Recorded(r) : k <= edit[c].since
    BY <1>4, <2>1, CallTyped, Numbers DEF InThePast, ReadingsFresh, Calling
  <2>3. Recorded(r)' \subseteq Recorded(r)
    <3>0. run' = run \/ run' = [run EXCEPT ![r][ByHand] = "created"]
      BY <1>4 DEF CallWrite, RunNow
    <3>1. \A k \in Times : run'[r][k] = run[r][k]
      BY <3>0, Typed, Numbers DEF Runs
    <3> QED
      BY <3>1 DEF Recorded
  <2>4. row'[r].next \in Times /\ row'[r].next > edit[c].since
    <3>1. CASE CallWrite(c)
      BY <1>4, <3>1, CallWriteEffect
    <3>2. CASE RunNow(c)
      <4>1. row'[r].next = now + 1
        BY <1>4, <2>2, <3>2, RunNowEffect
      <4>2. now + 1 \in Times
        BY Typed DEF Times, ConstantsOK
      <4> QED
        BY <2>2, <4>1, <4>2, Numbers
    <3> QED
      BY <1>4, <3>1, <3>2
  <2>5. Recorded(r) \subseteq Nat /\ row'[r].next \in Nat
    BY <2>4, Numbers DEF Recorded
  <2> QED
    BY <2>2, <2>3, <2>4, <2>5, Numbers
<1> QED
  BY <1>1, <1>2, <1>3, <1>4, NextIs, CommitWrites, CallWrites

LEMMA StepRoom ==
    ASSUME SeriesTypeOK, ConstantsOK, InThePast, ReadingsFresh, RoomForTask,
           [Next]_vars
    PROVE  RoomForTask'
<1> DEFINE Few(s) == \A j, k \in open[s] \ {ByHand} : j = k
           Makes(t) == /\ tick[t].pc = "decided" /\ tick[t].verdict = "create"
                       /\ tick[t].seen.policy = "skip_if_active"
<1>1. CASE Moves
  <2>1. Quiet
    BY <1>1, MovesAreQuiet
  <2>2. ASSUME ~overtaken', NEW s \in Series,
               row'[s].policy = "skip_if_active"
        PROVE  \A j, k \in open'[s] \ {ByHand} : j = k
    <3>1. Few(s) /\ open'[s] \subseteq open[s]
      BY <2>1, <2>2 DEF RoomForTask, Quiet
    <3> QED
      BY <3>1
  <2>3. ASSUME NEW t \in Ticks, t \notin stale', Makes(t)'
        PROVE  open'[tick'[t].s] = {}
    <3>1. t \notin stale
      BY <2>1, <2>3 DEF Quiet, LetGo, Busy
    <3>2. TickGoes(t)
      BY <1>1, MovingTick
    <3>3. tick'[t] \notin Waiting /\ tick'[t] \notin AtOccurrence
      BY <2>3 DEF Waiting, AtOccurrence
    <3>4. open[tick[t].s] = {} /\ tick'[t].s = tick[t].s
      BY <2>3, <3>1, <3>2, <3>3 DEF TickGoes, RoomForTask
    <3>5. tick[t].s \in Series
      <4>1. Busy(t)
        BY <2>3, <3>2, <3>3 DEF TickGoes, Busy
      <4> QED
        BY <4>1, BusyTyped
    <3> QED
      BY <2>1, <3>4, <3>5 DEF Quiet
  <2> QED
    BY <2>2, <2>3 DEF RoomForTask
<1>2. ASSUME NEW w, NEW s, OneWrites(w, s)
      PROVE  /\ \A t \in Ticks \ stale' :
                   Makes(t)' => open'[tick'[t].s] = {}
             /\ \A r \in Series \ {s} :
                   ~overtaken' /\ row'[r].policy = "skip_if_active"
                      => \A j, k \in open'[r] \ {ByHand} : j = k
  <2>1. s \in Series /\ Rewritten(w, s)
    BY <1>2 DEF OneWrites
  <2>2. ASSUME NEW t \in Ticks, t \notin stale', Makes(t)'
        PROVE  open'[tick'[t].s] = {}
    <3>1. t # w /\ tick'[t] = tick[t] /\ Busy(t)
      BY <1>2, <2>2 DEF OneWrites, Busy, Waiting
    <3>2. t \notin stale /\ tick[t].s # s /\ tick[t].s \in Series
      BY <2>1, <2>2, <3>1, OverwritingIsSeen, BusyTyped
    <3> QED
      BY <1>2, <2>2, <3>1, <3>2 DEF OneWrites, RoomForTask
  <2>3. ASSUME NEW r \in Series \ {s}, ~overtaken',
               row'[r].policy = "skip_if_active"
        PROVE  \A j, k \in open'[r] \ {ByHand} : j = k
    <3>1. /\ row'[r] = row[r] /\ open'[r] = open[r] /\ ~overtaken
      BY <1>2, <2>1, <2>3 DEF OneWrites, Rewritten
    <3>2. \A j, k \in open[r] \ {ByHand} : j = k
      BY <2>3, <3>1 DEF RoomForTask
    <3> QED
      BY <3>1, <3>2
  <2> QED
    BY <2>2, <2>3
<1>3. ASSUME NEW t \in Ticks, Commit(t), ~overtaken',
             row'[tick[t].s].policy = "skip_if_active"
      PROVE  \A j, k \in open'[tick[t].s] \ {ByHand} : j = k
  <2> DEFINE s == tick[t].s
  <2>1. /\ s \in Series /\ ~overtaken /\ t \notin stale
        /\ row[s].policy = "skip_if_active"
    BY <1>3, CommitEffect DEF Rewritten
  <2>2. Few(s)
    BY <2>1 DEF RoomForTask
  <2>3. tick[t].seen.policy = "skip_if_active" /\ tick[t].pc = "decided"
    BY <1>3, <2>1 DEF Commit, ReadingsFresh
  <2>4. CASE UNCHANGED open
    BY <2>2, <2>4
  <2>5. CASE /\ tick[t].verdict = "create"
             /\ open' = [open EXCEPT ![s] = open[s] \cup {tick[t].k}]
    <3>1. open[s] = {}
      BY <2>1, <2>3, <2>5 DEF RoomForTask
    <3>2. open'[s] = {tick[t].k}
      BY <2>1, <2>5, <3>1, Typed
    <3> QED
      BY <3>2
  <2> QED
    BY <1>3, <2>4, <2>5, CommitRecords
<1>4. ASSUME NEW c \in Callers, CallWrite(c) \/ RunNow(c), ~overtaken',
             row'[edit[c].s].policy = "skip_if_active"
      PROVE  \A j, k \in open'[edit[c].s] \ {ByHand} : j = k
  <2> DEFINE s == edit[c].s
  <2>1. /\ s \in Series /\ ~overtaken /\ row[s].policy = "skip_if_active"
    BY <1>4, CallWriteEffect, RunNowEffect DEF Rewritten
  <2>2. Few(s)
    BY <2>1 DEF RoomForTask
  <2>3. open'[s] \subseteq open[s] \cup {ByHand}
    BY <1>4, <2>1, Typed DEF CallWrite, RunNow
  <2> QED
    BY <2>2, <2>3
<1>5. ASSUME NEW w, NEW s, OneWrites(w, s),
             ~overtaken' /\ row'[s].policy = "skip_if_active"
                => \A j, k \in open'[s] \ {ByHand} : j = k
      PROVE  RoomForTask'
  BY <1>2, <1>5 DEF RoomForTask
<1> HIDE DEF Few, Makes
<1>6. ASSUME NEW t \in Ticks, Commit(t) PROVE RoomForTask'
  BY <1>3, <1>5, <1>6, CommitWrites
<1>7. ASSUME NEW c \in Callers, CallWrite(c) \/ RunNow(c) PROVE RoomForTask'
  BY <1>4, <1>5, <1>7, CallWrites
<1> QED
  BY <1>1, <1>6, <1>7, NextIs

---------------------------------------------------------------------------
(* The theorems                                                             *)

IInv == /\ SeriesTypeOK /\ InThePast
        /\ ClaimsAreFirst /\ OneTaskPerOccurrence
        /\ ReadingsFresh /\ RecordIsBehind /\ RoomForTask

LEMMA InitInv ==
    ASSUME ConstantsOK, Init
    PROVE  IInv
<1>1. 1 \in Times /\ 0 \in 0 .. MaxTime
  BY DEF ConstantsOK, Times
<1>2. {} \in Todos
  BY DEF Todos
<1>3. row \in [Series -> Rows]
  BY DEF Init, NewRows
<1>4. SeriesTypeOK
  <2>1. /\ now \in 0 .. MaxTime /\ calls \in 0 .. MaxCalls
        /\ faults \in 0 .. MaxFaults
    BY DEF Init, ConstantsOK
  <2>2. /\ flow \in [Series -> {"active", "paused", "closed"}]
        /\ run \in [Series -> Runs]
        /\ made \in [Series -> SUBSET Occurrences]
        /\ open \in [Series -> SUBSET Occurrences]
    BY DEF Init, Runs
  <2>3. tick \in [Ticks -> Waiting]
    BY <1>2 DEF Init, Idle, Waiting
  <2>4. edit \in [Callers -> [op : {"none"}]]
    BY DEF Init
  <2>5. stale \subseteq Ticks \cup Callers /\ overtaken \in BOOLEAN
    BY DEF Init
  <2> QED
    BY <1>3, <2>1, <2>2, <2>3, <2>4, <2>5 DEF SeriesTypeOK, Runs, Waiting
<1>5. \A s \in Series : Recorded(s) = {}
  BY DEF Init, Recorded, Occurrences
<1>6. /\ InThePast /\ ClaimsAreFirst /\ OneTaskPerOccurrence
      /\ ReadingsFresh /\ RoomForTask
  BY DEF Init, InThePast, ClaimsAreFirst, OneTaskPerOccurrence,
         ReadingsFresh, RoomForTask, Idle, Occurrences
<1>7. RecordIsBehind
  <2>1. \A s \in Series : row[s].enabled => row[s].next = 1
    BY DEF Init, NewRows
  <2>2. 1 # Never
    BY <1>1, <1>4, Numbers
  <2> QED
    BY <1>5, <2>1, <2>2 DEF RecordIsBehind
<1> QED
  BY <1>4, <1>6, <1>7 DEF IInv

LEMMA StepInv ==
    ASSUME ConstantsOK, IInv, [Next]_vars
    PROVE  IInv'
BY StepTyped, StepPast, StepClaims, StepRecorded, StepFresh, StepBehind,
   StepRoom DEF IInv

LEMMA Invariant ==
    ASSUME ConstantsOK
    PROVE  Spec => []IInv
<1>1. Init => IInv
  BY InitInv
<1>2. IInv /\ [Next]_vars => IInv'
  BY StepInv
<1> QED
  BY <1>1, <1>2, PTL DEF Spec

\* Series, ticks and calls keep to the states their code knows; a series is
\* never set to a time that is not on the clock.
THEOREM SeriesTypes ==
    ASSUME ConstantsOK
    PROVE  Spec => []SeriesTypeOK
<1>1. IInv => SeriesTypeOK
  BY DEF IInv
<1> QED
  BY <1>1, Invariant, PTL

\* However many ticks run at once, an occurrence has at most one task, and
\* it has one if and only if the run on record says so.
THEOREM OneTaskEach ==
    ASSUME ConstantsOK
    PROVE  Spec => []OneTaskPerOccurrence
<1>1. IInv => OneTaskPerOccurrence
  BY DEF IInv
<1> QED
  BY <1>1, Invariant, PTL

\* The scheduler keeps to skip_if_active: as long as no writer has overtaken
\* another it has at most one task open.
THEOREM OneActive ==
    ASSUME ConstantsOK
    PROVE  Spec => []OneActiveTask
<1>1. ASSUME IInv PROVE OneActiveTask
  <2> SUFFICES ASSUME NEW s \in Series, row[s].policy = "skip_if_active",
                      ~overtaken
               PROVE  Cardinality(open[s] \ {ByHand}) <= 1
    BY DEF OneActiveTask
  <2> DEFINE tasks == open[s] \ {ByHand}
  <2>1. \A j, k \in tasks : j = k
    BY <1>1 DEF IInv, RoomForTask
  <2> HIDE DEF tasks
  <2>2. CASE tasks = {}
    BY <2>2, FS_EmptySet DEF tasks
  <2>3. CASE tasks # {}
    <3>1. PICK k : tasks = {k}
      BY <2>1, <2>3
    <3> QED
      BY <3>1, FS_Singleton DEF tasks
  <2> QED
    BY <2>2, <2>3
<1> QED
  BY <1>1, Invariant, PTL

\* An enabled series waits for an occurrence that is not on record yet, as
\* long as no writer has overtaken another.
THEOREM NextStaysAhead ==
    ASSUME ConstantsOK
    PROVE  Spec => []NextIsAhead
<1>1. ASSUME IInv PROVE NextIsAhead
  <2> SUFFICES ASSUME NEW s \in Series, row[s].enabled, ~overtaken
               PROVE  row[s].next # Never /\ run[s][row[s].next] = "none"
    BY DEF NextIsAhead
  <2>1. /\ row[s].next # Never
        /\ \A k \in Recorded(s) : k < row[s].next
    BY <1>1 DEF IInv, RecordIsBehind
  <2>2. row[s].next \in Times
    BY <1>1, <2>1, Typed DEF IInv, Rows
  <2>3. row[s].next \in Nat
    BY <1>1, <2>2 DEF Times
  <2>4. row[s].next \notin Recorded(s)
    BY <2>1, <2>3
  <2> QED
    BY <2>1, <2>2, <2>4 DEF Recorded
<1> QED
  BY <1>1, Invariant, PTL
=============================================================================
