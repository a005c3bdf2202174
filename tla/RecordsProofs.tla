---------------------------- MODULE RecordsProofs ----------------------------
(* Theorems about TaskRecords, for any tasks, histories and roots, about     *)
(* WorkerPresence, for any tasks, threshold and bounds, and about Records,   *)
(* in which the two are checked together.                                    *)
EXTENDS Records, TLAPS

-----------------------------------------------------------------------------
(* Tasks and workflows.                                                      *)
(* What a history is: the clock is even when something happens, so that a    *)
(* result's odd time tells it from every event.                              *)
Row == [state : State, last : Nat, observed : BOOLEAN, rooted : BOOLEAN, workflow : Task]

Current(t) == History[t][progress[t]]

Shape ==
    /\ clock \in Nat /\ clock % 2 = 0
    /\ progress \in [Task -> Nat]
    /\ since \in [Task -> Nat]
    /\ applied \subseteq emitted
    /\ reading \in [Task -> [status : State, date : Nat] \cup {NoMeta}]
    /\ seen \in [Task -> [status : State, date : Nat] \cup {NoMeta}]
    /\ rows \in [Task -> Row \cup {NoRow}]

HistoryInv(t) ==
    /\ progress[t] <= Len(History[t])
    /\ since[t] <= clock /\ since[t] % 2 = 0
    /\ progress[t] > 0 => since[t] > 0

(* An event tells what was the state at its time.                            *)
EventInv(e) ==
    /\ e.task \in Task /\ e.state \in State /\ e.ts \in Nat
    /\ 0 < e.ts /\ e.ts <= since[e.task] /\ e.ts % 2 = 0
    /\ e.ts = since[e.task] => progress[e.task] > 0 /\ e.state = Current(e.task)

(* Metadata with a date tells an outcome, which was stored at that time.     *)
MetaInv(t, m) ==
    IF m.date = 0 THEN m.status \notin Terminal
    ELSE /\ m.status \in Terminal
         /\ m.date < since[t] /\ m.date % 2 = 1
         /\ m.date = since[t] - 1 => progress[t] > 0 /\ m.status = Current(t)

(* A row that the monitor merely observed holds no outcome; any other is     *)
(* dated by its evidence.                                                    *)
RowInv(t, r) ==
    /\ r.observed => r.state \notin Terminal
    /\ ~r.observed => r.last <= since[t]
    /\ r.last <= clock
    /\ r.last % 2 = 1 =>
        /\ ~r.observed /\ r.state \in Terminal /\ r.last < since[t]
        /\ r.last = since[t] - 1 => progress[t] > 0 /\ r.state = Current(t)
        /\ reading[t].date = r.last => reading[t].status = r.state
    /\ Over(t) /\ ~r.observed /\ r.last >= since[t] - 1 => r.state = Outcome(t)

(* The outcome is known: by its event or by the metadata polled.             *)
Known(t) ==
    /\ Over(t)
    /\ \/ \E e \in applied : e.task = t /\ e.ts = since[t]
       \/ seen[t].date > 0 /\ seen[t].date = since[t] - 1

KnownInv(t) ==
    Known(t) => Exists(rows[t]) /\ ~rows[t].observed /\ rows[t].last >= since[t] - 1

RecordsInv ==
    /\ Shape
    /\ \A e \in emitted : EventInv(e)
    /\ \A t \in Task :
        /\ HistoryInv(t)
        /\ MetaInv(t, reading[t]) /\ MetaInv(t, seen[t])
        /\ RowInv(t, rows[t])
        /\ KnownInv(t)

-----------------------------------------------------------------------------
LEMMA HistoryFacts ==
    ASSUME NEW t \in Task
    PROVE  /\ Len(History[t]) \in Nat /\ Len(History[t]) > 0
           /\ \A n \in Nat : 0 < n /\ n <= Len(History[t]) => History[t][n] \in State
           /\ Outcome(t) \in Terminal
<1>1. History[t] \in Seq(State) /\ History[t] # <<>> /\ Outcome(t) \in Terminal
  BY TaskRecordsAssumption DEF Outcome
<1> QED BY <1>1

LEMMA MetaTyped ==
    ASSUME NEW m \in [status : State, date : Nat] \cup {NoMeta}
    PROVE  m.date \in Nat
<1>1. CASE m \in [status : State, date : Nat]
  BY <1>1
<1>2. CASE m = NoMeta
  BY <1>2 DEF NoMeta
<1> QED BY <1>1, <1>2

LEMMA RowTyped ==
    ASSUME NEW r \in Row \cup {NoRow}
    PROVE  r.last \in Nat /\ r.observed \in BOOLEAN /\ r.rooted \in BOOLEAN
<1>1. CASE r \in Row
  BY <1>1 DEF Row
<1>2. CASE r = NoRow
  BY <1>2 DEF NoRow
<1> QED BY <1>1, <1>2

LEMMA InitRecordsInv == RecordsInit => RecordsInv
<1> SUFFICES ASSUME RecordsInit PROVE RecordsInv
  OBVIOUS
<1>1. Shape
  BY DEF RecordsInit, Shape
<1>2. ASSUME NEW t \in Task
      PROVE  /\ HistoryInv(t) /\ MetaInv(t, reading[t]) /\ MetaInv(t, seen[t])
             /\ RowInv(t, rows[t]) /\ KnownInv(t)
  BY HistoryFacts DEF RecordsInit, HistoryInv, MetaInv, RowInv, KnownInv, Known, Over, NoMeta, NoRow,
     None, Terminal
<1> QED BY <1>1, <1>2 DEF RecordsInit, RecordsInv

(* A task goes on: whatever is recorded of it is older than its new state.   *)
LEMMA HappenKeeps ==
    ASSUME RecordsInv, NEW t \in Task, Happen(t)
    PROVE  RecordsInv'
<1>1. /\ clock' = clock + 2 /\ progress[t] < Len(History[t])
      /\ progress' = [progress EXCEPT ![t] = @ + 1]
      /\ since' = [since EXCEPT ![t] = clock']
      /\ emitted' \in {emitted, emitted \cup
                {[task |-> t, state |-> History[t][progress'[t]], ts |-> clock']}}
      /\ UNCHANGED <<applied, reading, seen, rows>>
  BY DEF Happen, tableVars
<1>2. Shape'
  BY <1>1 DEF RecordsInv, Shape
<1>3. progress'[t] = progress[t] + 1 /\ since'[t] = clock + 2 /\ Current(t)' = History[t][progress'[t]]
  BY <1>1 DEF RecordsInv, Shape, Current
<1>4. \A u \in Task \ {t} : progress'[u] = progress[u] /\ since'[u] = since[u] /\ Current(u)' = Current(u)
  BY <1>1 DEF RecordsInv, Shape, Current
<1>5. ASSUME NEW e \in emitted'
      PROVE  EventInv(e)'
  <2>1. CASE e \in emitted
    BY <1>1, <1>3, <1>4, <2>1 DEF RecordsInv, Shape, EventInv, HistoryInv
  <2>2. CASE e = [task |-> t, state |-> History[t][progress'[t]], ts |-> clock']
    <3>1. History[t][progress'[t]] \in State
      <4>1. progress'[t] \in Nat /\ 0 < progress'[t] /\ progress'[t] <= Len(History[t])
        BY <1>1, <1>3, HistoryFacts DEF RecordsInv, Shape
      <4> QED BY <4>1, HistoryFacts
    <3>2. clock \in Nat /\ clock % 2 = 0 /\ progress[t] \in Nat
      BY DEF RecordsInv, Shape
    <3>3. e.task = t /\ e.state = Current(t)' /\ e.ts = clock + 2
      BY <1>1, <1>3, <2>2
    <3>4. /\ e.task \in Task /\ e.state \in State /\ e.ts \in Nat
          /\ 0 < e.ts /\ e.ts <= since'[e.task] /\ e.ts % 2 = 0
      BY <1>3, <3>1, <3>2, <3>3
    <3>5. progress'[e.task] > 0 /\ e.state = History[e.task][progress'[e.task]]
      BY <1>3, <3>2, <3>3
    <3> QED BY <3>4, <3>5 DEF EventInv, Current
  <2> QED BY <1>1, <2>1, <2>2
<1>6. ASSUME NEW u \in Task
      PROVE  (/\ HistoryInv(u) /\ MetaInv(u, reading[u]) /\ MetaInv(u, seen[u])
              /\ RowInv(u, rows[u]) /\ KnownInv(u))'
  <2>1. CASE u # t
    <3>1. progress'[u] = progress[u] /\ since'[u] = since[u] /\ Current(u)' = Current(u)
      BY <1>4, <2>1
    <3>2. since[u] \in Nat /\ clock \in Nat /\ rows[u].last \in Nat
      BY DEF RecordsInv, Shape, Row, NoRow
    <3>3. HistoryInv(u)'
      BY <1>1, <3>1, <3>2, SMTT(30) DEF RecordsInv, HistoryInv
    <3>4. MetaInv(u, reading[u])' /\ MetaInv(u, seen[u])'
      BY <1>1, <3>1 DEF RecordsInv, MetaInv
    <3>5. RowInv(u, rows[u])'
      BY <1>1, <3>1, <3>2 DEF RecordsInv, RowInv, Over
    <3>6. KnownInv(u)'
      BY <1>1, <3>1 DEF RecordsInv, KnownInv, Known, Over
    <3> QED BY <3>3, <3>4, <3>5, <3>6
  <2>2. CASE u = t
    <3>1. /\ clock \in Nat /\ clock % 2 = 0 /\ since[t] \in Nat /\ since[t] <= clock
          /\ progress[t] \in Nat
      BY DEF RecordsInv, Shape, HistoryInv
    <3>2. HistoryInv(t)'
      BY <1>1, <1>3, <3>1, HistoryFacts DEF HistoryInv
    <3>3. ASSUME NEW m, m.date \in Nat, MetaInv(t, m)
          PROVE  MetaInv(t, m)' /\ m.date < clock + 1
      BY <1>3, <3>1, <3>3 DEF MetaInv
    <3>4. /\ reading[t].date \in Nat /\ seen[t].date \in Nat
          /\ rows[t].last \in Nat /\ rows[t].observed \in BOOLEAN
      BY MetaTyped, RowTyped DEF RecordsInv, Shape
    <3>5. MetaInv(t, reading[t])' /\ MetaInv(t, seen[t])' /\ seen[t].date < clock + 1
      BY <1>1, <3>3, <3>4 DEF RecordsInv
    <3>6. RowInv(t, rows[t])'
      <4>1. RowInv(t, rows[t])
        BY DEF RecordsInv
      <4>2. /\ since'[t] = clock + 2 /\ clock' = clock + 2
            /\ rows'[t] = rows[t] /\ reading'[t] = reading[t]
        BY <1>1, <1>3
      <4>3. rows[t].last <= clock
        BY <4>1 DEF RowInv
      <4> QED BY <3>1, <3>4, <4>1, <4>2, <4>3 DEF RowInv
    <3>7. ~Known(t)'
      <4>1. \A e \in applied : e.task = t => e.ts \in Nat /\ e.ts <= since[t]
        BY DEF RecordsInv, Shape, EventInv
      <4> QED BY <1>1, <1>3, <3>1, <3>4, <3>5, <4>1, SMTT(60) DEF Known
    <3> QED BY <2>2, <3>2, <3>5, <3>6, <3>7 DEF KnownInv
  <2> QED BY <2>1, <2>2
<1> QED BY <1>2, <1>5, <1>6 DEF RecordsInv

-----------------------------------------------------------------------------
(* A step that leaves the tasks alone and changes what the monitor has of    *)
(* one of them.                                                              *)
LEMMA OneRecord ==
    ASSUME RecordsInv, NEW t \in Task, Shape', UNCHANGED clusterVars,
           \A e \in applied' \ applied : e.task = t,
           \A u \in Task \ {t} : /\ reading'[u] = reading[u] /\ seen'[u] = seen[u]
                                 /\ rows'[u] = rows[u],
           (MetaInv(t, reading[t]) /\ MetaInv(t, seen[t]) /\ RowInv(t, rows[t]) /\ KnownInv(t))'
    PROVE  RecordsInv'
<1>1. \A e \in emitted' : EventInv(e)'
  BY DEF RecordsInv, EventInv, Current, clusterVars
<1>2. ASSUME NEW u \in Task \ {t}
      PROVE  (MetaInv(u, reading[u]) /\ MetaInv(u, seen[u]) /\ RowInv(u, rows[u]))'
  BY DEF RecordsInv, MetaInv, RowInv, Current, Over, Outcome, clusterVars
<1>3. ASSUME NEW u \in Task \ {t}
      PROVE  KnownInv(u)'
  BY DEF RecordsInv, KnownInv, Known, Over, clusterVars
<1>4. \A u \in Task : HistoryInv(u)'
  BY DEF RecordsInv, HistoryInv, clusterVars
<1> QED BY <1>1, <1>2, <1>3, <1>4 DEF RecordsInv

(* What is known of one task, in numbers.                                    *)
LEMMA TaskFacts ==
    ASSUME RecordsInv, NEW t \in Task
    PROVE  /\ clock \in Nat /\ clock % 2 = 0
           /\ since[t] \in Nat /\ since[t] <= clock /\ since[t] % 2 = 0
           /\ progress[t] \in Nat /\ progress[t] <= Len(History[t])
           /\ progress[t] > 0 => since[t] > 0 /\ Current(t) \in State
           /\ Over(t) => progress[t] > 0 /\ Current(t) = Outcome(t)
           /\ rows[t] \in Row \cup {NoRow}
           /\ rows[t].last \in Nat /\ rows[t].observed \in BOOLEAN
           /\ RowInv(t, rows[t]) /\ KnownInv(t)
           /\ reading[t] \in [status : State, date : Nat] \cup {NoMeta}
           /\ seen[t] \in [status : State, date : Nat] \cup {NoMeta}
           /\ reading[t].date \in Nat /\ seen[t].date \in Nat
           /\ MetaInv(t, reading[t]) /\ MetaInv(t, seen[t])
<1>1. /\ clock \in Nat /\ clock % 2 = 0
      /\ since[t] \in Nat /\ since[t] <= clock /\ since[t] % 2 = 0
      /\ progress[t] \in Nat /\ progress[t] <= Len(History[t])
      /\ progress[t] > 0 => since[t] > 0
  BY DEF RecordsInv, Shape, HistoryInv
<1>2. /\ progress[t] > 0 => Current(t) \in State
      /\ Over(t) => progress[t] > 0 /\ Current(t) = Outcome(t)
  BY <1>1, HistoryFacts DEF Current, Over, Outcome
<1>3. /\ reading[t] \in [status : State, date : Nat] \cup {NoMeta}
      /\ seen[t] \in [status : State, date : Nat] \cup {NoMeta}
      /\ rows[t] \in Row \cup {NoRow}
  BY DEF RecordsInv, Shape
<1> QED BY <1>1, <1>2, <1>3, MetaTyped, RowTyped DEF RecordsInv

-----------------------------------------------------------------------------
(* An event, in time or not.                                                 *)
LEMMA EventRowTyped ==
    ASSUME NEW e, e.task \in Task, e.state \in State, e.ts \in Nat, NEW r \in Row \cup {NoRow}
    PROVE  EventRow(e, r) \in Row
<1>1. RootOf[e.task] \in Task
  BY TaskRecordsAssumption
<1>2. r.last \in Nat /\ r.observed \in BOOLEAN /\ r.rooted \in BOOLEAN
  BY RowTyped
<1>3. CASE r \in Row
  BY <1>1, <1>2, <1>3 DEF EventRow, Row, Applies
<1>4. CASE r = NoRow
  <2>1. ~Exists(r) /\ ~r.rooted
    BY <1>4 DEF NoRow, Exists
  <2> QED BY <1>1, <2>1 DEF EventRow, Row, Applies
<1> QED BY <1>3, <1>4

LEMMA ApplyKeeps ==
    ASSUME RecordsInv, NEW e \in emitted, Apply(e)
    PROVE  RecordsInv'
<1> DEFINE t == e.task
           r == rows[t]
           row == EventRow(e, r)
<1>1. /\ rows' = [rows EXCEPT ![t] = row]
      /\ applied' = applied \cup {e}
      /\ UNCHANGED <<clusterVars, reading, seen>>
  BY DEF Apply
<1>2. /\ t \in Task /\ e.state \in State /\ e.ts \in Nat
      /\ 0 < e.ts /\ e.ts <= since[t] /\ e.ts % 2 = 0
      /\ e.ts = since[t] => progress[t] > 0 /\ e.state = Current(t)
  BY DEF RecordsInv, EventInv
<1>3. row \in Row
  BY <1>2, TaskFacts, EventRowTyped
<1>4. Shape'
  BY <1>1, <1>2, <1>3 DEF RecordsInv, Shape, clusterVars
<1>5. rows'[t] = row
  BY <1>1, <1>2 DEF RecordsInv, Shape
<1>6. /\ row.state = IF Applies(e, r) THEN e.state ELSE r.state
      /\ row.last = IF Applies(e, r) THEN e.ts ELSE r.last
      /\ row.observed = IF Applies(e, r) THEN FALSE ELSE r.observed
  BY DEF EventRow
<1> HIDE DEF t, r, row
<1>7. UNCHANGED <<clock, progress[t], since[t], reading[t], seen[t], Current(t), Over(t)>>
  BY <1>1 DEF Current, Over, clusterVars
<1>8. RowInv(t, rows[t])'
  <2>1. CASE Applies(e, r)
    <3>1. row.state = e.state /\ row.last = e.ts /\ row.observed = FALSE
      BY <1>6, <2>1
    <3>2. Over(t) /\ row.last >= since[t] - 1 => row.state = Outcome(t)
      <4>1. since[t] \in Nat /\ since[t] % 2 = 0
        BY <1>2, TaskFacts
      <4>2. row.last >= since[t] - 1 => e.ts = since[t]
        BY <1>2, <3>1, <4>1
      <4> QED BY <1>2, <3>1, <4>2, TaskFacts
    <3> QED BY <1>2, <1>5, <1>7, <3>1, <3>2, TaskFacts DEF RowInv
  <2>2. CASE ~Applies(e, r)
    <3>1. row.state = r.state /\ row.last = r.last /\ row.observed = r.observed
      BY <1>6, <2>2
    <3>2. RowInv(t, r)
      BY <1>2, TaskFacts DEF r
    <3> QED BY <1>5, <1>7, <3>1, <3>2 DEF RowInv
  <2> QED BY <2>1, <2>2
<1>9. KnownInv(t)'
  <2> SUFFICES ASSUME Known(t)' PROVE (Exists(rows[t]) /\ ~rows[t].observed /\ rows[t].last >= since[t] - 1)'
    BY DEF KnownInv
  <2>1. Over(t) /\ (Known(t) \/ e.ts = since[t])
    BY <1>1, <1>7 DEF Known
  <2>2. Exists(row)
    BY <1>3 DEF Row, Exists, None, State
  <2>3. /\ r.last \in Nat /\ r.observed \in BOOLEAN /\ RowInv(t, r)
        /\ Known(t) => Exists(r) /\ ~r.observed /\ r.last >= since[t] - 1
    BY <1>2, TaskFacts DEF r, KnownInv
  <2>4. CASE Applies(e, r)
    BY <1>2, <1>5, <1>6, <1>7, <2>1, <2>2, <2>3, <2>4, TaskFacts DEF Applies
  <2>5. CASE ~Applies(e, r)
    <3>1. row.last = r.last /\ row.observed = r.observed
      BY <1>6, <2>5
    <3>2. CASE Known(t)
      BY <1>5, <1>7, <2>2, <2>3, <3>1, <3>2
    <3>3. CASE e.ts = since[t]
      <4>1. e.state \in Terminal
        BY <1>2, <2>1, <3>3, TaskFacts, HistoryFacts
      <4>2. r.last >= e.ts /\ ~r.observed
        BY <1>2, <2>3, <2>5, <4>1 DEF Applies, RowInv
      <4> QED BY <1>2, <1>5, <1>7, <2>2, <2>3, <3>1, <3>3, <4>2, TaskFacts
    <3> QED BY <2>1, <3>2, <3>3
  <2> QED BY <2>4, <2>5
<1>10. MetaInv(t, reading[t])' /\ MetaInv(t, seen[t])'
  BY <1>2, <1>7, TaskFacts DEF MetaInv
<1> QED BY <1>1, <1>2, <1>4, <1>8, <1>9, <1>10, OneRecord DEF t, RecordsInv, Shape

-----------------------------------------------------------------------------
(* A poll: what it reads is evidence, ...                                    *)
LEMMA BackendFacts ==
    ASSUME RecordsInv, NEW t \in Task
    PROVE  /\ Backend(t) \in [status : State, date : Nat] \cup {NoMeta}
           /\ MetaInv(t, Backend(t))
           /\ Backend(t).date > 0 => Backend(t).date = since[t] - 1 /\ Backend(t).status = Current(t)
           /\ Over(t) => Backend(t).date = since[t] - 1 /\ Backend(t).date > 0
<1> DEFINE status == IF progress[t] = 0 THEN None ELSE History[t][progress[t]]
<1>1. progress[t] # 0 => progress[t] > 0 /\ status = Current(t) /\ status \in State
  BY TaskFacts DEF Current
<1>2. CASE status \in Terminal
  <2>1. Backend(t) = [status |-> status, date |-> since[t] - 1]
    BY <1>2 DEF Backend, Terminal
  <2>2. progress[t] > 0
    <3>1. None \notin Terminal
      BY DEF None, Terminal
    <3> QED BY <1>1, <1>2, <3>1
  <2>3. /\ since[t] \in Nat /\ since[t] > 0 /\ since[t] % 2 = 0
        /\ status = Current(t) /\ status \in State
    BY <1>1, <2>2, TaskFacts
  <2>4. since[t] - 1 \in Nat /\ since[t] - 1 > 0 /\ (since[t] - 1) % 2 = 1
    BY <2>3
  <2>5. Backend(t) \in [status : State, date : Nat]
    BY <2>1, <2>3, <2>4
  <2>6. Backend(t).date = since[t] - 1 /\ Backend(t).status = status
    BY <2>1
  <2>7. MetaInv(t, Backend(t))
    BY <1>2, <2>2, <2>3, <2>4, <2>6 DEF MetaInv
  <2> QED BY <2>3, <2>4, <2>5, <2>6, <2>7
<1>3. CASE status \in {"STARTED", "RETRY"}
  <2>1. Backend(t) = [status |-> status, date |-> 0]
    BY <1>3 DEF Backend, Terminal
  <2>2. ~Over(t)
    BY <1>1, <1>3, TaskFacts, HistoryFacts DEF Terminal, None
  <2> QED BY <1>3, <2>1, <2>2 DEF MetaInv, State, Terminal
<1>4. CASE status \notin Terminal \cup {"STARTED", "RETRY"}
  <2>1. Backend(t) = NoMeta
    BY <1>4 DEF Backend
  <2>2. ~Over(t)
    BY <1>1, <1>4, TaskFacts, HistoryFacts
  <2> QED BY <2>1, <2>2 DEF MetaInv, NoMeta, None, Terminal
<1> QED BY <1>2, <1>3, <1>4

LEMMA PollReadKeeps ==
    ASSUME RecordsInv, NEW t \in Task, PollRead(t)
    PROVE  RecordsInv'
<1>1. /\ reading' = [reading EXCEPT ![t] = Backend(t)]
      /\ UNCHANGED <<clusterVars, applied, seen, rows>>
  BY DEF PollRead, tableVars
<1>2. Shape'
  BY <1>1, BackendFacts DEF RecordsInv, Shape, clusterVars
<1>3. /\ reading'[t] = Backend(t)
      /\ UNCHANGED <<clock, progress[t], since[t], seen[t], rows[t], Current(t), Over(t), Known(t)>>
  BY <1>1 DEF RecordsInv, Shape, Current, Over, Known, clusterVars
<1>4. MetaInv(t, reading[t])' /\ MetaInv(t, seen[t])' /\ KnownInv(t)'
  BY <1>3, BackendFacts, TaskFacts DEF MetaInv, KnownInv
<1>5. RowInv(t, rows[t])'
  BY <1>3, BackendFacts, TaskFacts DEF RowInv
<1> QED BY <1>1, <1>2, <1>4, <1>5, OneRecord DEF RecordsInv, Shape

LEMMA ResultPollFailsKeeps ==
    ASSUME RecordsInv, NEW t \in Task, ResultPollFails(t)
    PROVE  RecordsInv'
<1>1. /\ reading' = [reading EXCEPT ![t] = NoMeta]
      /\ UNCHANGED <<clusterVars, applied, seen, rows>>
  BY DEF ResultPollFails, tableVars
<1>2. Shape'
  BY <1>1 DEF RecordsInv, Shape, clusterVars
<1>3. /\ reading'[t] = NoMeta
      /\ UNCHANGED <<clock, progress[t], since[t], seen[t], rows[t], Current(t), Over(t), Known(t)>>
  BY <1>1 DEF RecordsInv, Shape, Current, Over, Known, clusterVars
<1>4. MetaInv(t, reading[t])' /\ MetaInv(t, seen[t])' /\ KnownInv(t)'
  BY <1>3, TaskFacts DEF MetaInv, KnownInv, NoMeta, None, Terminal
<1>5. RowInv(t, rows[t])'
  BY <1>3, TaskFacts DEF RowInv, NoMeta
<1> QED BY <1>1, <1>2, <1>4, <1>5, OneRecord DEF RecordsInv, Shape

(* ... and what it writes keeps to the evidence there is.                    *)
LEMMA PollRowFacts ==
    ASSUME NEW t \in Task, NEW m \in [status : State, date : Nat], NEW r \in Row \cup {NoRow},
           clock \in Nat
    PROVE  /\ PollRow(t, m, r) \in Row
           /\ PollRow(t, m, r).state = IF PollApplies(m, r) THEN m.status ELSE r.state
           /\ PollApplies(m, r) /\ m.date > 0 =>
                PollRow(t, m, r).last = m.date /\ PollRow(t, m, r).observed = FALSE
           /\ PollApplies(m, r) /\ m.date = 0 /\ Exists(r) =>
                PollRow(t, m, r).last = r.last /\ PollRow(t, m, r).observed = r.observed
           /\ PollApplies(m, r) /\ m.date = 0 /\ ~Exists(r) =>
                PollRow(t, m, r).last = clock /\ PollRow(t, m, r).observed = TRUE
           /\ ~PollApplies(m, r) => Exists(r) /\
                PollRow(t, m, r).last = r.last /\ PollRow(t, m, r).observed = r.observed
<1>1. m.status \in State /\ m.date \in Nat
  OBVIOUS
<1>2. /\ r.last \in Nat /\ r.observed \in BOOLEAN /\ r.rooted \in BOOLEAN
      /\ Exists(r) => r.state \in State /\ r.workflow \in Task
  BY RowTyped DEF Exists, NoRow, Row
<1>3. ~Exists(r) => PollApplies(m, r)
  BY DEF PollApplies
<1> DEFINE row == PollRow(t, m, r)
<1>4. /\ row.state = IF PollApplies(m, r) THEN m.status ELSE r.state
      /\ row.last = IF PollApplies(m, r)
                    THEN IF m.date > 0 THEN m.date ELSE IF Exists(r) THEN r.last ELSE clock
                    ELSE r.last
      /\ row.observed = IF PollApplies(m, r)
                        THEN IF m.date > 0 THEN FALSE ELSE IF Exists(r) THEN r.observed ELSE TRUE
                        ELSE r.observed
      /\ row.rooted = r.rooted
      /\ row.workflow = IF Exists(r) THEN r.workflow ELSE t
      /\ row = [state |-> row.state, last |-> row.last, observed |-> row.observed,
                rooted |-> row.rooted, workflow |-> row.workflow]
  BY DEF PollRow
<1> HIDE DEF row
<1>5. row.state \in State /\ row.last \in Nat /\ row.rooted \in BOOLEAN /\ row.workflow \in Task
  BY <1>1, <1>2, <1>3, <1>4
<1>6. row.observed \in BOOLEAN
  BY <1>2, <1>4 DEF Exists
<1>7. row \in Row
  BY <1>4, <1>5, <1>6 DEF Row
<1>8. PollApplies(m, r) /\ m.date = 0 /\ Exists(r) => row.last = r.last /\ row.observed = r.observed
  BY <1>2, <1>4
<1>9. PollApplies(m, r) /\ m.date = 0 /\ ~Exists(r) => row.last = clock /\ row.observed = TRUE
  BY <1>4
<1>10. PollApplies(m, r) /\ m.date > 0 => row.last = m.date /\ row.observed = FALSE
  BY <1>4
<1>11. ~PollApplies(m, r) => Exists(r) /\ row.last = r.last /\ row.observed = r.observed
  BY <1>3, <1>4
<1> QED BY <1>4, <1>7, <1>8, <1>9, <1>10, <1>11 DEF row

LEMMA PollWriteKeeps ==
    ASSUME RecordsInv, NEW t \in Task, PollWrite(t)
    PROVE  RecordsInv'
<1> DEFINE m == reading[t]
           r == rows[t]
           row == PollRow(t, m, r)
<1>1. /\ m # NoMeta
      /\ rows' = [rows EXCEPT ![t] = row]
      /\ seen' = [seen EXCEPT ![t] = m]
      /\ reading' = [reading EXCEPT ![t] = NoMeta]
      /\ UNCHANGED <<clusterVars, applied>>
  BY DEF PollWrite
<1>2. /\ m.date \in Nat /\ MetaInv(t, m)
      /\ row \in Row
      /\ PollApplies(m, r) /\ m.date > 0 =>
           row.state = m.status /\ row.last = m.date /\ row.observed = FALSE
      /\ PollApplies(m, r) /\ m.date = 0 /\ Exists(r) =>
           row.state = m.status /\ row.last = r.last /\ row.observed = r.observed
      /\ PollApplies(m, r) /\ m.date = 0 /\ ~Exists(r) =>
           row.state = m.status /\ row.last = clock /\ row.observed = TRUE
      /\ ~PollApplies(m, r) =>
           row.state = r.state /\ row.last = r.last /\ row.observed = r.observed
  <2>1. m \in [status : State, date : Nat] /\ r \in Row \cup {NoRow} /\ clock \in Nat
    BY <1>1, TaskFacts
  <2> HIDE DEF m, r
  <2> QED BY <2>1, PollRowFacts, TaskFacts DEF m
<1>3. Shape'
  BY <1>1, <1>2, TaskFacts DEF RecordsInv, Shape, clusterVars
<1>4. /\ rows'[t] = row /\ seen'[t] = m /\ reading'[t] = NoMeta
      /\ UNCHANGED <<clock, progress[t], since[t], Current(t), Over(t)>>
  BY <1>1 DEF RecordsInv, Shape, Current, Over, clusterVars
<1>5. MetaInv(t, reading[t])' /\ MetaInv(t, seen[t])'
  BY <1>2, <1>4 DEF MetaInv, NoMeta, None, Terminal
<1>6. /\ RowInv(t, r) /\ r.last \in Nat /\ r.observed \in BOOLEAN
      /\ since[t] \in Nat /\ since[t] <= clock /\ clock \in Nat /\ clock % 2 = 0
      /\ Over(t) => progress[t] > 0 /\ Current(t) = Outcome(t) /\ Outcome(t) \in Terminal
  BY TaskFacts, HistoryFacts
<1>7. KnownInv(t) /\ ~(NoMeta.date > 0)
  BY TaskFacts DEF NoMeta
<1> HIDE DEF m, r, row
<1>8. RowInv(t, rows[t])'
  <2>1. CASE ~PollApplies(m, r)
    <3>1. row.state = r.state /\ row.last = r.last /\ row.observed = r.observed
      BY <1>2, <2>1
    <3>2. row.last % 2 = 1 => NoMeta.date # row.last
      BY DEF NoMeta
    <3> QED BY <1>4, <1>6, <3>1, <3>2 DEF RowInv
  <2>2. CASE PollApplies(m, r) /\ m.date > 0
    BY <1>2, <1>4, <1>6, <2>2 DEF RowInv, MetaInv, NoMeta
  <2>3. CASE PollApplies(m, r) /\ m.date = 0 /\ Exists(r)
    <3>1. row.state \notin Terminal /\ r.state \notin Terminal /\ row.last = r.last /\ row.observed = r.observed
      BY <1>2, <2>3 DEF MetaInv, PollApplies
    <3> QED BY <1>4, <1>6, <3>1 DEF RowInv
  <2>4. CASE PollApplies(m, r) /\ m.date = 0 /\ ~Exists(r)
    <3>1. row.state \notin Terminal /\ row.last = clock /\ row.observed = TRUE
      BY <1>2, <2>4 DEF MetaInv
    <3> QED BY <1>4, <1>6, <3>1 DEF RowInv
  <2> QED BY <1>2, <2>1, <2>2, <2>3, <2>4
<1>9. KnownInv(t)'
  <2> SUFFICES ASSUME Known(t)' PROVE (~rows[t].observed /\ rows[t].last >= since[t] - 1)'
    <3>1. Exists(rows[t])'
      BY <1>2, <1>4 DEF Exists, Row, State, None
    <3> QED BY <3>1 DEF KnownInv
  <2>1. Over(t) /\ (Known(t) \/ (m.date > 0 /\ m.date = since[t] - 1))
    <3>1. applied' = applied /\ since'[t] = since[t] /\ progress'[t] = progress[t] /\ seen'[t] = m
      BY <1>1, <1>4
    <3> QED BY <3>1 DEF Known, Over
  <2>2. /\ r.observed => r.state \notin Terminal
        /\ Known(t) => Exists(r) /\ ~r.observed /\ r.last >= since[t] - 1
    BY <1>6, <1>7 DEF RowInv, KnownInv, r
  <2>3. CASE PollApplies(m, r) /\ m.date > 0
    BY <1>2, <1>4, <1>6, <2>1, <2>2, <2>3 DEF PollApplies
  <2>4. CASE m.date = 0
    <3>1. Known(t) /\ Exists(r)
      BY <2>1, <2>2, <2>4
    <3>2. row.observed = r.observed /\ row.last = r.last
      BY <1>2, <2>4, <3>1
    <3> QED BY <1>4, <2>2, <3>1, <3>2
  <2>5. CASE ~PollApplies(m, r) /\ m.date > 0
    BY <1>2, <1>4, <1>6, <2>1, <2>2, <2>5 DEF PollApplies
  <2> QED BY <1>2, <2>3, <2>4, <2>5
<1> QED BY <1>1, <1>3, <1>5, <1>8, <1>9, OneRecord DEF RecordsInv, Shape

LEMMA RecordsInvStep == RecordsInv /\ [RecordsNext]_recordsVars => RecordsInv'
<1> SUFFICES ASSUME RecordsInv, [RecordsNext]_recordsVars PROVE RecordsInv'
  OBVIOUS
<1>1. ASSUME NEW t \in Task, Happen(t) PROVE RecordsInv'
  BY <1>1, HappenKeeps
<1>2. ASSUME NEW t \in Task, PollRead(t) PROVE RecordsInv'
  BY <1>2, PollReadKeeps
<1>3. ASSUME NEW t \in Task, PollWrite(t) PROVE RecordsInv'
  BY <1>3, PollWriteKeeps
<1>4. ASSUME NEW t \in Task, ResultPollFails(t) PROVE RecordsInv'
  BY <1>4, ResultPollFailsKeeps
<1>5. ASSUME NEW e \in emitted, Apply(e) PROVE RecordsInv'
  BY <1>5, ApplyKeeps
<1>6. CASE UNCHANGED recordsVars
  BY <1>6 DEF RecordsInv, Shape, HistoryInv, EventInv, MetaInv, RowInv, KnownInv, Known, Current, Over,
     recordsVars, clusterVars, tableVars
<1> QED BY <1>1, <1>2, <1>3, <1>4, <1>5, <1>6 DEF RecordsNext

LEMMA RecordsInvariant == RecordsSpec => []RecordsInv
<1>1. RecordsInit => RecordsInv
  BY InitRecordsInv
<1>2. RecordsInv /\ [RecordsNext]_recordsVars => RecordsInv'
  BY RecordsInvStep
<1> QED BY <1>1, <1>2, PTL DEF RecordsSpec

(* The row of a finished task shows its outcome from the first evidence of   *)
(* it on, whatever is delivered late, again or out of order.                 *)
THEOREM OutcomesStick == RecordsSpec => []OutcomeSticks
<1>1. RecordsInv => OutcomeSticks
  <2> SUFFICES ASSUME RecordsInv, NEW t \in Task, Over(t),
                      (\E e \in applied : e.task = t /\ e.ts = since[t]) \/ seen[t] = Backend(t)
               PROVE  rows[t].state = Outcome(t)
    BY DEF OutcomeSticks
  <2>1. Known(t)
    BY BackendFacts DEF Known
  <2>2. ~rows[t].observed /\ rows[t].last >= since[t] - 1
    BY <2>1, TaskFacts DEF KnownInv
  <2> QED BY <2>2, TaskFacts DEF RowInv
<1> QED BY <1>1, RecordsInvariant, PTL

(* No step of event or poll replaces what is known by older evidence.        *)
THEOREM EvidenceOnlyGetsLater == RecordsSpec => NeverBackward
<1> DEFINE Forward(t) ==
      Exists(rows[t]) =>
        /\ rows[t].observed \/ rows'[t].last >= rows[t].last
        /\ rows[t].state \in Terminal /\ rows'[t].state # rows[t].state => rows'[t].last > rows[t].last
<1>1. ASSUME RecordsInv, NEW t \in Task, rows'[t] = rows[t]
      PROVE  Forward(t)
  BY <1>1, TaskFacts
<1>2. ASSUME RecordsInv, NEW e \in emitted, Apply(e), NEW t \in Task
      PROVE  Forward(t)
  <2> DEFINE r == rows[e.task]
             row == EventRow(e, r)
  <2>1. e.task \in Task /\ e.ts \in Nat
    BY <1>2 DEF RecordsInv, EventInv
  <2>2. rows' = [rows EXCEPT ![e.task] = row]
    BY <1>2 DEF Apply
  <2>3. CASE t # e.task
    BY <1>1, <1>2, <2>2, <2>3 DEF RecordsInv, Shape
  <2>4. CASE t = e.task
    <3>1. rows'[t] = row
      BY <1>2, <2>1, <2>2, <2>4 DEF RecordsInv, Shape
    <3>2. /\ row.state = IF Applies(e, r) THEN e.state ELSE r.state
          /\ row.last = IF Applies(e, r) THEN e.ts ELSE r.last
      BY DEF EventRow
    <3>3. r.last \in Nat /\ r.observed \in BOOLEAN
      BY <1>2, <2>1, TaskFacts
    <3> HIDE DEF r, row
    <3>4. rows[t] = r
      BY <2>4 DEF r
    <3> QED BY <2>1, <3>1, <3>2, <3>3, <3>4 DEF Applies
  <2> QED BY <2>3, <2>4
<1>3. ASSUME RecordsInv, NEW u \in Task, PollWrite(u), NEW t \in Task
      PROVE  Forward(t)
  <2> DEFINE m == reading[u]
             r == rows[u]
             row == PollRow(u, m, r)
  <2>1. rows' = [rows EXCEPT ![u] = row]
    BY <1>3 DEF PollWrite
  <2>2. CASE t # u
    BY <1>1, <1>3, <2>1, <2>2 DEF RecordsInv, Shape
  <2>3. CASE t = u
    <3>1. rows'[t] = row
      BY <1>3, <2>1, <2>3 DEF RecordsInv, Shape
    <3>2. /\ m \in [status : State, date : Nat] /\ r \in Row \cup {NoRow}
          /\ clock \in Nat /\ r.last \in Nat /\ r.observed \in BOOLEAN
          /\ RowInv(u, r) /\ MetaInv(u, m)
      BY <1>3, TaskFacts DEF PollWrite
    <3>3. r.last % 2 = 1 /\ m.date = r.last => m.status = r.state
      BY <3>2 DEF RowInv
    <3>4. r.observed => r.state \notin Terminal
      BY <3>2 DEF RowInv
    <3>5. m.date > 0 => m.date % 2 = 1
      BY <3>2 DEF MetaInv
    <3> HIDE DEF m, r
    <3>6. m.date \in Nat
      BY <3>2
    <3>7. /\ row.state = IF PollApplies(m, r) THEN m.status ELSE r.state
          /\ PollApplies(m, r) /\ m.date > 0 => row.last = m.date
          /\ PollApplies(m, r) /\ m.date = 0 /\ Exists(r) => row.last = r.last
          /\ ~PollApplies(m, r) => row.last = r.last
      BY <3>2, PollRowFacts
    <3> HIDE DEF row
    <3>8. rows[t] = r
      BY <2>3 DEF r
    <3>9. CASE ~PollApplies(m, r)
      BY <3>1, <3>2, <3>7, <3>8, <3>9
    <3>10. CASE PollApplies(m, r) /\ m.date > 0
      BY <3>1, <3>2, <3>3, <3>4, <3>5, <3>6, <3>7, <3>8, <3>10 DEF PollApplies
    <3>11. CASE PollApplies(m, r) /\ m.date = 0
      BY <3>1, <3>2, <3>6, <3>7, <3>8, <3>11 DEF PollApplies
    <3> QED BY <3>6, <3>9, <3>10, <3>11
  <2> QED BY <2>2, <2>3
<1>4. ASSUME RecordsInv, [RecordsNext]_recordsVars, NEW t \in Task
      PROVE  Forward(t)
  <2>1. ASSUME NEW u \in Task, Happen(u) \/ PollRead(u) \/ ResultPollFails(u) PROVE rows' = rows
    BY <2>1 DEF Happen, PollRead, ResultPollFails, tableVars
  <2>2. UNCHANGED recordsVars => rows' = rows
    BY DEF recordsVars, tableVars
  <2>3. rows' = rows \/ (\E e \in emitted : Apply(e)) \/ (\E u \in Task : PollWrite(u))
    BY <1>4, <2>1, <2>2 DEF RecordsNext
  <2>4. CASE rows' = rows
    BY <1>1, <1>4, <2>4
  <2> QED BY <1>2, <1>3, <1>4, <2>3, <2>4
<1> HIDE DEF Forward
<1>5. RecordsInv /\ [RecordsNext]_recordsVars => [\A t \in Task : Forward(t)]_recordsVars
  BY <1>4
<1>6. RecordsSpec => [][\A t \in Task : Forward(t)]_recordsVars
  BY <1>5, RecordsInvariant, PTL DEF RecordsSpec
<1> QED BY <1>6 DEF Forward, NeverBackward

-----------------------------------------------------------------------------
(* Workflows.  A task is in a workflow of its own until its root is known,   *)
(* and then in that of its root; a task whose workflow is that of another    *)
(* task's is the root of a workflow itself, and stays there.                 *)
PlaceInv(t, r) ==
    /\ Exists(r) => r.workflow \in {t, RootOf[t]}
    /\ r.rooted => Exists(r) /\ r.workflow = RootOf[t]

WorkflowInv ==
    /\ RecordsInv
    /\ DOMAIN workflows = Task
    /\ edges \subseteq Task \X Task
    /\ \A t \in Task : PlaceInv(t, rows[t])
    /\ SummaryMatches

LEMMA RowExists ==
    ASSUME NEW r \in Row \cup {NoRow}
    PROVE  /\ Exists(r) <=> r \in Row
           /\ Exists(r) <=> r.workflow \in Task
           /\ ~Exists(r) => ~r.rooted
<1>1. CASE r \in Row
  BY <1>1 DEF Row, Exists, State, None
<1>2. CASE r = NoRow
  BY <1>2, TaskRecordsAssumption DEF NoRow, Exists, Row, State, None
<1> QED BY <1>1, <1>2

(* A summary depends on the rows of its workflow only.                       *)
LEMMA SummaryLocal ==
    ASSUME NEW w,
           \A u \in Task : rows[u].workflow = w <=> rows'[u].workflow = w,
           \A u \in Task : rows[u].workflow = w => rows[u].state = rows'[u].state
    PROVE  Members(rows, w) = Members(rows', w) /\ Summary(rows, w) = Summary(rows', w)
<1>1. Members(rows, w) = Members(rows', w)
  BY DEF Members
<1>2. ASSUME NEW S
      PROVE  {u \in Members(rows, w) : rows[u].state \in S} = {u \in Members(rows', w) : rows'[u].state \in S}
  BY <1>1 DEF Members
<1> QED BY <1>1, <1>2 DEF Summary

(* A row that stays in its workflow, or comes into one, whose summary is     *)
(* made anew.                                                                *)
LEMMA StaysOrComes ==
    ASSUME WorkflowInv, NEW t \in Task, NEW row \in Row,
           Exists(rows[t]) => row.workflow = rows[t].workflow,
           rows' = [rows EXCEPT ![t] = row]
    PROVE  /\ \A w \in Task :
                IF w = row.workflow THEN Members(rows', w) # {}
                ELSE workflows[w] = IF Members(rows', w) = {} THEN Absent ELSE Summary(rows', w)
           /\ \A p \in edges : rows'[p[2]].workflow = p[1]
<1>1. rows \in [Task -> Row \cup {NoRow}] /\ rows'[t] = row /\ \A u \in Task \ {t} : rows'[u] = rows[u]
  BY DEF WorkflowInv, RecordsInv, Shape
<1>2. row.workflow \in Task /\ t \in Members(rows', row.workflow)
  BY <1>1 DEF Row, Members
<1>3. ASSUME NEW w \in Task, w # row.workflow
      PROVE  Members(rows, w) = Members(rows', w) /\ Summary(rows, w) = Summary(rows', w)
  <2>1. rows[t].workflow # w
    BY <1>1, <1>3, RowExists
  <2>2. \A u \in Task : /\ rows[u].workflow = w <=> rows'[u].workflow = w
                        /\ rows[u].workflow = w => rows[u].state = rows'[u].state
    BY <1>1, <1>3, <2>1
  <2>3. \A u \in Task : rows[u].workflow = w <=> rows'[u].workflow = w
    BY <2>2
  <2>4. \A u \in Task : rows[u].workflow = w => rows[u].state = rows'[u].state
    BY <2>2
  <2> QED BY <1>1, <1>3, <2>1, <2>3, <2>4, SummaryLocal
<1>4. ASSUME NEW p \in edges
      PROVE  rows'[p[2]].workflow = p[1]
  <2>1. p[1] \in Task /\ p[2] \in Task /\ rows[p[2]].workflow = p[1]
    BY DEF WorkflowInv, SummaryMatches
  <2> QED BY <1>1, <2>1, RowExists
<1> QED BY <1>2, <1>3, <1>4 DEF WorkflowInv, SummaryMatches

LEMMA ApplyKeepsWorkflows ==
    ASSUME WorkflowInv, NEW e \in emitted, Apply(e)
    PROVE  WorkflowInv'
<1> DEFINE t == e.task
           r == rows[t]
           row == EventRow(e, r)
           gone == Emptied(e, r, rows')
<1>1. t \in Task /\ e.state \in State /\ e.ts \in Nat
  BY DEF WorkflowInv, RecordsInv, EventInv
<1>2. rows \in [Task -> Row \cup {NoRow}] /\ RootOf[t] \in Task
  BY <1>1, TaskRecordsAssumption DEF WorkflowInv, RecordsInv, Shape
<1>3. row \in Row
  BY <1>1, <1>2, EventRowTyped
<1>4. /\ rows' = [rows EXCEPT ![t] = row]
      /\ workflows' = [[w \in Task |-> IF w \in gone THEN Absent ELSE workflows[w]]
                          EXCEPT ![row.workflow] = Summary(rows', row.workflow)]
      /\ edges' = {p \in edges : p[1] \notin gone} \cup {<<row.workflow, t>>}
  BY DEF Apply, Summarize
<1>5. rows'[t] = row /\ \A u \in Task \ {t} : rows'[u] = rows[u]
  BY <1>1, <1>2, <1>4
<1>6. PlaceInv(t, r)
  BY <1>1 DEF WorkflowInv
<1>7. /\ row.rooted <=> r.rooted \/ e.state \in Carrying
      /\ row.workflow = IF e.state \in Carrying
                        THEN IF ~r.rooted \/ Applies(e, r) \/ e.ts >= r.last
                             THEN RootOf[t] ELSE r.workflow
                        ELSE IF Exists(r) THEN r.workflow ELSE t
  BY DEF EventRow
<1>8. e.state \in Carrying => row.workflow = RootOf[t]
  BY <1>6, <1>7 DEF PlaceInv
<1>9. e.state \notin Carrying /\ Exists(r) => row.workflow = r.workflow
  BY <1>7
<1>10. PlaceInv(t, row)
  <2>1. Exists(row) /\ (r \in Row \cup {NoRow})
    BY <1>1, <1>2, <1>3, RowExists
  <2> QED BY <1>2, <1>6, <1>7, <1>8, <2>1, RowExists DEF PlaceInv
<1>11. row.workflow \in Task /\ t \in Members(rows', row.workflow)
  BY <1>1, <1>3, <1>5 DEF Row, Members
<1> HIDE DEF t, r, row
<1>12. ASSUME Exists(r), row.workflow # r.workflow
       PROVE  gone = {r.workflow} /\ Members(rows', r.workflow) = {}
  <2>1. e.state \in Carrying /\ row.workflow = RootOf[t] /\ r.workflow = t
    BY <1>6, <1>8, <1>9, <1>12 DEF PlaceInv
  <2>2. ASSUME NEW u \in Task, rows'[u].workflow = t PROVE FALSE
    <3>1. u # t /\ rows[u] = rows'[u]
      BY <1>5, <1>12, <2>1, <2>2
    <3>2. Exists(rows[u]) /\ PlaceInv(u, rows[u])
      BY <1>1, <1>2, <2>2, <3>1, RowExists DEF WorkflowInv
    <3>3. RootOf[u] = t
      BY <2>2, <3>1, <3>2 DEF PlaceInv
    <3> QED BY <1>12, <2>1, <3>3, TaskRecordsAssumption
  <2>3. Members(rows', r.workflow) = {}
    BY <2>1, <2>2 DEF Members
  <2> QED BY <1>1, <1>12, <2>1, <2>3 DEF Emptied, t
<1>13. ASSUME ~Exists(r) \/ row.workflow = r.workflow
       PROVE  gone = {}
  <2>1. ASSUME NEW w \in gone PROVE FALSE
    <3>1. Exists(r) /\ r.workflow = w /\ Members(rows', w) = {}
      BY DEF Emptied
    <3> QED BY <1>11, <1>13, <3>1
  <2> QED BY <2>1
<1>14. SummaryMatches'
  <2>1. CASE Exists(r) /\ row.workflow # r.workflow
    <3>1. gone = {r.workflow} /\ Members(rows', r.workflow) = {}
      BY <1>12, <2>1
    <3>2. ASSUME NEW w \in Task, w # row.workflow, w # r.workflow
          PROVE  Members(rows, w) = Members(rows', w) /\ Summary(rows, w) = Summary(rows', w)
      BY <1>1, <1>5, <3>2, SummaryLocal DEF r
    <3>3. ASSUME NEW w \in Task
          PROVE  workflows'[w] = IF Members(rows', w) = {} THEN Absent ELSE Summary(rows', w)
      <4>1. CASE w = row.workflow
        BY <1>4, <1>11, <4>1
      <4>2. CASE w # row.workflow /\ w = r.workflow
        BY <1>4, <3>1, <4>2
      <4>3. CASE w # row.workflow /\ w # r.workflow
        BY <1>4, <3>1, <3>2, <4>3 DEF WorkflowInv, SummaryMatches
      <4> QED BY <4>1, <4>2, <4>3
    <3>4. ASSUME NEW p \in edges'
          PROVE  rows'[p[2]].workflow = p[1]
      <4>1. CASE p = <<row.workflow, t>>
        BY <1>5, <4>1
      <4>2. CASE p \in edges /\ p[1] # r.workflow
        BY <1>5, <4>2 DEF WorkflowInv, SummaryMatches, r
      <4> QED BY <1>4, <3>1, <4>1, <4>2
    <3> QED BY <3>3, <3>4 DEF SummaryMatches
  <2>2. CASE ~Exists(r) \/ row.workflow = r.workflow
    <3>1. gone = {}
      BY <1>13, <2>2
    <3>2. /\ \A w \in Task :
               IF w = row.workflow THEN Members(rows', w) # {}
               ELSE workflows[w] = IF Members(rows', w) = {} THEN Absent ELSE Summary(rows', w)
          /\ \A p \in edges : rows'[p[2]].workflow = p[1]
      BY <1>1, <1>3, <1>4, <2>2, StaysOrComes DEF r
    <3>3. ASSUME NEW w \in Task
          PROVE  workflows'[w] = IF Members(rows', w) = {} THEN Absent ELSE Summary(rows', w)
      BY <1>4, <1>11, <3>1, <3>2
    <3>4. ASSUME NEW p \in edges'
          PROVE  rows'[p[2]].workflow = p[1]
      BY <1>4, <1>5, <3>2
    <3> QED BY <3>3, <3>4 DEF SummaryMatches
  <2> QED BY <2>1, <2>2
<1>15. RecordsInv'
  BY ApplyKeeps DEF WorkflowInv
<1>16. DOMAIN workflows' = Task /\ edges' \subseteq Task \X Task
  BY <1>1, <1>4, <1>11 DEF WorkflowInv
<1>17. \A u \in Task : PlaceInv(u, rows'[u])
  BY <1>5, <1>10 DEF WorkflowInv
<1> QED BY <1>14, <1>15, <1>16, <1>17 DEF WorkflowInv, PlaceInv

LEMMA PollWriteKeepsWorkflows ==
    ASSUME WorkflowInv, NEW t \in Task, PollWrite(t)
    PROVE  WorkflowInv'
<1> DEFINE m == reading[t]
           r == rows[t]
           row == PollRow(t, m, r)
<1>1. /\ rows' = [rows EXCEPT ![t] = row]
      /\ workflows' = [workflows EXCEPT ![row.workflow] = Summary(rows', row.workflow)]
      /\ edges' = edges
  BY DEF PollWrite
<1>2. /\ m \in [status : State, date : Nat] /\ r \in Row \cup {NoRow} /\ clock \in Nat
      /\ rows \in [Task -> Row \cup {NoRow}]
  BY TaskFacts DEF WorkflowInv, RecordsInv, Shape, PollWrite
<1>3. row.rooted = r.rooted /\ row.workflow = IF Exists(r) THEN r.workflow ELSE t
  BY DEF PollRow
<1>4. PlaceInv(t, r)
  BY DEF WorkflowInv
<1> HIDE DEF m, r
<1>5. row \in Row
  BY <1>2, PollRowFacts
<1> HIDE DEF row
<1>6. row.workflow \in Task /\ Exists(row)
  BY <1>5, RowExists
<1>7. PlaceInv(t, row)
  BY <1>3, <1>4, <1>6 DEF PlaceInv
<1>8. rows'[t] = row /\ \A u \in Task \ {t} : rows'[u] = rows[u]
  BY <1>1, <1>2
<1>9. /\ \A w \in Task :
           IF w = row.workflow THEN Members(rows', w) # {}
           ELSE workflows[w] = IF Members(rows', w) = {} THEN Absent ELSE Summary(rows', w)
      /\ \A p \in edges : rows'[p[2]].workflow = p[1]
  BY <1>1, <1>3, <1>5, StaysOrComes DEF r
<1>10. SummaryMatches'
  <2>1. ASSUME NEW w \in Task
        PROVE  workflows'[w] = IF Members(rows', w) = {} THEN Absent ELSE Summary(rows', w)
    BY <1>1, <1>9 DEF WorkflowInv
  <2> QED BY <1>1, <1>9, <2>1 DEF SummaryMatches
<1>11. RecordsInv'
  BY PollWriteKeeps DEF WorkflowInv
<1>12. \A u \in Task : PlaceInv(u, rows'[u])
  BY <1>7, <1>8 DEF WorkflowInv
<1> QED BY <1>1, <1>10, <1>11, <1>12 DEF WorkflowInv, PlaceInv

(* Every workflow row is what its tasks add up to, and there is one for      *)
(* every workflow with a task, and for no other.                             *)
THEOREM SummariesMatch == RecordsSpec => []SummaryMatches
<1>1. RecordsInit => WorkflowInv
  <2> SUFFICES ASSUME RecordsInit PROVE WorkflowInv
    OBVIOUS
  <2>1. RecordsInv /\ rows = [t \in Task |-> NoRow] /\ workflows = [t \in Task |-> Absent] /\ edges = {}
    BY InitRecordsInv DEF RecordsInit
  <2>2. \A w \in Task : Members(rows, w) = {}
    BY <2>1, TaskRecordsAssumption DEF Members, NoRow
  <2> QED BY <2>1, <2>2 DEF WorkflowInv, PlaceInv, Exists, NoRow, SummaryMatches
<1>2. WorkflowInv /\ [RecordsNext]_recordsVars => WorkflowInv'
  <2> SUFFICES ASSUME WorkflowInv, [RecordsNext]_recordsVars PROVE WorkflowInv'
    OBVIOUS
  <2>1. ASSUME tableVars' = tableVars PROVE WorkflowInv'
    <3>1. RecordsInv'
      BY RecordsInvStep DEF WorkflowInv
    <3>2. rows' = rows /\ workflows' = workflows /\ edges' = edges
      BY <2>1 DEF tableVars
    <3> QED BY <3>1, <3>2 DEF WorkflowInv, SummaryMatches, PlaceInv
  <2>2. ASSUME NEW t \in Task, Happen(t) \/ PollRead(t) \/ ResultPollFails(t) PROVE tableVars' = tableVars
    BY <2>2 DEF Happen, PollRead, ResultPollFails
  <2>3. UNCHANGED recordsVars => tableVars' = tableVars
    BY DEF recordsVars
  <2> QED BY <2>1, <2>2, <2>3, ApplyKeepsWorkflows, PollWriteKeepsWorkflows DEF RecordsNext
<1>3. WorkflowInv => SummaryMatches
  BY DEF WorkflowInv
<1> QED BY <1>1, <1>2, <1>3, PTL DEF RecordsSpec

-----------------------------------------------------------------------------
(* Workers.                                                                  *)
Occurrence == [kind : {"online", "offline", "started", "finished"},
               task : WorkerTask \cup {NoName}, ts : Nat]
TaskRow == [state : {NoName, "STARTED", "DONE"}, last : Nat,
            active : {"unknown", "yes", "no"}, observed : Nat]
Answer == [stats : BOOLEAN, active : BOOLEAN, ids : SUBSET WorkerTask]

PresenceShape ==
    /\ now \in Nat /\ alive \in BOOLEAN
    /\ executing \subseteq begun /\ begun \subseteq WorkerTask
    /\ events \in Seq(Occurrence)
    /\ worker.missed \in Nat
    /\ tasks \in [WorkerTask -> TaskRow]
    /\ poll \in [at : Step, observed : Nat, now : Nat, answer : Answer, missed : Nat]
    /\ misses \in Nat /\ misses <= MissedPollsThreshold

(* Only what has begun is heard of, and a poll looks at the past.            *)
HeardOf ==
    /\ poll.observed <= now
    /\ \A i \in 1..Len(events) : events[i].task \in begun \cup {NoName}
    /\ \A t \in WorkerTask : tasks[t].state # NoName => t \in begun

(* Whatever tells of a task that began after the answer was made is later    *)
(* than the request.                                                         *)
Judging == poll.at \in {"answered", "upserted"} /\ poll.answer.active

LaterThanRequest(t) ==
    /\ \A i \in 1..Len(events) : events[i].task = t => events[i].ts > poll.observed
    /\ tasks[t].state # NoName => tasks[t].last > poll.observed

JudgingInv == Judging => \A t \in executing \ poll.answer.ids : LaterThanRequest(t)

(* A task once seen absent is over.                                          *)
AbsenceInv == \A t \in WorkerTask : tasks[t].active = "no" => t \notin executing /\ t \in begun

(* The count in the row, and the one a poll is about to write, are no more   *)
(* than the polls missed, which are counted up to the threshold.             *)
CountInv ==
    \/ misses = MissedPollsThreshold
    \/ /\ worker.missed <= misses
       /\ poll.at = "missing" => worker.missed + 1 <= misses
       /\ poll.at \in {"read", "cleared"} => poll.missed <= misses

PresenceInv == PresenceShape /\ HeardOf /\ JudgingInv /\ AbsenceInv /\ CountInv

-----------------------------------------------------------------------------
LEMMA InitPresence == PresenceInit => PresenceInv
<1> SUFFICES ASSUME PresenceInit PROVE PresenceInv
  OBVIOUS
<1>1. poll = Idle /\ Idle \in [at : Step, observed : Nat, now : Nat, answer : Answer, missed : Nat]
  BY DEF PresenceInit, Idle, NoAnswer, Answer, Step
<1>2. tasks \in [WorkerTask -> TaskRow] /\ \A t \in WorkerTask : tasks[t].state = NoName /\ tasks[t].active = "unknown"
  BY DEF PresenceInit, TaskRow
<1>3. poll.at = "idle" /\ poll.observed = 0
  BY <1>1 DEF Idle
<1>4. worker.missed = 0 /\ events = <<>> /\ Len(events) = 0
  BY DEF PresenceInit
<1>5. PresenceShape
  <2>1. events \in Seq(Occurrence)
    BY DEF PresenceInit
  <2>2. alive \in BOOLEAN
    BY DEF PresenceInit
  <2> QED BY <1>1, <1>2, <1>4, <2>1, <2>2, WorkerPresenceAssumption DEF PresenceInit, PresenceShape
<1> QED BY <1>2, <1>3, <1>4, <1>5 DEF PresenceInit, PresenceInv, HeardOf, JudgingInv, Judging, AbsenceInv, CountInv

LEMMA PollTyped ==
    ASSUME PresenceShape
    PROVE  /\ poll.at \in Step /\ poll.observed \in Nat /\ poll.now \in Nat /\ poll.missed \in Nat
           /\ poll.answer \in Answer /\ poll.answer.stats \in BOOLEAN
           /\ poll.answer.active \in BOOLEAN /\ poll.answer.ids \subseteq WorkerTask
BY DEF PresenceShape, Answer

LEMMA EventsTyped ==
    ASSUME PresenceShape
    PROVE  /\ Len(events) \in Nat
           /\ \A i \in 1..Len(events) : events[i] \in Occurrence /\ events[i].ts \in Nat
                                        /\ events[i].task \in WorkerTask \cup {NoName}
<1>1. Len(events) \in Nat /\ \A i \in 1..Len(events) : events[i] \in Occurrence
  BY DEF PresenceShape
<1> QED BY <1>1 DEF Occurrence

(* An event gets out, or not.                                                *)
LEMMA EmitFacts ==
    ASSUME PresenceShape, NEW kind \in {"online", "offline", "started", "finished"},
           NEW x \in WorkerTask \cup {NoName}, Emit(kind, x)
    PROVE  /\ now' = now + 1
           /\ UNCHANGED <<worker, tasks, poll, misses, faults>>
           /\ events' \in Seq(Occurrence)
           /\ \A i \in 1..Len(events') :
                 \/ i \in 1..Len(events) /\ events'[i] = events[i]
                 \/ events'[i].task = x /\ events'[i].ts = now + 1
<1> DEFINE e == [kind |-> kind, task |-> x, ts |-> now']
<1>1. /\ now' = now + 1
      /\ UNCHANGED <<worker, tasks, poll, misses, faults>>
      /\ events' = Append(events, e) \/ events' = events
  BY DEF Emit, presenceTables, pollVars
<1>2. e \in Occurrence /\ events \in Seq(Occurrence) /\ now \in Nat
  BY <1>1 DEF PresenceShape, Occurrence
<1>3. e.task = x /\ e.ts = now + 1
  BY <1>1
<1> HIDE DEF e
<1>4. CASE events' = Append(events, e)
  <2>1. /\ events' \in Seq(Occurrence) /\ Len(events') = Len(events) + 1
        /\ \A i \in 1..Len(events) : events'[i] = events[i]
        /\ events'[Len(events) + 1] = e
    BY <1>2, <1>4
  <2> QED BY <1>1, <1>2, <1>3, <2>1
<1>5. CASE events' = events
  BY <1>1, <1>2, <1>5
<1> QED BY <1>1, <1>4, <1>5

(* The worker lives on: what begins is heard of at a later time than that of *)
(* any request made.                                                         *)
LEMMA WorldKeeps ==
    ASSUME PresenceInv, NEW kind \in {"online", "offline", "started", "finished"},
           NEW x \in WorkerTask \cup {NoName}, Emit(kind, x),
           executing' \subseteq begun', begun \subseteq begun', begun' \subseteq WorkerTask,
           x \in begun' \cup {NoName}, alive' \in BOOLEAN,
           \A t \in executing' : t \in executing \/ t \notin begun
    PROVE  PresenceInv'
<1>1. PresenceShape /\ HeardOf /\ JudgingInv /\ AbsenceInv /\ CountInv
  BY DEF PresenceInv
<1>2. /\ now' = now + 1
      /\ UNCHANGED <<worker, tasks, poll, misses, faults>>
      /\ events' \in Seq(Occurrence)
      /\ \A i \in 1..Len(events') :
            \/ i \in 1..Len(events) /\ events'[i] = events[i]
            \/ events'[i].task = x /\ events'[i].ts = now + 1
  BY <1>1, EmitFacts
<1>3. now \in Nat /\ poll.observed \in Nat /\ poll.observed <= now
  BY <1>1, PollTyped DEF HeardOf, PresenceShape
<1>4. PresenceShape'
  BY <1>1, <1>2 DEF PresenceShape
<1>5. HeardOf'
  BY <1>1, <1>2, <1>3 DEF HeardOf
<1>6. JudgingInv'
  <2> SUFFICES ASSUME Judging, NEW t \in executing', t \notin poll.answer.ids
               PROVE  LaterThanRequest(t)'
    BY <1>2 DEF JudgingInv, Judging
  <2>1. t \in WorkerTask /\ t # NoName
    BY WorkerPresenceAssumption
  <2>2. /\ \A i \in 1..Len(events) : events[i].task = t => events[i].ts > poll.observed
        /\ tasks[t].state # NoName => tasks[t].last > poll.observed
    BY <1>1, <2>1 DEF JudgingInv, LaterThanRequest, HeardOf
  <2>3. \A i \in 1..Len(events') : events'[i].task = t => events'[i].ts > poll.observed
    BY <1>2, <1>3, <2>2
  <2> QED BY <1>2, <2>2, <2>3 DEF LaterThanRequest
<1>7. AbsenceInv'
  BY <1>1, <1>2 DEF AbsenceInv
<1>8. CountInv'
  BY <1>1, <1>2 DEF CountInv
<1> QED BY <1>4, <1>5, <1>6, <1>7, <1>8 DEF PresenceInv

LEMMA WorkerKeeps ==
    ASSUME PresenceInv, Join \/ Heartbeat \/ Leave \/ \E t \in WorkerTask : Begin(t) \/ End(t)
    PROVE  PresenceInv'
<1>1. executing \subseteq begun /\ begun \subseteq WorkerTask /\ alive \in BOOLEAN
  BY DEF PresenceInv, PresenceShape
<1>2. CASE Join \/ Heartbeat
  BY <1>1, <1>2, WorldKeeps DEF Join, Heartbeat
<1>3. CASE Leave
  BY <1>1, <1>3, WorldKeeps DEF Leave
<1>4. ASSUME NEW t \in WorkerTask, Begin(t) PROVE PresenceInv'
  BY <1>1, <1>4, WorldKeeps DEF Begin
<1>5. ASSUME NEW t \in WorkerTask, End(t) PROVE PresenceInv'
  BY <1>1, <1>5, WorldKeeps DEF End
<1> QED BY <1>2, <1>3, <1>4, <1>5

(* The ingester writes an event: of a task that it is later than a request   *)
(* goes over from the event to the row.                                      *)
LEMMA WriteEventKeeps ==
    ASSUME PresenceInv, WriteEvent
    PROVE  PresenceInv'
<1> DEFINE e == Head(events)
<1>1. PresenceShape /\ HeardOf /\ JudgingInv /\ AbsenceInv /\ CountInv
  BY DEF PresenceInv
<1>2. /\ events # <<>> /\ events' = Tail(events)
      /\ UNCHANGED <<now, alive, executing, begun, poll, misses, faults>>
      /\ IF e.task = NoName THEN WriteWorker(e) ELSE WriteTask(e)
  BY DEF WriteEvent, worldVars, pollVars
<1>3. events \in Seq(Occurrence) /\ e = events[1] /\ 1 \in 1..Len(events)
  BY <1>1, <1>2 DEF PresenceShape
<1>4. /\ events' \in Seq(Occurrence)
      /\ \A i \in 1..Len(events') : i + 1 \in 1..Len(events) /\ events'[i] = events[i + 1]
  BY <1>2, <1>3
<1>5. e.task \in begun \cup {NoName} /\ e.ts \in Nat
  BY <1>1, <1>3, EventsTyped DEF HeardOf
<1> HIDE DEF e
<1>6. \A t : (\A i \in 1..Len(events) : events[i].task = t => events[i].ts > poll.observed)
                => \A i \in 1..Len(events') : events'[i].task = t => events'[i].ts > poll.observed
  BY <1>4
<1>7. /\ worker'.missed \in Nat /\ worker'.missed <= worker.missed
      /\ tasks' \in [WorkerTask -> TaskRow]
      /\ \A t \in WorkerTask :
            /\ tasks'[t].active = "no" => tasks[t].active = "no"
            /\ \/ tasks'[t].state = tasks[t].state /\ tasks'[t].last = tasks[t].last
               \/ t = e.task /\ tasks'[t].last = e.ts
  <2>1. CASE e.task = NoName
    <3>1. WriteWorker(e)
      BY <1>2, <2>1
    <3>2. worker'.missed \in Nat /\ worker'.missed <= worker.missed
      BY <1>1, <3>1 DEF WriteWorker, PresenceShape
    <3>3. \A t \in WorkerTask : tasks'[t] \in {tasks[t], [tasks[t] EXCEPT !.active = "unknown"]}
      BY <3>1 DEF WriteWorker
    <3>4. ASSUME NEW t \in WorkerTask
          PROVE  /\ tasks'[t] \in TaskRow
                 /\ tasks'[t].active = "no" => tasks[t].active = "no"
                 /\ tasks'[t].state = tasks[t].state /\ tasks'[t].last = tasks[t].last
      <4>1. tasks[t] \in TaskRow
        BY <1>1 DEF PresenceShape
      <4> QED BY <3>3, <4>1 DEF TaskRow
    <3> QED BY <3>1, <3>2, <3>4 DEF WriteWorker
  <2>2. CASE e.task # NoName
    <3>1. WriteTask(e) /\ e.task \in WorkerTask
      BY <1>1, <1>2, <1>5, <2>2 DEF PresenceShape
    <3>2. worker' = worker
      BY <3>1 DEF WriteTask
    <3>3. ASSUME NEW t \in WorkerTask
          PROVE  /\ tasks'[t] \in TaskRow
                 /\ tasks'[t].active = tasks[t].active
                 /\ \/ tasks'[t].state = tasks[t].state /\ tasks'[t].last = tasks[t].last
                    \/ t = e.task /\ tasks'[t].last = e.ts
      <4>1. tasks[t] \in TaskRow /\ tasks \in [WorkerTask -> TaskRow]
        BY <1>1 DEF PresenceShape
      <4>2. tasks'[t] = IF t = e.task
                        THEN [tasks[t] EXCEPT !.state = IF e.kind = "started" THEN "STARTED" ELSE "DONE",
                                              !.last = e.ts]
                        ELSE tasks[t]
        BY <3>1, <4>1 DEF WriteTask
      <4> QED BY <1>5, <4>1, <4>2 DEF TaskRow
    <3>4. tasks' \in [WorkerTask -> TaskRow]
      <4>1. DOMAIN tasks' = WorkerTask /\ tasks' = [t \in WorkerTask |-> tasks'[t]]
        BY <1>1, <3>1 DEF WriteTask, PresenceShape
      <4> QED BY <3>3, <4>1
    <3> QED BY <1>1, <3>2, <3>3, <3>4 DEF PresenceShape
  <2> QED BY <2>1, <2>2
<1>8. PresenceShape'
  BY <1>1, <1>2, <1>4, <1>7 DEF PresenceShape
<1>9. HeardOf'
  <2>1. \A i \in 1..Len(events') : events'[i].task \in begun \cup {NoName}
    BY <1>1, <1>4 DEF HeardOf
  <2>2. \A t \in WorkerTask : tasks'[t].state # NoName => t \in begun
    BY <1>1, <1>5, <1>7, WorkerPresenceAssumption DEF HeardOf
  <2> QED BY <1>1, <1>2, <2>1, <2>2 DEF HeardOf
<1>10. JudgingInv'
  <2> SUFFICES ASSUME Judging, NEW t \in executing \ poll.answer.ids
               PROVE  LaterThanRequest(t)'
    BY <1>2 DEF JudgingInv, Judging
  <2>1. LaterThanRequest(t) /\ t \in WorkerTask
    BY <1>1 DEF JudgingInv, PresenceShape
  <2>2. e.task = t => e.ts > poll.observed
    BY <1>3, <2>1 DEF LaterThanRequest
  <2> QED BY <1>2, <1>6, <1>7, <2>1, <2>2 DEF LaterThanRequest
<1>11. AbsenceInv'
  BY <1>1, <1>2, <1>7 DEF AbsenceInv
<1>12. CountInv'
  BY <1>1, <1>2, <1>7 DEF CountInv, PresenceShape
<1> QED BY <1>8, <1>9, <1>10, <1>11, <1>12 DEF PresenceInv

-----------------------------------------------------------------------------
(* A step of the poll that says of no task that it is absent.                *)
LEMMA QuietPoll ==
    ASSUME PresenceInv, UNCHANGED <<worldVars, events>>, PresenceShape',
           poll'.observed = poll.observed \/ poll'.observed <= now,
           Judging' => Judging /\ poll'.answer = poll.answer /\ poll'.observed = poll.observed,
           \A t \in WorkerTask : /\ tasks'[t].state = tasks[t].state /\ tasks'[t].last = tasks[t].last
                                 /\ tasks'[t].active = "no" => tasks[t].active = "no",
           CountInv'
    PROVE  PresenceInv'
<1>1. /\ UNCHANGED <<now, executing, begun, events>>
      /\ PresenceShape /\ HeardOf /\ JudgingInv /\ AbsenceInv
  BY DEF PresenceInv, worldVars
<1>2. HeardOf'
  BY <1>1 DEF HeardOf
<1>3. JudgingInv'
  <2> SUFFICES ASSUME Judging', NEW t \in executing \ poll.answer.ids
               PROVE  LaterThanRequest(t)'
    BY <1>1 DEF JudgingInv
  <2>1. LaterThanRequest(t) /\ t \in WorkerTask
    BY <1>1 DEF JudgingInv, PresenceShape
  <2> QED BY <1>1, <2>1 DEF LaterThanRequest
<1>4. AbsenceInv'
  BY <1>1 DEF AbsenceInv
<1> QED BY <1>2, <1>3, <1>4 DEF PresenceInv

LEMMA IdleTyped == Idle \in [at : Step, observed : Nat, now : Nat, answer : Answer, missed : Nat]
BY DEF Idle, NoAnswer, Answer, Step

LEMMA Cleared ==
    ASSUME PresenceShape, ClearExecution
    PROVE  /\ tasks' \in [WorkerTask -> TaskRow]
           /\ \A t \in WorkerTask : /\ tasks'[t].state = tasks[t].state /\ tasks'[t].last = tasks[t].last
                                    /\ tasks'[t].active = "no" => tasks[t].active = "no"
<1>1. ASSUME NEW t \in WorkerTask
      PROVE  /\ tasks'[t] \in TaskRow
             /\ tasks'[t].state = tasks[t].state /\ tasks'[t].last = tasks[t].last
             /\ tasks'[t].active = "no" => tasks[t].active = "no"
  <2>1. tasks[t] \in TaskRow
    BY DEF PresenceShape
  <2>2. tasks'[t] = tasks[t] \/ tasks'[t] = [tasks[t] EXCEPT !.active = "unknown"]
    BY DEF ClearExecution
  <2> QED BY <2>1, <2>2 DEF TaskRow
<1> QED BY <1>1 DEF ClearExecution

LEMMA PollStartsKeeps == ASSUME PresenceInv, PollStarts PROVE PresenceInv'
<1>1. PICK stats \in {FALSE, alive} :
        poll' = [Idle EXCEPT !.at = "inspecting", !.observed = now, !.answer.stats = stats]
  BY DEF PollStarts
<1>2. /\ UNCHANGED <<worldVars, events, worker, tasks, misses, faults>>
      /\ poll.at = "idle"
  BY DEF PollStarts, presenceTables
<1>3. stats \in BOOLEAN /\ now \in Nat
  BY DEF PresenceInv, PresenceShape
<1>4. poll' = [at |-> "inspecting", observed |-> now, now |-> 0,
               answer |-> [stats |-> stats, active |-> FALSE, ids |-> {}], missed |-> 0]
  BY <1>1 DEF Idle, NoAnswer
<1>5. PresenceShape'
  BY <1>2, <1>3, <1>4 DEF PresenceInv, PresenceShape, Answer, Step, worldVars
<1>6. CountInv'
  BY <1>2, <1>4 DEF PresenceInv, CountInv
<1>7. ~Judging' /\ poll'.observed <= now
  BY <1>3, <1>4 DEF Judging
<1> QED BY <1>2, <1>5, <1>6, <1>7, QuietPoll

(* The answer: whoever executes a task now is in it, or the worker did not   *)
(* tell.                                                                     *)
LEMMA InspectedKeeps == ASSUME PresenceInv, Inspected PROVE PresenceInv'
<1>1. PresenceShape /\ HeardOf /\ AbsenceInv /\ CountInv
  BY DEF PresenceInv
<1>2. PICK active \in {FALSE, alive} :
        LET answers == poll.answer.stats \/ active
        IN  /\ poll' = [poll EXCEPT !.at = IF answers THEN "answered" ELSE "missing",
                                    !.now = now,
                                    !.answer.active = active,
                                    !.answer.ids = IF active THEN executing ELSE {}]
            /\ misses' = IF answers \/ misses = MissedPollsThreshold THEN misses ELSE misses + 1
  BY DEF Inspected
<1>3. /\ UNCHANGED <<now, alive, executing, begun, events, worker, tasks, faults>>
      /\ poll.at = "inspecting"
  BY DEF Inspected, presenceTables, worldVars
<1>4. active \in BOOLEAN /\ poll.answer.stats \in BOOLEAN
  BY <1>1, PollTyped DEF PresenceShape
<1>5. /\ poll \in [at : Step, observed : Nat, now : Nat, answer : Answer, missed : Nat]
      /\ executing \subseteq WorkerTask /\ now \in Nat
  BY <1>1 DEF PresenceShape
<1>6. /\ poll' \in [at : Step, observed : Nat, now : Nat, answer : Answer, missed : Nat]
      /\ poll'.observed = poll.observed
      /\ poll'.answer.active = active
      /\ poll'.answer.ids = IF active THEN executing ELSE {}
      /\ poll'.at = IF poll.answer.stats \/ active THEN "answered" ELSE "missing"
  BY <1>2, <1>4, <1>5 DEF Answer, Step
<1>7. misses' = IF poll'.at = "answered" \/ misses = MissedPollsThreshold THEN misses ELSE misses + 1
  BY <1>2, <1>6
<1>8. PresenceShape'
  BY <1>1, <1>3, <1>6, <1>7, WorkerPresenceAssumption DEF PresenceShape
<1>9. HeardOf' /\ AbsenceInv'
  BY <1>1, <1>3, <1>6 DEF HeardOf, AbsenceInv
<1>10. JudgingInv'
  BY <1>3, <1>6 DEF JudgingInv, Judging
<1>11. CountInv'
  BY <1>1, <1>3, <1>6, <1>7, WorkerPresenceAssumption DEF CountInv, PresenceShape
<1> QED BY <1>8, <1>9, <1>10, <1>11 DEF PresenceInv

LEMMA UpsertWorkerKeeps == ASSUME PresenceInv, UpsertWorker PROVE PresenceInv'
<1>1. /\ UNCHANGED <<worldVars, events, tasks, faults>>
      /\ worker'.missed = 0 /\ misses' = 0
      /\ poll.at = "answered" /\ poll' = [poll EXCEPT !.at = "upserted"]
  BY DEF UpsertWorker, Continue
<1>2. /\ poll' \in [at : Step, observed : Nat, now : Nat, answer : Answer, missed : Nat]
      /\ poll'.at = "upserted" /\ poll'.answer = poll.answer /\ poll'.observed = poll.observed
  BY <1>1 DEF PresenceInv, PresenceShape, Step
<1>3. PresenceShape'
  BY <1>1, <1>2, WorkerPresenceAssumption DEF PresenceInv, PresenceShape, worldVars
<1>4. CountInv'
  BY <1>1, <1>2 DEF CountInv
<1> QED BY <1>1, <1>2, <1>3, <1>4, QuietPoll DEF Judging

(* What was known to be started at the request and is not in the answer is   *)
(* over.                                                                     *)
LEMMA UpdateExecutionKeeps == ASSUME PresenceInv, UpdateExecution PROVE PresenceInv'
<1>1. PresenceShape /\ HeardOf /\ JudgingInv /\ AbsenceInv /\ CountInv
  BY DEF PresenceInv
<1>2. /\ UNCHANGED <<now, alive, executing, begun, events, worker, misses, faults>>
      /\ poll.at = "upserted" /\ poll' = Idle
      /\ IF poll.answer.active THEN ObserveExecution ELSE ClearExecution
  BY DEF UpdateExecution, worldVars
<1>3. poll'.at = "idle" /\ poll'.observed = 0 /\ ~Judging'
  BY <1>2 DEF Idle, Judging
<1>4. CountInv'
  BY <1>1, <1>2, <1>3 DEF CountInv
<1>5. CASE ~poll.answer.active
  <2>1. PresenceShape'
    BY <1>1, <1>2, <1>5, IdleTyped, Cleared DEF PresenceShape
  <2> QED BY <1>1, <1>2, <1>3, <1>4, <1>5, <2>1, Cleared, QuietPoll DEF worldVars, PresenceShape
<1>6. CASE poll.answer.active
  <2>1. ASSUME NEW t \in WorkerTask
        PROVE  /\ tasks'[t] \in TaskRow
               /\ tasks'[t].state = tasks[t].state /\ tasks'[t].last = tasks[t].last
               /\ tasks'[t].active = "no" =>
                    \/ tasks[t].active = "no"
                    \/ t \notin poll.answer.ids /\ tasks[t].state = "STARTED" /\ tasks[t].last <= poll.observed
    <3>1. tasks[t] \in TaskRow /\ poll.observed \in Nat
      BY <1>1, PollTyped DEF PresenceShape
    <3>2. tasks'[t] = IF tasks[t].state = "STARTED" /\ tasks[t].last <= poll.observed
                      THEN [tasks[t] EXCEPT !.active = Shown(t), !.observed = poll.observed]
                      ELSE tasks[t]
      BY <1>2, <1>6 DEF ObserveExecution
    <3>3. Shown(t) \in {"yes", "no"} /\ (Shown(t) = "no" => t \notin poll.answer.ids)
      BY DEF Shown
    <3> QED BY <3>1, <3>2, <3>3 DEF TaskRow
  <2>2. PresenceShape'
    <3>1. tasks' \in [WorkerTask -> TaskRow]
      BY <1>2, <1>6, <2>1 DEF ObserveExecution
    <3> QED BY <1>1, <1>2, <3>1, IdleTyped DEF PresenceShape
  <2>3. HeardOf'
    BY <1>1, <1>2, <1>3, <2>1 DEF HeardOf, PresenceShape
  <2>4. ASSUME NEW t \in WorkerTask, tasks'[t].active = "no"
        PROVE  t \notin executing /\ t \in begun
    <3>1. CASE tasks[t].active = "no"
      BY <1>1, <3>1 DEF AbsenceInv
    <3>2. CASE t \notin poll.answer.ids /\ tasks[t].state = "STARTED" /\ tasks[t].last <= poll.observed
      <4>1. tasks[t].last \in Nat /\ poll.observed \in Nat
        BY <1>1, PollTyped DEF PresenceShape, TaskRow
      <4>2. t \in begun /\ tasks[t].state # NoName
        BY <1>1, <3>2 DEF HeardOf, NoName
      <4>3. Judging
        BY <1>2, <1>6 DEF Judging
      <4> QED BY <1>1, <3>2, <4>1, <4>2, <4>3 DEF JudgingInv, LaterThanRequest
    <3> QED BY <2>1, <2>4, <3>1, <3>2
  <2> QED BY <1>2, <1>3, <1>4, <2>2, <2>3, <2>4 DEF PresenceInv, JudgingInv, AbsenceInv
<1> QED BY <1>5, <1>6

LEMMA MissingKeeps ==
    ASSUME PresenceInv, ReadKnown \/ ClearMissing \/ WriteMissed \/ PollFails
    PROVE  PresenceInv'
<1>1. PresenceShape /\ HeardOf /\ CountInv
  BY DEF PresenceInv
<1>2. Idle.at = "idle" /\ Idle.observed = 0
  BY DEF Idle
<1>3. /\ poll \in [at : Step, observed : Nat, now : Nat, answer : Answer, missed : Nat]
      /\ worker.missed \in Nat /\ poll.missed \in Nat /\ misses \in Nat /\ now \in Nat
  BY <1>1, PollTyped DEF PresenceShape
<1>4. CASE ReadKnown
  <2>1. /\ UNCHANGED <<worldVars, events, worker, tasks, misses, faults>>
        /\ poll.at = "missing"
        /\ poll' = [poll EXCEPT !.at = "read", !.missed = worker.missed + 1] \/ poll' = Idle
    BY <1>4 DEF ReadKnown, presenceTables
  <2>2. /\ poll' \in [at : Step, observed : Nat, now : Nat, answer : Answer, missed : Nat]
        /\ poll'.observed = poll.observed \/ poll'.observed <= now
        /\ poll'.at = "idle" \/ (poll'.at = "read" /\ poll'.missed = worker.missed + 1)
    <3>1. CASE poll' = Idle
      BY <1>2, <1>3, <3>1, IdleTyped
    <3>2. CASE poll' = [poll EXCEPT !.at = "read", !.missed = worker.missed + 1]
      <4>1. worker.missed + 1 \in Nat /\ "read" \in Step
        BY <1>3 DEF Step
      <4> QED BY <1>3, <3>2, <4>1
    <3> QED BY <2>1, <3>1, <3>2
  <2>3. PresenceShape'
    BY <1>1, <2>1, <2>2 DEF PresenceShape, worldVars
  <2>4. CountInv'
    BY <1>1, <1>3, <2>1, <2>2 DEF CountInv
  <2> QED BY <2>1, <2>2, <2>3, <2>4, QuietPoll DEF Judging
<1>5. CASE ClearMissing
  <2>1. /\ UNCHANGED <<worldVars, events, worker, misses, faults>> /\ ClearExecution
        /\ poll.at = "read" /\ poll' = [poll EXCEPT !.at = "cleared"]
    BY <1>5 DEF ClearMissing, Continue
  <2>2. /\ poll' \in [at : Step, observed : Nat, now : Nat, answer : Answer, missed : Nat]
        /\ poll'.observed = poll.observed /\ poll'.at = "cleared" /\ poll'.missed = poll.missed
    BY <1>3, <2>1 DEF Step
  <2>3. PresenceShape'
    BY <1>1, <2>1, <2>2, Cleared DEF PresenceShape, worldVars
  <2>4. CountInv'
    BY <1>1, <2>1, <2>2 DEF CountInv
  <2> QED BY <1>1, <2>1, <2>2, <2>3, <2>4, Cleared, QuietPoll DEF Judging
<1>6. CASE WriteMissed
  <2>1. /\ UNCHANGED <<worldVars, events, tasks, misses, faults>>
        /\ poll.at = "cleared" /\ poll' = Idle
        /\ worker' = IF poll.missed >= MissedPollsThreshold
                     THEN [worker EXCEPT !.status = "offline", !.missed = poll.missed, !.last = poll.now]
                     ELSE [worker EXCEPT !.missed = poll.missed]
    BY <1>6 DEF WriteMissed
  <2>2. worker'.missed \in {worker.missed, poll.missed}
    BY <2>1
  <2>3. PresenceShape'
    BY <1>1, <1>3, <2>1, <2>2, IdleTyped DEF PresenceShape, worldVars
  <2>4. CountInv'
    BY <1>1, <1>2, <1>3, <2>1, <2>2 DEF CountInv
  <2> QED BY <1>2, <1>3, <2>1, <2>3, <2>4, QuietPoll DEF Judging
<1>7. CASE PollFails
  <2>1. UNCHANGED <<worldVars, events, worker, tasks, misses>> /\ poll' = Idle
    BY <1>7 DEF PollFails, presenceTables
  <2>2. PresenceShape'
    BY <1>1, <2>1, IdleTyped DEF PresenceShape, worldVars
  <2>3. CountInv'
    BY <1>1, <1>2, <2>1 DEF CountInv
  <2> QED BY <1>2, <1>3, <2>1, <2>2, <2>3, QuietPoll DEF Judging
<1> QED BY <1>4, <1>5, <1>6, <1>7

LEMMA PresenceStep == PresenceInv /\ [PresenceNext]_presenceVars => PresenceInv'
<1> SUFFICES ASSUME PresenceInv, [PresenceNext]_presenceVars PROVE PresenceInv'
  OBVIOUS
<1>1. CASE UNCHANGED presenceVars
  BY <1>1 DEF presenceVars, worldVars, presenceTables, pollVars, PresenceInv, PresenceShape, HeardOf, JudgingInv,
     Judging, LaterThanRequest, AbsenceInv, CountInv
<1>2. CASE PollStep
  BY <1>2, PollStartsKeeps, UpsertWorkerKeeps, UpdateExecutionKeeps, MissingKeeps DEF PollStep
<1>3. CASE PresenceNext
  BY <1>2, <1>3, WorkerKeeps, WriteEventKeeps, InspectedKeeps, MissingKeeps DEF PresenceNext
<1> QED BY <1>1, <1>3

LEMMA PresenceInvariant == PresenceSpec => []PresenceInv
<1> QED BY InitPresence, PresenceStep, PTL DEF PresenceSpec

-----------------------------------------------------------------------------
(* A task shown as started and not executed has ended, however the poll's    *)
(* awaits, the worker and the events that are written meanwhile interleave.  *)
THEOREM AbsenceProves == PresenceSpec => []AbsenceIsProof
<1>1. PresenceInv => AbsenceIsProof
  BY DEF PresenceInv, AbsenceInv, AbsenceIsProof
<1> QED BY <1>1, PresenceInvariant, PTL

(* A poll marks a worker offline only after as many polls without an answer  *)
(* as the threshold, though it read the count it writes earlier and an event *)
(* may have reset it since.                                                  *)
THEOREM OfflineNotTooEarly == PresenceSpec => OfflineAfterMisses
<1>1. PresenceInv /\ WriteMissed /\ worker.status = "online" /\ worker'.status = "offline"
        => misses >= MissedPollsThreshold
  <2> SUFFICES ASSUME PresenceInv, WriteMissed, worker.status = "online", worker'.status = "offline"
               PROVE  misses >= MissedPollsThreshold
    OBVIOUS
  <2>1. poll.at = "cleared"
    BY DEF WriteMissed
  <2>2. poll.missed >= MissedPollsThreshold
    <3>1. CASE worker' = [worker EXCEPT !.missed = poll.missed]
      BY <3>1
    <3> QED BY <3>1 DEF WriteMissed
  <2>3. poll.missed \in Nat /\ misses \in Nat /\ MissedPollsThreshold \in Nat
    BY PollTyped, WorkerPresenceAssumption DEF PresenceInv, PresenceShape
  <2> QED BY <2>1, <2>2, <2>3 DEF PresenceInv, CountInv
<1> QED BY <1>1, PresenceInvariant, PTL DEF OfflineAfterMisses

-----------------------------------------------------------------------------
(* Each part of Records behaves as its own specification says, so that the   *)
(* theorems above hold of it.                                                *)
THEOREM PartsAreImplemented == AllRecordsSpec => RecordsSpec /\ PresenceSpec
<1>1. AllRecordsInit => RecordsInit /\ PresenceInit
      BY DEF AllRecordsInit
<1>2. ASSUME [AllRecordsNext]_allRecords
      PROVE  [RecordsNext]_recordsVars /\ [PresenceNext]_presenceVars
  <2>1. CASE AllRecordsNext
        BY <2>1 DEF AllRecordsNext
  <2>2. CASE UNCHANGED allRecords
        BY <2>2 DEF allRecords
  <2>3. QED  BY <1>2, <2>1, <2>2
<1>3. QED  BY <1>1, <1>2, PTL DEF AllRecordsSpec, RecordsSpec, PresenceSpec
=============================================================================
