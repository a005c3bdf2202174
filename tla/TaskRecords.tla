---------------------------- MODULE TaskRecords ----------------------------
(* How task events (server/events/ingester.py) and polls of the result       *)
(* backend (server/tasks/result_fetcher.py) merge into one task row and the  *)
(* summary of its workflow.                                                  *)
(*                                                                           *)
(* Tasks go through their History; each step may emit a Celery event, which  *)
(* is lost or written later, in any order and more than once.  The poller    *)
(* reads a task's metadata from the backend in one step and writes what it   *)
(* read in another.  One transaction is one step: they all write the rows of *)
(* the workflow, so that SurrealDB lets only one of two overlapping ones     *)
(* commit.  Time is even at the steps of a task; the worker stores a result  *)
(* right before it sends the event, at the odd time before.                  *)
EXTENDS Integers, Sequences, FiniteSets

CONSTANTS
    Task,
    RootOf,         \* root_id of each task
    History,        \* the states each task goes through, the last one terminal
    Carrying        \* states whose events carry root_id and parent_id

State == {"PENDING", "RECEIVED", "STARTED", "RETRY", "SUCCESS", "FAILURE", "REVOKED"}
Terminal == {"SUCCESS", "FAILURE", "REVOKED"}
Active == {"PENDING", "RECEIVED", "STARTED"}
None == "none"

ASSUME TaskRecordsAssumption ==
    /\ RootOf \in [Task -> Task]
    /\ \A t \in Task : RootOf[RootOf[t]] = RootOf[t]
    /\ Carrying \subseteq State
    /\ History \in [Task -> Seq(State)]
    /\ \A t \in Task : History[t] # <<>> /\ History[t][Len(History[t])] \in Terminal
    /\ None \notin Task

VARIABLES
    clock,
    progress,    \* [Task -> steps of its history so far]
    since,       \* [Task -> time of the last one]
    emitted,     \* events on their way or written, for all we know
    applied,     \* events written
    reading,     \* [Task -> metadata the poller has read and not written]
    seen,        \* ResultBackendPoller._seen
    rows,        \* the task table
    workflows,   \* summaries in the workflow table
    edges        \* workflow_task

clusterVars == <<clock, progress, since, emitted>>
tableVars == <<rows, workflows, edges>>
recordsVars == <<clusterVars, applied, reading, seen, tableVars>>

NoRow == [state |-> None, last |-> 0, observed |-> FALSE, rooted |-> FALSE, workflow |-> None]
NoMeta == [status |-> None, date |-> 0]
Absent == [total |-> 0, completed |-> 0, aggregate |-> None]

EndOfTime == 2 * Cardinality(UNION {{t} \X DOMAIN History[t] : t \in Task})
Time == 0..EndOfTime
Event == [task : Task, state : State, ts : Time]
Meta == [status : State, date : Time]

RecordsTypeOK ==
    /\ clock \in Time
    /\ progress \in [Task -> Nat] /\ \A t \in Task : progress[t] <= Len(History[t])
    /\ since \in [Task -> Time]
    /\ applied \subseteq emitted /\ emitted \subseteq Event
    /\ reading \in [Task -> Meta \cup {NoMeta}]
    /\ seen \in [Task -> Meta \cup {NoMeta}]
    /\ rows \in [Task -> [state : State, last : Time, observed : BOOLEAN,
                          rooted : BOOLEAN, workflow : Task] \cup {NoRow}]
    /\ workflows \in [Task -> [total : 0..Cardinality(Task), completed : 0..Cardinality(Task),
                               aggregate : State] \cup {Absent}]
    /\ edges \subseteq Task \X Task

RecordsInit ==
    /\ clock = 0
    /\ progress = [t \in Task |-> 0]
    /\ since = [t \in Task |-> 0]
    /\ emitted = {}
    /\ applied = {}
    /\ reading = [t \in Task |-> NoMeta]
    /\ seen = [t \in Task |-> NoMeta]
    /\ rows = [t \in Task |-> NoRow]
    /\ workflows = [t \in Task |-> Absent]
    /\ edges = {}

-----------------------------------------------------------------------------
(* The cluster: a task reaches its next state, and its event gets out or not. *)
Happen(t) ==
    /\ progress[t] < Len(History[t])
    /\ clock' = clock + 2
    /\ progress' = [progress EXCEPT ![t] = @ + 1]
    /\ since' = [since EXCEPT ![t] = clock']
    /\ LET e == [task |-> t, state |-> History[t][progress'[t]], ts |-> clock']
       IN  emitted' \in {emitted, emitted \cup {e}}
    /\ UNCHANGED <<applied, reading, seen, tableVars>>

(* What the result backend keeps: nothing before a task has started, a date  *)
(* with its outcome only.                                                    *)
Backend(t) ==
    LET status == IF progress[t] = 0 THEN None ELSE History[t][progress[t]]
    IN  CASE status \in Terminal -> [status |-> status, date |-> since[t] - 1]
          [] status \in {"STARTED", "RETRY"} -> [status |-> status, date |-> 0]
          [] OTHER -> NoMeta

-----------------------------------------------------------------------------
Exists(r) == r.state # None

(* build_workflow_summary_recompute.                                         *)
Members(table, w) == {t \in Task : table[t].workflow = w}

Summary(table, w) ==
    LET in(S) == {t \in Members(table, w) : table[t].state \in S}
    IN  [total |-> Cardinality(Members(table, w)),
         completed |-> Cardinality(in(Terminal)),
         aggregate |-> IF in({"FAILURE"}) # {} THEN "FAILURE"
                       ELSE IF in({"RETRY"}) # {} THEN "RETRY"
                       ELSE IF in(Active) # {} THEN "STARTED"
                       ELSE IF Members(table, w) # {} THEN "SUCCESS"
                       ELSE "PENDING"]

Grouping(e) == IF e.state \in Carrying THEN RootOf[e.task] ELSE e.task

(* Mutant: the workflow the event names, not the one the task is in. *)
SummarizeNamed(table, wfs, e, w) ==
    [wfs EXCEPT ![Grouping(e)] = Summary(table, Grouping(e))]

Summarize(table, wfs, e, w) == [wfs EXCEPT ![w] = Summary(table, w)]

(* Mutant: the event applies whatever its time. *)
AppliesAlways(e, r) == TRUE

(* build_task_upsert's apply_state.                                          *)
Applies(e, r) ==
    \/ ~Exists(r)
    \/ e.ts > r.last
    \/ e.state \in Terminal /\ r.observed /\ (r.state \notin Terminal \/ r.state = e.state)

(* The row after an event; an older event leaves state and time alone.       *)
EventRow(e, r) ==
    [state    |-> IF Applies(e, r) THEN e.state ELSE r.state,
     last     |-> IF Applies(e, r) THEN e.ts ELSE r.last,
     observed |-> IF Applies(e, r) THEN FALSE ELSE r.observed,
     rooted   |-> r.rooted \/ e.state \in Carrying,
     workflow |-> IF e.state \in Carrying
                  THEN IF ~r.rooted \/ Applies(e, r) \/ e.ts >= r.last THEN RootOf[e.task] ELSE r.workflow
                  ELSE IF Exists(r) THEN r.workflow ELSE e.task]

(* The workflow a task leaves when its root becomes known is deleted, with   *)
(* its edges, if that was its only task.                                     *)
Emptied(e, r, table) ==
    {w \in Task : /\ e.state \in Carrying
                  /\ Exists(r) /\ r.workflow = w /\ w # RootOf[e.task]
                  /\ Members(table, w) = {}}

(* One event's statements in _flush_buffer.  build_children_update would     *)
(* create a missing parent without workflow_id, which the schema refuses.    *)
Apply(e) ==
    LET r == rows[e.task]
        row == EventRow(e, r)
        table == [rows EXCEPT ![e.task] = row]
        gone == Emptied(e, r, table)
        kept == [w \in Task |-> IF w \in gone THEN Absent ELSE workflows[w]]
    IN  /\ e.state \in Carrying \cap {"PENDING", "RECEIVED"} /\ RootOf[e.task] # e.task
              => Exists(rows[RootOf[e.task]])
        /\ rows' = table
        /\ workflows' = Summarize(table, kept, e, row.workflow)
        /\ edges' = {p \in edges : p[1] \notin gone} \cup {<<row.workflow, e.task>>}
        /\ applied' = applied \cup {e}
        /\ UNCHANGED <<clusterVars, reading, seen>>

-----------------------------------------------------------------------------
(* _poll_once: read the metadata, unless its stamp has been seen.            *)
PollRead(t) ==
    /\ reading[t] = NoMeta
    /\ Backend(t) # NoMeta
    /\ Backend(t) # seen[t]
    /\ reading' = [reading EXCEPT ![t] = Backend(t)]
    /\ UNCHANGED <<clusterVars, applied, seen, tableVars>>

(* Mutant: undated metadata overrides an outcome. *)
PollAppliesUndated(m, r) ==
    \/ ~Exists(r)
    \/ m.date = 0
    \/ m.date >= r.last
    \/ r.observed /\ (r.state \notin Terminal \/ r.state = m.status)

(* _build_task_meta_upsert's meta_apply_state.                               *)
PollApplies(m, r) ==
    \/ ~Exists(r)
    \/ m.date > 0 /\ \/ m.date >= r.last
                     \/ r.observed /\ (r.state \notin Terminal \/ r.state = m.status)
    \/ m.date = 0 /\ r.state \notin Terminal

(* Undated metadata of an unknown task is given the monitor's time.          *)
PollRow(t, m, r) ==
    LET stamp == IF m.date > 0 THEN m.date ELSE IF Exists(r) THEN r.last ELSE clock
        observed == IF m.date > 0 THEN FALSE ELSE IF Exists(r) THEN r.observed ELSE TRUE
    IN  [state    |-> IF PollApplies(m, r) THEN m.status ELSE r.state,
         last     |-> IF PollApplies(m, r) THEN stamp ELSE r.last,
         observed |-> IF PollApplies(m, r) THEN observed ELSE r.observed,
         rooted   |-> r.rooted,
         workflow |-> IF Exists(r) THEN r.workflow ELSE t]

PollWrite(t) ==
    LET m == reading[t]
        row == PollRow(t, m, rows[t])
        table == [rows EXCEPT ![t] = row]
    IN  /\ m # NoMeta
        /\ rows' = table
        /\ workflows' = [workflows EXCEPT ![row.workflow] = Summary(table, row.workflow)]
        /\ seen' = [seen EXCEPT ![t] = m]
        /\ reading' = [reading EXCEPT ![t] = NoMeta]
        /\ UNCHANGED <<clusterVars, applied, edges>>

(* The backend, the database or a conflict makes the poll of a task fail;    *)
(* the stamp is not recorded.                                                *)
ResultPollFails(t) ==
    /\ reading[t] # NoMeta
    /\ reading' = [reading EXCEPT ![t] = NoMeta]
    /\ UNCHANGED <<clusterVars, applied, seen, tableVars>>

RecordsNext ==
    \/ \E t \in Task : Happen(t) \/ PollRead(t) \/ PollWrite(t) \/ ResultPollFails(t)
    \/ \E e \in emitted : Apply(e)

RecordsSpec == RecordsInit /\ [][RecordsNext]_recordsVars

-----------------------------------------------------------------------------
Outcome(t) == History[t][Len(History[t])]
Over(t) == progress[t] = Len(History[t])

(* Once the outcome of a finished task has reached the database, as event or *)
(* as polled metadata, the row shows it for good: no late, repeated or       *)
(* reordered event and no stale poll changes it ("out-of-order protection",  *)
(* ingester.py:355, and the guards of result_fetcher.py:149-160).            *)
OutcomeSticks ==
    \A t \in Task :
        (Over(t) /\ \/ \E e \in applied : e.task = t /\ e.ts = since[t]
                    \/ seen[t] = Backend(t))
            => rows[t].state = Outcome(t)

(* Evidence only gets later: last_updated goes back only from a time at      *)
(* which the monitor merely looked, and an outcome is replaced by later      *)
(* evidence alone.                                                           *)
NeverBackward ==
    [][\A t \in Task : Exists(rows[t]) =>
          /\ rows[t].observed \/ rows'[t].last >= rows[t].last
          /\ rows[t].state \in Terminal /\ rows'[t].state # rows[t].state => rows'[t].last > rows[t].last]_recordsVars

(* The workflows are those of the tasks: each has the counts and the state   *)
(* its tasks add up to, none is left over from the time a task's root was    *)
(* unknown ("phantom single-task workflow", ingester.py:452), none is        *)
(* missing, and no task is listed in two; though each write recomputes one   *)
(* workflow only, and tasks change workflow when their root becomes known.   *)
SummaryMatches ==
    /\ \A w \in Task : workflows[w] = IF Members(rows, w) = {} THEN Absent ELSE Summary(rows, w)
    /\ \A p \in edges : rows[p[2]].workflow = p[1]
=============================================================================
