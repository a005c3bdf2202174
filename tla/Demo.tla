--------------------------------- MODULE Demo ---------------------------------
(* The demo: a database inside the page (DemoSurrealDBProvider of            *)
(* src/components/surrealdb-provider.tsx) and the generator that fills it    *)
(* with tasks, workflows and heartbeats (src/lib/demo-event-generator.ts).   *)
(* Each of the generator's loops awaits one query after the other, and the   *)
(* queries of the loops interleave.                                          *)
EXTENDS Integers, Sequences, FiniteSets, SequencesExt

CONSTANTS
    Single,           \* tasks that run alone
    Workflow,         \* sequences of tasks: a root and its children
    Workers,          \* DEMO_WORKERS in order
    WorkerOf,         \* the worker of each task
    SeedPlan          \* what is seeded: a sequence of "single", "workflow", "partial"

Families == {<<t>> : t \in Single} \cup Workflow
Member == UNION {ToSet(f) : f \in Families}
Loop == {"seed", "single", "workflow", "beat"}

ASSUME DemoAssumption ==
    /\ WorkerOf \in [Member -> ToSet(Workers)]
    /\ \A f, g \in Families : f # g => ToSet(f) \cap ToSet(g) = {}
    /\ \A f \in Workflow : f \in Seq(ToSet(f)) /\ Len(f) > 1 /\ IsInjective(f)

VARIABLES
    stage,            \* how far initDemo is
    mounted,          \* the provider is mounted
    database,         \* "none", "open" or "closed"
    generator,        \* "none", "running" or "stopped"
    timers,           \* what is armed: names of loops
    todo,             \* what is left of the seeds
    loops,            \* each loop: its place, the events left, the worker
    used,             \* families that have been generated
    events,           \* table event: by task, in order
    tasks,            \* table task: state and execution_active
    summaries,        \* table workflow: by first task
    inspected         \* table worker: active tasks of the inspection

provider == <<stage, mounted, database>>
tables == <<events, tasks, summaries, inspected>>
demoVars == <<provider, generator, timers, todo, loops, used, tables>>

StateOf ==
    [sent |-> "PENDING", received |-> "RECEIVED", started |-> "STARTED",
     succeeded |-> "SUCCESS", failed |-> "FAILURE", retried |-> "RETRY"]

NoRow == [state |-> "none", active |-> FALSE]
Idle == [at |-> "idle", script |-> <<>>, family |-> <<>>, members |-> <<>>, worker |-> 0]

DemoTypeOK ==
    /\ stage \in {"downloading", "connecting", "defining", "ready", "cancelled"}
    /\ database \in {"none", "open", "closed"} /\ generator \in {"none", "running", "stopped"}
    /\ timers \subseteq Loop /\ used \subseteq Families
    /\ \A l \in Loop : loops[l].at \in {"idle", "event", "touch", "read", "write",
                                         "inspect", "report", "mark"}
    /\ tasks \in [Member -> [state : {"none"} \cup {StateOf[k] : k \in DOMAIN StateOf},
                             active : BOOLEAN]]
    /\ inspected \in [ToSet(Workers) -> SUBSET Member]

DemoInit ==
    /\ stage = "downloading" /\ mounted = TRUE /\ database = "none"
    /\ generator = "none" /\ timers = {} /\ todo = <<>>
    /\ loops = [l \in Loop |-> Idle] /\ used = {}
    /\ events = [t \in Member |-> <<>>]
    /\ tasks = [t \in Member |-> NoRow]
    /\ summaries = [f \in Families |-> <<>>]
    /\ inspected = [w \in ToSet(Workers) |-> {}]

-----------------------------------------------------------------------------
(* What a family goes through.                                               *)
Event(t, kind) == [task |-> t, kind |-> kind]
Sent(t) == <<Event(t, "sent"), Event(t, "received"), Event(t, "started")>>

Endings(t) == {<<Event(t, "succeeded")>>, <<Event(t, "failed")>>}
Retrial(t) == <<Event(t, "retried"), Event(t, "started"), Event(t, "succeeded")>>

Lifecycles(t) == {Sent(t) \o e : e \in Endings(t) \cup {Retrial(t)}}

(* The children of a workflow run one after the other and are not retried,   *)
(* the root ends last.                                                       *)
OfChildren(f, ends) ==
    [k \in 1..4 * (Len(f) - 1) |->
        LET n == 2 + (k - 1) \div 4
        IN  Event(f[n], <<"sent", "received", "started", ends[n]>>[1 + ((k - 1) % 4)])]

WorkflowScripts(f) ==
    LET after(ends) == {Sent(f[1]) \o (OfChildren(f, ends) \o e) : e \in Endings(f[1])}
    IN  UNION {after(ends) : ends \in [2..Len(f) -> {"succeeded", "failed"}]}

PartialScripts(t) == {SubSeq(Sent(t), 1, n) : n \in 2..3}

ScriptsOf(piece, f) ==
    CASE piece = "workflow" -> IF f \in Workflow THEN WorkflowScripts(f) ELSE {}
      [] piece = "single"   -> IF f \in Workflow THEN {} ELSE Lifecycles(f[1])
      [] piece = "partial"  -> IF f \in Workflow THEN {} ELSE PartialScripts(f[1])

(* A family with new ids and a way it may go; what the loop does then.       *)
Begins(l, piece) ==
    \E f \in Families \ used : \E s \in ScriptsOf(piece, f) :
        /\ used' = used \cup {f}
        /\ loops' = [loops EXCEPT ![l] = [Idle EXCEPT !.at = "event", !.script = s, !.family = f]]

-----------------------------------------------------------------------------
(* initDemo: each await is followed by a look at `cancelled`, except those   *)
(* between the queries that define the schema.                               *)
Downloads ==
    /\ stage = "downloading"
    /\ stage' = IF mounted THEN "connecting" ELSE "cancelled"
    /\ UNCHANGED <<mounted, database, generator, timers, todo, loops, used, tables>>

OpensDatabase ==
    /\ stage = "connecting"
    /\ stage' = IF mounted THEN "defining" ELSE "cancelled"
    /\ database' = IF mounted THEN "open" ELSE "closed"
    /\ UNCHANGED <<mounted, generator, timers, todo, loops, used, tables>>

GoesOn == mounted

(* The schema is applied, the generator starts: seedWorkers comes first.     *)
Defines ==
    /\ stage = "defining"
    /\ IF GoesOn
       THEN /\ stage' = "ready" /\ generator' = "running"
            /\ todo' = <<"workers">> \o SeedPlan \o <<"beat">>
            /\ UNCHANGED database
       ELSE stage' = "cancelled" /\ database' = "closed" /\ UNCHANGED <<generator, todo>>
    /\ UNCHANGED <<mounted, timers, loops, used, tables>>

(* The clean-up of the effect: stop() and close() of what the refs hold.     *)
Unmounts ==
    /\ mounted /\ mounted' = FALSE
    /\ IF stage = "ready"
       THEN generator' = "stopped" /\ timers' = {} /\ database' = "closed"
       ELSE UNCHANGED <<generator, timers, database>>
    /\ UNCHANGED <<stage, todo, loops, used, tables>>

-----------------------------------------------------------------------------
Running == generator = "running"
Places(l, place) == loops' = [loops EXCEPT ![l].at = place]

(* The next piece of start(): skipped when stopped.                          *)
SeedsWorkers ==
    /\ loops["seed"] = Idle /\ todo # <<>> /\ Head(todo) = "workers"
    /\ todo' = Tail(todo)
    /\ inspected' = [w \in DOMAIN inspected |-> IF Running THEN {} ELSE inspected[w]]
    /\ UNCHANGED <<provider, generator, timers, loops, used, events, tasks, summaries>>

Seeds ==
    /\ loops["seed"] = Idle /\ todo # <<>> /\ Head(todo) \in {"single", "workflow", "partial"}
    /\ todo' = Tail(todo)
    /\ IF Running THEN Begins("seed", Head(todo)) ELSE UNCHANGED <<loops, used>>
    /\ UNCHANGED <<provider, generator, timers, tables>>

SeedsBeat ==
    /\ loops["seed"] = Idle /\ todo = <<"beat">>
    /\ todo' = <<"timers">>
    /\ loops' = IF Running
                THEN [loops EXCEPT !["seed"] = [Idle EXCEPT !.at = "inspect", !.worker = 1]]
                ELSE loops
    /\ UNCHANGED <<provider, generator, timers, used, tables>>

(* startContinuousGeneration looks whether it is stopped, the interval of    *)
(* the heartbeats is set regardless.                                         *)
ArmsTimers ==
    /\ loops["seed"] = Idle /\ todo = <<"timers">>
    /\ todo' = <<>>
    /\ timers' = timers \cup {"beat"} \cup (IF Running THEN {"single", "workflow"} ELSE {})
    /\ UNCHANGED <<provider, generator, loops, used, tables>>

(* A timeout: it is armed again when its family has been generated.          *)
TimeoutFires(l) ==
    /\ l \in timers \cap {"single", "workflow"}
    /\ timers' = timers \ {l}
    /\ Begins(l, l)
    /\ UNCHANGED <<provider, generator, todo, tables>>

BeatFires ==
    /\ "beat" \in timers /\ loops["beat"] = Idle /\ Running
    /\ loops' = [loops EXCEPT !["beat"] = [Idle EXCEPT !.at = "inspect", !.worker = 1]]
    /\ UNCHANGED <<provider, generator, timers, todo, used, tables>>

(* The loop has nothing left to do, or its query has failed.                 *)
Finishes(l) ==
    /\ loops' = [loops EXCEPT ![l] = Idle]
    /\ timers' = IF l \in {"single", "workflow"} /\ Running THEN timers \cup {l} ELSE timers

(* The database has been closed: the query is rejected and the loop's catch  *)
(* ends it.  An error of a heartbeat is ignored, and start() goes on.        *)
QueryRejected(l) ==
    /\ loops[l] # Idle /\ database = "closed"
    /\ Finishes(l)
    /\ todo' = IF l = "seed" /\ loops[l].at \notin {"inspect", "report", "mark"} THEN <<>> ELSE todo
    /\ UNCHANGED <<provider, generator, used, tables>>

-----------------------------------------------------------------------------
(* insertTaskEvent, query by query.                                          *)
MayQuery(l, place) == database = "open" /\ loops[l].at = place
Current(l) == Head(loops[l].script)
Only(changed) == changed /\ UNCHANGED <<provider, generator, todo, used>>

(* The event and the task's row.  Times grow along a family, so that each    *)
(* event is the latest of its task.                                          *)
RowAfter(row, kind) ==
    [state |-> StateOf[kind],
     active |-> CASE kind = "started" -> TRUE
                  [] kind \in {"sent", "received"} -> row.active
                  [] OTHER -> FALSE]

InsertsEvent(l) == Only(
    /\ MayQuery(l, "event")
    /\ LET e == Current(l) IN
        /\ events' = [events EXCEPT ![e.task] = Append(@, e.kind)]
        /\ tasks' = [tasks EXCEPT ![e.task] = RowAfter(@, e.kind)]
    /\ Places(l, "touch")
    /\ UNCHANGED <<timers, summaries, inspected>>)

(* updateWorkflowProjection: a row, if there is none, then the members, then *)
(* what they add up to.                                                      *)
TouchesWorkflow(l) == Only(
    /\ MayQuery(l, "touch")
    /\ summaries' = [summaries EXCEPT ![loops[l].family] =
                        IF @ = <<>> THEN <<0, 0, 0, 0, "PENDING">> ELSE @]
    /\ Places(l, "read")
    /\ UNCHANGED <<timers, events, tasks, inspected>>)

ReadsMembers(l) == Only(
    /\ MayQuery(l, "read")
    /\ LET rows == {t \in ToSet(loops[l].family) : tasks[t] # NoRow} IN
        loops' = [loops EXCEPT ![l].at = "write", ![l].members = [t \in rows |-> tasks[t].state]]
    /\ UNCHANGED <<timers, tables>>)

Unfinished == {"PENDING", "RECEIVED", "STARTED"}

Aggregate(state) ==
    LET In(S) == Cardinality({t \in DOMAIN state : state[t] \in S}) IN
    <<In({"SUCCESS", "FAILURE"}), In({"FAILURE"}), In({"RETRY"}), In(Unfinished),
      IF In({"FAILURE"}) > 0 THEN "FAILURE" ELSE IF In({"RETRY"}) > 0 THEN "RETRY"
      ELSE IF In(Unfinished) > 0 THEN "STARTED" ELSE "SUCCESS">>

WritesWorkflow(l) == Only(
    /\ MayQuery(l, "write")
    /\ summaries' = [summaries EXCEPT ![loops[l].family] = Aggregate(loops[l].members)]
    /\ IF Len(loops[l].script) = 1
       THEN Finishes(l)
       ELSE /\ loops' = [loops EXCEPT ![l].at = "event", ![l].script = Tail(@), ![l].members = <<>>]
            /\ UNCHANGED timers
    /\ UNCHANGED <<events, tasks, inspected>>)

-----------------------------------------------------------------------------
(* sendWorkerHeartbeats: for each worker, its STARTED tasks are read, listed *)
(* in its inspection, and marked as in execution.                            *)
WorkerNow(l) == Workers[loops[l].worker]
StartedOn(w) == {t \in Member : WorkerOf[t] = w /\ tasks[t].state = "STARTED"}

Inspects(l) == Only(
    /\ MayQuery(l, "inspect")
    /\ loops' = [loops EXCEPT ![l].at = "report", ![l].members = StartedOn(WorkerNow(l))]
    /\ UNCHANGED <<timers, tables>>)

Reports(l) == Only(
    /\ MayQuery(l, "report")
    /\ inspected' = [inspected EXCEPT ![WorkerNow(l)] = loops[l].members]
    /\ Places(l, "mark")
    /\ UNCHANGED <<timers, events, tasks, summaries>>)

(* Mutant: the tasks that were read are marked. *)
MarkedAsRead(l) == loops[l].members

Marked(l) == StartedOn(WorkerNow(l))

MarksActive(l) == Only(
    /\ MayQuery(l, "mark")
    /\ tasks' = [t \in Member |->
                    IF t \in Marked(l) THEN [tasks[t] EXCEPT !.active = TRUE] ELSE tasks[t]]
    /\ IF loops[l].worker < Len(Workers) /\ Running
       THEN /\ loops' = [loops EXCEPT ![l].at = "inspect", ![l].members = <<>>, ![l].worker = @ + 1]
            /\ UNCHANGED timers
       ELSE Finishes(l)
    /\ UNCHANGED <<events, summaries, inspected>>)

-----------------------------------------------------------------------------
Steps(l) ==
    \/ InsertsEvent(l) \/ TouchesWorkflow(l) \/ ReadsMembers(l) \/ WritesWorkflow(l)
    \/ Inspects(l) \/ Reports(l) \/ MarksActive(l)
    \/ QueryRejected(l)

Starts == Downloads \/ OpensDatabase \/ Defines
SeedsNext == SeedsWorkers \/ Seeds \/ SeedsBeat \/ ArmsTimers

DemoNext ==
    \/ Starts \/ Unmounts \/ SeedsNext
    \/ BeatFires
    \/ \E l \in Loop : TimeoutFires(l) \/ Steps(l)

DemoFairness ==
    /\ WF_demoVars(Starts) /\ WF_demoVars(SeedsNext)
    /\ \A l \in Loop : WF_demoVars(Steps(l))

DemoSpec == DemoInit /\ [][DemoNext]_demoVars /\ DemoFairness

-----------------------------------------------------------------------------
(* What the demo shows agrees with itself whatever interleaves: only a       *)
(* started task is in execution, though heartbeats write what they read      *)
(* earlier; and a family whose loop has left it has the row that its events  *)
(* and the summary that its tasks add up to.                                 *)
Rests(f) == \A l \in Loop : loops[l].family # f

DemoAgrees ==
    /\ \A t \in Member : tasks[t].active => tasks[t].state = "STARTED"
    /\ database = "open" => \A f \in used : Rests(f) =>
        /\ LET begun == {t \in ToSet(f) : events[t] # <<>>}
           IN  summaries[f] = Aggregate([t \in begun |-> StateOf[Last(events[t])]])
        /\ \A t \in ToSet(f) : events[t] # <<>> => tasks[t].state = StateOf[Last(events[t])]

=============================================================================
