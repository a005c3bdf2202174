------------------------ MODULE WorkflowMaintenance ------------------------
(* Who else writes tasks and workflows while the leader ingests: the         *)
(* backfill that every starting replica runs (runtime/surreal-schema.ts),    *)
(* cleanup by count and age, clear, and import of a backup                   *)
(* (runtime/observation-api.ts).                                             *)
(*                                                                           *)
(* A step is one statement or one transaction.  Deleting a record deletes    *)
(* its edges in SurrealDB.  A task has at most its root as ancestor.         *)
EXTENDS Integers, FiniteSets

CONSTANTS
    StoredTask,
    RootOf,        \* root_id of each task
    Migrator,      \* replicas that start
    Cleaner,       \* runs of cleanup() that may overlap: the timer, a request
    State,         \* the task states that events bring
    Policy,        \* retention settings
    Backup,        \* task tables of backup files
    MaxIngested    \* bound on the writes of the ingester

Row == [state : {"STARTED", "RETRY", "SUCCESS", "FAILURE"}, last : 0..MaxIngested,
        rooted : BOOLEAN, workflow : StoredTask]
NoTask == [state |-> "none", last |-> 0, rooted |-> FALSE, workflow |-> "none"]
NoWorkflow == [total |-> 0, completed |-> 0, aggregate |-> "none", last |-> 0]
NoLimit == 1000

ASSUME MaintenanceAssumption ==
    /\ IsFiniteSet(StoredTask)
    /\ RootOf \in [StoredTask -> StoredTask]
    /\ \A t \in StoredTask : RootOf[RootOf[t]] = RootOf[t]
    /\ Policy \subseteq [count : Nat, hours : Nat]
    /\ Backup \subseteq [StoredTask -> Row \cup {NoTask}]
    /\ \A table \in Backup, t \in StoredTask :
          table[t] # NoTask => table[t].workflow \in {t, RootOf[t]}
    /\ MaxIngested \in Nat
    /\ Migrator \cap Cleaner = {}
    /\ State \subseteq {"STARTED", "RETRY", "SUCCESS", "FAILURE"}

VARIABLES
    time,
    taskRows,      \* the task table
    summaries,     \* the workflow table, by workflow id, the id of its root
    edges,         \* workflow_task
    plan,          \* [Migrator -> steps of planWorkflowBackfill still to execute]
    cleaning,      \* [Cleaner -> where its cleanup() is and what it has chosen]
    retention,     \* ObservationApi.retention and runtime_state:retention
    suspect,       \* workflows that a backfill may have left wrong
    quiet          \* migrators and cleaners nobody has interfered with so far

workflowTables == <<taskRows, summaries, edges>>
maintenanceVars == <<time, workflowTables, plan, cleaning, retention, suspect, quiet>>

Exists(table, t) == table[t] # NoTask
Existing(table) == {t \in StoredTask : Exists(table, t)}
Members(table, w) == {t \in Existing(table) : table[t].workflow = w}
Latest(times) == CHOOSE n \in times : \A m \in times : m <= n

(* build_workflow_summary_recompute (server/events/ingester.py) counts the   *)
(* rows that name the workflow.                                              *)
Summary(table, w) ==
    LET in(S) == {t \in Members(table, w) : table[t].state \in S}
    IN  [total |-> Cardinality(Members(table, w)),
         completed |-> Cardinality(in({"SUCCESS", "FAILURE"})),
         aggregate |-> CASE in({"FAILURE"}) # {} -> "FAILURE"
                         [] in({"RETRY"}) # {} -> "RETRY"
                         [] in({"STARTED"}) # {} -> "STARTED"
                         [] OTHER -> "SUCCESS",
         last |-> Latest({table[t].last : t \in Members(table, w)})]

NoCleanup == [at |-> "idle", chosen |-> {}, excess |-> 0, limit |-> NoLimit]

MaintenanceTypeOK ==
    /\ time \in 0..MaxIngested
    /\ taskRows \in [StoredTask -> Row \cup {NoTask}]
    /\ \A w \in StoredTask : summaries[w].total \in 0..Cardinality(StoredTask)
    /\ edges \subseteq StoredTask \X StoredTask
    /\ DOMAIN plan = Migrator
    /\ \A c \in Cleaner : cleaning[c].at \in {"idle", "counted", "listed", "chosen"}
    /\ retention \in Policy
    /\ suspect \subseteq StoredTask
    /\ quiet \subseteq Migrator \cup Cleaner

(* Either nothing has been ingested yet, or a version without workflows has  *)
(* left tasks behind.                                                        *)
Legacy == [t \in StoredTask |-> [state |-> "SUCCESS", last |-> 0, rooted |-> TRUE, workflow |-> t]]

MaintenanceInit ==
    /\ time = 0
    /\ taskRows \in {[t \in StoredTask |-> NoTask], Legacy}
    /\ summaries = [w \in StoredTask |-> NoWorkflow]
    /\ edges = {}
    /\ plan = [m \in Migrator |-> {}]
    /\ cleaning = [c \in Cleaner |-> NoCleanup]
    /\ retention \in Policy
    /\ suspect = IF taskRows = Legacy THEN StoredTask ELSE {}
    /\ quiet = {}

-----------------------------------------------------------------------------
Migrating == \E m \in Migrator : plan[m] # {}

(* A write to the workflows ws while backfills and cleanups are under way.   *)
Interfere(ws) ==
    /\ suspect' = IF Migrating THEN suspect \cup ws ELSE suspect
    /\ quiet' = {}

Grouping(t, rooted, r) ==
    IF rooted THEN RootOf[t] ELSE IF r # NoTask THEN r.workflow ELSE t

(* One event of the leader's ingester, which may carry root_id.  A workflow  *)
(* that the task's move to its root leaves empty is deleted.                 *)
Ingest(t, s, rooted) ==
    /\ time < MaxIngested
    /\ time' = time + 1
    /\ LET w == Grouping(t, rooted, taskRows[t])
           old == taskRows[t].workflow
       IN  /\ taskRows' = [taskRows EXCEPT ![t] =
                [state |-> s, last |-> time', workflow |-> w,
                 rooted |-> rooted \/ taskRows[t].rooted]]
           /\ LET emptied == IF Exists(taskRows, t) /\ old # w /\ Members(taskRows', old) = {}
                             THEN {old} ELSE {}
              IN  /\ summaries' = [v \in StoredTask |-> IF v = w THEN Summary(taskRows', w)
                                                  ELSE IF v \in emptied THEN NoWorkflow
                                                  ELSE summaries[v]]
                  /\ edges' = {e \in edges : e[1] \notin emptied} \cup {<<w, t>>}
           /\ Interfere({w, RootOf[t], t} \cup IF Exists(taskRows, t) THEN {old} ELSE {})
    /\ UNCHANGED <<plan, cleaning, retention>>

-----------------------------------------------------------------------------
(* planWorkflowBackfill: `root_id || workflow_id || taskId`, its summaries   *)
(* and the steps in which they are written.                                  *)
PlannedWorkflow(table, t) == IF table[t].rooted THEN RootOf[t] ELSE table[t].workflow

Regrouped(table) ==
    [t \in StoredTask |-> IF Exists(table, t)
                    THEN [table[t] EXCEPT !.workflow = PlannedWorkflow(table, t)]
                    ELSE NoTask]

PlannedSummary(table, w) == Summary(table, w)

PlanWorkflowBackfill(table) ==
    LET new == Regrouped(table)
        pairs == {<<new[t].workflow, t>> : t \in Existing(new)}
    IN  [kind : {"task", "edge"}, pair : pairs, summary : {NoWorkflow}]
        \cup {[kind |-> "workflow", pair |-> <<p[1], p[1]>>, summary |-> PlannedSummary(new, p[1])] :
                p \in pairs}

(* The order of the steps: tasks, then each workflow with its edges.         *)
Due(step, steps) ==
    LET kind(k) == {s \in steps : s.kind = k}
        begun(w) == \A s \in kind("workflow") : s.pair[1] # w
    IN  CASE step.kind = "task" -> TRUE
          [] step.kind = "workflow" ->
                kind("task") = {} /\ \A s \in kind("edge") : ~begun(s.pair[1])
          [] step.kind = "edge" -> kind("task") = {} /\ begun(step.pair[1])

(* backfillWorkflows reads all tasks.                                        *)
BackfillReads(m) ==
    /\ plan[m] = {}
    /\ Existing(taskRows) # {}
    /\ plan' = [plan EXCEPT ![m] = PlanWorkflowBackfill(taskRows)]
    /\ quiet' = quiet \cup {m}
    /\ UNCHANGED <<time, workflowTables, cleaning, retention, suspect>>

(* Mutant: the backfill creates the row again. *)
UpsertTaskAnyway(t, w) ==
    taskRows' = [taskRows EXCEPT ![t] =
                    [state |-> "SUCCESS", last |-> 0, rooted |-> FALSE, workflow |-> w]]

UpsertTask(t, w) == taskRows' = [taskRows EXCEPT ![t].workflow = w]

Undisturbed == \A m \in Migrator : plan[m] # {} => m \in quiet

(* One step of the plan.  The UPSERT of a task that has been deleted fails,  *)
(* because the schema wants a state, and the migration with it.              *)
BackfillStep(m) ==
    /\ plan[m] # {}
    /\ LET step == CHOOSE s \in plan[m] : Due(s, plan[m])
           w == step.pair[1]
           t == step.pair[2]
       IN   IF step.kind = "task" /\ ~Exists(taskRows, t)
            THEN /\ plan' = [plan EXCEPT ![m] = {}]
                 /\ UNCHANGED <<workflowTables, suspect, quiet>>
            ELSE /\ plan' = [plan EXCEPT ![m] = @ \ {step}]
                 /\ \/ step.kind = "task" /\ UpsertTask(t, w) /\ UNCHANGED <<summaries, edges>>
                    \/ /\ step.kind = "workflow"
                       /\ summaries' = [summaries EXCEPT ![w] = step.summary]
                       /\ UNCHANGED <<taskRows, edges>>
                    \/ /\ step.kind = "edge"
                       /\ edges' = edges \cup {<<w, t>>}
                       /\ UNCHANGED <<taskRows, summaries>>
                 /\ quiet' = IF m \in quiet
                             THEN quiet \ (Cleaner \cup IF plan'[m] = {} THEN {m} ELSE {})
                             ELSE {}
                 /\ suspect' = IF plan'[m] = {} /\ Undisturbed
                               THEN {v \in suspect : Members(taskRows', v) = {}}
                               ELSE suspect
    /\ UNCHANGED <<time, cleaning, retention>>

(* A statement conflicts with another replica's; runSchemaMigration starts   *)
(* again from the beginning, or gives up.                                    *)
BackfillAborts(m) ==
    /\ plan[m] # {}
    /\ plan' = [plan EXCEPT ![m] = {}]
    /\ UNCHANGED <<time, workflowTables, cleaning, retention, suspect, quiet>>

-----------------------------------------------------------------------------
(* cleanup() of ObservationApi, query by query.                              *)
CleanupCounts(c) ==
    /\ cleaning[c].at = "idle"
    /\ LET total == Cardinality(Existing(taskRows))
           excess == IF total > retention.count THEN total - retention.count ELSE 0
       IN  cleaning' = [cleaning EXCEPT ![c] =
               [NoCleanup EXCEPT !.at = "counted", !.excess = excess, !.limit = retention.count]]
    /\ quiet' = quiet \cup {c}
    /\ UNCHANGED <<time, workflowTables, plan, retention, suspect>>

ListedWorkflows == {w \in StoredTask : summaries[w] # NoWorkflow}
Older(v, w) == summaries[v].last < summaries[w].last

(* Mutant: the list is taken newest first. *)
NewestFirst(S) == \A v \in S, w \in ListedWorkflows \ S : ~Older(v, w)

OldestFirst(S) == \A v \in S, w \in ListedWorkflows \ S : ~Older(w, v)

TotalOf[S \in SUBSET StoredTask] ==
    IF S = {} THEN 0
    ELSE LET w == CHOOSE x \in S : TRUE IN summaries[w].total + TotalOf[S \ {w}]

(* The workflows, oldest first, until their task_counts make up the excess.  *)
Enough(S, excess) ==
    /\ OldestFirst(S)
    /\ S = ListedWorkflows \/ TotalOf[S] >= excess
    /\ excess > 0 => \E w \in S : OldestFirst(S \ {w}) /\ TotalOf[S \ {w}] < excess

CleanupLists(c) ==
    /\ cleaning[c].at = "counted"
    /\ \E S \in SUBSET ListedWorkflows :
        /\ IF cleaning[c].excess > 0 /\ ListedWorkflows # {}
           THEN Enough(S, cleaning[c].excess) ELSE S = {}
        /\ cleaning' = [cleaning EXCEPT ![c].at = "listed", ![c].chosen = S]
    /\ UNCHANGED <<time, workflowTables, plan, retention, suspect, quiet>>

CleanupExpires(c) ==
    /\ cleaning[c].at = "listed"
    /\ LET expired == {w \in ListedWorkflows : summaries[w].last + retention.hours < time}
       IN  cleaning' = [cleaning EXCEPT ![c].at = "chosen", ![c].chosen = @ \cup expired]
    /\ UNCHANGED <<time, workflowTables, plan, retention, suspect, quiet>>

(* One transaction, which looks up the members again.                        *)
RemoveWorkflows(ws) ==
    /\ taskRows' = [t \in StoredTask |->
                        IF taskRows[t].workflow \in ws THEN NoTask ELSE taskRows[t]]
    /\ summaries' = [w \in StoredTask |-> IF w \in ws THEN NoWorkflow ELSE summaries[w]]
    /\ edges' = {e \in edges : e[1] \notin ws /\ taskRows'[e[2]] # NoTask}

CleanupDeletes(c) ==
    /\ cleaning[c].at = "chosen"
    /\ cleaning' = [cleaning EXCEPT ![c] = NoCleanup]
    /\ IF cleaning[c].chosen = {}
       THEN UNCHANGED <<workflowTables, suspect, quiet>>
       ELSE /\ RemoveWorkflows(cleaning[c].chosen)
            /\ Interfere(cleaning[c].chosen)
    /\ UNCHANGED <<time, plan, retention>>

(* PUT /api/settings/retention, which a cleanup under way notices.           *)
PutRetention(p) ==
    /\ retention' = p
    /\ UNCHANGED <<time, workflowTables, plan, cleaning, suspect, quiet>>

-----------------------------------------------------------------------------
Clear ==
    /\ taskRows' = [t \in StoredTask |-> NoTask]
    /\ summaries' = [w \in StoredTask |-> NoWorkflow]
    /\ edges' = {}
    /\ Interfere(StoredTask)
    /\ UNCHANGED <<time, plan, cleaning, retention>>

(* importBackup: everything is replaced, and planned anew, in one transaction. *)
Import(table) ==
    /\ taskRows' = Regrouped(table)
    /\ LET all == {taskRows'[t].workflow : t \in Existing(taskRows')}
       IN  summaries' = [w \in StoredTask |->
                            IF w \in all THEN PlannedSummary(taskRows', w) ELSE NoWorkflow]
    /\ edges' = {<<taskRows'[t].workflow, t>> : t \in Existing(taskRows')}
    /\ quiet' = {}
    /\ suspect' = IF Migrating THEN StoredTask ELSE {}
    /\ UNCHANGED <<time, plan, cleaning, retention>>

MaintenanceNext ==
    \/ \E t \in StoredTask, s \in State, rooted \in BOOLEAN : Ingest(t, s, rooted)
    \/ \E m \in Migrator : BackfillReads(m) \/ BackfillStep(m) \/ BackfillAborts(m)
    \/ \E c \in Cleaner : CleanupCounts(c) \/ CleanupLists(c)
                          \/ CleanupExpires(c) \/ CleanupDeletes(c)
    \/ \E p \in Policy : PutRetention(p)
    \/ Clear
    \/ \E table \in Backup : Import(table)

MaintenanceSpec == MaintenanceInit /\ [][MaintenanceNext]_maintenanceVars

-----------------------------------------------------------------------------
Consistent(w) ==
    IF Members(taskRows, w) = {}
    THEN summaries[w] = NoWorkflow /\ \A e \in edges : e[1] # w
    ELSE summaries[w] = Summary(taskRows, w) /\ \A t \in Members(taskRows, w) : <<w, t>> \in edges

(* A workflow's summary, its edges and its tasks agree, whoever wrote them:  *)
(* the ingester, a cleanup, an import or a backfill, except where something  *)
(* changed under a backfill (surreal-schema.ts:305-310), which writes what   *)
(* it planned from an earlier read.  A backfill that nobody disturbs repairs *)
(* what a version without workflows or a disturbed backfill left behind.     *)
DamageIsContained == \A w \in StoredTask \ suspect : Consistent(w)

(* Cleanup by count deletes the oldest workflows and gets below the limit,   *)
(* when nobody writes between its queries, from which the choice is made     *)
(* outside the transaction that deletes (observation-api.ts:299-329).        *)
CleanupMeetsLimit ==
    [][\A c \in Cleaner :
        /\ cleaning[c].at = "chosen" /\ cleaning'[c].at = "idle" /\ c \in quiet
        => /\ suspect = {} /\ ~Migrating => Cardinality(Existing(taskRows')) <= cleaning[c].limit
           /\ \A v, w \in ListedWorkflows :
                  summaries'[v] = NoWorkflow /\ summaries'[w] # NoWorkflow
                  => ~Older(w, v)]_maintenanceVars
=============================================================================
