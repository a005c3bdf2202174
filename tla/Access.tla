------------------------------- MODULE Access -------------------------------
(* What a request may do and what its answer may contain: roles              *)
(* (runtime/security/permissions.ts), the decisions of the policy service    *)
(* (opa.ts), read scopes (read-scope.ts), the reads of the observation       *)
(* catalogue (observation/queries.ts) and the order in which a request is    *)
(* checked, executed and checked again (http.ts, bun-entry.ts,               *)
(* observation-api.ts).                                                      *)
(*                                                                           *)
(* A scope names tasks and workers, or admits all of them with Others, the   *)
(* rows that nobody names.  The columns of a table are grouped by the        *)
(* permission they need.                                                     *)
EXTENDS Naturals, FiniteSets

CONSTANTS
    Account,
    RoleOf,          \* the role of each account
    NamedTask,       \* tasks that a selector may name
    NamedWorker,     \* workers that a selector may name
    PolicyScope      \* scopes that the policy service may answer

Others == "others"
AnyTask == NamedTask \cup {Others}
AnyWorker == NamedWorker \cup {Others}
Unavailable == [allow |-> FALSE, status |-> 503]
Denial == [allow |-> FALSE, status |-> 403]

Payload == {"task.input.read", "task.result.read", "task.failure.read", "event.raw.read", "worker.inspect.read"}
Viewing == {"task.metadata.read", "worker.metadata.read", "analytics.read"}
Changing == {"backup.import", "history.clear", "retention.update", "cleanup.run"}
Permissions == Payload \cup Viewing \cup Changing
               \cup {"task.export", "backup.export", "diagnostics.export", "metrics.read"}
ReadScopes == [tasks : (SUBSET NamedTask) \cup {AnyTask},
               workers : (SUBSET NamedWorker) \cup {AnyWorker},
               deny : SUBSET Payload]

ASSUME AccessAssumption ==
    /\ RoleOf \in [Account -> {"viewer", "operator", "administrator"}]
    /\ Others \notin NamedTask \cup NamedWorker
    /\ PolicyScope \subseteq ReadScopes

VARIABLES
    replays,         \* the installation replays a snapshot
    decides,         \* the answer of the policy service, to the gate and to operations
    call,            \* the request that is being answered
    outcome          \* what it led to: the columns it returned or the change it made

accessVars == <<replays, decides, call, outcome>>

-----------------------------------------------------------------------------
(* grants().                                                                 *)
Grants(account) ==
    CASE RoleOf[account] = "administrator" -> Permissions
      [] RoleOf[account] = "operator" -> Viewing \cup {"retention.update", "cleanup.run"}
      [] RoleOf[account] = "viewer" -> Viewing

Authorized(account, actions) ==
    /\ actions \subseteq Grants(account)
    /\ replays => actions \cap Changing = {}

EmptyScope == [tasks |-> AnyTask, workers |-> AnyWorker, deny |-> {}]
TaskScoped(s) == Others \notin s.tasks
RowScoped(s) == TaskScoped(s) \/ Others \notin s.workers
Restricted(s) == RowScoped(s) \/ s.deny # {}

IntersectScopes(a, b) ==
    [tasks |-> a.tasks \cap b.tasks, workers |-> a.workers \cap b.workers, deny |-> a.deny \cup b.deny]

PrincipalScope(account, s) == IntersectScopes(s, [EmptyScope EXCEPT !.deny = Payload \ Grants(account)])

(* requireUnrestricted, which looks at the policy's scope alone.             *)
NeedsEverything(actions) == actions \cap (Changing \cup {"diagnostics.export"}) # {}

(* Authorization.check: a scope, or the status of the refusal.               *)
Check(account, actions, answer) ==
    IF ~Authorized(account, actions) THEN Denial
    ELSE IF answer \in {Denial, Unavailable} THEN answer
    ELSE IF NeedsEverything(actions) /\ Restricted(answer) THEN Denial
    ELSE PrincipalScope(account, answer)

Refused(decision) == decision \in {Denial, Unavailable}

-----------------------------------------------------------------------------
(* scopedDatabase: the columns and the rows of each table that a scope       *)
(* leaves.  An unrestricted scope leaves the table as it is.                 *)
Columns(table, s) ==
    LET unless(p, column) == IF p \in s.deny THEN {} ELSE {column}
    IN  CASE table = "task" -> {"metadata"}
                \cup IF TaskScoped(s) THEN {} ELSE {"links"}
                \cup unless("task.input.read", "input")
                \cup unless("task.result.read", "result")
                \cup unless("task.failure.read", "failure")
          [] table = "workflow" -> {"metadata"} \cup unless("task.failure.read", "failure")
          [] table = "worker" -> {"metadata"}
                \cup IF RowScoped(s) THEN {} ELSE {"load"}
                \cup IF Restricted(s) THEN {} ELSE {"inspect"}
          [] table = "event" -> {"metadata"} \cup IF Restricted(s) THEN {} ELSE {"raw"}

RowsIn(table, s) ==
    CASE table \in {"task", "event"} -> s.tasks
      [] table = "workflow" -> IF TaskScoped(s) THEN {} ELSE {Others}
      [] table = "worker" -> s.workers

Cells(table, s) == {table} \X RowsIn(table, s) \X Columns(table, s)

-----------------------------------------------------------------------------
(* The catalogue: the tables an operation reads with all their columns, and  *)
(* those of which it returns metadata, counts or groups only.                *)
Table == {"task", "worker", "workflow", "event"}
Operation == {"list", "export", "explorer", "events", "search", "home",
              "analytics", "exceptions", "task-workflow", "counts"}

TableRead(op, table) ==
    IF op \in {"home", "analytics", "exceptions", "task-workflow"} THEN "task"
    ELSE IF op = "events" THEN "event" ELSE table

(* compileRead.                                                              *)
FullReads(op, table) ==
    CASE op \in {"list", "export", "explorer", "events"} -> {TableRead(op, table)}
      [] op = "search" -> {"task", "worker"}
      [] op = "task-workflow" -> {"task", "workflow"}
      [] OTHER -> {}

PartialReads(op) ==
    CASE op = "search" -> {"workflow"}
      [] op = "counts" -> {"task", "event", "worker"}
      [] op \in {"home", "analytics", "exceptions"} -> {"task"}
      [] OTHER -> {}

Returned(op, table, s) ==
    (UNION {Cells(t, s) : t \in FullReads(op, table)})
    \cup {c \in UNION {Cells(t, s) : t \in PartialReads(op)} :
            c[3] = IF op = "exceptions" THEN "failure" ELSE "metadata"}

(* operationPermissions.                                                     *)
ListPermissions(op, table) ==
    CASE op = "search" -> {"task.metadata.read", "worker.metadata.read"}
      [] op \in {"counts", "home", "analytics"} -> {"analytics.read"}
      [] op = "task-workflow" -> {"task.metadata.read"}
      [] op = "exceptions" -> {"task.metadata.read", "task.failure.read"}
      [] op = "events" \/ (op \in {"list", "explorer"} /\ table = "event") -> {"task.metadata.read", "event.raw.read"}
      [] op \in {"list", "explorer"} /\ table = "worker" -> {"worker.metadata.read"}
      [] OTHER -> {"task.metadata.read"}

OperationPermissions(op, table) ==
    IF op = "export" THEN {"task.export"} \cup ListPermissions("list", table) ELSE ListPermissions(op, table)

(* readPermissions: the policy also hears of the payloads the role allows.   *)
PayloadsOf(op, table) ==
    IF op = "search" THEN Payload \ {"event.raw.read"}
    ELSE IF op \notin {"list", "explorer", "export", "task-workflow"} THEN {}
    ELSE CASE TableRead(op, table) = "task" -> {"task.input.read", "task.result.read", "task.failure.read"}
           [] TableRead(op, table) = "worker" -> {"worker.inspect.read"}
           [] TableRead(op, table) = "event" -> {"event.raw.read"}
           [] OTHER -> {"task.failure.read"}

ReadPermissions(account, op, table) ==
    OperationPermissions(op, table) \cup (PayloadsOf(op, table) \cap Grants(account))

(* routePermissions.  The catalogue is one route.                             *)
Catalogue == "POST observation/rpc"
Everything == Payload \cup {"task.metadata.read", "worker.metadata.read"}
RoutePermission(route) ==
    CASE route = Catalogue -> {"task.metadata.read"}
      [] route \in {"GET info", "GET debug-snapshot"} -> {"diagnostics.export"}
      [] route = "POST download-debug-bundle" -> {"diagnostics.export", "backup.export"} \cup Everything
      [] route = "GET export" -> {"backup.export"} \cup Everything
      [] route = "POST exports/csv" -> {"task.export"} \cup Everything
      [] route = "POST clear" -> {"history.clear"}
      [] route = "POST import" -> {"backup.import"}
      [] route = "GET retention" -> {"analytics.read"}
      [] route = "PUT retention" -> {"retention.update", "analytics.read"}
      [] route = "POST cleanup" -> {"cleanup.run", "analytics.read"}
      [] route \in {"GET metrics", "GET metrics/system"} -> {"metrics.read"}
      [] route = "GET metrics/verbose" ->
            {"metrics.read", "task.metadata.read", "worker.metadata.read", "task.failure.read"}

Route ==
    {Catalogue, "GET info", "GET debug-snapshot", "POST download-debug-bundle", "GET export", "POST exports/csv",
     "POST clear", "POST import", "GET retention", "PUT retention", "POST cleanup",
     "GET metrics", "GET metrics/system", "GET metrics/verbose"}

(* What the other routes return of a database of scope s: an export has all  *)
(* columns of its table, the metrics count, and the verbose ones name the    *)
(* exceptions as well.                                                       *)
Counts(s) == {c \in UNION {Cells(t, s) : t \in {"task", "event", "worker"}} : c[3] = "metadata"}
ExportedCells(s) == Cells("task", s) \cup Cells("event", s) \cup Cells("workflow", s)
MetricCells(route, s) ==
    Counts(s) \cup {c \in Cells("task", s) : c[3] = "failure" /\ route = "GET metrics/verbose"}

RouteReturns(route, s) ==
    CASE route \in {"GET info", "GET retention"} -> Counts(s)
      [] route \in {"GET metrics", "GET metrics/system", "GET metrics/verbose"} -> MetricCells(route, s)
      [] route = "GET export" -> Cells("task", s) \cup Cells("event", s) \cup Cells("worker", s)
      [] route = "POST exports/csv" -> ExportedCells(s)
      [] route = "POST download-debug-bundle" -> UNION {Cells(t, EmptyScope) : t \in Table}
      [] route \in {"PUT retention", "POST cleanup"} -> Counts(EmptyScope)
      [] OTHER -> {}

(* Routes that a scope of rows excludes.                                     *)
Unscoped == {"GET info", "GET debug-snapshot", "GET metrics/system"}

-----------------------------------------------------------------------------
NoCall == [at |-> "none"]
NoOutcome == [cells |-> {}, made |-> {}, account |-> CHOOSE a \in Account : TRUE, at |-> {}]

AccessTypeOK ==
    /\ replays \in BOOLEAN
    /\ decides \in [{"gate", "operation"} -> PolicyScope \cup {Denial, Unavailable}]
    /\ call.at \in {"none", "gated", "decided"}
    /\ outcome.cells \subseteq Table \X (AnyTask \cup AnyWorker) \X {"metadata", "links", "input", "result", "failure", "load", "inspect", "raw"}
    /\ outcome.made \subseteq Changing /\ outcome.account \in Account

AccessInit ==
    /\ replays \in BOOLEAN
    /\ decides = [context \in {"gate", "operation"} |-> EmptyScope]
    /\ call = NoCall /\ outcome = NoOutcome

(* Whoever administers the policy changes it at any time.                    *)
PolicyUpdate(context, answer) ==
    /\ decides' = [decides EXCEPT ![context] = answer]
    /\ UNCHANGED <<replays, call, outcome>>

(* gate().                                                                   *)
Gate(account, route) ==
    /\ call = NoCall
    /\ LET scope == Check(account, RoutePermission(route), decides["gate"])
       IN  /\ ~Refused(scope)
           /\ call' = [at |-> "gated", account |-> account, route |-> route, scope |-> scope,
                        gate |-> decides["gate"]]
    /\ outcome' = NoOutcome
    /\ UNCHANGED <<replays, decides>>

(* The handlers of the other routes, after what they await.  A replay        *)
(* refuses changes once more.                                                *)
Handle ==
    /\ call.at = "gated" /\ call.route # Catalogue
    /\ IF \/ replays /\ RoutePermission(call.route) \cap Changing # {}
          \/ RowScoped(call.scope) /\ call.route \in Unscoped
       THEN outcome' = NoOutcome
       ELSE outcome' = [cells |-> RouteReturns(call.route, call.scope),
                        made |-> RoutePermission(call.route) \cap Changing,
                        account |-> call.account,
                        at |-> {call.gate}]
    /\ call' = NoCall
    /\ UNCHANGED <<replays, decides>>

Decide(op, table) ==
    /\ call.at = "gated" /\ call.route = Catalogue
    /\ LET decision == Check(call.account, ReadPermissions(call.account, op, table), decides["operation"])
       IN  call' = IF Refused(decision) THEN NoCall
                   ELSE [at |-> "decided", account |-> call.account, route |-> Catalogue,
                         scope |-> IntersectScopes(call.scope, decision), gate |-> call.gate,
                         decision |-> decision, op |-> op, table |-> table]
    /\ UNCHANGED <<replays, decides, outcome>>

(* Mutant: the answer goes out if the policy still allows the operation. *)
StillAllowed(fresh) == ~Refused(fresh)

SameDecision(fresh) == fresh = call.decision

(* The decision is made afresh, and the rows are dropped unless it is the    *)
(* same.                                                                     *)
Answer ==
    /\ call.at = "decided"
    /\ LET fresh == Check(call.account, ReadPermissions(call.account, call.op, call.table), decides["operation"])
       IN  outcome' = IF SameDecision(fresh)
                      THEN [cells |-> Returned(call.op, call.table, call.scope), made |-> {},
                            account |-> call.account, at |-> {call.gate, decides["operation"]}]
                      ELSE NoOutcome
    /\ call' = NoCall
    /\ UNCHANGED <<replays, decides>>

AccessNext ==
    \/ \E context \in {"gate", "operation"}, answer \in PolicyScope \cup {Denial, Unavailable} :
            PolicyUpdate(context, answer)
    \/ \E account \in Account, route \in Route : Gate(account, route)
    \/ Handle
    \/ \E op \in Operation, table \in Table : Decide(op, table)
    \/ Answer

AccessSpec == AccessInit /\ [][AccessNext]_accessVars

-----------------------------------------------------------------------------
Needs(column) ==
    CASE column = "input" -> {"task.input.read"}
      [] column = "result" -> {"task.result.read"}
      [] column = "failure" -> {"task.failure.read"}
      [] column = "raw" -> {"event.raw.read"}
      [] column = "inspect" -> {"worker.inspect.read"}
      [] OTHER -> {}

(* A cell that a scope admits, said of the cell and not of a query.          *)
Admits(scope, cell) ==
    /\ Needs(cell[3]) \cap scope.deny = {}
    /\ cell[1] \in {"task", "event"} => cell[2] \in scope.tasks
    /\ cell[1] = "worker" => cell[2] \in scope.workers
    /\ (cell[1] = "workflow" \/ cell[3] = "links") => ~TaskScoped(scope)

(* Whatever the policy became while the request was under way: each cell of  *)
(* an answer needs nothing the role lacks and is admitted by the gate's      *)
(* decision and by the operation's when the answer left (read-scope.ts:52-   *)
(* 120, bun-entry.ts:645-668).  Changes are made by roles that may make      *)
(* them, under a decision without restriction, and never in a replay.        *)
AnswersAreLawful ==
    /\ \A cell \in outcome.cells :
        /\ Needs(cell[3]) \subseteq Grants(outcome.account)
        /\ \A scope \in outcome.at : Admits(scope, cell)
    /\ outcome.made \subseteq Grants(outcome.account)
    /\ outcome.made # {} =>
        /\ ~replays
        /\ \A scope \in outcome.at : ~Restricted(scope)
=============================================================================
