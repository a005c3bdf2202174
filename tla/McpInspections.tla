--------------------------- MODULE McpInspections ---------------------------
(* One call of an MCP tool (runtime/mcp/index.ts) and the queries it is made *)
(* of (common.ts, Queries): the overview of a workflow and a search that may *)
(* find it (workflows.ts), and the overview of a worker (workers.ts).  There *)
(* is no transaction around them: rows are written and deleted, and the      *)
(* policy changes, between any two.  Most of what is answered is cut to a    *)
(* few rows, with the number of those left out; rows are ordered, and lists  *)
(* cut, as in the pages of McpPaging.                                        *)
EXTENDS McpPaging

CONSTANTS
    Member,             \* tasks of the workflow: numbers, for their order
    Reports,            \* what a row may say: [name, state, error, sign, seen, last]
    Inspected,          \* what may be stored of a worker: a category's tasks and their
                        \* time, [there, tasks, observed], by category
    Names,              \* MaxNames groups of names are shown, and
    Shown,              \* problems, running tasks, the activity of a worker
    MaxListed,          \* the most members that are listed
    SignAge,            \* EXECUTION_OBSERVATION_MAX_AGE_MS
    InspectAge,         \* age of an inspection that is warned of
    Moment,             \* the time of the calls
    MaxDisturbed        \* bound on what happens during a call

(* What runs, what is reserved and what is scheduled.                        *)
Category == 1 .. 3

(* A category and its time are stored together (workers/poller.py:70-71).    *)
ASSUME InspectionsAssumption ==
    /\ Member \subseteq Nat /\ IsFiniteSet(Member)
    /\ {Names, MaxListed, SignAge, InspectAge, Moment, MaxDisturbed, Shown} \subseteq Nat
    /\ Reports \subseteq [name : Nat, state : STRING, error : BOOLEAN, sign : STRING, seen : Int, last : Int]
    /\ Inspected \subseteq [Category -> [there : BOOLEAN, tasks : Seq(Nat), observed : Int]]
    /\ \A w \in Inspected, c \in Category : w[c].there \/ w[c].observed < 0

VARIABLES
    members,            \* the rows of the workflow's tasks
    recorded,           \* its own row is there
    inspection,         \* the row of the worker
    granted,            \* the policy allows the tools; "down" if it cannot be asked
    inspecting,         \* the call under way: the tool, the filter, the queries to come
    got,                \* their answers so far
    disturbed,          \* changes since it began
    response            \* what it was answered with

inspectionVars == <<members, recorded, inspection, granted, inspecting, got, disturbed, response>>

NoRow == [state |-> "none"]
NoWorker == [c \in Category |-> [there |-> FALSE, tasks |-> <<>>, observed |-> -2]]
Idling == [tool |-> "none"]
Silence == [kind |-> "none"]

InspectionsInit ==
    /\ members \in [Member -> Reports \cup {NoRow}]
    /\ recorded = (\E t \in Member : members[t] # NoRow)
    /\ inspection \in Inspected /\ granted = "yes"
    /\ inspecting = Idling /\ got = <<>> /\ disturbed = 0 /\ response = Silence

-----------------------------------------------------------------------------
(* What SQL says of the rows.                                                *)
Terminals == {"SUCCESS", "FAILURE", "REVOKED", "REJECTED"}
There == {t \in Member : members[t] # NoRow}
Erroneous == {t \in There : members[t].error}
Unfinished == {t \in There : members[t].state \notin Terminals}

Distance(a, b) == IF a < b THEN b - a ELSE a - b

ObservedRunning ==
    {t \in There : /\ members[t].state = "STARTED" /\ members[t].sign = "active"
                   /\ Distance(Moment, members[t].seen) <= SignAge
                   /\ members[t].seen >= members[t].last}

Limited(S, key, n) == InOrder(FirstOf(S, key, n), key)
ById == [t \in Member |-> <<t>>]

(* Mutant: what was written last comes first. *)
LatestFirst == [t \in There |-> <<-members[t].last, t, 0>>]

ProblemRank ==
    [t \in There |-> <<IF members[t].state = "FAILURE" THEN 0 ELSE IF t \in Unfinished THEN 1 ELSE 2,
                       -members[t].last, t>>]

(* The tasks of a name, and the names with the number of each.               *)
NamesThere == {members[t].name : t \in There}
Named(n) == {t \in There : members[t].name = n}

NameRank ==
    LET Priority(n) == IF Named(n) \cap Erroneous # {} THEN 2
                       ELSE IF \E t \in Named(n) : members[t].state = "STARTED" THEN 1 ELSE 0
    IN  [n \in NamesThere |-> <<-Priority(n), -Cardinality(Named(n)), n>>]

Grouped ==
    LET names == Limited(NamesThere, NameRank, Names)
    IN  [k \in DOMAIN names |-> [name |-> names[k], count |-> Cardinality(Named(names[k]))]]

Aggregated ==
    [total |-> Cardinality(There), unfinished |-> Cardinality(Unfinished), errors |-> Cardinality(Erroneous)]

(* taskRow: how long the sign of an execution holds, said once more.         *)
TaskRow(t) ==
    LET r == members[t]
        status == IF Distance(Moment, r.seen) > SignAge \/ r.seen < r.last \/ r.sign = "none"
                  THEN "unknown" ELSE r.sign
    IN  [task |-> t, state |-> r.state, status |-> IF r.state = "STARTED" THEN status ELSE "none"]
RowsOf(s) == [k \in DOMAIN s |-> TaskRow(s[k])]

(* The filters of a search against an aggregate.                             *)
Filters == [status : {"all", "running", "finished"}, errors : {"any", "some"}]
Passes(f, a) ==
    /\ a.total > 0
    /\ f.status = "running" => a.unfinished > 0
    /\ f.status = "finished" => a.unfinished = 0
    /\ f.errors = "some" => a.errors > 0

-----------------------------------------------------------------------------
(* The queries of each tool, in order.  The members are only read if there   *)
(* are few, and a workflow is only described if it was found.                *)
Described == <<"shell", "aggregate", "groups", "total", "names">>
Plan(tool) ==
    CASE tool = "inspect_workflow" -> Described \o <<"problems", "running", "runningCount", "members">>
      [] tool = "search_workflows" -> <<"candidates">> \o Described \o <<"problems">>
      [] tool = "inspect_worker" -> <<"worker", "references">>

(* What the next query answers.                                              *)
Reply(q) ==
    CASE q \in {"aggregate", "candidates"} -> Aggregated
      [] q = "groups" -> Grouped
      [] q = "total" -> Cardinality(There)
      [] q = "names" -> Cardinality(NamesThere)
      [] q = "problems" -> RowsOf(Limited(Erroneous, ProblemRank, IF inspecting.tool = "inspect_workflow" THEN Shown ELSE 1))
      [] q = "running" -> RowsOf(Limited(ObservedRunning, ById, Shown))
      [] q = "runningCount" -> Cardinality(ObservedRunning)
      [] q = "members" -> IF got["total"] <= MaxListed THEN RowsOf(Limited(There, ById, MaxListed)) ELSE <<>>
      [] q = "worker" -> inspection
      [] OTHER -> There

Positive(n) == IF n < 0 THEN 0 ELSE n

(* WorkflowTools.summary, inspect and search.                                *)
SummaryOf(g) ==
    [total |-> g["aggregate"].total,
     status |-> IF g["aggregate"].total = 0 THEN "none"
                ELSE IF g["aggregate"].unfinished > 0 THEN "running" ELSE "finished",
     errors |-> g["aggregate"].errors,
     groups |-> g["groups"], omittedNames |-> Positive(g["names"] - Names)]

WorkflowOverview(g) ==
    [kind |-> "workflow", workflow |-> SummaryOf(g),
     problems |-> g["problems"], omittedProblems |-> Positive(g["aggregate"].errors - Len(g["problems"])),
     running |-> g["running"], omittedRunning |-> Positive(g["runningCount"] - Len(g["running"])),
     members |-> g["members"], whole |-> g["total"] <= MaxListed]

SearchResult(filter, g) ==
    IF ~Passes(filter, g["candidates"]) THEN [kind |-> "found", filter |-> filter, workflows |-> <<>>]
    ELSE [kind |-> "found", filter |-> filter,
          workflows |-> <<[workflow |-> SummaryOf(g), problem |-> g["problems"]]>>]

(* WorkerTools.inspect: a category that is not there has no count.           *)
Count(c, n) == IF c.there THEN n ELSE -1

WorkerOverview(w, known) ==
    LET all == UNION {{c} \X DOMAIN w[c].tasks : c \in {c \in Category : w[c].there}}
        key == [i \in all |-> <<i[1], w[i[1]].tasks[i[2]], i[2]>>]
        some == FirstOf(all, key, Shown)
        shown == InOrder(some, key)
        Of(c, S) == Cardinality({i \in S : i[1] = c})
    IN  [kind |-> "worker",
         counts |-> [c \in Category |-> Count(w[c], Len(w[c].tasks))],
         activity |-> [k \in DOMAIN shown |->
                          LET t == w[shown[k][1]].tasks[shown[k][2]] IN [task |-> t, recorded |-> t \in known]],
         omitted |-> [c \in Category |-> Count(w[c], Of(c, all) - Of(c, some))],
         warnings |-> {text \in {"unknown", "stale"} :
                          \/ text = "unknown" /\ \E c \in Category : w[c].observed < 0
                          \/ text = "stale" /\ \E c \in Category :
                                w[c].observed >= 0 /\ Moment - w[c].observed > InspectAge}]

Result ==
    CASE inspecting.tool = "inspect_workflow" -> WorkflowOverview(got)
      [] inspecting.tool = "search_workflows" -> SearchResult(inspecting.filter, got)
      [] inspecting.tool = "inspect_worker" -> WorkerOverview(got["worker"], got["references"])

-----------------------------------------------------------------------------
(* A request that is not refused for its host, its origin or its method.     *)
CallsTool(tool, filter) ==
    /\ inspecting = Idling /\ granted = "yes"
    /\ filter # [status |-> "all", errors |-> "any"] => tool = "search_workflows"
    /\ inspecting' = [tool |-> tool, filter |-> filter, todo |-> Plan(tool)]
    /\ response' = Silence /\ disturbed' = 0 /\ got' = <<>>
    /\ UNCHANGED <<members, recorded, inspection, granted>>

Code(why) ==
    CASE why = "no" -> "access_denied" [] why \in {"down", "failed"} -> "unavailable"
      [] why = "timeout" -> "query_budget_exceeded" [] why = "nothing" -> "not_found"

Ends(r) ==
    /\ inspecting' = Idling /\ got' = <<>> /\ response' = r
    /\ UNCHANGED <<members, recorded, inspection, granted, disturbed>>

(* One that the policy refuses, or that it cannot be asked about.            *)
IsDenied ==
    /\ inspecting = Idling /\ granted # "yes"
    /\ Ends([kind |-> "error", code |-> Code(granted)]) /\ response' # response

(* Queries.rows, and one() of the row of the workflow or the worker.         *)
Missing(q) == (q = "shell" /\ ~recorded) \/ (q = "worker" /\ inspection = NoWorker)

QueryAnswers ==
    /\ inspecting # Idling /\ inspecting.todo # <<>>
    /\ ~Missing(Head(inspecting.todo))
    /\ got' = [q \in DOMAIN got \cup {Head(inspecting.todo)} |->
                  IF q = Head(inspecting.todo) THEN Reply(q) ELSE got[q]]
    /\ inspecting' = [inspecting EXCEPT !.todo =
                  IF Head(@) = "candidates" /\ ~Passes(inspecting.filter, Aggregated) THEN <<>> ELSE Tail(@)]
    /\ UNCHANGED <<members, recorded, inspection, granted, disturbed, response>>

(* A query that takes longer than two seconds, or the call than ten, fails.  *)
QueryEnds(why) ==
    /\ inspecting # Idling /\ inspecting.todo # <<>>
    /\ why = "nothing" => Missing(Head(inspecting.todo))
    /\ Ends([kind |-> "error", code |-> Code(why)])

(* Results.finish: an answer over the budget is none, but an overview may do *)
(* without its list of members.                                              *)
Responds ==
    /\ inspecting # Idling /\ inspecting.todo = <<>>
    /\ \/ Ends(Result)
       \/ inspecting.tool = "inspect_workflow" /\ Ends([Result EXCEPT !.members = <<>>, !.whole = FALSE])
       \/ Ends([kind |-> "error", code |-> Code("timeout")])

(* Meanwhile.                                                                *)
Disturbs ==
    /\ inspecting # Idling /\ disturbed < MaxDisturbed /\ disturbed' = disturbed + 1
    /\ UNCHANGED <<granted, inspecting, got, response>>

WritesMember(t, r) ==
    /\ Disturbs /\ recorded
    /\ r # members[t] /\ members' = [members EXCEPT ![t] = r]
    /\ UNCHANGED <<recorded, inspection>>

CleansWorkflow ==
    /\ Disturbs /\ recorded /\ recorded' = FALSE /\ members' = [t \in Member |-> NoRow]
    /\ UNCHANGED inspection

(* A poll, or the cleanup of workers.                                        *)
WritesWorker(w) == Disturbs /\ w # inspection /\ inspection' = w /\ UNCHANGED <<members, recorded>>

(* The policy matters before a call only.                                    *)
PolicyAnswers(g) ==
    /\ inspecting = Idling
    /\ g # granted /\ granted' = g /\ response' = Silence
    /\ UNCHANGED <<members, recorded, inspection, inspecting, got, disturbed>>

InspectionsNext ==
    \/ \E tool \in {"inspect_workflow", "search_workflows", "inspect_worker"}, f \in Filters : CallsTool(tool, f)
    \/ IsDenied \/ QueryAnswers \/ Responds \/ CleansWorkflow
    \/ \E why \in {"timeout", "failed", "nothing"} : QueryEnds(why)
    \/ \E t \in Member, r \in Reports : WritesMember(t, r)
    \/ \E w \in Inspected \cup {NoWorker} : WritesWorker(w)
    \/ \E g \in {"yes", "no", "down"} : PolicyAnswers(g)

InspectionsSpec == InspectionsInit /\ [][InspectionsNext]_inspectionVars

-----------------------------------------------------------------------------
SumOf(numbers) == SumFunction([k \in DOMAIN numbers |-> Positive(numbers[k])])

(* If nothing is written during a call, its parts agree with each other and  *)
(* with the rows, though each is another query: what is shown and what is    *)
(* said to be left out add up; who is listed as running is called active; a  *)
(* failure is shown before a problem that was overcome; and a search answers *)
(* with what its filters ask for.  Of a worker, this holds whatever happens, *)
(* and what is unknown is warned of (workflows.ts:87-128, 187-242, 282-325,  *)
(* workers.ts:46-96, 255-271).                                               *)
WorkflowAddsUp(w) ==
    /\ w.total = Cardinality(There) /\ w.errors = Cardinality(Erroneous)
    /\ w.status = "finished" <=> There # {} /\ Unfinished = {}
    /\ w.omittedNames = 0 => SumOf([k \in DOMAIN w.groups |-> w.groups[k].count]) = w.total
    /\ Len(w.groups) + w.omittedNames = Cardinality(NamesThere)

OverviewAddsUp(r) ==
    /\ WorkflowAddsUp(r.workflow)
    /\ Len(r.problems) + r.omittedProblems = r.workflow.errors
    /\ Len(r.running) + r.omittedRunning = Cardinality(ObservedRunning)
    /\ \A row \in ToSet(r.running) : row.status = "active"
    /\ r.problems # <<>> /\ (\E t \in Erroneous : members[t].state = "FAILURE") => r.problems[1].state = "FAILURE"
    /\ r.whole => {row.task : row \in ToSet(r.members)} = There

SearchAddsUp(r) ==
    /\ r.workflows # <<>> <=> Passes(r.filter, Aggregated)
    /\ \A w \in ToSet(r.workflows) :
          /\ WorkflowAddsUp(w.workflow) /\ w.workflow.status # "none"
          /\ r.filter.status \in {"all", w.workflow.status}
          /\ w.problem # <<>> <=> w.workflow.errors > 0

WorkerAddsUp(r) ==
    /\ Len(r.activity) + SumOf(r.omitted) = SumOf(r.counts)
    /\ (\E c \in Category : r.counts[c] < 0) => "unknown" \in r.warnings

InspectionsAddUp ==
    /\ response.kind = "workflow" /\ disturbed = 0 => OverviewAddsUp(response)
    /\ response.kind = "found" /\ disturbed = 0 => SearchAddsUp(response)
    /\ response.kind = "worker" => WorkerAddsUp(response)

(* What MCP answers adds up, over the pages of a list and over the queries   *)
(* of one call (runtime/mcp/common.ts:124-225, workflows.ts:87-325,          *)
(* workers.ts:46-271): neither is read in one transaction.                   *)
AnswersAddUp == PagesAddUp /\ InspectionsAddUp
=============================================================================
