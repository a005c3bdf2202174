------------------------- MODULE MaintenanceProofs -------------------------
(* What is proved of the maintenance of workflows, and of what MCP answers:  *)
(* first the tables under backfills and cleanups, then the pages of a list,  *)
(* at last the calls that are made of several queries.                       *)
EXTENDS WorkflowMaintenance, McpInspections, TLAPS,
        FiniteSetTheorems, SequenceTheorems, NaturalsInduction, WellFoundedInduction

(* A task that is not where its root_id says: left behind by a version       *)
(* without workflows, or put there by a backfill that was disturbed.         *)
Misplaced(table, t) == Exists(table, t) /\ table[t].rooted /\ table[t].workflow # RootOf[t]

TablesShape ==
    /\ time \in 0..MaxIngested
    /\ taskRows \in [StoredTask -> Row \cup {NoTask}]
    /\ \A t \in StoredTask : Exists(taskRows, t) => taskRows[t].workflow \in {t, RootOf[t]}
    /\ summaries = [w \in StoredTask |-> summaries[w]]
    /\ plan = [m \in Migrator |-> plan[m]]

(* What a step of a plan may still do to workflows outside S: nothing.       *)
Fits(s, S) ==
    LET w == s.pair[1]
        t == s.pair[2]
    IN  \/ /\ s.kind = "task" /\ t \in StoredTask /\ w \in {t, RootOf[t]}
           /\ Exists(taskRows, t) /\ ~({t, RootOf[t]} \subseteq S) => taskRows[t].workflow = w
        \/ /\ s.kind = "workflow" /\ w \in StoredTask
           /\ w \notin S => Members(taskRows, w) # {} /\ s.summary = Summary(taskRows, w)
        \/ /\ s.kind = "edge" /\ w \in StoredTask
           /\ w \notin S => Members(taskRows, w) # {}

(* Outside S the tables agree, and no backfill under way changes that.       *)
RightOutside(S) ==
    /\ \A t \in StoredTask : Misplaced(taskRows, t) => {t, RootOf[t]} \subseteq S
    /\ \A m \in Migrator : \A s \in plan[m] : Fits(s, S)
    /\ \A w \in StoredTask \ S : Consistent(w)

StepDone(s) ==
    /\ s.kind = "task" => taskRows[s.pair[2]].workflow = s.pair[1]
    /\ s.kind = "workflow" => summaries[s.pair[1]] = s.summary
    /\ s.kind = "edge" => s.pair \in edges

(* A backfill that nobody disturbs has done what one that began now would    *)
(* do, but for what it has left to do.                                       *)
QuietBackfills ==
    \A m \in Migrator \cap quiet : plan[m] # {} =>
        /\ plan[m] \subseteq PlanWorkflowBackfill(taskRows)
        /\ \A s \in PlanWorkflowBackfill(taskRows) \ plan[m] : StepDone(s)

MaintenanceInv == TablesShape /\ RightOutside(suspect) /\ QuietBackfills

-----------------------------------------------------------------------------
Table == [StoredTask -> Row \cup {NoTask}]

LEMMA RowsExist ==
    ASSUME NEW f \in Table, NEW t \in StoredTask
    PROVE  /\ Exists(f, t) <=> f[t] \in Row
           /\ t \in Existing(f) <=> Exists(f, t)
<1>1. NoTask \notin Row
      BY DEF NoTask, Row
<1>2. QED  BY <1>1 DEF Exists, Existing, Table

(* A summary depends on its members and on their states and times.           *)
LEMMA SummaryDepends ==
    ASSUME NEW f, NEW g, NEW w, Members(f, w) = Members(g, w),
           \A t \in Members(f, w) : f[t].state = g[t].state /\ f[t].last = g[t].last
    PROVE  Summary(f, w) = Summary(g, w)
<1>1. ASSUME NEW S
      PROVE  {t \in Members(f, w) : f[t].state \in S} = {t \in Members(g, w) : g[t].state \in S}
      OBVIOUS
<1>2. {f[t].last : t \in Members(f, w)} = {g[t].last : t \in Members(g, w)}
      OBVIOUS
<1>3. QED  BY <1>1, <1>2 DEF Summary

(* What the backfill makes of a table.                                       *)
LEMMA RegroupedRows ==
    ASSUME NEW f \in Table
    PROVE  /\ Regrouped(f) \in Table
           /\ Existing(Regrouped(f)) = Existing(f)
           /\ \A t \in Existing(f) :
                 /\ Regrouped(f)[t].workflow = PlannedWorkflow(f, t)
                 /\ Regrouped(f)[t].state = f[t].state /\ Regrouped(f)[t].last = f[t].last
                 /\ Regrouped(f)[t].rooted = f[t].rooted
           /\ \A t \in StoredTask : ~Misplaced(Regrouped(f), t)
<1>1. ASSUME NEW t \in Existing(f)
      PROVE  /\ t \in StoredTask /\ f[t] \in Row /\ PlannedWorkflow(f, t) \in StoredTask
             /\ Regrouped(f)[t] = [f[t] EXCEPT !.workflow = PlannedWorkflow(f, t)]
  <2>1. t \in StoredTask /\ Exists(f, t) /\ f[t] \in Row
        BY RowsExist DEF Existing
  <2>2. PlannedWorkflow(f, t) \in StoredTask
        BY <2>1, MaintenanceAssumption DEF PlannedWorkflow, Row
  <2>3. QED  BY <2>1, <2>2 DEF Regrouped
<1>2. ASSUME NEW t \in Existing(f)
      PROVE  /\ Regrouped(f)[t] \in Row
             /\ Regrouped(f)[t].workflow = PlannedWorkflow(f, t)
             /\ Regrouped(f)[t].state = f[t].state /\ Regrouped(f)[t].last = f[t].last
             /\ Regrouped(f)[t].rooted = f[t].rooted
      BY <1>1 DEF Row
<1>3. \A t \in StoredTask \ Existing(f) : Regrouped(f)[t] = NoTask
      BY DEF Regrouped, Existing
<1>4. Regrouped(f) \in Table
  <2>1. Regrouped(f) = [t \in StoredTask |-> Regrouped(f)[t]]
        BY DEF Regrouped
  <2>2. \A t \in StoredTask : Regrouped(f)[t] \in Row \cup {NoTask}
        BY <1>2, <1>3
  <2>3. QED  BY <2>1, <2>2 DEF Table
<1>5. Existing(Regrouped(f)) = Existing(f)
  <2>1. \A t \in StoredTask : t \in Existing(Regrouped(f)) <=> Regrouped(f)[t] \in Row
        BY <1>4, RowsExist
  <2>2. NoTask \notin Row
        BY DEF NoTask, Row
  <2>3. Existing(Regrouped(f)) \subseteq StoredTask /\ Existing(f) \subseteq StoredTask
        BY DEF Existing
  <2>4. QED  BY <1>2, <1>3, <2>1, <2>2, <2>3
<1>6. ASSUME NEW t \in StoredTask, Misplaced(Regrouped(f), t) PROVE FALSE
  <2>1. t \in Existing(f)
        BY <1>5, <1>6 DEF Misplaced, Existing
  <2>2. f[t].rooted /\ PlannedWorkflow(f, t) # RootOf[t]
        BY <1>2, <1>6, <2>1 DEF Misplaced
  <2>3. QED  BY <2>2 DEF PlannedWorkflow
<1>7. QED  BY <1>2, <1>4, <1>5, <1>6

LEMMA InPlace ==
    ASSUME NEW f \in Table, NEW t \in Existing(f), ~Misplaced(f, t)
    PROVE  PlannedWorkflow(f, t) = f[t].workflow
BY DEF Misplaced, PlannedWorkflow, Existing

(* The steps of a plan.                                                      *)
TaskStep(w, t) == [kind |-> "task", pair |-> <<w, t>>, summary |-> NoWorkflow]
EdgeStep(w, t) == [kind |-> "edge", pair |-> <<w, t>>, summary |-> NoWorkflow]
FlowStep(table, w) == [kind |-> "workflow", pair |-> <<w, w>>, summary |-> Summary(table, w)]

LEMMA PlannedSteps ==
    ASSUME NEW f \in Table
    PROVE  PlanWorkflowBackfill(f) =
              UNION {{TaskStep(PlannedWorkflow(f, t), t), EdgeStep(PlannedWorkflow(f, t), t),
                      FlowStep(Regrouped(f), PlannedWorkflow(f, t))} : t \in Existing(f)}
<1> DEFINE pairs == {<<PlannedWorkflow(f, t), t>> : t \in Existing(f)}
<1>1. {<<Regrouped(f)[t].workflow, t>> : t \in Existing(Regrouped(f))} = pairs
      BY RegroupedRows
<1>2. PlanWorkflowBackfill(f) =
        [kind : {"task", "edge"}, pair : pairs, summary : {NoWorkflow}]
        \cup {FlowStep(Regrouped(f), p[1]) : p \in pairs}
      BY <1>1 DEF PlanWorkflowBackfill, FlowStep, PlannedSummary
<1> DEFINE steps(t) == {TaskStep(PlannedWorkflow(f, t), t), EdgeStep(PlannedWorkflow(f, t), t),
                        FlowStep(Regrouped(f), PlannedWorkflow(f, t))}
<1>3. \A p \in pairs : \E t \in Existing(f) : p = <<PlannedWorkflow(f, t), t>> /\ p[1] = PlannedWorkflow(f, t)
      OBVIOUS
<1>4. \A t \in Existing(f) : <<PlannedWorkflow(f, t), t>> \in pairs
      OBVIOUS
<1> HIDE DEF pairs
<1>5. ASSUME NEW s \in PlanWorkflowBackfill(f) PROVE \E t \in Existing(f) : s \in steps(t)
  <2>1. CASE s \in [kind : {"task", "edge"}, pair : pairs, summary : {NoWorkflow}]
    <3>1. PICK t \in Existing(f) : s.pair = <<PlannedWorkflow(f, t), t>>
          BY <1>3, <2>1
    <3>2. s = TaskStep(PlannedWorkflow(f, t), t) \/ s = EdgeStep(PlannedWorkflow(f, t), t)
          BY <2>1, <3>1 DEF TaskStep, EdgeStep
    <3>3. QED  BY <3>2
  <2>2. CASE s \in {FlowStep(Regrouped(f), p[1]) : p \in pairs}
    <3>1. PICK p \in pairs : s = FlowStep(Regrouped(f), p[1])
          BY <2>2
    <3>2. PICK t \in Existing(f) : p[1] = PlannedWorkflow(f, t)
          BY <1>3, <3>1
    <3>3. QED  BY <3>1, <3>2
  <2>3. QED  BY <1>2, <1>5, <2>1, <2>2
<1>6. ASSUME NEW t \in Existing(f) PROVE steps(t) \subseteq PlanWorkflowBackfill(f)
  <2> DEFINE p == <<PlannedWorkflow(f, t), t>>
  <2>1. p \in pairs /\ p[1] = PlannedWorkflow(f, t)
        BY <1>4
  <2>2. /\ TaskStep(PlannedWorkflow(f, t), t) \in [kind : {"task", "edge"}, pair : pairs, summary : {NoWorkflow}]
        /\ EdgeStep(PlannedWorkflow(f, t), t) \in [kind : {"task", "edge"}, pair : pairs, summary : {NoWorkflow}]
        BY <2>1 DEF TaskStep, EdgeStep
  <2>3. FlowStep(Regrouped(f), PlannedWorkflow(f, t)) \in {FlowStep(Regrouped(f), q[1]) : q \in pairs}
        BY <2>1
  <2>4. QED  BY <1>2, <2>2, <2>3
<1>7. QED  BY <1>5, <1>6

-----------------------------------------------------------------------------
LEMMA InTheNextState ==
    /\ \A w : Members(taskRows, w)' = Members(taskRows', w)
    /\ \A w : Summary(taskRows, w)' = Summary(taskRows', w)
    /\ PlanWorkflowBackfill(taskRows)' = PlanWorkflowBackfill(taskRows')
    /\ \A w : Consistent(w)' <=>
          IF Members(taskRows', w) = {}
          THEN summaries'[w] = NoWorkflow /\ \A e \in edges' : e[1] # w
          ELSE /\ summaries'[w] = Summary(taskRows', w)
               /\ \A t \in Members(taskRows', w) : <<w, t>> \in edges'
<1>1. \A w : Members(taskRows, w)' = Members(taskRows', w)
      BY DEF Members, Existing, Exists
<1>2. \A w : Summary(taskRows, w)' = Summary(taskRows', w)
      BY DEF Summary, Members, Existing, Exists
<1>3. PlanWorkflowBackfill(taskRows)' = PlanWorkflowBackfill(taskRows')
      BY DEF PlanWorkflowBackfill, Regrouped, PlannedWorkflow, PlannedSummary, Existing, Exists,
             Summary, Members
<1>4. QED  BY <1>1, <1>2, <1>3 DEF Consistent

(* Tables that stay as they are.                                             *)
LEMMA SameTables ==
    ASSUME UNCHANGED <<taskRows, summaries, edges>>
    PROVE  /\ \A s, S : Fits(s, S)' <=> Fits(s, S)
           /\ \A s : StepDone(s)' <=> StepDone(s)
           /\ \A w : Consistent(w)' <=> Consistent(w)
           /\ \A t : Misplaced(taskRows, t)' <=> Misplaced(taskRows, t)
           /\ PlanWorkflowBackfill(taskRows)' = PlanWorkflowBackfill(taskRows)
<1>1. \A w : Consistent(w)' <=> Consistent(w)
      BY InTheNextState DEF Consistent
<1>2. \A s, S : Fits(s, S)' <=> Fits(s, S)
      BY InTheNextState DEF Fits, Exists
<1>3. \A s : StepDone(s)' <=> StepDone(s)
      BY DEF StepDone
<1>4. PlanWorkflowBackfill(taskRows)' = PlanWorkflowBackfill(taskRows)
      BY InTheNextState
<1>5. \A t : Misplaced(taskRows, t)' <=> Misplaced(taskRows, t)
      BY DEF Misplaced, Exists
<1>6. QED  BY <1>1, <1>2, <1>3, <1>4, <1>5

(* A workflow that a step leaves alone.                                      *)
Untouched(w) ==
    /\ Members(taskRows', w) = Members(taskRows, w)
    /\ \A t \in Members(taskRows, w) :
          taskRows'[t].state = taskRows[t].state /\ taskRows'[t].last = taskRows[t].last
    /\ summaries'[w] = summaries[w]
    /\ \A e \in edges' : e[1] = w => e \in edges
    /\ \A t \in Members(taskRows, w) : <<w, t>> \in edges => <<w, t>> \in edges'

LEMMA UntouchedIsConsistent ==
    ASSUME NEW w \in StoredTask, Untouched(w)
    PROVE  /\ Consistent(w) => Consistent(w)'
           /\ Summary(taskRows', w) = Summary(taskRows, w)
<1>1. Summary(taskRows', w) = Summary(taskRows, w)
      BY SummaryDepends DEF Untouched
<1>2. \A t \in Members(taskRows, w) : <<w, t>> \in edges => <<w, t>> \in edges'
      BY DEF Untouched
<1>3. (\A e \in edges : e[1] # w) => (\A e \in edges' : e[1] # w)
      BY DEF Untouched
<1>4. Members(taskRows', w) = Members(taskRows, w) /\ summaries'[w] = summaries[w]
      BY DEF Untouched
<1>5. QED  BY <1>1, <1>2, <1>3, <1>4, InTheNextState DEF Consistent

(* A step that leaves alone all workflows but those in ws, which a backfill  *)
(* under way makes suspect.                                                  *)
LEMMA OnlyTouched ==
    ASSUME MaintenanceInv, TablesShape', UNCHANGED plan, quiet' = {}, NEW ws,
           suspect' = IF Migrating THEN suspect \cup ws ELSE suspect,
           \A w \in StoredTask \ ws : Untouched(w),
           \A w \in (StoredTask \cap ws) \ suspect' : Consistent(w)',
           \A t \in StoredTask : Exists(taskRows', t) =>
                taskRows'[t] = taskRows[t] \/ {t, RootOf[t]} \subseteq ws,
           \A t \in StoredTask : Misplaced(taskRows', t) => Misplaced(taskRows, t)
    PROVE  MaintenanceInv'
<1> PICK S : S = suspect'
    OBVIOUS
<1>1. suspect \subseteq S /\ (Migrating => ws \subseteq S)
      OBVIOUS
<1>2. \A t \in StoredTask : Misplaced(taskRows', t) => {t, RootOf[t]} \subseteq S
      BY <1>1 DEF MaintenanceInv, RightOutside
<1>3. ASSUME NEW w \in StoredTask \ S PROVE Consistent(w)'
      BY <1>1, <1>3, UntouchedIsConsistent DEF MaintenanceInv, RightOutside
<1>4. ASSUME NEW m \in Migrator, NEW s \in plan[m] PROVE Fits(s, S)'
  <2>1. Fits(s, suspect) /\ ws \subseteq S
        BY <1>1, <1>4 DEF MaintenanceInv, RightOutside, Migrating
  <2>2. CASE s.kind = "task"
    <3>1. /\ s.pair[2] \in StoredTask /\ s.pair[1] \in {s.pair[2], RootOf[s.pair[2]]}
          /\ Exists(taskRows, s.pair[2]) /\ ~({s.pair[2], RootOf[s.pair[2]]} \subseteq suspect)
                => taskRows[s.pair[2]].workflow = s.pair[1]
          BY <2>1, <2>2 DEF Fits
    <3>2. Exists(taskRows', s.pair[2]) /\ ~({s.pair[2], RootOf[s.pair[2]]} \subseteq S)
                => taskRows'[s.pair[2]] = taskRows[s.pair[2]] /\ Exists(taskRows, s.pair[2])
          BY <2>1, <3>1 DEF Exists
    <3>3. QED  BY <1>1, <2>2, <3>1, <3>2 DEF Fits, Exists
  <2>3. CASE s.kind # "task"
    <3>1. s.pair[1] \in StoredTask /\ s.kind \in {"workflow", "edge"}
          BY <2>1, <2>3 DEF Fits
    <3>2. s.pair[1] \notin S =>
            /\ Members(taskRows', s.pair[1]) = Members(taskRows, s.pair[1])
            /\ Summary(taskRows', s.pair[1]) = Summary(taskRows, s.pair[1])
          BY <2>1, <3>1, UntouchedIsConsistent DEF Untouched
    <3>3. /\ Members(taskRows, s.pair[1])' = Members(taskRows', s.pair[1])
          /\ Summary(taskRows, s.pair[1])' = Summary(taskRows', s.pair[1])
          BY InTheNextState
    <3>4. CASE s.kind = "workflow"
          BY <1>1, <2>1, <3>1, <3>2, <3>3, <3>4 DEF Fits
    <3>5. CASE s.kind = "edge"
          BY <1>1, <2>1, <3>1, <3>2, <3>3, <3>5 DEF Fits
    <3>6. QED  BY <3>1, <3>4, <3>5
  <2>4. QED  BY <2>2, <2>3
<1>5. RightOutside(S)'
      BY <1>2, <1>3, <1>4 DEF RightOutside, Misplaced, Exists
<1>6. QuietBackfills'
      BY DEF QuietBackfills
<1>7. RightOutside(suspect)'
      BY <1>5
<1>8. QED  BY <1>6, <1>7 DEF MaintenanceInv

-----------------------------------------------------------------------------
LEMMA InitIsMaintained == MaintenanceInit => MaintenanceInv
<1> SUFFICES ASSUME MaintenanceInit PROVE MaintenanceInv
    OBVIOUS
<1>1. \A t \in StoredTask : Legacy[t] \in Row /\ Legacy[t].workflow = t
      BY MaintenanceAssumption DEF Legacy, Row
<1>2. Legacy \in Table /\ [t \in StoredTask |-> NoTask] \in Table
      BY <1>1 DEF Legacy, Table
<1>3. TablesShape
  <2>1. taskRows \in Table
        BY <1>2 DEF MaintenanceInit
  <2>2. \A t \in StoredTask : Exists(taskRows, t) => taskRows[t].workflow \in {t, RootOf[t]}
        BY <1>1 DEF MaintenanceInit, Exists
  <2>3. time \in 0..MaxIngested
        BY MaintenanceAssumption DEF MaintenanceInit
  <2>4. QED  BY <2>1, <2>2, <2>3 DEF TablesShape, MaintenanceInit, Table
<1>4. RightOutside(suspect)
  <2>1. \A m \in Migrator : plan[m] = {}
        BY DEF MaintenanceInit
  <2>2. CASE taskRows = Legacy
    <3>1. suspect = StoredTask
          BY <2>2 DEF MaintenanceInit
    <3>2. \A t \in StoredTask : {t, RootOf[t]} \subseteq StoredTask
          BY MaintenanceAssumption
    <3>3. QED  BY <2>1, <3>1, <3>2 DEF RightOutside
  <2>3. CASE taskRows # Legacy
    <3>1. \A t \in StoredTask : ~Exists(taskRows, t)
          BY <2>3 DEF MaintenanceInit, Exists
    <3>2. \A w \in StoredTask : Consistent(w)
          BY <3>1 DEF MaintenanceInit, Consistent, Members, Existing
    <3>3. QED  BY <2>1, <3>1, <3>2 DEF RightOutside, Misplaced
  <2>4. QED  BY <2>2, <2>3
<1>5. QED  BY <1>3, <1>4 DEF MaintenanceInv, QuietBackfills, MaintenanceInit

(* A step that leaves the tables alone and disturbs or starts no backfill.   *)
LEMMA TablesLeftAlone ==
    ASSUME MaintenanceInv, UNCHANGED <<time, workflowTables, plan, suspect>>,
           Migrator \cap quiet' \subseteq quiet
    PROVE  MaintenanceInv'
<1>1. UNCHANGED <<taskRows, summaries, edges>>
      BY DEF workflowTables
<1>2. TablesShape'
      BY <1>1 DEF MaintenanceInv, TablesShape, Exists
<1>3. RightOutside(suspect)'
      BY <1>1, SameTables DEF MaintenanceInv, RightOutside
<1>4. QuietBackfills'
      BY <1>1, SameTables DEF MaintenanceInv, QuietBackfills
<1>5. QED  BY <1>2, <1>3, <1>4 DEF MaintenanceInv

(* A backfill that gives up.                                                 *)
LEMMA PlanDropped ==
    ASSUME MaintenanceInv, NEW m \in Migrator, plan' = [plan EXCEPT ![m] = {}],
           UNCHANGED <<time, workflowTables, suspect, quiet>>
    PROVE  MaintenanceInv'
<1>1. plan' = [n \in Migrator |-> IF n = m THEN {} ELSE plan[n]]
      BY DEF MaintenanceInv, TablesShape
<1>2. UNCHANGED <<time, taskRows, summaries, edges, suspect, quiet>>
      BY DEF workflowTables
<1>3. TablesShape'
      BY <1>1, <1>2 DEF MaintenanceInv, TablesShape, Exists
<1>4. \A n \in Migrator : plan'[n] = {} \/ plan'[n] = plan[n]
      BY <1>1
<1>5. RightOutside(suspect)'
      BY <1>2, <1>4, SameTables DEF MaintenanceInv, RightOutside
<1>6. QuietBackfills'
      BY <1>2, <1>4, SameTables DEF MaintenanceInv, QuietBackfills
<1>7. QED  BY <1>3, <1>5, <1>6 DEF MaintenanceInv

(* The ingester's step: outside the workflows it touches nothing changes,    *)
(* and these it leaves right unless a backfill is under way.                 *)
LEMMA IngestIsMaintained ==
    ASSUME MaintenanceInv, NEW t \in StoredTask, NEW s \in State, NEW rooted \in BOOLEAN,
           Ingest(t, s, rooted)
    PROVE  MaintenanceInv'
<1> DEFINE w == Grouping(t, rooted, taskRows[t])
           old == taskRows[t].workflow
           row == [state |-> s, last |-> time', workflow |-> w, rooted |-> rooted \/ taskRows[t].rooted]
           emptied == IF Exists(taskRows, t) /\ old # w /\ Members(taskRows', old) = {}
                      THEN {old} ELSE {}
           ws == {w, RootOf[t], t} \cup IF Exists(taskRows, t) THEN {old} ELSE {}
<1>1. /\ taskRows' = [taskRows EXCEPT ![t] = row]
      /\ summaries' = [v \in StoredTask |-> IF v = w THEN Summary(taskRows', w)
                                            ELSE IF v \in emptied THEN NoWorkflow ELSE summaries[v]]
      /\ edges' = {e \in edges : e[1] \notin emptied} \cup {<<w, t>>}
      /\ suspect' = IF Migrating THEN suspect \cup ws ELSE suspect
      /\ quiet' = {}
      /\ plan' = plan
      /\ time' \in 0..MaxIngested
  <2>1. time' \in 0..MaxIngested
        BY MaintenanceAssumption DEF Ingest, MaintenanceInv, TablesShape
  <2>2. QED  BY <2>1, Zenon DEF Ingest, Interfere
<1>2. taskRows \in Table /\ (\A u \in StoredTask : Exists(taskRows, u) => taskRows[u].workflow \in {u, RootOf[u]})
      BY DEF MaintenanceInv, TablesShape, Table
<1>3. w \in {t, RootOf[t]} /\ w \in StoredTask /\ RootOf[t] \in StoredTask /\ (rooted => w = RootOf[t])
  <2>1. taskRows[t] # NoTask => taskRows[t].workflow \in {t, RootOf[t]}
        BY <1>2 DEF Exists
  <2>2. QED  BY <2>1, MaintenanceAssumption DEF Grouping
<1>4. taskRows[t].rooted \in BOOLEAN
  <2>1. \A r \in Row : r.rooted \in BOOLEAN
        BY DEF Row
  <2>2. NoTask.rooted \in BOOLEAN
        BY DEF NoTask
  <2>3. taskRows[t] \in Row \cup {NoTask}
        BY <1>2 DEF Table
  <2>4. QED  BY <2>1, <2>2, <2>3
<1>5. row \in Row
      BY <1>1, <1>3, <1>4, MaintenanceAssumption DEF Row
<1> HIDE DEF w, old
<1>6. \A u \in StoredTask : taskRows'[u] = IF u = t THEN row ELSE taskRows[u]
      BY <1>1, <1>2 DEF Table
<1>7. row.workflow = w /\ row.rooted = (rooted \/ taskRows[t].rooted)
      OBVIOUS
<1>8. taskRows' \in Table
      BY <1>1, <1>2, <1>5 DEF Table
<1> HIDE DEF row
<1>9. \A u \in StoredTask : u \in Existing(taskRows') <=> u = t \/ u \in Existing(taskRows)
      BY <1>2, <1>5, <1>6, <1>8, RowsExist
<1>10. \A u \in StoredTask : \A v :
          u \in Members(taskRows', v) <=> IF u = t THEN w = v ELSE u \in Members(taskRows, v)
      BY <1>6, <1>7, <1>9 DEF Members
<1>11. \A v : Members(taskRows, v) \subseteq StoredTask /\ Members(taskRows', v) \subseteq StoredTask
      BY DEF Members, Existing
<1>12. t \in Existing(taskRows) => old \in {t, RootOf[t]}
      BY <1>2 DEF old, Existing
<1>13. \A v : t \in Members(taskRows, v) <=> t \in Existing(taskRows) /\ old = v
      BY DEF Members, old
<1>14. TablesShape'
  <2>1. ASSUME NEW u \in StoredTask, Exists(taskRows', u)
        PROVE  taskRows'[u].workflow \in {u, RootOf[u]}
        BY <1>2, <1>3, <1>6, <1>7, <2>1 DEF Exists
  <2>2. summaries' = [v \in StoredTask |-> summaries'[v]]
        BY <1>1
  <2>3. plan' = [m \in Migrator |-> plan'[m]]
        BY <1>1 DEF MaintenanceInv, TablesShape
  <2>4. time' \in 0..MaxIngested /\ taskRows' \in [StoredTask -> Row \cup {NoTask}]
        BY <1>1, <1>8 DEF Table
  <2>5. QED  BY <2>1, <2>2, <2>3, <2>4 DEF TablesShape, Exists
<1>15. /\ emptied \subseteq {old}
       /\ old \in emptied <=> t \in Existing(taskRows) /\ old # w /\ Members(taskRows', old) = {}
       BY DEF Existing
<1>16. t \in Existing(taskRows) => old \in ws
       BY DEF Existing
<1> HIDE DEF emptied
<1>17. \A v \in StoredTask : v # w /\ v \notin emptied => summaries'[v] = summaries[v]
      BY <1>1
<1>18. ASSUME NEW v \in StoredTask, v # w, t \in Existing(taskRows) => old # v
       PROVE  Untouched(v)
  <2>1. Members(taskRows', v) = Members(taskRows, v)
        BY <1>10, <1>11, <1>13, <1>18
  <2>2. \A u \in Members(taskRows, v) : taskRows'[u] = taskRows[u]
        BY <1>6, <1>11, <1>13, <1>18
  <2>3. v \notin emptied
        BY <1>15, <1>18
  <2>4. summaries'[v] = summaries[v]
        BY <1>17, <1>18, <2>3
  <2>5. ASSUME NEW e \in edges', e[1] = v PROVE e \in edges
        BY <1>1, <1>18, <2>5
  <2>6. ASSUME NEW u \in Members(taskRows, v), <<v, u>> \in edges PROVE <<v, u>> \in edges'
        BY <1>1, <2>3, <2>6
  <2>7. QED  BY <2>1, <2>2, <2>4, <2>5, <2>6 DEF Untouched
<1>19. w \in ws
      OBVIOUS
<1>20. \A v \in StoredTask \ ws : Untouched(v)
      BY <1>16, <1>18, <1>19
<1>21. ASSUME NEW v \in (StoredTask \cap ws) \ suspect' PROVE Consistent(v)'
  <2>1. ~Migrating /\ v \notin suspect
        BY <1>1, <1>21
  <2>2. Consistent(v)
        BY <2>1 DEF MaintenanceInv, RightOutside
  <2>3. CASE v = w
    <3>1. t \in Members(taskRows', w) /\ summaries'[w] = Summary(taskRows', w)
          BY <1>1, <1>3, <1>10
    <3>2. ASSUME NEW u \in Members(taskRows', w) PROVE <<w, u>> \in edges'
      <4>1. CASE u = t
            BY <1>1, <4>1
      <4>2. CASE u # t
        <5>1. u \in Members(taskRows, w)
              BY <1>10, <1>11, <3>2, <4>2
        <5>2. <<w, u>> \in edges
              BY <2>2, <2>3, <5>1 DEF Consistent
        <5>3. w \notin emptied
              BY <1>15
        <5>4. QED  BY <1>1, <5>2, <5>3
      <4>3. QED  BY <4>1, <4>2
    <3>3. QED  BY <2>3, <3>1, <3>2, InTheNextState
  <2>4. CASE v # w /\ v \in emptied
    <3>1. Members(taskRows', v) = {} /\ summaries'[v] = NoWorkflow
          BY <1>1, <1>15, <2>4
    <3>2. \A e \in edges' : e[1] # v
          BY <1>1, <2>4
    <3>3. QED  BY <3>1, <3>2, InTheNextState
  <2>5. CASE v # w /\ v \notin emptied
    <3>1. CASE t \in Existing(taskRows) /\ old = v
      <4>1. PICK u \in StoredTask : u \in Members(taskRows', old)
            BY <1>11, <1>15, <2>5, <3>1
      <4>2. u # t /\ u \in Members(taskRows, old)
            BY <1>10, <2>5, <3>1, <4>1
      <4>3. old \in {u, RootOf[u]}
            BY <1>2, <4>2 DEF Members, Existing
      <4>4. rooted /\ w = RootOf[t]
        <5>1. ~rooted => w = old
              BY <3>1 DEF Grouping, w, old, Existing, Exists
        <5>2. QED  BY <1>3, <2>5, <3>1, <5>1
      <4>5. old = t
            BY <1>12, <2>5, <3>1, <4>4
      <4>6. RootOf[u] = t
            BY <4>2, <4>3, <4>5
      <4>7. RootOf[t] = t
            BY <4>6, MaintenanceAssumption
      <4>8. QED  BY <2>5, <3>1, <4>4, <4>5, <4>7
    <3>2. CASE ~(t \in Existing(taskRows) /\ old = v)
          BY <1>18, <2>2, <2>5, <3>2, UntouchedIsConsistent
    <3>3. QED  BY <3>1, <3>2
  <2>6. QED  BY <2>3, <2>4, <2>5
<1>22. \A u \in StoredTask : Exists(taskRows', u) => taskRows'[u] = taskRows[u] \/ {u, RootOf[u]} \subseteq ws
      BY <1>6
<1>23. ASSUME NEW u \in StoredTask, Misplaced(taskRows', u) PROVE Misplaced(taskRows, u)
  <2>1. CASE u = t
    <3>1. (rooted \/ taskRows[t].rooted) /\ w # RootOf[t]
          BY <1>6, <1>7, <1>23, <2>1 DEF Misplaced
    <3>2. taskRows[t].rooted /\ taskRows[t] # NoTask
          BY <1>3, <3>1 DEF NoTask
    <3>3. w = taskRows[t].workflow
          BY <1>3, <3>1, <3>2 DEF w, Grouping
    <3>4. QED  BY <2>1, <3>1, <3>2, <3>3 DEF Misplaced, Exists
  <2>2. CASE u # t
        BY <1>6, <1>23, <2>2 DEF Misplaced, Exists
  <2>3. QED  BY <2>1, <2>2
<1>24. suspect' = IF Migrating THEN suspect \cup ws ELSE suspect
      BY <1>1
<1> HIDE DEF ws
<1>25. QED  BY <1>1, <1>14, <1>20, <1>21, <1>22, <1>23, <1>24, OnlyTouched

LEMMA CleanupIsMaintained ==
    ASSUME MaintenanceInv, NEW c \in Cleaner, CleanupDeletes(c)
    PROVE  MaintenanceInv'
<1>1. CASE cleaning[c].chosen = {}
  <2>1. UNCHANGED <<time, workflowTables, plan, suspect, quiet>>
        BY <1>1 DEF CleanupDeletes
  <2>2. QED  BY <2>1, TablesLeftAlone
<1>2. CASE cleaning[c].chosen # {}
  <2>1. PICK ws : RemoveWorkflows(ws) /\ Interfere(ws)
        BY <1>2 DEF CleanupDeletes
  <2>2. UNCHANGED <<time, plan>>
        BY DEF CleanupDeletes
  <2>3. /\ taskRows \in Table
        /\ \A u \in StoredTask : Exists(taskRows, u) => taskRows[u].workflow \in {u, RootOf[u]}
        BY DEF MaintenanceInv, TablesShape, Table
  <2>4. \A u \in StoredTask : taskRows'[u] = IF taskRows[u].workflow \in ws THEN NoTask ELSE taskRows[u]
        BY <2>1 DEF RemoveWorkflows
  <2>5. taskRows' \in Table
        BY <2>1, <2>3 DEF RemoveWorkflows, Table
  <2>6. \A u \in StoredTask : u \in Existing(taskRows') <=> u \in Existing(taskRows) /\ taskRows[u].workflow \notin ws
        BY <2>4 DEF Existing, Exists
  <2>7. /\ summaries' = [w \in StoredTask |-> IF w \in ws THEN NoWorkflow ELSE summaries[w]]
        /\ edges' = {e \in edges : e[1] \notin ws /\ taskRows'[e[2]] # NoTask}
        /\ quiet' = {}
        /\ suspect' = IF Migrating THEN suspect \cup ws ELSE suspect
        BY <2>1 DEF RemoveWorkflows, Interfere
  <2>8. \A u \in StoredTask : Exists(taskRows', u) => taskRows'[u] = taskRows[u] /\ Exists(taskRows, u)
        BY <2>4 DEF Exists
  <2>9. TablesShape'
    <3>1. \A u \in StoredTask : Exists(taskRows', u) => taskRows'[u].workflow \in {u, RootOf[u]}
          BY <2>3, <2>8
    <3>2. plan' = [m \in Migrator |-> plan'[m]] /\ time' \in 0..MaxIngested
          BY <2>2 DEF MaintenanceInv, TablesShape
    <3>3. summaries' = [w \in StoredTask |-> summaries'[w]]
          BY <2>7
    <3>4. QED  BY <2>5, <3>1, <3>2, <3>3 DEF TablesShape, Exists, Table
  <2>10. \A w : Members(taskRows', w) = IF w \in ws THEN {} ELSE Members(taskRows, w)
    <3>1. \A w : Members(taskRows, w) \subseteq StoredTask /\ Members(taskRows', w) \subseteq StoredTask
          BY DEF Members, Existing
    <3>2. \A w : \A u \in StoredTask : u \in Members(taskRows', w) <=> u \in Members(taskRows, w) /\ w \notin ws
      <4>1. ASSUME NEW w, NEW u \in StoredTask, u \in Existing(taskRows')
            PROVE  taskRows'[u].workflow = w <=> taskRows[u].workflow = w /\ w \notin ws
            BY <2>4, <2>6, <4>1
      <4>2. QED  BY <2>6, <4>1 DEF Members
    <3>3. QED  BY <3>1, <3>2
  <2>11. ASSUME NEW w \in StoredTask \ ws PROVE Untouched(w)
    <3>1. \A u \in Members(taskRows, w) : u \in StoredTask /\ taskRows'[u] = taskRows[u] /\ taskRows'[u] # NoTask
      <4>1. \A u \in Members(taskRows', w) : u \in StoredTask /\ Exists(taskRows', u)
            BY DEF Members, Existing
      <4>2. QED  BY <2>8, <2>10, <4>1 DEF Exists
    <3>2. summaries'[w] = summaries[w] /\ (\A e \in edges' : e[1] = w => e \in edges)
          BY <2>7
    <3>3. ASSUME NEW u \in Members(taskRows, w), <<w, u>> \in edges PROVE <<w, u>> \in edges'
          BY <2>7, <3>1, <3>3
    <3>4. QED  BY <2>10, <3>1, <3>2, <3>3 DEF Untouched
  <2>12. ASSUME NEW w \in StoredTask \cap ws PROVE Consistent(w)'
    <3>1. Members(taskRows', w) = {} /\ summaries'[w] = NoWorkflow /\ \A e \in edges' : e[1] # w
          BY <2>7, <2>10
    <3>2. QED  BY <3>1, InTheNextState
  <2>13. \A u \in StoredTask : Misplaced(taskRows', u) => Misplaced(taskRows, u)
        BY <2>8 DEF Misplaced
  <2>14. QED  BY <2>2, <2>7, <2>8, <2>9, <2>11, <2>12, <2>13, OnlyTouched
<1>3. QED  BY <1>1, <1>2

LEMMA ClearIsMaintained ==
    ASSUME MaintenanceInv, Clear
    PROVE  MaintenanceInv'
<1>1. /\ taskRows' = [t \in StoredTask |-> NoTask]
      /\ summaries' = [w \in StoredTask |-> NoWorkflow]
      /\ edges' = {} /\ quiet' = {} /\ UNCHANGED <<time, plan>>
      /\ suspect' = IF Migrating THEN suspect \cup StoredTask ELSE suspect
      BY DEF Clear, Interfere
<1>2. \A u \in StoredTask : ~Exists(taskRows', u)
      BY <1>1 DEF Exists
<1>3. \A w : Members(taskRows', w) = {}
      BY <1>2 DEF Members, Existing
<1>4. \A w \in StoredTask : Consistent(w)'
      BY <1>1, <1>3, InTheNextState
<1>5. TablesShape'
  <2>1. taskRows' \in [StoredTask -> Row \cup {NoTask}] /\ summaries' = [w \in StoredTask |-> summaries'[w]]
        BY <1>1
  <2>2. plan' = [m \in Migrator |-> plan'[m]] /\ time' \in 0..MaxIngested
        BY <1>1 DEF MaintenanceInv, TablesShape
  <2>3. QED  BY <1>2, <2>1, <2>2 DEF TablesShape, Exists
<1>6. \A u \in StoredTask : ~Misplaced(taskRows', u)
      BY <1>2 DEF Misplaced
<1>7. QED  BY <1>1, <1>2, <1>4, <1>5, <1>6, OnlyTouched

-----------------------------------------------------------------------------
(* Outside S, the workflows that a backfill plans are the ones there are.    *)
LEMMA PlansFit ==
    ASSUME TablesShape, NEW S, NEW t \in Existing(taskRows), PlannedWorkflow(taskRows, t) \notin S,
           \A u \in StoredTask : Misplaced(taskRows, u) => {u, RootOf[u]} \subseteq S
    PROVE  LET w == PlannedWorkflow(taskRows, t)
           IN  /\ t \in Members(taskRows, w)
               /\ Summary(Regrouped(taskRows), w) = Summary(taskRows, w)
<1> DEFINE w == PlannedWorkflow(taskRows, t)
<1> HIDE DEF w
<1>1. taskRows \in Table /\ (\A u \in StoredTask : Exists(taskRows, u) => taskRows[u].workflow \in {u, RootOf[u]})
      BY DEF TablesShape, Table
<1>2. \A u \in Existing(taskRows) : u \in StoredTask /\ Exists(taskRows, u)
      BY DEF Existing
<1>3. \A u \in Existing(taskRows) : PlannedWorkflow(taskRows, u) = w <=> taskRows[u].workflow = w
  <2> SUFFICES ASSUME NEW u \in Existing(taskRows)
               PROVE  PlannedWorkflow(taskRows, u) = w <=> taskRows[u].workflow = w
      OBVIOUS
  <2>1. CASE Misplaced(taskRows, u)
    <3>1. w \notin {u, RootOf[u]}
          BY <1>2, <2>1 DEF w
    <3>2. PlannedWorkflow(taskRows, u) = RootOf[u] /\ taskRows[u].workflow \in {u, RootOf[u]}
          BY <1>1, <1>2, <2>1 DEF PlannedWorkflow, Misplaced
    <3>3. QED  BY <3>1, <3>2
  <2>2. CASE ~Misplaced(taskRows, u)
        BY <1>1, <2>2, InPlace
  <2>3. QED  BY <2>1, <2>2
<1>4. Members(Regrouped(taskRows), w) = Members(taskRows, w)
      BY <1>1, <1>3, RegroupedRows DEF Members
<1>5. \A u \in Members(taskRows, w) : u \in Existing(taskRows)
      BY DEF Members
<1>6. Summary(Regrouped(taskRows), w) = Summary(taskRows, w)
      BY <1>1, <1>4, <1>5, RegroupedRows, SummaryDepends
<1>7. t \in Members(taskRows, w)
      BY <1>3 DEF Members, w
<1>8. QED  BY <1>6, <1>7 DEF w

LEMMA PlanFits ==
    ASSUME TablesShape, NEW S,
           \A u \in StoredTask : Misplaced(taskRows, u) => {u, RootOf[u]} \subseteq S,
           NEW s \in PlanWorkflowBackfill(taskRows)
    PROVE  Fits(s, S)
<1>1. taskRows \in Table
      BY DEF TablesShape, Table
<1>2. PICK t \in Existing(taskRows) :
        s \in {TaskStep(PlannedWorkflow(taskRows, t), t), EdgeStep(PlannedWorkflow(taskRows, t), t),
               FlowStep(Regrouped(taskRows), PlannedWorkflow(taskRows, t))}
      BY <1>1, PlannedSteps
<1> DEFINE w == PlannedWorkflow(taskRows, t)
<1> HIDE DEF w
<1>3. t \in StoredTask /\ Exists(taskRows, t)
      BY DEF Existing
<1>4. w \in {t, RootOf[t]}
      BY <1>3 DEF w, PlannedWorkflow, TablesShape
<1>5. w \in StoredTask
      BY <1>3, <1>4, MaintenanceAssumption
<1>6. ~({t, RootOf[t]} \subseteq S) => taskRows[t].workflow = w
      BY <1>1, <1>3, InPlace DEF w
<1>7. w \notin S => Members(taskRows, w) # {} /\ Summary(Regrouped(taskRows), w) = Summary(taskRows, w)
      BY PlansFit DEF w
<1>8. CASE s = TaskStep(w, t)
      BY <1>3, <1>4, <1>6, <1>8 DEF Fits, TaskStep
<1>9. CASE s = EdgeStep(w, t)
      BY <1>5, <1>7, <1>9 DEF Fits, EdgeStep
<1>10. CASE s = FlowStep(Regrouped(taskRows), w)
      BY <1>5, <1>7, <1>10 DEF Fits, FlowStep
<1>11. QED  BY <1>2, <1>8, <1>9, <1>10 DEF w

LEMMA ReadIsMaintained ==
    ASSUME MaintenanceInv, NEW m \in Migrator, BackfillReads(m)
    PROVE  MaintenanceInv'
<1>1. /\ plan' = [n \in Migrator |-> IF n = m THEN PlanWorkflowBackfill(taskRows) ELSE plan[n]]
      /\ quiet' = quiet \cup {m}
      BY DEF BackfillReads, MaintenanceInv, TablesShape
<1>2. UNCHANGED <<time, taskRows, summaries, edges, suspect>>
      BY DEF BackfillReads, workflowTables
<1>3. TablesShape'
      BY <1>1, <1>2 DEF MaintenanceInv, TablesShape, Exists
<1>4. taskRows \in Table /\ TablesShape
      /\ \A u \in StoredTask : Misplaced(taskRows, u) => {u, RootOf[u]} \subseteq suspect
      BY DEF MaintenanceInv, TablesShape, RightOutside, Table
<1>5. \A s \in PlanWorkflowBackfill(taskRows) : Fits(s, suspect)
      BY <1>4, PlanFits
<1>6. RightOutside(suspect)'
  <2>1. ASSUME NEW n \in Migrator, NEW s \in plan'[n] PROVE Fits(s, suspect)
        BY <1>1, <1>5, <2>1 DEF MaintenanceInv, RightOutside
  <2>2. QED  BY <1>2, <2>1, SameTables DEF MaintenanceInv, RightOutside
<1>7. QuietBackfills'
  <2>1. ASSUME NEW n \in Migrator \cap quiet', plan'[n] # {}
        PROVE  /\ plan'[n] \subseteq PlanWorkflowBackfill(taskRows)
               /\ \A s \in PlanWorkflowBackfill(taskRows) \ plan'[n] : StepDone(s)
    <3>1. CASE n = m
          BY <1>1, <3>1
    <3>2. CASE n # m
          BY <1>1, <2>1, <3>2 DEF MaintenanceInv, QuietBackfills
    <3>3. QED  BY <3>1, <3>2
  <2>2. QED  BY <1>2, <2>1, SameTables DEF QuietBackfills
<1>8. QED  BY <1>3, <1>6, <1>7 DEF MaintenanceInv

LEMMA ImportIsMaintained ==
    ASSUME MaintenanceInv, NEW table \in Backup, Import(table)
    PROVE  MaintenanceInv'
<1> DEFINE new == Regrouped(table)
           all == {new[t].workflow : t \in Existing(new)}
<1>1. /\ taskRows' = new
      /\ summaries' = [w \in StoredTask |-> IF w \in all THEN Summary(new, w) ELSE NoWorkflow]
      /\ edges' = {<<new[t].workflow, t>> : t \in Existing(new)}
      /\ quiet' = {} /\ suspect' = IF Migrating THEN StoredTask ELSE {}
      /\ UNCHANGED <<time, plan>>
      BY DEF Import, PlannedSummary
<1>2. table \in Table
      BY MaintenanceAssumption DEF Table
<1>3. /\ new \in Table
      /\ \A t \in StoredTask : ~Misplaced(new, t)
      /\ \A t \in Existing(new) : t \in StoredTask /\ new[t].workflow \in {t, RootOf[t]}
  <2>1. \A t \in Existing(table) : t \in StoredTask /\ table[t].workflow \in {t, RootOf[t]}
        BY MaintenanceAssumption DEF Existing, Exists
  <2>2. \A t \in Existing(table) : PlannedWorkflow(table, t) \in {t, RootOf[t]}
        BY <2>1 DEF PlannedWorkflow
  <2>3. QED  BY <1>2, <2>1, <2>2, RegroupedRows
<1> HIDE DEF new
<1>4. TablesShape'
  <2>1. \A t \in StoredTask : Exists(taskRows', t) => taskRows'[t].workflow \in {t, RootOf[t]}
        BY <1>1, <1>3 DEF Existing
  <2>2. plan' = [m \in Migrator |-> plan'[m]] /\ time' \in 0..MaxIngested
        BY <1>1 DEF MaintenanceInv, TablesShape
  <2>3. summaries' = [w \in StoredTask |-> summaries'[w]]
        BY <1>1
  <2>4. QED  BY <1>1, <1>3, <2>1, <2>2, <2>3 DEF TablesShape, Exists, Table
<1>5. ASSUME NEW w \in StoredTask PROVE Consistent(w)'
  <2>1. \A t \in Members(new, w) : t \in Existing(new) /\ new[t].workflow = w
        BY DEF Members
  <2>2. CASE Members(new, w) = {}
    <3>1. \A t \in Existing(new) : new[t].workflow # w
          BY <2>2 DEF Members
    <3>2. w \notin all
          BY <3>1
    <3>3. ASSUME NEW e \in edges' PROVE e[1] # w
      <4>1. PICK t \in Existing(new) : e = <<new[t].workflow, t>>
            BY <1>1, <3>3
      <4>2. QED  BY <3>1, <4>1
    <3>4. summaries'[w] = NoWorkflow
          BY <1>1, <3>2
    <3>5. QED  BY <1>1, <2>2, <3>3, <3>4, InTheNextState
  <2>3. CASE Members(new, w) # {}
    <3>1. w \in all
          BY <2>1, <2>3
    <3>2. summaries'[w] = Summary(new, w)
          BY <1>1, <3>1
    <3>3. \A t \in Members(new, w) : <<w, t>> \in edges'
          BY <1>1, <2>1
    <3>4. QED  BY <1>1, <2>3, <3>2, <3>3, InTheNextState
  <2>4. QED  BY <2>2, <2>3
<1>6. \A m \in Migrator : \A s \in plan[m] : Fits(s, StoredTask)'
  <2> SUFFICES ASSUME NEW m \in Migrator, NEW s \in plan[m] PROVE Fits(s, StoredTask)'
      OBVIOUS
  <2>1. Fits(s, suspect)
        BY DEF MaintenanceInv, RightOutside
  <2>2. \A t \in StoredTask : {t, RootOf[t]} \subseteq StoredTask
        BY MaintenanceAssumption
  <2>3. QED  BY <2>1, <2>2 DEF Fits
<1>7. RightOutside(suspect)'
  <2>1. CASE Migrating
    <3>1. suspect' = StoredTask /\ \A t \in StoredTask : ~Misplaced(taskRows', t)
          BY <1>1, <1>3, <2>1
    <3>2. QED  BY <1>1, <1>5, <1>6, <3>1 DEF RightOutside, Misplaced, Exists
  <2>2. CASE ~Migrating
    <3>1. \A m \in Migrator : plan'[m] = {}
          BY <1>1, <2>2 DEF Migrating
    <3>2. QED  BY <1>1, <1>3, <1>5, <3>1 DEF RightOutside, Misplaced, Exists
  <2>3. QED  BY <2>1, <2>2
<1>8. QED  BY <1>1, <1>4, <1>7 DEF MaintenanceInv, QuietBackfills

-----------------------------------------------------------------------------
LEMMA SomeStepIsDue ==
    ASSUME NEW P, P # {}, \A s \in P : s.kind \in {"task", "workflow", "edge"}
    PROVE  \E s \in P : Due(s, P)
<1>1. CASE \E s \in P : s.kind = "task"
      BY <1>1 DEF Due
<1>2. CASE (\A s \in P : s.kind # "task") /\ \E s \in P : s.kind = "edge" /\ \A r \in P : r.kind = "workflow" => r.pair[1] # s.pair[1]
  <2>1. PICK s \in P : s.kind = "edge" /\ \A r \in P : r.kind = "workflow" => r.pair[1] # s.pair[1]
        BY <1>2
  <2>2. Due(s, P)
        BY <1>2, <2>1 DEF Due
  <2>3. QED  BY <2>2
<1>3. CASE (\A s \in P : s.kind # "task") /\ \A s \in P : s.kind = "edge" => \E r \in P : r.kind = "workflow" /\ r.pair[1] = s.pair[1]
  <2>1. PICK s \in P : s.kind = "workflow"
        BY <1>3
  <2>2. Due(s, P)
        BY <1>3, <2>1 DEF Due
  <2>3. QED  BY <2>2
<1>4. QED  BY <1>1, <1>2, <1>3

(* What one executed step of a plan does to the tables.                      *)
Executed(step) ==
    \/ /\ step.kind = "task" /\ step.pair[2] \in StoredTask /\ Exists(taskRows, step.pair[2])
       /\ UpsertTask(step.pair[2], step.pair[1]) /\ UNCHANGED <<summaries, edges>>
    \/ /\ step.kind = "workflow" /\ summaries' = [summaries EXCEPT ![step.pair[1]] = step.summary]
       /\ UNCHANGED <<taskRows, edges>>
    \/ /\ step.kind = "edge" /\ edges' = edges \cup {<<step.pair[1], step.pair[2]>>}
       /\ UNCHANGED <<taskRows, summaries>>

LEMMA ExecutedTask ==
    ASSUME TablesShape, NEW step, NEW S, Fits(step, S), Executed(step), step.kind = "task"
    PROVE  /\ taskRows' \in Table /\ UNCHANGED <<summaries, edges>>
           /\ step.pair[2] \in Existing(taskRows)
           /\ \A u \in StoredTask : /\ Exists(taskRows', u) <=> Exists(taskRows, u)
                                    /\ u # step.pair[2] => taskRows'[u] = taskRows[u]
           /\ LET t == step.pair[2]
              IN  /\ taskRows'[t].workflow = step.pair[1]
                  /\ taskRows'[t].state = taskRows[t].state /\ taskRows'[t].last = taskRows[t].last
                  /\ taskRows'[t].rooted = taskRows[t].rooted
                  /\ ~({t, RootOf[t]} \subseteq S) => taskRows'[t] = taskRows[t]
<1> DEFINE t == step.pair[2]
           w == step.pair[1]
<1>1. /\ t \in StoredTask /\ Exists(taskRows, t) /\ UpsertTask(t, w) /\ UNCHANGED <<summaries, edges>>
      /\ w \in {t, RootOf[t]} /\ (~({t, RootOf[t]} \subseteq S) => taskRows[t].workflow = w)
      BY DEF Executed, Fits
<1> HIDE DEF t, w
<1>2. w \in StoredTask
      BY <1>1, MaintenanceAssumption
<1>3. taskRows \in Table /\ taskRows[t] \in Row
      BY <1>1, RowsExist DEF TablesShape, Table
<1>4. taskRows' = [taskRows EXCEPT ![t] = [taskRows[t] EXCEPT !.workflow = w]]
      BY <1>1, Zenon DEF UpsertTask
<1> DEFINE r == [taskRows[t] EXCEPT !.workflow = w]
<1>5. /\ r \in Row /\ r.workflow = w /\ r.state = taskRows[t].state /\ r.last = taskRows[t].last
      /\ r.rooted = taskRows[t].rooted /\ (taskRows[t].workflow = w => r = taskRows[t])
      BY <1>2, <1>3 DEF Row
<1> HIDE DEF r
<1>6. taskRows' = [taskRows EXCEPT ![t] = r]
      BY <1>4 DEF r
<1>7. taskRows' \in Table
      BY <1>3, <1>5, <1>6 DEF Table
<1>8. \A u \in StoredTask : taskRows'[u] = IF u = t THEN r ELSE taskRows[u]
      BY <1>3, <1>6 DEF Table
<1>9. \A u \in StoredTask : Exists(taskRows', u) <=> Exists(taskRows, u)
  <2>1. NoTask \notin Row
        BY DEF NoTask, Row
  <2>2. QED  BY <1>3, <1>5, <1>8, <2>1 DEF Exists
<1>10. QED  BY <1>1, <1>5, <1>7, <1>8, <1>9 DEF Existing, t, w

(* Outside S the step changes nothing, or writes what is there.              *)
LEMMA ExecutedMembers ==
    ASSUME TablesShape, NEW step, NEW S, Fits(step, S), Executed(step), NEW v \in StoredTask \ S
    PROVE  /\ Members(taskRows', v) = Members(taskRows, v)
           /\ Summary(taskRows', v) = Summary(taskRows, v)
           /\ \A u \in Members(taskRows, v) : taskRows'[u] = taskRows[u]
<1>1. CASE step.kind # "task"
      BY <1>1 DEF Executed
<1>2. CASE step.kind = "task"
  <2> DEFINE t == step.pair[2]
             w == step.pair[1]
  <2> HIDE DEF t, w
  <2>1. /\ t \in Existing(taskRows) /\ t \in StoredTask
        /\ \A u \in StoredTask : /\ Exists(taskRows', u) <=> Exists(taskRows, u)
                                 /\ u # t => taskRows'[u] = taskRows[u]
        /\ taskRows'[t].workflow = w
        /\ ~({t, RootOf[t]} \subseteq S) => taskRows'[t] = taskRows[t]
        BY <1>2, ExecutedTask DEF t, w, Existing
  <2>2. w \in {t, RootOf[t]} /\ taskRows[t].workflow \in {t, RootOf[t]}
        BY <1>2, <2>1 DEF Fits, TablesShape, Existing, t, w
  <2>3. \A u \in Existing(taskRows') : u \in StoredTask /\ u \in Existing(taskRows)
        BY <2>1 DEF Existing
  <2>4. \A u \in Existing(taskRows) : u \in StoredTask /\ u \in Existing(taskRows')
        BY <2>1 DEF Existing
  <2>5. \A u \in Existing(taskRows) : taskRows'[u].workflow = v <=> taskRows[u].workflow = v
        BY <2>1, <2>2, <2>4
  <2>6. Members(taskRows', v) = Members(taskRows, v)
        BY <2>3, <2>4, <2>5 DEF Members
  <2>7. \A u \in Members(taskRows, v) : taskRows'[u] = taskRows[u]
        BY <2>1, <2>2, <2>4 DEF Members
  <2>8. Summary(taskRows', v) = Summary(taskRows, v)
        BY <2>6, <2>7, SummaryDepends
  <2>9. QED  BY <2>6, <2>7, <2>8
<1>3. QED  BY <1>1, <1>2

LEMMA ExecutedOutside ==
    ASSUME MaintenanceInv, NEW S, S = suspect, NEW m \in Migrator, NEW step \in plan[m], Executed(step),
           \A n \in Migrator : plan'[n] \subseteq plan[n]
    PROVE  RightOutside(S)'
<1>1. Fits(step, S) /\ TablesShape /\ RightOutside(S)
      BY DEF MaintenanceInv, RightOutside
<1> DEFINE t == step.pair[2]
           w == step.pair[1]
<1> HIDE DEF t, w
<1>2. \A v \in StoredTask \ S : /\ Members(taskRows', v) = Members(taskRows, v)
                                /\ Summary(taskRows', v) = Summary(taskRows, v)
                                /\ \A u \in Members(taskRows, v) : taskRows'[u] = taskRows[u]
      BY <1>1, ExecutedMembers
<1>3. \A u \in StoredTask : ~({u, RootOf[u]} \subseteq S) =>
        taskRows'[u] = taskRows[u]
  <2>1. CASE step.kind = "task"
        BY <1>1, <2>1, ExecutedTask
  <2>2. CASE step.kind # "task"
        BY <2>2 DEF Executed
  <2>3. QED  BY <2>1, <2>2
<1>4. ASSUME NEW v \in StoredTask \ S PROVE Consistent(v)'
  <2>1. Consistent(v)
        BY <1>1 DEF RightOutside
  <2>2. CASE step.kind = "task"
    <3>1. UNCHANGED <<summaries, edges>>
          BY <1>1, <2>2, ExecutedTask
    <3>2. QED  BY <1>2, <2>1, <3>1, InTheNextState DEF Consistent
  <2>3. CASE step.kind = "workflow"
    <3>1. UNCHANGED <<taskRows, edges>> /\ summaries' = [summaries EXCEPT ![w] = step.summary]
          BY <2>3 DEF Executed, w
    <3>2. summaries'[v] = IF v = w THEN step.summary ELSE summaries[v]
          BY <1>1, <3>1 DEF TablesShape
    <3>3. v = w => Members(taskRows, v) # {} /\ step.summary = Summary(taskRows, v)
          BY <1>1, <2>3 DEF Fits, w
    <3>4. QED  BY <2>1, <3>1, <3>2, <3>3, InTheNextState DEF Consistent
  <2>4. CASE step.kind = "edge"
    <3>1. UNCHANGED <<taskRows, summaries>> /\ edges' = edges \cup {<<w, t>>}
          BY <2>4 DEF Executed, w, t
    <3>2. v = w => Members(taskRows, v) # {}
          BY <1>1, <2>4 DEF Fits, w
    <3>3. \A e \in edges' : e \notin edges => e[1] = w
          BY <3>1
    <3>4. QED  BY <2>1, <3>1, <3>2, <3>3, InTheNextState DEF Consistent
  <2>5. QED  BY <2>2, <2>3, <2>4 DEF Executed
<1>5. ASSUME NEW n \in Migrator, NEW s \in plan'[n] PROVE Fits(s, S)'
  <2>1. Fits(s, S)
        BY <1>1 DEF RightOutside
  <2>2. CASE s.kind = "task"
    <3>1. s.pair[2] \in StoredTask /\ s.pair[1] \in {s.pair[2], RootOf[s.pair[2]]}
          BY <2>1, <2>2 DEF Fits
    <3>2. QED  BY <1>3, <2>1, <2>2, <3>1 DEF Fits, Exists
  <2>3. CASE s.kind # "task"
    <3>1. s.pair[1] \notin S => /\ Members(taskRows, s.pair[1])' = Members(taskRows, s.pair[1])
                                /\ Summary(taskRows, s.pair[1])' = Summary(taskRows, s.pair[1])
          BY <1>2, <2>1, <2>3, InTheNextState DEF Fits
    <3>2. QED  BY <2>1, <2>3, <3>1 DEF Fits
  <2>4. QED  BY <2>2, <2>3
<1>6. ASSUME NEW u \in StoredTask, Misplaced(taskRows', u) PROVE {u, RootOf[u]} \subseteq S
      BY <1>1, <1>3, <1>6 DEF RightOutside, Misplaced, Exists
<1>7. QED  BY <1>4, <1>5, <1>6 DEF RightOutside, Misplaced, Exists

(* What a backfill that began now would do is unchanged by a step of it, and *)
(* what has been done of it stays done.                                      *)
LEMMA ExecutedKeepsPlan ==
    ASSUME TablesShape, NEW step, NEW S, Fits(step, S), Executed(step),
           step \in PlanWorkflowBackfill(taskRows)
    PROVE  /\ PlanWorkflowBackfill(taskRows') = PlanWorkflowBackfill(taskRows)
           /\ \A s \in PlanWorkflowBackfill(taskRows) : StepDone(s) \/ s = step => StepDone(s)'
<1> DEFINE t == step.pair[2]
           w == step.pair[1]
<1> HIDE DEF t, w
<1>1. taskRows \in Table
      BY DEF TablesShape, Table
<1>2. \A s \in PlanWorkflowBackfill(taskRows) : \E u \in Existing(taskRows) :
        s \in {TaskStep(PlannedWorkflow(taskRows, u), u), EdgeStep(PlannedWorkflow(taskRows, u), u),
               FlowStep(Regrouped(taskRows), PlannedWorkflow(taskRows, u))}
      BY <1>1, PlannedSteps
<1>3. ASSUME NEW s \in PlanWorkflowBackfill(taskRows)
      PROVE  /\ s.kind = "task" => s.pair[1] = PlannedWorkflow(taskRows, s.pair[2])
             /\ s.kind = "workflow" => s.summary = Summary(Regrouped(taskRows), s.pair[1])
             /\ s.kind = "edge" => s.pair = <<s.pair[1], s.pair[2]>>
      BY <1>2 DEF TaskStep, EdgeStep, FlowStep
<1>4. CASE step.kind = "task"
  <2>1. /\ t \in Existing(taskRows) /\ t \in StoredTask /\ UNCHANGED <<summaries, edges>>
        /\ \A u \in StoredTask : /\ Exists(taskRows', u) <=> Exists(taskRows, u)
                                 /\ u # t => taskRows'[u] = taskRows[u]
        /\ taskRows'[t].workflow = w /\ taskRows'[t].rooted = taskRows[t].rooted
        /\ taskRows' \in Table
        BY <1>4, ExecutedTask DEF t, w, Existing
  <2>2. /\ taskRows'[t].state = taskRows[t].state /\ taskRows'[t].last = taskRows[t].last
        BY <1>4, ExecutedTask DEF t, w, Existing
  <2>3. w = PlannedWorkflow(taskRows, t)
        BY <1>3, <1>4 DEF t, w
  <2>4. \A u \in StoredTask : PlannedWorkflow(taskRows', u) = PlannedWorkflow(taskRows, u)
        BY <2>1, <2>3 DEF PlannedWorkflow
  <2>5. [taskRows'[t] EXCEPT !.workflow = w] = [taskRows[t] EXCEPT !.workflow = w]
    <3>1. taskRows[t] \in Row /\ taskRows'[t] \in Row
          BY <1>1, <2>1, RowsExist DEF Existing
    <3>2. QED  BY <2>1, <2>2, <3>1 DEF Row
  <2>6. \A u \in StoredTask : [taskRows'[u] EXCEPT !.workflow = PlannedWorkflow(taskRows', u)]
                            = [taskRows[u] EXCEPT !.workflow = PlannedWorkflow(taskRows, u)]
        BY <2>1, <2>3, <2>4, <2>5
  <2>7. Regrouped(taskRows') = Regrouped(taskRows)
        BY <2>1, <2>6 DEF Regrouped
  <2>8. PlanWorkflowBackfill(taskRows') = PlanWorkflowBackfill(taskRows)
        BY <2>7 DEF PlanWorkflowBackfill
  <2>9. ASSUME NEW s \in PlanWorkflowBackfill(taskRows), StepDone(s) \/ s = step PROVE StepDone(s)'
    <3>1. CASE s.kind = "task" /\ s.pair[2] = t
          BY <1>3, <2>1, <2>3, <3>1 DEF StepDone
    <3>2. CASE s.kind = "task" /\ s.pair[2] # t
      <4>1. s.pair[2] \in StoredTask
            BY <1>2, <3>2 DEF TaskStep, EdgeStep, FlowStep, Existing
      <4>2. StepDone(s)
            BY <2>9, <3>2 DEF t
      <4>3. QED  BY <2>1, <3>2, <4>1, <4>2 DEF StepDone
    <3>3. CASE s.kind # "task"
          BY <1>4, <2>1, <2>9, <3>3 DEF StepDone
    <3>4. QED  BY <3>1, <3>2, <3>3
  <2>10. QED  BY <2>8, <2>9
<1>5. CASE step.kind = "workflow"
  <2>1. UNCHANGED <<taskRows, edges>> /\ summaries' = [summaries EXCEPT ![w] = step.summary] /\ w \in StoredTask
        BY <1>5 DEF Executed, Fits, w
  <2>2. \A v \in StoredTask : summaries'[v] = IF v = w THEN step.summary ELSE summaries[v]
        BY <2>1 DEF TablesShape
  <2>3. ASSUME NEW s \in PlanWorkflowBackfill(taskRows), StepDone(s) \/ s = step PROVE StepDone(s)'
    <3>1. CASE s.kind = "workflow" /\ s.pair[1] = w
          BY <1>3, <1>5, <2>1, <2>2, <3>1 DEF StepDone, w
    <3>2. CASE s.kind = "workflow" /\ s.pair[1] # w
      <4>1. summaries[s.pair[1]] = s.summary
            BY <2>3, <3>2 DEF StepDone, w
      <4>2. summaries'[s.pair[1]] = summaries[s.pair[1]]
            BY <2>1, <3>2 DEF TablesShape
      <4>3. QED  BY <3>2, <4>1, <4>2 DEF StepDone
    <3>3. CASE s.kind # "workflow"
          BY <1>5, <2>1, <2>3, <3>3 DEF StepDone
    <3>4. QED  BY <3>1, <3>2, <3>3
  <2>4. QED  BY <2>1, <2>3
<1>6. CASE step.kind = "edge"
  <2>1. UNCHANGED <<taskRows, summaries>> /\ edges' = edges \cup {<<w, t>>} /\ step.pair = <<w, t>>
        BY <1>3, <1>6 DEF Executed, w, t
  <2>2. \A s : StepDone(s) \/ s = step => StepDone(s)'
        BY <1>6, <2>1 DEF StepDone
  <2>3. QED  BY <2>1, <2>2
<1>7. QED  BY <1>4, <1>5, <1>6 DEF Executed

(* The tables after a backfill that nobody disturbed.                        *)
Repaired ==
    /\ \A t \in StoredTask : ~Misplaced(taskRows, t)
    /\ \A w \in StoredTask : Members(taskRows, w) # {} => Consistent(w)
    /\ \A s \in PlanWorkflowBackfill(taskRows) : Fits(s, {})

AllDone == \A s \in PlanWorkflowBackfill(taskRows) : StepDone(s)

LEMMA DoneIsRepaired == TablesShape /\ AllDone => Repaired
<1> SUFFICES ASSUME TablesShape, AllDone PROVE Repaired
    OBVIOUS
<1>1. taskRows \in Table
      BY DEF TablesShape, Table
<1>2. ASSUME NEW t \in Existing(taskRows)
      PROVE  /\ taskRows[t].workflow = PlannedWorkflow(taskRows, t)
             /\ summaries[PlannedWorkflow(taskRows, t)] = Summary(Regrouped(taskRows), PlannedWorkflow(taskRows, t))
             /\ <<PlannedWorkflow(taskRows, t), t>> \in edges
  <2> DEFINE w == PlannedWorkflow(taskRows, t)
  <2> HIDE DEF w
  <2>1. /\ TaskStep(w, t) \in PlanWorkflowBackfill(taskRows)
        /\ EdgeStep(w, t) \in PlanWorkflowBackfill(taskRows)
        /\ FlowStep(Regrouped(taskRows), w) \in PlanWorkflowBackfill(taskRows)
        BY <1>1, PlannedSteps DEF w
  <2>2. StepDone(TaskStep(w, t)) /\ StepDone(EdgeStep(w, t)) /\ StepDone(FlowStep(Regrouped(taskRows), w))
        BY <2>1 DEF AllDone
  <2>3. taskRows[t].workflow = w
        BY <2>2 DEF StepDone, TaskStep
  <2>4. <<w, t>> \in edges
        BY <2>2 DEF StepDone, EdgeStep
  <2>5. summaries[w] = Summary(Regrouped(taskRows), w)
        BY <2>2 DEF StepDone, FlowStep
  <2>6. QED  BY <2>3, <2>4, <2>5 DEF w
<1>3. \A t \in StoredTask : ~Misplaced(taskRows, t)
      BY <1>2 DEF Misplaced, PlannedWorkflow, Existing
<1>4. \A s \in PlanWorkflowBackfill(taskRows) : Fits(s, {})
      BY <1>3, PlanFits
<1>5. ASSUME NEW w \in StoredTask, Members(taskRows, w) # {} PROVE Consistent(w)
  <2>1. \A t \in Members(taskRows, w) : t \in Existing(taskRows) /\ PlannedWorkflow(taskRows, t) = w
        BY <1>2 DEF Members
  <2>2. PICK t \in Members(taskRows, w) : TRUE
        BY <1>5
  <2>3. t \in Existing(taskRows) /\ PlannedWorkflow(taskRows, t) = w
        BY <2>1
  <2>4. Summary(Regrouped(taskRows), PlannedWorkflow(taskRows, t)) = Summary(taskRows, PlannedWorkflow(taskRows, t))
    <3>1. PlannedWorkflow(taskRows, t) \notin {}
          OBVIOUS
    <3>2. QED  BY <1>3, <2>3, <3>1, PlansFit
  <2>5. QED  BY <1>2, <1>5, <2>1, <2>3, <2>4 DEF Consistent
<1>6. QED  BY <1>3, <1>4, <1>5 DEF Repaired

LEMMA StepIsMaintained ==
    ASSUME MaintenanceInv, NEW m \in Migrator, BackfillStep(m)
    PROVE  MaintenanceInv'
<1> DEFINE step == CHOOSE s \in plan[m] : Due(s, plan[m])
           w == step.pair[1]
           t == step.pair[2]
<1> PICK S : S = suspect
    OBVIOUS
<1>1. /\ plan[m] # {} /\ step \in plan[m] /\ Fits(step, S) /\ TablesShape
      /\ step.kind \in {"task", "workflow", "edge"}
  <2>1. plan[m] # {} /\ \A s \in plan[m] : Fits(s, S)
        BY DEF BackfillStep, MaintenanceInv, RightOutside
  <2>2. \A s \in plan[m] : s.kind \in {"task", "workflow", "edge"}
        BY <2>1 DEF Fits
  <2>3. \E s \in plan[m] : Due(s, plan[m])
        BY <2>1, <2>2, SomeStepIsDue
  <2>4. step \in plan[m]
        BY <2>3
  <2>5. QED  BY <2>1, <2>2, <2>4 DEF MaintenanceInv
<1>2. \/ step.kind = "task" /\ ~Exists(taskRows, t) /\ plan' = [plan EXCEPT ![m] = {}]
         /\ UNCHANGED <<workflowTables, suspect, quiet>>
      \/ /\ ~(step.kind = "task" /\ ~Exists(taskRows, t))
         /\ plan' = [plan EXCEPT ![m] = plan[m] \ {step}]
         /\ \/ step.kind = "task" /\ UpsertTask(t, w) /\ UNCHANGED <<summaries, edges>>
            \/ step.kind = "workflow" /\ summaries' = [summaries EXCEPT ![w] = step.summary]
               /\ UNCHANGED <<taskRows, edges>>
            \/ step.kind = "edge" /\ edges' = edges \cup {<<w, t>>} /\ UNCHANGED <<taskRows, summaries>>
         /\ quiet' = IF m \in quiet
                     THEN quiet \ (Cleaner \cup IF plan'[m] = {} THEN {m} ELSE {}) ELSE {}
         /\ suspect' = IF plan'[m] = {} /\ Undisturbed
                       THEN {v \in suspect : Members(taskRows', v) = {}} ELSE suspect
      BY Zenon DEF BackfillStep
<1>3. UNCHANGED time
      BY DEF BackfillStep
<1> HIDE DEF step
<1>4. CASE step.kind = "task" /\ ~Exists(taskRows, t)
      BY <1>2, <1>3, <1>4, PlanDropped
<1>5. CASE ~(step.kind = "task" /\ ~Exists(taskRows, t))
  <2>1. /\ plan' = [plan EXCEPT ![m] = plan[m] \ {step}]
        /\ \/ step.kind = "task" /\ UpsertTask(t, w) /\ UNCHANGED <<summaries, edges>>
           \/ step.kind = "workflow" /\ summaries' = [summaries EXCEPT ![w] = step.summary]
              /\ UNCHANGED <<taskRows, edges>>
           \/ step.kind = "edge" /\ edges' = edges \cup {<<w, t>>} /\ UNCHANGED <<taskRows, summaries>>
        /\ quiet' = IF m \in quiet
                    THEN quiet \ (Cleaner \cup IF plan'[m] = {} THEN {m} ELSE {}) ELSE {}
        /\ suspect' = IF plan'[m] = {} /\ Undisturbed
                      THEN {v \in suspect : Members(taskRows', v) = {}} ELSE suspect
        BY <1>2, <1>5
  <2>2. Executed(step)
    <3>1. step.kind = "task" => t \in StoredTask
          BY <1>1 DEF Fits
    <3>2. QED  BY <1>5, <2>1, <3>1 DEF Executed
  <2>3. \A n \in Migrator : plan'[n] = IF n = m THEN plan[m] \ {step} ELSE plan[n]
        BY <1>1, <2>1 DEF TablesShape
  <2>4. \A n \in Migrator : plan'[n] \subseteq plan[n]
        BY <2>3
  <2>5. TablesShape'
    <3>1. plan' = [n \in Migrator |-> plan'[n]]
          BY <1>1, <2>1 DEF TablesShape
    <3>2. summaries' = [v \in StoredTask |-> summaries'[v]]
          BY <1>1, <2>1 DEF TablesShape
    <3>3. CASE step.kind = "task"
      <4>1. /\ taskRows' \in Table /\ t \in StoredTask
            /\ \A u \in StoredTask : /\ Exists(taskRows', u) <=> Exists(taskRows, u)
                                     /\ u # t => taskRows'[u] = taskRows[u]
            /\ taskRows'[t].workflow = w /\ w \in {t, RootOf[t]}
            BY <1>1, <2>2, <3>3, ExecutedTask DEF Fits
      <4>2. ASSUME NEW u \in StoredTask, Exists(taskRows', u) PROVE taskRows'[u].workflow \in {u, RootOf[u]}
            BY <1>1, <4>1, <4>2 DEF TablesShape
      <4>3. QED  BY <1>1, <1>3, <3>1, <3>2, <4>1, <4>2 DEF TablesShape, Table, Exists
    <3>4. CASE step.kind # "task"
      <4>1. taskRows' = taskRows
            BY <2>1, <3>4
      <4>2. QED  BY <1>1, <1>3, <3>1, <3>2, <4>1 DEF TablesShape, Exists
    <3>5. QED  BY <3>3, <3>4
  <2>6. RightOutside(S)'
        BY <1>1, <2>2, <2>4, ExecutedOutside
  <2>7. ASSUME m \in quiet
        PROVE  /\ PlanWorkflowBackfill(taskRows') = PlanWorkflowBackfill(taskRows)
               /\ \A n \in Migrator : plan'[n] # {} /\ n \in quiet =>
                     plan'[n] \subseteq PlanWorkflowBackfill(taskRows)
               /\ \A n \in Migrator : plan[n] # {} /\ n \in quiet =>
                     \A s \in PlanWorkflowBackfill(taskRows) \ plan'[n] : StepDone(s)'
    <3>1. \A n \in Migrator : plan[n] # {} /\ n \in quiet =>
             /\ plan[n] \subseteq PlanWorkflowBackfill(taskRows)
             /\ \A s \in PlanWorkflowBackfill(taskRows) \ plan[n] : StepDone(s)
          BY DEF MaintenanceInv, QuietBackfills
    <3>2. step \in PlanWorkflowBackfill(taskRows)
          BY <1>1, <2>7, <3>1
    <3>3. /\ PlanWorkflowBackfill(taskRows') = PlanWorkflowBackfill(taskRows)
          /\ \A s \in PlanWorkflowBackfill(taskRows) : StepDone(s) \/ s = step => StepDone(s)'
          BY <1>1, <2>2, <3>2, ExecutedKeepsPlan
    <3>4. ASSUME NEW n \in Migrator, plan[n] # {}, n \in quiet,
                 NEW s \in PlanWorkflowBackfill(taskRows) \ plan'[n]
          PROVE  StepDone(s)'
          BY <2>3, <3>1, <3>3, <3>4
    <3>5. QED  BY <2>4, <3>1, <3>3, <3>4
  <2>8. QuietBackfills'
    <3>1. CASE m \in quiet
      <4>1. quiet' \subseteq quiet
            BY <2>1, <3>1
      <4>2. \A n \in Migrator : plan'[n] # {} => plan[n] # {}
            BY <2>4
      <4>3. QED  BY <2>7, <3>1, <4>1, <4>2, InTheNextState DEF QuietBackfills
    <3>2. CASE m \notin quiet
          BY <2>1, <3>2 DEF QuietBackfills
    <3>3. QED  BY <3>1, <3>2
  <2>9. CASE ~(plan'[m] = {} /\ Undisturbed)
    <3>1. suspect' = S
          BY <2>1, <2>9
    <3>2. RightOutside(suspect)'
          BY <2>6, <3>1
    <3>3. QED  BY <2>5, <2>8, <3>2 DEF MaintenanceInv
  <2>10. CASE plan'[m] = {} /\ Undisturbed
    <3>1. \A n \in Migrator : plan[n] # {} => n \in quiet
          BY <2>10 DEF Undisturbed
    <3>2. m \in quiet /\ suspect' = {v \in S : Members(taskRows', v) = {}}
          BY <1>1, <2>1, <2>10, <3>1
    <3>3. \A s \in PlanWorkflowBackfill(taskRows) : StepDone(s)'
          BY <1>1, <2>7, <2>10, <3>2
    <3>4. Repaired'
      <4>1. AllDone'
            BY <2>7, <3>2, <3>3, InTheNextState DEF AllDone
      <4>2. QED  BY <2>5, <4>1, DoneIsRepaired, PTL
    <3>5. /\ \A u \in StoredTask : ~Misplaced(taskRows, u)'
          /\ \A v \in StoredTask : Members(taskRows', v) # {} => Consistent(v)'
          /\ \A s \in PlanWorkflowBackfill(taskRows) : Fits(s, {})'
          BY <2>7, <3>2, <3>4, InTheNextState DEF Repaired
    <3>6. ASSUME NEW n \in Migrator, NEW s \in plan'[n] PROVE Fits(s, {})'
      <4>1. plan[n] # {} /\ plan'[n] # {}
            BY <2>4, <3>6
      <4>2. s \in PlanWorkflowBackfill(taskRows)
            BY <2>7, <3>1, <3>2, <3>6, <4>1
      <4>3. QED  BY <3>5, <4>2
    <3>7. ASSUME NEW n \in Migrator, NEW s \in plan'[n], NEW R PROVE Fits(s, R)'
          BY <3>6, <3>7 DEF Fits
    <3>8. ASSUME NEW v \in StoredTask \ suspect' PROVE Consistent(v)'
      <4>1. CASE v \in S
            BY <3>2, <3>5, <3>8, <4>1
      <4>2. CASE v \notin S
            BY <2>6, <4>2 DEF RightOutside
      <4>3. QED  BY <4>1, <4>2
    <3>9. PICK R : R = suspect'
          OBVIOUS
    <3>10. RightOutside(R)'
          BY <3>5, <3>7, <3>8, <3>9 DEF RightOutside
    <3>11. RightOutside(suspect)'
          BY <3>9, <3>10
    <3>12. QED  BY <2>5, <2>8, <3>11 DEF MaintenanceInv
  <2>11. QED  BY <2>9, <2>10
<1>6. QED  BY <1>4, <1>5

(* Every step keeps the tables right outside the suspect workflows.          *)
LEMMA MaintenanceStep == MaintenanceInv /\ [MaintenanceNext]_maintenanceVars => MaintenanceInv'
<1> SUFFICES ASSUME MaintenanceInv, [MaintenanceNext]_maintenanceVars PROVE MaintenanceInv'
    OBVIOUS
<1>1. CASE \E t \in StoredTask, s \in State, rooted \in BOOLEAN : Ingest(t, s, rooted)
      BY <1>1, IngestIsMaintained
<1>2. CASE \E m \in Migrator : BackfillReads(m)
      BY <1>2, ReadIsMaintained
<1>3. CASE \E m \in Migrator : BackfillStep(m)
      BY <1>3, StepIsMaintained
<1>4. CASE \E m \in Migrator : BackfillAborts(m)
      BY <1>4, PlanDropped DEF BackfillAborts
<1>5. CASE \E c \in Cleaner : CleanupCounts(c) \/ CleanupLists(c) \/ CleanupExpires(c)
      BY <1>5, TablesLeftAlone, MaintenanceAssumption DEF CleanupCounts, CleanupLists, CleanupExpires
<1>6. CASE \E c \in Cleaner : CleanupDeletes(c)
      BY <1>6, CleanupIsMaintained
<1>7. CASE \E p \in Policy : PutRetention(p)
      BY <1>7, TablesLeftAlone DEF PutRetention
<1>8. CASE Clear
      BY <1>8, ClearIsMaintained
<1>9. CASE \E table \in Backup : Import(table)
      BY <1>9, ImportIsMaintained
<1>10. CASE UNCHANGED maintenanceVars
      BY <1>10, TablesLeftAlone DEF maintenanceVars
<1>11. QED  BY <1>1, <1>2, <1>3, <1>4, <1>5, <1>6, <1>7, <1>8, <1>9, <1>10 DEF MaintenanceNext

(* A workflow's summary, its edges and its tasks agree, whichever of the     *)
(* ingester, cleanup, clear, import and any number of replicas' backfills    *)
(* wrote them, except where something changed under a backfill; and a        *)
(* backfill that nobody disturbs repairs what was left wrong                 *)
(* (surreal-schema.ts, observation-api.ts).                                  *)
THEOREM DamageStaysContained == MaintenanceSpec => []DamageIsContained
<1>1. MaintenanceInv => DamageIsContained
      BY DEF MaintenanceInv, RightOutside, DamageIsContained
<1>2. QED  BY <1>1, InitIsMaintained, MaintenanceStep, PTL DEF MaintenanceSpec

-----------------------------------------------------------------------------
(* What the records are beside that, for cleanup, which compares and adds    *)
(* what the summaries say.                                                   *)
SummaryTyped(s) == s.total \in 0..Cardinality(StoredTask) /\ s.last \in Nat

Cleanup == [at : {"idle", "counted", "listed", "chosen"}, chosen : SUBSET StoredTask,
            excess : Nat, limit : Nat]

RecordsShape ==
    /\ \A w \in StoredTask : SummaryTyped(summaries[w])
    /\ edges \subseteq StoredTask \X StoredTask
    /\ \A m \in Migrator : \A s \in plan[m] : s.pair \in StoredTask \X StoredTask /\ SummaryTyped(s.summary)
    /\ cleaning \in [Cleaner -> Cleanup]
    /\ retention \in Policy /\ suspect \subseteq StoredTask /\ quiet \subseteq Migrator \cup Cleaner

LEMMA SubsetsAreFinite ==
    ASSUME NEW S \in SUBSET StoredTask
    PROVE  IsFiniteSet(S) /\ Cardinality(S) \in 0..Cardinality(StoredTask)
<1>1. IsFiniteSet(StoredTask)
      BY MaintenanceAssumption
<1>2. IsFiniteSet(S) /\ Cardinality(S) <= Cardinality(StoredTask)
      BY <1>1, FS_Subset
<1>3. Cardinality(S) \in Nat /\ Cardinality(StoredTask) \in Nat
      BY <1>1, <1>2, FS_CardinalityType
<1>4. QED  BY <1>2, <1>3

(* A set of times has a latest.                                              *)
LEMMA LatestOf ==
    ASSUME NEW S \in SUBSET (0..MaxIngested), S # {}
    PROVE  Latest(S) \in S
<1> DEFINE above(n) == {m \in 0..MaxIngested : n <= m}
           all == {above(n) : n \in S}
<1>1. \A n \in S : above(n) \in FiniteSubsetsOf(0..MaxIngested)
  <2>1. IsFiniteSet(0..MaxIngested)
        BY MaintenanceAssumption, FS_Interval
  <2>2. QED  BY <2>1, FS_Subset DEF FiniteSubsetsOf
<1>2. all \subseteq FiniteSubsetsOf(0..MaxIngested) /\ all # {}
      BY <1>1
<1>3. PICK least \in all : \A other \in all : ~(<<other, least>> \in StrictSubsetOrdering(0..MaxIngested))
  <2> HIDE DEF all
  <2>1. QED  BY <1>2, FS_StrictSubsetOrderingWellFounded, WFMin
<1>4. PICK n \in S : least = above(n)
      BY <1>3
<1>5. ASSUME NEW m \in S, m > n PROVE FALSE
  <2>1. above(m) \in all
        OBVIOUS
  <2>2. n \in above(n) /\ n \notin above(m) /\ above(m) \subseteq above(n)
        BY <1>5, MaintenanceAssumption
  <2>3. <<above(m), above(n)>> \in StrictSubsetOrdering(0..MaxIngested)
        BY <2>2 DEF StrictSubsetOrdering
  <2>4. QED  BY <1>3, <1>4, <2>1, <2>3
<1>6. \A m \in S : m <= n
      BY <1>5, MaintenanceAssumption
<1>7. QED  BY <1>6 DEF Latest

LEMMA SummaryIsTyped ==
    /\ SummaryTyped(NoWorkflow)
    /\ \A f \in Table, w \in StoredTask : Members(f, w) # {} => SummaryTyped(Summary(f, w))
<1>1. SummaryTyped(NoWorkflow)
      BY SubsetsAreFinite DEF SummaryTyped, NoWorkflow
<1>2. ASSUME NEW f \in Table, NEW w \in StoredTask, Members(f, w) # {}
      PROVE  SummaryTyped(Summary(f, w))
  <2>1. Members(f, w) \subseteq StoredTask
        BY DEF Members, Existing
  <2>2. Cardinality(Members(f, w)) \in 0..Cardinality(StoredTask)
        BY <2>1, SubsetsAreFinite
  <2>3. ASSUME NEW t \in Members(f, w) PROVE f[t].last \in 0..MaxIngested
    <3>1. f[t] \in Row
          BY <2>3, RowsExist DEF Members, Existing
    <3>2. QED  BY <3>1 DEF Row
  <2>4. Latest({f[t].last : t \in Members(f, w)}) \in Nat
    <3>1. {f[t].last : t \in Members(f, w)} \in SUBSET (0..MaxIngested)
          BY <2>3
    <3>2. Latest({f[t].last : t \in Members(f, w)}) \in 0..MaxIngested
          BY <1>2, <3>1, LatestOf
    <3>3. QED  BY <3>2, MaintenanceAssumption
  <2>5. /\ Summary(f, w).total = Cardinality(Members(f, w))
        /\ Summary(f, w).last = Latest({f[t].last : t \in Members(f, w)})
        BY DEF Summary
  <2>6. QED  BY <2>2, <2>4, <2>5 DEF SummaryTyped
<1>3. QED  BY <1>1, <1>2

LEMMA InitHasShape == MaintenanceInit => RecordsShape
<1> SUFFICES ASSUME MaintenanceInit PROVE RecordsShape
    OBVIOUS
<1>1. \A w \in StoredTask : SummaryTyped(summaries[w])
      BY SummaryIsTyped DEF MaintenanceInit
<1>2. NoCleanup \in Cleanup
      BY DEF NoCleanup, NoLimit, Cleanup
<1>3. cleaning \in [Cleaner -> Cleanup]
      BY <1>2 DEF MaintenanceInit
<1>4. QED  BY <1>1, <1>3 DEF MaintenanceInit, RecordsShape

(* What a cleanup does to its own record.                                    *)
LEMMA CleaningHasShape ==
    ASSUME MaintenanceInv, RecordsShape, NEW c \in Cleaner,
           CleanupCounts(c) \/ CleanupLists(c) \/ CleanupExpires(c) \/ CleanupDeletes(c)
    PROVE  cleaning' \in [Cleaner -> Cleanup]
<1> DEFINE k == cleaning[c]
<1>1. k \in Cleanup /\ cleaning \in [Cleaner -> Cleanup]
      BY DEF RecordsShape
<1>2. ASSUME NEW r \in Cleanup, cleaning' = [cleaning EXCEPT ![c] = r]
      PROVE  cleaning' \in [Cleaner -> Cleanup]
      BY <1>1, <1>2
<1>3. NoCleanup \in Cleanup
      BY DEF NoCleanup, NoLimit, Cleanup
<1>4. CASE CleanupCounts(c)
  <2> DEFINE total == Cardinality(Existing(taskRows))
             excess == IF total > retention.count THEN total - retention.count ELSE 0
             r == [NoCleanup EXCEPT !.at = "counted", !.excess = excess, !.limit = retention.count]
  <2>1. total \in Nat /\ retention.count \in Nat
    <3>1. Existing(taskRows) \in SUBSET StoredTask
          BY DEF Existing
    <3>2. total \in 0..Cardinality(StoredTask)
          BY <3>1, SubsetsAreFinite
    <3>3. QED  BY <3>2, MaintenanceAssumption DEF RecordsShape
  <2>2. excess \in Nat
        BY <2>1
  <2>3. cleaning' = [cleaning EXCEPT ![c] = r]
        BY <1>4 DEF CleanupCounts
  <2>4. r \in Cleanup
    <3> HIDE DEF excess
    <3>1. QED  BY <1>3, <2>1, <2>2 DEF Cleanup
  <2>5. QED  BY <1>2, <2>3, <2>4
<1>5. CASE CleanupLists(c)
  <2>1. PICK S \in SUBSET ListedWorkflows : cleaning' = [cleaning EXCEPT ![c].at = "listed", ![c].chosen = S]
        BY <1>5 DEF CleanupLists
  <2>2. S \in SUBSET StoredTask
        BY DEF ListedWorkflows
  <2>3. cleaning' = [cleaning EXCEPT ![c] = [k EXCEPT !.at = "listed", !.chosen = S]]
        BY <1>1, <2>1
  <2>4. [k EXCEPT !.at = "listed", !.chosen = S] \in Cleanup
        BY <1>1, <2>2 DEF Cleanup
  <2>5. QED  BY <1>2, <2>3, <2>4
<1>6. CASE CleanupExpires(c)
  <2> DEFINE expired == {w \in ListedWorkflows : summaries[w].last + retention.hours < time}
  <2>1. cleaning' = [cleaning EXCEPT ![c].at = "chosen", ![c].chosen = @ \cup expired]
        BY <1>6 DEF CleanupExpires
  <2>2. expired \in SUBSET StoredTask
        BY DEF ListedWorkflows
  <2> HIDE DEF expired
  <2>3. cleaning' = [cleaning EXCEPT ![c] = [k EXCEPT !.at = "chosen", !.chosen = @ \cup expired]]
        BY <1>1, <2>1
  <2>4. [k EXCEPT !.at = "chosen", !.chosen = @ \cup expired] \in Cleanup
        BY <1>1, <2>2 DEF Cleanup
  <2>5. QED  BY <1>2, <2>3, <2>4
<1>7. CASE CleanupDeletes(c)
      BY <1>2, <1>3, <1>7 DEF CleanupDeletes
<1>8. QED  BY <1>4, <1>5, <1>6, <1>7

LEMMA PlanHasShape ==
    ASSUME NEW f \in Table, NEW s \in PlanWorkflowBackfill(f)
    PROVE  s.pair \in StoredTask \X StoredTask /\ SummaryTyped(s.summary)
<1>1. PICK t \in Existing(f) : s \in {TaskStep(PlannedWorkflow(f, t), t), EdgeStep(PlannedWorkflow(f, t), t),
                                      FlowStep(Regrouped(f), PlannedWorkflow(f, t))}
      BY PlannedSteps
<1>2. /\ t \in StoredTask /\ Regrouped(f) \in Table /\ t \in Existing(Regrouped(f))
      /\ Regrouped(f)[t].workflow = PlannedWorkflow(f, t)
      BY RegroupedRows DEF Existing
<1>3. PlannedWorkflow(f, t) \in StoredTask /\ t \in Members(Regrouped(f), PlannedWorkflow(f, t))
  <2>1. Regrouped(f)[t] \in Row
        BY <1>2, RowsExist
  <2>2. QED  BY <1>2, <2>1 DEF Row, Members
<1>4. SummaryTyped(Summary(Regrouped(f), PlannedWorkflow(f, t))) /\ SummaryTyped(NoWorkflow)
      BY <1>2, <1>3, SummaryIsTyped
<1>5. QED  BY <1>1, <1>2, <1>3, <1>4 DEF TaskStep, EdgeStep, FlowStep

LEMMA ShapeIsKept == MaintenanceInv /\ RecordsShape /\ [MaintenanceNext]_maintenanceVars => RecordsShape'
<1> SUFFICES ASSUME MaintenanceInv, RecordsShape, [MaintenanceNext]_maintenanceVars PROVE RecordsShape'
    OBVIOUS
<1>1. MaintenanceInv'
      BY MaintenanceStep
<1>2. taskRows \in Table /\ taskRows' \in Table
      BY <1>1 DEF MaintenanceInv, TablesShape, Table
<1>3. /\ \A w \in StoredTask : SummaryTyped(summaries[w])
      /\ \A m \in Migrator : \A s \in plan[m] : s.pair \in StoredTask \X StoredTask /\ SummaryTyped(s.summary)
      /\ edges \subseteq StoredTask \X StoredTask
      /\ retention \in Policy /\ suspect \subseteq StoredTask /\ quiet \subseteq Migrator \cup Cleaner
      /\ plan = [m \in Migrator |-> plan[m]] /\ summaries = [w \in StoredTask |-> summaries[w]]
      /\ cleaning \in [Cleaner -> Cleanup]
      BY DEF RecordsShape, MaintenanceInv, TablesShape
<1>4. \A t \in Existing(taskRows) : taskRows[t].workflow \in StoredTask
  <2>1. \A t \in Existing(taskRows) : taskRows[t] \in Row
        BY <1>2, RowsExist DEF Existing
  <2>2. QED  BY <2>1 DEF Row
<1>5. CASE \E t \in StoredTask, s \in State, rooted \in BOOLEAN : Ingest(t, s, rooted)
  <2>1. PICK t \in StoredTask, s \in State, rooted \in BOOLEAN : Ingest(t, s, rooted)
        BY <1>5
  <2> DEFINE w == Grouping(t, rooted, taskRows[t])
             old == taskRows[t].workflow
             emptied == IF Exists(taskRows, t) /\ old # w /\ Members(taskRows', old) = {} THEN {old} ELSE {}
             ws == {w, RootOf[t], t} \cup IF Exists(taskRows, t) THEN {old} ELSE {}
  <2>2. /\ taskRows' = [taskRows EXCEPT ![t] = [state |-> s, last |-> time', workflow |-> w,
                                                rooted |-> rooted \/ taskRows[t].rooted]]
        /\ summaries' = [v \in StoredTask |-> IF v = w THEN Summary(taskRows', w)
                                              ELSE IF v \in emptied THEN NoWorkflow ELSE summaries[v]]
        /\ edges' = {e \in edges : e[1] \notin emptied} \cup {<<w, t>>}
        /\ suspect' = IF Migrating THEN suspect \cup ws ELSE suspect
        /\ quiet' = {} /\ UNCHANGED <<plan, cleaning, retention>>
        BY <2>1, Zenon DEF Ingest, Interfere
  <2>3. w \in StoredTask
        BY <1>4, MaintenanceAssumption DEF Grouping, Existing, Exists
  <2>4. t \in Members(taskRows', w)
    <3>1. taskRows'[t].workflow = w /\ taskRows'[t] # NoTask
      <4>1. taskRows'[t] = [state |-> s, last |-> time', workflow |-> w,
                            rooted |-> rooted \/ taskRows[t].rooted]
            BY <1>2, <2>2 DEF Table
      <4>2. taskRows'[t].state = s /\ NoTask.state = "none" /\ s # "none"
            BY <4>1, MaintenanceAssumption DEF NoTask
      <4>3. QED  BY <4>1, <4>2
    <3>2. QED  BY <3>1 DEF Members, Existing, Exists
  <2>5. ws \subseteq StoredTask
        BY <1>4, <2>3, MaintenanceAssumption DEF Existing
  <2>6. SummaryTyped(Summary(taskRows', w)) /\ SummaryTyped(NoWorkflow)
        BY <1>2, <2>3, <2>4, SummaryIsTyped
  <2> HIDE DEF w, emptied, ws, old
  <2>7. \A v \in StoredTask : SummaryTyped(summaries'[v])
        BY <1>3, <2>2, <2>6
  <2>8. edges' \subseteq StoredTask \X StoredTask
        BY <1>3, <2>2, <2>3
  <2>9. suspect' \subseteq StoredTask
        BY <1>3, <2>2, <2>5
  <2>10. QED  BY <1>3, <2>2, <2>7, <2>8, <2>9 DEF RecordsShape, SummaryTyped
<1>6. CASE \E m \in Migrator : BackfillReads(m)
  <2>1. PICK m \in Migrator : BackfillReads(m)
        BY <1>6
  <2>2. \A s \in PlanWorkflowBackfill(taskRows) : s.pair \in StoredTask \X StoredTask /\ SummaryTyped(s.summary)
        BY <1>2, PlanHasShape
  <2>3. /\ \A n \in Migrator : plan'[n] = IF n = m THEN PlanWorkflowBackfill(taskRows) ELSE plan[n]
        /\ quiet' = quiet \cup {m}
        /\ UNCHANGED <<summaries, edges, cleaning, retention, suspect>>
        BY <1>3, <2>1 DEF BackfillReads, workflowTables
  <2>4. QED  BY <1>3, <2>2, <2>3 DEF RecordsShape, SummaryTyped
<1>7. CASE \E m \in Migrator : BackfillStep(m)
  <2>1. PICK m \in Migrator : BackfillStep(m)
        BY <1>7
  <2> DEFINE step == CHOOSE s \in plan[m] : Due(s, plan[m])
             w == step.pair[1]
             t == step.pair[2]
  <2>2. step \in plan[m]
    <3>1. plan[m] # {} /\ \A s \in plan[m] : Fits(s, suspect)
          BY <2>1 DEF BackfillStep, MaintenanceInv, RightOutside
    <3>2. \A s \in plan[m] : s.kind \in {"task", "workflow", "edge"}
          BY <3>1 DEF Fits
    <3>3. \E s \in plan[m] : Due(s, plan[m])
          BY <3>1, <3>2, SomeStepIsDue
    <3>4. QED  BY <3>3
  <2>3. /\ plan' = [plan EXCEPT ![m] = {}] \/ plan' = [plan EXCEPT ![m] = plan[m] \ {step}]
        /\ summaries' = summaries \/ summaries' = [summaries EXCEPT ![w] = step.summary]
        /\ edges' = edges \/ edges' = edges \cup {<<w, t>>}
        /\ quiet' \subseteq quiet /\ suspect' \subseteq suspect
        /\ UNCHANGED <<cleaning, retention>>
        BY <2>1 DEF BackfillStep, workflowTables
  <2> HIDE DEF step
  <2>4. step.pair \in StoredTask \X StoredTask /\ SummaryTyped(step.summary)
        BY <1>3, <2>2
  <2>5. \A n \in Migrator : plan'[n] \subseteq plan[n]
        BY <1>3, <2>3
  <2>6. \A v \in StoredTask : SummaryTyped(summaries'[v])
        BY <1>3, <2>3, <2>4
  <2>7. edges' \subseteq StoredTask \X StoredTask
        BY <1>3, <2>3, <2>4
  <2>8. QED  BY <1>3, <2>3, <2>5, <2>6, <2>7 DEF RecordsShape, SummaryTyped
<1>8. CASE \E m \in Migrator : BackfillAborts(m)
  <2>1. PICK m \in Migrator : BackfillAborts(m)
        BY <1>8
  <2>2. /\ \A n \in Migrator : plan'[n] \subseteq plan[n]
        /\ UNCHANGED <<summaries, edges, cleaning, retention, suspect, quiet>>
        BY <1>3, <2>1 DEF BackfillAborts, workflowTables
  <2>3. QED  BY <1>3, <2>2 DEF RecordsShape, SummaryTyped
<1>9. CASE \E c \in Cleaner : CleanupCounts(c) \/ CleanupLists(c) \/ CleanupExpires(c)
  <2>1. PICK c \in Cleaner : CleanupCounts(c) \/ CleanupLists(c) \/ CleanupExpires(c)
        BY <1>9
  <2>2. cleaning' \in [Cleaner -> Cleanup]
        BY <2>1, CleaningHasShape
  <2>3. quiet' \subseteq quiet \cup {c} /\ UNCHANGED <<summaries, edges, plan, retention, suspect>>
        BY <2>1 DEF CleanupCounts, CleanupLists, CleanupExpires, workflowTables
  <2>4. QED  BY <1>3, <2>2, <2>3 DEF RecordsShape, SummaryTyped
<1>10. CASE \E c \in Cleaner : CleanupDeletes(c)
  <2>1. PICK c \in Cleaner : CleanupDeletes(c)
        BY <1>10
  <2>2. cleaning' \in [Cleaner -> Cleanup]
        BY <2>1, CleaningHasShape
  <2>3. UNCHANGED <<plan, retention>>
        BY <2>1 DEF CleanupDeletes
  <2>4. cleaning[c].chosen \subseteq StoredTask
        BY <1>3 DEF Cleanup
  <2>5. CASE cleaning[c].chosen = {}
    <3>1. UNCHANGED <<summaries, edges, suspect, quiet>>
          BY <2>1, <2>5 DEF CleanupDeletes, workflowTables
    <3>2. QED  BY <1>3, <2>2, <2>3, <3>1 DEF RecordsShape, SummaryTyped
  <2>6. CASE cleaning[c].chosen # {}
    <3>1. RemoveWorkflows(cleaning[c].chosen) /\ Interfere(cleaning[c].chosen)
          BY <2>1, <2>6 DEF CleanupDeletes
    <3>2. /\ \A w \in StoredTask : summaries'[w] = NoWorkflow \/ summaries'[w] = summaries[w]
          /\ edges' \subseteq edges /\ quiet' = {} /\ suspect' \subseteq StoredTask
          BY <1>3, <2>4, <3>1 DEF RemoveWorkflows, Interfere
    <3>3. \A w \in StoredTask : SummaryTyped(summaries'[w])
          BY <1>3, <3>2, SummaryIsTyped
    <3>4. QED  BY <1>3, <2>2, <2>3, <3>2, <3>3 DEF RecordsShape, SummaryTyped
  <2>7. QED  BY <2>5, <2>6
<1>11. CASE \E p \in Policy : PutRetention(p)
  <2>1. retention' \in Policy /\ UNCHANGED <<summaries, edges, plan, cleaning, suspect, quiet>>
        BY <1>11 DEF PutRetention, workflowTables
  <2>2. QED  BY <1>3, <2>1 DEF RecordsShape, SummaryTyped
<1>12. CASE Clear
  <2>1. /\ \A w \in StoredTask : summaries'[w] = NoWorkflow
        /\ edges' = {} /\ quiet' = {} /\ suspect' \subseteq StoredTask
        /\ UNCHANGED <<plan, cleaning, retention>>
        BY <1>3, <1>12 DEF Clear, Interfere
  <2>2. QED  BY <1>3, <2>1, SummaryIsTyped DEF RecordsShape, SummaryTyped
<1>13. CASE \E table \in Backup : Import(table)
  <2>1. PICK table \in Backup : Import(table)
        BY <1>13
  <2> DEFINE all == {taskRows'[t].workflow : t \in Existing(taskRows')}
  <2>2. /\ summaries' = [w \in StoredTask |-> IF w \in all THEN PlannedSummary(taskRows', w) ELSE NoWorkflow]
        /\ edges' = {<<taskRows'[t].workflow, t>> : t \in Existing(taskRows')}
        /\ quiet' = {} /\ suspect' \subseteq StoredTask /\ UNCHANGED <<plan, cleaning, retention>>
        BY <2>1 DEF Import
  <2>3. \A t \in Existing(taskRows') : t \in StoredTask /\ taskRows'[t].workflow \in StoredTask
    <3>1. \A t \in Existing(taskRows') : t \in StoredTask /\ taskRows'[t] \in Row
          BY <1>2, RowsExist DEF Existing
    <3>2. QED  BY <3>1 DEF Row
  <2>4. \A w \in all : Members(taskRows', w) # {}
        BY DEF Members
  <2>5. \A w \in StoredTask \cap all : SummaryTyped(PlannedSummary(taskRows', w))
        BY <1>2, <2>4, SummaryIsTyped DEF PlannedSummary
  <2>6. \A w \in StoredTask : SummaryTyped(summaries'[w])
        BY <2>2, <2>5, SummaryIsTyped
  <2>7. edges' \subseteq StoredTask \X StoredTask
        BY <2>2, <2>3
  <2>8. QED  BY <1>3, <2>2, <2>6, <2>7 DEF RecordsShape, SummaryTyped
<1>14. CASE UNCHANGED maintenanceVars
      BY <1>3, <1>14 DEF maintenanceVars, workflowTables, RecordsShape, Cleanup
<1>15. QED  BY <1>5, <1>6, <1>7, <1>8, <1>9, <1>10, <1>11, <1>12, <1>13, <1>14 DEF MaintenanceNext

-----------------------------------------------------------------------------
(* What a cleanup that nobody interferes with has chosen is still what it    *)
(* would choose: the oldest workflows, with enough tasks between them.       *)
TasksIn(S) == {t \in Existing(taskRows) : taskRows[t].workflow \in S}

Excess(limit) ==
    LET total == Cardinality(Existing(taskRows)) IN IF total > limit THEN total - limit ELSE 0

ChosenWell(S, excess) ==
    /\ OldestFirst(S)
    /\ suspect = {} => ListedWorkflows \subseteq S \/ Cardinality(TasksIn(S)) >= excess

QuietCleanups ==
    \A c \in Cleaner \cap quiet :
        /\ cleaning[c].at # "idle" => cleaning[c].excess = Excess(cleaning[c].limit)
        /\ cleaning[c].at \in {"listed", "chosen"} => ChosenWell(cleaning[c].chosen, cleaning[c].excess)

CleanupInv == MaintenanceInv /\ RecordsShape /\ QuietCleanups

(* The sum over the workflows of a set is well defined.                      *)
LEMMA TotalOfEquation ==
    ASSUME NEW g \in [SUBSET StoredTask -> Nat],
           g = [S \in SUBSET StoredTask |->
                  IF S = {} THEN 0
                  ELSE LET w == CHOOSE x \in S : TRUE IN summaries[w].total + g[S \ {w}]]
    PROVE  TotalOf = g
<1> DEFINE equation(f) == f = [S \in SUBSET StoredTask |->
                  IF S = {} THEN 0
                  ELSE LET w == CHOOSE x \in S : TRUE IN summaries[w].total + f[S \ {w}]]
<1>1. TotalOf = CHOOSE f : equation(f)
      BY DEF TotalOf
<1>2. equation(g)
      OBVIOUS
<1>3. equation(TotalOf)
  <2>1. \E f : equation(f)
        BY <1>2
  <2>2. equation(CHOOSE f : equation(f))
    <3> HIDE DEF equation
    <3>1. QED  BY <2>1
  <2>3. QED  BY <1>1, <2>2, Zenon
<1>4. TotalOf = [S \in SUBSET StoredTask |-> TotalOf[S]]
      BY <1>3
<1>5. \A S \in SUBSET StoredTask :
        /\ TotalOf[S] = IF S = {} THEN 0
             ELSE LET w == CHOOSE x \in S : TRUE IN summaries[w].total + TotalOf[S \ {w}]
        /\ g[S] = IF S = {} THEN 0
             ELSE LET w == CHOOSE x \in S : TRUE IN summaries[w].total + g[S \ {w}]
      BY <1>2, <1>3
<1> DEFINE wrong == {S \in SUBSET StoredTask : TotalOf[S] # g[S]}
<1>6. CASE wrong # {}
  <2>1. wrong \subseteq FiniteSubsetsOf(StoredTask)
        BY SubsetsAreFinite DEF FiniteSubsetsOf
  <2>2. PICK S \in wrong : \A T \in wrong : ~(<<T, S>> \in StrictSubsetOrdering(StoredTask))
    <3> HIDE DEF wrong
    <3>1. QED  BY <1>6, <2>1, FS_StrictSubsetOrderingWellFounded, WFMin
  <2> DEFINE w == CHOOSE x \in S : TRUE
  <2>3. S # {}
        BY <1>5, <2>2
  <2>4. w \in S /\ S \ {w} \in SUBSET StoredTask
        BY <2>2, <2>3
  <2>5. <<S \ {w}, S>> \in StrictSubsetOrdering(StoredTask)
        BY <2>2, <2>4 DEF StrictSubsetOrdering
  <2>6. TotalOf[S \ {w}] = g[S \ {w}]
        BY <2>2, <2>4, <2>5
  <2>7. /\ TotalOf[S] = IF S = {} THEN 0 ELSE summaries[w].total + TotalOf[S \ {w}]
        /\ g[S] = IF S = {} THEN 0 ELSE summaries[w].total + g[S \ {w}]
        BY <1>5, <2>2
  <2> HIDE DEF w
  <2>8. TotalOf[S] = g[S]
        BY <2>3, <2>6, <2>7
  <2>9. QED  BY <2>2, <2>8
<1>7. CASE wrong = {}
      BY <1>4, <1>7
<1>8. QED  BY <1>6, <1>7

(* Where the summaries are right, it is the number of tasks.                 *)
LEMMA TotalIsTasks ==
    ASSUME MaintenanceInv, suspect = {}
    PROVE  \A S \in SUBSET StoredTask : TotalOf[S] = Cardinality(TasksIn(S))
<1> DEFINE g == [S \in SUBSET StoredTask |-> Cardinality(TasksIn(S))]
<1>1. \A S : TasksIn(S) \in SUBSET StoredTask
      BY DEF TasksIn, Existing
<1>2. \A S : IsFiniteSet(TasksIn(S)) /\ Cardinality(TasksIn(S)) \in Nat
  <2>1. ASSUME NEW S PROVE IsFiniteSet(TasksIn(S)) /\ Cardinality(TasksIn(S)) \in Nat
    <3>1. TasksIn(S) \in SUBSET StoredTask
          BY <1>1
    <3>2. IsFiniteSet(TasksIn(S))
          BY <3>1, SubsetsAreFinite
    <3>3. QED  BY <3>2, FS_CardinalityType
  <2>2. QED  BY <2>1
<1>3. g \in [SUBSET StoredTask -> Nat]
      BY <1>2
<1>4. Cardinality(TasksIn({})) = 0
  <2>1. TasksIn({}) = {}
        BY DEF TasksIn
  <2>2. QED  BY <2>1, FS_EmptySet
<1>5. ASSUME NEW w \in StoredTask
      PROVE  summaries[w].total = Cardinality(TasksIn({w}))
  <2>1. Consistent(w)
        BY DEF MaintenanceInv, RightOutside
  <2>2. Members(taskRows, w) = TasksIn({w})
        BY DEF Members, TasksIn
  <2>3. CASE Members(taskRows, w) = {}
    <3>1. summaries[w] = NoWorkflow
          BY <2>1, <2>3 DEF Consistent
    <3>2. Cardinality(TasksIn({w})) = 0
          BY <2>2, <2>3, FS_EmptySet
    <3>3. QED  BY <3>1, <3>2 DEF NoWorkflow
  <2>4. CASE Members(taskRows, w) # {}
    <3>1. summaries[w] = Summary(taskRows, w)
          BY <2>1, <2>4 DEF Consistent
    <3>2. Summary(taskRows, w).total = Cardinality(Members(taskRows, w))
          BY DEF Summary
    <3>3. QED  BY <2>2, <3>1, <3>2
  <2>5. QED  BY <2>3, <2>4
<1>6. ASSUME NEW S \in SUBSET StoredTask, NEW w \in S
      PROVE  Cardinality(TasksIn(S)) = summaries[w].total + Cardinality(TasksIn(S \ {w}))
  <2>1. TasksIn(S) = TasksIn({w}) \cup TasksIn(S \ {w}) /\ TasksIn({w}) \cap TasksIn(S \ {w}) = {}
        BY DEF TasksIn
  <2>2. Cardinality(TasksIn({w}) \cup TasksIn(S \ {w})) =
            Cardinality(TasksIn({w})) + Cardinality(TasksIn(S \ {w})) - Cardinality({})
        BY <1>2, <2>1, FS_Union
  <2>3. Cardinality({}) = 0
        BY FS_EmptySet
  <2> DEFINE a == Cardinality(TasksIn({w}))
             b == Cardinality(TasksIn(S \ {w}))
  <2>4. a \in Nat /\ b \in Nat /\ summaries[w].total = a
        BY <1>2, <1>5
  <2>5. Cardinality(TasksIn(S)) = a + b - 0
        BY <2>1, <2>2, <2>3
  <2> HIDE DEF a, b
  <2>6. Cardinality(TasksIn(S)) = summaries[w].total + b
        BY <2>4, <2>5
  <2>7. QED  BY <2>6 DEF b
<1>7. ASSUME NEW S \in SUBSET StoredTask
      PROVE  g[S] = IF S = {} THEN 0
                    ELSE LET w == CHOOSE x \in S : TRUE IN summaries[w].total + g[S \ {w}]
  <2>1. CASE S = {}
        BY <1>4, <2>1
  <2>2. CASE S # {}
    <3> DEFINE w == CHOOSE x \in S : TRUE
    <3>1. w \in S
          BY <2>2
    <3> HIDE DEF w
    <3>2. g[S] = summaries[w].total + g[S \ {w}]
          BY <1>6, <3>1
    <3>3. QED  BY <2>2, <3>2 DEF w
  <2>3. QED  BY <2>1, <2>2
<1>8. g = [S \in SUBSET StoredTask |->
              IF S = {} THEN 0
              ELSE LET w == CHOOSE x \in S : TRUE IN summaries[w].total + g[S \ {w}]]
  <2> DEFINE G == g
  <2>1. G = [S \in SUBSET StoredTask |-> G[S]]
        OBVIOUS
  <2> DEFINE rhs(S) == IF S = {} THEN 0
              ELSE LET w == CHOOSE x \in S : TRUE IN summaries[w].total + G[S \ {w}]
  <2>2. \A S \in SUBSET StoredTask : G[S] = rhs(S)
        BY <1>7
  <2> HIDE DEF G
  <2>3. G = [S \in SUBSET StoredTask |-> rhs(S)]
        BY <2>1, <2>2
  <2>4. QED  BY <2>3 DEF G
<1> HIDE DEF g
<1>9. TotalOf = g
      BY <1>3, <1>8, TotalOfEquation
<1>10. QED  BY <1>9 DEF g

LEMMA SameChoices ==
    ASSUME UNCHANGED <<taskRows, summaries, suspect>>
    PROVE  /\ \A limit : Excess(limit)' = Excess(limit)
           /\ \A S, excess : ChosenWell(S, excess)' <=> ChosenWell(S, excess)
<1>1. \A limit : Excess(limit)' = Excess(limit)
      BY DEF Excess, Existing, Exists
<1>2. \A S : TasksIn(S)' = TasksIn(S)
      BY DEF TasksIn, Existing, Exists
<1>3. ListedWorkflows' = ListedWorkflows /\ \A S : OldestFirst(S)' <=> OldestFirst(S)
      BY DEF ListedWorkflows, OldestFirst, Older
<1>4. QED  BY <1>1, <1>2, <1>3 DEF ChosenWell

(* A step that changes no table and whose cleanups are as before but for c.  *)
LEMMA ChoicesLeftAlone ==
    ASSUME QuietCleanups, UNCHANGED <<taskRows, summaries, suspect>>,
           \A d \in Cleaner \cap quiet' :
               \/ d \in quiet /\ cleaning'[d] = cleaning[d]
               \/ /\ cleaning'[d].at # "idle" => cleaning'[d].excess = Excess(cleaning'[d].limit)
                  /\ cleaning'[d].at \in {"listed", "chosen"}
                        => ChosenWell(cleaning'[d].chosen, cleaning'[d].excess)
    PROVE  QuietCleanups'
<1>1. ASSUME NEW d \in Cleaner \cap quiet'
      PROVE  /\ cleaning'[d].at # "idle" => cleaning'[d].excess = Excess(cleaning'[d].limit)
             /\ cleaning'[d].at \in {"listed", "chosen"}
                   => ChosenWell(cleaning'[d].chosen, cleaning'[d].excess)
      BY <1>1 DEF QuietCleanups
<1>2. ASSUME NEW d \in Cleaner \cap quiet'
      PROVE  /\ (cleaning[d].at # "idle" => cleaning[d].excess = Excess(cleaning[d].limit))'
             /\ (cleaning[d].at \in {"listed", "chosen"}
                   => ChosenWell(cleaning[d].chosen, cleaning[d].excess))'
  <2> PICK k : k = cleaning'[d]
      OBVIOUS
  <2>1. Excess(k.limit)' = Excess(k.limit) /\ (ChosenWell(k.chosen, k.excess)' <=> ChosenWell(k.chosen, k.excess))
        BY SameChoices
  <2>2. /\ k.at # "idle" => k.excess = Excess(k.limit)
        /\ k.at \in {"listed", "chosen"} => ChosenWell(k.chosen, k.excess)
        BY <1>1
  <2>3. /\ k.at # "idle" => k.excess = Excess(k.limit)'
        /\ k.at \in {"listed", "chosen"} => ChosenWell(k.chosen, k.excess)'
        BY <2>1, <2>2
  <2>4. QED  BY <2>3 DEF Excess, ChosenWell, TasksIn, ListedWorkflows, OldestFirst, Older, Existing, Exists
<1>3. QED  BY <1>2 DEF QuietCleanups

LEMMA ListedIsChosenWell ==
    ASSUME CleanupInv, NEW c \in Cleaner, c \in quiet, CleanupLists(c)
    PROVE  /\ cleaning'[c].excess = cleaning[c].excess /\ cleaning'[c].limit = cleaning[c].limit
           /\ ChosenWell(cleaning'[c].chosen, cleaning[c].excess)
<1>1. cleaning \in [Cleaner -> Cleanup] /\ cleaning[c] \in Cleanup
      BY DEF CleanupInv, RecordsShape
<1>2. PICK S \in SUBSET ListedWorkflows :
        /\ IF cleaning[c].excess > 0 /\ ListedWorkflows # {} THEN Enough(S, cleaning[c].excess) ELSE S = {}
        /\ cleaning' = [cleaning EXCEPT ![c].at = "listed", ![c].chosen = S]
      BY DEF CleanupLists
<1>3. cleaning'[c].excess = cleaning[c].excess /\ cleaning'[c].limit = cleaning[c].limit /\ cleaning'[c].chosen = S
      BY <1>1, <1>2 DEF Cleanup
<1>4. S \in SUBSET StoredTask /\ cleaning[c].excess \in Nat
      BY <1>1 DEF ListedWorkflows, Cleanup
<1>5. CASE cleaning[c].excess > 0 /\ ListedWorkflows # {}
  <2>1. OldestFirst(S) /\ (S = ListedWorkflows \/ TotalOf[S] >= cleaning[c].excess)
        BY <1>2, <1>5 DEF Enough
  <2>2. suspect = {} => TotalOf[S] = Cardinality(TasksIn(S))
        BY <1>4, TotalIsTasks DEF CleanupInv
  <2>3. QED  BY <1>3, <2>1, <2>2 DEF ChosenWell
<1>6. CASE ~(cleaning[c].excess > 0 /\ ListedWorkflows # {})
  <2>1. S = {} /\ OldestFirst(S)
        BY <1>2, <1>6 DEF OldestFirst
  <2>2. TasksIn(S) = {}
        BY <2>1 DEF TasksIn
  <2>3. Cardinality(TasksIn(S)) = 0
        BY <2>2, FS_EmptySet
  <2>4. ListedWorkflows \subseteq S \/ Cardinality(TasksIn(S)) >= cleaning[c].excess
        BY <1>4, <1>6, <2>3
  <2>5. QED  BY <1>3, <2>1, <2>4 DEF ChosenWell
<1>7. QED  BY <1>5, <1>6

(* What has expired is older than what has not.                              *)
LEMMA ExpiredIsChosenWell ==
    ASSUME CleanupInv, NEW c \in Cleaner, c \in quiet, CleanupExpires(c)
    PROVE  /\ cleaning'[c].excess = cleaning[c].excess /\ cleaning'[c].limit = cleaning[c].limit
           /\ ChosenWell(cleaning'[c].chosen, cleaning[c].excess)
<1> DEFINE S == cleaning[c].chosen
           expired == {w \in ListedWorkflows : summaries[w].last + retention.hours < time}
<1>1. cleaning \in [Cleaner -> Cleanup] /\ cleaning[c] \in Cleanup
      BY DEF CleanupInv, RecordsShape
<1>2. cleaning' = [cleaning EXCEPT ![c].at = "chosen", ![c].chosen = S \cup expired]
      BY <1>1 DEF CleanupExpires
<1>3. S \in SUBSET StoredTask /\ expired \in SUBSET StoredTask /\ cleaning[c].excess \in Nat
      BY <1>1 DEF Cleanup, ListedWorkflows
<1>4. ChosenWell(S, cleaning[c].excess)
      BY DEF CleanupInv, QuietCleanups, CleanupExpires
<1>5. /\ time \in Int /\ retention.hours \in Int
      /\ \A w \in ListedWorkflows : w \in StoredTask /\ summaries[w].last \in Int
  <2>1. time \in Int /\ retention \in [count : Nat, hours : Nat]
        BY MaintenanceAssumption DEF CleanupInv, MaintenanceInv, TablesShape, RecordsShape
  <2>2. \A w \in ListedWorkflows : w \in StoredTask /\ summaries[w].last \in Int
        BY DEF CleanupInv, RecordsShape, SummaryTyped, ListedWorkflows
  <2>3. QED  BY <2>1, <2>2
<1>6. OldestFirst(S \cup expired)
  <2>1. ASSUME NEW v \in S \cup expired, NEW w \in ListedWorkflows \ (S \cup expired), Older(w, v)
        PROVE  FALSE
    <3>1. CASE v \in S
          BY <1>4, <2>1, <3>1 DEF ChosenWell, OldestFirst
    <3>2. CASE v \in expired
      <4>1. summaries[v].last + retention.hours < time /\ ~(summaries[w].last + retention.hours < time)
            BY <2>1, <3>2
      <4>2. summaries[w].last < summaries[v].last
            BY <2>1 DEF Older
      <4>3. QED  BY <1>5, <2>1, <3>2, <4>1, <4>2
    <3>3. QED  BY <2>1, <3>1, <3>2
  <2>2. QED  BY <2>1 DEF OldestFirst
<1> HIDE DEF expired
<1>7. cleaning'[c].excess = cleaning[c].excess /\ cleaning'[c].limit = cleaning[c].limit
      /\ cleaning'[c].chosen = S \cup expired
      BY <1>1, <1>2 DEF Cleanup
<1>8. Cardinality(TasksIn(S)) <= Cardinality(TasksIn(S \cup expired))
      /\ Cardinality(TasksIn(S)) \in Int /\ Cardinality(TasksIn(S \cup expired)) \in Int
  <2>1. TasksIn(S) \subseteq TasksIn(S \cup expired) /\ TasksIn(S \cup expired) \in SUBSET StoredTask
        /\ TasksIn(S) \in SUBSET StoredTask
        BY DEF TasksIn, Existing
  <2>2. IsFiniteSet(TasksIn(S \cup expired)) /\ IsFiniteSet(TasksIn(S))
        BY <2>1, SubsetsAreFinite
  <2>3. Cardinality(TasksIn(S)) <= Cardinality(TasksIn(S \cup expired))
        BY <2>1, <2>2, FS_Subset
  <2>4. QED  BY <2>2, <2>3, FS_CardinalityType
<1>9. suspect = {} => ListedWorkflows \subseteq S \cup expired
                      \/ Cardinality(TasksIn(S \cup expired)) >= cleaning[c].excess
  <2>1. suspect = {} => ListedWorkflows \subseteq S \/ Cardinality(TasksIn(S)) >= cleaning[c].excess
        BY <1>4 DEF ChosenWell
  <2> DEFINE a == Cardinality(TasksIn(S))
             b == Cardinality(TasksIn(S \cup expired))
  <2>2. a \in Int /\ b \in Int /\ a <= b
        BY <1>8
  <2>3. suspect = {} => ListedWorkflows \subseteq S \/ a >= cleaning[c].excess
        BY <2>1
  <2> HIDE DEF a, b
  <2>4. suspect = {} => ListedWorkflows \subseteq S \/ b >= cleaning[c].excess
        BY <1>3, <2>2, <2>3
  <2>5. QED  BY <2>4 DEF b
<1>10. QED  BY <1>6, <1>7, <1>9 DEF ChosenWell

LEMMA QuietCleanupsStay == CleanupInv /\ [MaintenanceNext]_maintenanceVars => QuietCleanups'
<1> SUFFICES ASSUME CleanupInv, [MaintenanceNext]_maintenanceVars PROVE QuietCleanups'
    OBVIOUS
<1>1. cleaning \in [Cleaner -> Cleanup] /\ Migrator \cap Cleaner = {} /\ QuietCleanups
      BY MaintenanceAssumption DEF CleanupInv, RecordsShape
<1>2. CASE Cleaner \cap quiet' = {}
      BY <1>2 DEF QuietCleanups
<1>3. CASE /\ UNCHANGED <<taskRows, summaries, suspect, cleaning>>
           /\ Cleaner \cap quiet' \subseteq quiet
      BY <1>1, <1>3, ChoicesLeftAlone
<1>4. CASE \E t \in StoredTask, s \in State, rooted \in BOOLEAN : Ingest(t, s, rooted)
  <2>1. quiet' = {}
        BY <1>4 DEF Ingest, Interfere
  <2>2. QED  BY <1>2, <2>1
<1>5. CASE \E m \in Migrator : BackfillReads(m)
      BY <1>1, <1>3, <1>5 DEF BackfillReads, workflowTables
<1>6. CASE \E m \in Migrator : BackfillStep(m)
  <2>1. PICK m \in Migrator : BackfillStep(m)
        BY <1>6
  <2>2. \/ UNCHANGED <<workflowTables, suspect, quiet, cleaning>>
        \/ quiet' = {}
        \/ \E S : quiet' = quiet \ (Cleaner \cup S)
        BY <2>1 DEF BackfillStep
  <2>3. QED  BY <1>2, <1>3, <2>2 DEF workflowTables
<1>7. CASE \E m \in Migrator : BackfillAborts(m)
      BY <1>3, <1>7 DEF BackfillAborts, workflowTables
<1>8. CASE \E c \in Cleaner : CleanupCounts(c) \/ CleanupLists(c) \/ CleanupExpires(c)
  <2>1. PICK c \in Cleaner : CleanupCounts(c) \/ CleanupLists(c) \/ CleanupExpires(c)
        BY <1>8
  <2>2. /\ UNCHANGED <<taskRows, summaries, suspect>>
        /\ Cleaner \cap quiet' \subseteq quiet \cup {c}
        /\ \A d \in Cleaner \ {c} : cleaning'[d] = cleaning[d]
        BY <1>1, <2>1 DEF CleanupCounts, CleanupLists, CleanupExpires, workflowTables
  <2>3. CASE CleanupCounts(c)
    <3> DEFINE excess == Excess(retention.count)
    <3>1. cleaning' = [cleaning EXCEPT ![c] =
             [NoCleanup EXCEPT !.at = "counted", !.excess = excess, !.limit = retention.count]]
          BY <2>3 DEF CleanupCounts, Excess
    <3>2. cleaning'[c].excess = excess /\ cleaning'[c].limit = retention.count /\ cleaning'[c].at = "counted"
          BY <1>1, <3>1 DEF NoCleanup
    <3> HIDE DEF excess
    <3>3. cleaning'[c].excess = Excess(cleaning'[c].limit) /\ cleaning'[c].at \notin {"listed", "chosen"}
          BY <3>2 DEF excess
    <3>4. QED  BY <1>1, <2>2, <3>3, ChoicesLeftAlone
  <2>4. CASE CleanupLists(c) \/ CleanupExpires(c)
    <3>1. quiet' = quiet /\ cleaning[c].at # "idle"
          BY <2>4 DEF CleanupLists, CleanupExpires
    <3>2. ASSUME c \in quiet
          PROVE  /\ cleaning'[c].excess = Excess(cleaning'[c].limit)
                 /\ ChosenWell(cleaning'[c].chosen, cleaning'[c].excess)
      <4>1. /\ cleaning'[c].excess = cleaning[c].excess /\ cleaning'[c].limit = cleaning[c].limit
            /\ ChosenWell(cleaning'[c].chosen, cleaning[c].excess)
            BY <2>4, <3>2, ListedIsChosenWell, ExpiredIsChosenWell
      <4>2. cleaning[c].excess = Excess(cleaning[c].limit)
            BY <1>1, <3>1, <3>2 DEF QuietCleanups
      <4>3. QED  BY <4>1, <4>2
    <3>3. QED  BY <1>1, <2>2, <3>1, <3>2, ChoicesLeftAlone
  <2>5. QED  BY <2>1, <2>3, <2>4
<1>9. CASE \E c \in Cleaner : CleanupDeletes(c)
  <2>1. PICK c \in Cleaner : CleanupDeletes(c)
        BY <1>9
  <2>2. CASE cleaning[c].chosen # {}
    <3>1. quiet' = {}
          BY <2>1, <2>2 DEF CleanupDeletes, Interfere
    <3>2. QED  BY <1>2, <3>1
  <2>3. CASE cleaning[c].chosen = {}
    <3>1. UNCHANGED <<taskRows, summaries, suspect, quiet>>
          BY <2>1, <2>3 DEF CleanupDeletes, workflowTables
    <3>2. /\ \A d \in Cleaner \ {c} : cleaning'[d] = cleaning[d]
          /\ cleaning'[c] = NoCleanup
          BY <1>1, <2>1 DEF CleanupDeletes
    <3>3. cleaning'[c].at = "idle"
          BY <3>2 DEF NoCleanup
    <3>4. QED  BY <1>1, <3>1, <3>2, <3>3, ChoicesLeftAlone
  <2>4. QED  BY <2>2, <2>3
<1>10. CASE \E p \in Policy : PutRetention(p)
      BY <1>3, <1>10 DEF PutRetention, workflowTables
<1>11. CASE Clear
      BY <1>2, <1>11 DEF Clear, Interfere
<1>12. CASE \E table \in Backup : Import(table)
      BY <1>2, <1>12 DEF Import
<1>13. CASE UNCHANGED maintenanceVars
      BY <1>3, <1>13 DEF maintenanceVars, workflowTables
<1>14. QED  BY <1>4, <1>5, <1>6, <1>7, <1>8, <1>9, <1>10, <1>11, <1>12, <1>13 DEF MaintenanceNext

(* What is deleted: the tasks of the chosen workflows, and no other.         *)
LEMMA DeletionMeetsLimit ==
    ASSUME CleanupInv, NEW c \in Cleaner, c \in quiet, CleanupDeletes(c), suspect = {}
    PROVE  Cardinality(Existing(taskRows')) <= cleaning[c].limit
<1> DEFINE S == cleaning[c].chosen
           limit == cleaning[c].limit
           total == Cardinality(Existing(taskRows))
           some == Cardinality(TasksIn(S))
           left == Cardinality(Existing(taskRows'))
<1>1. cleaning[c] \in Cleanup /\ S \in SUBSET StoredTask /\ limit \in Nat
      BY DEF CleanupInv, RecordsShape, Cleanup
<1>2. /\ cleaning[c].excess = Excess(limit)
      /\ ListedWorkflows \subseteq S \/ some >= cleaning[c].excess
      BY DEF CleanupInv, QuietCleanups, CleanupDeletes, ChosenWell
<1>3. taskRows \in Table
      BY DEF CleanupInv, MaintenanceInv, TablesShape, Table
<1>4. Existing(taskRows') \subseteq Existing(taskRows) \ TasksIn(S)
  <2>1. CASE S = {}
    <3>1. taskRows' = taskRows /\ TasksIn(S) = {}
          BY <2>1 DEF CleanupDeletes, workflowTables, TasksIn
    <3>2. QED  BY <3>1
  <2>2. CASE S # {}
    <3>1. taskRows' = [t \in StoredTask |-> IF taskRows[t].workflow \in S THEN NoTask ELSE taskRows[t]]
          BY <2>2 DEF CleanupDeletes, RemoveWorkflows
    <3>2. QED  BY <3>1 DEF Existing, Exists, TasksIn
  <2>3. QED  BY <2>1, <2>2
<1>5. /\ Existing(taskRows) \in SUBSET StoredTask /\ TasksIn(S) \in SUBSET Existing(taskRows)
      /\ IsFiniteSet(Existing(taskRows)) /\ IsFiniteSet(TasksIn(S)) /\ IsFiniteSet(Existing(taskRows'))
  <2>1. /\ Existing(taskRows) \in SUBSET StoredTask /\ TasksIn(S) \in SUBSET StoredTask
        /\ TasksIn(S) \in SUBSET Existing(taskRows) /\ Existing(taskRows') \in SUBSET StoredTask
        BY DEF Existing, TasksIn
  <2>2. QED  BY <2>1, SubsetsAreFinite
<1>6. total \in Nat /\ some \in Nat /\ left \in Nat /\ left <= total - some
  <2>1. Cardinality(Existing(taskRows) \ TasksIn(S)) = total - Cardinality(Existing(taskRows) \cap TasksIn(S))
        /\ IsFiniteSet(Existing(taskRows) \ TasksIn(S))
        BY <1>5, FS_Difference
  <2>2. Existing(taskRows) \cap TasksIn(S) = TasksIn(S)
        BY <1>5
  <2>3. left <= Cardinality(Existing(taskRows) \ TasksIn(S))
        BY <1>4, <2>1, FS_Subset
  <2>4. total \in Nat /\ some \in Nat /\ left \in Nat
        BY <1>5, FS_CardinalityType
  <2> HIDE DEF total, some, left
  <2>5. Cardinality(Existing(taskRows) \ TasksIn(S)) = total - some
        BY <2>1, <2>2 DEF some
  <2>6. QED  BY <2>3, <2>4, <2>5
<1>7. CASE ListedWorkflows \subseteq S
  <2>1. ASSUME NEW t \in Existing(taskRows) PROVE t \in TasksIn(S)
    <3> DEFINE w == taskRows[t].workflow
    <3>1. taskRows[t] \in Row
          BY <1>3, RowsExist DEF Existing
    <3>2. w \in StoredTask /\ t \in Members(taskRows, w)
          BY <2>1, <3>1 DEF Row, Members
    <3>3. Consistent(w)
          BY <3>2 DEF CleanupInv, MaintenanceInv, RightOutside
    <3>4. summaries[w].total = Cardinality(Members(taskRows, w))
          BY <3>2, <3>3 DEF Consistent, Summary
    <3>5. Members(taskRows, w) \in SUBSET StoredTask
          BY DEF Members, Existing
    <3>6. IsFiniteSet(Members(taskRows, w))
          BY <3>5, SubsetsAreFinite
    <3>7. Cardinality(Members(taskRows, w)) # 0
          BY <3>2, <3>6, FS_EmptySet
    <3>8. summaries[w] # NoWorkflow
          BY <3>4, <3>7 DEF NoWorkflow
    <3>9. w \in S
          BY <1>7, <3>2, <3>8 DEF ListedWorkflows
    <3>10. QED  BY <2>1, <3>9 DEF TasksIn
  <2>2. Existing(taskRows') = {}
        BY <1>4, <2>1
  <2>3. left = 0
        BY <2>2, FS_EmptySet
  <2>4. QED  BY <1>1, <2>3
<1>8. CASE some >= cleaning[c].excess
  <2>1. cleaning[c].excess = IF total > limit THEN total - limit ELSE 0
        BY <1>2 DEF Excess
  <2> HIDE DEF total, some, left, limit
  <2>2. left <= limit
        BY <1>1, <1>6, <1>8, <2>1
  <2>3. QED  BY <2>2 DEF left, limit
<1>9. QED  BY <1>2, <1>7, <1>8

LEMMA DeletesTheOldest ==
    ASSUME CleanupInv, NEW c \in Cleaner, c \in quiet, CleanupDeletes(c),
           NEW v \in ListedWorkflows, NEW w \in ListedWorkflows,
           summaries'[v] = NoWorkflow, summaries'[w] # NoWorkflow
    PROVE  ~Older(w, v)
<1>1. v \in StoredTask /\ w \in StoredTask /\ summaries[v] # NoWorkflow
      BY DEF ListedWorkflows
<1>2. v \in cleaning[c].chosen /\ w \notin cleaning[c].chosen
  <2>1. CASE cleaning[c].chosen = {}
        BY <1>1, <2>1 DEF CleanupDeletes, workflowTables
  <2>2. CASE cleaning[c].chosen # {}
        BY <1>1, <2>2 DEF CleanupDeletes, RemoveWorkflows
  <2>3. QED  BY <2>1, <2>2
<1>3. OldestFirst(cleaning[c].chosen)
      BY DEF CleanupInv, QuietCleanups, CleanupDeletes, ChosenWell
<1>4. QED  BY <1>2, <1>3 DEF OldestFirst

(* Only its deletion ends a cleanup.                                         *)
LEMMA DeletionEndsIt ==
    ASSUME CleanupInv, [MaintenanceNext]_maintenanceVars, NEW c \in Cleaner,
           cleaning[c].at = "chosen", cleaning'[c].at = "idle"
    PROVE  CleanupDeletes(c)
<1>1. cleaning \in [Cleaner -> Cleanup]
      BY DEF CleanupInv, RecordsShape
<1>2. cleaning' # cleaning
      OBVIOUS
<1>3. PICK d \in Cleaner : CleanupCounts(d) \/ CleanupLists(d) \/ CleanupExpires(d) \/ CleanupDeletes(d)
      BY <1>2 DEF MaintenanceNext, maintenanceVars, Ingest, BackfillReads, BackfillStep, BackfillAborts,
                  PutRetention, Clear, Import
<1>4. \A e \in Cleaner \ {d} : cleaning'[e] = cleaning[e]
      BY <1>1, <1>3 DEF CleanupCounts, CleanupLists, CleanupExpires, CleanupDeletes
<1>5. d = c
      BY <1>4
<1>6. QED  BY <1>3, <1>5 DEF CleanupCounts, CleanupLists, CleanupExpires

(* A cleanup by count that nobody interferes with deletes the oldest         *)
(* workflows, and enough of them for the tasks that are left to be within    *)
(* the limit it read, though it counts, lists and deletes in separate        *)
(* queries (observation-api.ts:299-329): what summaries say is added up is   *)
(* the number of tasks, as long as no backfill has left one wrong.           *)
THEOREM CleanupStaysWithinLimit == MaintenanceSpec => CleanupMeetsLimit
<1> DEFINE Meets == \A c \in Cleaner :
        /\ cleaning[c].at = "chosen" /\ cleaning'[c].at = "idle" /\ c \in quiet
        => /\ suspect = {} /\ ~Migrating => Cardinality(Existing(taskRows')) <= cleaning[c].limit
           /\ \A v, w \in ListedWorkflows :
                  summaries'[v] = NoWorkflow /\ summaries'[w] # NoWorkflow => ~Older(w, v)
<1>1. MaintenanceInit => CleanupInv
      BY InitIsMaintained, InitHasShape DEF CleanupInv, QuietCleanups, MaintenanceInit
<1>2. CleanupInv /\ [MaintenanceNext]_maintenanceVars => CleanupInv'
      BY MaintenanceStep, ShapeIsKept, QuietCleanupsStay DEF CleanupInv
<1>3. CleanupInv /\ [MaintenanceNext]_maintenanceVars => Meets
      BY DeletionEndsIt, DeletionMeetsLimit, DeletesTheOldest
<1> HIDE DEF Meets
<1>4. CleanupInv /\ [MaintenanceNext]_maintenanceVars => [Meets]_maintenanceVars
      BY <1>3
<1>5. MaintenanceSpec => [][Meets]_maintenanceVars
      BY <1>1, <1>2, <1>4, PTL DEF MaintenanceSpec
<1>6. QED  BY <1>5 DEF Meets, CleanupMeetsLimit

(* The tables, the backfills' plans and the cleanups' records are of their   *)
(* types in every reachable state; no summary counts more tasks than there   *)
(* are.                                                                      *)
THEOREM MaintenanceIsTyped == MaintenanceSpec => []MaintenanceTypeOK
<1>1. MaintenanceInit => CleanupInv
      BY InitIsMaintained, InitHasShape DEF CleanupInv, QuietCleanups, MaintenanceInit
<1>2. CleanupInv /\ [MaintenanceNext]_maintenanceVars => CleanupInv'
      BY MaintenanceStep, ShapeIsKept, QuietCleanupsStay DEF CleanupInv
<1>3. CleanupInv => MaintenanceTypeOK
  <2> SUFFICES ASSUME CleanupInv PROVE MaintenanceTypeOK
      OBVIOUS
  <2>1. \A w \in StoredTask : summaries[w].total \in 0..Cardinality(StoredTask)
        BY DEF CleanupInv, RecordsShape, SummaryTyped
  <2>2. \A c \in Cleaner : cleaning[c].at \in {"idle", "counted", "listed", "chosen"}
        BY DEF CleanupInv, RecordsShape, Cleanup
  <2>3. DOMAIN plan = Migrator
        BY DEF CleanupInv, MaintenanceInv, TablesShape
  <2>4. QED  BY <2>1, <2>2, <2>3 DEF MaintenanceTypeOK, CleanupInv, MaintenanceInv, TablesShape, RecordsShape
<1>4. QED  BY <1>1, <1>2, <1>3, PTL DEF MaintenanceSpec

-----------------------------------------------------------------------------
(* Rows in order.  Keys that order a set: two of its rows are never in the   *)
(* same place.                                                               *)
Earlier(key, i, j) == Before(key[i], key[j])

Orders(key, S) ==
    /\ IsFiniteSet(S)
    /\ \A i \in S : ~Earlier(key, i, i)
    /\ \A i, j \in S : i # j => Earlier(key, i, j) \/ Earlier(key, j, i)
    /\ \A i, j, k \in S : Earlier(key, i, j) /\ Earlier(key, j, k) => Earlier(key, i, k)

LEMMA OrdersParts ==
    ASSUME NEW S, NEW key, Orders(key, S), NEW T \in SUBSET S
    PROVE  Orders(key, T)
<1>1. IsFiniteSet(T)
      BY FS_Subset DEF Orders
<1>2. QED  BY <1>1 DEF Orders

(* The rows before a row.                                                    *)
LEMMA PlaceRises ==
    ASSUME NEW S, NEW key, Orders(key, S), NEW i \in S
    PROVE  /\ PlaceOf(S, key, i) \in Nat /\ PlaceOf(S, key, i) < Cardinality(S)
           /\ Cardinality(S) \in Nat
           /\ \A j \in S : Earlier(key, i, j) => PlaceOf(S, key, i) < PlaceOf(S, key, j)
<1> DEFINE B(x) == {j \in S : Earlier(key, j, x)}
<1>1. \A x : IsFiniteSet(B(x)) /\ PlaceOf(S, key, x) = Cardinality(B(x))
  <2>1. \A x : IsFiniteSet(B(x))
        BY FS_Subset DEF Orders
  <2>2. QED  BY <2>1 DEF PlaceOf, Earlier
<1>2. i \notin B(i) /\ \A j \in S : Earlier(key, i, j) => B(i) \cup {i} \subseteq B(j)
      BY DEF Orders
<1>3. /\ Cardinality(B(i)) \in Nat /\ Cardinality(S) \in Nat /\ IsFiniteSet(S)
      /\ \A j \in S : Cardinality(B(j)) \in Nat
      BY <1>1, FS_CardinalityType DEF Orders
<1>4. Cardinality(B(i) \cup {i}) = Cardinality(B(i)) + 1
      BY <1>1, <1>2, FS_AddElement
<1>5. Cardinality(B(i) \cup {i}) <= Cardinality(S)
  <2>1. B(i) \cup {i} \in SUBSET S
        OBVIOUS
  <2>2. QED  BY <1>3, <2>1, FS_Subset
<1>6. ASSUME NEW j \in S, Earlier(key, i, j) PROVE Cardinality(B(i) \cup {i}) <= Cardinality(B(j))
  <2>1. B(i) \cup {i} \in SUBSET B(j) /\ IsFiniteSet(B(j))
        BY <1>1, <1>2, <1>6
  <2>2. QED  BY <2>1, FS_Subset
<1>7. ASSUME NEW n, NEW m, n \in Nat, Cardinality(B(i)) = n, Cardinality(B(i) \cup {i}) <= m, m \in Nat
      PROVE  n < m
  <2> DEFINE c == Cardinality(B(i) \cup {i})
  <2>1. c = n + 1 /\ c <= m
        BY <1>4, <1>7
  <2> HIDE DEF c
  <2>2. QED  BY <1>7, <2>1
<1> HIDE DEF B
<1>8. PlaceOf(S, key, i) \in Nat /\ PlaceOf(S, key, i) < Cardinality(S)
  <2> DEFINE p == PlaceOf(S, key, i)
             c == Cardinality(S)
  <2>1. p \in Nat /\ c \in Nat /\ Cardinality(B(i)) = p /\ Cardinality(B(i) \cup {i}) <= c
        BY <1>1, <1>3, <1>5
  <2> HIDE DEF p, c
  <2>2. p < c
        BY <1>7, <2>1
  <2>3. QED  BY <2>1, <2>2 DEF p, c
<1>9. ASSUME NEW j \in S, Earlier(key, i, j) PROVE PlaceOf(S, key, i) < PlaceOf(S, key, j)
  <2> DEFINE p == PlaceOf(S, key, i)
             c == PlaceOf(S, key, j)
  <2>1. p \in Nat /\ c \in Nat /\ Cardinality(B(i)) = p /\ Cardinality(B(i) \cup {i}) <= c
        BY <1>1, <1>3, <1>6, <1>9
  <2> HIDE DEF p, c
  <2>2. p < c
        BY <1>7, <2>1
  <2>3. QED  BY <2>2 DEF p, c
<1>10. QED  BY <1>3, <1>8, <1>9

LEMMA PlacesApart ==
    ASSUME NEW S, NEW key, Orders(key, S), NEW i \in S, NEW j \in S, PlaceOf(S, key, i) = PlaceOf(S, key, j)
    PROVE  i = j
<1>1. PlaceOf(S, key, i) \in Nat
      BY PlaceRises
<1>2. ~Earlier(key, i, j)
      BY <1>1, PlaceRises
<1>3. ~Earlier(key, j, i)
      BY <1>1, PlaceRises
<1>4. QED  BY <1>2, <1>3 DEF Orders

(* Each place is taken.                                                      *)
LEMMA PlacesTaken ==
    ASSUME NEW S, NEW key, Orders(key, S), NEW k \in 1 .. Cardinality(S)
    PROVE  \E i \in S : PlaceOf(S, key, i) = k - 1
<1> DEFINE T == 0 .. Cardinality(S) - 1
           f == [i \in S |-> PlaceOf(S, key, i)]
<1>1. IsFiniteSet(S) /\ Cardinality(S) \in Nat
      BY FS_CardinalityType DEF Orders
<1>2. IsFiniteSet(T) /\ Cardinality(T) = Cardinality(S)
  <2> DEFINE c == Cardinality(S)
  <2>1. c \in Nat /\ c - 1 \in Int
        BY <1>1
  <2> HIDE DEF c
  <2>2. IsFiniteSet(0 .. c - 1) /\ Cardinality(0 .. c - 1) = IF 0 > c - 1 THEN 0 ELSE c - 1 - 0 + 1
        BY <2>1, FS_Interval
  <2>3. IsFiniteSet(0 .. c - 1) /\ Cardinality(0 .. c - 1) = c
        BY <2>1, <2>2
  <2>4. QED  BY <2>3 DEF c
<1>3. \A i \in S : f[i] \in T
      BY <1>1, PlaceRises
<1>4. f \in Injection(S, T)
  <2>1. f \in [S -> T]
        BY <1>3
  <2>2. \A i, j \in S : f[i] = f[j] => i = j
        BY PlacesApart
  <2>3. QED  BY <2>1, <2>2 DEF Injection, IsInjective
<1>5. f \in Surjection(S, T)
      BY <1>2, <1>4, FS_Injection
<1>6. k - 1 \in T
      BY <1>1
<1>7. QED  BY <1>5, <1>6 DEF Surjection

LEMMA OrderPlaces ==
    ASSUME NEW S, NEW key, Orders(key, S)
    PROVE  /\ Cardinality(S) \in Nat
           /\ InOrder(S, key) \in [1 .. Cardinality(S) -> S]
           /\ Len(InOrder(S, key)) = Cardinality(S)
           /\ \A k \in 1 .. Cardinality(S) : PlaceOf(S, key, InOrder(S, key)[k]) = k - 1
           /\ \A i \in S : PlaceOf(S, key, i) + 1 \in 1 .. Cardinality(S) /\ InOrder(S, key)[PlaceOf(S, key, i) + 1] = i
<1>1. Cardinality(S) \in Nat
      BY FS_CardinalityType DEF Orders
<1>2. \A k \in 1 .. Cardinality(S) : InOrder(S, key)[k] \in S /\ PlaceOf(S, key, InOrder(S, key)[k]) = k - 1
      BY PlacesTaken DEF InOrder
<1>3. InOrder(S, key) \in [1 .. Cardinality(S) -> S]
      BY <1>2 DEF InOrder
<1>4. Len(InOrder(S, key)) = Cardinality(S)
      BY <1>1, <1>3
<1>5. ASSUME NEW i \in S
      PROVE  PlaceOf(S, key, i) + 1 \in 1 .. Cardinality(S) /\ InOrder(S, key)[PlaceOf(S, key, i) + 1] = i
  <2>1. PlaceOf(S, key, i) \in Nat /\ PlaceOf(S, key, i) + 1 \in 1 .. Cardinality(S)
        BY <1>1, PlaceRises
  <2>2. PICK k \in 1 .. Cardinality(S) : k = PlaceOf(S, key, i) + 1 /\ k - 1 = PlaceOf(S, key, i)
        BY <2>1
  <2>3. InOrder(S, key)[k] \in S /\ PlaceOf(S, key, InOrder(S, key)[k]) = PlaceOf(S, key, i)
        BY <1>2, <2>2
  <2>4. InOrder(S, key)[k] = i
        BY <2>3, PlacesApart
  <2>5. QED  BY <2>2, <2>4
<1>6. QED  BY <1>1, <1>2, <1>3, <1>4, <1>5

LEMMA OrderIsSeq ==
    ASSUME NEW S, NEW key, Orders(key, S)
    PROVE  InOrder(S, key) \in Seq(S) /\ Len(InOrder(S, key)) = Cardinality(S) /\ Cardinality(S) \in Nat
<1>1. Cardinality(S) \in Nat /\ InOrder(S, key) \in [1 .. Cardinality(S) -> S] /\ Len(InOrder(S, key)) = Cardinality(S)
      BY OrderPlaces
<1> HIDE DEF InOrder
<1>2. QED  BY <1>1

(* What stands where its place says is the order.                            *)
LEMMA OrderIs ==
    ASSUME NEW S, NEW key, Orders(key, S), NEW s \in Seq(S), Len(s) = Cardinality(S),
           \A k \in 1 .. Len(s) : PlaceOf(S, key, s[k]) = k - 1
    PROVE  s = InOrder(S, key)
<1>1. InOrder(S, key) \in Seq(S) /\ Len(InOrder(S, key)) = Cardinality(S) /\ Cardinality(S) \in Nat
      BY OrderIsSeq
<1>2. ASSUME NEW k \in 1 .. Len(s) PROVE s[k] = InOrder(S, key)[k]
  <2>1. s[k] \in S
        OBVIOUS
  <2>2. InOrder(S, key)[k] \in S /\ PlaceOf(S, key, InOrder(S, key)[k]) = k - 1
        BY OrderPlaces
  <2>3. PlaceOf(S, key, s[k]) = k - 1
        OBVIOUS
  <2>4. QED  BY <2>1, <2>2, <2>3, PlacesApart
<1>3. QED  BY <1>1, <1>2, SeqEqual

(* A list is the first part of it and then the rest.                         *)
LEMMA Joined ==
    ASSUME NEW key, NEW A, NEW B, Orders(key, A \cup B), \A a \in A, b \in B : Earlier(key, a, b)
    PROVE  /\ InOrder(A \cup B, key) = InOrder(A, key) \o InOrder(B, key)
           /\ Cardinality(A \cup B) = Cardinality(A) + Cardinality(B)
<1> DEFINE S == A \cup B
<1>1. Orders(key, A) /\ Orders(key, B)
      BY OrdersParts
<1>2. A \cap B = {} /\ IsFiniteSet(A) /\ IsFiniteSet(B)
      BY <1>1 DEF Orders
<1>3. /\ Cardinality(A) \in Nat /\ Cardinality(B) \in Nat /\ Cardinality(S) \in Nat
      /\ Cardinality(S) = Cardinality(A) + Cardinality(B)
  <2>1. Cardinality(A) \in Nat /\ Cardinality(B) \in Nat /\ Cardinality(A \cap B) = 0
        BY <1>2, FS_CardinalityType, FS_EmptySet
  <2>2. Cardinality(S) = Cardinality(A) + Cardinality(B) - Cardinality(A \cap B)
        BY <1>2, FS_Union
  <2>3. QED  BY <2>1, <2>2
<1>4. ASSUME NEW a \in A PROVE PlaceOf(S, key, a) = PlaceOf(A, key, a)
  <2>1. {j \in S : Earlier(key, j, a)} = {j \in A : Earlier(key, j, a)}
        BY DEF Orders
  <2>2. QED  BY <2>1 DEF PlaceOf, Earlier
<1>5. ASSUME NEW b \in B PROVE PlaceOf(S, key, b) = Cardinality(A) + PlaceOf(B, key, b)
  <2> DEFINE E == {j \in B : Earlier(key, j, b)}
  <2>1. {j \in S : Earlier(key, j, b)} = A \cup E /\ A \cap E = {}
        BY <1>2
  <2>2. IsFiniteSet(E) /\ Cardinality(E) \in Nat
        BY <1>2, FS_Subset, FS_CardinalityType
  <2>3. Cardinality(A \cup E) = Cardinality(A) + Cardinality(E)
    <3>1. Cardinality(A \cup E) = Cardinality(A) + Cardinality(E) - Cardinality(A \cap E)
          BY <1>2, <2>2, FS_Union
    <3>2. Cardinality(A \cap E) = 0
          BY <2>1, FS_EmptySet
    <3>3. QED  BY <1>3, <2>2, <3>1, <3>2
  <2>4. PlaceOf(S, key, b) = Cardinality(A \cup E) /\ PlaceOf(B, key, b) = Cardinality(E)
        BY <2>1 DEF PlaceOf, Earlier
  <2>5. QED  BY <2>3, <2>4
<1> DEFINE s == InOrder(A, key)
           t == InOrder(B, key)
<1>6. /\ s \in Seq(A) /\ Len(s) = Cardinality(A) /\ \A k \in 1 .. Len(s) : s[k] \in A /\ PlaceOf(A, key, s[k]) = k - 1
      /\ t \in Seq(B) /\ Len(t) = Cardinality(B) /\ \A k \in 1 .. Len(t) : t[k] \in B /\ PlaceOf(B, key, t[k]) = k - 1
  <2>1. s \in Seq(A) /\ Len(s) = Cardinality(A) /\ \A k \in 1 .. Len(s) : s[k] \in A /\ PlaceOf(A, key, s[k]) = k - 1
        BY <1>1, OrderIsSeq, OrderPlaces
  <2>2. t \in Seq(B) /\ Len(t) = Cardinality(B) /\ \A k \in 1 .. Len(t) : t[k] \in B /\ PlaceOf(B, key, t[k]) = k - 1
        BY <1>1, OrderIsSeq, OrderPlaces
  <2>3. QED  BY <2>1, <2>2
<1> HIDE DEF s, t
<1>7. s \in Seq(S) /\ t \in Seq(S)
      BY <1>6, SeqMonotonic
<1>8. /\ s \o t \in Seq(S) /\ Len(s \o t) = Len(s) + Len(t)
      /\ \A k \in 1 .. Len(s) + Len(t) : (s \o t)[k] = IF k <= Len(s) THEN s[k] ELSE t[k - Len(s)]
      BY <1>7, ConcatProperties, Zenon
<1>9. ASSUME NEW k \in 1 .. Len(s \o t) PROVE PlaceOf(S, key, (s \o t)[k]) = k - 1
  <2>1. CASE k <= Len(s)
    <3>1. k \in 1 .. Len(s) /\ (s \o t)[k] = s[k]
          BY <1>3, <1>6, <1>8, <2>1
    <3>2. QED  BY <1>4, <1>6, <3>1
  <2>2. CASE ~(k <= Len(s))
    <3>1. k - Len(s) \in 1 .. Len(t) /\ (s \o t)[k] = t[k - Len(s)]
          BY <1>3, <1>6, <1>8, <2>2
    <3>2. t[k - Len(s)] \in B /\ PlaceOf(B, key, t[k - Len(s)]) = k - Len(s) - 1
          BY <1>6, <3>1
    <3>3. PlaceOf(S, key, (s \o t)[k]) = Cardinality(A) + (k - Len(s) - 1)
          BY <1>5, <3>1, <3>2
    <3>4. QED  BY <1>3, <1>6, <3>3
  <2>3. QED  BY <2>1, <2>2
<1>10. Len(s \o t) = Cardinality(S)
      BY <1>3, <1>6, <1>8
<1>11. s \o t = InOrder(S, key)
      BY <1>8, <1>9, <1>10, OrderIs
<1>12. QED  BY <1>3, <1>11 DEF s, t

(* LIMIT cuts a list: there are n rows, unless there are fewer, and the rest *)
(* comes after them.                                                         *)
LEMMA FirstIsCut ==
    ASSUME NEW S, NEW key, Orders(key, S), NEW n \in Nat
    PROVE  /\ FirstOf(S, key, n) \in SUBSET S
           /\ \A i \in FirstOf(S, key, n), j \in S \ FirstOf(S, key, n) : Earlier(key, i, j)
           /\ Cardinality(FirstOf(S, key, n)) = IF Cardinality(S) < n THEN Cardinality(S) ELSE n
           /\ Cardinality(S) <= n => FirstOf(S, key, n) = S
<1> DEFINE F == FirstOf(S, key, n)
<1>1. F \in SUBSET S /\ \A i \in S : i \in F <=> PlaceOf(S, key, i) < n
      BY DEF FirstOf
<1>2. \A i \in S : PlaceOf(S, key, i) \in Nat /\ PlaceOf(S, key, i) < Cardinality(S)
      BY PlaceRises
<1>3. Cardinality(S) \in Nat /\ IsFiniteSet(F) /\ Cardinality(F) \in Nat
      BY <1>1, FS_CardinalityType, FS_Subset DEF Orders
<1>4. ASSUME NEW i \in F, NEW j \in S \ F PROVE Earlier(key, i, j)
  <2>1. i \in S /\ PlaceOf(S, key, i) < n /\ ~(PlaceOf(S, key, j) < n)
        BY <1>1
  <2>2. PlaceOf(S, key, i) < PlaceOf(S, key, j)
        BY <1>2, <2>1
  <2>3. ~Earlier(key, j, i)
    <3>1. Earlier(key, j, i) => PlaceOf(S, key, j) < PlaceOf(S, key, i)
          BY <2>1, PlaceRises
    <3>2. QED  BY <1>2, <2>1, <2>2, <3>1
  <2>4. QED  BY <2>1, <2>3 DEF Orders
<1>5. Cardinality(S) <= n => F = S
  <2>1. ASSUME Cardinality(S) <= n PROVE \A i \in S : i \in F
        BY <1>1, <1>2, <1>3, <2>1
  <2>2. QED  BY <1>1, <2>1
<1>6. ~(Cardinality(S) < n) => Cardinality(F) = n
  <2> SUFFICES ASSUME ~(Cardinality(S) < n) PROVE Cardinality(F) = n
      OBVIOUS
  <2> DEFINE f == [i \in F |-> PlaceOf(S, key, i)]
             T == 0 .. n - 1
  <2>1. f \in [F -> T]
        BY <1>1, <1>2
  <2>2. \A i, j \in F : f[i] = f[j] => i = j
        BY <1>1, PlacesApart
  <2>3. \A p \in T : \E i \in F : f[i] = p
    <3> TAKE p \in T
    <3>1. p + 1 \in 1 .. Cardinality(S) /\ p + 1 - 1 = p /\ p < n
          BY <1>3
    <3>2. \E i \in S : PlaceOf(S, key, i) = p + 1 - 1
          BY <3>1, PlacesTaken
    <3>3. PICK i \in S : PlaceOf(S, key, i) = p
          BY <3>1, <3>2
    <3>4. QED  BY <1>1, <3>1, <3>3
  <2>4. f \in Bijection(F, T)
        BY <2>1, <2>2, <2>3 DEF Bijection, Injection, Surjection, IsInjective
  <2>5. Cardinality(T) = Cardinality(F)
        BY <1>3, <2>4, FS_Bijection DEF ExistsBijection
  <2>6. Cardinality(T) = n
    <3>1. Cardinality(T) = IF 0 > n - 1 THEN 0 ELSE n - 1 - 0 + 1
          BY FS_Interval
    <3>2. QED  BY <3>1
  <2>7. QED  BY <2>5, <2>6
<1>7. QED  BY <1>1, <1>3, <1>4, <1>5, <1>6

LEMMA LastIsLast ==
    ASSUME NEW S, NEW key, Orders(key, S), S # {}
    PROVE  /\ LastOf(S, key) \in S
           /\ \A j \in S : j = LastOf(S, key) \/ Earlier(key, j, LastOf(S, key))
<1>1. Cardinality(S) \in Nat /\ Cardinality(S) # 0
      BY FS_CardinalityType, FS_EmptySet DEF Orders
<1>2. PICK i \in S : PlaceOf(S, key, i) = Cardinality(S) - 1
      BY <1>1, PlacesTaken
<1>3. \A j \in S : ~Before(key[i], key[j])
  <2> TAKE j \in S
  <2>1. Earlier(key, i, j) => PlaceOf(S, key, i) < PlaceOf(S, key, j)
        BY PlaceRises
  <2>2. PlaceOf(S, key, j) \in Nat /\ PlaceOf(S, key, j) < Cardinality(S)
        BY PlaceRises
  <2>3. QED  BY <1>1, <1>2, <2>1, <2>2 DEF Earlier
<1>4. LastOf(S, key) \in S /\ \A j \in S : ~Before(key[LastOf(S, key)], key[j])
      BY <1>3 DEF LastOf
<1>5. QED  BY <1>4 DEF Orders, Earlier

LEMMA NothingInOrder == ASSUME NEW key PROVE InOrder({}, key) = <<>>
<1>1. Orders(key, {}) /\ Cardinality({}) = 0
      BY FS_EmptySet DEF Orders
<1>2. InOrder({}, key) \in Seq({}) /\ Len(InOrder({}, key)) = 0
      BY <1>1, OrderIsSeq
<1>3. InOrder({}, key) # <<>> => Len(InOrder({}, key)) \in Nat \ {0}
      BY <1>2, EmptySeq, Zenon
<1>4. QED  BY <1>2, <1>3

LEMMA PrefixOfConcat ==
    ASSUME NEW S, NEW s \in Seq(S), NEW t \in Seq(S)
    PROVE  IsPrefix(s, s \o t)
<1>1. /\ s \o t \in Seq(S) /\ Len(s \o t) = Len(s) + Len(t) /\ Len(s) \in Nat /\ Len(t) \in Nat
  <2>1. s \o t \in Seq(S) /\ Len(s \o t) = Len(s) + Len(t)
        BY ConcatProperties, Zenon
  <2>2. Len(s) \in Nat /\ Len(t) \in Nat
        BY LenProperties, Zenon
  <2>3. QED  BY <2>1, <2>2
<1>2. SubSeq(s, 1, Len(s)) = s
      BY SubSeqFull, Zenon
<1>3. SubSeq(s \o t, 1, Len(s)) = s
  <2>1. CASE Len(s) = 0
    <3>1. SubSeq(s \o t, 1, 0) = <<>>
          BY SubSeqEmpty
    <3>2. SubSeq(s, 1, 0) = <<>>
          BY SubSeqEmpty
    <3>3. QED  BY <1>2, <2>1, <3>1, <3>2
  <2>2. CASE Len(s) # 0
    <3>1. 1 \in 1 .. Len(s) /\ Len(s) \in 1 .. Len(s)
          BY <1>1, <2>2
    <3>2. SubSeq(s \o t, 1, Len(s)) = SubSeq(s, 1, Len(s))
          BY <3>1, SubSeqOfConcat1, Zenon
    <3>3. QED  BY <1>2, <3>2
  <2>3. QED  BY <2>1, <2>2
<1>4. QED  BY <1>1, <1>2, <1>3 DEF IsPrefix

LEMMA PairBefore ==
    ASSUME NEW k \in Int \X Int, NEW l \in Int \X Int
    PROVE  Before(k, l) <=> k[1] < l[1] \/ (k[1] = l[1] /\ k[2] < l[2])
<1>1. DOMAIN k = {1, 2}
      OBVIOUS
<1>2. Before(k, l) <=> \/ k[1] < l[1] /\ \A m \in 1 .. 1 - 1 : k[m] = l[m]
                       \/ k[2] < l[2] /\ \A m \in 1 .. 2 - 1 : k[m] = l[m]
      BY <1>1 DEF Before
<1>3. (\A m \in 1 .. 1 - 1 : k[m] = l[m]) /\ ((\A m \in 1 .. 2 - 1 : k[m] = l[m]) <=> k[1] = l[1])
      OBVIOUS
<1>4. QED  BY <1>2, <1>3

LEMMA PairsOrdered ==
    ASSUME NEW k \in Int \X Int, NEW l \in Int \X Int, NEW m \in Int \X Int
    PROVE  /\ ~Before(k, k)
           /\ k # l => Before(k, l) \/ Before(l, k)
           /\ Before(k, l) /\ Before(l, m) => Before(k, m)
           /\ ~Before(l, k) /\ Before(l, m) => Before(k, m)
           /\ Before(k, l) => ~Before(l, k)
           /\ Before(k, l) /\ ~Before(m, l) => Before(k, m)
<1>1. k = <<k[1], k[2]>> /\ l = <<l[1], l[2]>>
      OBVIOUS
<1>2. k[1] \in Int /\ k[2] \in Int /\ l[1] \in Int /\ l[2] \in Int /\ m[1] \in Int /\ m[2] \in Int
      OBVIOUS
<1>3. k # l => k[1] # l[1] \/ k[2] # l[2]
      BY <1>1
<1>4. QED  BY <1>2, <1>3, PairBefore

LEMMA PairsOrder ==
    ASSUME NEW S, NEW key, IsFiniteSet(S), \A i \in S : key[i] \in Int \X Int,
           \A i, j \in S : key[i] = key[j] => i = j
    PROVE  Orders(key, S)
<1>1. \A i \in S : ~Earlier(key, i, i)
      BY PairsOrdered DEF Earlier
<1>2. \A i, j \in S : i # j => Earlier(key, i, j) \/ Earlier(key, j, i)
      BY PairsOrdered DEF Earlier
<1>3. \A i, j, k \in S : Earlier(key, i, j) /\ Earlier(key, j, k) => Earlier(key, i, k)
      BY PairsOrdered DEF Earlier
<1>4. QED  BY <1>1, <1>2, <1>3 DEF Orders

-----------------------------------------------------------------------------
(* What there is to list.                                                    *)
RowsTyped ==
    /\ listed \in [Item -> [time : Int, offline : BOOLEAN]]
    /\ fields \in [1 .. 2 -> NoField .. MaxLength] /\ Len(fields) = 2
    /\ visible \in [Reader -> SUBSET Item]

LEMMA CharactersAre ==
    ASSUME RowsTyped
    PROVE  /\ \A c : c \in Characters <=> c \in (1 .. 2) \X Int /\ c[2] >= 0 /\ c[2] < fields[c[1]]
           /\ IsFiniteSet(Characters) /\ Characters \in SUBSET (Int \X Int)
<1>1. \A f \in 1 .. 2 : fields[f] \in Int /\ fields[f] <= MaxLength
      BY McpAssumption DEF RowsTyped, NoField
<1>2. \A c : c \in Characters <=> c \in (1 .. 2) \X Int /\ c[2] >= 0 /\ c[2] < fields[c[1]]
  <2> TAKE c
  <2>1. c \in Characters <=> \E f \in 1 .. 2 : c \in {f} \X (0 .. fields[f] - 1)
        BY DEF Characters, RowsTyped
  <2>2. ASSUME NEW f \in 1 .. 2, c \in {f} \X (0 .. fields[f] - 1)
        PROVE  c \in (1 .. 2) \X Int /\ c[2] >= 0 /\ c[2] < fields[c[1]]
        BY <1>1, <2>2
  <2>3. ASSUME c \in (1 .. 2) \X Int /\ c[2] >= 0 /\ c[2] < fields[c[1]]
        PROVE  c[1] \in 1 .. 2 /\ c \in {c[1]} \X (0 .. fields[c[1]] - 1)
        BY <1>1, <2>3
  <2>4. QED  BY <2>1, <2>2, <2>3
<1>3. Characters \in SUBSET ((1 .. 2) \X (0 .. MaxLength))
  <2>1. ASSUME NEW c \in Characters PROVE c \in (1 .. 2) \X (0 .. MaxLength)
    <3>1. c \in (1 .. 2) \X Int /\ c[2] >= 0 /\ c[2] < fields[c[1]] /\ c[1] \in 1 .. 2
          BY <1>2
    <3>2. QED  BY <1>1, <3>1, McpAssumption
  <2>2. QED  BY <2>1
<1>4. IsFiniteSet((1 .. 2) \X (0 .. MaxLength))
  <2>1. MaxLength \in Int /\ 0 \in Int /\ 1 \in Int /\ 2 \in Int
        BY McpAssumption
  <2>2. \A a, b \in Int : IsFiniteSet(a .. b)
        BY FS_Interval
  <2>3. IsFiniteSet(1 .. 2) /\ IsFiniteSet(0 .. MaxLength)
        BY <2>1, <2>2, Zenon
  <2>4. QED  BY <2>3, FS_Product, Zenon
<1>5. IsFiniteSet(Characters)
      BY <1>3, <1>4, FS_Subset
<1>6. Characters \in SUBSET (Int \X Int)
      BY <1>3, McpAssumption
<1>7. QED  BY <1>2, <1>5, <1>6

Tools == Tool \ {"payload"}

(* Every list has an order.                                                  *)
LEMMA KeysOrder ==
    ASSUME RowsTyped, NEW tool \in Tool
    PROVE  LET All == IF tool = "payload" THEN Characters ELSE Item
           IN  /\ Orders(KeyOf(tool), All)
               /\ \A i \in All : KeyOf(tool)[i] \in Int \X Int
               /\ \A account \in Reader : \A end : Found(tool, account, end) \in SUBSET All
<1>1. CASE tool = "payload"
  <2>1. \A c \in Characters : KeyOf(tool)[c] = c
        BY <1>1 DEF KeyOf
  <2>2. Orders(KeyOf(tool), Characters)
        BY <2>1, CharactersAre, PairsOrder
  <2>3. QED  BY <1>1, <2>1, <2>2, CharactersAre DEF Found
<1>2. CASE tool # "payload"
  <2>1. IsFiniteSet(Item) /\ \A i \in Item : i \in Int /\ listed[i].time \in Int
        BY McpAssumption DEF RowsTyped
  <2>2. \A i \in Item : KeyOf(tool)[i] \in Int \X Int /\ KeyOf(tool)[i][2] = i
    <3> TAKE i \in Item
    <3>1. CASE tool = "search_workflows"
          BY <2>1, <3>1 DEF KeyOf
    <3>2. CASE tool = "history"
          BY <2>1, <3>2 DEF KeyOf
    <3>3. CASE tool = "list_workers"
          BY <2>1, <3>3 DEF KeyOf
    <3>4. CASE tool \in {"inspect_workflow", "inspect_worker"}
          BY <2>1, <3>4 DEF KeyOf
    <3>5. QED  BY <1>2, <3>1, <3>2, <3>3, <3>4 DEF Tool
  <2>3. Orders(KeyOf(tool), Item)
    <3>1. \A i, j \in Item : KeyOf(tool)[i] = KeyOf(tool)[j] => i = j
          BY <2>2
    <3>2. QED  BY <2>1, <2>2, <3>1, PairsOrder
  <2>4. \A account \in Reader : \A end : Found(tool, account, end) \in SUBSET Item
        BY <1>2 DEF Found, RowsTyped
  <2>5. QED  BY <1>2, <2>2, <2>3, <2>4
<1>3. QED  BY <1>1, <1>2
LEMMA LeastOf == ASSUME NEW S \in SUBSET Nat, S # {} PROVE \E m \in S : \A n \in S : m <= n
<1> DEFINE Below == {0 .. n : n \in S}
<1>1. \A n \in Nat : 0 .. n \in FiniteSubsetsOf(Nat)
  BY FS_Interval DEF FiniteSubsetsOf
<1>2. Below \subseteq FiniteSubsetsOf(Nat) /\ Below # {}
  BY <1>1
<1>3. PICK least \in Below : \A other \in Below : ~ (<<other, least>> \in StrictSubsetOrdering(Nat))
  <2> HIDE DEF Below
  <2> QED BY <1>2, FS_StrictSubsetOrderingWellFounded, WFMin
<1>4. PICK m \in S : least = 0 .. m
  BY <1>3
<1>5. ASSUME NEW n \in S, n < m PROVE FALSE
  <2>1. 0 .. n \in Below
    OBVIOUS
  <2>2. 0 .. n \subseteq 0 .. m /\ 0 .. n # 0 .. m /\ 0 .. n \in SUBSET Nat /\ 0 .. m \in SUBSET Nat
    BY <1>5
  <2> QED BY <1>3, <1>4, <2>1, <2>2 DEF StrictSubsetOrdering
<1> QED BY <1>5

LEMMA SumOfOne ==
    ASSUME NEW f, NEW i, f[i] \in Int
    PROVE  SumFunctionOnSet(f, {i}) = f[i]
<1> DEFINE step(g) == [s \in SUBSET {i} |-> IF s = {} THEN 0 ELSE f[CHOOSE x \in s : TRUE] + g[s \ {CHOOSE x \in s : TRUE}]]
           equation(g) == g = step(g)
           iter == CHOOSE g : equation(g)
           known == [s \in SUBSET {i} |-> IF s = {} THEN 0 ELSE f[i]]
<1>1. SumFunctionOnSet(f, {i}) = iter[{i}]
      BY DEF SumFunctionOnSet, FoldFunctionOnSet, MapThenFoldSet
<1>2. equation(known)
  <2>1. \A s \in SUBSET {i} : s = {} \/ s = {i}
        OBVIOUS
  <2>2. (CHOOSE x \in {i} : TRUE) = i
        OBVIOUS
  <2>3. \A s \in SUBSET {i} : known[s] = step(known)[s]
        BY <2>1, <2>2
  <2>4. QED  BY <2>3
<1> HIDE DEF equation, known
<1>3. equation(iter)
      BY <1>2
<1> USE DEF equation
<1> HIDE DEF iter
<1>4. iter[{}] = 0 /\ iter[{i}] = f[i] + iter[{}]
  <2>1. iter[{}] = 0
        BY <1>3
  <2>2. (CHOOSE x \in {i} : TRUE) = i /\ {i} \ {i} = {}
        OBVIOUS
  <2>3. iter[{i}] = f[i] + iter[{}]
        BY <1>3, <2>2
  <2>4. QED  BY <2>1, <2>3
<1>5. QED  BY <1>1, <1>4

-----------------------------------------------------------------------------
(* What a cursor leaves to be read: rows after the last one given, or        *)
(* characters from an offset on.                                             *)
Rest(tool, W, position) ==
    {i \in W : \/ position = FirstPage
               \/ IF tool = "payload" THEN ~Before(KeyOf(tool)[i], position) ELSE Beyond(tool, i, position)}

Position == {FirstPage} \cup (Int \X Int)

(* Of what is left, a page gives the first rows, and its cursor leaves the   *)
(* others.                                                                   *)
Gives(page, tool, W, position) ==
    LET left == Rest(tool, W, position)
    IN  /\ page.given \in SUBSET left /\ page.next \in Position
        /\ \A i \in page.given, j \in left \ page.given : Earlier(KeyOf(tool), i, j)
        /\ page.next = FirstPage => page.given = left
        /\ page.next # FirstPage => /\ Rest(tool, W, page.next) = left \ page.given
                                    /\ position # FirstPage => Before(position, page.next)

LEMMA PositionIs == ASSUME NEW k \in Int \X Int PROVE k \in Position /\ k # FirstPage
<1>1. k = <<k[1], k[2]>>
      OBVIOUS
<1>2. QED  BY <1>1 DEF Position, FirstPage

Cuts(page, tool, listing, limit) ==
    /\ page.given \in SUBSET listing /\ Cardinality(page.given) <= limit
    /\ \A i \in page.given, j \in listing \ page.given : Earlier(KeyOf(tool), i, j)
    /\ page.next = FirstPage => page.given = listing
    /\ page.next # FirstPage => page.given # {} /\ page.next = KeyOf(tool)[LastOf(page.given, KeyOf(tool))]

LEMMA PageCuts ==
    ASSUME RowsTyped, NEW tool \in Tools, NEW listing \in SUBSET Item, NEW limit \in Limits
    PROVE  Cuts(Page(tool, listing, limit), tool, listing, limit)
<1> DEFINE key == KeyOf(tool)
           Room(n) == SizeOf(FirstOf(listing, key, n)) <= MaxResponse
           Most(n) == Room(n) /\ \A m \in n + 1 .. limit : ~Room(m)
           most == CHOOSE n \in 0 .. limit : Most(n)
           given == FirstOf(listing, key, most)
           page == Page(tool, listing, limit)
<1>1. Orders(key, listing) /\ limit \in Nat \ {0}
      BY KeysOrder, OrdersParts, McpAssumption DEF Tools
<1>2. /\ page.given = given
      /\ page.next = IF given \notin {listing, {}} THEN key[LastOf(given, key)] ELSE FirstPage
      BY DEF Page
<1>3. CASE listing = {}
  <2>1. given = {}
        BY <1>3 DEF FirstOf
  <2>2. Cardinality(given) = 0
        BY <2>1, FS_EmptySet
  <2>3. QED  BY <1>1, <1>2, <1>3, <2>1, <2>2 DEF Cuts
<1>4. CASE listing # {}
  <2> DEFINE F(n) == FirstOf(listing, key, n)
  <2>1. Room(1)
    <3>1. Cardinality(listing) \in Nat /\ Cardinality(listing) # 0
          BY <1>1, <1>4, FS_CardinalityType, FS_EmptySet DEF Orders
    <3>2. F(1) \in SUBSET listing /\ Cardinality(F(1)) = 1
          BY <1>1, <3>1, FirstIsCut
    <3>3. IsFiniteSet(F(1))
          BY <1>1, <3>2, FS_Subset DEF Orders
    <3>4. PICK i : F(1) = {i}
          BY <3>2, <3>3, FS_Singleton
    <3>5. i \in Item /\ Size[i] \in Int /\ Size[i] <= MaxResponse
      <4>1. i \in Item
            BY <3>2, <3>4
      <4>2. Size[i] \in 1 .. MaxResponse /\ MaxResponse \in Nat
            BY <4>1, McpAssumption
      <4>3. QED  BY <4>1, <4>2
    <3>6. SizeOf({i}) = Size[i]
          BY <3>5, SumOfOne DEF SizeOf
    <3>7. QED  BY <3>4, <3>5, <3>6
  <2> HIDE DEF Room
  <2>2. \E n \in 1 .. limit : Most(n)
    <3> DEFINE U == {n \in Nat : \E m \in 1 .. limit : Room(m) /\ n = limit - m}
    <3>1. limit - 1 \in U
          BY <1>1, <2>1
    <3>2. PICK n \in U : \A m \in U : n <= m
          BY <3>1, LeastOf
    <3>3. PICK m \in 1 .. limit : Room(m) /\ n = limit - m
          BY <3>2
    <3>4. ASSUME NEW o \in m + 1 .. limit, Room(o) PROVE FALSE
      <4>1. o \in 1 .. limit /\ limit - o \in Nat
            BY <1>1, <3>4
      <4>2. limit - o \in U
            BY <3>4, <4>1
      <4>3. n <= limit - o
            BY <3>2, <4>2
      <4>4. QED  BY <1>1, <3>3, <4>1, <4>3
    <3>5. QED  BY <3>3, <3>4
  <2>3. most \in 0 .. limit /\ Most(most)
    <3>1. \E n \in 0 .. limit : Most(n)
          BY <1>1, <2>2
    <3> HIDE DEF Most
    <3>2. QED  BY <3>1
  <2> HIDE DEF most
  <2>4. most \in 1 .. limit
    <3>1. most = 0 => ~Room(1)
          BY <1>1, <2>3
    <3>2. QED  BY <1>1, <2>1, <2>3, <3>1
  <2>5. /\ given \in SUBSET listing
        /\ \A i \in given, j \in listing \ given : Earlier(key, i, j)
        /\ Cardinality(given) = IF Cardinality(listing) < most THEN Cardinality(listing) ELSE most
    <3>1. most \in Nat
          BY <2>4
    <3>2. QED  BY <1>1, <3>1, FirstIsCut
  <2>6. Cardinality(listing) \in Nat /\ Cardinality(listing) # 0
        BY <1>1, <1>4, FS_CardinalityType, FS_EmptySet DEF Orders
  <2> DEFINE c == Cardinality(given)
             l == Cardinality(listing)
  <2>7. c # 0 /\ c <= limit
    <3>1. c = (IF l < most THEN l ELSE most) /\ l \in Nat /\ l # 0
          BY <2>5, <2>6
    <3> HIDE DEF c, l
    <3>2. QED  BY <1>1, <2>4, <3>1
  <2>8. given # {}
        BY <2>7, FS_EmptySet
  <2>9. key[LastOf(given, key)] # FirstPage
    <3>1. LastOf(given, key) \in Item
          BY <1>1, <2>5, <2>8, OrdersParts, LastIsLast
    <3>2. key[LastOf(given, key)] \in Int \X Int
          BY <3>1, KeysOrder DEF Tools
    <3>3. QED  BY <3>2, PositionIs
  <2> HIDE DEF given
  <2>10. QED  BY <1>2, <2>5, <2>7, <2>8, <2>9 DEF Cuts
<1>5. QED  BY <1>3, <1>4

(* The rows beyond the last one of a first part of what is left.             *)
LEMMA RestAfterLast ==
    ASSUME RowsTyped, NEW tool \in Tools, NEW W \in SUBSET Item, NEW position \in Position,
           NEW G \in SUBSET Rest(tool, W, position), G # {},
           \A i \in G, j \in Rest(tool, W, position) \ G : Earlier(KeyOf(tool), i, j)
    PROVE  LET next == KeyOf(tool)[LastOf(G, KeyOf(tool))]
           IN  /\ next \in Int \X Int /\ Rest(tool, W, next) = Rest(tool, W, position) \ G
               /\ position # FirstPage => Before(position, next)
<1> DEFINE key == KeyOf(tool)
           last == LastOf(G, key)
           next == key[last]
           left == Rest(tool, W, position)
<1>1. /\ tool \in Tool /\ tool # "payload" /\ Orders(key, Item)
      /\ \A i \in Item : key[i] \in Int \X Int
      BY KeysOrder DEF Tools
<1>2. G \in SUBSET Item /\ left \in SUBSET Item
      BY DEF Rest
<1>3. last \in G /\ \A j \in G : j = last \/ Earlier(key, j, last)
      BY <1>1, <1>2, OrdersParts, LastIsLast
<1>4. next \in Int \X Int /\ next # FirstPage
      BY <1>1, <1>2, <1>3, PositionIs
<1>5. \A i \in W : i \in Rest(tool, W, next) <=> Before(next, key[i])
      BY <1>1, <1>4 DEF Rest, Beyond
<1>6. \A i \in W : i \in left <=> position = FirstPage \/ Before(position, key[i])
      BY <1>1 DEF Rest, Beyond
<1>7. ASSUME NEW i \in left \ G PROVE i \in W /\ Before(next, key[i])
      BY <1>3 DEF Rest, Earlier
<1>8. ASSUME NEW i \in W, Before(next, key[i]) PROVE i \in left \ G
  <2>1. i \in left
    <3>1. CASE position = FirstPage
          BY <1>6, <3>1
    <3>2. CASE position \in Int \X Int
      <4>1. Before(position, next) \/ position = FirstPage
            BY <1>3, <1>6 DEF Rest
      <4>2. Before(position, next)
            BY <3>2, <4>1, PositionIs
      <4>3. key[i] \in Int \X Int
            BY <1>1
      <4>4. Before(position, key[i])
            BY <1>4, <1>8, <3>2, <4>2, <4>3, PairsOrdered
      <4>5. QED  BY <1>6, <4>4
    <3>3. QED  BY <3>1, <3>2 DEF Position
  <2>2. ASSUME i \in G PROVE FALSE
    <3>1. i = last \/ Before(key[i], next)
          BY <1>3, <2>2 DEF Earlier
    <3>2. key[i] \in Int \X Int
          BY <1>1
    <3>3. QED  BY <1>4, <1>8, <3>1, <3>2, PairsOrdered
  <2>3. QED  BY <2>1, <2>2
<1>9. Rest(tool, W, next) \in SUBSET W /\ left \in SUBSET W
      BY DEF Rest
<1>10. Rest(tool, W, next) = left \ G
      BY <1>5, <1>7, <1>8, <1>9
<1>11. position # FirstPage => Before(position, next)
      BY <1>3, <1>6 DEF Rest
<1>12. QED  BY <1>4, <1>10, <1>11

LEMMA RowsGive ==
    ASSUME RowsTyped, NEW tool \in Tools, tool # "list_workers", NEW account \in Reader, NEW end,
           NEW position \in Position, NEW limit \in Limits
    PROVE  Gives(PagesOf(tool, account, end, position, limit), tool, Found(tool, account, end), position)
<1> DEFINE key == KeyOf(tool)
           W == Found(tool, account, end)
           left == Rest(tool, W, position)
           read == FirstOf(left, key, limit + 1)
           page == Page(tool, read, limit)
<1>1. tool \in Tool /\ tool # "payload" /\ W \in SUBSET Item /\ limit \in Nat \ {0} /\ limit + 1 \in Nat
      BY KeysOrder, McpAssumption DEF Tools
<1>2. PagesOf(tool, account, end, position, limit) = page
  <2>1. After(tool, account, end, position) = left
        BY <1>1 DEF After, Rest
  <2>2. tool \in {"search_workflows", "history", "inspect_workflow", "inspect_worker"}
        BY <1>1 DEF Tool
  <2>3. QED  BY <2>1, <2>2 DEF PagesOf
<1>3. left \in SUBSET Item /\ Orders(key, left) /\ Orders(key, Item)
      BY <1>1, KeysOrder, OrdersParts DEF Rest
<1> HIDE DEF left
<1>4. /\ read \in SUBSET left /\ \A i \in read, j \in left \ read : Earlier(key, i, j)
      /\ Cardinality(read) = IF Cardinality(left) < limit + 1 THEN Cardinality(left) ELSE limit + 1
      /\ Cardinality(left) <= limit + 1 => read = left
      BY <1>1, <1>3, FirstIsCut
<1>5. /\ page.given \in SUBSET read /\ Cardinality(page.given) <= limit
      /\ \A i \in page.given, j \in read \ page.given : Earlier(key, i, j)
      /\ page.next = FirstPage => page.given = read
      /\ page.next # FirstPage => page.given # {} /\ page.next = key[LastOf(page.given, key)]
  <2>1. read \in SUBSET Item /\ tool \in Tools
        BY <1>3, <1>4
  <2>2. Cuts(page, tool, read, limit)
        BY <2>1, PageCuts
  <2>3. QED  BY <2>2 DEF Cuts
<1> HIDE DEF page
<1>6. page.given \in SUBSET left /\ \A i \in page.given, j \in left \ page.given : Earlier(key, i, j)
      BY <1>4, <1>5
<1>7. CASE page.next = FirstPage
  <2> DEFINE c == Cardinality(read)
             d == Cardinality(left)
  <2>1. d \in Nat /\ c = (IF d < limit + 1 THEN d ELSE limit + 1) /\ c <= limit
        BY <1>3, <1>4, <1>5, <1>7, FS_CardinalityType DEF Orders
  <2> HIDE DEF c, d
  <2>2. d <= limit + 1
        BY <1>1, <2>1
  <2>3. page.given = left
        BY <1>4, <1>5, <1>7, <2>2 DEF d
  <2>4. QED  BY <1>2, <1>6, <1>7, <2>3 DEF Gives, Position, left
<1>8. CASE page.next # FirstPage
  <2>1. /\ page.next \in Int \X Int /\ Rest(tool, W, page.next) = left \ page.given
        /\ position # FirstPage => Before(position, page.next)
        BY <1>1, <1>5, <1>6, <1>8, RestAfterLast DEF left
  <2>2. QED  BY <1>2, <1>6, <1>8, <2>1 DEF Gives, Position, left
<1>9. QED  BY <1>7, <1>8

LEMMA WorkersGive ==
    ASSUME RowsTyped, NEW account \in Reader, NEW end, NEW position \in Position, NEW limit \in Limits
    PROVE  Gives(PagesOf("list_workers", account, end, position, limit), "list_workers",
                 Found("list_workers", account, end) \cap Matching, position)
<1> DEFINE tool == "list_workers"
           key == KeyOf(tool)
           all == Found(tool, account, end)
           W == all \cap Matching
           left == Rest(tool, all, position)
           scan == FirstOf(left, key, ScanMax)
           page == Page(tool, scan \cap Matching, limit)
           answered == PagesOf(tool, account, end, position, limit)
<1>1. tool \in Tools /\ tool \in Tool /\ all \in SUBSET Item /\ W \in SUBSET Item /\ ScanMax \in Nat \ {0}
      BY KeysOrder, McpAssumption DEF Tools, Tool
<1>2. answered = IF page.next = FirstPage /\ Cardinality(scan) = ScanMax
                 THEN [page EXCEPT !.next = key[LastOf(scan, key)]] ELSE page
  <2>1. After(tool, account, 0, position) = left
        BY DEF After, Rest, Found
  <2>2. answered = PageOfWorkers(account, position, limit)
        BY DEF PagesOf
  <2>3. QED  BY <2>1, <2>2 DEF PageOfWorkers
<1>3. page = [given |-> page.given, next |-> page.next]
      BY DEF Page
<1>4. left \in SUBSET Item /\ Orders(key, left) /\ Orders(key, Item)
      BY <1>1, KeysOrder, OrdersParts DEF Rest
<1>5. Rest(tool, W, position) = left \cap Matching
      BY DEF Rest
<1> HIDE DEF left
<1>6. /\ scan \in SUBSET left /\ \A i \in scan, j \in left \ scan : Earlier(key, i, j)
      /\ Cardinality(scan) = IF Cardinality(left) < ScanMax THEN Cardinality(left) ELSE ScanMax
      /\ Cardinality(left) <= ScanMax => scan = left
      BY <1>1, <1>4, FirstIsCut
<1>7. /\ page.given \in SUBSET (scan \cap Matching)
      /\ \A i \in page.given, j \in (scan \cap Matching) \ page.given : Earlier(key, i, j)
      /\ page.next = FirstPage => page.given = scan \cap Matching
      /\ page.next # FirstPage => page.given # {} /\ page.next = key[LastOf(page.given, key)]
  <2>1. scan \cap Matching \in SUBSET Item
        BY <1>4, <1>6
  <2>2. Cuts(page, tool, scan \cap Matching, limit)
        BY <1>1, <2>1, PageCuts
  <2>3. QED  BY <2>2 DEF Cuts
<1> HIDE DEF page, scan
<1>8. /\ page.given \in SUBSET (left \cap Matching)
      /\ \A i \in page.given, j \in (left \cap Matching) \ page.given : Earlier(key, i, j)
      BY <1>6, <1>7
<1>9. CASE page.next # FirstPage
  <2>1. /\ page.next \in Int \X Int /\ Rest(tool, W, page.next) = Rest(tool, W, position) \ page.given
        /\ position # FirstPage => Before(position, page.next)
    <3>1. /\ page.given \in SUBSET Rest(tool, W, position)
          /\ \A i \in page.given, j \in Rest(tool, W, position) \ page.given : Earlier(key, i, j)
          BY <1>5, <1>8
    <3>2. page.given # {} /\ page.next = key[LastOf(page.given, key)]
          BY <1>7, <1>9
    <3> DEFINE G == page.given
    <3>3. /\ key[LastOf(G, key)] \in Int \X Int /\ Rest(tool, W, key[LastOf(G, key)]) = Rest(tool, W, position) \ G
          /\ position # FirstPage => Before(position, key[LastOf(G, key)])
      <4> HIDE DEF G, W
      <4>1. W \in SUBSET Item /\ G \in SUBSET Rest(tool, W, position) /\ G # {}
            BY <1>1, <3>1, <3>2 DEF G
      <4>2. \A i \in G, j \in Rest(tool, W, position) \ G : Earlier(KeyOf(tool), i, j)
            BY <3>1 DEF G
      <4>3. QED  BY <1>1, <4>1, <4>2, RestAfterLast
    <3>4. QED  BY <3>2, <3>3
  <2>2. answered = page
        BY <1>2, <1>9
  <2>3. QED  BY <1>5, <1>8, <1>9, <2>1, <2>2 DEF Gives, Position
<1>10. CASE page.next = FirstPage /\ Cardinality(scan) = ScanMax
  <2> DEFINE next == key[LastOf(scan, key)]
  <2>1. scan # {}
        BY <1>1, <1>10, FS_EmptySet
  <2>2. /\ next \in Int \X Int /\ Rest(tool, all, next) = left \ scan
        /\ position # FirstPage => Before(position, next)
        BY <1>1, <1>6, <2>1, RestAfterLast DEF left
  <2>3. Rest(tool, W, next) = Rest(tool, all, next) \cap Matching
        BY DEF Rest
  <2>4. Rest(tool, W, next) = (left \cap Matching) \ page.given
        BY <1>7, <1>10, <2>2, <2>3
  <2>5. answered.given = page.given /\ answered.next = next /\ next # FirstPage
        BY <1>2, <1>3, <1>10, <2>2, PositionIs
  <2> HIDE DEF next
  <2>6. QED  BY <1>5, <1>8, <2>2, <2>4, <2>5 DEF Gives, Position
<1>11. CASE page.next = FirstPage /\ Cardinality(scan) # ScanMax
  <2> DEFINE c == Cardinality(scan)
             d == Cardinality(left)
  <2>1. d \in Nat /\ c = (IF d < ScanMax THEN d ELSE ScanMax) /\ c # ScanMax
        BY <1>4, <1>6, <1>11, FS_CardinalityType DEF Orders
  <2> HIDE DEF c, d
  <2>2. d <= ScanMax
        BY <1>1, <2>1
  <2>3. page.given = left \cap Matching
        BY <1>6, <1>7, <1>11, <2>2 DEF d
  <2>4. answered = page
        BY <1>2, <1>11
  <2>5. QED  BY <1>5, <1>8, <1>11, <2>3, <2>4 DEF Gives, Position
<1>12. QED  BY <1>9, <1>10, <1>11

LEMMA PayloadGives ==
    ASSUME RowsTyped, NEW account \in Reader, NEW end, NEW position \in Position, NEW limit
    PROVE  Gives(PagesOf("payload", account, end, position, limit), "payload", Characters, position)
<1> DEFINE key == KeyOf("payload")
           left == Rest("payload", Characters, position)
           given == FirstOf(left, key, Chunk)
           last == LastOf(given, key)
           next == IF last[2] + 1 < fields[last[1]] THEN <<last[1], last[2] + 1>> ELSE <<last[1] + 1, 0>>
           page == PagesOf("payload", account, end, position, limit)
<1>1. /\ \A c \in Characters : key[c] = c
      /\ Chunk \in Nat \ {0} /\ \A f \in 1 .. 2 : fields[f] \in Int
      BY McpAssumption DEF KeyOf, RowsTyped, NoField
<1>2. left = {c \in Characters : position = FirstPage \/ ~Before(c, position)}
      BY <1>1 DEF Rest
<1>3. page.given = given /\ page.next = IF Cardinality(given) < Chunk \/ next[1] > 2 THEN FirstPage ELSE next
  <2>1. page = PageOfPayload(position)
        BY DEF PagesOf
  <2>2. Len(fields) = 2
        BY DEF RowsTyped
  <2>3. QED  BY <1>2, <2>1, <2>2 DEF PageOfPayload
<1>4. left \in SUBSET Characters /\ Orders(key, left)
  <2>1. "payload" \in Tool
        BY DEF Tool
  <2>2. left \in SUBSET Characters
        BY DEF Rest
  <2>3. QED  BY <2>1, <2>2, KeysOrder, OrdersParts
<1> HIDE DEF left
<1>5. /\ given \in SUBSET left /\ \A i \in given, j \in left \ given : Earlier(key, i, j)
      /\ Cardinality(given) = IF Cardinality(left) < Chunk THEN Cardinality(left) ELSE Chunk
      /\ Cardinality(left) <= Chunk => given = left
      BY <1>1, <1>4, FirstIsCut
<1>6. CASE Cardinality(given) < Chunk
  <2> DEFINE c == Cardinality(given)
             d == Cardinality(left)
  <2>1. d \in Nat /\ c = (IF d < Chunk THEN d ELSE Chunk) /\ c < Chunk
        BY <1>4, <1>5, <1>6, FS_CardinalityType DEF Orders
  <2> HIDE DEF c, d
  <2>2. d <= Chunk
        BY <1>1, <2>1
  <2>3. given = left
        BY <1>5, <2>2 DEF d
  <2>4. page.next = FirstPage /\ page.given = left
        BY <1>3, <1>6, <2>3
  <2>5. QED  BY <2>4 DEF Gives, Position, left
<1>7. CASE ~(Cardinality(given) < Chunk)
  <2>1. given # {}
        BY <1>1, <1>7, FS_EmptySet
  <2>2. last \in given /\ \A c \in given : c = last \/ Before(c, last)
    <3>1. last \in given /\ \A c \in given : c = last \/ Earlier(key, c, last)
          BY <1>4, <1>5, <2>1, OrdersParts, LastIsLast
    <3>2. QED  BY <1>1, <1>4, <1>5, <3>1 DEF Earlier
  <2> HIDE DEF given, last
  <2>3. \A c \in Characters : c \in (1 .. 2) \X Int /\ c[2] >= 0 /\ c[2] < fields[c[1]] /\ c \in Int \X Int
        BY CharactersAre
  <2>4. last \in Characters /\ last \in Int \X Int /\ last[1] \in 1 .. 2 /\ fields[last[1]] \in Int
        BY <1>1, <1>4, <1>5, <2>2, <2>3
  <2>5. \A c \in left : c \notin given <=> Before(last, c)
    <3> TAKE c \in left
    <3>1. c \in Int \X Int /\ key[last] = last /\ key[c] = c
          BY <1>1, <1>4, <2>3, <2>4
    <3>2. c \notin given => Before(last, c)
          BY <1>5, <2>2, <3>1 DEF Earlier
    <3>3. c \in given => ~Before(last, c)
          BY <2>2, <2>4, <3>1, PairsOrdered
    <3>4. QED  BY <3>2, <3>3
  <2>6. \A c \in Characters : Before(last, c) => c \in left
    <3> TAKE c \in Characters
    <3>1. c \in Int \X Int /\ (position = FirstPage \/ ~Before(last, position))
          BY <1>2, <1>5, <2>2, <2>3
    <3>2. Before(last, c) /\ position \in Int \X Int /\ ~Before(last, position) => ~Before(c, position)
          BY <2>4, <3>1, PairsOrdered
    <3>3. QED  BY <1>2, <3>1, <3>2 DEF Position
  <2>7. next \in Int \X Int /\ next[1] \in Int
        BY <2>4
  <2>8. \A c \in Characters : Before(last, c) <=> ~Before(c, next)
    <3> TAKE c \in Characters
    <3>1. c \in Int \X Int /\ c[1] \in 1 .. 2 /\ c[1] \in Int /\ c[2] \in Int /\ c[2] >= 0 /\ c[2] < fields[c[1]]
          BY <2>3
    <3>2. last[1] \in Int /\ last[2] \in Int /\ last[2] < fields[last[1]]
          BY <2>3, <2>4
    <3>3. Before(last, c) <=> last[1] < c[1] \/ (last[1] = c[1] /\ last[2] < c[2])
          BY <2>4, <3>1, PairBefore
    <3>4. Before(c, next) <=> c[1] < next[1] \/ (c[1] = next[1] /\ c[2] < next[2])
          BY <2>7, <3>1, PairBefore
    <3>5. CASE last[2] + 1 < fields[last[1]]
      <4>1. next[1] = last[1] /\ next[2] = last[2] + 1
            BY <3>5
      <4>2. QED  BY <3>1, <3>2, <3>3, <3>4, <4>1
    <3>6. CASE ~(last[2] + 1 < fields[last[1]])
      <4>1. next[1] = last[1] + 1 /\ next[2] = 0
            BY <3>6
      <4>2. c[1] = last[1] => c[2] < last[2] + 1
            BY <2>4, <3>1, <3>2, <3>6
      <4>3. QED  BY <3>1, <3>2, <3>3, <3>4, <4>1, <4>2
    <3>7. QED  BY <3>5, <3>6
  <2>9. CASE next[1] > 2
    <3>1. \A c \in left : Before(c, next)
      <4> TAKE c \in left
      <4>1. c \in Int \X Int /\ c[1] \in 1 .. 2
            BY <1>4, <2>3
      <4>2. c[1] < next[1]
            BY <2>7, <2>9, <4>1
      <4>3. QED  BY <2>7, <4>1, <4>2, PairBefore
    <3>2. given = left
          BY <1>4, <1>5, <2>5, <2>8, <3>1
    <3>3. page.next = FirstPage /\ page.given = left
          BY <1>3, <2>9, <3>2
    <3>4. QED  BY <3>3 DEF Gives, Position, left
  <2>10. CASE ~(next[1] > 2)
    <3> HIDE DEF next
    <3>1. page.given = given /\ page.next = next /\ next # FirstPage /\ next \in Position
          BY <1>3, <1>7, <2>7, <2>10, PositionIs
    <3>2. Rest("payload", Characters, next) = left \ given
      <4>1. Rest("payload", Characters, next) = {c \in Characters : ~Before(c, next)}
            BY <1>1, <3>1 DEF Rest
      <4>2. QED  BY <1>4, <2>5, <2>6, <2>8, <4>1
    <3>3. position # FirstPage => Before(position, next)
      <4>1. position # FirstPage => position \in Int \X Int /\ ~Before(last, position)
            BY <1>2, <1>5, <2>2 DEF Position
      <4>2. Before(last, next)
        <5>1. next[1] > last[1] \/ (next[1] = last[1] /\ next[2] > last[2])
              BY <2>4 DEF next
        <5>2. QED  BY <2>4, <2>7, <5>1, PairBefore
      <4>3. QED  BY <2>4, <2>7, <4>1, <4>2, PairsOrdered
    <3>4. QED  BY <1>5, <3>1, <3>2, <3>3 DEF Gives, left
  <2>11. QED  BY <2>9, <2>10
<1>8. QED  BY <1>6, <1>7

LEMMA Given ==
    ASSUME RowsTyped, NEW tool \in Tool, NEW account \in Reader, NEW end, NEW position \in Position,
           NEW limit \in Limits
    PROVE  Gives(PagesOf(tool, account, end, position, limit), tool, Wanted(tool, account, end), position)
<1>1. CASE tool = "list_workers"
      BY <1>1, WorkersGive DEF Wanted
<1>2. CASE tool = "payload"
  <2>1. Wanted(tool, account, end) = Characters
        BY <1>2 DEF Wanted, Found
  <2>2. QED  BY <1>2, <2>1, PayloadGives
<1>3. CASE tool \notin {"list_workers", "payload"}
      BY <1>3, RowsGive DEF Wanted, Tools
<1>4. QED  BY <1>1, <1>2, <1>3

(* What is not left has been passed.  With a page more, as much of the list  *)
(* has been given as the new cursor has passed.                              *)
Passed(tool, W, position) == W \ Rest(tool, W, position)

LEMMA PassedIsEarlier ==
    ASSUME RowsTyped, NEW tool \in Tool, NEW position \in Position,
           NEW W \in SUBSET (IF tool = "payload" THEN Characters ELSE Item)
    PROVE  \A i \in Passed(tool, W, position), j \in Rest(tool, W, position) : Earlier(KeyOf(tool), i, j)
<1> TAKE i \in Passed(tool, W, position), j \in Rest(tool, W, position)
<1> DEFINE k == KeyOf(tool)[i]
           l == KeyOf(tool)[j]
<1>1. i \in W /\ j \in W /\ i \notin Rest(tool, W, position) /\ position # FirstPage
      BY DEF Passed, Rest
<1>2. k \in Int \X Int /\ l \in Int \X Int /\ position \in Int \X Int
      BY <1>1, KeysOrder DEF Position
<1>3. CASE tool = "payload"
  <2>1. Before(k, position) /\ ~Before(l, position)
        BY <1>1, <1>3 DEF Rest
  <2> HIDE DEF k, l
  <2>2. Before(k, l)
        BY <1>2, <2>1, PairsOrdered
  <2>3. QED  BY <2>2 DEF Earlier, k, l
<1>4. CASE tool # "payload"
  <2>1. ~Before(position, k) /\ Before(position, l)
        BY <1>1, <1>4 DEF Rest, Beyond
  <2> HIDE DEF k, l
  <2>2. Before(k, l)
        BY <1>2, <2>1, PairsOrdered
  <2>3. QED  BY <2>2 DEF Earlier, k, l
<1>5. QED  BY <1>3, <1>4

LEMMA PageAdds ==
    ASSUME RowsTyped, NEW tool \in Tool, NEW position \in Position, NEW page,
           NEW W \in SUBSET (IF tool = "payload" THEN Characters ELSE Item),
           Gives(page, tool, W, position)
    PROVE  LET key == KeyOf(tool)
               given == InOrder(Passed(tool, W, position), key) \o InOrder(page.given, key)
           IN  /\ IsPrefix(given, InOrder(W, key))
               /\ page.next = FirstPage => given = InOrder(W, key)
               /\ page.next # FirstPage => given = InOrder(Passed(tool, W, page.next), key)
<1> DEFINE key == KeyOf(tool)
           D == Passed(tool, W, position)
           G == page.given
           R == Rest(tool, W, position)
           E == R \ G
           given == InOrder(D, key) \o InOrder(G, key)
<1>1. /\ G \in SUBSET R /\ \A i \in G, j \in E : Earlier(key, i, j)
      /\ page.next = FirstPage => G = R
      /\ page.next # FirstPage => Rest(tool, W, page.next) = E
      BY DEF Gives
<1>2. R \in SUBSET W /\ D = W \ R
      BY DEF Rest, Passed
<1>3. \A i \in D, j \in R : Earlier(key, i, j)
      BY PassedIsEarlier
<1>4. Orders(key, W)
      BY KeysOrder, OrdersParts
<1>5. page.next # FirstPage => Passed(tool, W, page.next) = D \cup G
      BY <1>1, <1>2 DEF Passed
<1> HIDE DEF D, R, G
<1>6. Orders(key, D \cup G) /\ (D \cup G) \cup E = W
      BY <1>1, <1>2, <1>4, OrdersParts
<1>7. InOrder(D \cup G, key) = given
  <2>1. \A i \in D, j \in G : Earlier(key, i, j)
        BY <1>1, <1>3
  <2>2. QED  BY <1>6, <2>1, Joined
<1>8. InOrder((D \cup G) \cup E, key) = InOrder(D \cup G, key) \o InOrder(E, key)
  <2>1. \A i \in D \cup G, j \in E : Earlier(key, i, j)
        BY <1>1, <1>3
  <2>2. Orders(key, (D \cup G) \cup E)
        BY <1>4, <1>6
  <2> HIDE DEF E
  <2>3. QED  BY <2>1, <2>2, Joined
<1>9. IsPrefix(given, InOrder(W, key))
  <2> DEFINE s == InOrder(D \cup G, key)
             t == InOrder(E, key)
  <2>1. s \in Seq(W) /\ t \in Seq(W)
    <3>1. Orders(key, E) /\ D \cup G \subseteq W /\ E \subseteq W
          BY <1>4, <1>6, OrdersParts
    <3>2. s \in Seq(D \cup G) /\ t \in Seq(E)
          BY <1>6, <3>1, OrderIsSeq
    <3>3. QED  BY <3>1, <3>2, SeqMonotonic
  <2> HIDE DEF s, t
  <2>2. IsPrefix(s, s \o t)
        BY <2>1, PrefixOfConcat, Zenon
  <2>3. QED  BY <1>6, <1>7, <1>8, <2>2 DEF s, t
<1>10. page.next = FirstPage => given = InOrder(W, key)
  <2>1. page.next = FirstPage => D \cup G = W
        BY <1>1, <1>2
  <2>2. QED  BY <1>7, <2>1
<1>11. page.next # FirstPage => given = InOrder(Passed(tool, W, page.next), key)
      BY <1>5, <1>7
<1>12. QED  BY <1>9, <1>10, <1>11 DEF D, G

-----------------------------------------------------------------------------
(* The rows a search has given do not come again: since then, they have gone *)
(* or moved to a time after its first call, or the cursor has passed them.   *)
GivenOnce(s, position, end) ==
    /\ s \in Seq(Item) /\ NoRepeats(s)
    /\ \A k \in 1 .. Len(s) :
        \/ listed[s[k]] = Gone \/ listed[s[k]].time > end
        \/ position # FirstPage /\ ~Beyond("search_workflows", s[k], position)

(* What the cursor of a list remembers has been given as far as the cursor   *)
(* has passed the list, if nothing was written since the first call; and of  *)
(* an inspection as far as it has passed what was there then.                *)
HeldInv ==
    held # NoCursor =>
        /\ held.tool \in Tool /\ held.position \in Int \X Int
        /\ held.end \in Nat /\ held.end <= writes /\ held.began \in Nat /\ held.began <= writes
        /\ held.began = writes =>
            \A account \in Reader : held.secret = CursorSecret(account) =>
                held.before = InOrder(Passed(held.tool, Wanted(held.tool, account, held.end), held.position),
                                      KeyOf(held.tool))
        /\ held.tool = "inspect_worker" =>
            held.before = InOrder(Passed(held.tool, {i \in held.secret[2] : held.snapshot[i] # Gone}, held.position),
                                  KeyOf(held.tool))
        /\ held.tool = "search_workflows" => GivenOnce(held.before, held.position, held.end)

PagingInv == RowsTyped /\ writes \in Nat /\ HeldInv /\ PagesAddUp

LEMMA WantedIs ==
    ASSUME RowsTyped, NEW tool \in Tool, NEW account \in Reader, NEW end
    PROVE  Wanted(tool, account, end) \in SUBSET (IF tool = "payload" THEN Characters ELSE Item)
BY KeysOrder DEF Wanted

(* A row that is given now was not given before.                             *)
LEMMA GivenOnceMore ==
    ASSUME RowsTyped, NEW account \in Reader, NEW end \in Nat, NEW position \in Position, NEW page,
           Gives(page, "search_workflows", Wanted("search_workflows", account, end), position),
           NEW before, GivenOnce(before, position, end)
    PROVE  LET given == before \o InOrder(page.given, KeyOf("search_workflows"))
           IN  NoRepeats(given) /\ (page.next # FirstPage => GivenOnce(given, page.next, end))
<1> DEFINE tool == "search_workflows"
           key == KeyOf(tool)
           W == Wanted(tool, account, end)
           R == Rest(tool, W, position)
           G == page.given
           t == InOrder(G, key)
           given == before \o t
           Old(i) == \/ listed[i] = Gone \/ listed[i].time > end
                     \/ position # FirstPage /\ ~Beyond(tool, i, position)
<1>1. tool \in Tool /\ W \in SUBSET Item /\ Orders(key, Item) /\ \A i \in Item : key[i] \in Int \X Int
      BY WantedIs, KeysOrder DEF Tool
<1>2. G \in SUBSET R /\ R \in SUBSET W /\ R \in SUBSET Item
      BY <1>1 DEF Gives, Rest
<1>3. \A i \in R : listed[i] # Gone /\ listed[i].time <= end /\ (position = FirstPage \/ Beyond(tool, i, position))
      BY DEF Rest, Wanted, Found
<1>4. \A i \in R : ~Old(i)
  <2> TAKE i \in R
  <2>1. listed[i].time \in Int
        BY <1>2 DEF RowsTyped
  <2>2. QED  BY <1>3, <2>1
<1>5. before \in Seq(Item) /\ NoRepeats(before) /\ \A k \in 1 .. Len(before) : Old(before[k])
      BY DEF GivenOnce
<1>6. Orders(key, G)
      BY <1>1, <1>2, OrdersParts
<1>7. t \in Seq(Item) /\ \A k \in 1 .. Len(t) : t[k] \in G /\ PlaceOf(G, key, t[k]) = k - 1
  <2>1. t \in Seq(G) /\ Len(t) = Cardinality(G)
        BY <1>6, OrderIsSeq
  <2>2. \A k \in 1 .. Len(t) : t[k] \in G /\ PlaceOf(G, key, t[k]) = k - 1
        BY <1>6, <2>1, OrderPlaces
  <2>3. G \subseteq Item
        BY <1>2
  <2> HIDE DEF t, G
  <2>4. t \in Seq(Item)
        BY <2>1, <2>3, SeqMonotonic
  <2>5. QED  BY <2>2, <2>4
<1> HIDE DEF t
<1>8. /\ given \in Seq(Item) /\ Len(given) = Len(before) + Len(t) /\ DOMAIN given = 1 .. Len(given)
      /\ DOMAIN before = 1 .. Len(before)
      /\ \A k \in 1 .. Len(before) + Len(t) : given[k] = IF k <= Len(before) THEN before[k] ELSE t[k - Len(before)]
      /\ Len(before) \in Nat /\ Len(t) \in Nat
  <2>1. /\ given \in Seq(Item) /\ Len(given) = Len(before) + Len(t)
        /\ \A k \in 1 .. Len(before) + Len(t) : given[k] = IF k <= Len(before) THEN before[k] ELSE t[k - Len(before)]
        BY <1>5, <1>7, ConcatProperties, Zenon
  <2>2. Len(before) \in Nat /\ Len(t) \in Nat /\ DOMAIN before = 1 .. Len(before)
        BY <1>5, <1>7, LenProperties, Zenon
  <2>3. DOMAIN given = 1 .. Len(given)
        BY <2>1, LenProperties, Zenon
  <2>4. QED  BY <2>1, <2>2, <2>3
<1> HIDE DEF given, Old
<1>9. ASSUME NEW k \in 1 .. Len(given)
      PROVE  \/ k \in 1 .. Len(before) /\ given[k] = before[k] /\ Old(given[k])
             \/ k - Len(before) \in 1 .. Len(t) /\ given[k] = t[k - Len(before)] /\ given[k] \in G /\ k > Len(before)
  <2>1. CASE k <= Len(before)
    <3>1. k \in 1 .. Len(before) /\ given[k] = before[k]
          BY <1>8, <2>1
    <3>2. QED  BY <1>5, <3>1
  <2>2. CASE ~(k <= Len(before))
    <3>1. k - Len(before) \in 1 .. Len(t) /\ given[k] = t[k - Len(before)] /\ k > Len(before)
          BY <1>8, <2>2
    <3>2. QED  BY <1>7, <3>1
  <2>3. QED  BY <2>1, <2>2
<1>10. NoRepeats(given)
  <2> SUFFICES ASSUME NEW m \in 1 .. Len(given), NEW n \in 1 .. Len(given), given[m] = given[n] PROVE m = n
      BY <1>8 DEF NoRepeats
  <2>1. \A k \in 1 .. Len(given) : Old(given[k]) => given[k] \notin G
        BY <1>2, <1>4
  <2>2. CASE m \in 1 .. Len(before) /\ n \in 1 .. Len(before)
        BY <1>5, <1>8, <1>9, <2>1, <2>2 DEF NoRepeats
  <2>3. CASE m - Len(before) \in 1 .. Len(t) /\ n - Len(before) \in 1 .. Len(t)
    <3>1. given[m] = t[m - Len(before)] /\ given[n] = t[n - Len(before)]
          BY <1>8, <1>9, <2>3
    <3>2. m - Len(before) - 1 = n - Len(before) - 1
          BY <1>7, <2>3, <3>1
    <3>3. QED  BY <1>8, <3>2
  <2>4. QED  BY <1>8, <1>9, <2>1, <2>2, <2>3
<1>11. page.next # FirstPage => GivenOnce(given, page.next, end)
  <2> SUFFICES ASSUME page.next # FirstPage
               PROVE  \A k \in 1 .. Len(given) :
                        \/ listed[given[k]] = Gone \/ listed[given[k]].time > end
                        \/ page.next # FirstPage /\ ~Beyond(tool, given[k], page.next)
      BY <1>8, <1>10 DEF GivenOnce
  <2> TAKE k \in 1 .. Len(given)
  <2>1. given[k] \in Item /\ key[given[k]] \in Int \X Int
        BY <1>1, <1>8
  <2>2. CASE given[k] \in G
    <3>1. given[k] \notin Rest(tool, W, page.next) /\ given[k] \in W
          BY <1>2, <2>2 DEF Gives
    <3>2. QED  BY <3>1 DEF Rest
  <2>3. CASE Old(given[k])
    <3>1. CASE position # FirstPage /\ ~Beyond(tool, given[k], position)
      <4>1. Before(position, page.next) /\ position \in Int \X Int /\ page.next \in Int \X Int
            BY <3>1 DEF Gives, Position
      <4>2. ~Before(page.next, key[given[k]])
            BY <2>1, <3>1, <4>1, PairsOrdered DEF Beyond
      <4>3. QED  BY <4>2 DEF Beyond
    <3>2. QED  BY <2>3, <3>1 DEF Old
  <2>4. QED  BY <1>9, <2>2, <2>3
<1>12. QED  BY <1>10, <1>11 DEF given, t, G

LEMMA AnswersKeep ==
    ASSUME PagingInv, NEW tool \in Tool, NEW account \in Reader, NEW limit \in Limits, NEW position \in Position,
           NEW end \in Nat, end <= writes, NEW before, NEW began \in Nat, began <= writes, NEW snapshot,
           began = writes \/ tool = "inspect_worker" =>
                before = InOrder(Passed(tool, Wanted(tool, account, end), position), KeyOf(tool)),
           tool = "inspect_worker" => snapshot = listed,
           tool = "search_workflows" => GivenOnce(before, position, end),
           Answers(tool, account, limit, position, end, before, began, snapshot)
    PROVE  PagingInv'
<1> DEFINE page == PagesOf(tool, account, end, position, limit)
           W == Wanted(tool, account, end)
           key == KeyOf(tool)
           given == before \o InOrder(page.given, key)
<1>1. RowsTyped /\ writes \in Nat
      BY DEF PagingInv
<1>2. Gives(page, tool, W, position)
      BY <1>1, Given
<1>3. W \in SUBSET (IF tool = "payload" THEN Characters ELSE Item)
      BY <1>1, WantedIs
<1>4. began = writes \/ tool = "inspect_worker" =>
        /\ IsPrefix(given, InOrder(W, key))
        /\ page.next = FirstPage => given = InOrder(W, key)
        /\ page.next # FirstPage => given = InOrder(Passed(tool, W, page.next), key)
  <2> DEFINE s == InOrder(Passed(tool, W, position), key) \o InOrder(page.given, key)
  <2>1. began = writes \/ tool = "inspect_worker" => given = s
        OBVIOUS
  <2> HIDE DEF page, W
  <2>2. /\ IsPrefix(s, InOrder(W, key))
        /\ page.next = FirstPage => s = InOrder(W, key)
        /\ page.next # FirstPage => s = InOrder(Passed(tool, W, page.next), key)
        BY <1>1, <1>2, <1>3, PageAdds
  <2>3. QED  BY <2>1, <2>2
<1>5. tool = "search_workflows" => NoRepeats(given) /\ (page.next # FirstPage => GivenOnce(given, page.next, end))
  <2> SUFFICES ASSUME tool = "search_workflows"
               PROVE  NoRepeats(given) /\ (page.next # FirstPage => GivenOnce(given, page.next, end))
      OBVIOUS
  <2>1. Gives(page, "search_workflows", Wanted("search_workflows", account, end), position)
        BY <1>2
  <2> HIDE DEF page
  <2>2. QED  BY <1>1, <2>1, GivenOnceMore
<1>6. page.next # FirstPage => page.next \in Int \X Int
      BY <1>2 DEF Gives, Position
<1> HIDE DEF page, W, given
<1>7. /\ answer' = [tool |-> tool, account |-> account, limit |-> limit, end |-> end, began |-> began,
                    given |-> given, next |-> page.next]
      /\ held' = IF page.next = FirstPage THEN NoCursor
                 ELSE [tool |-> tool, limit |-> limit, secret |-> CursorSecret(account),
                       position |-> page.next, end |-> end, snapshot |-> snapshot,
                       before |-> given, began |-> began]
      /\ UNCHANGED <<listed, fields, visible, writes>>
      BY DEF Answers, page, given
<1>8. RowsTyped' /\ writes' = writes /\ writes' \in Nat
      BY <1>1, <1>7 DEF RowsTyped
<1>9. PagesAddUp'
  <2> SUFFICES /\ (began = writes \/ tool = "inspect_worker") =>
                    /\ IsPrefix(given, Whole(tool, account, end)')
                    /\ page.next = FirstPage => given = Whole(tool, account, end)'
               /\ tool = "search_workflows" => NoRepeats(given)
      BY <1>7 DEF PagesAddUp
  <2>1. Whole(tool, account, end)' = InOrder(W, key)
        BY <1>7 DEF Whole, W, Wanted, Found, KeyOf, Characters, InOrder, PlaceOf
  <2>2. QED  BY <1>4, <1>5, <2>1
<1>10. HeldInv'
  <2> SUFFICES ASSUME page.next # FirstPage PROVE HeldInv'
      BY <1>7 DEF HeldInv
  <2> DEFINE cursor == held'
  <2>1. /\ cursor.tool = tool /\ cursor.position = page.next /\ cursor.end = end /\ cursor.began = began
        /\ cursor.before = given /\ cursor.secret = CursorSecret(account) /\ cursor.snapshot = snapshot
        BY <1>7
  <2>2. ASSUME NEW a \in Reader, began = writes, CursorSecret(account) = CursorSecret(a)
        PROVE  given = InOrder(Passed(tool, Wanted(tool, a, end), page.next), KeyOf(tool))
    <3>1. a = account
          BY <2>2 DEF CursorSecret
    <3>2. QED  BY <1>4, <2>2, <3>1 DEF W
  <2>3. tool = "inspect_worker" =>
          given = InOrder(Passed(tool, {i \in CursorSecret(account)[2] : snapshot[i] # Gone}, page.next), KeyOf(tool))
    <3> SUFFICES ASSUME tool = "inspect_worker"
                 PROVE  given = InOrder(Passed(tool, {i \in CursorSecret(account)[2] : snapshot[i] # Gone}, page.next),
                                        KeyOf(tool))
        OBVIOUS
    <3>1. W = {i \in CursorSecret(account)[2] : snapshot[i] # Gone}
          BY DEF W, Wanted, Found, CursorSecret
    <3>2. QED  BY <1>4, <3>1
  <2>4. /\ tool \in Tool /\ page.next \in Int \X Int
        /\ end \in Nat /\ end <= writes /\ began \in Nat /\ began <= writes
        BY <1>6
  <2>5. tool = "search_workflows" => GivenOnce(given, page.next, end)
        BY <1>5
  <2>6. PICK c : c = held'
        OBVIOUS
  <2>7. /\ \A a \in Reader : Passed(c.tool, Wanted(c.tool, a, c.end), c.position)' = Passed(c.tool, Wanted(c.tool, a, c.end), c.position)
        /\ \A S : Passed(c.tool, S, c.position)' = Passed(c.tool, S, c.position)
        /\ KeyOf(c.tool)' = KeyOf(c.tool) /\ \A a \in Reader : CursorSecret(a)' = CursorSecret(a)
        /\ GivenOnce(c.before, c.position, c.end)' = GivenOnce(c.before, c.position, c.end)
        BY <1>7 DEF Passed, Rest, Beyond, Wanted, Found, KeyOf, Characters, CursorSecret, GivenOnce
  <2>8. QED  BY <1>7, <2>1, <2>2, <2>3, <2>4, <2>5, <2>6, <2>7 DEF HeldInv
<1>11. QED  BY <1>8, <1>9, <1>10 DEF PagingInv

LEMMA CallKeeps ==
    ASSUME PagingInv, NEW tool \in Tool, NEW account \in Reader, NEW limit \in Limits, Call(tool, account, limit)
    PROVE  PagingInv'
<1>1. Answers(tool, account, limit, FirstPage, writes, <<>>, writes, listed) /\ writes \in Nat
      BY DEF Call, PagingInv
<1>2. Passed(tool, Wanted(tool, account, writes), FirstPage) = {}
      BY DEF Passed, Rest
<1>3. <<>> = InOrder(Passed(tool, Wanted(tool, account, writes), FirstPage), KeyOf(tool))
      BY <1>2, NothingInOrder
<1>4. GivenOnce(<<>>, FirstPage, writes)
  <2>1. <<>> \in Seq(Item) /\ Len(<<>>) = 0
        BY EmptySeq, Zenon
  <2>2. QED  BY <2>1 DEF GivenOnce, NoRepeats
<1>5. FirstPage \in Position /\ writes <= writes
      BY <1>1 DEF Position
<1>6. QED  BY <1>1, <1>3, <1>4, <1>5, AnswersKeep

LEMMA ContinueKeeps ==
    ASSUME PagingInv, NEW tool \in Tool, NEW account \in Reader, NEW limit \in Limits, Continue(tool, account, limit)
    PROVE  PagingInv'
<1>1. /\ held # NoCursor /\ held.secret = CursorSecret(account) /\ held.tool = tool
      /\ tool = "inspect_worker" => held.snapshot = listed
      /\ Answers(tool, account, limit, held.position, held.end, held.before, held.began, held.snapshot)
      BY DEF Continue, Resolves
<1>2. /\ held.position \in Position /\ held.end \in Nat /\ held.end <= writes
      /\ held.began \in Nat /\ held.began <= writes
      BY <1>1 DEF PagingInv, HeldInv, Position
<1>3. held.began = writes => held.before = InOrder(Passed(tool, Wanted(tool, account, held.end), held.position), KeyOf(tool))
      BY <1>1 DEF PagingInv, HeldInv
<1>4. tool = "inspect_worker" =>
        held.before = InOrder(Passed(tool, Wanted(tool, account, held.end), held.position), KeyOf(tool))
  <2> SUFFICES ASSUME tool = "inspect_worker"
               PROVE  held.before = InOrder(Passed(tool, Wanted(tool, account, held.end), held.position), KeyOf(tool))
      OBVIOUS
  <2>1. Wanted(tool, account, held.end) = {i \in held.secret[2] : held.snapshot[i] # Gone}
        BY <1>1 DEF Wanted, Found, CursorSecret
  <2>2. held.before = InOrder(Passed(tool, {i \in held.secret[2] : held.snapshot[i] # Gone}, held.position), KeyOf(tool))
        BY <1>1 DEF PagingInv, HeldInv
  <2>3. QED  BY <2>1, <2>2
<1>5. tool = "search_workflows" => GivenOnce(held.before, held.position, held.end)
      BY <1>1 DEF PagingInv, HeldInv
<1>6. QED  BY <1>1, <1>2, <1>3, <1>4, <1>5, AnswersKeep

(* A write leaves every cursor behind its time.                              *)
LEMMA WrittenKeeps ==
    ASSUME PagingInv, Written, RowsTyped',
           \A i \in Item : \/ listed'[i] = Gone \/ listed'[i].time = writes + 1
                           \/ /\ listed[i] # Gone /\ listed'[i].time = listed[i].time
    PROVE  PagingInv'
<1>1. writes \in Nat /\ writes' = writes + 1 /\ writes' \in Nat /\ answer' = NoAnswer /\ held' = held
      BY DEF PagingInv, Written
<1>2. PagesAddUp'
      BY <1>1 DEF PagesAddUp
<1>3. ASSUME held # NoCursor PROVE HeldInv'
  <2>1. /\ held.tool \in Tool /\ held.position \in Int \X Int
        /\ held.end \in Nat /\ held.end <= writes /\ held.began \in Nat /\ held.began <= writes
        BY <1>3 DEF PagingInv, HeldInv
  <2>2. held.end <= writes' /\ held.began <= writes' /\ held.began # writes'
        BY <1>1, <2>1
  <2>3. ASSUME held.tool = "inspect_worker"
        PROVE  held.before = InOrder(Passed(held.tool, {i \in held.secret[2] : held.snapshot[i] # Gone}, held.position),
                                     KeyOf(held.tool))'
    <3>1. held.before = InOrder(Passed(held.tool, {i \in held.secret[2] : held.snapshot[i] # Gone}, held.position),
                                KeyOf(held.tool))
          BY <1>3, <2>3 DEF PagingInv, HeldInv
    <3>2. KeyOf("inspect_worker") = [i \in Item |-> <<0, i>>]
          BY DEF KeyOf
    <3>3. KeyOf("inspect_worker")' = [i \in Item |-> <<0, i>>]
          BY DEF KeyOf
    <3>4. QED  BY <1>1, <2>3, <3>1, <3>2, <3>3 DEF Passed, Rest, Beyond
  <2>4. ASSUME held.tool = "search_workflows"
        PROVE  GivenOnce(held.before, held.position, held.end)'
    <3> DEFINE s == held.before
    <3>1. GivenOnce(s, held.position, held.end)
          BY <1>3, <2>4 DEF PagingInv, HeldInv
    <3>2. s \in Seq(Item) /\ NoRepeats(s)
          BY <3>1 DEF GivenOnce
    <3>3. ASSUME NEW k \in 1 .. Len(s)
          PROVE  \/ listed'[s[k]] = Gone \/ listed'[s[k]].time > held.end
                 \/ held.position # FirstPage /\ ~Beyond("search_workflows", s[k], held.position)'
      <4>1. PICK i \in Item : i = s[k]
            BY <3>2
      <4>2. \/ listed[i] = Gone \/ listed[i].time > held.end
            \/ held.position # FirstPage /\ ~Beyond("search_workflows", i, held.position)
            BY <3>1, <4>1 DEF GivenOnce
      <4>3. CASE listed'[i] = Gone \/ listed'[i].time = writes + 1
            BY <1>1, <2>1, <4>1, <4>3
      <4>4. CASE listed[i] # Gone /\ listed'[i].time = listed[i].time
        <5>1. KeyOf("search_workflows")[i] = <<-listed[i].time, i>> /\ KeyOf("search_workflows")'[i] = <<-listed'[i].time, i>>
              BY DEF KeyOf
        <5>2. QED  BY <1>1, <4>1, <4>2, <4>4, <5>1 DEF Beyond
      <4>5. QED  BY <4>3, <4>4
    <3>4. QED  BY <1>1, <3>2, <3>3 DEF GivenOnce
  <2>5. QED  BY <1>1, <2>1, <2>2, <2>3, <2>4 DEF HeldInv
<1>4. held = NoCursor => HeldInv'
      BY <1>1 DEF HeldInv
<1>5. QED  BY <1>1, <1>2, <1>3, <1>4 DEF PagingInv

LEMMA PagingInitKeeps == McpInit => PagingInv
<1> SUFFICES ASSUME McpInit PROVE PagingInv
    OBVIOUS
<1>1. fields \in [1 .. 2 -> NoField .. MaxLength] /\ Len(fields) = 2
      BY McpAssumption DEF McpInit, NoField
<1>2. QED  BY <1>1 DEF McpInit, PagingInv, RowsTyped, HeldInv, PagesAddUp

LEMMA PagingStep == PagingInv /\ [McpNext]_mcpVars => PagingInv'
<1> SUFFICES ASSUME PagingInv, [McpNext]_mcpVars PROVE PagingInv'
    OBVIOUS
<1>1. RowsTyped /\ writes \in Nat
      BY DEF PagingInv
<1>2. ASSUME NEW tool \in Tool, NEW account \in Reader, NEW limit \in Limits,
             Call(tool, account, limit) \/ Continue(tool, account, limit)
      PROVE  PagingInv'
      BY <1>2, CallKeeps, ContinueKeeps
<1>3. CASE CursorExpires
  <2>1. HeldInv' /\ PagesAddUp'
        BY <1>3 DEF CursorExpires, HeldInv, PagesAddUp
  <2>2. QED  BY <1>1, <1>3, <2>1 DEF CursorExpires, PagingInv, RowsTyped
<1>4. ASSUME NEW i \in Item, Activity(i) PROVE PagingInv'
  <2>1. Written /\ listed' = [listed EXCEPT ![i].time = writes + 1] /\ UNCHANGED <<fields, visible>>
        BY <1>4 DEF Activity
  <2>2. \A j \in Item : IF j = i THEN listed'[j] = [listed[j] EXCEPT !.time = writes + 1] ELSE listed'[j] = listed[j]
        BY <1>1, <2>1 DEF RowsTyped
  <2>3. RowsTyped'
        BY <1>1, <2>1 DEF RowsTyped
  <2>4. \A j \in Item : listed'[j] = Gone \/ listed'[j].time = writes + 1 \/ (listed[j] # Gone /\ listed'[j].time = listed[j].time)
        BY <1>1, <2>2 DEF RowsTyped
  <2>5. QED  BY <2>1, <2>3, <2>4, WrittenKeeps
<1>5. ASSUME NEW i \in Item, TurnsOver(i) PROVE PagingInv'
  <2>1. /\ Written /\ listed[i] # Gone /\ UNCHANGED <<fields, visible>>
        /\ listed' \in {[listed EXCEPT ![i].offline = ~@], [listed EXCEPT ![i] = Gone]}
        BY <1>5 DEF TurnsOver
  <2>2. Gone \in [time : Int, offline : BOOLEAN]
        BY DEF Gone, NoField
  <2>3. RowsTyped'
    <3>1. CASE listed' = [listed EXCEPT ![i].offline = ~@]
          BY <1>1, <2>1, <3>1 DEF RowsTyped
    <3>2. CASE listed' = [listed EXCEPT ![i] = Gone]
          BY <1>1, <2>1, <2>2, <3>2 DEF RowsTyped
    <3>3. QED  BY <2>1, <3>1, <3>2
  <2>4. \A j \in Item : listed'[j] = Gone \/ listed'[j].time = writes + 1 \/ (listed[j] # Gone /\ listed'[j].time = listed[j].time)
    <3>1. CASE listed' = [listed EXCEPT ![i].offline = ~@]
      <4>1. \A j \in Item : listed'[j] = IF j = i THEN [listed[j] EXCEPT !.offline = ~@] ELSE listed[j]
            BY <1>1, <3>1 DEF RowsTyped
      <4>2. \A j \in Item : listed[j] \in [time : Int, offline : BOOLEAN]
            BY <1>1, <2>2 DEF RowsTyped
      <4>3. \A j \in Item : listed'[j].time = listed[j].time
            BY <4>1, <4>2
      <4>4. QED  BY <2>1, <4>1, <4>3
    <3>2. CASE listed' = [listed EXCEPT ![i] = Gone]
          BY <1>1, <3>2 DEF RowsTyped
    <3>3. QED  BY <2>1, <3>1, <3>2
  <2>5. QED  BY <2>1, <2>3, <2>4, WrittenKeeps
<1>6. ASSUME NEW f \in DOMAIN fields, NEW length \in NoField .. MaxLength, Rewrites(f, length) PROVE PagingInv'
  <2>1. Written /\ fields' = [fields EXCEPT ![f] = length] /\ UNCHANGED <<listed, visible>>
        BY <1>6 DEF Rewrites
  <2>2. RowsTyped'
        BY <1>1, <2>1 DEF RowsTyped
  <2>3. QED  BY <1>1, <2>1, <2>2, WrittenKeeps DEF RowsTyped
<1>7. ASSUME NEW account \in Reader, NEW items \in SUBSET Item, PolicyTurns(account, items) PROVE PagingInv'
  <2>1. Written /\ visible' = [visible EXCEPT ![account] = items] /\ UNCHANGED <<listed, fields>>
        BY <1>7 DEF PolicyTurns
  <2>2. RowsTyped'
        BY <1>1, <2>1 DEF RowsTyped
  <2>3. QED  BY <1>1, <2>1, <2>2, WrittenKeeps DEF RowsTyped
<1>8. CASE UNCHANGED mcpVars
  <2>1. UNCHANGED <<listed, fields, visible, writes, held, answer>>
        BY <1>8 DEF mcpVars
  <2>2. RowsTyped' /\ writes' \in Nat
        BY <1>1, <2>1 DEF RowsTyped
  <2>3. HeldInv'
    <3>1. PICK c : c = held'
          OBVIOUS
    <3>2. /\ \A a \in Reader : Passed(c.tool, Wanted(c.tool, a, c.end), c.position)' = Passed(c.tool, Wanted(c.tool, a, c.end), c.position)
          /\ \A S : Passed(c.tool, S, c.position)' = Passed(c.tool, S, c.position)
          /\ KeyOf(c.tool)' = KeyOf(c.tool) /\ \A a \in Reader : CursorSecret(a)' = CursorSecret(a)
          /\ GivenOnce(c.before, c.position, c.end)' = GivenOnce(c.before, c.position, c.end)
          BY <2>1 DEF Passed, Rest, Beyond, Wanted, Found, KeyOf, Characters, CursorSecret, GivenOnce
    <3>3. QED  BY <2>1, <3>1, <3>2 DEF PagingInv, HeldInv
  <2>4. PagesAddUp'
        BY <2>1 DEF PagingInv, PagesAddUp, Whole, Wanted, Found, Characters, KeyOf
  <2>5. QED  BY <2>2, <2>3, <2>4 DEF PagingInv
<1>9. QED  BY <1>2, <1>3, <1>4, <1>5, <1>6, <1>7, <1>8 DEF McpNext

(* Whoever follows the cursors of a list gets every row of it once and in    *)
(* order, if nothing is written between the calls, and no workflow twice,    *)
(* whatever is (common.ts:124-143, 206-225): for any rows, sizes, limits,    *)
(* budget, scan and chunk.                                                   *)
THEOREM PagesAlwaysAddUp == McpSpec => []PagesAddUp
<1>1. PagingInv => PagesAddUp
      BY DEF PagingInv
<1>2. QED  BY <1>1, PagingInitKeeps, PagingStep, PTL DEF McpSpec

-----------------------------------------------------------------------------
(* A sum over a finite set is what its equation says, in any order.          *)
Sums(S, f, g) ==
    g = [s \in SUBSET S |-> IF s = {} THEN 0 ELSE f[CHOOSE x \in s : TRUE] + g[s \ {CHOOSE x \in s : TRUE}]]

LEMMA SumFollows ==
    ASSUME NEW S, IsFiniteSet(S), NEW f, NEW g, Sums(S, f, g)
    PROVE  SumFunctionOnSet(f, S) = g[S]
<1> DEFINE step(h) == [s \in SUBSET S |-> IF s = {} THEN 0 ELSE f[CHOOSE x \in s : TRUE] + h[s \ {CHOOSE x \in s : TRUE}]]
           equation(h) == h = step(h)
           iter == CHOOSE h : equation(h)
<1>1. SumFunctionOnSet(f, S) = iter[S]
      BY DEF SumFunctionOnSet, FoldFunctionOnSet, MapThenFoldSet
<1>2. equation(g)
      BY DEF Sums
<1> HIDE DEF equation
<1>3. equation(iter)
      BY <1>2
<1> HIDE DEF iter
<1> USE DEF equation
<1>4. \A s \in SUBSET S :
        /\ iter[s] = IF s = {} THEN 0 ELSE f[CHOOSE x \in s : TRUE] + iter[s \ {CHOOSE x \in s : TRUE}]
        /\ g[s] = IF s = {} THEN 0 ELSE f[CHOOSE x \in s : TRUE] + g[s \ {CHOOSE x \in s : TRUE}]
      BY <1>2, <1>3
<1> DEFINE wrong == {s \in SUBSET S : iter[s] # g[s]}
<1>5. ASSUME wrong # {} PROVE FALSE
  <2>1. wrong \subseteq FiniteSubsetsOf(S)
        BY FS_Subset DEF FiniteSubsetsOf
  <2>2. PICK s \in wrong : \A t \in wrong : ~(<<t, s>> \in StrictSubsetOrdering(S))
    <3> HIDE DEF wrong
    <3>1. QED  BY <1>5, <2>1, FS_StrictSubsetOrderingWellFounded, WFMin
  <2> DEFINE x == CHOOSE x \in s : TRUE
  <2>3. s # {}
        BY <1>4, <2>2
  <2>4. x \in s /\ s \ {x} \in SUBSET S
        BY <2>2, <2>3
  <2>5. <<s \ {x}, s>> \in StrictSubsetOrdering(S)
        BY <2>2, <2>4 DEF StrictSubsetOrdering
  <2>6. iter[s \ {x}] = g[s \ {x}]
        BY <2>2, <2>4, <2>5
  <2>7. iter[s] = f[x] + iter[s \ {x}] /\ g[s] = f[x] + g[s \ {x}]
        BY <1>4, <2>2, <2>3
  <2>8. QED  BY <2>2, <2>6, <2>7
<1>6. iter[S] = g[S]
      BY <1>5
<1>7. QED  BY <1>1, <1>6

(* Of the sizes of sets that have nothing in common, it is the size of what  *)
(* they hold together.                                                       *)
LEMMA SumIsCount ==
    ASSUME NEW W, IsFiniteSet(W), NEW S, IsFiniteSet(S), NEW G \in [S -> SUBSET W],
           \A k, l \in S : k # l => G[k] \cap G[l] = {},
           NEW f, \A k \in S : f[k] = Cardinality(G[k])
    PROVE  SumFunctionOnSet(f, S) = Cardinality(UNION {G[k] : k \in S})
<1> DEFINE U(T) == UNION {G[k] : k \in T}
           g == [s \in SUBSET S |-> Cardinality(U(s))]
           rest(s) == s \ {CHOOSE x \in s : TRUE}
           first(s) == CHOOSE x \in s : TRUE
<1>1. ASSUME NEW V \in SUBSET W PROVE IsFiniteSet(V) /\ Cardinality(V) \in Nat
  <2>1. IsFiniteSet(V)
        BY FS_Subset
  <2>2. QED  BY <2>1, FS_CardinalityType
<1>2. \A s \in SUBSET S : U(s) \in SUBSET W
      OBVIOUS
<1>3. Cardinality(U({})) = 0
  <2>1. U({}) = {}
        OBVIOUS
  <2>2. QED  BY <2>1, FS_EmptySet
<1>4. ASSUME NEW s \in SUBSET S, s # {}
      PROVE  Cardinality(U(s)) = f[first(s)] + g[rest(s)]
  <2>1. first(s) \in s /\ first(s) \in S /\ rest(s) \in SUBSET S
        BY <1>4
  <2> DEFINE A == G[first(s)]
             B == U(rest(s))
  <2>2. A \in SUBSET W /\ B \in SUBSET W
        BY <1>2, <2>1
  <2>3. U(s) = A \cup B
        BY <2>1
  <2>4. A \cap B = {}
        BY <2>1
  <2>5. f[first(s)] = Cardinality(A) /\ g[rest(s)] = Cardinality(B)
        BY <2>1
  <2> HIDE DEF A, B, U, g, first, rest
  <2>6. /\ IsFiniteSet(A) /\ IsFiniteSet(B) /\ Cardinality(A) \in Nat /\ Cardinality(B) \in Nat
        BY <1>1, <2>2
  <2>7. Cardinality(A \cup B) = Cardinality(A) + Cardinality(B) - Cardinality(A \cap B)
        BY <2>6, FS_Union
  <2>8. Cardinality(A \cap B) = 0
        BY <2>4, FS_EmptySet
  <2>9. QED  BY <2>3, <2>5, <2>6, <2>7, <2>8
<1>5. Sums(S, f, g)
  <2> DEFINE rhs(s) == IF s = {} THEN 0 ELSE f[CHOOSE x \in s : TRUE] + g[s \ {CHOOSE x \in s : TRUE}]
             lhs(s) == Cardinality(U(s))
  <2>1. \A s \in SUBSET S : lhs(s) = rhs(s)
    <3> TAKE s \in SUBSET S
    <3>1. CASE s = {}
          BY <1>3, <3>1
    <3>2. CASE s # {}
      <4>1. Cardinality(U(s)) = f[first(s)] + g[rest(s)]
            BY <1>4, <3>2
      <4> HIDE DEF U, g
      <4>2. QED  BY <3>2, <4>1
    <3>3. QED  BY <3>1, <3>2
  <2>2. g = [s \in SUBSET S |-> lhs(s)]
        OBVIOUS
  <2> HIDE DEF lhs, rhs
  <2>3. g = [s \in SUBSET S |-> rhs(s)]
        BY <2>1, <2>2
  <2>4. QED  BY <2>3 DEF rhs, Sums
<1>6. g[S] = Cardinality(U(S))
      OBVIOUS
<1> HIDE DEF g
<1>7. SumFunctionOnSet(f, S) = g[S]
      BY <1>5, SumFollows
<1>8. QED  BY <1>6, <1>7

-----------------------------------------------------------------------------
(* Rows in order by three columns.                                           *)
LEMMA TripleBefore ==
    ASSUME NEW k \in Int \X Int \X Int, NEW l \in Int \X Int \X Int
    PROVE  Before(k, l) <=> \/ k[1] < l[1]
                            \/ k[1] = l[1] /\ k[2] < l[2]
                            \/ k[1] = l[1] /\ k[2] = l[2] /\ k[3] < l[3]
<1>1. DOMAIN k = {1, 2, 3}
      OBVIOUS
<1>2. Before(k, l) <=> \/ k[1] < l[1] /\ \A m \in 1 .. 1 - 1 : k[m] = l[m]
                       \/ k[2] < l[2] /\ \A m \in 1 .. 2 - 1 : k[m] = l[m]
                       \/ k[3] < l[3] /\ \A m \in 1 .. 3 - 1 : k[m] = l[m]
      BY <1>1 DEF Before
<1>3. /\ \A m \in 1 .. 1 - 1 : k[m] = l[m]
      /\ (\A m \in 1 .. 2 - 1 : k[m] = l[m]) <=> k[1] = l[1]
      /\ (\A m \in 1 .. 3 - 1 : k[m] = l[m]) <=> k[1] = l[1] /\ k[2] = l[2]
      OBVIOUS
<1>4. QED  BY <1>2, <1>3

LEMMA TriplesOrdered ==
    ASSUME NEW k \in Int \X Int \X Int, NEW l \in Int \X Int \X Int, NEW m \in Int \X Int \X Int
    PROVE  /\ ~Before(k, k)
           /\ k # l => Before(k, l) \/ Before(l, k)
           /\ Before(k, l) /\ Before(l, m) => Before(k, m)
<1>1. k = <<k[1], k[2], k[3]>> /\ l = <<l[1], l[2], l[3]>>
      OBVIOUS
<1>2. /\ k[1] \in Int /\ k[2] \in Int /\ k[3] \in Int /\ l[1] \in Int /\ l[2] \in Int /\ l[3] \in Int
      /\ m[1] \in Int /\ m[2] \in Int /\ m[3] \in Int
      OBVIOUS
<1>3. k # l => k[1] # l[1] \/ k[2] # l[2] \/ k[3] # l[3]
      BY <1>1
<1>4. QED  BY <1>2, <1>3, TripleBefore

LEMMA TriplesOrder ==
    ASSUME NEW S, NEW key, IsFiniteSet(S), \A i \in S : key[i] \in Int \X Int \X Int,
           \A i, j \in S : key[i] = key[j] => i = j
    PROVE  Orders(key, S)
<1>1. \A i \in S : ~Earlier(key, i, i)
      BY TriplesOrdered DEF Earlier
<1>2. \A i, j \in S : i # j => Earlier(key, i, j) \/ Earlier(key, j, i)
      BY TriplesOrdered DEF Earlier
<1>3. \A i, j, k \in S : Earlier(key, i, j) /\ Earlier(key, j, k) => Earlier(key, i, k)
      BY TriplesOrdered DEF Earlier
<1>4. QED  BY <1>1, <1>2, <1>3 DEF Orders

LEMMA OneBefore == ASSUME NEW i \in Int, NEW j \in Int PROVE Before(<<i>>, <<j>>) <=> i < j
<1> DEFINE k == <<i>>
           l == <<j>>
<1>1. DOMAIN k = {1} /\ k[1] = i /\ l[1] = j
      OBVIOUS
<1> HIDE DEF k, l
<1>2. Before(k, l) <=> k[1] < l[1] /\ \A m \in 1 .. 1 - 1 : k[m] = l[m]
      BY <1>1 DEF Before
<1>3. QED  BY <1>1, <1>2 DEF k, l

LEMMA IdsOrder == ASSUME NEW S \in SUBSET Member PROVE Orders(ById, S)
<1>1. IsFiniteSet(S) /\ S \in SUBSET Nat
      BY InspectionsAssumption, FS_Subset
<1>2. \A i, j \in S : Earlier(ById, i, j) <=> i < j
  <2> TAKE i, j \in S
  <2>1. ById[i] = <<i>> /\ ById[j] = <<j>> /\ i \in Int /\ j \in Int
        BY <1>1 DEF ById
  <2>2. QED  BY <2>1, OneBefore DEF Earlier
<1>3. QED  BY <1>1, <1>2 DEF Orders

(* A list that is cut has as many rows as it may, and the others are later.  *)
CutTo(s, S, key, n) ==
    /\ s \in Seq(S) /\ Cardinality(S) \in Nat
    /\ Len(s) = IF Cardinality(S) < n THEN Cardinality(S) ELSE n
    /\ \A k, l \in 1 .. Len(s) : s[k] = s[l] => k = l
    /\ Cardinality(S) <= n => \A i \in S : \E k \in 1 .. Len(s) : s[k] = i
    /\ Len(s) > 0 => \A i \in S : i = s[1] \/ Earlier(key, s[1], i)

LEMMA LimitedIs ==
    ASSUME NEW S, NEW key, Orders(key, S), NEW n \in Nat
    PROVE  CutTo(Limited(S, key, n), S, key, n)
<1> DEFINE F == FirstOf(S, key, n)
           s == InOrder(F, key)
<1>1. /\ F \in SUBSET S /\ \A i \in F, j \in S \ F : Earlier(key, i, j)
      /\ Cardinality(F) = IF Cardinality(S) < n THEN Cardinality(S) ELSE n
      /\ Cardinality(S) <= n => F = S
      BY FirstIsCut
<1> HIDE DEF F
<1>2. Orders(key, F)
      BY <1>1, OrdersParts
<1>3. /\ s \in Seq(F) /\ Len(s) = Cardinality(F) /\ Cardinality(F) \in Nat
      /\ \A k \in 1 .. Len(s) : s[k] \in F /\ PlaceOf(F, key, s[k]) = k - 1
      /\ \A i \in F : PlaceOf(F, key, i) + 1 \in 1 .. Len(s) /\ s[PlaceOf(F, key, i) + 1] = i
      BY <1>2, OrderIsSeq, OrderPlaces
<1>4. Cardinality(S) \in Nat
      BY FS_CardinalityType DEF Orders
<1> HIDE DEF s
<1>5. \A k, l \in 1 .. Len(s) : s[k] = s[l] => k = l
  <2> TAKE k, l \in 1 .. Len(s)
  <2>1. PlaceOf(F, key, s[k]) = k - 1 /\ PlaceOf(F, key, s[l]) = l - 1
        BY <1>3
  <2>2. QED  BY <1>3, <2>1
<1>6. ASSUME Len(s) > 0, NEW i \in S PROVE i = s[1] \/ Earlier(key, s[1], i)
  <2>1. 1 \in 1 .. Len(s) /\ s[1] \in F /\ PlaceOf(F, key, s[1]) = 1 - 1
        BY <1>3, <1>6
  <2>2. CASE i \in F
    <3>1. Earlier(key, i, s[1]) => PlaceOf(F, key, i) \in Nat /\ PlaceOf(F, key, i) < PlaceOf(F, key, s[1])
          BY <1>2, <2>1, <2>2, PlaceRises
    <3>2. ~Earlier(key, i, s[1])
          BY <2>1, <3>1
    <3>3. QED  BY <1>2, <2>1, <2>2, <3>2 DEF Orders
  <2>3. CASE i \notin F
        BY <1>1, <2>1, <2>3
  <2>4. QED  BY <2>2, <2>3
<1>7. Limited(S, key, n) = s
      BY DEF Limited, s, F
<1>8. s \in Seq(S)
      BY <1>1, <1>3
<1>9. Cardinality(S) <= n => \A i \in S : \E k \in 1 .. Len(s) : s[k] = i
      BY <1>1, <1>3
<1>10. QED  BY <1>1, <1>3, <1>4, <1>5, <1>6, <1>7, <1>8, <1>9 DEF CutTo

-----------------------------------------------------------------------------
(* The rows of a workflow.                                                   *)
MembersTyped == members \in [Member -> Reports \cup {NoRow}]

LEMMA ThereIs ==
    ASSUME MembersTyped
    PROVE  /\ There \in SUBSET Member /\ Erroneous \in SUBSET There /\ Unfinished \in SUBSET There
           /\ ObservedRunning \in SUBSET There
           /\ \A t \in There : /\ t \in Nat /\ members[t].name \in Nat /\ members[t].error \in BOOLEAN
                               /\ members[t].seen \in Int /\ members[t].last \in Int
<1>1. \A t \in There : members[t] \in Reports /\ t \in Nat
      BY InspectionsAssumption DEF MembersTyped, There
<1>2. \A r \in Reports : r.name \in Nat /\ r.error \in BOOLEAN /\ r.seen \in Int /\ r.last \in Int
      BY InspectionsAssumption
<1>3. QED  BY <1>1, <1>2 DEF There, Erroneous, Unfinished, ObservedRunning

LEMMA PartsAreFinite ==
    ASSUME MembersTyped, NEW S \in SUBSET There
    PROVE  IsFiniteSet(S) /\ Cardinality(S) \in Nat /\ (Cardinality(S) = 0 <=> S = {}) /\ Cardinality(S) <= Cardinality(There)
<1>1. IsFiniteSet(There) /\ IsFiniteSet(S)
      BY ThereIs, InspectionsAssumption, FS_Subset
<1>2. Cardinality(S) \in Nat /\ Cardinality(S) <= Cardinality(There)
      BY <1>1, FS_CardinalityType, FS_Subset
<1>3. Cardinality(S) = 0 <=> S = {}
      BY <1>1, FS_EmptySet
<1>4. QED  BY <1>1, <1>2, <1>3

LEMMA ProblemsOrder == ASSUME MembersTyped PROVE Orders(ProblemRank, Erroneous)
<1>1. IsFiniteSet(Erroneous) /\ \A t \in Erroneous : t \in There /\ t \in Nat /\ members[t].last \in Int
      BY ThereIs, PartsAreFinite
<1>2. \A t \in Erroneous :
        ProblemRank[t] = <<IF members[t].state = "FAILURE" THEN 0 ELSE IF t \in Unfinished THEN 1 ELSE 2, -members[t].last, t>>
      BY <1>1 DEF ProblemRank
<1>3. \A t \in Erroneous : ProblemRank[t] \in Int \X Int \X Int /\ ProblemRank[t][3] = t
      BY <1>1, <1>2
<1>4. \A t, u \in Erroneous : ProblemRank[t] = ProblemRank[u] => t = u
      BY <1>3
<1>5. QED  BY <1>1, <1>3, <1>4, TriplesOrder

LEMMA NamesOrder ==
    ASSUME MembersTyped
    PROVE  Orders(NameRank, NamesThere) /\ Cardinality(NamesThere) \in Nat
<1>1. IsFiniteSet(NamesThere)
  <2>1. IsFiniteSet(There)
        BY PartsAreFinite
  <2> DEFINE f == [t \in There |-> members[t].name]
  <2>2. f \in Surjection(There, NamesThere)
        BY DEF Surjection, NamesThere
  <2>3. QED  BY <2>1, <2>2, FS_Surjection
<1>2. \A n \in NamesThere : n \in Nat /\ Cardinality(Named(n)) \in Nat
  <2>1. \A n \in NamesThere : n \in Nat
        BY ThereIs DEF NamesThere
  <2>2. \A n : Cardinality(Named(n)) \in Nat
        BY PartsAreFinite DEF Named
  <2>3. QED  BY <2>1, <2>2
<1>3. \A n \in NamesThere : \E p \in {0, 1, 2} : NameRank[n] = <<-p, -Cardinality(Named(n)), n>>
      BY DEF NameRank
<1>4. \A n \in NamesThere : NameRank[n] \in Int \X Int \X Int /\ NameRank[n][3] = n
      BY <1>2, <1>3
<1>5. \A n, m \in NamesThere : NameRank[n] = NameRank[m] => n = m
      BY <1>4
<1>6. QED  BY <1>1, <1>4, <1>5, TriplesOrder, FS_CardinalityType

(* Names that are shown and names that are left out are all the names; where *)
(* none is left out, the tasks of each are all the tasks.                    *)
LEMMA GroupsAddUp ==
    ASSUME MembersTyped
    PROVE  /\ Len(Grouped) = IF Cardinality(NamesThere) < Names THEN Cardinality(NamesThere) ELSE Names
           /\ Cardinality(NamesThere) <= Names =>
                  SumOf([k \in DOMAIN Grouped |-> Grouped[k].count]) = Cardinality(There)
<1> DEFINE names == Limited(NamesThere, NameRank, Names)
           G == [k \in 1 .. Len(names) |-> Named(names[k])]
           counts == [k \in DOMAIN Grouped |-> Grouped[k].count]
           f == [k \in DOMAIN counts |-> Positive(counts[k])]
<1>1. /\ names \in Seq(NamesThere) /\ Cardinality(NamesThere) \in Nat
      /\ Len(names) = IF Cardinality(NamesThere) < Names THEN Cardinality(NamesThere) ELSE Names
      /\ \A k, l \in 1 .. Len(names) : names[k] = names[l] => k = l
      /\ Cardinality(NamesThere) <= Names => \A n \in NamesThere : \E k \in 1 .. Len(names) : names[k] = n
  <2>1. CutTo(names, NamesThere, NameRank, Names)
        BY NamesOrder, LimitedIs, InspectionsAssumption
  <2> HIDE DEF names
  <2>2. QED  BY <2>1 DEF CutTo
<1> HIDE DEF names
<1>2. Grouped = [k \in 1 .. Len(names) |-> [name |-> names[k], count |-> Cardinality(Named(names[k]))]]
      BY <1>1 DEF Grouped, names
<1>3. Len(Grouped) = Len(names) /\ DOMAIN Grouped = 1 .. Len(names)
      BY <1>1, <1>2
<1>4. IsFiniteSet(There) /\ \A n : Cardinality(Named(n)) \in Nat /\ Named(n) \in SUBSET There
      BY PartsAreFinite DEF Named
<1>5. G \in [1 .. Len(names) -> SUBSET There]
      BY <1>4
<1>6. \A k, l \in 1 .. Len(names) : k # l => G[k] \cap G[l] = {}
      BY <1>1 DEF Named
<1>7. DOMAIN f = 1 .. Len(names) /\ \A k \in 1 .. Len(names) : f[k] = Cardinality(G[k])
      BY <1>2, <1>3, <1>4 DEF Positive
<1>8. IsFiniteSet(1 .. Len(names))
  <2>1. Len(names) \in Int /\ 1 \in Int
        BY <1>1
  <2>2. QED  BY <2>1, FS_Interval
<1> HIDE DEF f, G
<1>9. SumFunctionOnSet(f, 1 .. Len(names)) = Cardinality(UNION {G[k] : k \in 1 .. Len(names)})
      BY <1>4, <1>5, <1>6, <1>7, <1>8, SumIsCount
<1>10. SumOf(counts) = Cardinality(UNION {G[k] : k \in 1 .. Len(names)})
  <2>1. SumOf(counts) = SumFunction(f)
        BY DEF SumOf, f
  <2>2. QED  BY <1>7, <1>9, <2>1 DEF SumFunction
<1>11. ASSUME Cardinality(NamesThere) <= Names PROVE UNION {G[k] : k \in 1 .. Len(names)} = There
  <2>1. \A t \in There : \E k \in 1 .. Len(names) : t \in G[k]
    <3> TAKE t \in There
    <3>1. members[t].name \in NamesThere
          BY DEF NamesThere
    <3>2. PICK k \in 1 .. Len(names) : names[k] = members[t].name
          BY <1>1, <1>11, <3>1
    <3>3. QED  BY <3>2 DEF G, Named
  <2>2. QED  BY <1>5, <2>1
<1>12. QED  BY <1>1, <1>3, <1>10, <1>11

LEMMA SummaryAddsUp ==
    ASSUME MembersTyped, NEW g,
           g["aggregate"] = Aggregated, g["groups"] = Grouped, g["names"] = Cardinality(NamesThere)
    PROVE  /\ WorkflowAddsUp(SummaryOf(g))
           /\ SummaryOf(g).errors = Cardinality(Erroneous)
           /\ SummaryOf(g).status = IF There = {} THEN "none" ELSE IF Unfinished # {} THEN "running" ELSE "finished"
<1>1. /\ Cardinality(There) \in Nat /\ Cardinality(Unfinished) \in Nat
      /\ Cardinality(There) = 0 <=> There = {}
      /\ Cardinality(Unfinished) = 0 <=> Unfinished = {}
      BY ThereIs, PartsAreFinite
<1>2. /\ SummaryOf(g).total = Cardinality(There) /\ SummaryOf(g).errors = Cardinality(Erroneous)
      /\ SummaryOf(g).groups = Grouped /\ SummaryOf(g).omittedNames = Positive(Cardinality(NamesThere) - Names)
      /\ SummaryOf(g).status = IF Cardinality(There) = 0 THEN "none"
                               ELSE IF Cardinality(Unfinished) > 0 THEN "running" ELSE "finished"
      BY DEF SummaryOf, Aggregated
<1>3. SummaryOf(g).status = IF There = {} THEN "none" ELSE IF Unfinished # {} THEN "running" ELSE "finished"
      BY <1>1, <1>2
<1>4. Cardinality(NamesThere) \in Nat /\ Names \in Nat
      BY NamesOrder, InspectionsAssumption
<1>5. SummaryOf(g).omittedNames = 0 => Cardinality(NamesThere) <= Names
      BY <1>2, <1>4 DEF Positive
<1>6. Len(Grouped) + Positive(Cardinality(NamesThere) - Names) = Cardinality(NamesThere)
      BY <1>4, GroupsAddUp DEF Positive
<1>7. SummaryOf(g).omittedNames = 0 =>
        SumOf([k \in DOMAIN SummaryOf(g).groups |-> SummaryOf(g).groups[k].count]) = SummaryOf(g).total
      BY <1>2, <1>5, GroupsAddUp
<1> DEFINE w == SummaryOf(g)
<1> HIDE DEF w
<1>8. WorkflowAddsUp(w)
  <2>1. w.status = "finished" <=> There # {} /\ Unfinished = {}
        BY <1>3 DEF w
  <2>2. Len(w.groups) + w.omittedNames = Cardinality(NamesThere)
        BY <1>2, <1>6 DEF w
  <2>3. QED  BY <1>2, <1>7, <2>1, <2>2 DEF w, WorkflowAddsUp
<1>9. QED  BY <1>2, <1>3, <1>8 DEF w

-----------------------------------------------------------------------------
(* The lists that are shown.                                                 *)
LEMMA RowsAre ==
    ASSUME NEW S, NEW s \in Seq(S)
    PROVE  /\ RowsOf(s) \in Seq({TaskRow(t) : t \in S}) /\ Len(RowsOf(s)) = Len(s)
           /\ DOMAIN RowsOf(s) = 1 .. Len(s) /\ \A k \in 1 .. Len(s) : s[k] \in S /\ RowsOf(s)[k] = TaskRow(s[k])
           /\ RowsOf(s) # <<>> <=> Len(s) > 0
<1>1. /\ RowsOf(s) \in Seq({TaskRow(t) : t \in S}) /\ Len(RowsOf(s)) = Len(s) /\ Len(s) \in Nat
      /\ DOMAIN RowsOf(s) = 1 .. Len(s) /\ \A k \in 1 .. Len(s) : s[k] \in S /\ RowsOf(s)[k] = TaskRow(s[k])
      BY DEF RowsOf
<1>2. RowsOf(s) = <<>> <=> Len(RowsOf(s)) = 0
      BY <1>1, EmptySeq, Zenon
<1>3. QED  BY <1>1, <1>2

LEMMA ProblemsShown ==
    ASSUME MembersTyped, NEW n \in Nat, NEW s, s = RowsOf(Limited(Erroneous, ProblemRank, n))
    PROVE  /\ Cardinality(Erroneous) \in Nat
           /\ Len(s) = IF Cardinality(Erroneous) < n THEN Cardinality(Erroneous) ELSE n
           /\ s # <<>> <=> Len(s) > 0
           /\ s # <<>> /\ (\E t \in Erroneous : members[t].state = "FAILURE") => s[1].state = "FAILURE"
<1> DEFINE l == Limited(Erroneous, ProblemRank, n)
<1>1. CutTo(l, Erroneous, ProblemRank, n)
      BY ProblemsOrder, LimitedIs
<1> HIDE DEF l
<1>2. l \in Seq(Erroneous) /\ Cardinality(Erroneous) \in Nat
      BY <1>1 DEF CutTo
<1>3. /\ Len(s) = Len(l) /\ (s # <<>> <=> Len(l) > 0)
      /\ \A k \in 1 .. Len(l) : l[k] \in Erroneous /\ s[k] = TaskRow(l[k])
      BY <1>2, RowsAre DEF l
<1>4. ASSUME Len(l) > 0, NEW t \in Erroneous, members[t].state = "FAILURE" PROVE s[1].state = "FAILURE"
  <2>1. 1 \in 1 .. Len(l) /\ l[1] \in Erroneous /\ s[1] = TaskRow(l[1])
        BY <1>2, <1>3, <1>4
  <2>2. t = l[1] \/ Earlier(ProblemRank, l[1], t)
        BY <1>1, <1>4 DEF CutTo
  <2>3. s[1].state = members[l[1]].state
        BY <2>1 DEF TaskRow
  <2>4. ASSUME NEW u \in Erroneous, Earlier(ProblemRank, u, t) PROVE members[u].state = "FAILURE"
    <3>1. /\ u \in There /\ t \in There /\ u \in Int /\ t \in Int /\ members[u].last \in Int /\ members[t].last \in Int
          BY ThereIs
    <3> DEFINE p == IF members[u].state = "FAILURE" THEN 0 ELSE IF u \in Unfinished THEN 1 ELSE 2
    <3>2. ProblemRank[u] = <<p, -members[u].last, u>> /\ ProblemRank[t] = <<0, -members[t].last, t>> /\ p \in Int
          BY <1>4, <3>1 DEF ProblemRank
    <3> HIDE DEF p
    <3>3. ProblemRank[u] \in Int \X Int \X Int /\ ProblemRank[t] \in Int \X Int \X Int
          /\ ProblemRank[u][1] = p /\ ProblemRank[t][1] = 0
          BY <3>1, <3>2
    <3>4. p <= 0
      <4>1. Before(ProblemRank[u], ProblemRank[t])
            BY <2>4 DEF Earlier
      <4>2. ProblemRank[u][1] <= ProblemRank[t][1]
            BY <3>2, <3>3, <4>1, TripleBefore
      <4>3. QED  BY <3>3, <4>2
    <3>5. QED  BY <3>4 DEF p
  <2>5. QED  BY <1>4, <2>1, <2>2, <2>3, <2>4
<1>5. QED  BY <1>1, <1>2, <1>3, <1>4 DEF CutTo

LEMMA RunningShown ==
    ASSUME MembersTyped, NEW s, s = RowsOf(Limited(ObservedRunning, ById, Shown))
    PROVE  /\ Cardinality(ObservedRunning) \in Nat
           /\ Len(s) = IF Cardinality(ObservedRunning) < Shown THEN Cardinality(ObservedRunning) ELSE Shown
           /\ \A r \in ToSet(s) : r.status = "active"
<1> DEFINE l == Limited(ObservedRunning, ById, Shown)
<1>1. CutTo(l, ObservedRunning, ById, Shown)
  <2>1. ObservedRunning \in SUBSET Member
        BY ThereIs
  <2>2. QED  BY <2>1, IdsOrder, LimitedIs, InspectionsAssumption
<1> HIDE DEF l
<1>2. l \in Seq(ObservedRunning) /\ Cardinality(ObservedRunning) \in Nat
      BY <1>1 DEF CutTo
<1>3. /\ Len(s) = Len(l) /\ DOMAIN s = 1 .. Len(l)
      /\ \A k \in 1 .. Len(l) : l[k] \in ObservedRunning /\ s[k] = TaskRow(l[k])
      BY <1>2, RowsAre DEF l
<1>4. ASSUME NEW t \in ObservedRunning PROVE TaskRow(t).status = "active"
  <2>1. /\ members[t].state = "STARTED" /\ members[t].sign = "active"
        /\ Distance(Moment, members[t].seen) <= SignAge /\ members[t].seen >= members[t].last
        BY DEF ObservedRunning
  <2>2. members[t].seen \in Int /\ members[t].last \in Int
        BY ThereIs
  <2>3. Distance(Moment, members[t].seen) \in Int /\ SignAge \in Int
        BY <2>2, InspectionsAssumption DEF Distance
  <2>4. ~(Distance(Moment, members[t].seen) > SignAge) /\ ~(members[t].seen < members[t].last)
        BY <2>1, <2>2, <2>3
  <2>5. QED  BY <2>1, <2>4 DEF TaskRow
<1>5. \A r \in ToSet(s) : r.status = "active"
      BY <1>3, <1>4 DEF ToSet
<1>6. QED  BY <1>1, <1>2, <1>3, <1>5 DEF CutTo

LEMMA MembersShown ==
    ASSUME MembersTyped, Cardinality(There) <= MaxListed,
           NEW s, s = RowsOf(Limited(There, ById, MaxListed))
    PROVE  {r.task : r \in ToSet(s)} = There
<1> DEFINE l == Limited(There, ById, MaxListed)
<1>1. CutTo(l, There, ById, MaxListed)
  <2>1. There \in SUBSET Member
        BY ThereIs
  <2>2. QED  BY <2>1, IdsOrder, LimitedIs, InspectionsAssumption
<1> HIDE DEF l
<1>2. l \in Seq(There) /\ \A t \in There : \E k \in 1 .. Len(l) : l[k] = t
      BY <1>1 DEF CutTo
<1>3. DOMAIN s = 1 .. Len(l) /\ \A k \in 1 .. Len(l) : l[k] \in There /\ s[k] = TaskRow(l[k])
      BY <1>2, RowsAre DEF l
<1>4. \A t : TaskRow(t).task = t
      BY DEF TaskRow
<1>5. ToSet(s) = {s[k] : k \in 1 .. Len(l)}
      BY <1>3 DEF ToSet
<1>6. QED  BY <1>2, <1>3, <1>4, <1>5

-----------------------------------------------------------------------------
(* Of a worker, what is shown and what is left out are all its tasks, unless *)
(* a category is not there: then that is said.                               *)
LEMMA WorkerIsWhole ==
    ASSUME NEW w \in Inspected, NEW known
    PROVE  WorkerOverview(w, known).kind = "worker" /\ WorkerAddsUp(WorkerOverview(w, known))
<1> DEFINE all == UNION {{c} \X DOMAIN w[c].tasks : c \in {c \in Category : w[c].there}}
           key == [i \in all |-> <<i[1], w[i[1]].tasks[i[2]], i[2]>>]
           some == FirstOf(all, key, Shown)
           shown == InOrder(some, key)
           Of(c, S) == Cardinality({i \in S : i[1] = c})
           r == WorkerOverview(w, known)
           activity == [k \in DOMAIN shown |->
                          LET t == w[shown[k][1]].tasks[shown[k][2]] IN [task |-> t, recorded |-> t \in known]]
           counts == [c \in Category |-> Count(w[c], Len(w[c].tasks))]
           omitted == [c \in Category |-> Count(w[c], Of(c, all) - Of(c, some))]
           ofAll == [c \in Category |-> {i \in all : i[1] = c}]
           ofRest == [c \in Category |-> {i \in all \ some : i[1] = c}]
<1>1. /\ r.kind = "worker" /\ r.activity = activity /\ r.counts = counts /\ r.omitted = omitted
      /\ (\E c \in Category : w[c].observed < 0) => "unknown" \in r.warnings
      BY DEF WorkerOverview
<1>2. \A c \in Category : /\ w[c].there \in BOOLEAN /\ w[c].tasks \in Seq(Nat) /\ w[c].observed \in Int
                          /\ w[c].there \/ w[c].observed < 0
  <2>1. w \in [Category -> [there : BOOLEAN, tasks : Seq(Nat), observed : Int]]
        BY InspectionsAssumption
  <2>2. \A c \in Category : w[c].there \/ w[c].observed < 0
        BY InspectionsAssumption
  <2>3. \A c \in Category : w[c] \in [there : BOOLEAN, tasks : Seq(Nat), observed : Int]
        BY <2>1
  <2>4. QED  BY <2>2, <2>3
<1>3. \A c \in Category : Len(w[c].tasks) \in Nat /\ DOMAIN w[c].tasks = 1 .. Len(w[c].tasks)
      BY <1>2
<1>4. \A i \in all : /\ i = <<i[1], i[2]>> /\ i[1] \in Category /\ w[i[1]].there
                     /\ i[2] \in 1 .. Len(w[i[1]].tasks)
      BY <1>3
<1>5. \A c \in Category : IsFiniteSet({c} \X DOMAIN w[c].tasks) /\ Cardinality({c} \X DOMAIN w[c].tasks) = Len(w[c].tasks)
  <2> TAKE c \in Category
  <2> DEFINE n == Len(w[c].tasks)
  <2>1. n \in Nat /\ DOMAIN w[c].tasks = 1 .. n
        BY <1>3
  <2> HIDE DEF n
  <2>2. IsFiniteSet(1 .. n) /\ Cardinality(1 .. n) = n
    <3>1. IsFiniteSet(1 .. n) /\ Cardinality(1 .. n) = IF 1 > n THEN 0 ELSE n - 1 + 1
          BY <2>1, FS_Interval
    <3>2. QED  BY <2>1, <3>1
  <2>3. IsFiniteSet({c}) /\ Cardinality({c}) = 1
        BY FS_Singleton
  <2>4. IsFiniteSet({c} \X (1 .. n)) /\ Cardinality({c} \X (1 .. n)) = 1 * n
        BY <2>2, <2>3, FS_Product, Zenon
  <2>5. QED  BY <2>1, <2>4 DEF n
<1>6. IsFiniteSet(Category)
  <2>1. \A a, b \in Int : IsFiniteSet(a .. b)
        BY FS_Interval
  <2>2. 1 \in Int /\ 3 \in Int
        OBVIOUS
  <2>3. IsFiniteSet(1 .. 3)
        BY <2>1, <2>2, Zenon
  <2>4. QED  BY <2>3 DEF Category
<1>7. IsFiniteSet(all)
  <2> DEFINE parts == {{c} \X DOMAIN w[c].tasks : c \in {c \in Category : w[c].there}}
             f == [c \in {c \in Category : w[c].there} |-> {c} \X DOMAIN w[c].tasks]
  <2>1. IsFiniteSet({c \in Category : w[c].there})
        BY <1>6, FS_Subset
  <2>2. f \in Surjection({c \in Category : w[c].there}, parts)
        BY DEF Surjection
  <2>3. IsFiniteSet(parts)
        BY <2>1, <2>2, FS_Surjection
  <2>4. \A part \in parts : IsFiniteSet(part)
        BY <1>5
  <2> HIDE DEF parts
  <2>5. IsFiniteSet(UNION parts)
        BY <2>3, <2>4, FS_UNION
  <2>6. QED  BY <2>5 DEF parts
<1> HIDE DEF all
<1>8. Orders(key, all)
  <2>1. \A i \in all : key[i] = <<i[1], w[i[1]].tasks[i[2]], i[2]>>
        BY DEF key
  <2>2. \A i \in all : i[1] \in Int /\ i[2] \in Int /\ w[i[1]].tasks[i[2]] \in Int
    <3> TAKE i \in all
    <3>1. i[1] \in Category /\ i[2] \in 1 .. Len(w[i[1]].tasks) /\ w[i[1]].tasks \in Seq(Nat)
          BY <1>2, <1>4
    <3>2. i[1] \in Int
          BY <3>1 DEF Category
    <3>3. QED  BY <3>1, <3>2
  <2>3. \A i \in all : key[i] \in Int \X Int \X Int /\ key[i][1] = i[1] /\ key[i][3] = i[2]
        BY <2>1, <2>2
  <2> HIDE DEF key
  <2>4. \A i, j \in all : key[i] = key[j] => i = j
        BY <1>4, <2>3
  <2>5. QED  BY <1>7, <2>3, <2>4, TriplesOrder
<1> HIDE DEF key
<1>9. some \in SUBSET all
      BY <1>8, FirstIsCut, InspectionsAssumption
<1> HIDE DEF some
<1>10. ASSUME NEW S \in SUBSET all PROVE IsFiniteSet(S) /\ Cardinality(S) \in Nat
  <2>1. IsFiniteSet(S)
        BY <1>7, FS_Subset
  <2>2. QED  BY <2>1, FS_CardinalityType
<1>11. Len(activity) = Cardinality(some)
  <2>1. Orders(key, some)
        BY <1>8, <1>9, OrdersParts
  <2>2. shown \in Seq(some) /\ Len(shown) = Cardinality(some) /\ Cardinality(some) \in Nat
        BY <2>1, OrderIsSeq
  <2> HIDE DEF shown
  <2>3. DOMAIN shown = 1 .. Cardinality(some)
        BY <2>2
  <2>4. QED  BY <2>2, <2>3
<1> HIDE DEF activity
<1>12. ASSUME NEW c \in Category
       PROVE  /\ Positive(counts[c]) = Cardinality(ofAll[c])
              /\ Positive(omitted[c]) = Cardinality(ofRest[c])
  <2> DEFINE A == {i \in all : i[1] = c}
             B == {i \in some : i[1] = c}
             C == {i \in all \ some : i[1] = c}
  <2>1. ofAll[c] = A /\ ofRest[c] = C /\ counts[c] = Count(w[c], Len(w[c].tasks))
        /\ omitted[c] = Count(w[c], Cardinality(A) - Cardinality(B))
        OBVIOUS
  <2>2. A = IF w[c].there THEN {c} \X DOMAIN w[c].tasks ELSE {}
    <3>1. CASE w[c].there
          BY <1>4, <3>1 DEF all
    <3>2. CASE ~w[c].there
          BY <1>4, <3>2
    <3>3. QED  BY <3>1, <3>2
  <2>3. A \in SUBSET all /\ B \in SUBSET all /\ C \in SUBSET all /\ A = B \cup C /\ B \cap C = {}
        BY <1>9
  <2> HIDE DEF A, B, C, ofAll, ofRest, counts, omitted
  <2>4. /\ IsFiniteSet(B) /\ IsFiniteSet(C)
        /\ Cardinality(A) \in Nat /\ Cardinality(B) \in Nat /\ Cardinality(C) \in Nat
        BY <1>10, <2>3
  <2>5. Cardinality(A) = Cardinality(B) + Cardinality(C)
    <3>1. Cardinality(B \cup C) = Cardinality(B) + Cardinality(C) - Cardinality(B \cap C)
          BY <2>4, FS_Union
    <3>2. Cardinality(B \cap C) = 0
          BY <2>3, FS_EmptySet
    <3>3. QED  BY <2>3, <2>4, <3>1, <3>2
  <2>6. CASE w[c].there
    <3> DEFINE a == Cardinality(A)
               b == Cardinality(B)
               d == Cardinality(C)
    <3>1. a = Len(w[c].tasks)
          BY <1>5, <2>2, <2>6
    <3>2. a \in Nat /\ b \in Nat /\ d \in Nat /\ a = b + d
          BY <2>4, <2>5
    <3>3. counts[c] = Len(w[c].tasks) /\ omitted[c] = a - b
          BY <2>1, <2>6 DEF Count
    <3>4. ofAll[c] = A /\ ofRest[c] = C
          BY <2>1
    <3> HIDE DEF a, b, d
    <3>5. a - b = d
          BY <3>2
    <3>6. counts[c] = a /\ omitted[c] = d
          BY <3>1, <3>3, <3>5
    <3>7. \A n \in Nat : Positive(n) = n
          BY DEF Positive
    <3>8. Positive(counts[c]) = a /\ Positive(omitted[c]) = d
          BY <3>2, <3>6, <3>7
    <3>9. QED  BY <3>4, <3>8 DEF a, d
  <2>7. CASE ~w[c].there
    <3>1. counts[c] = -1 /\ omitted[c] = -1 /\ Cardinality(A) = 0
          BY <2>1, <2>2, <2>7, FS_EmptySet DEF Count
    <3>2. Cardinality(C) = 0
          BY <2>4, <2>5, <3>1
    <3>3. QED  BY <2>1, <3>1, <3>2 DEF Positive
  <2>8. QED  BY <1>2, <2>6, <2>7
<1>13. /\ DOMAIN counts = Category /\ DOMAIN omitted = Category
       /\ ofAll \in [Category -> SUBSET all] /\ ofRest \in [Category -> SUBSET all]
       OBVIOUS
<1>14. \A c, d \in Category : c # d => ofAll[c] \cap ofAll[d] = {} /\ ofRest[c] \cap ofRest[d] = {}
       OBVIOUS
<1>15. UNION {ofAll[c] : c \in Category} = all /\ UNION {ofRest[c] : c \in Category} = all \ some
  <2>1. \A i \in all : i \in ofAll[i[1]] /\ i[1] \in Category /\ (i \notin some => i \in ofRest[i[1]])
        BY <1>4
  <2>2. QED  BY <1>13, <2>1
<1> HIDE DEF counts, omitted, ofAll, ofRest
<1>16. SumOf(counts) = Cardinality(all)
  <2> DEFINE f == [c \in Category |-> Positive(counts[c])]
  <2>1. SumOf(counts) = SumFunctionOnSet(f, Category)
        BY <1>13 DEF SumOf, SumFunction
  <2>2. \A c \in Category : f[c] = Cardinality(ofAll[c])
        BY <1>12
  <2> HIDE DEF f
  <2>3. SumFunctionOnSet(f, Category) = Cardinality(UNION {ofAll[c] : c \in Category})
        BY <1>6, <1>7, <1>13, <1>14, <2>2, SumIsCount
  <2>4. QED  BY <1>15, <2>1, <2>3
<1>17. SumOf(omitted) = Cardinality(all \ some)
  <2> DEFINE f == [c \in Category |-> Positive(omitted[c])]
  <2>1. SumOf(omitted) = SumFunctionOnSet(f, Category)
        BY <1>13 DEF SumOf, SumFunction
  <2>2. \A c \in Category : f[c] = Cardinality(ofRest[c])
        BY <1>12
  <2> HIDE DEF f
  <2>3. SumFunctionOnSet(f, Category) = Cardinality(UNION {ofRest[c] : c \in Category})
        BY <1>6, <1>7, <1>13, <1>14, <2>2, SumIsCount
  <2>4. QED  BY <1>15, <2>1, <2>3
<1>18. Cardinality(some) + Cardinality(all \ some) = Cardinality(all)
  <2>1. /\ IsFiniteSet(some) /\ IsFiniteSet(all \ some) /\ Cardinality(some) \in Nat /\ Cardinality(all \ some) \in Nat
        BY <1>9, <1>10
  <2>2. some \cup (all \ some) = all /\ some \cap (all \ some) = {}
        BY <1>9
  <2>3. Cardinality(some \cup (all \ some)) = Cardinality(some) + Cardinality(all \ some) - Cardinality(some \cap (all \ some))
        BY <2>1, FS_Union
  <2>4. Cardinality(some \cap (all \ some)) = 0
        BY <2>2, FS_EmptySet
  <2>5. Cardinality(all) = Cardinality(some) + Cardinality(all \ some) - 0
        BY <2>2, <2>3, <2>4
  <2>6. QED  BY <2>1, <2>5
<1>19. (\E c \in Category : counts[c] < 0) => \E c \in Category : w[c].observed < 0
  <2> SUFFICES ASSUME NEW c \in Category, counts[c] < 0 PROVE w[c].observed < 0
      OBVIOUS
  <2>1. counts[c] = Count(w[c], Len(w[c].tasks)) /\ Len(w[c].tasks) \in Nat
        BY <1>3 DEF counts
  <2>2. QED  BY <1>2, <2>1 DEF Count
<1> HIDE DEF r
<1>20. QED  BY <1>1, <1>11, <1>16, <1>17, <1>18, <1>19 DEF WorkerAddsUp, r

-----------------------------------------------------------------------------
(* Answers whose parts were read of the same rows.                           *)
LEMMA OverviewIsRight ==
    ASSUME MembersTyped, NEW g,
           g["aggregate"] = Aggregated, g["groups"] = Grouped, g["names"] = Cardinality(NamesThere),
           g["total"] = Cardinality(There), g["runningCount"] = Cardinality(ObservedRunning),
           g["problems"] = RowsOf(Limited(Erroneous, ProblemRank, Shown)),
           g["running"] = RowsOf(Limited(ObservedRunning, ById, Shown)),
           Cardinality(There) <= MaxListed => g["members"] = RowsOf(Limited(There, ById, MaxListed)),
           NEW r, r = WorkflowOverview(g) \/ r = [WorkflowOverview(g) EXCEPT !.members = <<>>, !.whole = FALSE]
    PROVE  OverviewAddsUp(r)
<1>1. /\ r.workflow = SummaryOf(g) /\ r.problems = g["problems"] /\ r.running = g["running"]
      /\ r.omittedProblems = Positive(Cardinality(Erroneous) - Len(g["problems"]))
      /\ r.omittedRunning = Positive(Cardinality(ObservedRunning) - Len(g["running"]))
      /\ r.whole => Cardinality(There) <= MaxListed /\ r.members = g["members"]
  <2> DEFINE o == WorkflowOverview(g)
  <2>1. /\ o.workflow = SummaryOf(g) /\ o.problems = g["problems"] /\ o.running = g["running"]
        /\ o.omittedProblems = Positive(Cardinality(Erroneous) - Len(g["problems"]))
        /\ o.omittedRunning = Positive(Cardinality(ObservedRunning) - Len(g["running"]))
        /\ o.whole = (Cardinality(There) <= MaxListed) /\ o.members = g["members"]
        /\ DOMAIN o = {"kind", "workflow", "problems", "omittedProblems", "running", "omittedRunning", "members", "whole"}
        BY DEF WorkflowOverview, Aggregated
  <2>2. r = o \/ r = [o EXCEPT !.members = <<>>, !.whole = FALSE]
        OBVIOUS
  <2> HIDE DEF o
  <2>3. /\ r.workflow = o.workflow /\ r.problems = o.problems /\ r.running = o.running
        /\ r.omittedProblems = o.omittedProblems /\ r.omittedRunning = o.omittedRunning
        /\ r.whole = FALSE \/ (r.whole = o.whole /\ r.members = o.members)
        BY <2>1, <2>2
  <2>4. QED  BY <2>1, <2>3
<1>2. WorkflowAddsUp(r.workflow) /\ r.workflow.errors = Cardinality(Erroneous)
      BY <1>1, SummaryAddsUp
<1>3. /\ Cardinality(Erroneous) \in Nat
      /\ Len(r.problems) = IF Cardinality(Erroneous) < Shown THEN Cardinality(Erroneous) ELSE Shown
      /\ r.problems # <<>> /\ (\E t \in Erroneous : members[t].state = "FAILURE") => r.problems[1].state = "FAILURE"
      BY <1>1, ProblemsShown, InspectionsAssumption
<1>4. /\ Cardinality(ObservedRunning) \in Nat
      /\ Len(r.running) = IF Cardinality(ObservedRunning) < Shown THEN Cardinality(ObservedRunning) ELSE Shown
      /\ \A row \in ToSet(r.running) : row.status = "active"
      BY <1>1, RunningShown
<1>5. r.whole => {row.task : row \in ToSet(r.members)} = There
      BY <1>1, MembersShown
<1>6. Shown \in Nat
      BY InspectionsAssumption
<1>7. Len(r.problems) + r.omittedProblems = r.workflow.errors
      BY <1>1, <1>2, <1>3, <1>6 DEF Positive
<1>8. Len(r.running) + r.omittedRunning = Cardinality(ObservedRunning)
      BY <1>1, <1>4, <1>6 DEF Positive
<1>9. QED  BY <1>2, <1>3, <1>4, <1>5, <1>7, <1>8 DEF OverviewAddsUp

LEMMA SearchIsRight ==
    ASSUME MembersTyped, NEW filter \in Filters, NEW g, g["candidates"] = Aggregated,
           Passes(filter, Aggregated) =>
              /\ g["aggregate"] = Aggregated /\ g["groups"] = Grouped /\ g["names"] = Cardinality(NamesThere)
              /\ g["problems"] = RowsOf(Limited(Erroneous, ProblemRank, 1))
    PROVE  SearchResult(filter, g).kind = "found" /\ SearchAddsUp(SearchResult(filter, g))
<1> DEFINE r == SearchResult(filter, g)
           w == [workflow |-> SummaryOf(g), problem |-> g["problems"]]
<1>1. /\ r.kind = "found" /\ r.filter = filter
      /\ r.workflows = IF Passes(filter, Aggregated) THEN <<w>> ELSE <<>>
      BY DEF SearchResult
<1> HIDE DEF r
<1>2. CASE ~Passes(filter, Aggregated)
      BY <1>1, <1>2 DEF SearchAddsUp, ToSet, r
<1>3. CASE Passes(filter, Aggregated)
  <2>1. /\ WorkflowAddsUp(w.workflow) /\ w.workflow.errors = Cardinality(Erroneous)
        /\ w.workflow.status = IF There = {} THEN "none" ELSE IF Unfinished # {} THEN "running" ELSE "finished"
        BY <1>3, SummaryAddsUp
  <2>2. /\ Cardinality(There) \in Nat /\ Cardinality(Unfinished) \in Nat
        /\ Cardinality(There) = 0 <=> There = {}
        /\ Cardinality(Unfinished) = 0 <=> Unfinished = {}
        BY ThereIs, PartsAreFinite
  <2>3. /\ Cardinality(There) > 0
        /\ filter.status = "running" => Cardinality(Unfinished) > 0
        /\ filter.status = "finished" => Cardinality(Unfinished) = 0
        /\ filter.status \in {"all", "running", "finished"}
        BY <1>3 DEF Passes, Aggregated, Filters
  <2>4. w.workflow.status # "none" /\ filter.status \in {"all", w.workflow.status}
        BY <2>1, <2>2, <2>3
  <2>5. /\ Cardinality(Erroneous) \in Nat /\ (w.problem # <<>> <=> Len(w.problem) > 0)
        /\ Len(w.problem) = IF Cardinality(Erroneous) < 1 THEN Cardinality(Erroneous) ELSE 1
        BY <1>3, ProblemsShown
  <2>6. w.problem # <<>> <=> w.workflow.errors > 0
        BY <2>1, <2>5
  <2> HIDE DEF w
  <2>7. r.workflows = <<w>> /\ r.workflows # <<>> /\ ToSet(r.workflows) = {w}
        BY <1>1, <1>3 DEF ToSet
  <2>8. SearchAddsUp(r)
        BY <1>1, <1>3, <2>1, <2>4, <2>6, <2>7 DEF SearchAddsUp
  <2>9. QED  BY <1>1, <2>8 DEF r
<1>4. QED  BY <1>2, <1>3

-----------------------------------------------------------------------------
(* A call under way has been answered its first queries; if nothing was      *)
(* written since it began, with what the rows say.  A search may know early  *)
(* that there is nothing to describe.                                        *)
Right(q) ==
    IF q = "members" THEN IF Cardinality(There) <= MaxListed THEN RowsOf(Limited(There, ById, MaxListed)) ELSE <<>>
    ELSE Reply(q)

Answered(q) ==
    /\ q \in DOMAIN got /\ (disturbed = 0 => got[q] = Right(q))
    /\ q = "worker" => got[q] \in Inspected

Underway(todo, asks) ==
    /\ Len(todo) <= Len(asks)
    /\ \A k \in 1 .. Len(todo) : todo[k] = asks[Len(asks) - Len(todo) + k]
    /\ \A k \in 1 .. Len(asks) - Len(todo) : Answered(asks[k])

McpCall == {"inspect_workflow", "search_workflows", "inspect_worker"}
Query == {"shell", "aggregate", "groups", "total", "names", "problems", "running", "runningCount", "members",
          "candidates", "worker", "references"}

CallInv ==
    inspecting # Idling =>
        /\ response = Silence
        /\ inspecting \in [tool : McpCall, filter : Filters, todo : Seq(Query)]
        /\ \/ Underway(inspecting.todo, Plan(inspecting.tool))
           \/ /\ inspecting.tool = "search_workflows" /\ inspecting.todo = <<>>
              /\ Answered("candidates") /\ ~Passes(inspecting.filter, got["candidates"])

InspectionInv ==
    /\ MembersTyped /\ inspection \in Inspected \cup {NoWorker} /\ disturbed \in Nat
    /\ CallInv /\ InspectionsAddUp

LEMMA PlansAre ==
    /\ Plan("inspect_workflow") = <<"shell", "aggregate", "groups", "total", "names",
                                    "problems", "running", "runningCount", "members">>
    /\ Plan("search_workflows") = <<"candidates", "shell", "aggregate", "groups", "total", "names", "problems">>
    /\ Plan("inspect_worker") = <<"worker", "references">>
<1> DEFINE d == <<"shell", "aggregate", "groups", "total", "names">>
           rest == <<"problems", "running", "runningCount", "members">>
           c == <<"candidates">>
           p == <<"problems">>
           whole == <<"shell", "aggregate", "groups", "total", "names", "problems", "running", "runningCount", "members">>
           found == <<"candidates", "shell", "aggregate", "groups", "total", "names", "problems">>
           cd == <<"candidates", "shell", "aggregate", "groups", "total", "names">>
<1>1. /\ d \in Seq(Query) /\ rest \in Seq(Query) /\ c \in Seq(Query) /\ p \in Seq(Query)
      /\ whole \in Seq(Query) /\ found \in Seq(Query) /\ cd \in Seq(Query)
  <2>1. /\ "shell" \in Query /\ "aggregate" \in Query /\ "groups" \in Query /\ "total" \in Query
        /\ "names" \in Query /\ "problems" \in Query /\ "running" \in Query /\ "runningCount" \in Query
        /\ "members" \in Query /\ "candidates" \in Query
        BY DEF Query
  <2>2. QED  BY <2>1
<1>2. ASSUME NEW s \in Seq(Query), NEW t \in Seq(Query), NEW u \in Seq(Query), Len(u) = Len(s) + Len(t),
             \A k \in 1 .. Len(u) : u[k] = IF k <= Len(s) THEN s[k] ELSE t[k - Len(s)]
      PROVE  s \o t = u
  <2>1. /\ s \o t \in Seq(Query) /\ Len(s \o t) = Len(s) + Len(t)
        /\ \A k \in 1 .. Len(s) + Len(t) : (s \o t)[k] = IF k <= Len(s) THEN s[k] ELSE t[k - Len(s)]
        BY ConcatProperties, Zenon
  <2>2. \A k \in 1 .. Len(s \o t) : (s \o t)[k] = u[k]
        BY <1>2, <2>1
  <2>3. QED  BY <1>2, <2>1, <2>2, SeqEqual
<1>3. d \o rest = whole
  <2>1. Len(whole) = Len(d) + Len(rest) /\ \A k \in 1 .. Len(whole) : whole[k] = IF k <= Len(d) THEN d[k] ELSE rest[k - Len(d)]
        OBVIOUS
  <2> HIDE DEF d, rest, whole
  <2>2. QED  BY <1>1, <1>2, <2>1
<1>4. c \o d = cd
  <2>1. Len(cd) = Len(c) + Len(d) /\ \A k \in 1 .. Len(cd) : cd[k] = IF k <= Len(c) THEN c[k] ELSE d[k - Len(c)]
        OBVIOUS
  <2> HIDE DEF d, c, cd
  <2>2. QED  BY <1>1, <1>2, <2>1
<1>5. cd \o p = found
  <2>1. Len(found) = Len(cd) + Len(p) /\ \A k \in 1 .. Len(found) : found[k] = IF k <= Len(cd) THEN cd[k] ELSE p[k - Len(cd)]
        OBVIOUS
  <2> HIDE DEF p, cd, found
  <2>2. QED  BY <1>1, <1>2, <2>1
<1>6. Described = d
      BY DEF Described
<1> HIDE DEF d, rest, c, p, cd
<1>7. /\ Plan("inspect_workflow") = d \o rest /\ Plan("search_workflows") = (c \o d) \o p
      /\ Plan("inspect_worker") = <<"worker", "references">>
      BY <1>6 DEF Plan, rest, c, p
<1>8. QED  BY <1>3, <1>4, <1>5, <1>7

LEMMA PlanIs ==
    ASSUME NEW tool \in McpCall
    PROVE  /\ Plan(tool) \in Seq(Query) /\ Len(Plan(tool)) \in Nat
           /\ \A k \in 1 .. Len(Plan(tool)) :
                /\ Plan(tool)[k] = "candidates" => tool = "search_workflows"
                /\ Plan(tool)[k] = "members" => k = 9 /\ Plan(tool)[4] = "total"
<1>1. /\ "shell" \in Query /\ "aggregate" \in Query /\ "groups" \in Query /\ "total" \in Query
      /\ "names" \in Query /\ "problems" \in Query /\ "running" \in Query /\ "runningCount" \in Query
      /\ "members" \in Query /\ "candidates" \in Query /\ "worker" \in Query /\ "references" \in Query
      BY DEF Query
<1>2. CASE tool = "inspect_workflow"
  <2> DEFINE p == <<"shell", "aggregate", "groups", "total", "names", "problems", "running", "runningCount", "members">>
  <2>1. p \in Seq(Query)
        BY <1>1
  <2>2. Len(p) = 9 /\ p[4] = "total" /\ \A k \in 1 .. 9 : p[k] # "candidates" /\ (p[k] = "members" => k = 9)
        OBVIOUS
  <2> HIDE DEF p
  <2>3. Plan(tool) = p
        BY <1>2, PlansAre DEF p
  <2>4. QED  BY <1>2, <2>1, <2>2, <2>3
<1>3. CASE tool = "search_workflows"
  <2> DEFINE p == <<"candidates", "shell", "aggregate", "groups", "total", "names", "problems">>
  <2>1. p \in Seq(Query)
        BY <1>1
  <2>2. Len(p) = 7 /\ \A k \in 1 .. 7 : p[k] # "members"
        OBVIOUS
  <2> HIDE DEF p
  <2>3. Plan(tool) = p
        BY <1>3, PlansAre DEF p
  <2>4. QED  BY <1>3, <2>1, <2>2, <2>3
<1>4. CASE tool = "inspect_worker"
  <2> DEFINE p == <<"worker", "references">>
  <2>1. p \in Seq(Query)
        BY <1>1
  <2>2. Len(p) = 2 /\ \A k \in 1 .. 2 : p[k] # "members" /\ p[k] # "candidates"
        OBVIOUS
  <2> HIDE DEF p
  <2>3. Plan(tool) = p
        BY <1>4, PlansAre DEF p
  <2>4. QED  BY <1>4, <2>1, <2>2, <2>3
<1>5. QED  BY <1>2, <1>3, <1>4 DEF McpCall
-----------------------------------------------------------------------------
(* What the rows say does not change while they do not.                      *)
LEMMA RowsKeep ==
    ASSUME members' = members
    PROVE  /\ There' = There /\ Erroneous' = Erroneous /\ Unfinished' = Unfinished
           /\ ObservedRunning' = ObservedRunning /\ NamesThere' = NamesThere
           /\ ProblemRank' = ProblemRank /\ Grouped' = Grouped /\ Aggregated' = Aggregated
<1>1. There' = There
      BY DEF There
<1>2. Erroneous' = Erroneous /\ Unfinished' = Unfinished /\ ObservedRunning' = ObservedRunning
      BY <1>1 DEF Erroneous, Unfinished, ObservedRunning
<1>3. NamesThere' = NamesThere
      BY <1>1 DEF NamesThere
<1>4. ProblemRank' = ProblemRank
      BY <1>1, <1>2 DEF ProblemRank
<1>5. \A n : Named(n)' = Named(n)
      BY <1>1 DEF Named
<1>6. NameRank' = NameRank
      BY <1>1, <1>2, <1>3, <1>5 DEF NameRank, Named
<1>7. Grouped' = Grouped
      BY <1>1, <1>3, <1>5, <1>6 DEF Grouped, Named
<1>8. Aggregated' = Aggregated
      BY <1>1, <1>2 DEF Aggregated
<1>9. QED  BY <1>1, <1>2, <1>3, <1>4, <1>7, <1>8

LEMMA RightKeeps ==
    ASSUME UNCHANGED <<members, inspection>>, inspecting'.tool = inspecting.tool
    PROVE  \A q : Right(q)' = Right(q)
<1> SUFFICES ASSUME NEW q PROVE Right(q)' = Right(q)
    OBVIOUS
<1> USE RowsKeep
<1>1. ASSUME q = "members" PROVE Right(q)' = Right(q)
      BY <1>1 DEF Right, RowsOf, TaskRow
<1>2. ASSUME q = "problems" PROVE Right(q)' = Right(q)
      BY <1>2 DEF Right, Reply, RowsOf, TaskRow
<1>3. ASSUME q = "running" PROVE Right(q)' = Right(q)
      BY <1>3 DEF Right, Reply, RowsOf, TaskRow
<1>4. ASSUME q \notin {"members", "problems", "running"} PROVE Right(q)' = Right(q)
      BY <1>4 DEF Right, Reply
<1>5. QED  BY <1>1, <1>2, <1>3, <1>4

LEMMA AddsUpKeeps ==
    ASSUME members' = members
    PROVE  \A r : (OverviewAddsUp(r)' <=> OverviewAddsUp(r)) /\ (SearchAddsUp(r)' <=> SearchAddsUp(r))
<1>1. \A w : WorkflowAddsUp(w)' <=> WorkflowAddsUp(w)
      BY RowsKeep DEF WorkflowAddsUp
<1>2. \A r : OverviewAddsUp(r)' <=> OverviewAddsUp(r)
      BY RowsKeep, <1>1 DEF OverviewAddsUp, WorkflowAddsUp
<1>3. \A r : SearchAddsUp(r)' <=> SearchAddsUp(r)
      BY RowsKeep, <1>1 DEF SearchAddsUp, WorkflowAddsUp
<1>4. QED  BY <1>2, <1>3

(* A call that was answered all of its queries can be answered itself.       *)
LEMMA ResultsAddUp ==
    ASSUME InspectionInv, inspecting # Idling, inspecting.todo = <<>>, NEW r,
           \/ r = Result
           \/ inspecting.tool = "inspect_workflow" /\ r = [Result EXCEPT !.members = <<>>, !.whole = FALSE]
    PROVE  /\ r.kind = "workflow" /\ disturbed = 0 => OverviewAddsUp(r)
           /\ r.kind = "found" /\ disturbed = 0 => SearchAddsUp(r)
           /\ r.kind = "worker" => WorkerAddsUp(r)
<1>1. /\ MembersTyped /\ inspecting.tool \in McpCall /\ inspecting.filter \in Filters
      /\ \/ Underway(<<>>, Plan(inspecting.tool))
         \/ inspecting.tool = "search_workflows" /\ Answered("candidates") /\ ~Passes(inspecting.filter, got["candidates"])
      BY DEF InspectionInv, CallInv
<1>2. Underway(<<>>, Plan(inspecting.tool)) => \A k \in 1 .. Len(Plan(inspecting.tool)) : Answered(Plan(inspecting.tool)[k])
      BY <1>1, PlanIs DEF Underway
<1>3. CASE inspecting.tool = "inspect_workflow"
  <2> DEFINE p == <<"shell", "aggregate", "groups", "total", "names", "problems", "running", "runningCount", "members">>
  <2>1. \A k \in 1 .. Len(p) : Answered(p[k])
        BY <1>1, <1>2, <1>3, PlansAre
  <2>2. /\ Len(p) = 9 /\ p[2] = "aggregate" /\ p[3] = "groups" /\ p[4] = "total" /\ p[5] = "names"
        /\ p[6] = "problems" /\ p[7] = "running" /\ p[8] = "runningCount" /\ p[9] = "members"
        OBVIOUS
  <2> HIDE DEF p
  <2>3. /\ Answered("aggregate") /\ Answered("groups") /\ Answered("total") /\ Answered("names")
        /\ Answered("problems") /\ Answered("running") /\ Answered("runningCount") /\ Answered("members")
        BY <2>1, <2>2
  <2>4. ASSUME disturbed = 0
        PROVE  /\ got["aggregate"] = Aggregated /\ got["groups"] = Grouped /\ got["names"] = Cardinality(NamesThere)
               /\ got["total"] = Cardinality(There) /\ got["runningCount"] = Cardinality(ObservedRunning)
               /\ got["problems"] = RowsOf(Limited(Erroneous, ProblemRank, Shown))
               /\ got["running"] = RowsOf(Limited(ObservedRunning, ById, Shown))
               /\ Cardinality(There) <= MaxListed => got["members"] = RowsOf(Limited(There, ById, MaxListed))
        BY <1>3, <2>3, <2>4 DEF Answered, Right, Reply
  <2>5. Result = WorkflowOverview(got)
        BY <1>3 DEF Result
  <2>6. r = WorkflowOverview(got) \/ r = [WorkflowOverview(got) EXCEPT !.members = <<>>, !.whole = FALSE]
        BY <2>5
  <2>7. disturbed = 0 => OverviewAddsUp(r)
        BY <1>1, <2>4, <2>6, OverviewIsRight
  <2>8. r.kind = "workflow"
    <3> DEFINE o == WorkflowOverview(got)
    <3>1. o.kind = "workflow" /\ "kind" \in DOMAIN o
          BY DEF WorkflowOverview
    <3>2. r = o \/ r = [o EXCEPT !.members = <<>>, !.whole = FALSE]
          BY <2>6
    <3> HIDE DEF o
    <3>3. QED  BY <3>1, <3>2
  <2>9. QED  BY <2>7, <2>8
<1>4. CASE inspecting.tool = "search_workflows"
  <2> DEFINE p == <<"candidates", "shell", "aggregate", "groups", "total", "names", "problems">>
             f == inspecting.filter
  <2>1. r = SearchResult(f, got)
        BY <1>4 DEF Result
  <2>2. CASE Underway(<<>>, Plan(inspecting.tool))
    <3>1. \A k \in 1 .. Len(p) : Answered(p[k])
          BY <1>2, <1>4, <2>2, PlansAre
    <3>2. /\ Len(p) = 7 /\ p[1] = "candidates" /\ p[3] = "aggregate" /\ p[4] = "groups"
          /\ p[6] = "names" /\ p[7] = "problems"
          OBVIOUS
    <3> HIDE DEF p
    <3>3. Answered("candidates") /\ Answered("aggregate") /\ Answered("groups") /\ Answered("names") /\ Answered("problems")
          BY <3>1, <3>2
    <3>4. ASSUME disturbed = 0
          PROVE  /\ got["candidates"] = Aggregated /\ got["aggregate"] = Aggregated /\ got["groups"] = Grouped
                 /\ got["names"] = Cardinality(NamesThere)
                 /\ got["problems"] = RowsOf(Limited(Erroneous, ProblemRank, 1))
          BY <1>4, <3>3, <3>4 DEF Answered, Right, Reply
    <3>5. disturbed = 0 => SearchAddsUp(r)
          BY <1>1, <2>1, <3>4, SearchIsRight
    <3>6. QED  BY <2>1, <3>5 DEF SearchResult
  <2>3. CASE Answered("candidates") /\ ~Passes(f, got["candidates"])
    <3>1. disturbed = 0 => got["candidates"] = Aggregated
          BY <2>3 DEF Answered, Right, Reply
    <3>2. disturbed = 0 => SearchAddsUp(r)
          BY <1>1, <2>1, <2>3, <3>1, SearchIsRight
    <3>3. QED  BY <2>1, <3>2 DEF SearchResult
  <2>4. QED  BY <1>1, <2>2, <2>3
<1>5. CASE inspecting.tool = "inspect_worker"
  <2> DEFINE p == <<"worker", "references">>
  <2>1. \A k \in 1 .. Len(p) : Answered(p[k])
        BY <1>1, <1>2, <1>5, PlansAre
  <2>2. Len(p) = 2 /\ p[1] = "worker"
        OBVIOUS
  <2> HIDE DEF p
  <2>3. Answered("worker")
        BY <2>1, <2>2
  <2>4. got["worker"] \in Inspected
        BY <2>3 DEF Answered
  <2>5. r = WorkerOverview(got["worker"], got["references"])
        BY <1>5 DEF Result
  <2>6. r.kind = "worker" /\ WorkerAddsUp(r)
        BY <2>4, <2>5, WorkerIsWhole
  <2>7. QED  BY <2>6
<1>6. QED  BY <1>1, <1>3, <1>4, <1>5 DEF McpCall

-----------------------------------------------------------------------------
(* Each step.                                                                *)
LEMMA BeginningKeeps ==
    ASSUME InspectionInv, NEW tool \in McpCall, NEW filter \in Filters, CallsTool(tool, filter)
    PROVE  InspectionInv'
<1>1. /\ inspecting' = [tool |-> tool, filter |-> filter, todo |-> Plan(tool)]
      /\ response' = Silence /\ disturbed' = 0 /\ UNCHANGED <<members, inspection>>
      BY DEF CallsTool
<1>2. /\ inspecting'.tool = tool /\ inspecting'.todo = Plan(tool)
      /\ inspecting' \in [tool : McpCall, filter : Filters, todo : Seq(Query)]
      BY <1>1, PlanIs
<1>3. Underway(inspecting.todo, Plan(inspecting.tool))'
      BY <1>2, PlanIs DEF Underway
<1>4. CallInv'
      BY <1>1, <1>2, <1>3 DEF CallInv
<1>5. InspectionsAddUp'
      BY <1>1 DEF InspectionsAddUp, Silence
<1>6. QED  BY <1>1, <1>4, <1>5 DEF InspectionInv, MembersTyped

LEMMA SilenceKeeps ==
    ASSUME InspectionInv, inspecting' = Idling, UNCHANGED <<members, inspection, disturbed>>,
           response'.kind \in {"none", "error"}
    PROVE  InspectionInv'
BY DEF InspectionInv, MembersTyped, CallInv, InspectionsAddUp

LEMMA AnswerKeepsCall ==
    ASSUME InspectionInv, QueryAnswers, NEW todo, NEW tool, NEW filter, NEW q,
           todo = inspecting.todo, tool = inspecting.tool, filter = inspecting.filter, q = Head(todo)
    PROVE  InspectionInv'
<1> DEFINE asks == Plan(tool)
           stops == q = "candidates" /\ ~Passes(filter, Aggregated)
           n == Len(todo)
           m == Len(asks) - n
           rest == Tail(todo)
<1>1. /\ MembersTyped /\ inspection \in Inspected \cup {NoWorker} /\ disturbed \in Nat /\ response = Silence
      /\ inspecting \in [tool : McpCall, filter : Filters, todo : Seq(Query)] /\ todo # <<>> /\ Underway(todo, asks)
      BY DEF InspectionInv, CallInv, QueryAnswers
<1>2. /\ got' = [p \in DOMAIN got \cup {q} |-> IF p = q THEN Reply(p) ELSE got[p]]
      /\ inspecting' = [inspecting EXCEPT !.todo = IF stops THEN <<>> ELSE Tail(todo)]
      /\ UNCHANGED <<members, inspection, disturbed, response>> /\ ~Missing(q)
      BY DEF QueryAnswers
<1>3. /\ inspecting'.tool = tool /\ inspecting'.filter = filter
      /\ inspecting'.todo = IF stops THEN <<>> ELSE Tail(todo)
      /\ tool \in McpCall /\ filter \in Filters /\ todo \in Seq(Query)
      BY <1>1, <1>2
<1>4. rest \in Seq(Query) /\ n \in Nat /\ n > 0 /\ Len(rest) = n - 1
      BY <1>1, <1>3
<1>5. q = todo[1] /\ \A k \in 1 .. n - 1 : rest[k] = todo[k + 1]
      BY <1>1, <1>3
<1>6. /\ inspecting' \in [tool : McpCall, filter : Filters, todo : Seq(Query)]
  <2>1. inspecting'.todo \in Seq(Query)
        BY <1>3, <1>4
  <2>2. QED  BY <1>1, <1>2, <2>1
<1>7. /\ Len(asks) \in Nat /\ n <= Len(asks)
      /\ \A k \in 1 .. n : todo[k] = asks[m + k]
      /\ \A k \in 1 .. m : Answered(asks[k])
      BY <1>1, <1>3, PlanIs DEF Underway
<1>8. /\ \A k \in 1 .. Len(asks) : /\ asks[k] = "candidates" => tool = "search_workflows"
                                   /\ asks[k] = "members" => k = 9 /\ asks[4] = "total"
      BY <1>3, PlanIs
<1>9. m \in Nat /\ m + n = Len(asks) /\ m + 1 \in 1 .. Len(asks) /\ Len(asks) - Len(rest) = m + 1
  <2>1. \A a, b, c \in Nat : b > 0 /\ b <= a /\ c = b - 1 =>
           /\ a - b \in Nat /\ (a - b) + b = a /\ (a - b) + 1 \in 1 .. a /\ a - c = (a - b) + 1
        OBVIOUS
  <2>2. Len(rest) \in Nat
        BY <1>4
  <2> HIDE DEF n, rest, asks
  <2>3. QED  BY <1>4, <1>7, <2>1, <2>2
<1> HIDE DEF asks, n, m, rest
<1>10. q = asks[m + 1]
      BY <1>4, <1>5, <1>7
<1>11. disturbed = 0 => Reply(q) = Right(q)
  <2>1. CASE q = "members"
    <3>1. m + 1 = 9 /\ asks[4] = "total"
          BY <1>8, <1>9, <1>10, <2>1
    <3>2. Answered("total")
          BY <1>7, <1>9, <3>1
    <3>3. disturbed = 0 => got["total"] = Cardinality(There)
          BY <3>2 DEF Answered, Right, Reply
    <3>4. QED  BY <2>1, <3>3 DEF Right, Reply
  <2>2. CASE q # "members"
        BY <2>2 DEF Right
  <2>3. QED  BY <2>1, <2>2
<1>12. q = "worker" => Reply(q) \in Inspected
       BY <1>1, <1>2 DEF Reply, Missing
<1>13. \A p : Right(p)' = Right(p)
       BY <1>2, <1>3, RightKeeps
<1>14. Answered(q)' /\ got'[q] = Reply(q)
  <2>1. q \in DOMAIN got' /\ got'[q] = Reply(q)
        BY <1>2
  <2>2. QED  BY <1>2, <1>11, <1>12, <1>13, <2>1 DEF Answered
<1>15. \A p : Answered(p) => Answered(p)'
  <2> SUFFICES ASSUME NEW p, Answered(p), p # q PROVE Answered(p)'
      BY <1>14
  <2>1. p \in DOMAIN got' /\ got'[p] = got[p]
        BY <1>2 DEF Answered
  <2>2. QED  BY <1>2, <1>13, <2>1 DEF Answered
<1>16. CASE stops
  <2>1. tool = "search_workflows" /\ inspecting'.todo = <<>>
    <3>1. q = "candidates"
          BY <1>16
    <3> HIDE DEF stops
    <3>2. inspecting'.todo = <<>>
          BY <1>3, <1>16
    <3>3. asks[m + 1] = "candidates" => tool = "search_workflows"
          BY <1>8, <1>9
    <3>4. QED  BY <1>10, <3>1, <3>2, <3>3
  <2>2. Reply(q) = Aggregated
        BY <1>16 DEF Reply
  <2>3. Answered("candidates")' /\ ~Passes(filter, got'["candidates"])
        BY <1>14, <1>16, <2>2
  <2>4. CallInv'
        BY <1>1, <1>2, <1>3, <1>6, <2>1, <2>3 DEF CallInv
  <2>5. QED  BY <1>1, <1>2, <2>4 DEF InspectionInv, MembersTyped, InspectionsAddUp, Silence
<1>17. CASE ~stops
  <2>1. inspecting'.todo = rest
        BY <1>3, <1>17 DEF rest
  <2>2. Len(rest) <= Len(asks) /\ \A k \in 1 .. Len(rest) : rest[k] = asks[Len(asks) - Len(rest) + k]
    <3>1. Len(rest) <= Len(asks)
          BY <1>4, <1>7
    <3>2. ASSUME NEW k \in 1 .. n - 1 PROVE rest[k] = asks[m + 1 + k]
      <4>1. k + 1 \in 1 .. n /\ m + (k + 1) = m + 1 + k
            BY <1>4, <1>9
      <4>2. QED  BY <1>5, <1>7, <4>1
    <3>3. QED  BY <1>4, <1>9, <3>1, <3>2
  <2>3. \A k \in 1 .. m + 1 : Answered(asks[k])'
    <3> SUFFICES ASSUME NEW k \in 1 .. m + 1 PROVE Answered(asks[k])'
        OBVIOUS
    <3>1. CASE k = m + 1
          BY <1>14, <1>10, <3>1
    <3>2. CASE k \in 1 .. m
          BY <1>7, <1>15, <3>2
    <3>3. QED  BY <1>9, <3>1, <3>2
  <2>4. Underway(inspecting.todo, Plan(inspecting.tool))'
    <3>1. Len(asks) - Len(rest) = m + 1
          BY <1>9
    <3>2. \A k \in 1 .. Len(asks) - Len(rest) : Answered(asks[k])'
          BY <2>3, <3>1
    <3>3. QED  BY <1>3, <2>1, <2>2, <3>2 DEF Underway, asks
  <2>5. CallInv'
        BY <1>1, <1>2, <1>6, <2>4 DEF CallInv
  <2>6. QED  BY <1>1, <1>2, <2>5 DEF InspectionInv, MembersTyped, InspectionsAddUp, Silence
<1>18. QED  BY <1>16, <1>17

LEMMA AnsweringKeeps ==
    ASSUME InspectionInv, QueryAnswers
    PROVE  InspectionInv'
<1>1. PICK todo, tool, filter, q :
         todo = inspecting.todo /\ tool = inspecting.tool /\ filter = inspecting.filter /\ q = Head(todo)
      OBVIOUS
<1>2. QED  BY <1>1, AnswerKeepsCall

LEMMA RespondingKeeps ==
    ASSUME InspectionInv, Responds
    PROVE  InspectionInv'
<1>1. inspecting # Idling /\ inspecting.todo = <<>> /\ inspecting' = Idling /\ UNCHANGED <<members, inspection, disturbed>>
      BY DEF Responds, Ends
<1>2. CASE response'.kind = "error"
      BY <1>1, <1>2, SilenceKeeps
<1>3. CASE response' = Result \/ (inspecting.tool = "inspect_workflow" /\ response' = [Result EXCEPT !.members = <<>>, !.whole = FALSE])
  <2>1. PICK r : r = response'
        OBVIOUS
  <2>2. /\ r.kind = "workflow" /\ disturbed = 0 => OverviewAddsUp(r)
        /\ r.kind = "found" /\ disturbed = 0 => SearchAddsUp(r)
        /\ r.kind = "worker" => WorkerAddsUp(r)
        BY <1>1, <1>3, <2>1, ResultsAddUp
  <2>3. /\ r.kind = "workflow" /\ disturbed = 0 => OverviewAddsUp(r)'
        /\ r.kind = "found" /\ disturbed = 0 => SearchAddsUp(r)'
        BY <1>1, <2>2, AddsUpKeeps
  <2>4. /\ response'.kind = "workflow" /\ disturbed' = 0 => OverviewAddsUp(response)'
        /\ response'.kind = "found" /\ disturbed' = 0 => SearchAddsUp(response)'
        /\ response'.kind = "worker" => WorkerAddsUp(response')
        BY <1>1, <2>1, <2>2, <2>3 DEF OverviewAddsUp, SearchAddsUp, WorkflowAddsUp
  <2>5. InspectionsAddUp'
        BY <2>4 DEF InspectionsAddUp
  <2>6. QED  BY <1>1, <2>5 DEF InspectionInv, MembersTyped, CallInv
<1>4. QED  BY <1>2, <1>3 DEF Responds, Ends

LEMMA DisturbingKeeps ==
    ASSUME InspectionInv, Disturbs, members' \in [Member -> Reports \cup {NoRow}], inspection' \in Inspected \cup {NoWorker}
    PROVE  InspectionInv'
<1>1. /\ inspecting # Idling /\ disturbed' = disturbed + 1 /\ disturbed \in Nat /\ response = Silence
      /\ UNCHANGED <<inspecting, got, response>>
      BY DEF Disturbs, InspectionInv, CallInv
<1>2. disturbed' \in Nat /\ disturbed' # 0
      BY <1>1
<1>3. \A q : Answered(q) => Answered(q)'
      BY <1>1, <1>2 DEF Answered
<1>4. inspecting \in [tool : McpCall, filter : Filters, todo : Seq(Query)]
      BY <1>1 DEF InspectionInv, CallInv
<1>5. CASE Underway(inspecting.todo, Plan(inspecting.tool))
  <2>1. Underway(inspecting.todo, Plan(inspecting.tool))'
        BY <1>1, <1>3, <1>5 DEF Underway
  <2>2. CallInv'
        BY <1>1, <1>4, <2>1 DEF CallInv
  <2>3. QED  BY <1>1, <1>2, <2>2 DEF InspectionInv, MembersTyped, InspectionsAddUp, Silence
<1>6. CASE /\ inspecting.tool = "search_workflows" /\ inspecting.todo = <<>>
           /\ Answered("candidates") /\ ~Passes(inspecting.filter, got["candidates"])
  <2>1. Answered("candidates")' /\ ~Passes(inspecting.filter, got["candidates"])'
        BY <1>1, <1>3, <1>6
  <2>2. CallInv'
        BY <1>1, <1>4, <1>6, <2>1 DEF CallInv
  <2>3. QED  BY <1>1, <1>2, <2>2 DEF InspectionInv, MembersTyped, InspectionsAddUp, Silence
<1>7. QED  BY <1>1, <1>5, <1>6 DEF InspectionInv, CallInv

LEMMA InspectionsHold ==
    ASSUME InspectionInv, [InspectionsNext]_inspectionVars
    PROVE  InspectionInv'
<1>1. ASSUME NEW tool \in {"inspect_workflow", "search_workflows", "inspect_worker"}, NEW f \in Filters, CallsTool(tool, f)
      PROVE  InspectionInv'
      BY <1>1, BeginningKeeps DEF McpCall
<1>2. ASSUME IsDenied PROVE InspectionInv'
      BY <1>2, SilenceKeeps DEF IsDenied, Ends
<1>3. ASSUME NEW why \in {"timeout", "failed", "nothing"}, QueryEnds(why) PROVE InspectionInv'
      BY <1>3, SilenceKeeps DEF QueryEnds, Ends
<1>4. ASSUME NEW t \in Member, NEW r \in Reports, WritesMember(t, r) PROVE InspectionInv'
  <2>1. Disturbs /\ members' \in [Member -> Reports \cup {NoRow}] /\ inspection' \in Inspected \cup {NoWorker}
        BY <1>4 DEF WritesMember, InspectionInv, MembersTyped
  <2>2. QED  BY <2>1, DisturbingKeeps
<1>5. ASSUME CleansWorkflow PROVE InspectionInv'
  <2>1. Disturbs /\ members' \in [Member -> Reports \cup {NoRow}] /\ inspection' \in Inspected \cup {NoWorker}
        BY <1>5 DEF CleansWorkflow, InspectionInv
  <2>2. QED  BY <2>1, DisturbingKeeps
<1>6. ASSUME NEW w \in Inspected \cup {NoWorker}, WritesWorker(w) PROVE InspectionInv'
  <2>1. Disturbs /\ members' \in [Member -> Reports \cup {NoRow}] /\ inspection' \in Inspected \cup {NoWorker}
        BY <1>6 DEF WritesWorker, InspectionInv, MembersTyped
  <2>2. QED  BY <2>1, DisturbingKeeps
<1>7. ASSUME NEW g, PolicyAnswers(g) PROVE InspectionInv'
      BY <1>7, SilenceKeeps DEF PolicyAnswers, Silence
<1>8. ASSUME UNCHANGED inspectionVars PROVE InspectionInv'
  <2>1. /\ UNCHANGED <<members, inspection, disturbed, inspecting, got, response>>
        BY <1>8 DEF inspectionVars
  <2>2. \A q : Answered(q)' <=> Answered(q)
        BY <2>1, RightKeeps DEF Answered
  <2>3. CallInv'
        BY <2>1, <2>2 DEF InspectionInv, CallInv, Underway
  <2>4. InspectionsAddUp'
    <3>1. PICK r : r = response
          OBVIOUS
    <3>2. /\ r.kind = "workflow" /\ disturbed = 0 => OverviewAddsUp(r)
          /\ r.kind = "found" /\ disturbed = 0 => SearchAddsUp(r)
          /\ r.kind = "worker" => WorkerAddsUp(r)
          BY <3>1 DEF InspectionInv, InspectionsAddUp
    <3>3. /\ r.kind = "workflow" /\ disturbed = 0 => OverviewAddsUp(r)'
          /\ r.kind = "found" /\ disturbed = 0 => SearchAddsUp(r)'
          BY <2>1, <3>2, AddsUpKeeps
    <3>4. /\ response'.kind = "workflow" /\ disturbed' = 0 => OverviewAddsUp(response)'
          /\ response'.kind = "found" /\ disturbed' = 0 => SearchAddsUp(response)'
          /\ response'.kind = "worker" => WorkerAddsUp(response')
          BY <2>1, <3>1, <3>2, <3>3 DEF OverviewAddsUp, SearchAddsUp, WorkflowAddsUp
    <3>5. QED  BY <3>4 DEF InspectionsAddUp
  <2>5. QED  BY <2>1, <2>3, <2>4 DEF InspectionInv, MembersTyped
<1>9. QED
      BY <1>1, <1>2, <1>3, <1>4, <1>5, <1>6, <1>7, <1>8, AnsweringKeeps, RespondingKeeps DEF InspectionsNext

(* If nothing is written during a call of a tool, what it answers adds up,   *)
(* though every part is another query (workflows.ts:87-325); of a worker,    *)
(* whatever is written (workers.ts:46-271).                                  *)
THEOREM InspectionsAlwaysAddUp == InspectionsSpec => []InspectionsAddUp
<1>1. InspectionsInit => InspectionInv
      BY DEF InspectionsInit, InspectionInv, MembersTyped, CallInv, InspectionsAddUp, Silence
<1>2. InspectionInv /\ [InspectionsNext]_inspectionVars => InspectionInv'
      BY InspectionsHold
<1>3. InspectionInv => InspectionsAddUp
      BY DEF InspectionInv
<1>4. QED  BY <1>1, <1>2, <1>3, PTL DEF InspectionsSpec

(* What MCP answers adds up: the pages of a list give every item that was    *)
(* there throughout once and in order, and the parts of an overview agree    *)
(* with each other (runtime/mcp/common.ts:124-225, workflows.ts:87-325,      *)
(* workers.ts:46-271).                                                       *)
THEOREM AnswersAlwaysAddUp == McpSpec /\ InspectionsSpec => []AnswersAddUp
<1>1. PagesAddUp /\ InspectionsAddUp => AnswersAddUp
      BY DEF AnswersAddUp
<1>2. QED  BY <1>1, PagesAlwaysAddUp, InspectionsAlwaysAddUp, PTL
=============================================================================
