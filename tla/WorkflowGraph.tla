---------------------------- MODULE WorkflowGraph ----------------------------
(* The flow chart of a workflow (src/components/workflow/flow-chart.tsx): a  *)
(* tree of its tasks, laid out in columns by depth and rows by leaf, from    *)
(* records of which some may be missing, name parents that are not there,    *)
(* name each other, or list children that are listed elsewhere too.          *)
EXTENDS Integers, Sequences, FiniteSets
LOCAL INSTANCE SequencesExt

CONSTANTS
    Drawable,           \* tasks: numbers, in the order of their ids
    Listed              \* the lists of children a record may have

ASSUME WorkflowGraphAssumption ==
    /\ Drawable \subseteq Nat \ {0} /\ Drawable # {}
    /\ Listed \subseteq SUBSET Drawable

VARIABLES
    parentOf,           \* parent_id of each record, 0 if it has none
    childrenOf,         \* children of each record
    members             \* the records that are loaded

graphVars == <<parentOf, childrenOf, members>>

Orphan == 0
RootTask == CHOOSE t \in Drawable : \A u \in Drawable : t <= u

WorkflowGraphInit ==
    /\ parentOf \in [Drawable -> Drawable \cup {Orphan}]
    /\ childrenOf \in [Drawable -> Listed]
    /\ members = {}

(* useWorkflowTasks delivers what the server has of the workflow.            *)
Loads ==
    /\ members' \in SUBSET Drawable \ {members}
    /\ UNCHANGED <<parentOf, childrenOf>>

WorkflowGraphNext == Loads

-----------------------------------------------------------------------------
(* Rows are in units of 1/8, so that their middles are numbers: none of the  *)
(* trees drawn here is deeper than three.                                    *)
RowHeight == 8

Node(t, again, column, row) == [task |-> t, again |-> again, column |-> column, row |-> row]
Edge(t, u, again) == [source |-> t, target |-> u, again |-> again]

(* Mutant: a child in two lists is drawn for both. *)
ClaimsNone(t, graph) == {c \in childrenOf[t] \cap members : parentOf[c] = Orphan}

(* Children the record lists that have no parent of their own, and have not  *)
(* been claimed by a task drawn before.                                      *)
Claims(t, graph) ==
    {c \in childrenOf[t] \cap members : parentOf[c] = Orphan /\ c \notin graph.claimed}

Children(t, graph) == {c \in members : parentOf[c] = t} \cup Claims(t, graph)

(* A task that has been drawn is drawn again as a leaf, under another id.    *)
Replaced(graph, t, c, column) ==
    [graph EXCEPT !.nodes = Append(@, Node(c, TRUE, column, graph.leaf * RowHeight)),
                  !.edges = Append(@, Edge(t, c, TRUE)),
                  !.rows = Append(@, graph.leaf * RowHeight),
                  !.leaf = @ + 1]

(* visitTask: the task, then its children in order, and its row between that *)
(* of the first and that of the last of them.                                *)
RECURSIVE VisitTask(_, _, _)
VisitTask(t, column, graph) ==
    LET place == Len(graph.nodes) + 1
        child(g, c) ==
            IF c \in g.visited THEN Replaced(g, t, c, column + 1)
            ELSE LET below == VisitTask(c, column + 1, [g EXCEPT !.edges = Append(@, Edge(t, c, FALSE))])
                 IN  [below EXCEPT !.rows = Append(g.rows, below.row)]
        entered == [graph EXCEPT !.nodes = Append(@, Node(t, FALSE, column, 0)),
                                 !.visited = @ \cup {t},
                                 !.claimed = @ \cup Claims(t, graph),
                                 !.rows = <<>>]
        done == FoldLeft(child, entered, SetToSortSeq(Children(t, graph), <))
        row == IF done.rows = <<>> THEN done.leaf * RowHeight
               ELSE (Head(done.rows) + Last(done.rows)) \div 2
    IN  [done EXCEPT !.nodes[place].row = row,
                     !.row = row,
                     !.leaf = IF done.rows = <<>> THEN @ + 1 ELSE @]

Blank ==
    [nodes |-> <<>>, edges |-> <<>>, visited |-> {}, claimed |-> {RootTask},
     rows |-> <<>>, row |-> 0, leaf |-> 0]

(* getFlowGraph, with the root in row 0; nothing without its record.         *)
FlowGraph ==
    IF RootTask \notin members THEN Blank
    ELSE LET drawn == VisitTask(RootTask, 0, Blank)
         IN  [drawn EXCEPT !.nodes = [n \in DOMAIN @ |-> [@[n] EXCEPT !.row = @ - drawn.row]]]

-----------------------------------------------------------------------------
(* What belongs under the root: whoever names a task that does as parent,    *)
(* and who names nobody but is listed by such a task.                        *)
Belongs ==
    LET more(S) == S \cup {t \in members : \/ parentOf[t] \in S
                                           \/ parentOf[t] = Orphan /\ \E u \in S : t \in childrenOf[u]}
    IN  FoldSet(LAMBDA t, S : more(S), {RootTask} \cap members, Drawable)

(* The chart is a tree, whatever the records say: each task that belongs to  *)
(* the workflow is drawn once - only the root, if the records are a cycle,   *)
(* is drawn again -, every node but the root hangs on one edge, and no two   *)
(* of a column are less than a row apart (getFlowGraph, visitTask).          *)
GraphDrawsEachOnce ==
    LET graph == FlowGraph
        nodes == graph.nodes
        edges == graph.edges
        into(n) == {e \in DOMAIN edges : edges[e].target = nodes[n].task /\ edges[e].again = nodes[n].again}
    IN  /\ \A n, k \in DOMAIN nodes :
              n # k => /\ <<nodes[n].task, nodes[n].again>> # <<nodes[k].task, nodes[k].again>>
                       /\ nodes[n].column = nodes[k].column =>
                            \/ nodes[n].row >= nodes[k].row + RowHeight
                            \/ nodes[k].row >= nodes[n].row + RowHeight
        /\ {nodes[n].task : n \in DOMAIN nodes} = Belongs
        /\ \A n \in DOMAIN nodes : /\ nodes[n].again => nodes[n].task = RootTask
                                   /\ Cardinality(into(n)) = IF n = 1 THEN 0 ELSE 1
        /\ \A e \in DOMAIN edges : \E n \in DOMAIN nodes : e \in into(n)
=============================================================================
