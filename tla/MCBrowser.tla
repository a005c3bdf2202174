------------------------------ MODULE MCBrowser ------------------------------
(* A small instance of Browser.                                              *)
EXTENDS Browser, TLC

ShownOrHidden == {{}, {"row"}, {"row", "hidden"}}

CONSTANTS t1, t2, root1, child1, w1, w2
TwoTasks == {t1, t2}
OneFlow == {<<root1, child1>>}
TwoWorkers == <<w1, w2>>
Executing == t1 :> w1 @@ t2 :> w2 @@ root1 :> w2 @@ child1 :> w1
Planned == <<"single", "partial">>

(* The screens. *)
UpToOne == {S \in SUBSET Drawable : Cardinality(S) <= 1}
Added == t1 :> "add" @@ t2 :> "add"
(* Two sums that came to the same before they failed in different ways.     *)
Sums == t1 :> [input |-> 1, result |-> 1, failure |-> 1]
     @@ t2 :> [input |-> 2, result |-> 1, failure |-> 2]
OneOrNone == {{}, {"input"}, {"failure"}}
TwoGrains == <<<<3, 1>>, <<4, 3>>>>
RowsByMode == [tasks |-> {"r1", "r2"}, workflows |-> {"f1"}]
ValueByRow == [r1 |-> "a", r2 |-> "b", f1 |-> "a"]
ColumnsByMode == [tasks |-> {"last_updated", "type"}, workflows |-> {"last_updated"}]
DefaultsByMode == [tasks |-> {"last_updated"}, workflows |-> {"last_updated"}]
BehindAndAhead == {-1, 0, 2}
AllDay == {[from |-> 1, to |-> 6]}
TextMeans == "" :> 0 @@ "1" :> 1 @@ "-1" :> 99
ValueShows == 0 :> "" @@ 1 :> "1"
Administrator == {{"update", "clean", "import", "export", "clear", "bundle"}}
PagesByText == "" :> <<"home", "docs">> @@ "a" :> <<"home">>
FoundByText == "a" :> <<"worker", "task">>
=============================================================================
