------------------------------- MODULE TaskPage -------------------------------
(* The page of a task and the comparison of two                              *)
(* (src/routes/tasks.$taskId.tsx, src/hooks/use-task-workflow.ts,            *)
(* src/routes/tasks.compare.tsx): which record the page shows while its user *)
(* moves from task to task and calls are on their way.  The calls of a       *)
(* connection are answered in the order they were made, and the server asks  *)
(* each subscription to read again from time to time.                        *)
EXTENDS Integers, Sequences, FiniteSets

CONSTANTS
    Openable,           \* tasks that have a page
    TypeOfTask,         \* the type of each
    Values,             \* the arguments, the result and the exception that are kept of each
    Withheld,           \* the sets of fields a reader may be denied
    MaxMoves,           \* bound on changes of page
    MaxInFlight,        \* bound on calls on their way at a refresh
    MaxRewrites,        \* bound on changes of the records
    MaxRejected         \* bound on calls that fail

CONSTANT Nobody        \* null

ASSUME TaskPageAssumption ==
    /\ Openable # {} /\ Nobody \notin Openable
    /\ DOMAIN TypeOfTask = Openable /\ DOMAIN Values = Openable
    /\ \A t \in Openable : DOMAIN Values[t] = {"input", "result", "failure"}
    /\ \A S \in Withheld : S \subseteq {"input", "result", "failure"}
    /\ {MaxMoves, MaxInFlight, MaxRewrites, MaxRejected} \subseteq Nat

VARIABLES
    place,              \* the URL: [at, task] or [at, left, right, type]
    run,                \* runs of the effect of useTaskWorkflow, and mounts of its page
    view,               \* the state and the references of the hook
    inFlight,           \* calls on their way, oldest first
    listeners,          \* subscriptions that are heard, oldest first
    version,            \* how often the records were changed, 0 if there is no task yet
    denied,             \* the fields the reader is denied
    spent               \* what is left of the bounds

taskPageVars == <<place, run, view, inFlight, listeners, version, denied, spent>>

TaskPlace(t) == [at |-> "task", task |-> t]
ComparePlace(l, r, type) == [at |-> "compare", left |-> l, right |-> r, type |-> type]
Elsewhere == [at |-> "elsewhere"]
ThisRun == [effect |-> run.effect, mount |-> run.mount]

(* fetchSnapshot and the LIVE query, made for a task in a run of the effect. *)
CallOf(kind, t, by) == [kind |-> kind, task |-> t, by |-> by]

FreshHook == [task |-> Nobody, version |-> 0, loading |-> TRUE, error |-> FALSE, held |-> 0]

TaskPageInit ==
    /\ place = Elsewhere /\ run = [effect |-> 0, mount |-> 0]
    /\ view = FreshHook /\ inFlight = <<>> /\ listeners = <<>>
    /\ version = 0 /\ denied \in Withheld
    /\ spent = [moves |-> 0, rejected |-> 0]

Moving == spent.moves < MaxMoves /\ spent' = [spent EXCEPT !.moves = @ + 1]

(* The cleanup of the effect ends the subscription that is held.             *)
Kept == SelectSeq(listeners, LAMBDA s : s.by.effect # view.held)

-----------------------------------------------------------------------------
(* Mutant: the first reading is made by a function that was not made anew. *)
StartedWithOld(h, t, by) ==
    /\ view' = [h EXCEPT !.loading = TRUE, !.held = 0]
    /\ inFlight' = Append(inFlight, CallOf("snapshot", IF h.task = Nobody THEN t ELSE h.task, by))

(* A link to a task: within the page of another the hook stays, with what it *)
(* holds; the effect runs again.                                             *)
StartedWith(h, t, by) ==
    /\ view' = [h EXCEPT !.loading = TRUE, !.held = 0]
    /\ inFlight' = Append(inFlight, CallOf("snapshot", t, by))

EntersTask(t) ==
    /\ Moving /\ place.at # "task"
    /\ place' = TaskPlace(t)
    /\ run' = [effect |-> run.effect + 1, mount |-> run.mount + 1]
    /\ StartedWith(FreshHook, t, run')
    /\ UNCHANGED <<listeners, version, denied>>

FollowsLink(t) ==
    /\ Moving /\ place.at = "task" /\ place.task # t
    /\ place' = TaskPlace(t)
    /\ run' = [run EXCEPT !.effect = @ + 1]
    /\ listeners' = Kept
    /\ StartedWith(view, t, run')
    /\ UNCHANGED <<version, denied>>

(* The buttons of the header are for the task that is shown.                 *)
LeavesFor(p) ==
    /\ Moving /\ place.at = "task" /\ place' = p
    /\ run' = [effect |-> run.effect + 1, mount |-> run.mount + 1]
    /\ listeners' = Kept /\ view' = FreshHook
    /\ UNCHANGED <<inFlight, version, denied>>

FindsSimilar == view.task # Nobody /\ LeavesFor(Elsewhere)

StartsComparison ==
    /\ view.task # Nobody
    /\ LeavesFor(ComparePlace(view.task, Nobody, TypeOfTask[view.task]))

OpensPicker ==
    /\ Moving /\ place = Elsewhere /\ place' = ComparePlace(Nobody, Nobody, Nobody)
    /\ UNCHANGED <<run, view, inFlight, listeners, version, denied>>

(* What can be clicked in the picker: of the type asked for, not selected.   *)
Candidates ==
    {t \in Openable : place.type \in {Nobody, TypeOfTask[t]} /\ t \notin {place.left, place.right}}

PicksTask(t) ==
    /\ place.at = "compare" /\ Nobody \in {place.left, place.right}
    /\ version > 0 /\ t \in Candidates
    /\ place' = IF place.left = Nobody THEN [place EXCEPT !.left = t] ELSE [place EXCEPT !.right = t]
    /\ UNCHANGED <<run, view, inFlight, listeners, version, denied, spent>>

-----------------------------------------------------------------------------
(* A state that is set in a page that is gone has no effect.                 *)
IsMounted(c) == c.by.mount = run.mount /\ place.at = "task"

(* fetchSnapshot sets what it read, even if the effect that asked is over;   *)
(* only a first call of one that is not over goes on to subscribe.           *)
SnapshotArrives ==
    /\ inFlight # <<>> /\ Head(inFlight).kind \in {"snapshot", "again"}
    /\ LET c == Head(inFlight)
       IN  /\ view' = IF ~IsMounted(c) THEN view
                      ELSE [view EXCEPT !.task = IF version = 0 THEN Nobody ELSE c.task,
                                        !.version = version, !.error = FALSE, !.loading = FALSE]
           /\ inFlight' = IF c.kind = "snapshot" /\ c.by = ThisRun
                       THEN Append(Tail(inFlight), CallOf("live", c.task, c.by)) ELSE Tail(inFlight)
    /\ UNCHANGED <<place, run, listeners, version, denied, spent>>

(* The subscription is held from here on, though the effect may be over.     *)
LiveArrives ==
    /\ inFlight # <<>> /\ Head(inFlight).kind = "live"
    /\ LET c == Head(inFlight)
       IN  /\ listeners' = Append(listeners, c)
           /\ view' = IF c.by.mount = run.mount THEN [view EXCEPT !.held = c.by.effect] ELSE view
    /\ inFlight' = Tail(inFlight)
    /\ UNCHANGED <<place, run, version, denied, spent>>

CallRejected ==
    /\ spent.rejected < MaxRejected /\ inFlight # <<>>
    /\ spent' = [spent EXCEPT !.rejected = @ + 1]
    /\ LET c == Head(inFlight)
       IN  /\ view' = IF IsMounted(c) THEN [view EXCEPT !.error = TRUE, !.loading = FALSE] ELSE view
           /\ inFlight' = IF c.kind = "snapshot" /\ c.by = ThisRun
                       THEN Append(Tail(inFlight), CallOf("live", c.task, c.by)) ELSE Tail(inFlight)
    /\ UNCHANGED <<place, run, listeners, version, denied>>

(* The server's refresh: each subscription reads again what it was made for. *)
Refreshed ==
    /\ listeners # <<>> /\ Len(inFlight) + Len(listeners) <= MaxInFlight
    /\ inFlight' = inFlight \o [i \in DOMAIN listeners |->
                             CallOf("again", listeners[i].task, listeners[i].by)]
    /\ UNCHANGED <<place, run, view, listeners, version, denied, spent>>

Rewritten ==
    /\ version < MaxRewrites /\ version' = version + 1
    /\ UNCHANGED <<place, run, view, inFlight, listeners, denied, spent>>

TaskPageNext ==
    \/ \E t \in Openable : EntersTask(t) \/ FollowsLink(t) \/ PicksTask(t)
    \/ FindsSimilar \/ StartsComparison \/ OpensPicker
    \/ SnapshotArrives \/ LiveArrives \/ CallRejected \/ Refreshed \/ Rewritten

(* Without fairness, which the whole browser states.                         *)
TaskPageSpec == TaskPageInit /\ [][TaskPageNext]_taskPageVars

-----------------------------------------------------------------------------
(* What the page of a task shows: an error before anything else, and the old *)
(* task as long as nothing of the new one has arrived.                       *)
TaskScreen ==
    CASE view.error -> "error"
      [] ~view.error /\ view.task # Nobody -> "task"
      [] ~view.error /\ view.task = Nobody /\ view.loading -> "skeleton"
      [] OTHER -> "not found"

(* What the reader gets of a field, and what differs of two.                 *)
ReadField(t, f) == IF f \in denied THEN Nobody ELSE Values[t][f]
Differs(f) == ReadField(place.left, f) # ReadField(place.right, f)

(* ArgumentComparison and ResultComparison: each shows nothing if a field of *)
(* it is withheld, has a badge, and marks the rows that differ.  The badge   *)
(* of the second goes by the result alone, not by the exception.             *)
Cards == {"arguments", "result"}
FieldsOf(card) == IF card = "arguments" THEN {"input"} ELSE {"result", "failure"}
JudgedBy(card) == IF card = "arguments" THEN {"input"} ELSE {"result"}
MarkedIn(card) == {f \in FieldsOf(card) : Differs(f)}

Verdict(card) ==
    IF FieldsOf(card) \cap denied # {} THEN "restricted"
    ELSE IF JudgedBy(card) \cap MarkedIn(card) # {} THEN "Different" ELSE "Identical"

(* A subscription made for another task is heard, and none made for this one:*)
(* it was left behind by a move while its LIVE query was on its way, and the *)
(* LIVE query of this page failed.                                           *)
OnlyOthersHeard == listeners # <<>> /\ \A i \in DOMAIN listeners : listeners[i].by # ThisRun

ShowsItsTask ==
    \/ TaskScreen = "error"
    \/ TaskScreen = "task" /\ view.task = place.task
    \/ TaskScreen = "not found" /\ version = 0

ComparesTwo ==
    /\ place.left # place.right
    /\ \A card \in Cards :
        LET differing == {f \in FieldsOf(card) : Values[place.left][f] # Values[place.right][f]}
        IN  \/ Verdict(card) = "restricted" /\ FieldsOf(card) \cap denied # {}
            \/ /\ FieldsOf(card) \cap denied = {} /\ MarkedIn(card) = differing
               /\ Verdict(card) = "Identical" <=> differing \cap {"input", "result"} = {}

(* Once the user stays, and whatever was left in flight when they moved on,  *)
(* the page comes to show the task its URL names, or that it failed, and     *)
(* shows it whenever the calls are answered - unless only what was left      *)
(* behind is heard.  Two tasks that are compared are two; a card compares    *)
(* what is kept of both or nothing, marks what differs, and calls arguments  *)
(* or results identical only if they are - "Identical" says nothing of the   *)
(* exceptions, which are marked beneath it (useTaskWorkflow, TaskPage,       *)
(* TaskComparisonPicker, TaskComparisonView).                                *)
PageShowsItsTask ==
    /\ <>[](place.at = "task" /\ inFlight = <<>> /\ ~OnlyOthersHeard => ShowsItsTask)
    /\ [](place.at = "compare" /\ Nobody \notin {place.left, place.right} => ComparesTwo)
=============================================================================
