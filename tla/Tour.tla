-------------------------------- MODULE Tour --------------------------------
(* The guided tour (src/layout/joyride-tour.tsx, tour-tooltip.tsx,           *)
(* src/stores/use-tour-store.ts): a store says which step is on, and is      *)
(* changed by the events of the library that shows the steps, by pages that  *)
(* come up while a step waits for them, and by a navigation that the tour    *)
(* awaits.  It may borrow the demo, whose change, like every loss of the     *)
(* connection, takes down the application with the tour in it.               *)
(*                                                                           *)
(* Whether there is a task, without which no step can be left forward, is    *)
(* left open, and so is whether the library notices that a target went away. *)
(* With the quick search and the keys it is what leads the user about.       *)
EXTENDS QuickAccess, Sequences

CONSTANTS
    MaxTours,           \* bound: starts of the tour
    MaxAwaited          \* bound: navigations of the tour under way

ASSUME TourAssumption == MaxTours \in Nat /\ MaxAwaited \in Nat

VARIABLES
    tour,               \* useTourStore: run, stepIndex, demoMode
    demo,               \* useSettingsStore's demo
    route,              \* the page, whether what it shows has been found, its chart
    tip,                \* the step whose tooltip is on the screen, or -1
    awaited,            \* handlers of the first step that wait for the dashboard
    toured              \* starts, the demo before the tour, whether the user then
                        \* set it, what the user has seen since, and whether the
                        \* first step was left twice

tourVars == <<tour, demo, route, tip, awaited, toured>>

Step(target, buttons) == [target |-> target, buttons |-> buttons]
All == {"back", "close", "primary"}

TaskSteps ==
    <<Step("body", All), Step("recent-tasks", {}), Step("task-header", All \ {"back"}),
      Step("workflow-chart", All), Step("workflow-selector", {}), Step("workflow-chart", All),
      Step("lifetime-chart", All), Step("task-details", {})>>

WorkerSteps ==
    <<Step("worker-details", All \ {"back"}), Step("worker-pool", All), Step("registered-tasks", {}),
      Step("body", All \ {"back"}), Step("filters-panel", All), Step("body", All)>>

TourSteps == TaskSteps \o WorkerSteps
StepOn == TourSteps[tour.stepIndex + 1]

Page(at) == [at |-> at, state |-> "loading", timeline |-> FALSE]

(* The targets that a page offers; the chart of a task may be restricted,    *)
(* and the panel of filters closed, which is the library's not to find them. *)
TaskTargets(p) ==
    IF p.state = "missing" THEN {}
    ELSE {"task-header", "workflow-chart", "workflow-selector", "lifetime-chart"} \cup
         IF p.state = "found" THEN {"task-details"} ELSE {}

WorkerTargets(p) ==
    IF p.state = "missing" THEN {} ELSE {"worker-details", "worker-pool", "registered-tasks"}

Targets(p) ==
    {"body"} \cup
    CASE p.at = "dashboard" -> {"recent-tasks"}
      [] p.at = "task" -> TaskTargets(p)
      [] p.at = "worker" -> WorkerTargets(p)
      [] p.at = "explorer" -> {"filters-panel"}
      [] OTHER -> {}

TimelineUp(p) == p.at = "task" /\ p.state = "found" /\ p.timeline

(* What comes up on a page is the step that the one before waits for.        *)
ComesUp(p) ==
    CASE p.at = "task" /\ p.state = "found" -> {2} \cup IF TimelineUp(p) THEN {5} ELSE {}
      [] p.at = "worker" /\ p.state # "missing" -> {8}
      [] p.at = "explorer" -> {11}
      [] OTHER -> {}

(* Mutant: a page takes the tour to its step from wherever it is. *)
JumpsAhead(t, p) ==
    IF t.run /\ ComesUp(p) # {} THEN [t EXCEPT !.stepIndex = CHOOSE n \in ComesUp(p) : TRUE] ELSE t

(* The effect of useTourChangeStepOnLoad.                                    *)
ChangedOnLoad(t, p) ==
    IF t.run /\ t.stepIndex + 1 \in ComesUp(p) THEN [t EXCEPT !.stepIndex = @ + 1] ELSE t

Seen(p) == ({p.at} \ {"dashboard", "settings"}) \cup IF TimelineUp(p) THEN {"timeline"} ELSE {}

(* A change of the store or of the page, and what follows from it; the       *)
(* library takes up a step that has changed anew.                            *)
Becomes(t, p) ==
    /\ tour' = ChangedOnLoad(t, p) /\ route' = p
    /\ tip' = IF tour' = tour THEN tip ELSE -1
    /\ toured' = [starts |-> toured.starts,
                  demo |-> IF tour.run THEN toured.demo ELSE t.run /\ demo,
                  touched |-> t.run /\ toured.touched,
                  seen |-> IF t.run THEN toured.seen \cup Seen(p) ELSE {}, twice |-> toured.twice]

TourInit ==
    /\ tour = [run |-> FALSE, stepIndex |-> 0, demoMode |-> FALSE] /\ demo = FALSE
    /\ route = Page("dashboard") /\ tip = -1 /\ awaited = 0
    /\ toured = [starts |-> 0, demo |-> FALSE, touched |-> FALSE, seen |-> {}, twice |-> FALSE]

-----------------------------------------------------------------------------
(* startTour, from the banner of the dashboard or from the settings.         *)
StartsTour ==
    /\ route.at \in {"dashboard", "settings"} /\ toured.starts < MaxTours
    /\ tour' = [tour EXCEPT !.run = TRUE, !.stepIndex = 0] /\ tip' = IF tour' = tour THEN tip ELSE -1
    /\ toured' = [starts |-> toured.starts + 1,
                  demo |-> IF tour.run THEN toured.demo ELSE demo,
                  touched |-> tour.run /\ toured.touched, seen |-> {}, twice |-> awaited > 1]
    /\ UNCHANGED <<demo, route, awaited>>

(* The library shows a step whose target is there.                           *)
ShowsStep ==
    /\ tour.run /\ tour.stepIndex < Len(TourSteps) /\ tip # tour.stepIndex
    /\ StepOn.target \in Targets(route)
    /\ tip' = tour.stepIndex /\ UNCHANGED <<tour, demo, route, awaited, toured>>

(* handleTourEvent: stopTour.                                                *)
StopsTour ==
    /\ demo' = (demo /\ ~tour.demoMode)
    /\ LET p == IF demo' = demo THEN route ELSE Page(route.at)
       IN  Becomes([tour EXCEPT !.run = FALSE, !.demoMode = FALSE], p)

TipUp == tip = tour.stepIndex /\ tour.run

ClosesTour == TipUp /\ StopsTour /\ UNCHANGED awaited

LosesTarget ==
    /\ tour.run /\ tour.stepIndex < Len(TourSteps) /\ StepOn.target # "body"
    /\ StopsTour /\ UNCHANGED awaited

FinishesTour == tour.run /\ tour.stepIndex >= Len(TourSteps) /\ StopsTour /\ UNCHANGED awaited

(* Mutant: any step can be left forward. *)
AnyStep(step) == TRUE

LeftForward(step) == "primary" \in step.buttons

(* The button of a step: the first goes to the dashboard before it counts.   *)
Forward ==
    /\ TipUp /\ tour.stepIndex > 0 /\ LeftForward(StepOn)
    /\ Becomes([tour EXCEPT !.stepIndex = @ + 1], route)
    /\ UNCHANGED <<demo, awaited>>

Back ==
    /\ TipUp /\ tour.stepIndex > 0 /\ "back" \in StepOn.buttons
    /\ Becomes([tour EXCEPT !.stepIndex = @ - 1], route)
    /\ UNCHANGED <<demo, awaited>>

Starting ==
    /\ TipUp /\ tour.stepIndex = 0 /\ awaited < MaxAwaited
    /\ awaited' = awaited + 1 /\ toured' = [toured EXCEPT !.twice = @ \/ awaited > 0]
    /\ tip' = -1

Start == Starting /\ UNCHANGED <<tour, demo, route>>

(* Mutant: the tour forgets that the demo is its own. *)
OnlyDemo == Starting /\ ~demo /\ demo' = TRUE /\ route' = Page(route.at) /\ UNCHANGED tour

(* Start with the demo, for which the application comes up anew.             *)
StartWithDemo ==
    /\ Starting /\ ~demo /\ demo' = TRUE /\ route' = Page(route.at)
    /\ tour' = [tour EXCEPT !.demoMode = TRUE]

(* The awaited navigation ends, on the dashboard unless the user went on.    *)
Lands ==
    /\ awaited > 0 /\ awaited' = awaited - 1
    /\ \E p \in {Page("dashboard"), route} :
            Becomes([tour EXCEPT !.run = TRUE, !.stepIndex = @ + 1], p)
    /\ UNCHANGED demo

-----------------------------------------------------------------------------
(* The user goes about; what a page shows is found, or is not there.         *)
Goes(at) ==
    /\ Becomes(tour, IF at = route.at THEN [route EXCEPT !.state = "loading"] ELSE Page(at))
    /\ UNCHANGED <<demo, awaited>>

PageLoads ==
    /\ route.at \in {"task", "worker"} /\ route.state = "loading"
    /\ \E state \in {"found", "missing"} : Becomes(tour, [route EXCEPT !.state = state])
    /\ UNCHANGED <<demo, awaited>>

SelectsChart ==
    /\ route.at = "task" /\ route.state # "missing"
    /\ Becomes(tour, [route EXCEPT !.timeline = ~@]) /\ UNCHANGED <<demo, awaited>>

(* The connection is lost and found: the application is put up anew.         *)
ComesUpAnew == tip' = -1 /\ route' = Page(route.at) /\ UNCHANGED <<tour, demo, awaited, toured>>

SetsDemo ==
    /\ route.at = "settings" /\ demo' = ~demo /\ tip' = -1
    /\ toured' = [toured EXCEPT !.touched = tour.run] /\ UNCHANGED <<tour, route, awaited>>

(* The settings outlive the page, the tour does not.                         *)
ReloadsTour ==
    /\ tour.run /\ tour' = [run |-> FALSE, stepIndex |-> 0, demoMode |-> FALSE] /\ tip' = -1
    /\ awaited' = 0 /\ route' = Page(route.at) /\ UNCHANGED <<demo, toured>>

TourNext ==
    \/ StartsTour \/ ShowsStep \/ ClosesTour \/ LosesTarget \/ FinishesTour
    \/ Forward \/ Back \/ Start \/ StartWithDemo \/ Lands
    \/ \E at \in {"dashboard", "task", "worker", "explorer", "settings"} : Goes(at)
    \/ PageLoads \/ SelectsChart \/ ComesUpAnew \/ SetsDemo \/ ReloadsTour

TourSpec == TourInit /\ [][TourNext]_tourVars

-----------------------------------------------------------------------------
(* However the user wanders, and the connection comes and goes: unless the   *)
(* first step was left twice, no step is on the screen before the user has   *)
(* been at the pages of the steps before it; a tour that ends leaves the     *)
(* demo as it found it, unless the user has set it meanwhile; and one that   *)
(* has ended comes back only when started again, or with a navigation that   *)
(* it had begun (handleTourEvent, useTourChangeStepOnLoad).                  *)
TourKeepsPace ==
    /\ [](tour.run /\ tip = tour.stepIndex /\ ~toured.twice =>
            /\ tip >= 2 => "task" \in toured.seen
            /\ tip >= 5 => "timeline" \in toured.seen
            /\ tip >= 8 => "worker" \in toured.seen
            /\ tip >= 11 => "explorer" \in toured.seen)
    /\ [][/\ (ClosesTour \/ LosesTarget \/ FinishesTour) /\ ~toured.touched => demo' = toured.demo
          /\ tour'.run /\ ~tour.run => toured'.starts > toured.starts \/ awaited > 0]_tourVars

(* What leads the user about: neither the quick search, nor the keys, nor    *)
(* the tour take the user where they did not ask to go                       *)
(* (quick-access-dialog.tsx, use-keyboard-shortcuts.tsx, joyride-tour.tsx).  *)
UserIsLed == EnterOpensWhatIsShown /\ HelpTellsWhatKeysDo /\ TourKeepsPace
=============================================================================
