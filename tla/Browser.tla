------------------------------- MODULE Browser -------------------------------
(* What runs in the page, each part in its own module: how it gets its       *)
(* connection, the live queries with the server's end of the socket, the     *)
(* sums over all tasks, the queries of the explorer and the search, the demo *)
(* with its own database, and the screens: the flow chart of a workflow, the *)
(* times of a task, its page and the comparison of two, the chart and the    *)
(* parameters of the explorer, the settings page, what a browser remembers,  *)
(* the dialog of the quick search, and the guided tour.  They share no state *)
(* that their properties speak of, so that a behaviour is one of any of      *)
(* them, and the others rest in an initial state.                            *)
EXTENDS Connection, Observation, Summaries, PageQueries, Demo,
        WorkflowGraph, TaskTimeline, TaskPage, Explorer, SettingsPage, QuickAccess, Tour

VARIABLES
    part,       \* the part that works
    opened      \* the screen that is open, if the screens are that part

screenVars == <<graphVars, timelineVars, taskPageVars, explorerPageVars,
                settingsVars, preferenceVars, dialogVars, tourVars, opened>>

ScreensInit ==
    /\ opened \in {"graph", "timeline", "task", "explorer", "settings", "preferences", "quick", "tour"}
    /\ WorkflowGraphInit
    /\ opened # "graph" => /\ parentOf = [t \in Drawable |-> Orphan]
                           /\ childrenOf \in [Drawable -> {CHOOSE S \in Listed : TRUE}]
    /\ TaskPageInit /\ (opened # "task" => denied = CHOOSE S \in Withheld : TRUE)
    /\ ExplorerInit
    /\ opened # "explorer" => search.mode = (CHOOSE m \in Modes : TRUE) /\ zone = CHOOSE z \in Zones : TRUE
    /\ TaskTimelineInit /\ (opened # "timeline" => raw.state = "PENDING")
    /\ SettingsPageInit /\ (opened # "settings" => ~snapshot)
    /\ PreferencesInit
    /\ opened # "preferences" => /\ ~demoBuild
                                 /\ deployment.demoAvailable
                                 /\ deployment.choice = CHOOSE c \in MayVary : TRUE
    /\ QuickAccessInit /\ TourInit

ScreensNext ==
    /\ UNCHANGED opened
    /\ IF opened = "graph" THEN WorkflowGraphNext ELSE UNCHANGED graphVars
    /\ IF opened = "timeline" THEN TaskTimelineNext ELSE UNCHANGED timelineVars
    /\ IF opened = "task" THEN TaskPageNext ELSE UNCHANGED taskPageVars
    /\ IF opened = "explorer" THEN ExplorerNext ELSE UNCHANGED explorerPageVars
    /\ IF opened = "settings" THEN SettingsPageNext ELSE UNCHANGED settingsVars
    /\ IF opened = "preferences" THEN PreferencesNext ELSE UNCHANGED preferenceVars
    /\ IF opened = "quick" THEN QuickAccessNext ELSE UNCHANGED dialogVars
    /\ IF opened = "tour" THEN TourNext ELSE UNCHANGED tourVars

browser == <<connectionVars, observationVars, summaryVars, pageVars, demoVars,
             screenVars, part>>

AtRest ==
    /\ part # "connection" => access = "denied"
    /\ part # "observation" => /\ policy = CHOOSE S \in Scopes : TRUE
                               /\ request = CHOOSE r \in Requests : TRUE
    /\ part # "pages" => params = CHOOSE p \in Pages : p.pages = 1

BrowserInit ==
    /\ part \in {"connection", "observation", "summaries", "pages", "demo", "screens"}
    /\ ScreensInit /\ (part # "screens" => opened = "timeline" /\ raw.state = "PENDING")
    /\ ConnectionInit /\ ObservationInit /\ SummariesInit /\ PageQueriesInit /\ DemoInit
    /\ AtRest

BrowserNext ==
    /\ UNCHANGED part
    /\ IF part = "connection" THEN ConnectionNext ELSE UNCHANGED connectionVars
    /\ IF part = "observation" THEN ObservationNext ELSE UNCHANGED observationVars
    /\ IF part = "summaries" THEN SummariesNext ELSE UNCHANGED summaryVars
    /\ IF part = "pages" THEN PageQueriesNext
       ELSE (part = "screens" /\ opened = "quick") \/ UNCHANGED pageVars
    /\ IF part = "demo" THEN DemoNext ELSE UNCHANGED demoVars
    /\ IF part = "screens" THEN ScreensNext ELSE UNCHANGED screenVars

(* The fairness of each part, of the part that works.                        *)
Connecting(A) == part = "connection" /\ A
Observing(A) == part = "observation" /\ A
Summing(A) == part = "summaries" /\ A
Reading(A) == part = "screens" /\ opened = "task" /\ A

BrowserSpec ==
    /\ BrowserInit /\ [][BrowserNext]_browser
    /\ WF_connectionVars(Connecting(ConfigArrives \/ ConfigFails))
    /\ WF_connectionVars(Connecting(Probes))
    /\ WF_connectionVars(Connecting(ProbeArrives \/ ProbeFails))
    /\ WF_connectionVars(Connecting(Expires)) /\ WF_connectionVars(Connecting(Rechecks))
    /\ WF_connectionVars(Connecting(Connected)) /\ WF_connectionVars(Connecting(ConnectFails))
    /\ WF_observationVars(Observing(RefreshTick))
    /\ WF_observationVars(Observing(Serves)) /\ WF_observationVars(Observing(Connects))
    /\ WF_summaryVars(Summing(Answers)) /\ WF_summaryVars(Summing(NotifiesPage))
    /\ WF_summaryVars(Summing(DebounceEnds))
    /\ WF_taskPageVars(Reading(SnapshotArrives \/ LiveArrives)) /\ WF_taskPageVars(Reading(Refreshed))
=============================================================================
