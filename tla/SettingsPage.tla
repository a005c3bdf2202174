----------------------------- MODULE SettingsPage -----------------------------
(* The settings page against the server                                      *)
(* (src/routes/settings.tsx, src/components/settings/): the form of the      *)
(* retention rules, cleaning up, backups, the confirmed deletion of all      *)
(* data, and the dialog of the debug bundle.  Their requests are under way   *)
(* while the user goes on, leaves and comes back, and each ends with another *)
(* reading of the rules, which react-query shares between all who ask.       *)
(* Then what a browser remembers of its own settings                         *)
(* (src/stores/use-settings-store.ts).                                       *)
(*                                                                           *)
(* One field stands for the four of the form.                                *)
EXTENDS Naturals, FiniteSets

CONSTANTS
    Texts,              \* what can be typed
    Meaning,            \* the value a text is parsed to, or what is taken instead
    TextFor,            \* the text a value is shown as
    Acceptable,         \* the values the server takes
    Granted,            \* the permissions identities have
    Patience,           \* 8 seconds
    MaxSeats,           \* bound on visits of the page
    MaxClicks,          \* bound on what the user does, of which
    MaxErrors,          \* bound on requests that fail
    MaxOthers           \* bound on changes by others

ASSUME SettingsAssumption ==
    /\ Acceptable # {} /\ "" \in Texts /\ DOMAIN Meaning = Texts /\ DOMAIN TextFor = Acceptable
    /\ \A v \in Acceptable : TextFor[v] \in Texts /\ Meaning[TextFor[v]] = v
    /\ Granted \subseteq SUBSET {"update", "clean", "import", "export", "clear", "bundle"}
    /\ {Patience, MaxSeats, MaxClicks, MaxErrors, MaxOthers} \subseteq Nat

VARIABLES
    snapshot,           \* the server replays a debug bundle
    rules,              \* the rules of the running instance
    records,            \* there is something to count
    permitted,          \* permissions of the identity, none until it is loaded
    known,              \* react-query: the last answer of the server
    reading,            \* react-query: a reading of the rules is under way
    requests,           \* the other requests under way
    seat,               \* which visit of the page this is
    panel,              \* the state of the panels
    left                \* what is left of the bounds

settingsVars == <<snapshot, rules, records, permitted, known, reading, requests, seat, panel, left>>

Unread == [read |-> FALSE]
NotArmed == Patience

(* A page that has just been opened; its form is filled from the cache.      *)
Fresh ==
    [mounted |-> TRUE, edited |-> FALSE, message |-> "", armed |-> NotArmed, warning |-> "",
     dialog |-> FALSE, busy |-> {}, accepted |-> Unread, meanwhile |-> FALSE,
     form |-> IF known.read THEN TextFor[known.rules] ELSE ""]

SettingsPageInit ==
    /\ snapshot \in BOOLEAN /\ rules = CHOOSE v \in Acceptable : TRUE
    /\ records = TRUE /\ permitted = {} /\ known = Unread /\ reading = FALSE
    /\ requests = {} /\ seat = 0
    /\ panel = [Fresh EXCEPT !.mounted = FALSE]
    /\ left = [clicks |-> MaxClicks, errors |-> MaxErrors, others |-> MaxOthers]

Clicking == panel.mounted /\ left.clicks > 0 /\ left' = [left EXCEPT !.clicks = @ - 1]
Server == <<snapshot, rules, records>>

-----------------------------------------------------------------------------
(* useIdentity answers.                                                      *)
IdentityLoads(P) ==
    /\ permitted = {} /\ permitted' = P
    /\ UNCHANGED <<Server, known, reading, requests, seat, panel, left>>

(* The page reads the rules when it is opened, whatever is in the cache.     *)
OpensSettings ==
    /\ ~panel.mounted /\ seat < MaxSeats /\ seat' = seat + 1
    /\ panel' = Fresh /\ reading' = TRUE
    /\ UNCHANGED <<Server, permitted, known, requests, left>>

(* By a link, or by turning the demo on.                                     *)
LeavesSettings ==
    /\ panel.mounted /\ panel' = [panel EXCEPT !.mounted = FALSE]
    /\ UNCHANGED <<Server, permitted, known, reading, requests, seat, left>>

(* The refresh button, or the window has the focus again.                    *)
ReadsAgain ==
    /\ panel.mounted /\ ~reading /\ reading' = TRUE
    /\ UNCHANGED <<Server, permitted, known, requests, seat, panel, left>>

(* handleFieldChange.                                                        *)
Edits(text) ==
    /\ Clicking /\ ~snapshot /\ "update" \in permitted /\ text # panel.form
    /\ panel' = [panel EXCEPT !.form = text, !.edited = TRUE, !.message = "",
                              !.meanwhile = @ \/ "update" \in panel.busy]
    /\ UNCHANGED <<Server, permitted, known, reading, requests, seat>>

(* A request for one of the actions leaves, with the value of the form.      *)
Asking(action, value) == [action |-> action, seat |-> seat, value |-> value, answered |-> FALSE]

Calls(action, value, p) ==
    /\ action \notin panel.busy
    /\ requests' = requests \cup {Asking(action, value)}
    /\ panel' = [p EXCEPT !.busy = @ \cup {action}]
    /\ UNCHANGED <<Server, permitted, known, reading, seat>>

(* handleSave, handleCleanup, handleFileSelected, handleExport.              *)
Saves ==
    /\ Clicking /\ ~snapshot /\ "update" \in permitted /\ panel.edited
    /\ Calls("update", Meaning[panel.form], [panel EXCEPT !.message = "", !.meanwhile = FALSE])

CleansUp ==
    /\ Clicking /\ ~snapshot /\ "clean" \in permitted
    /\ Calls("clean", 0, [panel EXCEPT !.message = ""])

Transfers(action) ==
    /\ Clicking /\ action \in permitted /\ (snapshot => action = "export")
    /\ Calls(action, 0, panel)

(* handleClear: the first click warns, the second within the time deletes.   *)
Warns ==
    /\ Clicking /\ ~snapshot /\ "clear" \in permitted \ panel.busy /\ panel.armed = NotArmed
    /\ panel' = [panel EXCEPT !.armed = 0, !.warning = "click again"]
    /\ UNCHANGED <<Server, permitted, known, reading, requests, seat>>

Confirms ==
    /\ Clicking /\ ~snapshot /\ "clear" \in permitted /\ panel.armed # NotArmed
    /\ Calls("clear", panel.armed, [panel EXCEPT !.warning = ""])

(* The effect of confirming: one timer, from the first click on.             *)
TimePasses ==
    /\ panel.mounted /\ panel.armed < Patience
    /\ panel' = [panel EXCEPT !.armed = @ + 1]
    /\ UNCHANGED <<Server, permitted, known, reading, requests, seat, left>>

(* DownloadDebugBundleButton: it can be opened and closed while nothing is   *)
(* being prepared.                                                           *)
TogglesDialog ==
    /\ Clicking /\ "bundle" \notin panel.busy
    /\ panel' = [panel EXCEPT !.dialog = ~@]
    /\ UNCHANGED <<Server, permitted, known, reading, requests, seat>>

DownloadsBundle == Clicking /\ "bundle" \in permitted /\ panel.dialog /\ Calls("bundle", 0, panel)

-----------------------------------------------------------------------------
(* What is set in a page that was left has no effect.                        *)
IsHere(r) == panel.mounted /\ r.seat = seat

Done(r, p) == [p EXCEPT !.busy = @ \ {r.action}]

Told(r, text) ==
    IF r.action \in {"update", "clean"} THEN [panel EXCEPT !.message = text]
    ELSE IF r.action = "clear" THEN [panel EXCEPT !.warning = text] ELSE panel

(* Actions that go on to read the rules again: refetch, invalidateQueries.   *)
Rereads == {"update", "clean", "import", "clear"}

(* Mutant: an answer that refuses is taken for one. *)
SucceedsAnyhow(r) == TRUE

(* The server takes a value of its schema, and does the rest.                *)
Succeeds(r) == r.action # "update" \/ r.value \in Acceptable

ServerDoes(r) ==
    /\ rules' = IF r.action = "update" /\ r.value \in Acceptable THEN r.value ELSE rules
    /\ records' = CASE r.action = "clear" -> FALSE [] r.action = "import" -> TRUE [] OTHER -> records

Fulfilled(r) ==
    /\ r \in requests /\ ~r.answered /\ Succeeds(r) /\ ServerDoes(r)
    /\ IF r.action \in Rereads
       THEN /\ reading' = TRUE
            /\ requests' = (requests \ {r}) \cup {[r EXCEPT !.answered = TRUE]}
            /\ panel' = IF IsHere(r) /\ r.action = "update"
                        THEN [panel EXCEPT !.accepted = [read |-> TRUE, rules |-> rules']] ELSE panel
       ELSE /\ requests' = requests \ {r}
            /\ panel' = IF ~IsHere(r) THEN panel
                        ELSE Done(r, [panel EXCEPT !.dialog = @ /\ r.action # "bundle"])
            /\ UNCHANGED reading
    /\ UNCHANGED <<snapshot, permitted, known, seat, left>>

(* A refusal, or an answer that is lost: the server may have done it.        *)
NotFulfilled(r) ==
    /\ r \in requests /\ ~r.answered
    /\ ~Succeeds(r) \/ (left.errors > 0)
    /\ left' = IF ~Succeeds(r) THEN left ELSE [left EXCEPT !.errors = @ - 1]
    /\ ServerDoes(r) \/ UNCHANGED <<rules, records>>
    /\ requests' = requests \ {r}
    /\ panel' = IF IsHere(r) THEN Done(r, Told(r, "failed")) ELSE panel
    /\ UNCHANGED <<snapshot, permitted, known, reading, seat>>

(* Everyone who waits for a reading hears of its end, good or bad.           *)
Waiting == {r \in requests : r.answered}
Heard(p) ==
    LET here == {r.action : r \in {w \in Waiting : IsHere(w)}}
    IN  [p EXCEPT !.busy = @ \ here,
                  !.edited = @ /\ "update" \notin here,
                  !.message = IF "update" \in here THEN "applied" ELSE IF "clean" \in here THEN "cleaned" ELSE @,
                  !.armed = IF "clear" \in here THEN NotArmed ELSE @,
                  !.warning = IF "clear" \in here THEN "cleared" ELSE @]

(* An answer that differs from the one before fills the form anew.           *)
RulesArrive ==
    /\ reading /\ reading' = FALSE
    /\ known' = [read |-> TRUE, rules |-> rules, records |-> records]
    /\ panel' = Heard(IF ~panel.mounted \/ known' = known THEN panel
                      ELSE [panel EXCEPT !.form = TextFor[rules], !.edited = FALSE, !.meanwhile = FALSE])
    /\ requests' = requests \ Waiting
    /\ UNCHANGED <<Server, permitted, seat, left>>

ReadingFails ==
    /\ reading /\ reading' = FALSE /\ left.errors > 0 /\ left' = [left EXCEPT !.errors = @ - 1]
    /\ panel' = Heard(panel) /\ requests' = requests \ Waiting
    /\ UNCHANGED <<Server, permitted, known, seat>>

(* Somebody else saves, or tasks are ingested.                               *)
Meanwhile == left.others > 0 /\ left' = [left EXCEPT !.others = @ - 1]

OthersSave(v) ==
    /\ ~snapshot /\ Meanwhile /\ v # rules /\ rules' = v
    /\ UNCHANGED <<snapshot, records, permitted, known, reading, requests, seat, panel>>

TasksArrive ==
    /\ ~snapshot /\ Meanwhile /\ ~records /\ records' = TRUE
    /\ UNCHANGED <<snapshot, rules, permitted, known, reading, requests, seat, panel>>

SettingsPageNext ==
    \/ \E P \in Granted : IdentityLoads(P)
    \/ OpensSettings \/ LeavesSettings \/ ReadsAgain \/ \E text \in Texts : Edits(text)
    \/ Saves \/ CleansUp \/ \E action \in {"import", "export"} : Transfers(action)
    \/ Warns \/ Confirms \/ TimePasses \/ TogglesDialog \/ DownloadsBundle
    \/ \E r \in requests : Fulfilled(r) \/ NotFulfilled(r)
    \/ RulesArrive \/ ReadingFails \/ TasksArrive
    \/ \E v \in Acceptable : OthersSave(v)

-----------------------------------------------------------------------------
(* A form that says there is nothing to save means what the server answered, *)
(* or took from this page - unless it was edited while it was being saved -, *)
(* so that "applied" is never said of a value the server refused; all data   *)
(* is deleted only by a second click before the time is up; and a bundle is  *)
(* prepared only in a dialog that is there to say how it ended               *)
(* (RetentionPolicyPanel, DangerZonePanel, DownloadDebugBundleButton).       *)
SettingsSayWhatHolds ==
    /\ panel.mounted /\ known.read /\ ~panel.edited /\ ~panel.meanwhile =>
          \/ Meaning[panel.form] = known.rules
          \/ panel.accepted.read /\ Meaning[panel.form] = panel.accepted.rules
    /\ panel.message = "applied" /\ ~panel.meanwhile =>
          panel.accepted.read /\ ~panel.edited
    /\ \A r \in requests : r.action = "clear" => r.value < Patience
    /\ "bundle" \in panel.busy => panel.dialog

-----------------------------------------------------------------------------
(* What a browser remembers, against the defaults of a deployment that       *)
(* change between visits, and whether the demo is on, which a deployment may *)
(* rule out.                                                                 *)
CONSTANTS
    Selectable,         \* values of a setting that only the user cares about
    MayVary             \* what ui of the configuration may say of it

ASSUME PreferencesAssumption == Selectable # {} /\ MayVary # {} /\ MayVary \subseteq Selectable

VARIABLES
    demoBuild,          \* VITE_DEMO_MODE
    deployment,         \* the ui part of the server's configuration
    stored,             \* localStorage
    tab,                \* the page: its settings, its defaults, and what it knows
    chosen              \* what the user has set and not reset

preferenceVars == <<demoBuild, deployment, stored, tab, chosen>>

Unsaved == [saved |-> FALSE]
Saved(s) == [saved |-> TRUE, settings |-> s]
BuiltIn == [demo |-> demoBuild, choice |-> CHOOSE c \in Selectable : TRUE]

(* A page that is loaded: the store is filled from localStorage, and the     *)
(* configuration is asked for.                                               *)
Loaded ==
    [settings |-> IF stored.saved THEN stored.settings ELSE BuiltIn,
     defaults |-> BuiltIn, demoAvailable |-> TRUE, configured |-> FALSE,
     config |-> "asked", pressed |-> FALSE, touring |-> FALSE]

PreferencesInit ==
    /\ demoBuild \in BOOLEAN /\ deployment \in [demoAvailable : BOOLEAN, choice : MayVary]
    /\ stored = Unsaved /\ tab = Loaded /\ chosen = [of |-> {}]

Reloads ==
    /\ tab' = Loaded /\ tab # Loaded
    /\ UNCHANGED <<demoBuild, deployment, stored, chosen>>

Redeploys(d) ==
    /\ d # deployment /\ deployment' = d
    /\ UNCHANGED <<demoBuild, stored, tab, chosen>>

(* Mutant: the defaults of the deployment replace what was saved. *)
KeepsNothing == TRUE

HasNoSaved == ~stored.saved

(* What is asked is asked anew whenever the demo goes on or off, as one      *)
(* provider takes the place of the other.                                    *)
AskedAfter(s) == IF s.demo # tab.settings.demo THEN "asked" ELSE tab.config

(* applyDeploymentDefaults: they become what a reset goes back to, and the   *)
(* settings of a browser that has none.                                      *)
Configures ==
    /\ tab.config = "asked"
    /\ LET defaults == [demo |-> tab.defaults.demo /\ deployment.demoAvailable, choice |-> deployment.choice]
           settings == IF HasNoSaved THEN defaults ELSE tab.settings
           now == [settings EXCEPT !.demo = @ /\ deployment.demoAvailable]
       IN  /\ tab' = [settings |-> now, defaults |-> defaults,
                      demoAvailable |-> deployment.demoAvailable, configured |-> TRUE,
                      config |-> IF now.demo # tab.settings.demo THEN "asked" ELSE "answered",
                      pressed |-> FALSE, touring |-> tab.touring]
           /\ stored' = IF HasNoSaved \/ ~deployment.demoAvailable THEN Saved(now) ELSE stored
    /\ UNCHANGED <<demoBuild, deployment, chosen>>

(* fetchConfig has failed; the loading screen offers to try again.           *)
ConfigurationLost ==
    /\ tab.config = "asked" /\ tab' = [tab EXCEPT !.config = "failed"]
    /\ UNCHANGED <<demoBuild, deployment, stored, chosen>>

AsksAgain ==
    /\ ~tab.settings.demo /\ tab.config # "asked" /\ tab' = [tab EXCEPT !.config = "asked"]
    /\ UNCHANGED <<demoBuild, deployment, stored, chosen>>

(* setState of the store writes all settings to localStorage.                *)
SetsIn(t, s) ==
    /\ tab' = [t EXCEPT !.settings = s, !.config = AskedAfter(s)] /\ stored' = Saved(s)
    /\ UNCHANGED <<demoBuild, deployment>>

Sets(s) == SetsIn(tab, s)

WithDemo(on) == [tab.settings EXCEPT !.demo = on]

(* The button of the screen that is shown until a connection is there, and   *)
(* that of the first step of the tour: neither asks whether there is a demo. *)
TurnsDemoOn(by) ==
    /\ ~tab.settings.demo
    /\ SetsIn([tab EXCEPT !.pressed = TRUE, !.touring = @ \/ by = "tour"], WithDemo(TRUE)) /\ UNCHANGED chosen

(* handleTourEvent, when a tour of the demo is over.                         *)
TourTurnsDemoOff ==
    /\ tab.touring /\ SetsIn([tab EXCEPT !.touring = FALSE], WithDemo(FALSE)) /\ UNCHANGED chosen

SwitchesDemo ==
    /\ tab.demoAvailable /\ ~demoBuild
    /\ Sets(WithDemo(~tab.settings.demo)) /\ UNCHANGED chosen

Chooses(c) ==
    /\ c # tab.settings.choice /\ Sets([tab.settings EXCEPT !.choice = c])
    /\ chosen' = [of |-> {c}]

ResetsSettings ==
    /\ tab.settings # tab.defaults /\ Sets(tab.defaults) /\ chosen' = [of |-> {}]

PreferencesNext ==
    \/ Reloads \/ Configures \/ ConfigurationLost \/ AsksAgain
    \/ SwitchesDemo \/ ResetsSettings \/ TourTurnsDemoOff
    \/ \E by \in {"loading", "tour"} : TurnsDemoOn(by)
    \/ \E d \in [demoAvailable : BOOLEAN, choice : MayVary] : Redeploys(d)
    \/ \E c \in Selectable : Chooses(c)

-----------------------------------------------------------------------------
(* What the user has set stays, over visits and deployments, until they      *)
(* reset it - also if they set it before the configuration arrived.  A page  *)
(* that knows of a deployment without a demo shows one only if its user has  *)
(* turned it on where nobody asks for that, and then only until the          *)
(* configuration, which is asked for because of it, has arrived: if it       *)
(* cannot be had, the demo stays on.  What localStorage has is what the page *)
(* goes by (applyDeploymentDefaults, resetSettings, SurrealDBProvider).      *)
PreferencesHold ==
    /\ chosen.of \subseteq {tab.settings.choice}
    /\ tab.configured /\ ~tab.demoAvailable /\ tab.settings.demo => tab.pressed /\ tab.config # "answered"
    /\ stored.saved => stored.settings = tab.settings

-----------------------------------------------------------------------------
(* What is set here and there: neither the forms of the page nor what the    *)
(* browser remembers may say other than what the server took and the user    *)
(* chose (RetentionPolicyPanel, DangerZonePanel, applyDeploymentDefaults).   *)
SettingsHold == SettingsSayWhatHolds /\ PreferencesHold

SettingsSpec ==
    /\ SettingsPageInit /\ PreferencesInit
    /\ [][SettingsPageNext]_settingsVars /\ [][PreferencesNext]_preferenceVars
=============================================================================
