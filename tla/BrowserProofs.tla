---------------------------- MODULE BrowserProofs ----------------------------
(* Theorems about parts of the page: its queries, the settings, the times of *)
(* a task and the live query, each for any values of its constants.          *)
EXTENDS PageQueries, SettingsPage, Observation, TaskTimeline,
        FiniteSetTheorems, WellFoundedInduction, TLAPS

-----------------------------------------------------------------------------
(* Queries of a page.  Every answer is kept under what was asked for, and    *)
(* what the page asks is under way or has come to an end.                    *)
CacheInv ==
    /\ params \in Pages
    /\ fetching = [k \in DOMAIN fetching |-> Request(k)]
    /\ cached = [k \in DOMAIN cached |-> cached[k]]
    /\ \A k \in DOMAIN cached : cached[k] \in {Request(k), Failed}
    /\ Key(params) \in DOMAIN fetching \cup DOMAIN cached

QuickSearchInv == ~searching /\ ~searchError => results = typed

PageQueriesInv == CacheInv /\ QuickSearchInv

LEMMA FetchAdds ==
    ASSUME NEW p, fetching = [k \in DOMAIN fetching |-> Request(k)]
    PROVE  Fetch(p) = [k \in DOMAIN fetching \cup {p} |-> Request(k)]
BY DEF Fetch, With, Key

LEMMA FirstFetch ==
    ASSUME NEW p
    PROVE  /\ With(<<>>, Key(p), Request(p)) = [k \in {p} |-> Request(k)]
           /\ DOMAIN <<>> = {}
BY DEF With, Key

LEMMA InitPageQueries == PageQueriesInit => PageQueriesInv
<1> SUFFICES ASSUME PageQueriesInit PROVE PageQueriesInv
    OBVIOUS
<1>1. fetching = [k \in {params} |-> Request(k)] /\ cached = <<>> /\ DOMAIN cached = {}
      BY FirstFetch DEF PageQueriesInit
<1>2. cached = [k \in DOMAIN cached |-> cached[k]]
      BY <1>1
<1>3. QED  BY <1>1, <1>2 DEF PageQueriesInv, CacheInv, QuickSearchInv, PageQueriesInit, Key

LEMMA VisitsKeeps ==
    ASSUME PageQueriesInv, NEW p \in Pages, Visits(p)
    PROVE  PageQueriesInv'
<1>1. params' = p /\ Key(p) # Key(params) /\ UNCHANGED <<cached, searchVars>>
      BY DEF Visits, Key
<1>2. fetching' = [k \in DOMAIN fetching \cup {p} |-> Request(k)]
      BY <1>1, FetchAdds DEF Visits, PageQueriesInv, CacheInv
<1>3. CacheInv'
      BY <1>1, <1>2 DEF PageQueriesInv, CacheInv, Key, Request
<1>4. QuickSearchInv'
      BY <1>1 DEF PageQueriesInv, QuickSearchInv, searchVars
<1>5. QED  BY <1>3, <1>4 DEF PageQueriesInv

LEMMA PageQueriesStep == PageQueriesInv /\ [PageQueriesNext]_pageVars => PageQueriesInv'
<1> SUFFICES ASSUME PageQueriesInv, [PageQueriesNext]_pageVars PROVE PageQueriesInv'
    OBVIOUS
<1>1. ASSUME NEW p \in Pages, Selects(p) PROVE PageQueriesInv'
      BY <1>1, VisitsKeeps DEF Selects
<1>2. CASE LoadsMore
  <2>1. [params EXCEPT !.pages = @ + 1] \in Pages
        BY <1>2, PageQueriesAssumption DEF LoadsMore, PageQueriesInv, CacheInv, Pages
  <2>2. QED  BY <1>2, <2>1, VisitsKeeps DEF LoadsMore
<1>3. CASE Refetches
  <2>1. fetching' = [k \in DOMAIN fetching \cup {params} |-> Request(k)]
        BY <1>3, FetchAdds DEF Refetches, PageQueriesInv, CacheInv
  <2>2. UNCHANGED <<params, cached, searchVars>>
        BY <1>3 DEF Refetches
  <2>3. QED  BY <2>1, <2>2 DEF PageQueriesInv, CacheInv, QuickSearchInv, searchVars, Key, Request
<1>4. CASE Remounts
  <2>1. fetching' = [k \in {params} |-> Request(k)] /\ cached' = <<>> /\ DOMAIN cached' = {}
        BY <1>4, FirstFetch DEF Remounts
  <2>2. cached' = [k \in DOMAIN cached' |-> cached'[k]]
        BY <2>1
  <2>3. params' = params /\ typed' = results'
        BY <1>4 DEF Remounts
  <2>4. QED  BY <2>1, <2>2, <2>3 DEF PageQueriesInv, CacheInv, QuickSearchInv, Key, Request
<1>5. ASSUME NEW k \in DOMAIN fetching, Arrives(k) \/ FetchFails(k) PROVE PageQueriesInv'
  <2>1. fetching' = [x \in DOMAIN fetching \ {k} |-> Request(x)]
        BY <1>5 DEF Arrives, FetchFails, Dropped, PageQueriesInv, CacheInv
  <2>2. \E v \in {Request(k), Failed} :
            \/ cached' = [x \in DOMAIN cached \cup {k} |-> IF x = k THEN v ELSE cached[x]]
            \/ k \in DOMAIN cached /\ cached' = cached
        BY <1>5 DEF Arrives, FetchFails, With, PageQueriesInv, CacheInv
  <2>3. DOMAIN cached' = DOMAIN cached \cup {k}
        BY <2>2
  <2>4. \A x \in DOMAIN cached' : cached'[x] \in {Request(x), Failed}
        BY <2>2 DEF PageQueriesInv, CacheInv
  <2>5. cached' = [x \in DOMAIN cached' |-> cached'[x]]
        BY <2>2 DEF PageQueriesInv, CacheInv
  <2>6. UNCHANGED <<params, searchVars>>
        BY <1>5 DEF Arrives, FetchFails
  <2>7. QED  BY <2>1, <2>3, <2>4, <2>5, <2>6
             DEF PageQueriesInv, CacheInv, QuickSearchInv, searchVars, Key, Request, Failed, None
<1>6. CASE \/ \E text \in Typed \cup {""} : Types(text)
           \/ Searches
           \/ \E text \in searches : SearchArrives(text) \/ SearchFails(text)
  <2>1. UNCHANGED explorerVars
        BY <1>6 DEF Types, Searches, SearchArrives, SearchFails
  <2>2. CacheInv'
        BY <2>1 DEF PageQueriesInv, CacheInv, explorerVars, Key, Request, Failed, None
  <2>3. QuickSearchInv'
    <3>1. ASSUME NEW text, Types(text) PROVE QuickSearchInv'
      <4>1. CASE text = ""
            BY <3>1, <4>1 DEF Types, QuickSearchInv
      <4>2. CASE text # ""
        <5>1. searching'
              BY <3>1, <4>2, Zenon DEF Types
        <5>2. QED  BY <5>1 DEF QuickSearchInv
      <4>3. QED  BY <4>1, <4>2
    <3>2. CASE Searches
          BY <3>2 DEF PageQueriesInv, QuickSearchInv, Searches
    <3>3. ASSUME NEW text, SearchArrives(text) PROVE QuickSearchInv'
          BY <3>3 DEF PageQueriesInv, QuickSearchInv, SearchArrives, IsActive
    <3>4. ASSUME NEW text, SearchFails(text) PROVE QuickSearchInv'
          BY <3>4 DEF PageQueriesInv, QuickSearchInv, SearchFails, IsActive
    <3>5. QED  BY <1>6, <3>1, <3>2, <3>3, <3>4
  <2>4. QED  BY <2>2, <2>3 DEF PageQueriesInv
<1>7. CASE UNCHANGED pageVars
      BY <1>7 DEF pageVars, explorerVars, searchVars, PageQueriesInv, CacheInv, QuickSearchInv, Key,
                  Request, Failed, None
<1>8. QED  BY <1>1, <1>2, <1>3, <1>4, <1>5, <1>6, <1>7 DEF PageQueriesNext

(* A page at rest shows the answer to what it would ask now, and a quick     *)
(* search what its text finds, however users and answers interleave, for any *)
(* ranges and filters (use-explorer-data, use-events-browser, use-search).   *)
THEOREM AnswersFit == PageQueriesSpec => []AnswersFitQuestions
<1>1. ASSUME PageQueriesInv PROVE AnswersFitQuestions
      BY <1>1 DEF PageQueriesInv, CacheInv, QuickSearchInv, AnswersFitQuestions, NothingPending, Shown, Key
<1>2. QED  BY <1>1, InitPageQueries, PageQueriesStep, PTL DEF PageQueriesSpec

-----------------------------------------------------------------------------
(* Preferences.  What is saved is what the page shows, and once a page knows *)
(* its deployment it has saved something.                                    *)
Chosen == [demo : BOOLEAN, choice : Selectable]
Tabs == [settings : Chosen, defaults : Chosen, demoAvailable : BOOLEAN, configured : BOOLEAN,
         config : {"asked", "answered", "failed"}, pressed : BOOLEAN, touring : BOOLEAN]

(* Where the demo is on though the page knows that there is none.            *)
MayLast(t) == t.pressed /\ t.config # "answered"

PreferencesInv ==
    /\ demoBuild \in BOOLEAN /\ deployment \in [demoAvailable : BOOLEAN, choice : MayVary]
    /\ tab \in Tabs
    /\ stored = Unsaved \/ stored = Saved(tab.settings)
    /\ tab.configured => stored = Saved(tab.settings)
    /\ chosen.of \subseteq {tab.settings.choice}
    /\ stored = Unsaved => chosen.of = {} /\ tab.settings = BuiltIn
    /\ tab.configured /\ ~tab.demoAvailable => ~tab.defaults.demo /\ (tab.settings.demo => MayLast(tab))

LEMMA SavedFields ==
    ASSUME NEW s
    PROVE  /\ Saved(s) # Unsaved /\ Saved(s).saved /\ ~Unsaved.saved
           /\ Saved(s).settings = s
<1>1. Saved(s).saved = TRUE /\ Unsaved.saved = FALSE /\ Saved(s).settings = s
      BY DEF Saved, Unsaved
<1>2. Saved(s) # Unsaved
      BY <1>1
<1>3. QED  BY <1>1, <1>2

LEMMA BuiltInTyped == ASSUME demoBuild \in BOOLEAN PROVE BuiltIn \in Chosen
<1>1. (CHOOSE c \in Selectable : TRUE) \in Selectable
      BY PreferencesAssumption
<1>2. QED  BY <1>1 DEF BuiltIn, Chosen

LEMMA LoadedTyped ==
    ASSUME PreferencesInv
    PROVE  /\ Loaded \in Tabs
           /\ Loaded.settings = tab.settings /\ ~Loaded.configured
<1> DEFINE s == IF stored.saved THEN stored.settings ELSE BuiltIn
<1>1. BuiltIn \in Chosen /\ tab.settings \in Chosen
      BY BuiltInTyped DEF PreferencesInv, Tabs
<1>2. s = tab.settings
      BY SavedFields DEF PreferencesInv
<1>3. QED  BY <1>1, <1>2 DEF Loaded, Tabs

LEMMA InitPreferences == PreferencesInit => PreferencesInv
<1> SUFFICES ASSUME PreferencesInit PROVE PreferencesInv
    OBVIOUS
<1>1. demoBuild \in BOOLEAN /\ BuiltIn \in Chosen /\ stored = Unsaved /\ ~stored.saved
      BY BuiltInTyped, SavedFields DEF PreferencesInit
<1>2. tab = [settings |-> BuiltIn, defaults |-> BuiltIn, demoAvailable |-> TRUE, configured |-> FALSE,
              config |-> "asked", pressed |-> FALSE, touring |-> FALSE]
      BY <1>1 DEF PreferencesInit, Loaded
<1>3. tab.settings = BuiltIn /\ ~tab.configured
      BY <1>2
<1>4. tab \in Tabs
      BY <1>1, <1>2 DEF Tabs
<1>5. chosen.of = {}
      BY DEF PreferencesInit
<1>6. QED  BY <1>1, <1>3, <1>4, <1>5 DEF PreferencesInv, PreferencesInit

(* The user sets something.                                                  *)
LEMMA SetsKeeps ==
    ASSUME PreferencesInv, NEW t \in Tabs, NEW s \in Chosen, SetsIn(t, s), chosen'.of \subseteq {s.choice},
           t.defaults = tab.defaults, t.demoAvailable = tab.demoAvailable, t.configured = tab.configured,
           tab.configured /\ ~tab.demoAvailable /\ s.demo => t.pressed /\ AskedAfter(s) # "answered"
    PROVE  PreferencesInv'
<1>1. tab' = [t EXCEPT !.settings = s, !.config = AskedAfter(s)] /\ stored' = Saved(s)
      /\ UNCHANGED <<demoBuild, deployment>>
      BY DEF SetsIn
<1>2. tab \in Tabs /\ AskedAfter(s) \in {"asked", "answered", "failed"}
      BY DEF PreferencesInv, AskedAfter, Tabs
<1>3. /\ tab' \in Tabs
      /\ tab'.settings = s /\ tab'.defaults = tab.defaults
      /\ tab'.demoAvailable = tab.demoAvailable /\ tab'.configured = tab.configured
      /\ tab'.pressed = t.pressed /\ tab'.config = AskedAfter(s)
      BY <1>1, <1>2 DEF Tabs
<1>4. Unsaved' = Unsaved /\ Saved(tab.settings)' = Saved(s)
      BY <1>3 DEF Unsaved, Saved
<1>5. stored' # Unsaved'
      BY <1>1, <1>4, SavedFields
<1>6. tab'.configured /\ ~tab'.demoAvailable =>
          ~tab'.defaults.demo /\ (tab'.settings.demo => MayLast(tab'))
      BY <1>3 DEF PreferencesInv, MayLast
<1> HIDE DEF Unsaved, Saved
<1>7. QED  BY <1>1, <1>3, <1>4, <1>5, <1>6 DEF PreferencesInv, MayLast

(* The page asks, or is not answered.                                        *)
LEMMA AskingKeeps ==
    ASSUME PreferencesInv, NEW c \in {"asked", "failed"}, tab' = [tab EXCEPT !.config = c],
           UNCHANGED <<demoBuild, deployment, stored, chosen>>
    PROVE  PreferencesInv'
<1>1. /\ tab' \in Tabs
      /\ tab'.settings = tab.settings /\ tab'.defaults = tab.defaults /\ tab'.pressed = tab.pressed
      /\ tab'.demoAvailable = tab.demoAvailable /\ tab'.configured = tab.configured /\ tab'.config = c
      BY DEF PreferencesInv, Tabs
<1>2. Unsaved' = Unsaved /\ Saved(tab.settings)' = Saved(tab.settings) /\ BuiltIn' = BuiltIn
      BY <1>1 DEF Unsaved, Saved, BuiltIn
<1> HIDE DEF Unsaved, Saved, BuiltIn
<1>3. QED  BY <1>1, <1>2 DEF PreferencesInv, MayLast

LEMMA ConfiguresKeeps == ASSUME PreferencesInv, Configures PROVE PreferencesInv'
<1> DEFINE defaults == [demo |-> tab.defaults.demo /\ deployment.demoAvailable, choice |-> deployment.choice]
           settings == IF HasNoSaved THEN defaults ELSE tab.settings
           adjusted == [settings EXCEPT !.demo = settings.demo /\ deployment.demoAvailable]
<1>1. /\ tab' = [settings |-> adjusted, defaults |-> defaults,
                 demoAvailable |-> deployment.demoAvailable, configured |-> TRUE,
                 config |-> IF adjusted.demo # tab.settings.demo THEN "asked" ELSE "answered",
                 pressed |-> FALSE, touring |-> tab.touring]
      /\ stored' = IF HasNoSaved \/ ~deployment.demoAvailable THEN Saved(adjusted) ELSE stored
      /\ UNCHANGED <<demoBuild, deployment, chosen>>
      BY Zenon DEF Configures
<1>2. defaults \in Chosen /\ settings \in Chosen
      BY PreferencesAssumption DEF PreferencesInv, Chosen, Tabs
<1>3. adjusted \in Chosen /\ adjusted.choice = settings.choice
      /\ (~deployment.demoAvailable => ~adjusted.demo /\ ~defaults.demo)
      /\ (deployment.demoAvailable => adjusted = settings)
      BY <1>2 DEF Chosen, PreferencesInv
<1>4. HasNoSaved \/ stored = Saved(tab.settings)
      BY SavedFields DEF PreferencesInv, HasNoSaved
<1>5. settings = IF HasNoSaved THEN defaults ELSE tab.settings
      OBVIOUS
<1>6. HasNoSaved => chosen.of = {}
      BY SavedFields DEF PreferencesInv, HasNoSaved
<1> HIDE DEF defaults, settings, adjusted
<1>7. /\ tab'.settings = adjusted /\ tab'.defaults = defaults
      /\ tab'.demoAvailable = deployment.demoAvailable /\ tab'.configured
      /\ tab' \in Tabs
      BY <1>1, <1>2, <1>3 DEF PreferencesInv, Tabs
<1>8. stored' = Saved(adjusted)
  <2>1. CASE HasNoSaved \/ ~deployment.demoAvailable
        BY <1>1, <2>1
  <2>2. CASE ~HasNoSaved /\ deployment.demoAvailable
        BY <1>1, <1>3, <1>4, <1>5, <2>2
  <2>3. QED  BY <2>1, <2>2
<1>9. chosen'.of \subseteq {tab'.settings.choice}
      BY <1>1, <1>3, <1>5, <1>6, <1>7 DEF PreferencesInv
<1>10. Saved(tab.settings)' = Saved(adjusted) /\ Unsaved' = Unsaved /\ stored' # Unsaved
      BY <1>7, <1>8, SavedFields DEF Saved, Unsaved
<1> HIDE DEF Unsaved, Saved
<1>11. QED  BY <1>1, <1>3, <1>7, <1>8, <1>9, <1>10 DEF PreferencesInv

LEMMA PreferencesStep == PreferencesInv /\ [PreferencesNext]_preferenceVars => PreferencesInv'
<1> SUFFICES ASSUME PreferencesInv, [PreferencesNext]_preferenceVars PROVE PreferencesInv'
    OBVIOUS
<1>1. /\ tab \in Tabs
      /\ tab.settings \in Chosen /\ tab.defaults \in Chosen
      /\ tab.configured /\ ~tab.demoAvailable /\ tab.settings.demo => tab.pressed /\ tab.config # "answered"
      BY DEF PreferencesInv, Tabs, MayLast
<1>2. CASE Reloads
  <2>1. tab' = Loaded /\ UNCHANGED <<demoBuild, deployment, stored, chosen>>
        BY <1>2 DEF Reloads
  <2>2. /\ Saved(tab.settings)' = Saved(tab.settings) /\ Unsaved' = Unsaved /\ BuiltIn' = BuiltIn
        /\ tab'.settings = tab.settings /\ ~tab'.configured
        BY <2>1, LoadedTyped DEF Saved, Unsaved, BuiltIn
  <2>3. tab' \in Tabs
        BY <2>1, LoadedTyped
  <2>4. QED  BY <2>1, <2>2, <2>3 DEF PreferencesInv
<1>3. ASSUME NEW d \in [demoAvailable : BOOLEAN, choice : MayVary], Redeploys(d) PROVE PreferencesInv'
      BY <1>3 DEF Redeploys, PreferencesInv, Saved, Unsaved, BuiltIn, MayLast
<1>4. CASE Configures
      BY <1>4, ConfiguresKeeps
<1>5. CASE ConfigurationLost \/ AsksAgain
      BY <1>5, AskingKeeps DEF ConfigurationLost, AsksAgain
<1>6. CASE SwitchesDemo
  <2> DEFINE s == WithDemo(~tab.settings.demo)
  <2>1. s \in Chosen /\ s.choice = tab.settings.choice
        BY <1>1 DEF Chosen, WithDemo
  <2>2. tab.demoAvailable /\ SetsIn(tab, s) /\ chosen' = chosen
        BY <1>6, Zenon DEF SwitchesDemo, Sets
  <2> HIDE DEF s
  <2>3. chosen'.of \subseteq {s.choice}
        BY <2>1, <2>2 DEF PreferencesInv
  <2>4. QED  BY <1>1, <2>1, <2>2, <2>3, SetsKeeps
<1>7. ASSUME NEW by, TurnsDemoOn(by) PROVE PreferencesInv'
  <2> DEFINE t == [tab EXCEPT !.pressed = TRUE, !.touring = tab.touring \/ by = "tour"]
             s == WithDemo(TRUE)
  <2>1. s \in Chosen /\ s.choice = tab.settings.choice /\ s.demo = TRUE
        BY <1>1 DEF Chosen, WithDemo
  <2>2. /\ t \in Tabs /\ t.pressed
        /\ t.defaults = tab.defaults /\ t.demoAvailable = tab.demoAvailable /\ t.configured = tab.configured
        BY <1>1 DEF Tabs
  <2>3. tab.settings.demo = FALSE /\ SetsIn(t, s) /\ chosen' = chosen
        BY <1>1, <1>7 DEF TurnsDemoOn, Chosen
  <2>4. AskedAfter(s) = "asked"
        BY <2>1, <2>3 DEF AskedAfter
  <2> HIDE DEF s, t
  <2>5. chosen'.of \subseteq {s.choice}
        BY <2>1, <2>3 DEF PreferencesInv
  <2>6. QED  BY <2>1, <2>2, <2>3, <2>4, <2>5, SetsKeeps
<1>8. CASE TourTurnsDemoOff
  <2> DEFINE t == [tab EXCEPT !.touring = FALSE]
             s == WithDemo(FALSE)
  <2>1. s \in Chosen /\ s.choice = tab.settings.choice /\ s.demo = FALSE
        BY <1>1 DEF Chosen, WithDemo
  <2>2. /\ t \in Tabs
        /\ t.defaults = tab.defaults /\ t.demoAvailable = tab.demoAvailable /\ t.configured = tab.configured
        BY <1>1 DEF Tabs
  <2>3. SetsIn(t, s) /\ chosen' = chosen
        BY <1>8 DEF TourTurnsDemoOff
  <2> HIDE DEF s, t
  <2>4. chosen'.of \subseteq {s.choice}
        BY <2>1, <2>3 DEF PreferencesInv
  <2>5. QED  BY <2>1, <2>2, <2>3, <2>4, SetsKeeps
<1>9. ASSUME NEW c \in Selectable, Chooses(c) PROVE PreferencesInv'
  <2> DEFINE s == [tab.settings EXCEPT !.choice = c]
  <2>1. s \in Chosen /\ s.choice = c /\ s.demo = tab.settings.demo
        BY <1>1 DEF Chosen
  <2>2. SetsIn(tab, s) /\ chosen' = [of |-> {c}]
        BY <1>9 DEF Chooses, Sets
  <2> HIDE DEF s
  <2>3. chosen'.of \subseteq {s.choice} /\ AskedAfter(s) = tab.config
        BY <2>1, <2>2 DEF AskedAfter
  <2>4. QED  BY <1>1, <2>1, <2>2, <2>3, SetsKeeps
<1>10. CASE ResetsSettings
  <2>1. SetsIn(tab, tab.defaults) /\ chosen'.of = {}
        BY <1>10 DEF ResetsSettings, Sets
  <2>2. tab.configured /\ ~tab.demoAvailable => ~tab.defaults.demo
        BY DEF PreferencesInv
  <2>3. QED  BY <1>1, <2>1, <2>2, SetsKeeps
<1>11. CASE UNCHANGED preferenceVars
      BY <1>11 DEF preferenceVars, PreferencesInv, Saved, Unsaved, BuiltIn, MayLast
<1>12. QED  BY <1>2, <1>3, <1>4, <1>5, <1>6, <1>7, <1>8, <1>9, <1>10, <1>11 DEF PreferencesNext

-----------------------------------------------------------------------------
(* The settings page.  A visit has one request of each action under way, and *)
(* that of the form carries what the form says unless it was edited since or *)
(* filled anew by an answer.                                                 *)
Actions == {"update", "clean", "import", "export", "clear", "bundle"}
SentValues == {Meaning[text] : text \in Texts} \cup Nat

Known == {Unread} \cup [read : {TRUE}, rules : Acceptable, records : BOOLEAN]
UnderWay == [action : Actions, seat : Nat, value : SentValues, answered : BOOLEAN]
Form == [mounted : BOOLEAN, edited : BOOLEAN, message : {"", "failed", "applied", "cleaned"},
         armed : 0..Patience, warning : {"", "click again", "failed", "cleared"}, dialog : BOOLEAN,
         busy : SUBSET Actions, accepted : {Unread} \cup [read : {TRUE}, rules : Acceptable],
         meanwhile : BOOLEAN, form : Texts]

SettingsShape ==
    /\ rules \in Acceptable /\ records \in BOOLEAN /\ seat \in Nat
    /\ known \in Known /\ panel \in Form
    /\ requests \subseteq UnderWay
    /\ \A r \in requests : r.seat <= seat

Here(r) == r.seat = seat

OneOfEach ==
    panel.mounted =>
        /\ \A r \in requests : Here(r) => r.action \in panel.busy
        /\ \A r, q \in requests : Here(r) /\ Here(q) /\ r.action = q.action => r = q

AsKnown == known.read /\ Meaning[panel.form] = known.rules
AsAccepted == panel.accepted.read /\ Meaning[panel.form] = panel.accepted.rules

Carries(r) ==
    /\ r.answered => panel.accepted.read
    /\ ~panel.meanwhile /\ panel.edited =>
            IF r.answered THEN AsAccepted ELSE r.value = Meaning[panel.form]
    /\ ~panel.meanwhile /\ ~panel.edited /\ known.read => AsKnown

FormInv ==
    /\ panel.mounted /\ known.read /\ ~panel.edited /\ ~panel.meanwhile => AsKnown \/ AsAccepted
    /\ panel.message = "applied" => panel.accepted.read /\ ~panel.edited
    /\ panel.mounted => \A r \in requests : Here(r) /\ r.action = "update" => Carries(r)

TwoClicks == \A r \in requests : r.action = "clear" => r.value < Patience
BundleHasDialog == "bundle" \in panel.busy => panel.dialog

SettingsPageInv == SettingsShape /\ OneOfEach /\ FormInv /\ TwoClicks /\ BundleHasDialog

LEMMA KnownFields ==
    ASSUME known \in Known
    PROVE  /\ known.read \in BOOLEAN /\ (known.read => known.rules \in Acceptable)
           /\ Unread.read = FALSE
<1>1. Unread.read = FALSE
      BY DEF Unread
<1>2. CASE known = Unread
      BY <1>1, <1>2
<1>3. CASE known \in [read : {TRUE}, rules : Acceptable, records : BOOLEAN]
  <2>1. known.read = TRUE /\ known.rules \in Acceptable
        BY <1>3
  <2>2. QED  BY <1>1, <2>1
<1>4. QED  BY <1>2, <1>3 DEF Known

LEMMA FreshTyped ==
    ASSUME known \in Known
    PROVE  /\ Fresh \in Form /\ Fresh.mounted /\ ~Fresh.edited /\ Fresh.message = "" /\ Fresh.busy = {}
           /\ ~Fresh.meanwhile /\ (known.read => Meaning[Fresh.form] = known.rules)
<1> DEFINE text == IF known.read THEN TextFor[known.rules] ELSE ""
<1>1. text \in Texts /\ (known.read => Meaning[text] = known.rules)
      BY KnownFields, SettingsAssumption
<1>2. Patience \in Nat
      BY SettingsAssumption
<1> HIDE DEF text
<1>3. Fresh = [mounted |-> TRUE, edited |-> FALSE, message |-> "", armed |-> Patience, warning |-> "",
               dialog |-> FALSE, busy |-> {}, accepted |-> Unread, meanwhile |-> FALSE, form |-> text]
      BY DEF Fresh, NotArmed, text
<1>4. /\ Fresh.mounted = TRUE /\ Fresh.edited = FALSE /\ Fresh.message = "" /\ Fresh.busy = {}
      /\ Fresh.meanwhile = FALSE /\ Fresh.form = text
      BY <1>3
<1>5. /\ Patience \in 0..Patience /\ {} \in SUBSET Actions
      /\ Unread \in {Unread} \cup [read : {TRUE}, rules : Acceptable]
      BY <1>2
<1> HIDE DEF Unread, Actions
<1>6. Fresh \in Form
      BY <1>1, <1>3, <1>5 DEF Form
<1>7. QED  BY <1>1, <1>4, <1>6

LEMMA InitSettings == SettingsPageInit => SettingsPageInv
<1> SUFFICES ASSUME SettingsPageInit PROVE SettingsPageInv
    OBVIOUS
<1>1. rules \in Acceptable
      BY SettingsAssumption DEF SettingsPageInit
<1>2. ~known.read /\ known = Unread
      BY DEF SettingsPageInit, Unread
<1>3. known \in Known
      BY <1>2 DEF Known
<1>4. /\ Fresh \in Form /\ Fresh.message = "" /\ Fresh.busy = {}
      BY <1>3, FreshTyped
<1>5. /\ panel \in Form /\ ~panel.mounted /\ panel.message = "" /\ panel.busy = {}
      BY <1>4 DEF SettingsPageInit, Form
<1>6. requests = {} /\ seat = 0 /\ records = TRUE
      BY DEF SettingsPageInit
<1>7. QED  BY <1>1, <1>3, <1>5, <1>6
           DEF SettingsPageInv, SettingsShape, OneOfEach, FormInv, TwoClicks, BundleHasDialog

(* A step that concerns neither the form nor a request.                      *)
LEMMA SettingsLeftAlone ==
    ASSUME SettingsPageInv, rules' \in Acceptable, records' \in BOOLEAN,
           UNCHANGED <<known, requests, seat, panel>>
    PROVE  SettingsPageInv'
<1>1. /\ SettingsShape /\ OneOfEach /\ FormInv /\ TwoClicks /\ BundleHasDialog
      BY DEF SettingsPageInv
<1>2. SettingsShape'
      BY <1>1 DEF SettingsShape
<1>3. OneOfEach' /\ TwoClicks' /\ BundleHasDialog'
      BY <1>1 DEF OneOfEach, TwoClicks, BundleHasDialog, Here
<1>4. FormInv'
      BY <1>1 DEF FormInv, Here, Carries, AsKnown, AsAccepted
<1>5. QED  BY <1>2, <1>3, <1>4 DEF SettingsPageInv

LEMMA SeatsInOrder == ASSUME SettingsPageInv PROVE seat <= seat
BY DEF SettingsPageInv, SettingsShape

(* A click that sends a request.                                             *)
LEMMA CallKeeps ==
    ASSUME SettingsPageInv, NEW action \in Actions, NEW value \in SentValues, NEW p \in Form,
           Calls(action, value, p), panel.mounted, p.mounted, p.busy = panel.busy,
           p.accepted = panel.accepted, p.form = panel.form, p.edited = panel.edited,
           p.message \in {"", panel.message}, p.dialog = panel.dialog,
           IF action = "update" THEN p.edited /\ value = Meaning[p.form] ELSE p.meanwhile = panel.meanwhile,
           action = "update" => p.message = "",
           action = "clear" => value < Patience,
           action = "bundle" => p.dialog
    PROVE  SettingsPageInv'
<1> DEFINE new == [action |-> action, seat |-> seat, value |-> value, answered |-> FALSE]
           next == [p EXCEPT !.busy = p.busy \cup {action}]
<1>1. /\ action \notin panel.busy /\ requests' = requests \cup {new} /\ panel' = next
      /\ UNCHANGED <<rules, records, known, seat>>
      BY Zenon DEF Calls, Asking, Server
<1>2. /\ next \in Form /\ next.mounted /\ next.busy = panel.busy \cup {action}
      /\ next.accepted = panel.accepted /\ next.form = panel.form /\ next.edited = panel.edited
      /\ next.message = p.message /\ next.dialog = panel.dialog /\ next.meanwhile = p.meanwhile
      BY DEF Form
<1>3. seat \in Nat /\ panel \in Form
      BY DEF SettingsPageInv, SettingsShape
<1>4. new \in UnderWay
      BY <1>3 DEF UnderWay
<1>5. new.action = action /\ new.seat = seat /\ new.value = value /\ new.answered = FALSE
      OBVIOUS
<1> HIDE DEF new, next
<1>6. SettingsShape'
  <2>1. (rules \in Acceptable /\ records \in BOOLEAN /\ seat \in Nat /\ known \in Known)'
        BY <1>1 DEF SettingsPageInv, SettingsShape
  <2>2. panel' \in Form
        BY <1>1, <1>2
  <2>3. requests' \subseteq UnderWay
    <3>1. requests \subseteq UnderWay
          BY DEF SettingsPageInv, SettingsShape
    <3>2. requests' = requests \cup {new}
          BY <1>1
    <3>3. QED  BY <3>1, <3>2, <1>4, Zenon
  <2>4. \A r \in requests' : r.seat <= seat'
    <3>1. \A r \in requests : r.seat <= seat
          BY DEF SettingsPageInv, SettingsShape
    <3>2. requests' = requests \cup {new} /\ seat' = seat
          BY <1>1
    <3>3. seat <= seat
          BY SeatsInOrder
    <3>4. new.seat = seat
          BY <1>5
    <3>5. QED  BY <3>1, <3>2, <3>3, <3>4, Zenon
  <2>5. QED  BY <2>1, <2>2, <2>3, <2>4 DEF SettingsShape
<1>7. OneOfEach'
  <2>1. ASSUME NEW r \in requests, Here(r) PROVE r.action \in panel.busy
        BY <2>1 DEF SettingsPageInv, OneOfEach
  <2>2. ASSUME NEW r \in requests, NEW q \in requests, Here(r), Here(q), r.action = q.action PROVE r = q
        BY <2>2 DEF SettingsPageInv, OneOfEach
  <2>3. ASSUME NEW r \in requests', NEW q \in requests', Here(r), Here(q), r.action = q.action PROVE r = q
    <3>1. CASE r = new \/ q = new
          BY <1>1, <1>5, <2>1, <2>3, <3>1
    <3>2. CASE r # new /\ q # new
          BY <1>1, <2>2, <2>3, <3>2
    <3>3. QED  BY <3>1, <3>2
  <2>4. ASSUME NEW r \in requests', Here(r) PROVE r.action \in next.busy
        BY <1>1, <1>2, <1>5, <2>1, <2>4
  <2>5. QED  BY <1>1, <2>3, <2>4 DEF OneOfEach, Here
<1>8. \A r \in requests : Here(r) /\ r.action = "update" => r.action \in panel.busy /\ Carries(r)
      BY DEF SettingsPageInv, OneOfEach, FormInv
<1>9. FormInv'
  <2>1. ASSUME NEW r \in requests', Here(r)', r.action = "update" PROVE Carries(r)'
    <3>1. CASE action = "update"
      <4>1. r = new
            BY <1>1, <1>8, <2>1, <3>1 DEF Here
      <4>2. QED  BY <1>1, <1>2, <1>5, <3>1, <4>1 DEF Carries
    <3>2. CASE action # "update"
      <4>1. r \in requests /\ Here(r)
            BY <1>1, <1>5, <2>1, <3>2 DEF Here
      <4>2. Carries(r)
            BY <1>8, <2>1, <4>1
      <4>3. QED  BY <1>1, <1>2, <3>2, <4>2 DEF Carries, AsKnown, AsAccepted
    <3>3. QED  BY <3>1, <3>2
  <2>2. (panel.mounted /\ known.read /\ ~panel.edited /\ ~panel.meanwhile => AsKnown \/ AsAccepted)'
        BY <1>1, <1>2 DEF SettingsPageInv, FormInv, AsKnown, AsAccepted
  <2>3. (panel.message = "applied" => panel.accepted.read /\ ~panel.edited)'
        BY <1>1, <1>2 DEF SettingsPageInv, FormInv
  <2>4. QED  BY <2>1, <2>2, <2>3 DEF FormInv
<1>10. TwoClicks'
      BY <1>1, <1>5 DEF SettingsPageInv, TwoClicks
<1>11. BundleHasDialog'
      BY <1>1, <1>2 DEF SettingsPageInv, BundleHasDialog
<1>12. QED  BY <1>6, <1>7, <1>9, <1>10, <1>11 DEF SettingsPageInv

(* A step on the page that leaves the form and the requests alone, and       *)
(* closes no dialog while a bundle is being prepared.                        *)
LEMMA PanelKeeps ==
    ASSUME SettingsPageInv, NEW p \in Form, panel' = p, UNCHANGED <<rules, records, known, requests, seat>>,
           p.mounted => panel.mounted, p.busy = panel.busy, p.accepted = panel.accepted,
           p.form = panel.form, p.edited = panel.edited, p.message = panel.message,
           p.meanwhile = panel.meanwhile, "bundle" \in panel.busy => p.dialog
    PROVE  SettingsPageInv'
<1>1. SettingsShape'
  <2>1. SettingsShape
        BY DEF SettingsPageInv
  <2>2. QED  BY <2>1 DEF SettingsShape
<1>2. OneOfEach'
      BY DEF SettingsPageInv, OneOfEach, Here
<1>3. FormInv'
      BY DEF SettingsPageInv, FormInv, Here, Carries, AsKnown, AsAccepted
<1>4. TwoClicks' /\ BundleHasDialog'
      BY DEF SettingsPageInv, TwoClicks, BundleHasDialog
<1>5. QED  BY <1>1, <1>2, <1>3, <1>4 DEF SettingsPageInv

LEMMA EditsKeeps == ASSUME SettingsPageInv, NEW text \in Texts, Edits(text) PROVE SettingsPageInv'
<1> DEFINE late == panel.meanwhile \/ "update" \in panel.busy
           p == [panel EXCEPT !.form = text, !.edited = TRUE, !.message = "", !.meanwhile = late]
<1>1. panel' = p /\ UNCHANGED <<rules, records, known, requests, seat>>
      BY Zenon DEF Edits, Server
<1>2. panel \in Form /\ late \in BOOLEAN
      BY DEF SettingsPageInv, SettingsShape, Form
<1>3. (late <=> panel.meanwhile \/ "update" \in panel.busy)
      OBVIOUS
<1> HIDE DEF late
<1>4. /\ p \in Form /\ p.form = text /\ p.edited = TRUE /\ p.message = "" /\ p.meanwhile = late
      /\ p.mounted = panel.mounted /\ p.busy = panel.busy /\ p.accepted = panel.accepted
      /\ p.dialog = panel.dialog
      BY <1>2 DEF Form
<1> HIDE DEF p
<1>5. SettingsShape'
      BY <1>1, <1>4 DEF SettingsPageInv, SettingsShape, Known, UnderWay, Form, Unread
<1>6. OneOfEach'
      BY <1>1, <1>4 DEF SettingsPageInv, OneOfEach, Here
<1>7. ASSUME panel.mounted, NEW r \in requests, Here(r), r.action = "update"
      PROVE  late /\ (r.answered => panel.accepted.read)
      BY <1>3, <1>7 DEF SettingsPageInv, OneOfEach, FormInv, Carries
<1>8. FormInv'
      BY <1>1, <1>4, <1>7 DEF FormInv, Here, Carries
<1>9. TwoClicks' /\ BundleHasDialog'
      BY <1>1, <1>4 DEF SettingsPageInv, TwoClicks, BundleHasDialog
<1>10. QED  BY <1>5, <1>6, <1>8, <1>9 DEF SettingsPageInv

LEMMA OpensKeeps == ASSUME SettingsPageInv, OpensSettings PROVE SettingsPageInv'
<1>1. /\ panel' = Fresh /\ seat' = seat + 1 /\ UNCHANGED <<rules, records, known, requests>>
      BY DEF OpensSettings, Server
<1>2. known \in Known /\ seat \in Nat
      BY DEF SettingsPageInv, SettingsShape
<1>3. /\ panel' \in Form /\ ~panel'.edited /\ panel'.message = "" /\ panel'.busy = {}
      /\ (known.read => Meaning[panel'.form] = known.rules)
      BY <1>1, <1>2, FreshTyped
<1>4. ASSUME NEW r \in requests PROVE r.seat <= seat /\ r.seat \in Nat /\ r.seat # seat + 1
      BY <1>2 DEF SettingsPageInv, SettingsShape, UnderWay
<1>5. SettingsShape'
  <2>1. \A r \in requests : r.seat <= seat + 1
        BY <1>2, <1>4
  <2>2. rules \in Acceptable /\ records \in BOOLEAN /\ requests \subseteq UnderWay
        BY DEF SettingsPageInv, SettingsShape
  <2>3. (rules \in Acceptable /\ records \in BOOLEAN /\ known \in Known /\ requests \subseteq UnderWay)'
        BY <1>1, <1>2, <2>2
  <2>4. seat' \in Nat /\ \A r \in requests' : r.seat <= seat'
        BY <1>1, <1>2, <2>1
  <2>5. QED  BY <1>3, <2>3, <2>4 DEF SettingsShape
<1>6. \A r \in requests' : ~Here(r)'
      BY <1>1, <1>4 DEF Here
<1>7. OneOfEach'
      BY <1>6 DEF OneOfEach
<1>8. FormInv'
      BY <1>1, <1>3, <1>6 DEF FormInv, AsKnown
<1>9. TwoClicks' /\ BundleHasDialog'
      BY <1>1, <1>3 DEF SettingsPageInv, TwoClicks, BundleHasDialog
<1>10. QED  BY <1>5, <1>7, <1>8, <1>9 DEF SettingsPageInv

LEMMA CallsKeep ==
    ASSUME SettingsPageInv,
           Saves \/ CleansUp \/ Confirms \/ DownloadsBundle \/ \E a \in {"import", "export"} : Transfers(a)
    PROVE  SettingsPageInv'
<1>1. panel \in Form /\ panel.mounted
      BY DEF SettingsPageInv, SettingsShape, Saves, CleansUp, Confirms, DownloadsBundle, Transfers, Clicking
<1>2. /\ panel.form \in Texts /\ panel.armed \in 0..Patience
      /\ DOMAIN Meaning = Texts /\ Patience \in Nat
      BY <1>1, SettingsAssumption DEF Form
<1>3. 0 \in SentValues /\ Meaning[panel.form] \in SentValues /\ panel.armed \in SentValues
      BY <1>2 DEF SentValues
<1>4. CASE Saves
  <2> DEFINE p == [panel EXCEPT !.message = "", !.meanwhile = FALSE]
  <2>1. Calls("update", Meaning[panel.form], p) /\ panel.edited
        BY <1>4 DEF Saves
  <2>2. /\ p \in Form /\ p.mounted = panel.mounted /\ p.busy = panel.busy /\ p.accepted = panel.accepted
        /\ p.form = panel.form /\ p.edited = panel.edited /\ p.message = "" /\ p.dialog = panel.dialog
        /\ "update" \in Actions
        BY <1>1 DEF Form, Actions
  <2> HIDE DEF p
  <2>3. QED  BY <1>1, <1>3, <2>1, <2>2, CallKeeps
<1>5. CASE CleansUp
  <2> DEFINE p == [panel EXCEPT !.message = ""]
  <2>1. Calls("clean", 0, p)
        BY <1>5 DEF CleansUp
  <2>2. /\ p \in Form /\ p.mounted = panel.mounted /\ p.busy = panel.busy /\ p.accepted = panel.accepted
        /\ p.form = panel.form /\ p.edited = panel.edited /\ p.message = "" /\ p.dialog = panel.dialog
        /\ p.meanwhile = panel.meanwhile /\ "clean" \in Actions
        BY <1>1 DEF Form, Actions
  <2> HIDE DEF p
  <2>3. QED  BY <1>1, <1>3, <2>1, <2>2, CallKeeps
<1>6. CASE Confirms
  <2> DEFINE p == [panel EXCEPT !.warning = ""]
  <2>5. panel.armed # Patience
        BY <1>6 DEF Confirms, NotArmed
  <2>1. Calls("clear", panel.armed, p) /\ panel.armed < Patience
    <3>1. Calls("clear", panel.armed, p)
          BY <1>6 DEF Confirms
    <3>2. panel.armed < Patience
          BY <1>2, <2>5
    <3>3. QED  BY <3>1, <3>2
  <2>2. /\ p \in Form /\ p.mounted = panel.mounted /\ p.busy = panel.busy /\ p.accepted = panel.accepted
        /\ p.form = panel.form /\ p.edited = panel.edited /\ p.message = panel.message
        /\ p.dialog = panel.dialog /\ p.meanwhile = panel.meanwhile /\ "clear" \in Actions
        BY <1>1 DEF Form, Actions
  <2> HIDE DEF p
  <2>3. QED  BY <1>1, <1>3, <2>1, <2>2, CallKeeps
<1>7. CASE DownloadsBundle
  <2>1. Calls("bundle", 0, panel) /\ panel.dialog /\ "bundle" \in Actions
        BY <1>7 DEF DownloadsBundle, Actions
  <2>2. QED  BY <1>1, <1>3, <2>1, CallKeeps
<1>8. ASSUME NEW a \in {"import", "export"}, Transfers(a) PROVE SettingsPageInv'
  <2>1. Calls(a, 0, panel) /\ a \in Actions /\ a # "update" /\ a # "clear" /\ a # "bundle"
        BY <1>8 DEF Transfers, Actions
  <2>2. QED  BY <1>1, <1>3, <2>1, CallKeeps
<1>9. QED  BY <1>4, <1>5, <1>6, <1>7, <1>8

LEMMA PanelStepsKeep ==
    ASSUME SettingsPageInv, LeavesSettings \/ Warns \/ TimePasses \/ TogglesDialog
    PROVE  SettingsPageInv'
<1>1. panel \in Form
      BY DEF SettingsPageInv, SettingsShape
<1>2. panel.armed \in 0..Patience /\ Patience \in Nat /\ panel.dialog \in BOOLEAN
      BY <1>1, SettingsAssumption DEF Form
<1>3. "bundle" \in panel.busy => panel.dialog
      BY DEF SettingsPageInv, BundleHasDialog
<1>4. CASE LeavesSettings
  <2> DEFINE p == [panel EXCEPT !.mounted = FALSE]
  <2>1. panel' = p /\ UNCHANGED <<rules, records, known, requests, seat>>
        BY <1>4, Zenon DEF LeavesSettings, Server
  <2>2. /\ p \in Form /\ p.mounted = FALSE /\ p.busy = panel.busy /\ p.accepted = panel.accepted
        /\ p.form = panel.form /\ p.edited = panel.edited /\ p.message = panel.message
        /\ p.dialog = panel.dialog /\ p.meanwhile = panel.meanwhile
        BY <1>1 DEF Form
  <2> HIDE DEF p
  <2>3. QED  BY <1>3, <2>1, <2>2, PanelKeeps
<1>5. CASE Warns
  <2>0. 0 \in 0..Patience
        BY <1>2
  <2> DEFINE p == [panel EXCEPT !.armed = 0, !.warning = "click again"]
  <2>1. panel' = p /\ UNCHANGED <<rules, records, known, requests, seat>>
        BY <1>5, Zenon DEF Warns, Server
  <2>2. /\ p \in Form /\ p.mounted = panel.mounted /\ p.busy = panel.busy /\ p.accepted = panel.accepted
        /\ p.form = panel.form /\ p.edited = panel.edited /\ p.message = panel.message
        /\ p.dialog = panel.dialog /\ p.meanwhile = panel.meanwhile
        BY <1>1, <2>0 DEF Form
  <2> HIDE DEF p
  <2>3. QED  BY <1>3, <2>1, <2>2, PanelKeeps
<1>6. CASE TimePasses
  <2> DEFINE later == panel.armed + 1
             p == [panel EXCEPT !.armed = later]
  <2>1. panel' = p /\ UNCHANGED <<rules, records, known, requests, seat>> /\ panel.armed < Patience
        BY <1>6, Zenon DEF TimePasses, Server
  <2>2. later \in 0..Patience
        BY <1>2, <2>1
  <2> HIDE DEF later
  <2>3. /\ p \in Form /\ p.mounted = panel.mounted /\ p.busy = panel.busy /\ p.accepted = panel.accepted
        /\ p.form = panel.form /\ p.edited = panel.edited /\ p.message = panel.message
        /\ p.dialog = panel.dialog /\ p.meanwhile = panel.meanwhile
        BY <1>1, <2>2 DEF Form
  <2> HIDE DEF p
  <2>4. QED  BY <1>3, <2>1, <2>3, PanelKeeps
<1>7. CASE TogglesDialog
  <2> DEFINE p == [panel EXCEPT !.dialog = ~panel.dialog]
  <2>1. /\ panel' = p /\ UNCHANGED <<rules, records, known, requests, seat>>
        /\ "bundle" \notin panel.busy
        BY <1>7, Zenon DEF TogglesDialog, Server
  <2>2. /\ p \in Form /\ p.mounted = panel.mounted /\ p.busy = panel.busy /\ p.accepted = panel.accepted
        /\ p.form = panel.form /\ p.edited = panel.edited /\ p.message = panel.message
        /\ p.meanwhile = panel.meanwhile
        BY <1>1 DEF Form
  <2> HIDE DEF p
  <2>3. QED  BY <2>1, <2>2, PanelKeeps
<1>8. QED  BY <1>4, <1>5, <1>6, <1>7

(* What is known of a request under way, and of two of them.                 *)
LEMMA RequestsAreKnown ==
    ASSUME SettingsPageInv
    PROVE  /\ \A r \in requests : r \in UnderWay /\ r.action \in Actions
           /\ \A r \in requests : IsHere(r) => r.action \in panel.busy
           /\ \A r, q \in requests : IsHere(r) /\ IsHere(q) /\ r.action = q.action => r = q
           /\ \A r \in requests : IsHere(r) /\ r.action = "update" => Carries(r)
           /\ \A r \in requests : (IsHere(r) <=> panel.mounted /\ Here(r))
<1>1. \A r \in requests : r \in UnderWay /\ r.action \in Actions
      BY DEF SettingsPageInv, SettingsShape, UnderWay
<1>2. \A r \in requests : (IsHere(r) <=> panel.mounted /\ Here(r))
      BY DEF IsHere, Here
<1>3. \A r \in requests : IsHere(r) => r.action \in panel.busy
      BY <1>2 DEF SettingsPageInv, OneOfEach
<1>4. \A r, q \in requests : IsHere(r) /\ IsHere(q) /\ r.action = q.action => r = q
      BY <1>2 DEF SettingsPageInv, OneOfEach
<1>5. \A r \in requests : IsHere(r) /\ r.action = "update" => Carries(r)
      BY <1>2 DEF SettingsPageInv, FormInv
<1>6. QED  BY <1>1, <1>2, <1>3, <1>4, <1>5

(* A request ends without the page taking a value from it.                   *)
LEMMA EndKeeps ==
    ASSUME SettingsPageInv, NEW r \in requests, NEW p \in Form, panel' = p, requests' = requests \ {r},
           rules' \in Acceptable, records' \in BOOLEAN, known' = known, seat' = seat,
           p.mounted = panel.mounted, p.accepted = panel.accepted, p.form = panel.form,
           p.edited = panel.edited, p.meanwhile = panel.meanwhile, p.message \in {panel.message, "failed"},
           p.busy = IF IsHere(r) THEN panel.busy \ {r.action} ELSE panel.busy,
           "bundle" \in p.busy => p.dialog = panel.dialog
    PROVE  SettingsPageInv'
<1>1. SettingsShape'
  <2>1. /\ known \in Known /\ seat \in Nat /\ requests \subseteq UnderWay
        /\ \A q \in requests : q.seat <= seat
        BY DEF SettingsPageInv, SettingsShape
  <2>2. (known \in Known /\ seat \in Nat /\ requests \subseteq UnderWay)'
        BY <2>1
  <2>3. \A q \in requests' : q.seat <= seat'
        BY <2>1
  <2>4. QED  BY <2>2, <2>3 DEF SettingsShape
<1>2. ASSUME NEW q \in requests', panel.mounted, Here(q)
      PROVE  q \in requests /\ IsHere(q) /\ q.action \in p.busy
  <2>1. q \in requests /\ q # r /\ IsHere(q)
        BY <1>2 DEF Here, IsHere
  <2>2. q.action \in panel.busy /\ (IsHere(r) => q.action # r.action)
        BY <2>1, RequestsAreKnown
  <2>3. QED  BY <2>1, <2>2
<1>3. OneOfEach'
  <2>1. ASSUME NEW q \in requests', NEW o \in requests', panel.mounted, Here(q), Here(o), q.action = o.action
        PROVE  q = o
        BY <1>2, <2>1, RequestsAreKnown
  <2>2. QED  BY <1>2, <2>1 DEF OneOfEach, Here
<1>4. FormInv'
  <2>1. ASSUME NEW q \in requests', panel.mounted, Here(q), q.action = "update" PROVE Carries(q)
        BY <1>2, <2>1, RequestsAreKnown
  <2>2. QED  BY <2>1 DEF SettingsPageInv, FormInv, Here, Carries, AsKnown, AsAccepted
<1>5. TwoClicks'
      BY DEF SettingsPageInv, TwoClicks
<1>6. BundleHasDialog'
      BY DEF SettingsPageInv, BundleHasDialog
<1>7. QED  BY <1>1, <1>3, <1>4, <1>5, <1>6 DEF SettingsPageInv

LEMMA ServerKeeps ==
    ASSUME SettingsPageInv, NEW r \in requests, ServerDoes(r) \/ UNCHANGED <<rules, records>>
    PROVE  rules' \in Acceptable /\ records' \in BOOLEAN
BY DEF SettingsPageInv, SettingsShape, ServerDoes

LEMMA NotFulfilledKeeps == ASSUME SettingsPageInv, NEW r \in requests, NotFulfilled(r) PROVE SettingsPageInv'
<1> DEFINE told == Told(r, "failed")
           p == IF IsHere(r) THEN [told EXCEPT !.busy = told.busy \ {r.action}] ELSE panel
<1>1. panel' = p /\ requests' = requests \ {r} /\ known' = known /\ seat' = seat
      BY Zenon DEF NotFulfilled, Done
<1>2. panel \in Form /\ rules' \in Acceptable /\ records' \in BOOLEAN
      BY ServerKeeps DEF NotFulfilled, SettingsPageInv, SettingsShape
<1>3. /\ told \in Form /\ told.mounted = panel.mounted /\ told.busy = panel.busy
      /\ told.accepted = panel.accepted /\ told.form = panel.form /\ told.edited = panel.edited
      /\ told.message \in {panel.message, "failed"}
      /\ told.dialog = panel.dialog /\ told.meanwhile = panel.meanwhile
  <2>1. told \in {panel, [panel EXCEPT !.message = "failed"], [panel EXCEPT !.warning = "failed"]}
        BY DEF Told
  <2> HIDE DEF told
  <2>2. CASE told = panel
        BY <1>2, <2>2
  <2>3. CASE told = [panel EXCEPT !.message = "failed"]
        BY <1>2, <2>3 DEF Form
  <2>4. CASE told = [panel EXCEPT !.warning = "failed"]
        BY <1>2, <2>4 DEF Form
  <2>5. QED  BY <2>1, <2>2, <2>3, <2>4
<1> HIDE DEF told
<1>4. /\ p \in Form /\ p.mounted = panel.mounted /\ p.accepted = panel.accepted
      /\ p.busy = (IF IsHere(r) THEN panel.busy \ {r.action} ELSE panel.busy)
      /\ p.form = panel.form /\ p.edited = panel.edited /\ p.message \in {panel.message, "failed"}
      /\ p.dialog = panel.dialog /\ p.meanwhile = panel.meanwhile
  <2>1. CASE IsHere(r)
    <3>1. p = [told EXCEPT !.busy = told.busy \ {r.action}]
          BY <2>1
    <3> HIDE DEF p
    <3>2. QED  BY <1>3, <2>1, <3>1 DEF Form
  <2>2. CASE ~IsHere(r)
        BY <1>2, <2>2
  <2>3. QED  BY <2>1, <2>2
<1> HIDE DEF p
<1>5. QED  BY <1>1, <1>2, <1>4, EndKeeps

(* The server has done what the page goes on to read the result of; if it    *)
(* was the form that was saved, the page takes the value for accepted.       *)
LEMMA AnswerKeeps ==
    ASSUME SettingsPageInv, NEW r \in requests, Fulfilled(r), r.action \in Rereads
    PROVE  SettingsPageInv'
<1> DEFINE s == [r EXCEPT !.answered = TRUE]
           taken == [read |-> TRUE, rules |-> rules']
           mine == IsHere(r) /\ r.action = "update"
           p == IF mine THEN [panel EXCEPT !.accepted = taken] ELSE panel
<1>1. /\ requests' = (requests \ {r}) \cup {s} /\ panel' = p /\ known' = known /\ seat' = seat
      /\ ~r.answered /\ Succeeds(r) /\ ServerDoes(r)
      BY Zenon DEF Fulfilled
<1>2. /\ panel \in Form /\ known \in Known /\ seat \in Nat /\ rules' \in Acceptable /\ records' \in BOOLEAN
      BY <1>1, ServerKeeps DEF SettingsPageInv, SettingsShape
<1>3. r.action = "update" => rules' = r.value
      BY <1>1 DEF Succeeds, ServerDoes
<1>4. /\ s \in UnderWay /\ s.action = r.action /\ s.seat = r.seat /\ s.value = r.value /\ s.answered = TRUE
      BY RequestsAreKnown DEF UnderWay
<1>5. taken.read = TRUE /\ taken.rules = rules' /\ taken \in [read : {TRUE}, rules : Acceptable]
      BY <1>2
<1>6. (mine <=> panel.mounted /\ Here(r) /\ r.action = "update")
      BY DEF IsHere, Here
<1> HIDE DEF s, taken, mine
<1>7. /\ p \in Form /\ p.mounted = panel.mounted /\ p.busy = panel.busy /\ p.form = panel.form
      /\ p.edited = panel.edited /\ p.message = panel.message /\ p.dialog = panel.dialog
      /\ p.meanwhile = panel.meanwhile
      /\ p.accepted = IF mine THEN taken ELSE panel.accepted
  <2>1. CASE mine
    <3>1. p = [panel EXCEPT !.accepted = taken]
          BY <2>1
    <3> HIDE DEF p
    <3>2. QED  BY <1>2, <1>5, <2>1, <3>1 DEF Form
  <2>2. CASE ~mine
        BY <1>2, <2>2
  <2>3. QED  BY <2>1, <2>2
<1> HIDE DEF p
<1>8. SettingsShape'
  <2>1. requests \subseteq UnderWay /\ \A q \in requests : q.seat <= seat
        BY DEF SettingsPageInv, SettingsShape
  <2>2. requests' \subseteq UnderWay
        BY <1>1, <1>4, <2>1
  <2>3. \A q \in requests' : q.seat <= seat
        BY <1>1, <1>4, <2>1
  <2>4. QED  BY <1>1, <1>2, <1>7, <2>2, <2>3 DEF SettingsShape
<1>9. ASSUME NEW q \in requests', panel.mounted, Here(q)
      PROVE  \E o \in requests : IsHere(o) /\ o.action = q.action /\ q = IF o = r THEN s ELSE o
  <2>1. CASE q = s
        BY <1>1, <1>4, <1>9, <2>1 DEF IsHere, Here
  <2>2. CASE q # s
        BY <1>1, <1>9, <2>2 DEF IsHere, Here
  <2>3. QED  BY <2>1, <2>2
<1>10. OneOfEach'
  <2>1. ASSUME NEW q \in requests', NEW o \in requests', panel.mounted, Here(q), Here(o), q.action = o.action
        PROVE  q = o
        BY <1>9, <2>1, RequestsAreKnown
  <2>2. ASSUME NEW q \in requests', panel.mounted, Here(q) PROVE q.action \in panel.busy
        BY <1>9, <2>2, RequestsAreKnown
  <2>3. QED  BY <1>1, <1>7, <2>1, <2>2 DEF OneOfEach, Here
<1>11. mine => Carries(r)
      BY <1>6, RequestsAreKnown
<1>12. FormInv'
  <2>1. (panel.mounted /\ known.read /\ ~panel.edited /\ ~panel.meanwhile => AsKnown \/ AsAccepted)'
    <3>1. CASE mine
          BY <1>1, <1>7, <1>11, <3>1 DEF Carries, AsKnown
    <3>2. CASE ~mine
          BY <1>1, <1>7, <3>2 DEF SettingsPageInv, FormInv, AsKnown, AsAccepted
    <3>3. QED  BY <3>1, <3>2
  <2>2. (panel.message = "applied" => panel.accepted.read /\ ~panel.edited)'
        BY <1>1, <1>5, <1>7 DEF SettingsPageInv, FormInv
  <2>3. ASSUME NEW q \in requests', panel.mounted, Here(q), q.action = "update" PROVE Carries(q)'
    <3>1. PICK o \in requests : IsHere(o) /\ o.action = q.action /\ q = IF o = r THEN s ELSE o
          BY <1>9, <2>3
    <3>2. Carries(o)
          BY <2>3, <3>1, RequestsAreKnown
    <3>3. CASE o = r
      <4>1. mine /\ q = s
            BY <1>6, <2>3, <3>1, <3>3, RequestsAreKnown
      <4>2. QED  BY <1>1, <1>3, <1>4, <1>5, <1>7, <3>2, <3>3, <4>1, <2>3 DEF Carries, AsKnown, AsAccepted
    <3>4. CASE o # r
      <4>1. ~mine /\ q = o
            BY <1>6, <2>3, <3>1, <3>4, RequestsAreKnown
      <4>2. QED  BY <1>1, <1>7, <3>2, <4>1 DEF Carries, AsKnown, AsAccepted
    <3>5. QED  BY <3>3, <3>4
  <2>4. QED  BY <1>1, <1>7, <2>1, <2>2, <2>3 DEF FormInv, Here
<1>13. TwoClicks' /\ BundleHasDialog'
      BY <1>1, <1>4, <1>7 DEF SettingsPageInv, TwoClicks, BundleHasDialog
<1>14. QED  BY <1>8, <1>10, <1>12, <1>13 DEF SettingsPageInv

LEMMA FulfilledKeeps == ASSUME SettingsPageInv, NEW r \in requests, Fulfilled(r) PROVE SettingsPageInv'
<1>1. CASE r.action \in Rereads
      BY <1>1, AnswerKeeps
<1>2. CASE r.action \notin Rereads
  <2> DEFINE stays == panel.dialog /\ r.action # "bundle"
             p == IF ~IsHere(r) THEN panel
                  ELSE [panel EXCEPT !.dialog = stays, !.busy = panel.busy \ {r.action}]
  <2>1. panel \in Form /\ rules' \in Acceptable /\ records' \in BOOLEAN
        BY ServerKeeps DEF Fulfilled, SettingsPageInv, SettingsShape
  <2>2. requests' = requests \ {r} /\ known' = known /\ seat' = seat
        BY <1>2, Zenon DEF Fulfilled
  <2>3. panel' = p
    <3>1. panel' = IF ~IsHere(r) THEN panel ELSE Done(r, [panel EXCEPT !.dialog = stays])
          BY <1>2, Zenon DEF Fulfilled
    <3>2. stays \in BOOLEAN
          BY <2>1 DEF Form
    <3> HIDE DEF stays
    <3>3. Done(r, [panel EXCEPT !.dialog = stays])
              = [panel EXCEPT !.dialog = stays, !.busy = panel.busy \ {r.action}]
          BY <2>1 DEF Done, Form
    <3>4. QED  BY <3>1, <3>3
  <2>4. stays \in BOOLEAN /\ (r.action # "bundle" => stays = panel.dialog)
        BY <2>1 DEF Form
  <2> HIDE DEF stays
  <2>5. /\ p \in Form /\ p.mounted = panel.mounted /\ p.accepted = panel.accepted
        /\ p.busy = (IF IsHere(r) THEN panel.busy \ {r.action} ELSE panel.busy)
        /\ p.form = panel.form /\ p.edited = panel.edited /\ p.message = panel.message
        /\ p.dialog = (IF IsHere(r) THEN stays ELSE panel.dialog) /\ p.meanwhile = panel.meanwhile
    <3>1. CASE IsHere(r)
      <4>1. p = [panel EXCEPT !.dialog = stays, !.busy = panel.busy \ {r.action}]
            BY <3>1
      <4> HIDE DEF p
      <4>2. QED  BY <2>1, <2>4, <3>1, <4>1 DEF Form
    <3>2. CASE ~IsHere(r)
          BY <2>1, <3>2
    <3>3. QED  BY <3>1, <3>2
  <2> HIDE DEF p
  <2>6. "bundle" \in p.busy => p.dialog = panel.dialog
        BY <2>4, <2>5
  <2>7. QED  BY <2>1, <2>2, <2>3, <2>5, <2>6, EndKeeps
<1>3. QED  BY <1>1, <1>2

LEMMA PatienceIsReached == Patience \in 0..Patience
<1>1. Patience \in Nat
      BY SettingsAssumption
<1>2. QED  BY <1>1

(* A reading ends and everyone who waits for it hears of that, after the     *)
(* form was filled anew or was left as it was.                               *)
LEMMA HeardKeeps ==
    ASSUME SettingsPageInv, NEW q \in Form, panel' = Heard(q), requests' = requests \ Waiting,
           rules' = rules, records' = records, seat' = seat, known' \in Known,
           q.mounted = panel.mounted, q.accepted = panel.accepted, q.busy = panel.busy,
           q.message = panel.message, q.dialog = panel.dialog,
           \/ /\ q.form = panel.form /\ q.edited = panel.edited /\ q.meanwhile = panel.meanwhile
              /\ panel.mounted => known' = known
           \/ ~q.edited /\ ~q.meanwhile /\ known'.read /\ Meaning[q.form] = known'.rules
    PROVE  SettingsPageInv'
<1> DEFINE here == {r.action : r \in {w \in Waiting : IsHere(w)}}
           busy == q.busy \ here
           edited == q.edited /\ "update" \notin here
           message == IF "update" \in here THEN "applied"
                      ELSE IF "clean" \in here THEN "cleaned" ELSE q.message
           armed == IF "clear" \in here THEN NotArmed ELSE q.armed
           warning == IF "clear" \in here THEN "cleared" ELSE q.warning
           p == [q EXCEPT !.busy = busy, !.edited = edited, !.message = message,
                          !.armed = armed, !.warning = warning]
<1>1. panel' = p
      BY Zenon DEF Heard
<1>2. Patience \in 0..Patience
      BY PatienceIsReached
<1>3. /\ busy \in SUBSET Actions /\ edited \in BOOLEAN /\ armed \in 0..Patience
      /\ message \in {"", "failed", "applied", "cleaned"}
      /\ warning \in {"", "click again", "failed", "cleared"}
      BY <1>2 DEF Form, NotArmed
<1>4. /\ busy = panel.busy \ here /\ (edited <=> q.edited /\ "update" \notin here)
      /\ ("update" \in here => message = "applied")
      /\ ("update" \notin here => message \in {"cleaned", panel.message})
      OBVIOUS
<1>5. \A a : a \in here <=> \E w \in requests : w.answered /\ IsHere(w) /\ w.action = a
      BY DEF Waiting
<1>6. \A r \in requests : r \in Waiting <=> r.answered
      BY DEF Waiting
<1> HIDE DEF here, busy, edited, message, armed, warning
<1>7. /\ p \in Form /\ p.mounted = panel.mounted /\ p.accepted = panel.accepted /\ p.form = q.form
      /\ p.dialog = panel.dialog /\ p.meanwhile = q.meanwhile /\ p.busy = busy /\ p.edited = edited
      /\ p.message = message
      BY <1>3, ZenonT(30) DEF Form
<1> HIDE DEF p
<1>8. SettingsShape'
  <2>1. /\ rules \in Acceptable /\ records \in BOOLEAN /\ seat \in Nat /\ requests \subseteq UnderWay
        /\ \A r \in requests : r.seat <= seat
        BY DEF SettingsPageInv, SettingsShape
  <2>2. requests' \subseteq UnderWay /\ \A r \in requests' : r.seat <= seat
        BY <2>1
  <2>3. QED  BY <1>1, <1>7, <2>1, <2>2 DEF SettingsShape
<1>9. ASSUME NEW r \in requests', panel.mounted, Here(r)
      PROVE  r \in requests /\ ~r.answered /\ IsHere(r) /\ r.action \notin here /\ r.action \in busy
  <2>1. r \in requests /\ ~r.answered /\ IsHere(r)
        BY <1>6, <1>9 DEF IsHere, Here
  <2>2. r.action \notin here
        BY <1>5, <2>1, RequestsAreKnown
  <2>3. QED  BY <1>4, <2>1, <2>2, RequestsAreKnown
<1>10. OneOfEach'
  <2>1. ASSUME NEW r \in requests', NEW o \in requests', panel.mounted, Here(r), Here(o), r.action = o.action
        PROVE  r = o
        BY <1>9, <2>1, RequestsAreKnown
  <2>2. QED  BY <1>1, <1>7, <1>9, <2>1 DEF OneOfEach, Here
<1>11. ASSUME "update" \in here
       PROVE  /\ panel.mounted /\ panel.accepted.read
              /\ ~panel.meanwhile /\ panel.edited => AsAccepted
  <2>1. PICK w \in requests : w.answered /\ IsHere(w) /\ w.action = "update"
        BY <1>5, <1>11
  <2>2. Carries(w)
        BY <2>1, RequestsAreKnown
  <2>3. QED  BY <2>1, <2>2 DEF Carries, IsHere
<1>12. FormInv'
  <2>1. ASSUME panel.mounted, known'.read, ~edited, ~q.meanwhile PROVE AsKnown' \/ AsAccepted'
    <3>1. CASE ~q.edited /\ ~q.meanwhile /\ known'.read /\ Meaning[q.form] = known'.rules
          BY <1>1, <1>7, <3>1 DEF AsKnown
    <3>2. CASE /\ q.form = panel.form /\ q.edited = panel.edited /\ q.meanwhile = panel.meanwhile
               /\ panel.mounted => known' = known
      <4>1. AsKnown \/ AsAccepted
            BY <1>4, <1>11, <2>1, <3>2 DEF SettingsPageInv, FormInv
      <4>2. QED  BY <1>1, <1>7, <2>1, <3>2, <4>1 DEF AsKnown, AsAccepted
    <3>3. QED  BY <3>1, <3>2
  <2>2. message = "applied" => panel.accepted.read /\ ~edited
    <3>1. CASE "update" \in here
          BY <1>4, <1>11, <3>1
    <3>2. CASE "update" \notin here
          BY <1>4, <3>2 DEF SettingsPageInv, FormInv
    <3>3. QED  BY <3>1, <3>2
  <2>3. ASSUME NEW r \in requests', panel.mounted, Here(r), r.action = "update" PROVE Carries(r)'
    <3>1. /\ r \in requests /\ ~r.answered /\ "update" \notin here /\ Carries(r)
          BY <1>9, <2>3, RequestsAreKnown
    <3>2. CASE ~q.edited /\ ~q.meanwhile /\ known'.read /\ Meaning[q.form] = known'.rules
          BY <1>1, <1>4, <1>7, <3>1, <3>2 DEF Carries, AsKnown
    <3>3. CASE /\ q.form = panel.form /\ q.edited = panel.edited /\ q.meanwhile = panel.meanwhile
               /\ panel.mounted => known' = known
          BY <1>1, <1>4, <1>7, <2>3, <3>1, <3>3 DEF Carries, AsKnown
    <3>4. QED  BY <3>2, <3>3
  <2>4. QED  BY <1>1, <1>7, <2>1, <2>2, <2>3 DEF FormInv, Here
<1>13. TwoClicks' /\ BundleHasDialog'
       BY <1>1, <1>4, <1>7 DEF SettingsPageInv, TwoClicks, BundleHasDialog
<1>14. QED  BY <1>8, <1>10, <1>12, <1>13 DEF SettingsPageInv

LEMMA ReadingsKeep == ASSUME SettingsPageInv, RulesArrive \/ ReadingFails PROVE SettingsPageInv'
<1>1. /\ panel \in Form /\ known \in Known /\ rules \in Acceptable /\ records \in BOOLEAN
      BY DEF SettingsPageInv, SettingsShape
<1>2. CASE ReadingFails
  <2>1. /\ panel' = Heard(panel) /\ requests' = requests \ Waiting
        /\ UNCHANGED <<rules, records, known, seat>>
        BY <1>2, Zenon DEF ReadingFails, Server
  <2>2. QED  BY <1>1, <2>1, HeardKeeps
<1>3. CASE RulesArrive
  <2> DEFINE answer == [read |-> TRUE, rules |-> rules, records |-> records]
             text == TextFor[rules]
             filled == [panel EXCEPT !.form = text, !.edited = FALSE, !.meanwhile = FALSE]
             q == IF ~panel.mounted \/ known' = known THEN panel ELSE filled
  <2>1. /\ panel' = Heard(q) /\ requests' = requests \ Waiting /\ known' = answer
        /\ UNCHANGED <<rules, records, seat>>
        BY <1>3, Zenon DEF RulesArrive, Server
  <2>2. answer \in Known /\ answer.read = TRUE /\ answer.rules = rules
        BY <1>1 DEF Known
  <2>3. text \in Texts /\ Meaning[text] = rules
        BY <1>1, SettingsAssumption
  <2> HIDE DEF answer, text
  <2>4. /\ filled \in Form /\ filled.mounted = panel.mounted /\ filled.accepted = panel.accepted
        /\ filled.busy = panel.busy /\ filled.message = panel.message /\ filled.dialog = panel.dialog
        /\ filled.edited = FALSE /\ filled.meanwhile = FALSE /\ filled.form = text
        BY <1>1, <2>3 DEF Form
  <2> HIDE DEF filled
  <2>5. CASE ~panel.mounted \/ known' = known
    <3>1. q = panel /\ known' \in Known
          BY <2>1, <2>2, <2>5
    <3>2. panel' = Heard(panel)
          BY <2>1, <3>1
    <3>3. QED  BY <1>1, <2>1, <2>5, <3>1, <3>2, HeardKeeps
  <2>6. CASE ~(~panel.mounted \/ known' = known)
    <3>1. q = filled /\ known' \in Known
          BY <2>1, <2>2, <2>6
    <3>2. panel' = Heard(filled)
          BY <2>1, <3>1
    <3>3. QED  BY <2>1, <2>2, <2>3, <2>4, <3>1, <3>2, HeardKeeps
  <2>7. QED  BY <2>5, <2>6
<1>4. QED  BY <1>2, <1>3

LEMMA SettingsPageStep == SettingsPageInv /\ [SettingsPageNext]_settingsVars => SettingsPageInv'
<1> SUFFICES ASSUME SettingsPageInv, [SettingsPageNext]_settingsVars PROVE SettingsPageInv'
    OBVIOUS
<1>1. rules \in Acceptable /\ records \in BOOLEAN
      BY DEF SettingsPageInv, SettingsShape
<1>2. CASE \/ \E P \in Granted : IdentityLoads(P)
           \/ ReadsAgain \/ TasksArrive \/ \E v \in Acceptable : OthersSave(v)
           \/ UNCHANGED settingsVars
  <2>1. /\ rules' \in Acceptable /\ records' \in BOOLEAN
        /\ UNCHANGED <<known, requests, seat, panel>>
        BY <1>1, <1>2 DEF IdentityLoads, ReadsAgain, TasksArrive, OthersSave, settingsVars, Server
  <2>2. QED  BY <2>1, SettingsLeftAlone
<1>3. CASE OpensSettings
      BY <1>3, OpensKeeps
<1>4. CASE LeavesSettings \/ Warns \/ TimePasses \/ TogglesDialog
      BY <1>4, PanelStepsKeep
<1>5. CASE \E text \in Texts : Edits(text)
      BY <1>5, EditsKeeps
<1>6. CASE \/ Saves \/ CleansUp \/ Confirms \/ DownloadsBundle
           \/ \E a \in {"import", "export"} : Transfers(a)
      BY <1>6, CallsKeep
<1>7. CASE \E r \in requests : Fulfilled(r) \/ NotFulfilled(r)
      BY <1>7, FulfilledKeeps, NotFulfilledKeeps
<1>8. CASE RulesArrive \/ ReadingFails
      BY <1>8, ReadingsKeep
<1>9. QED  BY <1>2, <1>3, <1>4, <1>5, <1>6, <1>7, <1>8 DEF SettingsPageNext

(* The form, the deletion, the bundle and the preferences hold what they say *)
(* for every set of texts, values and permissions, however long a page is    *)
(* open and however requests, readings and clicks interleave                 *)
(* (RetentionPolicyPanel, DangerZonePanel, DownloadDebugBundleButton,        *)
(* applyDeploymentDefaults).                                                 *)
THEOREM SettingsAreHeld == SettingsSpec => []SettingsHold
<1>1. SettingsPageInv => SettingsSayWhatHolds
      BY DEF SettingsPageInv, FormInv, TwoClicks, BundleHasDialog, SettingsSayWhatHolds, AsKnown, AsAccepted
<1>2. PreferencesInv => PreferencesHold
      BY SavedFields DEF PreferencesInv, PreferencesHold, MayLast
<1>3. SettingsPageInv /\ PreferencesInv => SettingsHold
      BY <1>1, <1>2 DEF SettingsHold
<1>4. QED  BY <1>3, InitSettings, SettingsPageStep, InitPreferences, PreferencesStep, PTL DEF SettingsSpec

-----------------------------------------------------------------------------
(* The live view.  The piece of work in progress has a scope within what the *)
(* socket was granted, and once it has read, it has rows no older than what  *)
(* is shown: nothing else shows rows meanwhile.                              *)
Reads == [kind : {"read"}, request : Requests, id : {0}, current : BOOLEAN]
Works == Reads \cup [kind : {"live", "kill", "refresh"}, request : {0}, id : 0..MaxSubscriptions,
                     current : BOOLEAN]
Jobs == [at : {"waiting", "entered", "authorised", "read", "reread"}, work : Works,
         scope : SUBSET UNION Scopes, version : Nat]

IsShown(data) ==
    /\ data.version \in 0..written
    /\ data = Nothing \/ data.request \in Requests

IsDone(j, data) ==
    /\ j.scope \subseteq granted
    /\ j.at \in {"authorised", "read", "reread"} => j.work \in Reads
    /\ j.at \in {"read", "reread"} => j.version \in data.version..written

RowsInv ==
    /\ written \in Nat /\ request \in Requests /\ subscription \in 0..MaxSubscriptions
    /\ granted \subseteq UNION Scopes /\ policy \subseteq UNION Scopes
    /\ queue \in Seq(Works) /\ job \in Jobs /\ subscriptions \subseteq 1..MaxSubscriptions
    /\ IsShown(shown) /\ IsDone(job, shown)

(* A reply is sent only with rows of the scope of now, none older than those *)
(* of the reply before.                                                      *)
RowsStep ==
    /\ shown' \notin {shown, Nothing} => job.scope \subseteq policy \cap granted
    /\ shown.request = shown'.request => shown.version <= shown'.version

(* A set of numbers that is not empty has a least one.                       *)
LEMMA LeastOf == ASSUME NEW S \in SUBSET Nat, S # {} PROVE \E m \in S : \A n \in S : m <= n
<1> DEFINE Below == {0 .. n : n \in S}
<1>1. \A n \in Nat : 0 .. n \in FiniteSubsetsOf(Nat)
  BY FS_Interval DEF FiniteSubsetsOf
<1>2. Below \subseteq FiniteSubsetsOf(Nat) /\ Below # {}
  BY <1>1
<1>3. PICK least \in Below : \A other \in Below : ~ (<<other, least>> \in StrictSubsetOrdering(Nat))
  <2> HIDE DEF Below
  <2> QED BY <1>2, FS_StrictSubsetOrderingWellFounded, WFMin
<1>4. PICK m \in S : least = 0 .. m
  BY <1>3
<1>5. ASSUME NEW n \in S, n < m PROVE FALSE
  <2>1. 0 .. n \in Below
    OBVIOUS
  <2>2. 0 .. n \subseteq 0 .. m /\ 0 .. n # 0 .. m /\ 0 .. n \in SUBSET Nat /\ 0 .. m \in SUBSET Nat
    BY <1>5
  <2> QED BY <1>3, <1>4, <2>1, <2>2 DEF StrictSubsetOrdering
<1> QED BY <1>5

LEMMA WorksTyped ==
    ASSUME subscription \in 0..MaxSubscriptions
    PROVE  /\ Refresh \in Works /\ Subscribe \in Works /\ NoJob \in Jobs
           /\ \A r \in Requests : InitialRead(r) \in Works /\ RefreshRead(r) \in Works
           /\ Kills \in Seq(Works)
           /\ \A c \in Works : Cancelled(c) \in Works /\ (c \in Reads => Cancelled(c) \in Reads)
<1>1. 0 \in 0..MaxSubscriptions /\ MaxSubscriptions \in Nat
      BY ObservationAssumption
<1>2. Refresh \in Works /\ Subscribe \in Works
      BY <1>1 DEF Refresh, Subscribe, Call, Works
<1>3. NoJob \in Jobs
      BY <1>2 DEF NoJob, Jobs
<1>4. \A r \in Requests : InitialRead(r) \in Works /\ RefreshRead(r) \in Works
      BY DEF InitialRead, RefreshRead, Call, Works, Reads
<1>5. Kill(subscription) \in Works
      BY DEF Kill, Call, Works
<1>6. Kills \in Seq(Works)
      BY <1>5 DEF Kills
<1>7. \A c \in Works : Cancelled(c) \in Works /\ (c \in Reads => Cancelled(c) \in Reads)
      BY DEF Cancelled, Works, Reads
<1>8. QED  BY <1>2, <1>3, <1>4, <1>6, <1>7

LEMMA ShowsNoOther == ASSUME RowsInv, shown' \in {shown, Nothing} PROVE RowsStep
<1>1. Nothing.request = 0 /\ Nothing.version = 0 /\ 0 \notin Requests
      BY ObservationAssumption DEF Nothing
<1>2. shown.version \in 0..written /\ written \in Nat /\ (shown = Nothing \/ shown.request \in Requests)
      BY DEF RowsInv, IsShown
<1>3. QED  BY <1>1, <1>2 DEF RowsStep

(* The server goes on, or closes the socket, while the hook shows what it    *)
(* may.                                                                      *)
LEMMA ProceedKeeps ==
    ASSUME RowsInv, NEW rest \in Seq(Works), NEW next \in Jobs, NEW ids \in SUBSET (1..MaxSubscriptions),
           NEW calls \in Seq(Works), Proceed(rest, next, ids, calls),
           UNCHANGED world, IsShown(shown'), IsDone(next, shown'),
           subscription' \in 0..MaxSubscriptions, request' \in Requests
    PROVE  RowsInv'
<1>1. /\ written' = written /\ policy' = policy /\ written \in Nat
      /\ granted \subseteq UNION Scopes /\ policy \subseteq UNION Scopes
      BY DEF RowsInv, world
<1>2. IsShown(shown)'
      BY <1>1 DEF IsShown
<1>3. \/ /\ queue' = rest \o calls /\ job' = next /\ subscriptions' = ids /\ granted' = granted
      \/ /\ queue' = <<>> /\ job' = NoJob /\ subscriptions' = {} /\ granted' = {}
      BY DEF Proceed, Close
<1>4. rest \o calls \in Seq(Works) /\ <<>> \in Seq(Works)
      OBVIOUS
<1>5. queue' \in Seq(Works) /\ job' \in Jobs /\ subscriptions' \subseteq 1..MaxSubscriptions
      BY <1>3, <1>4, WorksTyped DEF RowsInv
<1>6. granted' \subseteq UNION Scopes
      BY <1>1, <1>3
<1>7. NoJob.at = "waiting" /\ NoJob.scope = {}
      BY DEF NoJob
<1>8. IsDone(job, shown)'
  <2>1. CASE job' = next /\ granted' = granted
        BY <1>1, <2>1 DEF IsDone
  <2>2. CASE job' = NoJob
        BY <1>7, <2>2 DEF IsDone
  <2>3. QED  BY <1>3, <2>1, <2>2
<1>9. QED  BY <1>1, <1>2, <1>5, <1>6, <1>8 DEF RowsInv

(* What goes with any state: to be idle, to show nothing, and to go on.      *)
LEMMA Resting ==
    ASSUME RowsInv
    PROVE  /\ IsShown(shown) /\ IsShown(Nothing) /\ \A data : IsDone(NoJob, data)
           /\ job \in Jobs /\ IsDone(job, shown) /\ NoJob \in Jobs
           /\ written \in Nat /\ 0 \in 0..MaxSubscriptions
<1>1. written \in Nat /\ MaxSubscriptions \in Nat
      BY ObservationAssumption DEF RowsInv
<1>2. IsShown(Nothing)
      BY <1>1 DEF IsShown, Nothing
<1>3. \A data : IsDone(NoJob, data)
      BY DEF IsDone, NoJob
<1>4. NoJob \in Jobs
      BY WorksTyped DEF RowsInv
<1>5. QED  BY <1>1, <1>2, <1>3, <1>4 DEF RowsInv

LEMMA ReturnsKeep ==
    ASSUME RowsInv, NEW data, IsShown(data), Returns(data)
    PROVE  RowsInv'
<1> DEFINE calls == IF job.work.current THEN Kills \o <<Subscribe>> ELSE <<>>
<1>1. calls \in Seq(Works)
      BY WorksTyped DEF RowsInv
<1>2. /\ shown' = data /\ Proceed(queue, NoJob, subscriptions, calls)
      /\ UNCHANGED world /\ request' = request
      /\ subscription' = IF job.work.current THEN 0 ELSE subscription
      BY DEF Returns, Answered
<1> HIDE DEF calls
<1>3. /\ queue \in Seq(Works) /\ subscriptions \in SUBSET (1..MaxSubscriptions)
      /\ request' \in Requests /\ subscription' \in 0..MaxSubscriptions
      BY <1>2, Resting DEF RowsInv
<1>4. IsShown(shown') /\ IsDone(NoJob, shown') /\ NoJob \in Jobs
      BY <1>2, Resting
<1>5. QED  BY <1>1, <1>2, <1>3, <1>4, ProceedKeeps

LEMMA ServingKeeps ==
    ASSUME RowsInv, NEW next \in Jobs, IsDone(next, shown), UNCHANGED <<world, hook>>,
           NEW calls \in Seq(Works), NEW rest \in Seq(Works), NEW ids \in SUBSET (1..MaxSubscriptions),
           Proceed(rest, next, ids, calls)
    PROVE  RowsInv' /\ RowsStep
<1>1. shown' = shown /\ request' = request /\ subscription' = subscription
      BY DEF hook
<1>2. IsShown(shown') /\ IsDone(next, shown') /\ request' \in Requests
      /\ subscription' \in 0..MaxSubscriptions
      BY <1>1 DEF RowsInv
<1>3. QED  BY <1>1, <1>2, ProceedKeeps, ShowsNoOther

LEMMA CloseKeeps == ASSUME RowsInv, Close, UNCHANGED <<world, hook>> PROVE RowsInv' /\ RowsStep
<1>1. /\ shown' = shown /\ request' = request /\ subscription' = subscription
      /\ written' = written /\ policy' = policy
      /\ queue' = <<>> /\ job' = NoJob /\ subscriptions' = {} /\ granted' = {}
      BY DEF hook, world, Close
<1>2. <<>> \in Seq(Works)
      OBVIOUS
<1>3. IsShown(shown)' /\ IsDone(job, shown)' /\ job' \in Jobs
      BY <1>1, Resting DEF IsShown, IsDone, NoJob
<1>4. QED  BY <1>1, <1>2, <1>3, ShowsNoOther DEF RowsInv

LEMMA EntersKeeps ==
    ASSUME RowsInv, NEW k \in DOMAIN queue, Enters(k)
    PROVE  RowsInv' /\ RowsStep
<1> DEFINE j == [NoJob EXCEPT !.at = "entered", !.work = queue[k]]
<1>1. /\ queue \in Seq(Works) /\ subscriptions \in SUBSET (1..MaxSubscriptions) /\ request \in Requests
      BY DEF RowsInv
<1>2. queue[k] \in Works
      BY <1>1
<1>3. Without(k) \in Seq(Works)
  <2>1. Len(queue) \in Nat /\ k \in 1..Len(queue) /\ \A n \in 1..Len(queue) : queue[n] \in Works
        BY <1>1
  <2>2. Len(queue) - 1 \in Nat
        BY <2>1
  <2>3. ASSUME NEW n \in 1..Len(queue) - 1 PROVE (IF n < k THEN queue[n] ELSE queue[n + 1]) \in Works
    <3>1. n \in 1..Len(queue) /\ n + 1 \in 1..Len(queue)
          BY <2>1
    <3>2. QED  BY <2>1, <3>1
  <2>4. QED  BY <2>2, <2>3 DEF Without
<1>4. CallsOnRefresh \in Seq(Works)
  <2>1. RefreshRead(request) \in Works
        BY <1>1, WorksTyped DEF RowsInv
  <2>2. QED  BY <2>1 DEF CallsOnRefresh
<1>5. j \in Jobs /\ j.at = "entered" /\ j.scope = {}
      BY <1>2, Resting DEF NoJob, Jobs
<1>6. IsDone(j, shown) /\ IsDone(NoJob, shown) /\ NoJob \in Jobs /\ <<>> \in Seq(Works)
      BY <1>5, Resting DEF IsDone
<1> HIDE DEF j
<1>7. /\ UNCHANGED <<world, hook>>
      /\ \/ Close
         \/ Proceed(Without(k), NoJob, subscriptions, CallsOnRefresh)
         \/ Proceed(Without(k), j, subscriptions, <<>>)
      BY DEF Enters, j
<1>8. QED  BY <1>1, <1>3, <1>4, <1>5, <1>6, <1>7, ServingKeeps, CloseKeeps

LEMMA SubscribesKeeps == ASSUME RowsInv, Subscribes PROVE RowsInv' /\ RowsStep
<1> DEFINE free == 1..MaxSubscriptions \ subscriptions
           id == CHOOSE n \in free : \A m \in free : n <= m
           ids == IF free = {} THEN subscriptions ELSE subscriptions \cup {id}
<1>1. free # {} => id \in 1..MaxSubscriptions
  <2>1. free \in SUBSET Nat /\ free \subseteq 1..MaxSubscriptions
        BY ObservationAssumption
  <2> HIDE DEF free
  <2>2. QED  BY <2>1, LeastOf
<1>2. /\ Proceed(queue, NoJob, ids, <<>>) /\ UNCHANGED <<world, shown>> /\ request' = request
      /\ subscription' = IF free # {} /\ Unchanged THEN id ELSE subscription
      BY DEF Subscribes
<1>3. /\ queue \in Seq(Works) /\ subscriptions \in SUBSET (1..MaxSubscriptions) /\ request \in Requests
      /\ subscription \in 0..MaxSubscriptions /\ MaxSubscriptions \in Nat
      BY ObservationAssumption DEF RowsInv
<1> HIDE DEF free, id
<1>4. ids \in SUBSET (1..MaxSubscriptions) /\ subscription' \in 0..MaxSubscriptions
  <2>1. 1..MaxSubscriptions \subseteq 0..MaxSubscriptions
        BY <1>3
  <2>2. ids \in SUBSET (1..MaxSubscriptions)
        BY <1>1, <1>3, Zenon
  <2>3. subscription' = IF free # {} /\ Unchanged THEN id ELSE subscription
        BY <1>2
  <2>4. subscription' \in 0..MaxSubscriptions
        BY <1>1, <1>3, <2>1, <2>3, Zenon
  <2>5. QED  BY <2>2, <2>4
<1> HIDE DEF ids
<1>5. IsShown(shown') /\ IsDone(NoJob, shown') /\ NoJob \in Jobs /\ <<>> \in Seq(Works)
      BY <1>2, Resting
<1>6. QED  BY <1>2, <1>3, <1>4, <1>5, ProceedKeeps, ShowsNoOther

(* The steps of a read: only Sends shows rows.                               *)
LEMMA ReadsKeep ==
    ASSUME RowsInv, Authorises \/ Queries \/ QueryFails \/ ChecksAgain \/ Sends
    PROVE  RowsInv' /\ RowsStep
<1>1. /\ queue \in Seq(Works) /\ <<>> \in Seq(Works) /\ subscriptions \in SUBSET (1..MaxSubscriptions)
      /\ job \in Jobs /\ IsDone(job, shown) /\ IsShown(shown) /\ written \in Nat
      /\ granted \subseteq UNION Scopes
      BY DEF RowsInv
<1>2. job.work \in Works /\ job.scope \in SUBSET UNION Scopes /\ job.version \in Nat
      BY <1>1 DEF Jobs
<1>3. ASSUME Returns(shown) PROVE RowsInv' /\ RowsStep
      BY <1>1, <1>3, ReturnsKeep, ShowsNoOther DEF Returns
<1>4. CASE Authorises /\ ~Returns(shown)
  <2> DEFINE j == [job EXCEPT !.at = "authorised", !.scope = granted \cap policy]
  <2>1. /\ Proceed(queue, j, subscriptions, <<>>) /\ UNCHANGED <<world, hook>>
        /\ job.at = "entered" /\ job.work.kind = "read"
        BY <1>4 DEF Authorises
  <2>2. job.work \in Reads
        BY <1>2, <2>1 DEF Works
  <2>3. /\ j \in Jobs /\ j.at = "authorised" /\ j.scope = granted \cap policy /\ j.work = job.work
        BY <1>1 DEF Jobs
  <2> HIDE DEF j
  <2>4. IsDone(j, shown)
        BY <2>2, <2>3 DEF IsDone
  <2>5. QED  BY <1>1, <2>1, <2>3, <2>4, ServingKeeps
<1>5. CASE Queries
  <2> DEFINE j == [job EXCEPT !.at = "read", !.version = written]
  <2>1. Proceed(queue, j, subscriptions, <<>>) /\ UNCHANGED <<world, hook>> /\ job.at = "authorised"
        BY <1>5 DEF Queries
  <2>2. /\ j \in Jobs /\ j.at = "read" /\ j.scope = job.scope /\ j.work = job.work /\ j.version = written
        BY <1>1 DEF Jobs
  <2> HIDE DEF j
  <2>3. written \in shown.version..written
        BY <1>1 DEF IsShown
  <2>4. IsDone(j, shown)
        BY <1>1, <2>1, <2>2, <2>3 DEF IsDone
  <2>5. QED  BY <1>1, <2>1, <2>2, <2>4, ServingKeeps
<1>6. CASE QueryFails
      BY <1>3, <1>6 DEF QueryFails
<1>7. CASE ChecksAgain /\ ~Returns(shown)
  <2> DEFINE j == [job EXCEPT !.at = "reread"]
  <2>1. Proceed(queue, j, subscriptions, <<>>) /\ UNCHANGED <<world, hook>> /\ job.at = "read"
        BY <1>7 DEF ChecksAgain, Reaches
  <2>2. /\ j \in Jobs /\ j.at = "reread" /\ j.scope = job.scope /\ j.work = job.work
        /\ j.version = job.version
        BY <1>1 DEF Jobs
  <2> HIDE DEF j
  <2>3. IsDone(j, shown)
        BY <1>1, <2>1, <2>2 DEF IsDone
  <2>4. QED  BY <1>1, <2>1, <2>2, <2>3, ServingKeeps
<1>8. CASE Sends /\ ~Returns(shown)
  <2> DEFINE data == [request |-> job.work.request, version |-> job.version]
  <2>1. job.at = "reread" /\ MaySend /\ Returns(data)
        BY <1>8 DEF Sends
  <2>2. data.request = job.work.request /\ data.version = job.version
        OBVIOUS
  <2>3. job.work \in Reads /\ job.version \in shown.version..written /\ job.scope \subseteq granted
        BY <1>1, <2>1 DEF IsDone
  <2>4. shown.version \in 0..written
        BY <1>1 DEF IsShown
  <2>5. policy = granted
        BY <2>1 DEF MaySend, Unchanged
  <2> HIDE DEF data
  <2>6. IsShown(data)
    <3>1. data.request \in Requests
          BY <2>2, <2>3 DEF Reads
    <3>2. data.version \in 0..written
          BY <1>1, <2>2, <2>3, <2>4
    <3>3. QED  BY <3>1, <3>2 DEF IsShown
  <2>7. shown' = data
        BY <2>1 DEF Returns
  <2>8. shown.version <= shown'.version
        BY <1>1, <2>2, <2>3, <2>4, <2>7
  <2>9. RowsStep
        BY <2>3, <2>5, <2>8 DEF RowsStep
  <2>10. QED  BY <2>1, <2>6, <2>9, ReturnsKeep
<1>9. QED  BY <1>3, <1>4, <1>5, <1>6, <1>7, <1>8

(* The hook runs its effect again: calls are cancelled, not taken back.      *)
LEMMA RerunKeeps ==
    ASSUME RowsInv, NEW kills \in Seq(Works), Rerun(kills), request' \in Requests,
           subscription' \in 0..MaxSubscriptions, shown' \in {shown, Nothing}
    PROVE  RowsInv' /\ RowsStep
<1>1. /\ queue \in Seq(Works) /\ subscriptions \in SUBSET (1..MaxSubscriptions)
      /\ job \in Jobs /\ IsDone(job, shown) /\ IsShown(shown) /\ IsShown(Nothing) /\ written \in Nat
      BY Resting DEF RowsInv
<1>2. UNCHANGED world /\ written' = written /\ policy' = policy
      BY DEF Rerun, world
<1>3. IsShown(shown') /\ shown'.version <= shown.version /\ shown'.version \in 0..written
  <2>1. Nothing.version = 0
        BY DEF Nothing
  <2>2. QED  BY <1>1, <2>1 DEF IsShown
<1>4. ASSUME NEW j, IsDone(j, shown), j \in Jobs PROVE IsDone(j, shown')
      BY <1>1, <1>3, <1>4 DEF IsDone, IsShown
<1>5. CASE UNCHANGED server
  <2>1. /\ queue' = queue /\ job' = job /\ subscriptions' = subscriptions /\ granted' = granted
        BY <1>5 DEF server
  <2>2. IsDone(job, shown')
        BY <1>1, <1>4
  <2>3. IsShown(shown)' /\ IsDone(job, shown)'
        BY <1>2, <1>3, <2>1, <2>2 DEF IsShown, IsDone
  <2>4. QED  BY <1>2, <2>1, <2>3, ShowsNoOther DEF RowsInv
<1>6. CASE ~UNCHANGED server
  <2> DEFINE rest == [n \in DOMAIN queue |-> Cancelled(queue[n])]
             j == [job EXCEPT !.work = Cancelled(job.work)]
             calls == kills \o (IF enabled' THEN <<InitialRead(request')>> ELSE <<>>)
  <2>1. Proceed(rest, j, subscriptions, calls)
        BY <1>6, Zenon DEF Rerun
  <2>2. rest \in Seq(Works)
    <3>1. /\ Len(queue) \in Nat /\ DOMAIN queue = 1..Len(queue)
          /\ \A n \in 1..Len(queue) : queue[n] \in Works
          BY <1>1
    <3>2. \A n \in 1..Len(queue) : Cancelled(queue[n]) \in Works
          BY <3>1, WorksTyped DEF RowsInv
    <3>3. QED  BY <3>1, <3>2
  <2>3. calls \in Seq(Works)
    <3>1. InitialRead(request') \in Works
          BY WorksTyped DEF RowsInv
    <3>2. QED  BY <3>1
  <2>4. /\ j \in Jobs /\ j.at = job.at /\ j.scope = job.scope /\ j.version = job.version
        /\ (job.work \in Reads => j.work \in Reads)
    <3>1. job.work \in Works
          BY <1>1 DEF Jobs
    <3>2. Cancelled(job.work) \in Works /\ (job.work \in Reads => Cancelled(job.work) \in Reads)
          BY <3>1, WorksTyped DEF RowsInv
    <3>3. QED  BY <1>1, <3>2 DEF Jobs
  <2> HIDE DEF rest, j, calls
  <2>5. IsDone(j, shown)
        BY <1>1, <2>4 DEF IsDone
  <2>6. QED  BY <1>1, <1>2, <1>3, <1>4, <2>1, <2>2, <2>3, <2>4, <2>5, ProceedKeeps, ShowsNoOther
<1>7. QED  BY <1>5, <1>6

LEMMA ConnectsKeeps == ASSUME RowsInv, Connects PROVE RowsInv' /\ RowsStep
<1>1. /\ granted' = policy /\ job' = NoJob /\ subscriptions' = {} /\ subscription' = 0
      /\ shown' = Nothing /\ written' = written /\ policy' = policy /\ request' = request
      /\ queue' = IF enabled THEN <<InitialRead(request)>> ELSE <<>>
      BY DEF Connects, world
<1>2. queue' \in Seq(Works)
  <2>1. InitialRead(request) \in Works
        BY WorksTyped DEF RowsInv
  <2>2. QED  BY <1>1, <2>1
<1>3. IsShown(shown)' /\ IsDone(job, shown)' /\ job' \in Jobs
      BY <1>1, Resting DEF IsShown, IsDone, NoJob
<1>4. 0 \in 0..MaxSubscriptions
      BY Resting
<1>5. QED  BY <1>1, <1>2, <1>3, <1>4, ShowsNoOther DEF RowsInv

LEMMA WorldKeeps ==
    ASSUME RowsInv, UNCHANGED <<server, hook>>, written' \in {written, written + 1},
           policy' \subseteq UNION Scopes
    PROVE  RowsInv' /\ RowsStep
<1>1. /\ granted' = granted /\ queue' = queue /\ job' = job /\ subscriptions' = subscriptions
      /\ request' = request /\ subscription' = subscription /\ shown' = shown
      BY DEF server, hook
<1>2. /\ written \in Nat /\ shown.version \in 0..written
      /\ job.at \in {"read", "reread"} => job.version \in shown.version..written
      BY DEF RowsInv, IsShown, IsDone
<1>3. /\ written' \in Nat /\ shown.version \in 0..written'
      /\ job.at \in {"read", "reread"} => job.version \in shown.version..written'
      BY <1>2
<1>4. IsShown(shown)' /\ IsDone(job, shown)'
      BY <1>1, <1>3 DEF RowsInv, IsShown, IsDone
<1>5. QED  BY <1>1, <1>3, <1>4, ShowsNoOther DEF RowsInv

LEMMA RowsNext == RowsInv /\ [ObservationNext]_observationVars => RowsInv' /\ RowsStep
<1> SUFFICES ASSUME RowsInv, [ObservationNext]_observationVars PROVE RowsInv' /\ RowsStep
    OBVIOUS
<1>1. /\ queue \in Seq(Works) /\ <<>> \in Seq(Works) /\ subscriptions \in SUBSET (1..MaxSubscriptions)
      /\ job \in Jobs /\ NoJob \in Jobs /\ IsDone(job, shown) /\ IsDone(NoJob, shown)
      /\ policy \subseteq UNION Scopes /\ request \in Requests /\ subscription \in 0..MaxSubscriptions
      /\ 0 \in 0..MaxSubscriptions
      BY Resting DEF RowsInv
<1>2. CASE RefreshTick
  <2>1. Proceed(queue, job, subscriptions, <<Refresh>>) /\ UNCHANGED <<world, hook>>
        BY <1>2 DEF RefreshTick
  <2>2. <<Refresh>> \in Seq(Works)
    <3>1. Refresh \in Works
          BY <1>1, WorksTyped
    <3>2. QED  BY <3>1
  <2>3. QED  BY <1>1, <2>1, <2>2, ServingKeeps
<1>3. CASE \E k \in DOMAIN queue : Enters(k)
      BY <1>3, EntersKeeps
<1>4. CASE Subscribes
      BY <1>4, SubscribesKeeps
<1>5. CASE KillsSubscription
  <2> DEFINE ids == subscriptions \ {job.work.id}
  <2>1. Proceed(queue, NoJob, ids, <<>>) /\ UNCHANGED <<world, hook>>
        BY <1>5 DEF KillsSubscription
  <2>2. ids \in SUBSET (1..MaxSubscriptions)
        BY <1>1
  <2> HIDE DEF ids
  <2>3. QED  BY <1>1, <2>1, <2>2, ServingKeeps
<1>6. CASE Authorises \/ Queries \/ QueryFails \/ ChecksAgain \/ Sends
      BY <1>6, ReadsKeep
<1>7. CASE Connects
      BY <1>7, ConnectsKeeps
<1>8. CASE Breaks
      BY <1>8, CloseKeeps DEF Breaks
<1>9. CASE Disables \/ Enables \/ \E r \in Requests : ChangesRequest(r)
  <2>1. /\ Rerun(Kills) \/ Rerun(<<>>)
        /\ request' \in Requests /\ shown' \in {shown, Nothing} /\ subscription' \in 0..MaxSubscriptions
        BY <1>1, <1>9 DEF Disables, Enables, ChangesRequest
  <2>2. Kills \in Seq(Works)
        BY <1>1, WorksTyped
  <2>3. QED  BY <1>1, <2>1, <2>2, RerunKeeps
<1>10. CASE Writes
  <2>1. UNCHANGED <<server, hook>> /\ written' \in {written, written + 1} /\ policy' = policy
        BY <1>10 DEF Writes
  <2>2. QED  BY <1>1, <2>1, WorldKeeps
<1>11. CASE \E S \in Scopes : PolicyChanges(S)
  <2>1. UNCHANGED <<server, hook>> /\ written' \in {written, written + 1} /\ policy' \in Scopes
        BY <1>11 DEF PolicyChanges
  <2>2. policy' \subseteq UNION Scopes
        BY <2>1
  <2>3. QED  BY <2>1, <2>2, WorldKeeps
<1>12. CASE UNCHANGED observationVars
  <2>1. UNCHANGED <<server, hook>> /\ written' \in {written, written + 1} /\ policy' = policy
        BY <1>12 DEF observationVars, world
  <2>2. QED  BY <1>1, <2>1, WorldKeeps
<1>13. QED  BY <1>2, <1>3, <1>4, <1>5, <1>6, <1>7, <1>8, <1>9, <1>10, <1>11, <1>12
            DEF ObservationNext, Serves

LEMMA InitRows == ObservationInit => RowsInv
<1> SUFFICES ASSUME ObservationInit PROVE RowsInv
    OBVIOUS
<1>1. /\ policy \in Scopes /\ written = 0 /\ granted = {} /\ queue = <<>> /\ job = NoJob
      /\ subscriptions = {} /\ request \in Requests /\ subscription = 0 /\ shown = Nothing
      BY DEF ObservationInit
<1>2. 0 \in 0..MaxSubscriptions /\ <<>> \in Seq(Works) /\ policy \subseteq UNION Scopes
      BY <1>1, ObservationAssumption
<1>3. job \in Jobs
      BY <1>1, <1>2, WorksTyped
<1>4. IsShown(shown) /\ IsDone(job, shown)
      BY <1>1 DEF IsShown, IsDone, Nothing, NoJob
<1>5. QED  BY <1>1, <1>2, <1>3, <1>4 DEF RowsInv

(* However reads, cancelled and current, refreshes, closings and changes of  *)
(* the policy interleave, and whatever the policies and the bounds are: no   *)
(* row leaves without being shown by the policy of that moment, and the page *)
(* never goes back to older rows (rpc.ts, use-live-query.ts).                *)
THEOREM RowsStayCurrent == ObservationSpec => RowsAreCurrent
<1>1. RowsInv /\ [ObservationNext]_observationVars
      => [RowsStep]_observationVars
      BY RowsNext
<1>2. QED  BY <1>1, InitRows, RowsNext, PTL DEF ObservationSpec, RowsAreCurrent, RowsStep

-----------------------------------------------------------------------------
(* The timeline.  What a record says of inspections is what they found: of   *)
(* the last that found the task, and none later than now.                    *)
Fields == Times \cup {"state", "active"}

TimelineInv ==
    /\ TaskTimelineTypeOK /\ raw = [f \in Fields |-> raw[f]]
    /\ raw.updated # Never /\ raw.observed <= now /\ lastSeen <= now
    /\ raw.confirmed <= lastSeen
    /\ raw.active = "yes" => raw.observed <= lastSeen

LEMMA Stamps ==
    /\ DOMAIN Stamp = {"PENDING", "RECEIVED", "STARTED", "SUCCESS", "REVOKED"}
    /\ \A state \in DOMAIN Stamp : Stamp[state] \in {"sent", "received", "started", "succeeded", "revoked"}
BY DEF Stamp

LEMMA MomentsAreNumbers ==
    /\ Moment \subseteq Int /\ EndOfTimeline \in Nat /\ Never \in Moment
    /\ \A x \in Moment : x # Never <=> x >= 0
BY TaskTimelineAssumption DEF Moment, Never

LEMMA LatestOfTwo ==
    ASSUME NEW a \in Int, NEW b \in Int
    PROVE  Latest({a, b}) \in {a, b} /\ a <= Latest({a, b}) /\ b <= Latest({a, b})
<1>1. \E x \in {a, b} : \A y \in {a, b} : y <= x
      OBVIOUS
<1>2. QED  BY <1>1 DEF Latest

LEMMA EarliestOfTwo ==
    ASSUME NEW a \in Int, NEW b \in Int
    PROVE  Earliest({a, b}) \in {a, b} /\ Earliest({a, b}) <= a /\ Earliest({a, b}) <= b
<1>1. \E x \in {a, b} : \A y \in {a, b} : x <= y
      OBVIOUS
<1>2. QED  BY <1>1 DEF Earliest

LEMMA LatestOfThree ==
    ASSUME NEW a \in Int, NEW b \in Int, NEW c \in Int
    PROVE  /\ Latest({a, b, c}) \in {a, b, c}
           /\ a <= Latest({a, b, c}) /\ b <= Latest({a, b, c}) /\ c <= Latest({a, b, c})
<1>1. \E x \in {a, b, c} : \A y \in {a, b, c} : y <= x
      OBVIOUS
<1>2. QED  BY <1>1 DEF Latest

LEMMA LatestOfFour ==
    ASSUME NEW a \in Int, NEW b \in Int, NEW c \in Int, NEW d \in Int
    PROVE  /\ Latest({a, b, c, d}) \in {a, b, c, d}
           /\ a <= Latest({a, b, c, d}) /\ b <= Latest({a, b, c, d})
           /\ c <= Latest({a, b, c, d}) /\ d <= Latest({a, b, c, d})
<1>1. \E x \in {a, b, c, d} : \A y \in {a, b, c, d} : y <= x
  <2>1. PICK x \in {a, b, c} : \A y \in {a, b, c} : y <= x
        OBVIOUS
  <2>2. CASE d <= x
        BY <2>1, <2>2
  <2>3. CASE x <= d
        BY <2>1, <2>3
  <2>4. QED  BY <2>1, <2>2, <2>3
<1>2. QED  BY <1>1 DEF Latest

LEMMA InitTimeline == TaskTimelineInit => TimelineInv
<1> SUFFICES ASSUME TaskTimelineInit PROVE TimelineInv
    OBVIOUS
<1>1. PICK first \in {"PENDING", "RECEIVED", "STARTED"} :
         raw = [f \in Times \cup {"state", "active"} |->
                   CASE f = "state" -> first [] f = "active" -> "unknown"
                     [] f \in {"updated", Stamp[first]} -> 0 [] OTHER -> Never]
      BY DEF TaskTimelineInit
<1>2. now = 0 /\ rendered = 0 /\ lastSeen = Never /\ now \in 0..EndOfTimeline /\ rendered \in 0..now
      BY MomentsAreNumbers DEF TaskTimelineInit
<1>3. Stamp[first] \in {"sent", "received", "started", "succeeded", "revoked"} /\ first \in DOMAIN Stamp
      BY Stamps
<1>4. /\ raw.state = first /\ raw.active = "unknown" /\ raw.updated = 0
      /\ raw.observed = Never /\ raw.confirmed = Never
      BY <1>1, <1>3 DEF Times
<1>5. \A f \in Times : raw[f] \in {0, Never}
      BY <1>1, <1>3 DEF Times
<1>6. 0 \in Moment /\ Never \in Moment /\ Never <= 0 /\ Never # 0
      BY MomentsAreNumbers DEF Moment, Never
<1>7. raw = [f \in Fields |-> raw[f]]
      BY <1>1 DEF Fields
<1>8. \A f \in Times : raw[f] \in Moment
      BY <1>5, <1>6
<1>9. TaskTimelineTypeOK
      BY <1>2, <1>3, <1>4, <1>6, <1>8 DEF TaskTimelineTypeOK
<1>10. /\ raw.updated # Never /\ raw.observed <= now /\ lastSeen <= now
       /\ raw.confirmed <= lastSeen /\ raw.active # "yes"
       BY <1>2, <1>4, <1>6 DEF Never
<1>11. QED  BY <1>7, <1>9, <1>10 DEF TimelineInv

LEMMA TimesTyped ==
    ASSUME TimelineInv
    PROVE  /\ now \in 0..EndOfTimeline /\ rendered \in 0..now /\ lastSeen \in Moment
           /\ now \in Nat /\ rendered \in Nat /\ lastSeen \in Int
           /\ \A f \in Times : raw[f] \in Moment /\ raw[f] \in Int
           /\ raw.updated >= 0
           /\ now \in Moment
<1>1. /\ now \in 0..EndOfTimeline /\ rendered \in 0..now /\ lastSeen \in Moment
      /\ \A f \in Times : raw[f] \in Moment
      BY DEF TimelineInv, TaskTimelineTypeOK
<1>2. now \in Nat /\ now \in Moment
      BY <1>1, MomentsAreNumbers DEF Moment
<1>3. rendered \in Nat
      BY <1>1, <1>2
<1>4. lastSeen \in Int /\ \A f \in Times : raw[f] \in Int
      BY <1>1, MomentsAreNumbers
<1>5. raw["updated"] \in Moment /\ raw["updated"] # Never
      BY <1>1 DEF Times, TimelineInv
<1>6. raw.updated >= 0
      BY <1>5, MomentsAreNumbers
<1>7. QED  BY <1>1, <1>2, <1>3, <1>4, <1>6

LEMMA EventKeeps ==
    ASSUME TimelineInv, NEW state \in DOMAIN Stamp, NEW ts \in 0..now, EventSays(state, ts)
    PROVE  TimelineInv'
<1> DEFINE stamp == Stamp[state]
           next == IF ts > raw.updated THEN state ELSE raw.state
           last == Latest({raw.updated, ts})
<1>1. raw' = [raw EXCEPT ![stamp] = ts, !.state = next, !.updated = last]
      BY Zenon DEF EventSays
<1>2. UNCHANGED <<now, rendered, lastSeen>> /\ ts \in Moment /\ ts \in Nat
  <2>1. now \in 0..EndOfTimeline /\ now \in Nat /\ EndOfTimeline \in Nat
        BY TimesTyped, MomentsAreNumbers
  <2>2. ts \in Nat /\ ts \in 0..EndOfTimeline
        BY <2>1
  <2>3. QED  BY <2>2 DEF EventSays, Moment
<1>3. stamp \in {"sent", "received", "started", "succeeded", "revoked"}
      BY Stamps
<1>4. next \in DOMAIN Stamp
      BY DEF TimelineInv, TaskTimelineTypeOK
<1>5. last \in Moment /\ last # Never
  <2>1. raw.updated \in Int /\ raw.updated \in Moment /\ raw.updated # Never
        BY TimesTyped DEF Times, TimelineInv
  <2>2. last \in {raw.updated, ts}
    <3>1. ts \in Int
          BY <1>2
    <3>2. QED  BY <2>1, <3>1, LatestOfTwo, Zenon
  <2>3. ts # Never
        BY <1>2, MomentsAreNumbers
  <2>4. QED  BY <1>2, <2>1, <2>2, <2>3
<1> HIDE DEF stamp, next, last
<1>6. raw = [f \in Fields |-> raw[f]]
      BY DEF TimelineInv
<1>7. raw' = [f \in Fields |-> IF f = "updated" THEN last ELSE IF f = "state" THEN next
                               ELSE IF f = stamp THEN ts ELSE raw[f]]
      BY <1>1, <1>3, <1>6 DEF Fields, Times
<1>8. /\ raw'.updated = last /\ raw'.state = next /\ raw'.active = raw.active
      /\ raw'.observed = raw.observed /\ raw'.confirmed = raw.confirmed
      BY <1>3, <1>7 DEF Fields, Times
<1>9. \A f \in Times : raw'[f] \in {last, ts, raw[f]}
      BY <1>7 DEF Fields, Times
<1>10. \A f \in Times : raw'[f] \in Moment
      BY <1>2, <1>5, <1>9, TimesTyped
<1>11. (raw = [f \in Fields |-> raw[f]])'
      BY <1>7
<1>12. QED  BY <1>2, <1>4, <1>5, <1>8, <1>10, <1>11 DEF TimelineInv, TaskTimelineTypeOK

LEMMA PollKeeps ==
    ASSUME TimelineInv, NEW found \in {"yes", "no"}, PollFinds(found)
    PROVE  TimelineInv'
<1> DEFINE confirmed == IF found = "yes" THEN now ELSE raw.confirmed
           next == [raw EXCEPT !.active = found, !.observed = now, !.confirmed = confirmed]
<1>1. /\ UNCHANGED <<now, rendered>>
      /\ lastSeen' = IF found = "yes" THEN now ELSE lastSeen
      /\ \/ raw' = next
         \/ raw' = raw /\ raw.active = found
      BY Zenon DEF PollFinds
<1>2. /\ now \in Nat /\ now \in Moment /\ lastSeen \in Moment /\ lastSeen \in Int /\ lastSeen <= now
      /\ raw.confirmed \in Int /\ raw.confirmed \in Moment /\ raw.confirmed <= lastSeen
      /\ raw.observed <= now /\ raw.observed \in Int
      /\ raw.active = "yes" => raw.observed <= lastSeen
      BY TimesTyped DEF Times, TimelineInv
<1>3. raw = [f \in Fields |-> raw[f]]
      BY DEF TimelineInv
<1>4. lastSeen' \in Moment /\ lastSeen' \in Int /\ lastSeen <= lastSeen' /\ lastSeen' <= now
      BY <1>1, <1>2
<1>5. confirmed \in Moment /\ confirmed \in Int /\ confirmed <= lastSeen'
      BY <1>1, <1>2
<1> HIDE DEF confirmed
<1>6. next = [f \in Fields |-> IF f = "active" THEN found ELSE IF f = "observed" THEN now
                               ELSE IF f = "confirmed" THEN confirmed ELSE raw[f]]
      BY <1>3 DEF Fields, Times
<1>7. /\ next.active = found /\ next.observed = now /\ next.confirmed = confirmed
      /\ next.updated = raw.updated /\ next.state = raw.state
      /\ next = [f \in Fields |-> next[f]]
      /\ \A f \in Times : next[f] \in {now, confirmed, raw[f]}
      BY <1>6 DEF Fields, Times
<1> HIDE DEF next
<1>8. CASE raw' = next
  <2>1. \A f \in Times : raw'[f] \in Moment
        BY <1>2, <1>5, <1>7, <1>8, TimesTyped
  <2>2. (raw = [f \in Fields |-> raw[f]])'
        BY <1>7, <1>8
  <2>3. TaskTimelineTypeOK'
        BY <1>1, <1>4, <1>7, <1>8, <2>1 DEF TimelineInv, TaskTimelineTypeOK
  <2>4. /\ raw'.updated # Never /\ raw'.observed = now /\ now <= now
        /\ raw'.confirmed <= lastSeen'
        /\ raw'.active = "yes" => lastSeen' = now
        BY <1>1, <1>2, <1>5, <1>7, <1>8 DEF TimelineInv
  <2>5. QED  BY <1>1, <1>4, <2>2, <2>3, <2>4 DEF TimelineInv
<1>9. CASE raw' = raw
  <2>1. raw.confirmed <= lastSeen' /\ (raw.active = "yes" => raw.observed <= lastSeen')
        BY <1>2, <1>4
  <2>2. QED  BY <1>1, <1>4, <1>9, <2>1 DEF TimelineInv, TaskTimelineTypeOK
<1>10. QED  BY <1>1, <1>8, <1>9

LEMMA TimelineStep == TimelineInv /\ [TaskTimelineNext]_timelineVars => TimelineInv'
<1> SUFFICES ASSUME TimelineInv, [TaskTimelineNext]_timelineVars PROVE TimelineInv'
    OBVIOUS
<1>1. /\ now \in 0..EndOfTimeline /\ now \in Nat /\ EndOfTimeline \in Nat
      /\ lastSeen \in Int /\ raw.observed \in Int
      /\ lastSeen <= now /\ raw.observed <= now /\ raw = [f \in Fields |-> raw[f]]
      BY TimesTyped, MomentsAreNumbers DEF Times, TimelineInv
<1>2. CASE \E state \in DOMAIN Stamp, ts \in 0..now : EventSays(state, ts)
      BY <1>2, EventKeeps
<1>3. CASE \E found \in {"yes", "no"} : PollFinds(found)
      BY <1>3, PollKeeps
<1>4. CASE Clears
  <2>1. raw' = [raw EXCEPT !.active = "unknown"] /\ UNCHANGED <<now, rendered, lastSeen>>
        BY <1>4 DEF Clears
  <2>2. raw' = [f \in Fields |-> IF f = "active" THEN "unknown" ELSE raw[f]]
        BY <1>1, <2>1 DEF Fields
  <2>3. /\ raw'.active = "unknown" /\ raw'.state = raw.state /\ raw'.updated = raw.updated
        /\ raw'.observed = raw.observed /\ raw'.confirmed = raw.confirmed
        /\ (raw = [f \in Fields |-> raw[f]])' /\ \A f \in Times : raw'[f] = raw[f]
        BY <2>2 DEF Fields, Times
  <2>4. QED  BY <2>1, <2>3 DEF TimelineInv, TaskTimelineTypeOK
<1>5. CASE Passes
  <2>1. now' = now + 1 /\ now < EndOfTimeline /\ UNCHANGED <<rendered, raw, lastSeen>>
        BY <1>5 DEF Passes
  <2>2. now' \in 0..EndOfTimeline /\ rendered \in 0..now'
        BY <1>1, <2>1, TimesTyped
  <2>3. raw.observed <= now' /\ lastSeen <= now'
        BY <1>1, <2>1
  <2>4. QED  BY <2>1, <2>2, <2>3 DEF TimelineInv, TaskTimelineTypeOK
<1>6. CASE RendersAgain
  <2>1. rendered' = now /\ UNCHANGED <<now, raw, lastSeen>> /\ now \in 0..now
        BY <1>1, <1>6 DEF RendersAgain
  <2>2. QED  BY <2>1 DEF TimelineInv, TaskTimelineTypeOK
<1>7. CASE UNCHANGED timelineVars
      BY <1>7 DEF timelineVars, TimelineInv, TaskTimelineTypeOK
<1>8. QED  BY <1>2, <1>3, <1>4, <1>5, <1>6, <1>7 DEF TaskTimelineNext

(* What is not confirmed ends at the last sign of the task, and what is said *)
(* to run was found by an inspection that is recent and not overtaken.       *)
LEMMA EndIsKnown ==
    ASSUME TimelineInv
    PROVE  /\ TaskEndTime \in Int /\ ParsedTask.sent \in Int
           /\ Or(ReceivedAt, TaskEndTime) \in Int /\ Or(StartedAt, TaskEndTime) \in Int
           /\ Unconfirmed => TaskEndTime <= Latest({lastSeen, raw.started, raw.updated})
           /\ ~Unconfirmed /\ raw.state = "STARTED" =>
                 lastSeen >= raw.updated /\ rendered - MaxAge - RefreshAge - 1 <= lastSeen
<1>1. /\ rendered \in Nat /\ lastSeen \in Int /\ raw.updated \in Int /\ raw.started \in Int
      /\ raw.confirmed \in Int /\ raw.succeeded \in Int /\ raw.revoked \in Int /\ raw.sent \in Int
      /\ raw.received \in Int /\ raw.observed \in Int /\ raw.updated >= 0 /\ raw.confirmed <= lastSeen
      /\ raw.active = "yes" => raw.observed <= lastSeen
      BY TimesTyped DEF Times, TimelineInv
<1>2. \A x, y \in Int : Or(x, y) \in Int
      BY DEF Or
<1>3. FinishedAt \in Int /\ StartedAt \in Int /\ ReceivedAt \in Int
      BY <1>1, <1>2 DEF FinishedAt, StartedAt, ReceivedAt
<1> DEFINE sign == Latest({0, raw.started, raw.updated, raw.confirmed})
           stop == Earliest({rendered, sign})
           seen == Latest({lastSeen, raw.started, raw.updated})
<1>4. sign \in {0, raw.started, raw.updated, raw.confirmed} /\ sign \in Int
  <2>1. 0 \in Int
        OBVIOUS
  <2>2. sign \in {0, raw.started, raw.updated, raw.confirmed}
        BY <1>1, <2>1, LatestOfFour, Zenon
  <2> HIDE DEF sign
  <2>3. QED  BY <1>1, <2>1, <2>2
<1>5. /\ seen \in Int /\ lastSeen <= seen /\ raw.started <= seen /\ raw.updated <= seen
  <2>1. /\ seen \in {lastSeen, raw.started, raw.updated}
        /\ lastSeen <= seen /\ raw.started <= seen /\ raw.updated <= seen
        BY <1>1, LatestOfThree, Zenon
  <2> HIDE DEF seen
  <2>2. QED  BY <1>1, <2>1
<1>6. stop \in Int /\ stop <= sign
  <2> HIDE DEF sign
  <2>1. rendered \in Int
        BY <1>1
  <2>2. QED  BY <1>4, <2>1, EarliestOfTwo
<1> HIDE DEF sign, stop, seen
<1>7. stop <= seen
      BY <1>1, <1>4, <1>5, <1>6
<1>8. TaskEndTime \in {Or(FinishedAt, raw.updated), stop, rendered}
      BY DEF TaskEndTime, stop, sign
<1>9. TaskEndTime \in Int
  <2>1. rendered \in Int
        BY <1>1
  <2>2. Or(FinishedAt, raw.updated) \in Int
        BY <1>1, <1>2, <1>3, Zenon
  <2>3. QED  BY <1>6, <1>8, <2>1, <2>2, Zenon
<1>10. Unconfirmed => TaskEndTime = stop
       BY DEF TaskEndTime, Unconfirmed, Final, stop, sign
<1>11. ParsedTask.sent \in Int
  <2>1. raw = [f \in Fields |-> raw[f]] /\ "sent" \in Fields
        BY DEF TimelineInv, Fields, Times
  <2>2. ParsedTask.sent = Or(raw.sent, raw.updated)
        BY <2>1 DEF ParsedTask
  <2>3. QED  BY <1>1, <1>2, <2>2
<1>12. ASSUME ~Unconfirmed, raw.state = "STARTED"
       PROVE  lastSeen >= raw.updated /\ rendered - MaxAge - RefreshAge - 1 <= lastSeen
  <2>1. /\ raw.active = "yes" /\ rendered - raw.observed \in -MaxAge..MaxAge
        /\ ~(raw.observed < raw.updated)
        BY <1>12 DEF Unconfirmed, Execution
  <2>2. MaxAge \in Nat /\ RefreshAge \in Nat
        BY TaskTimelineAssumption
  <2>3. QED  BY <1>1, <2>1, <2>2
<1>13. QED  BY <1>2, <1>3, <1>7, <1>9, <1>10, <1>11, <1>12 DEF seen

LEMMA PhasesShowSigns ==
    ASSUME TimelineInv, NEW p \in TaskPhases
    PROVE  /\ p.start < p.end
           /\ p.kind = "running" /\ raw.state = "STARTED" =>
                 lastSeen >= raw.updated /\ rendered - MaxAge - RefreshAge - 1 <= lastSeen
           /\ p.kind = "unconfirmed" => p.end <= Latest({lastSeen, raw.started, raw.updated})
<1> DEFINE sent == ParsedTask.sent
           end == TaskEndTime
           received == Or(ReceivedAt, end)
           started == Or(StartedAt, end)
           kind == IF Unconfirmed THEN "unconfirmed" ELSE "running"
<1>1. sent \in Int /\ end \in Int /\ received \in Int /\ started \in Int
      BY EndIsKnown
<1>2. \/ received > sent /\ p = Phase("queue", sent, received)
      \/ started > received /\ p = Phase("worker", received, started)
      \/ end > started /\ p = Phase(kind, started, end)
      \/ end > sent /\ p = Phase("queue", sent, end)
      BY Zenon DEF TaskPhases
<1> HIDE DEF sent, end, received, started, kind
<1>3. \A k, x, y : Phase(k, x, y).kind = k /\ Phase(k, x, y).start = x /\ Phase(k, x, y).end = y
      BY DEF Phase
<1>4. p.start < p.end
      BY <1>1, <1>2, <1>3
<1>5. p.kind \in {"queue", "worker"} \/ (p.kind = kind /\ p.end = end)
      BY <1>2, <1>3
<1>6. p.kind = "running" => ~Unconfirmed
      BY <1>5 DEF kind
<1>7. p.kind = "unconfirmed" => Unconfirmed /\ p.end = TaskEndTime
      BY <1>5 DEF kind, end
<1>8. QED  BY <1>4, <1>6, <1>7, EndIsKnown

(* The interval is long enough for the ticks to fit.                         *)
LEMMA IntervalFits ==
    ASSUME NEW range \in Nat \ {0}, NEW target \in TargetTicks
    PROVE  /\ TickInterval(range, target) \in Nat \ {0}
           /\ TickInterval(range, target) * target >= range
<1> DEFINE enough == {n \in NiceIntervals : n * target >= range}
           unit == target * Minute
           times == (range + unit - 1) \div unit
<1>1. target \in Nat \ {0} /\ Minute \in Nat \ {0} /\ NiceIntervals \subseteq 1..Minute
      BY TaskTimelineAssumption
<1>2. CASE enough # {}
  <2>1. enough \in SUBSET Nat
    <3>1. 1..Minute \subseteq Nat
          BY <1>1
    <3>2. QED  BY <1>1, <3>1, Zenon
  <2>2. Earliest(enough) \in enough
    <3> HIDE DEF enough
    <3>1. QED  BY <1>2, <2>1, LeastOf DEF Earliest
  <2>3. TickInterval(range, target) = Earliest(enough)
        BY <1>2 DEF TickInterval
  <2>4. Earliest(enough) * target >= range /\ Earliest(enough) \in 1..Minute
        BY <1>1, <2>2
  <2>5. QED  BY <1>1, <2>3, <2>4
<1>3. CASE enough = {}
  <2>1. TickInterval(range, target) = times * Minute
        BY <1>3 DEF TickInterval
  <2>2. unit \in Nat \ {0}
        BY <1>1
  <2> HIDE DEF enough
  <2>3. times \in Nat \ {0} /\ unit * times >= range
    <3> HIDE DEF unit
    <3>1. range + unit - 1 \in Nat /\ range + unit - 1 >= unit
          BY <2>2
    <3>2. QED  BY <2>2, <3>1
  <2> HIDE DEF times
  <2>4. times * Minute \in Nat \ {0}
        BY <1>1, <2>3
  <2>5. (times * Minute) * target = (target * Minute) * times
        BY <1>1, <2>3
  <2>6. QED  BY <2>1, <2>3, <2>4, <2>5
<1>4. QED  BY <1>2, <1>3

(* Two multiples of a number differ by as much.                              *)
LEMMA MultiplesApart ==
    ASSUME NEW i \in Nat \ {0}, NEW t \in Int, NEW u \in Int, t % i = 0, u % i = 0, t < u
    PROVE  u - t >= i
<1>1. t = i * (t \div i) /\ u = i * (u \div i) /\ t \div i \in Int /\ u \div i \in Int
      OBVIOUS
<1>2. PICK a \in Int, b \in Int : t = i * a /\ u = i * b
      BY <1>1
<1>3. a < b
  <2>1. SUFFICES ASSUME b <= a PROVE FALSE
        OBVIOUS
  <2>2. i * b <= i * a
        BY <2>1
  <2>3. QED  BY <1>2, <2>2
<1>4. i * (b - a) >= i * 1
      BY <1>3
<1>5. QED  BY <1>2, <1>4

LEMMA TicksFit ==
    ASSUME NEW start \in Int, NEW end \in Int, NEW target \in TargetTicks,
           NEW t \in Ticks(start, end, target), NEW u \in Ticks(start, end, target), t < u
    PROVE  (u - t) * target >= end - start
<1> DEFINE i == TickInterval(end - start, target)
<1>1. end > start /\ t \in start..end /\ u \in start..end /\ t % i = 0 /\ u % i = 0
      BY DEF Ticks
<1>2. end - start \in Nat \ {0} /\ t \in Int /\ u \in Int /\ target \in Nat
      BY <1>1, TaskTimelineAssumption
<1>3. i \in Nat \ {0} /\ i * target >= end - start
      BY <1>2, IntervalFits
<1> HIDE DEF i
<1>4. u - t >= i
      BY <1>1, <1>2, <1>3, MultiplesApart
<1>5. (u - t) * target >= i * target
      BY <1>2, <1>3, <1>4
<1>6. QED  BY <1>2, <1>3, <1>5

(* However late events and findings arrive, and however the clock of the     *)
(* page trails, a task is drawn at work only while there is a sign of it     *)
(* (getTaskEndTime, computeTaskPhases, getTaskExecution, ticks).             *)
THEOREM TimesShowSigns == TaskTimelineSpec => []TimelineShowsSigns
<1>1. TimelineInv => TimelineShowsSigns
  <2> SUFFICES ASSUME TimelineInv PROVE TimelineShowsSigns
      OBVIOUS
  <2>1. Bar.start \in Int /\ Bar.end \in Int
        BY EndIsKnown DEF Bar
  <2>2. ASSUME NEW target \in TargetTicks, NEW t \in Ticks(Bar.start, Bar.end, target),
               NEW u \in Ticks(Bar.start, Bar.end, target), t < u
        PROVE  (u - t) * target >= Bar.end - Bar.start
        BY <2>1, <2>2, TicksFit
  <2>3. QED  BY <2>2, PhasesShowSigns, Zenon DEF TimelineShowsSigns
<1>2. QED  BY <1>1, InitTimeline, TimelineStep, PTL DEF TaskTimelineSpec
=============================================================================
