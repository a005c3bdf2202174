----------------------------- MODULE PageQueries -----------------------------
(* Queries that answer what the user enters: the explorer and the raw events *)
(* (routes/explorer.tsx, routes/raw_events.tsx with hooks/use-explorer-data  *)
(* and hooks/use-events-browser), through the cache of react-query, and the  *)
(* quick search of the header (hooks/use-search.ts), without one.            *)
(*                                                                           *)
(* An answer is described by what was asked for: a range, the filters and a  *)
(* number of rows.  Whether it is of today is no matter here: ranges that    *)
(* end now are asked for again every five seconds.                           *)
EXTENDS Integers, FiniteSets, Sequences

CONSTANTS
    Ranges,             \* time ranges; the live ones among them
    LiveRanges,
    Filters,            \* search text and selected values
    Typed,              \* what may be typed in the quick search besides nothing
    MaxPages,           \* bound on "Load more"
    MaxVisits,          \* bound on changes of the page
    MaxFailures         \* bound on requests that fail

ASSUME PageQueriesAssumption ==
    /\ LiveRanges \subseteq Ranges
    /\ MaxPages \in Nat \ {0} /\ {MaxVisits, MaxFailures} \subseteq Nat

VARIABLES
    params,             \* of the page, in its URL
    cached,             \* answers by their key, while the page is connected
    fetching,           \* keys whose queryFn is under way, and what it asked for
    placeholder,        \* what the page showed before its key changed
    visits,
    failures,
    typed,              \* what the quick search is asked
    typing,             \* its debounce runs
    searches,           \* its queries under way
    results,            \* data: what they are results of
    searching,          \* isLoading
    searchError

explorerVars == <<params, cached, fetching, placeholder, visits>>
searchVars == <<typed, typing, searches, results, searching, searchError>>
pageVars == <<explorerVars, searchVars, failures>>

Pages == [page : {"explorer", "events"}, range : Ranges, filter : Filters, pages : 1..MaxPages]
Always == "always"
Asked == [range : Ranges \cup {Always}, filter : Filters, rows : 1..MaxPages]
None == [range |-> "none", filter |-> "none", rows |-> 0]
Failed == [None EXCEPT !.filter = "failed"]

PageQueriesTypeOK ==
    /\ params \in Pages /\ visits \in 0..MaxVisits /\ failures \in 0..MaxFailures
    /\ DOMAIN cached \subseteq Pages /\ DOMAIN fetching \subseteq Pages
    /\ \A k \in DOMAIN cached : cached[k] \in Asked \cup {Failed}
    /\ \A k \in DOMAIN fetching : fetching[k] \in Asked
    /\ placeholder \in Asked \cup {None}
    /\ {typed, results} \subseteq Typed \cup {""} /\ searches \subseteq Typed
    /\ {typing, searching, searchError} \subseteq BOOLEAN

-----------------------------------------------------------------------------
(* queryKey: whatever the answer depends on; sorted, so that an order of     *)
(* selection is no difference.                                               *)
Key(p) == p

(* The typed request.  That of the raw events names the search text and the  *)
(* types, but no bounds of time: `bindings` are not `timeBindings`.          *)
Request(p) ==
    [range |-> IF p.page = "events" THEN Always ELSE p.range,
     filter |-> p.filter, rows |-> p.pages]

Dropped(f, k) == [x \in DOMAIN f \ {k} |-> f[x]]
With(f, k, v) == [x \in DOMAIN f \cup {k} |-> IF x = k THEN v ELSE f[x]]

(* A key has one fetch at a time.                                            *)
Fetch(p) == IF Key(p) \in DOMAIN fetching THEN fetching ELSE With(fetching, Key(p), Request(p))

(* What is rendered: the answer for the key, what was shown before while     *)
(* there is none yet, or nothing.                                            *)
Shown ==
    IF Key(params) \in DOMAIN cached
    THEN IF cached[Key(params)] = Failed THEN None ELSE cached[Key(params)]
    ELSE placeholder

PageQueriesInit ==
    /\ params \in {p \in Pages : p.pages = 1}
    /\ cached = <<>> /\ placeholder = None
    /\ fetching = With(<<>>, Key(params), Request(params))
    /\ visits = 0 /\ failures = 0
    /\ typed = "" /\ typing = FALSE /\ searches = {}
    /\ results = "" /\ searching = FALSE /\ searchError = FALSE

-----------------------------------------------------------------------------
(* setParams: a filter or range goes back to the first page.  Another key is *)
(* fetched, even if there is an answer for it in the cache.                  *)
Visits(p) ==
    /\ visits < MaxVisits /\ visits' = visits + 1
    /\ p # params /\ params' = p
    /\ placeholder' = IF p.page = params.page THEN Shown ELSE None
    /\ fetching' = IF Key(p) = Key(params) THEN fetching ELSE Fetch(p)
    /\ UNCHANGED <<cached, failures, searchVars>>

Selects(p) == p.pages = 1 /\ Visits(p)

(* "Load more" is offered while there are rows and more of them.             *)
LoadsMore ==
    /\ params.pages < MaxPages /\ Shown # None
    /\ Visits([params EXCEPT !.pages = @ + 1])

(* The interval of a live range, or the button.                              *)
Refetches ==
    /\ params.range \in LiveRanges \/ Key(params) \in DOMAIN cached
    /\ fetching' = Fetch(params) /\ fetching' # fetching
    /\ UNCHANGED <<params, cached, placeholder, visits, failures, searchVars>>

Arrives(k) ==
    /\ k \in DOMAIN fetching
    /\ cached' = With(cached, k, fetching[k])
    /\ fetching' = Dropped(fetching, k)
    /\ UNCHANGED <<params, placeholder, visits, failures, searchVars>>

(* The last retry fails: data of an earlier fetch stays.                     *)
FetchFails(k) ==
    /\ k \in DOMAIN fetching /\ failures < MaxFailures
    /\ failures' = failures + 1
    /\ cached' = IF k \in DOMAIN cached THEN cached ELSE With(cached, k, Failed)
    /\ fetching' = Dropped(fetching, k)
    /\ UNCHANGED <<params, placeholder, visits, searchVars>>

(* The application is mounted inside the connection: another connection      *)
(* starts with an empty cache and an empty search (__root.tsx:17).           *)
Remounts ==
    /\ cached' = <<>> /\ placeholder' = None
    /\ fetching' = With(<<>>, Key(params), Request(params))
    /\ typed' = "" /\ typing' = FALSE /\ searches' = {}
    /\ results' = "" /\ searching' = FALSE /\ searchError' = FALSE
    /\ UNCHANGED <<params, visits, failures>>

-----------------------------------------------------------------------------
(* The effect of useSearch at every change of the text.                      *)
Types(text) ==
    /\ text # typed /\ typed' = text
    /\ typing' = (text # "") /\ searching' = (text # "")
    /\ results' = IF text = "" THEN "" ELSE results
    /\ searchError' = IF text = "" THEN FALSE ELSE searchError
    /\ UNCHANGED <<explorerVars, searches, failures>>

Searches ==
    /\ typing /\ typing' = FALSE
    /\ searches' = searches \cup {typed}
    /\ UNCHANGED <<explorerVars, typed, results, searching, searchError, failures>>

(* Mutant: an answer is shown whatever has been typed since. *)
IsActiveAnyway(text) == TRUE

IsActive(text) == typed = text

SearchArrives(text) ==
    /\ text \in searches /\ searches' = searches \ {text}
    /\ IF IsActive(text)
       THEN results' = text /\ searchError' = FALSE /\ searching' = FALSE
       ELSE UNCHANGED <<results, searchError, searching>>
    /\ UNCHANGED <<explorerVars, typed, typing, failures>>

SearchFails(text) ==
    /\ text \in searches /\ searches' = searches \ {text}
    /\ failures < MaxFailures /\ failures' = failures + 1
    /\ IF IsActive(text)
       THEN searchError' = TRUE /\ searching' = FALSE
       ELSE UNCHANGED <<searchError, searching>>
    /\ UNCHANGED <<explorerVars, typed, typing, results>>

-----------------------------------------------------------------------------
PageQueriesNext ==
    \/ \E p \in Pages : Selects(p)
    \/ LoadsMore \/ Refetches \/ Remounts
    \/ \E k \in DOMAIN fetching : Arrives(k) \/ FetchFails(k)
    \/ \E text \in Typed \cup {""} : Types(text)
    \/ Searches
    \/ \E text \in searches : SearchArrives(text) \/ SearchFails(text)

PageQueriesSpec == PageQueriesInit /\ [][PageQueriesNext]_pageVars

-----------------------------------------------------------------------------
(* A page at rest shows nothing that was asked for anything else, however    *)
(* the user switched, typed and loaded more while answers were under way:    *)
(* the rows are those of the request that the page would send now, and the   *)
(* results of the quick search are those of the text in its field.           *)
NothingPending == Key(params) \notin DOMAIN fetching

AnswersFitQuestions ==
    /\ NothingPending => Shown \in {None, Request(params)}
    /\ ~searching /\ ~searchError => results = typed

(* The raw events shown are those of the range selected (raw_events.tsx:127: *)
(* "No events in the selected range"), as in the explorer and in the export. *)
EventsInRange == NothingPending /\ Shown # None => Shown.range = params.range
=============================================================================
