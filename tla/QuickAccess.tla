----------------------------- MODULE QuickAccess -----------------------------
(* The dialog of the quick search                                            *)
(* (src/components/search/quick-access-dialog.tsx): a list of pages, which   *)
(* the text in the field decides at once, followed by the workers and tasks  *)
(* that useSearch (PageQueries) has found, which come later, change under    *)
(* the highlight and may be those of another text.                           *)
(*                                                                           *)
(* The application and the page that is open register what the keys do       *)
(* (src/hooks/use-keyboard-shortcuts.tsx), anew whenever a handler changes,  *)
(* and a dialog lists it.                                                    *)
EXTENDS PageQueries

Seqs == INSTANCE SequencesExt

CONSTANTS
    PagesFor,           \* pages and documentation of each text, in order
    FoundFor            \* workers, then tasks, of each text but the empty one

ASSUME QuickAccessAssumption ==
    /\ "" \notin Typed
    /\ PagesFor \in [Typed \cup {""} -> Seq(STRING)] /\ FoundFor \in [Typed -> Seq(STRING)]

VARIABLES
    dialog,             \* the dialog is open
    help,               \* the dialog of the shortcuts is open
    highlight,          \* highlightedIndex
    went,               \* where Enter or a click led to: [item, text], if anywhere
    shell,              \* the page, its filters, whether a field of it has the focus,
                        \* and the sidebar
    shortcuts           \* shortcutsByRegistration

dialogVars == <<dialog, help, highlight, went, shell, shortcuts>>
quickVars == <<pageVars, dialogVars>>

Nowhere == <<>>

Shortcut(owner, id, key, section, sets) ==
    [owner |-> owner, id |-> id, key |-> key, section |-> section, sets |-> sets]

(* What the application registers; toggleSidebar has seen the sidebar as it  *)
(* was when the handler was made.                                            *)
AppShortcuts(open) ==
    {Shortcut("app", "focus-search", "mod+k", "Global", TRUE),
     Shortcut("app", "focus-search-alt", "/", "Global", TRUE),
     Shortcut("app", "open-help", "?", "Global", TRUE),
     Shortcut("app", "toggle-sidebar", "mod+b", "Global", ~open)}

(* And the page of raw events.                                               *)
PageShortcuts(page) ==
    IF page = "events" THEN {Shortcut("page", "reset-live-events-filters", "c", "Current Page", FALSE)} ELSE {}

Shell(page, sidebar) == [page |-> page, sidebar |-> sidebar, field |-> FALSE, filtered |-> FALSE]

QuickAccessInit ==
    /\ dialog = FALSE /\ help = FALSE /\ highlight = 0 /\ went = Nowhere
    /\ shell = Shell("other", TRUE) /\ shortcuts = AppShortcuts(TRUE)

(* Mutant: what was registered stays. *)
PiledUp(owner, new) == shortcuts \cup new

(* The effect of useKeyboardShortcuts, after its clean-up.                   *)
Registered(owner, new) == {s \in shortcuts : s.owner # owner} \cup new

(* A page comes up in place of another.                                      *)
ComesTo(page) ==
    /\ shell' = IF page = shell.page THEN shell ELSE Shell(page, shell.sidebar)
    /\ shortcuts' = Registered("page", PageShortcuts(page))

(* All sections in one list; without a text nothing is searched for.         *)
Items(text, found) ==
    PagesFor[text] \o (IF text = "" \/ found = "" THEN <<>> ELSE FoundFor[found])

(* What can be seen of it.                                                   *)
Displayed == IF searching \/ searchError THEN <<>> ELSE Items(typed, results)

(* Mutant: the highlight stays where it was. *)
StaysPut(i, items) == i

(* The effect of a change of the list.                                       *)
Clamped(i, items) == IF i < Len(items) THEN i ELSE IF items = <<>> THEN 0 ELSE Len(items) - 1

-----------------------------------------------------------------------------
(* A dialog that was closed begins anew.                                     *)
FocusesSearch ==
    /\ ~dialog /\ dialog' = TRUE /\ highlight' = 0
    /\ IF typed = "" THEN UNCHANGED pageVars ELSE Types("")
    /\ UNCHANGED <<help, went, shell, shortcuts>>

OpensHelp == help' = TRUE /\ UNCHANGED <<pageVars, dialog, highlight, went, shell, shortcuts>>

ClosesHelp == ~dialog /\ help /\ help' = FALSE /\ UNCHANGED <<pageVars, dialog, highlight, went, shell, shortcuts>>

(* useSidebar: a handler is made anew when the sidebar has changed.          *)
SetsSidebar(open) ==
    /\ shell' = [shell EXCEPT !.sidebar = open]
    /\ shortcuts' = Registered("app", AppShortcuts(open))
    /\ UNCHANGED <<pageVars, dialog, help, highlight, went>>

ResetsFilters ==
    shell' = [shell EXCEPT !.filtered = FALSE] /\ UNCHANGED <<pageVars, dialog, help, highlight, went, shortcuts>>

(* A key is pressed; in a field that has the focus it is no shortcut.        *)
PressesKey(key) ==
    /\ ~dialog /\ ~shell.field
    /\ \E s \in shortcuts :
        /\ s.key = key
        /\ CASE s.id \in {"focus-search", "focus-search-alt"} -> FocusesSearch
             [] s.id = "open-help" -> OpensHelp
             [] s.id = "toggle-sidebar" -> SetsSidebar(s.sets)
             [] OTHER -> ResetsFilters

(* The user goes to a page by the menu, or sets the filters of raw events.   *)
GoesToPage(page) ==
    /\ ~dialog /\ ~help /\ page # shell.page /\ ComesTo(page)
    /\ UNCHANGED <<pageVars, dialog, help, highlight, went>>

EntersFilters ==
    /\ ~dialog /\ ~help /\ shell.page = "events"
    /\ shell' = [shell EXCEPT !.field = ~@, !.filtered = @ \/ ~shell.field]
    /\ UNCHANGED <<pageVars, dialog, help, highlight, went, shortcuts>>

(* KeyboardShortcutsDialog: its sections.                                    *)
Section(name) == {s \in shortcuts : s.section = name}

(* Escape, or a click beside it: the search goes on.                         *)
ClosesDialog == dialog /\ dialog' = FALSE /\ UNCHANGED <<pageVars, help, highlight, went, shell, shortcuts>>

TypesText(text) ==
    /\ dialog /\ Types(text)
    /\ highlight' = Clamped(highlight, Items(text, results'))
    /\ UNCHANGED <<dialog, help, went, shell, shortcuts>>

(* A step of useSearch.                                                      *)
SearchGoesOn ==
    /\ Searches \/ \E text \in searches : SearchArrives(text) \/ SearchFails(text)
    /\ highlight' = Clamped(highlight, Items(typed, results'))
    /\ UNCHANGED <<dialog, help, went, shell, shortcuts>>

(* The arrows go round the list, whether it is shown or not.                 *)
Moves(by) ==
    /\ dialog
    /\ LET n == Len(Items(typed, results))
       IN  highlight' = IF n = 0 THEN 0 ELSE (highlight + by + n) % n
    /\ UNCHANGED <<pageVars, dialog, help, went, shell, shortcuts>>

PointsAt(i) ==
    /\ dialog /\ i < Len(Displayed) /\ i # highlight /\ highlight' = i
    /\ UNCHANGED <<pageVars, dialog, help, went, shell, shortcuts>>

(* selectItem.                                                               *)
GoesTo(item) ==
    /\ went' = <<item, typed>> /\ dialog' = FALSE /\ ComesTo("other")
    /\ UNCHANGED <<pageVars, help, highlight>>

(* Mutant: Enter opens what is at the top. *)
EntersFirst == dialog /\ Items(typed, results) # <<>> /\ GoesTo(Items(typed, results)[1])

PressesEnter == dialog /\ highlight < Len(Items(typed, results)) /\ GoesTo(Items(typed, results)[highlight + 1])

Clicks(i) == dialog /\ i < Len(Displayed) /\ GoesTo(Displayed[i + 1])

QuickAccessNext ==
    \/ FocusesSearch \/ (~dialog /\ OpensHelp) \/ ClosesHelp \/ ClosesDialog \/ SearchGoesOn \/ PressesEnter
    \/ \E key \in {"mod+k", "/", "?", "mod+b", "c"} : PressesKey(key)
    \/ \E page \in {"events", "other"} : GoesToPage(page)
    \/ EntersFilters
    \/ \E text \in Typed \cup {""} : TypesText(text)
    \/ \E by \in {-1, 1} : Moves(by)
    \/ \E i \in 0..(Len(Displayed) - 1) : PointsAt(i) \/ Clicks(i)

QuickAccessSpec == PageQueriesInit /\ QuickAccessInit /\ [][QuickAccessNext]_quickVars

-----------------------------------------------------------------------------
(* All that there is for a text.                                             *)
ListFor(text) == PagesFor[text] \o IF text = "" THEN <<>> ELSE FoundFor[text]

(* Whatever arrived while the user typed and moved: a list that is shown is  *)
(* that of the text in the field, with one item highlighted; Enter, pressed  *)
(* before a list that is shown, opens the item that is highlighted in it, as *)
(* a click opens one of it, and both close the dialog; and a dialog that is  *)
(* opened again has forgotten the search of the last time                    *)
(* (highlightedIndex, sections, handleKeyDown).                              *)
EnterOpensWhatIsShown ==
    /\ [](dialog /\ Displayed # <<>> => highlight < Len(Displayed) /\ Displayed = ListFor(typed))
    /\ [][/\ PressesEnter /\ Displayed # <<>> => went'[1] = ListFor(typed)[highlight + 1]
          /\ went' # went /\ Displayed # <<>> => went'[1] \in Seqs!ToSet(ListFor(typed)) /\ ~dialog'
          /\ dialog' /\ ~dialog => typed' = "" /\ ~searching' /\ ~searchError']_quickVars

(* Pages come and go, and handlers are made anew: the dialog lists what the  *)
(* keys do on the page that is open, each once, and no key is left to a      *)
(* handler that has seen another page or another sidebar                     *)
(* (registerShortcuts, unregisterShortcuts, toggleSidebar).                  *)
HelpTellsWhatKeysDo ==
    /\ [](/\ Section("Current Page") # {} <=> shell.page = "events"
          /\ \A s, t \in shortcuts : s.key = t.key => s = t)
    /\ [][/\ PressesKey("mod+b") => shell'.sidebar # shell.sidebar
          /\ PressesKey("c") => shell.page = "events" /\ ~shell'.filtered]_quickVars
=============================================================================
