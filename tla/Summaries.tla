------------------------------ MODULE Summaries ------------------------------
(* The hooks that show sums over all tasks (src/hooks/use-analytics.ts,      *)
(* use-exceptions-summary.ts, use-homepage-summary.ts): each runs its        *)
(* queries, subscribes to the tasks, and runs them again a moment after a    *)
(* notification.  Here against the server of runtime/observation/rpc.ts,     *)
(* which answers in order and notifies every subscription at fixed           *)
(* intervals.                                                                *)
(*                                                                           *)
(* The connection outlives the page, and calls outlive the effect that made  *)
(* them: the owner of a call is the present run of the effect, a cancelled   *)
(* run, or a page that has gone.  (Without a connection there is no page.)   *)
EXTENDS Integers, Sequences, SequencesExt

CONSTANTS
    Bindings,           \* what the queries depend on: a time range, filters, a page
    MaxNotified,        \* 32: what a connection may subscribe to
    MaxUpdates,         \* bound on changes of the tasks
    MaxCalls            \* bound on what waits for the server

ASSUME SummariesAssumption ==
    /\ MaxNotified \in Nat \ {0} /\ MaxUpdates \in Nat /\ MaxCalls \in Nat \ {0}

VARIABLES
    updates,            \* version of the tasks
    bindings,           \* of the page, or NoPage
    calls,              \* what the server has not answered yet
    notified,           \* the connection's subscriptions: the queries they run again
    debounce,           \* the timer: the queries it will run
    summary             \* data

summaryVars == <<updates, bindings, calls, notified, debounce, summary>>

NoPage == "no page"
Killed == "killed"
NoTimer == "no timer"
NoSummary == [of |-> NoPage, version |-> 0]

Initial(b) == [kind |-> "initial", of |-> b, owner |-> "present"]
Again(b) == [kind |-> "again", of |-> b, owner |-> "present"]
Live(b) == [kind |-> "live", of |-> b, owner |-> "present"]
KillCall == [kind |-> "kill", of |-> Killed, owner |-> "gone"]

SummariesTypeOK ==
    /\ updates \in 0..MaxUpdates
    /\ bindings \in Bindings \cup {NoPage} /\ debounce \in Bindings \cup {NoTimer}
    /\ Len(calls) <= MaxCalls /\ Len(notified) <= MaxNotified
    /\ ToSet(notified) \subseteq Bindings \cup {NoPage, Killed}
    /\ summary.of \in Bindings \cup {NoPage} /\ summary.version \in 0..updates

SummariesInit ==
    /\ updates = 0 /\ bindings = NoPage
    /\ calls = <<>> /\ notified = <<>>
    /\ debounce = NoTimer /\ summary = NoSummary

-----------------------------------------------------------------------------
(* subscriptionRef: of those a page has started at most one is not killed,   *)
(* as a kill and the LIVE call after it are queued here in one step.         *)
Held == {n \in DOMAIN notified : notified[n] \in Bindings}

(* The clean-up of the effect: its run is cancelled, the timer cleared, the  *)
(* subscription unsubscribed from and killed.                                *)
Disown(c, owner) == IF c.owner = "gone" THEN c ELSE [c EXCEPT !.owner = owner]
Cleaned(owner) == [n \in DOMAIN calls |-> Disown(calls[n], owner)]
KillsHeld == [n \in DOMAIN notified |-> IF n \in Held THEN Killed ELSE notified[n]]
Killing == IF Held = {} THEN <<>> ELSE <<KillCall>>

(* The effect runs: on a page that is opened, or for other bindings (those   *)
(* of a live range change every minute).                                     *)
Opens(b) ==
    /\ b # bindings /\ Len(calls) + 2 <= MaxCalls
    /\ bindings' = b
    /\ calls' = Cleaned("cancelled") \o Killing \o <<Initial(b)>>
    /\ notified' = KillsHeld /\ debounce' = NoTimer
    /\ UNCHANGED <<updates, summary>>

Leaves ==
    /\ bindings # NoPage /\ Len(calls) < MaxCalls
    /\ bindings' = NoPage
    /\ calls' = Cleaned("gone") \o Killing
    /\ notified' = KillsHeld /\ debounce' = NoTimer /\ summary' = NoSummary
    /\ UNCHANGED updates

(* The connection is lost and opened again: the page is mounted anew.        *)
Reconnects ==
    /\ calls' = IF bindings = NoPage THEN <<>> ELSE <<Initial(bindings)>>
    /\ notified' = <<>>
    /\ debounce' = NoTimer /\ summary' = NoSummary
    /\ UNCHANGED <<updates, bindings>>

Updates ==
    /\ updates < MaxUpdates /\ updates' = updates + 1
    /\ UNCHANGED <<bindings, calls, notified, debounce, summary>>

-----------------------------------------------------------------------------
Answering(kind) == calls # <<>> /\ Head(calls).kind = kind
FirstCall == Head(calls)

(* Mutant: a run whose queries have failed does not subscribe. *)
GoesOnToSubscribeIfRead(read) == read

GoesOnToSubscribe(read) == TRUE

(* Results are shown without a look whether the run has been cancelled; the  *)
(* run goes on unless it has: it kills what the ref holds and subscribes.    *)
RunsQueries(read) ==
    /\ Answering("initial") \/ Answering("again")
    /\ summary' = IF read /\ FirstCall.owner # "gone"
                  THEN [of |-> FirstCall.of, version |-> updates] ELSE summary
    /\ LET continues == /\ FirstCall.kind = "initial" /\ FirstCall.owner = "present"
                        /\ GoesOnToSubscribe(read)
       IN  /\ calls' = Tail(calls) \o IF continues THEN Killing \o <<Live(FirstCall.of)>> ELSE <<>>
           /\ notified' = IF continues THEN KillsHeld ELSE notified
    /\ UNCHANGED <<updates, bindings, debounce>>

(* Nobody looks after `await db.live` whether the run has been cancelled:    *)
(* the page gets a subscription for bindings it no longer has, and a page    *)
(* that has gone leaves one behind.                                          *)
SubscribesHook ==
    /\ Answering("live") /\ Len(notified) < MaxNotified
    /\ notified' = Append(notified, IF FirstCall.owner = "gone" THEN NoPage ELSE FirstCall.of)
    /\ calls' = Tail(calls)
    /\ UNCHANGED <<updates, bindings, debounce, summary>>

SubscriptionRefused ==
    /\ Answering("live") /\ Len(notified) = MaxNotified
    /\ calls' = Tail(calls)
    /\ UNCHANGED <<updates, bindings, notified, debounce, summary>>

KillsHook ==
    /\ Answering("kill")
    /\ notified' = SelectSeq(notified, LAMBDA n : n # Killed)
    /\ calls' = Tail(calls)
    /\ UNCHANGED <<updates, bindings, debounce, summary>>

(* The server's interval: the handler arms the one timer of its hook.        *)
Notifies(n) ==
    /\ n \in Held
    /\ debounce' = notified[n]
    /\ UNCHANGED <<updates, bindings, calls, notified, summary>>

DebounceEnds ==
    /\ debounce # NoTimer /\ Len(calls) + 2 < MaxCalls
    /\ debounce' = NoTimer
    /\ calls' = Append(calls, Again(debounce))
    /\ UNCHANGED <<updates, bindings, notified, summary>>

-----------------------------------------------------------------------------
NotifiesPage == \E n \in DOMAIN notified : Notifies(n)
Answers == RunsQueries(TRUE) \/ SubscribesHook \/ SubscriptionRefused \/ KillsHook
QueriesFail == RunsQueries(FALSE)

SummariesNext ==
    \/ \E b \in Bindings : Opens(b)
    \/ Leaves \/ Reconnects \/ Updates
    \/ Answers \/ QueriesFail
    \/ NotifiesPage \/ DebounceEnds

(* Calls are answered, the intervals and the timer elapse.                   *)
SummariesFairness ==
    WF_summaryVars(Answers) /\ WF_summaryVars(NotifiesPage) /\ WF_summaryVars(DebounceEnds)

SummariesSpec == SummariesInit /\ [][SummariesNext]_summaryVars /\ SummariesFairness

-----------------------------------------------------------------------------
(* A page that stays open on a connection that has room for subscriptions    *)
(* ends up with the sums over the present tasks for the range it shows,      *)
(* whatever failed, and however often it was opened and changed meanwhile.   *)
SummarySettles ==
    /\ \E b \in Bindings : <>[](bindings = b)
    /\ <>[][~Reconnects /\ ~QueriesFail]_summaryVars
    /\ [](Len(notified) < MaxNotified)

SummaryCatchesUp == SummarySettles => <>[](summary = [of |-> bindings, version |-> updates])
=============================================================================
