---------------------------- MODULE Observation ----------------------------
(* A browser's live view of the database: the server end of one socket       *)
(* (runtime/observation/rpc.ts), which works in order and asks the policy    *)
(* again around every read, and a hook that reads, subscribes and reads      *)
(* again at each refresh (src/hooks/use-live-query.ts).                      *)
(*                                                                           *)
(* A scope is the set of rows it shows; the policy denies with the empty     *)
(* one.  Calls wait in the queue of the server; what is sent has arrived.    *)
EXTENDS Integers, Sequences

CONSTANTS
    Scopes,           \* what the policy may say
    Requests,         \* typed reads the hook may make
    MaxWrites,        \* bound on changes of the data
    MaxPending,       \* 64
    MaxSubscriptions  \* 32

ASSUME ObservationAssumption ==
    /\ \E S \in Scopes : S # {}
    /\ Requests \subseteq Nat \ {0}
    /\ {MaxPending, MaxSubscriptions} \subseteq Nat \ {0}
    /\ MaxWrites \in Nat

VARIABLES
    policy,           \* what the authorisation service answers now
    written,          \* version of the data
    socket,           \* "open" or "closed"
    granted,          \* initialScope
    queue,            \* work behind `tail`
    job,              \* the piece of work in progress
    subscriptions,    \* their ids
    enabled,          \* option of the hook
    request,          \* option of the hook
    subscription,     \* subscriptionRef, 0 if null
    shown             \* data of the hook: the read and its version

world == <<policy, written>>
server == <<socket, granted, queue, job, subscriptions>>
hook == <<enabled, request, subscription, shown>>
observationVars == <<world, server, hook>>

Nothing == [request |-> 0, version |-> 0]

(* `current` marks the calls of an initialize() that is not cancelled.       *)
Call(kind, r, id, current) == [kind |-> kind, request |-> r, id |-> id, current |-> current]
InitialRead(r) == Call("read", r, 0, TRUE)
RefreshRead(r) == Call("read", r, 0, FALSE)
Subscribe == Call("live", 0, 0, TRUE)
Kill(id) == Call("kill", 0, id, FALSE)
Refresh == Call("refresh", 0, 0, FALSE)
NoJob == [at |-> "waiting", work |-> Refresh, scope |-> {}, version |-> 0]

ObservationTypeOK ==
    /\ policy \in Scopes /\ written \in 0..MaxWrites
    /\ socket \in {"open", "closed"} /\ granted \in Scopes \cup {{}}
    /\ Len(queue) <= MaxPending
    /\ job.at \in {"waiting", "entered", "authorised", "read", "reread"}
    /\ subscriptions \subseteq 1..MaxSubscriptions
    /\ enabled \in BOOLEAN /\ request \in Requests
    /\ subscription \in 0..MaxSubscriptions
    /\ shown.request \in Requests \cup {0} /\ shown.version \in 0..written

ObservationInit ==
    /\ policy \in Scopes
    /\ written = 0
    /\ socket = "closed" /\ granted = {}
    /\ queue = <<>> /\ job = NoJob /\ subscriptions = {}
    /\ enabled = TRUE /\ request \in Requests /\ subscription = 0
    /\ shown = Nothing

-----------------------------------------------------------------------------
(* The server closes the connection, or the network does.                    *)
Close ==
    /\ socket' = "closed" /\ granted' = {}
    /\ queue' = <<>> /\ job' = NoJob /\ subscriptions' = {}

(* What the server does next, the calls that the client makes meanwhile and  *)
(* enqueue(): the connection is closed rather than let too much work wait.   *)
Proceed(rest, next, ids, calls) ==
    IF Len(rest) + Len(calls) + (IF next = NoJob THEN 0 ELSE 1) > MaxPending
    THEN Close
    ELSE /\ queue' = rest \o calls /\ job' = next /\ subscriptions' = ids
         /\ UNCHANGED <<socket, granted>>

Answered(calls) == Proceed(queue, NoJob, subscriptions, calls)
Reaches(place) == Proceed(queue, [job EXCEPT !.at = place], subscriptions, <<>>)

(* setInterval of the constructor.                                           *)
RefreshTick ==
    /\ socket = "open"
    /\ Proceed(queue, job, subscriptions, <<Refresh>>)
    /\ UNCHANGED <<world, hook>>

NextWork(k) == k = 1 /\ queue # <<>>

Without(k) == [n \in 1..Len(queue) - 1 |-> IF n < k THEN queue[n] ELSE queue[n + 1]]

(* scope() with no operation: the decision must be the one of the upgrade.   *)
Unchanged == policy # {} /\ policy = granted

(* Mutant: a refresh only makes a hook read that shows nothing. *)
CallsOnRefreshIfEmpty ==
    IF subscriptions # {} /\ shown = Nothing THEN <<RefreshRead(request)>> ELSE <<>>

(* A refresh of a subscription that the hook has started, and perhaps        *)
(* forgotten, makes it read.                                                 *)
CallsOnRefresh == IF subscriptions # {} THEN <<RefreshRead(request)>> ELSE <<>>

(* The next piece of work is started; without authorisation the socket is    *)
(* closed.                                                                   *)
Enters(k) ==
    /\ socket = "open" /\ job = NoJob /\ NextWork(k)
    /\ IF ~Unchanged
       THEN Close
       ELSE IF queue[k].kind = "refresh"
       THEN Proceed(Without(k), NoJob, subscriptions, CallsOnRefresh)
       ELSE Proceed(Without(k), [NoJob EXCEPT !.at = "entered", !.work = queue[k]],
                    subscriptions, <<>>)
    /\ UNCHANGED <<world, hook>>

(* LIVE SELECT, and the check before its reply.  startLiveSubscription does  *)
(* not look whether it has been cancelled.                                   *)
Subscribes ==
    /\ job.at = "entered" /\ job.work.kind = "live"
    /\ LET free == 1..MaxSubscriptions \ subscriptions
           id == CHOOSE n \in free : \A m \in free : n <= m
       IN  /\ Proceed(queue, NoJob,
                      IF free = {} THEN subscriptions ELSE subscriptions \cup {id}, <<>>)
           /\ subscription' = IF free # {} /\ Unchanged THEN id ELSE subscription
    /\ UNCHANGED <<world, enabled, request, shown>>

KillsSubscription ==
    /\ job.at = "entered" /\ job.work.kind = "kill"
    /\ Proceed(queue, NoJob, subscriptions \ {job.work.id}, <<>>)
    /\ UNCHANGED <<world, hook>>

Kills == IF subscription = 0 THEN <<>> ELSE <<Kill(subscription)>>

(* The reply to a read, which may be an error: setData, cancelled or not,    *)
(* and the present initialize() goes on to subscribe in either case.         *)
Returns(data) ==
    /\ shown' = data
    /\ Answered(IF job.work.current THEN Kills \o <<Subscribe>> ELSE <<>>)
    /\ subscription' = IF job.work.current THEN 0 ELSE subscription
    /\ UNCHANGED <<world, enabled, request>>

(* A read: the scope of the operation, the query, the scope again.           *)
Authorises ==
    /\ job.at = "entered" /\ job.work.kind = "read"
    /\ IF policy = {}
       THEN Returns(shown)
       ELSE /\ Proceed(queue, [job EXCEPT !.at = "authorised", !.scope = granted \cap policy],
                       subscriptions, <<>>)
            /\ UNCHANGED <<world, hook>>

(* Mutant: a read may be answered with the rows of an earlier one. *)
QueriesCached ==
    /\ job.at = "authorised"
    /\ \E v \in 0..written :
          Proceed(queue, [job EXCEPT !.at = "read", !.version = v], subscriptions, <<>>)
    /\ UNCHANGED <<world, hook>>

Queries ==
    /\ job.at = "authorised"
    /\ Proceed(queue, [job EXCEPT !.at = "read", !.version = written], subscriptions, <<>>)
    /\ UNCHANGED <<world, hook>>

QueryFails ==
    /\ job.at = "authorised"
    /\ Returns(shown)

ChecksAgain ==
    /\ job.at = "read"
    /\ IF policy = {} \/ granted \cap policy # job.scope
       THEN Returns(shown)
       ELSE Reaches("reread") /\ UNCHANGED <<world, hook>>

(* Mutant: without the last `await this.scope()`. *)
MaySendUnchecked == TRUE

MaySend == Unchanged

Sends ==
    /\ job.at = "reread"
    /\ Returns(IF MaySend THEN [request |-> job.work.request, version |-> job.version] ELSE shown)

-----------------------------------------------------------------------------
Cancelled(call) == [call EXCEPT !.current = FALSE]

(* The effect of the hook runs again: its cleanup, and initialize() with the *)
(* options of the render if it is enabled and connected.                     *)
Rerun(kills) ==
    /\ IF socket = "closed"
       THEN UNCHANGED server
       ELSE Proceed([n \in DOMAIN queue |-> Cancelled(queue[n])],
                    [job EXCEPT !.work = Cancelled(job.work)],
                    subscriptions,
                    kills \o (IF enabled' THEN <<InitialRead(request')>> ELSE <<>>))
    /\ UNCHANGED world

ChangesRequest(r) ==
    /\ enabled
    /\ r # request /\ request' = r
    /\ subscription' = 0
    /\ UNCHANGED <<enabled, shown>>
    /\ Rerun(Kills)

Disables ==
    /\ enabled /\ enabled' = FALSE
    /\ shown' = Nothing /\ subscription' = 0
    /\ UNCHANGED request
    /\ Rerun(Kills)

(* The effect of a disabled hook has no cleanup.                             *)
Enables ==
    /\ ~enabled /\ enabled' = TRUE
    /\ UNCHANGED <<request, subscription, shown>>
    /\ Rerun(<<>>)

(* The socket is opened, or again after it has been closed: the gate decides *)
(* the scope, and the page, of which nothing was left without a connection   *)
(* (surrealdb-provider.tsx:223-231), is mounted and runs the effect.         *)
Connects ==
    /\ socket = "closed" /\ policy # {}
    /\ socket' = "open" /\ granted' = policy
    /\ queue' = IF enabled THEN <<InitialRead(request)>> ELSE <<>>
    /\ job' = NoJob /\ subscriptions' = {}
    /\ subscription' = 0 /\ shown' = Nothing
    /\ UNCHANGED <<world, enabled, request>>

Breaks ==
    /\ socket = "open"
    /\ Close
    /\ UNCHANGED <<world, hook>>

Writes ==
    /\ written < MaxWrites
    /\ written' = written + 1
    /\ UNCHANGED <<policy, server, hook>>

PolicyChanges(S) ==
    /\ policy' = S
    /\ UNCHANGED <<written, server, hook>>

-----------------------------------------------------------------------------
Serves ==
    \/ \E k \in DOMAIN queue : Enters(k)
    \/ Subscribes \/ KillsSubscription
    \/ Authorises \/ Queries \/ ChecksAgain \/ Sends

ObservationNext ==
    \/ RefreshTick \/ Serves \/ QueryFails
    \/ Connects \/ Breaks
    \/ Disables \/ Enables \/ \E r \in Requests : ChangesRequest(r)
    \/ Writes \/ \E S \in Scopes : PolicyChanges(S)

(* The interval fires, promises settle, and the SDK reconnects.              *)
ObservationFairness ==
    WF_observationVars(RefreshTick) /\ WF_observationVars(Serves) /\ WF_observationVars(Connects)

ObservationSpec == ObservationInit /\ [][ObservationNext]_observationVars /\ ObservationFairness

-----------------------------------------------------------------------------
(* Whenever access is narrowed or withdrawn while a read is under way, no    *)
(* row leaves that the policy does not show at that moment, and none but     *)
(* what the socket was granted (rpc.ts:135-146); and although refreshes      *)
(* overlap (use-live-query.ts:125), what the page shows of one read never    *)
(* gets older: the server answers one call after the other.                  *)
RowsAreCurrent ==
    [][/\ shown' \notin {shown, Nothing} => job.scope \subseteq policy \cap granted
       /\ shown.request = shown'.request => shown.version <= shown'.version]_observationVars

(* If the socket stays open, and nobody changes the query or the policy any  *)
(* more, the page ends up with what is in the database, whatever was         *)
(* cancelled, lost or refused before.                                        *)
Settles ==
    /\ <>[](socket = "open" /\ enabled)
    /\ <>[][~QueryFails /\ UNCHANGED <<request, policy>>]_observationVars

PageCatchesUp == Settles => <>[](shown = [request |-> request, version |-> written])
=============================================================================
