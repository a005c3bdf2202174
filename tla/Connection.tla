------------------------------ MODULE Connection ------------------------------
(* How a page of the production interface gets its connection                *)
(* (src/components/surrealdb-provider.tsx): the configuration is fetched,    *)
(* then the socket is opened; while there is none, the configuration is      *)
(* probed every five seconds for the reason.  Effects run with the render    *)
(* that causes them, so that clean-ups and state changes are one step.       *)
EXTENDS Naturals

CONSTANT AllowDemo    \* may the user change to the demo and back?

VARIABLES
    access,           \* what /api/config answers at this moment
    screen,           \* what fills the window
    asked,            \* the fetch of the present attempt is under way
    probing,          \* `checking`
    loaded,           \* configLoaded
    held,             \* configRef.current # null
    failed,           \* error # null
    status            \* of the SDK

connectionVars == <<access, screen, asked, probing, loaded, held, failed, status>>

Access == {"granted", "unavailable", "denied", "expired"}

ConnectionTypeOK ==
    /\ access \in Access /\ screen \in {"page", "demo", "login"}
    /\ {asked, probing, loaded, held, failed} \subseteq BOOLEAN
    /\ status \in {"disconnected", "connecting", "connected", "reconnecting"}

Mounted ==
    /\ screen' = "page"
    /\ asked' = TRUE /\ probing' = FALSE
    /\ loaded' = FALSE /\ held' = FALSE /\ failed' = FALSE
    /\ status' = "disconnected"

ConnectionInit ==
    /\ access \in Access /\ screen = "page"
    /\ asked = TRUE /\ probing = FALSE
    /\ loaded = FALSE /\ held = FALSE /\ failed = FALSE
    /\ status = "disconnected"

(* Unmounting closes the socket; what is still under way finds `active`      *)
(* false, or the page gone.                                                  *)
Unmounted(next) ==
    /\ screen' = next
    /\ asked' = FALSE /\ probing' = FALSE
    /\ loaded' = FALSE /\ held' = FALSE /\ failed' = FALSE
    /\ status' = "disconnected"

OnPage == screen = "page" /\ UNCHANGED access
Stays == OnPage /\ UNCHANGED screen

-----------------------------------------------------------------------------
(* authenticatedFetch: an expired session navigates to the login page, and   *)
(* the caller gets an error in any case but success.                         *)
Denied == Unmounted("login") /\ UNCHANGED access
Refused == access \in {"unavailable", "denied"}

(* The fetch of this attempt settles, and the effect of configLoaded opens   *)
(* the socket.                                                               *)
ConfigArrives ==
    /\ OnPage /\ asked /\ access = "granted"
    /\ asked' = FALSE /\ loaded' = TRUE /\ held' = TRUE
    /\ status' = "connecting"
    /\ UNCHANGED <<screen, probing, failed>>

ConfigFails ==
    /\ Stays /\ asked /\ Refused
    /\ asked' = FALSE /\ loaded' = TRUE /\ failed' = TRUE
    /\ UNCHANGED <<probing, held, status>>

(* The interval of the probe.                                                *)
Probes ==
    /\ Stays /\ loaded /\ status # "connected" /\ ~probing
    /\ probing' = TRUE
    /\ UNCHANGED <<asked, loaded, held, failed, status>>

(* Mutant: the probe never connects by itself. *)
StatusAfterProbeOnly == status

StatusAfterProbe == IF held THEN status ELSE "connecting"

(* A probe that is answered connects a page that has never had a             *)
(* configuration, and no other; it clears the error in either case.          *)
ProbeArrives ==
    /\ Stays /\ probing /\ access = "granted"
    /\ probing' = FALSE /\ held' = TRUE /\ failed' = FALSE
    /\ status' = StatusAfterProbe
    /\ UNCHANGED <<asked, loaded>>

ProbeFails ==
    /\ Stays /\ probing /\ Refused
    /\ probing' = FALSE /\ failed' = TRUE
    /\ UNCHANGED <<asked, loaded, held, status>>

Expires ==
    /\ screen = "page" /\ access = "expired" /\ (asked \/ probing)
    /\ Denied

(* useSessionRecheck while there is no connection, the account menu of the   *)
(* page while there is one.                                                  *)
Rechecks ==
    /\ screen = "page" /\ access = "expired"
    /\ Denied

(* Without a connection the loading screen fills the page: it offers the     *)
(* demo as long as nothing has failed, and to try again or sign out after.   *)
LoadingScreen == screen = "page" /\ (~loaded \/ status # "connected")
SuggestsDemo == LoadingScreen /\ ~failed
ShowsError == LoadingScreen /\ loaded /\ failed

Retry ==
    /\ Stays /\ ShowsError
    /\ status' = "disconnected"
    /\ held' = FALSE /\ loaded' = FALSE /\ failed' = FALSE
    /\ asked' = TRUE /\ probing' = FALSE

-----------------------------------------------------------------------------
(* Events of the SDK; a change of status restarts the probe's effect.        *)
Connected ==
    /\ Stays /\ status \in {"connecting", "reconnecting"} /\ access = "granted"
    /\ status' = "connected" /\ failed' = FALSE /\ probing' = FALSE
    /\ UNCHANGED <<asked, loaded, held>>

(* connect() is rejected: its caller sets the error, unless that was a probe *)
(* of a status that has passed; the SDK may emit one.                        *)
ConnectFails ==
    /\ Stays /\ status = "connecting" /\ access # "granted"
    /\ status' = "disconnected" /\ probing' = FALSE
    /\ failed' \in {failed, TRUE}
    /\ UNCHANGED <<asked, loaded, held>>

(* The server or the network closes the socket.                              *)
Lost ==
    /\ Stays /\ status = "connected" /\ access # "granted"
    /\ status' = "reconnecting" /\ probing' = FALSE
    /\ UNCHANGED <<asked, loaded, held, failed>>

(* The SDK has tried often enough.                                           *)
GivesUp ==
    /\ Stays /\ status = "reconnecting" /\ access # "granted"
    /\ status' = "disconnected" /\ probing' = FALSE
    /\ failed' \in {failed, TRUE}
    /\ UNCHANGED <<asked, loaded, held>>

AccessChanges ==
    /\ access' \in Access
    /\ UNCHANGED <<screen, asked, probing, loaded, held, failed, status>>

(* The setting, or the suggestion of a loading screen that has no error.     *)
ToDemo ==
    /\ AllowDemo /\ screen = "page"
    /\ ~LoadingScreen \/ SuggestsDemo
    /\ Unmounted("demo") /\ UNCHANGED access

FromDemo == screen = "demo" /\ Mounted /\ UNCHANGED access

(* Sign out of the loading screen: POST /api/auth/logout and navigate.       *)
SignsOut ==
    /\ ShowsError /\ access # "unavailable"
    /\ Denied

SignsIn == screen = "login" /\ access # "expired" /\ Mounted /\ UNCHANGED access

-----------------------------------------------------------------------------
ConnectionNext ==
    \/ ConfigArrives \/ ConfigFails
    \/ Probes \/ ProbeArrives \/ ProbeFails
    \/ Expires \/ Rechecks \/ Retry
    \/ Connected \/ ConnectFails \/ Lost \/ GivesUp
    \/ AccessChanges \/ ToDemo \/ FromDemo \/ SignsOut \/ SignsIn

(* Requests are answered, intervals fire and the SDK keeps trying.  Nobody   *)
(* is obliged to press a button.                                             *)
ConnectionFairness ==
    /\ WF_connectionVars(ConfigArrives \/ ConfigFails)
    /\ WF_connectionVars(Probes) /\ WF_connectionVars(ProbeArrives \/ ProbeFails)
    /\ WF_connectionVars(Expires) /\ WF_connectionVars(Rechecks)
    /\ WF_connectionVars(Connected) /\ WF_connectionVars(ConnectFails)

ConnectionSpec == ConnectionInit /\ [][ConnectionNext]_connectionVars /\ ConnectionFairness

-----------------------------------------------------------------------------
Stable(S) == [](access \in S /\ screen = "page")

(* A page that holds no configuration, or whose SDK is still trying, gets    *)
(* connected by itself once access is granted for good, whatever failed      *)
(* before; and when the session is over, every page ends at the login.       *)
(* (A page that holds a configuration and whose SDK has given up does not.)  *)
PageFindsItsWay ==
    /\ []((~held \/ status \in {"connecting", "connected", "reconnecting"}) /\ Stable({"granted"})
             => <>[](status = "connected"))
    /\ []([](access = "expired" /\ screen # "demo") => <>(screen = "login"))
=============================================================================
