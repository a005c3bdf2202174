------------------------------ MODULE Requests ------------------------------
(* The way of a request through the server, from its path to its answer      *)
(* (bun-entry.ts:594-822 within runtime/security/http.ts:25-103), and of a   *)
(* visit through its redirects: the prefix, the login page and back.  What   *)
(* an API answers is Access, whom a cookie proves Sessions.                  *)
EXTENDS Access

CONSTANTS
    LoginLimit, BodyLimit,      \* what may be sent to sign in, and to the API
    Piece,                      \* how much of a body may arrive at a time
    Deadline                    \* ticks /ready waits for the database

ASSUME RequestsAssumption ==
    {LoginLimit, BodyLimit, Deadline} \subseteq Nat /\ Piece \subseteq Nat \ {0}

VARIABLES
    entrance,        \* [prefix, mode] of the deployment
    signedIn,        \* the browser holds a session that is accepted
    verdict,         \* what the policy answers for this person
    visiting,        \* [goal, hops]: where a visit wants to go, and redirects since somebody acted
    request,         \* the request in progress, `at` how far
    reply           \* the last answer

requestsVars == <<entrance, signedIn, verdict, visiting, request, reply>>

Place(base, rest) == [base |-> base, rest |-> rest]
Base == IF entrance.prefix THEN "prefix" ELSE "root"
Home == Place(Base, "/")
LoginPlace == Place(Base, "/login")

AuthRoutes == {"/api/auth/login", "/api/auth/logout", "/api/auth/oidc", "/api/auth/identity"}
ProbeRoutes == {"/health", "/ready"}
PublicFiles == {"/assets/app.js", "/favicon.ico"}
Files == {"/assets/app.js", "/logo.svg"}
ApiRoutes == {"/api/config", "/api/settings/retention", "/api/observation/rpc", "/api/none", "/mcp", "/metrics"}
PageRoutes == {"/", "/tasks"}
Rest == AuthRoutes \cup ProbeRoutes \cup PublicFiles \cup Files \cup ApiRoutes \cup PageRoutes \cup {"/login", "/apis"}
Places == {Place(base, rest) : base \in {"root", Base}, rest \in Rest}
            \cup (IF entrance.prefix THEN {Place("prefix", "")} ELSE {})

Under(p) == p.base = Base
Normalized(p) == p.rest

NoVisit == [goal |-> Place("none", "none"), hops |-> 0]
NoRequest == [at |-> "none"]
NoReply == [status |-> 0, shows |-> "none", place |-> Place("none", "none"),
             back |-> Place("none", "none"), asked |-> NoRequest]
Anywhere == NoReply.back

Says(status, shows, place) == [status |-> status, shows |-> shows, place |-> place, back |-> Anywhere,
                               asked |-> request]
Refuses(status) == Says(status, "error", Anywhere)
Redirects(status, place) == Says(status, "redirect", place)
ToLogin(back) == [Redirects(303, LoginPlace) EXCEPT !.back = back]
LoginForm(status, back) == [Says(status, "login", LoginPlace) EXCEPT !.back = back]

-----------------------------------------------------------------------------
(* Who sends: a navigation, a form, a fetch of the interface, a socket of    *)
(* its own, a client with a password, or a page of another origin.           *)
Sender(navigates, origin, site, marked, upgrades) ==
    [navigates |-> navigates, origin |-> origin, site |-> site, marked |-> marked, upgrades |-> upgrades]
Navigation == Sender(TRUE, "none", "cross", FALSE, FALSE)
LoginSubmission == Sender(TRUE, "own", "same", FALSE, FALSE)
Interface(method) == Sender(FALSE, IF method = "GET" THEN "none" ELSE "own", "same", method # "GET", FALSE)
OwnSocket == Sender(FALSE, "own", "same", FALSE, TRUE)
Client(origin) == Sender(FALSE, origin, "none", TRUE, FALSE)
Elsewhere == Sender(FALSE, "other", "cross", FALSE, FALSE)

Asks(method, place, sender, back) ==
    [at |-> "sent", method |-> method, place |-> place, sender |-> sender, back |-> back, size |-> 0,
     proven |-> FALSE, allowed |-> FALSE]

(* returnPath(): neither outside nor in the sign-in itself.                  *)
ReturnPath(p) == IF Under(p) /\ p.rest \notin AuthRoutes \cup {"", "/login", "none"} THEN p ELSE Home

(* authenticate(): a browser by its cookie, a client by its password, which  *)
(* is right.                                                                 *)
Recognises(r) == IF r.sender.site = "none" THEN entrance.mode = "basic" ELSE signedIn

OriginDenied(r) ==
    r.sender.origin = "other" \/ (r.sender.site = "cross" /\ ~r.sender.navigates)

Guarded(rest) == rest \in ApiRoutes \cup AuthRoutes

(* gate(): what may change something, and what opens a socket, comes from    *)
(* the interface, to a route there is.                                       *)
Unsafe(r) == r.method # "GET" \/ r.sender.upgrades
Known(r) ==
    \/ Normalized(r.place) = "/mcp"
    \/ Normalized(r.place) = "/api/observation/rpc" /\ r.method # "PUT"
    \/ <<r.method, Normalized(r.place)>> \in
        {<<"GET", "/api/config">>, <<"GET", "/metrics">>, <<"GET", "/api/settings/retention">>,
         <<"PUT", "/api/settings/retention">>}

(* Mutant: also of requests that name no origin. *)
GatedByMark(r) ==
    /\ Unsafe(r) => r.sender.origin \in {"own", "none"} /\ (r.sender.upgrades \/ r.sender.marked)
    /\ Known(r)

Gated(r) ==
    /\ Unsafe(r) => r.sender.origin = "own" /\ (r.sender.upgrades \/ r.sender.marked)
    /\ Known(r)

Status == [allows |-> 200, denies |-> 403, unavailable |-> 503]

(* Mutant: the login page is not told where the visit came from. *)
FailureForgets(r, status) ==
    IF r.method # "GET" \/ ~r.sender.navigates THEN Refuses(status)
    ELSE IF status = 401 THEN ToLogin(Anywhere)
    ELSE Says(status, "access", r.place)

(* The catch of secureApplicationRequest: a navigation is led to the login   *)
(* page or shown why not, the rest gets the status.                          *)
Failure(r, status) ==
    IF r.method # "GET" \/ ~r.sender.navigates THEN Refuses(status)
    ELSE IF status = 401 THEN ToLogin(r.place)
    ELSE IF status \in {403, 503} /\ ~Guarded(Normalized(r.place)) THEN Says(status, "access", r.place)
    ELSE Refuses(status)

Answered(a) == reply' = a /\ request' = NoRequest
GoesOn(r, at) == request' = [r EXCEPT !.at = at] /\ UNCHANGED reply

-----------------------------------------------------------------------------
(* The routes of fetch(), in its order; a prefix is completed, ...           *)
Misplaced(r) == r.place.rest = "" \/ (~Under(r.place) /\ Normalized(r.place) \notin ProbeRoutes)
Completes(r) == Answered(IF r.place.rest = "" THEN Redirects(308, Home) ELSE Refuses(404))

(* ... operations come over sockets or one by one, ...                       *)
Operates(r) ==
    IF r.sender.upgrades THEN \E a \in {Says(101, "socket", r.place), Refuses(400)} : Answered(a)
    ELSE IF r.method # "POST" THEN Answered(Refuses(405))
    ELSE GoesOn(r, "reading")

(* ... and a file is there or not.                                           *)
ServesFile(r) ==
    Answered(IF Normalized(r.place) \in Files THEN Says(200, "file", r.place) ELSE Refuses(404))

Dispatch(r) ==
    LET rest == Normalized(r.place)
    IN  IF Misplaced(r) THEN Completes(r)
        ELSE CASE rest \in {"/api/config", "/mcp", "/metrics"} -> Answered(Says(200, "data", r.place))
               [] rest = "/api/settings/retention" ->
                    IF r.method = "PUT" THEN GoesOn(r, "reading") ELSE Answered(Says(200, "data", r.place))
               [] rest = "/api/observation/rpc" -> Operates(r)
               [] rest = "/ready" -> GoesOn(r, "waiting")
               [] rest = "/health" -> Answered(Says(200, "probe", r.place))
               [] rest \in {"/api/none", "/apis"} \cup AuthRoutes -> Answered(Refuses(404))
               [] rest \in PublicFiles \cup Files -> ServesFile(r)
               [] OTHER -> Answered(Says(200, "page", r.place))

(* handle(): the routes of signing in, which are open to everybody.          *)
SigningIn(r) ==
    \/ Normalized(r.place) \in {"/api/auth/login", "/api/auth/logout"}
    \/ r.method = "GET" /\ Normalized(r.place) = "/login"
    \/ r.method = "GET" /\ Normalized(r.place) = "/api/auth/oidc" /\ entrance.mode = "oidc"

HandlesSignIn(r) ==
    LET rest == Normalized(r.place)
    IN  IF rest = "/login" THEN Answered(LoginForm(200, ReturnPath(r.back))) /\ UNCHANGED signedIn
        ELSE IF rest = "/api/auth/oidc" THEN (GoesOn(r, "provider") \/ Answered(Refuses(503))) /\ UNCHANGED signedIn
        ELSE IF r.method # "POST" THEN Answered(Refuses(405)) /\ UNCHANGED signedIn
        ELSE IF r.sender.origin # "own" \/ r.sender.site = "cross" THEN Answered(Refuses(403)) /\ UNCHANGED signedIn
        ELSE IF rest = "/api/auth/logout"
             THEN IF r.sender.marked THEN signedIn' = FALSE /\ Answered(Says(204, "signed out", Anywhere))
                  ELSE Answered(Refuses(403)) /\ UNCHANGED signedIn
        ELSE IF entrance.mode # "basic" THEN Answered(Refuses(403)) /\ UNCHANGED signedIn
        ELSE GoesOn(r, "reading") /\ UNCHANGED signedIn

(* secureApplicationRequest(): what is open to everybody, and who it is.     *)
Open(p) == ~Under(p) \/ Normalized(p) \in ProbeRoutes \cup PublicFiles

Serve ==
    LET r == request
    IN  /\ r.at = "sent"
        /\ IF Open(r.place) THEN Dispatch(r) /\ UNCHANGED signedIn
           ELSE IF SigningIn(r) THEN HandlesSignIn(r)
           ELSE /\ IF OriginDenied(r) THEN Answered(Failure(r, 403))
                   ELSE IF ~Recognises(r) THEN Answered(Failure(r, 401))
                   ELSE GoesOn([r EXCEPT !.proven = TRUE], "proven")
                /\ UNCHANGED signedIn
        /\ UNCHANGED <<entrance, verdict, visiting>>

(* What it may do: the gate for the API, the policy alone for the rest.      *)
Decides ==
    LET r == request
        rest == Normalized(r.place)
        identity == rest = "/api/auth/identity" /\ r.method = "GET"
    IN  /\ r.at = "proven"
        /\ IF Guarded(rest) /\ ~identity /\ ~Gated(r) THEN Answered(Failure(r, 403))
           ELSE IF verdict # "allows" THEN Answered(Failure(r, Status[verdict]))
           ELSE IF identity THEN Answered(Says(200, "identity", r.place))
           ELSE GoesOn([r EXCEPT !.allowed = TRUE], "admitted")
        /\ UNCHANGED <<entrance, signedIn, verdict, visiting>>

Routes == request.at = "admitted" /\ Dispatch(request) /\ UNCHANGED <<entrance, signedIn, verdict, visiting>>

-----------------------------------------------------------------------------
Limit(r) == IF Normalized(r.place) = "/api/auth/login" THEN LoginLimit ELSE BodyLimit

(* A body is read piece by piece, whatever length was announced.             *)
Receives(n) ==
    /\ request.at = "reading"
    /\ IF request.size + n > Limit(request)
       THEN Answered(Refuses(413))
       ELSE request' = [request EXCEPT !.size = @ + n] /\ UNCHANGED reply
    /\ UNCHANGED <<entrance, signedIn, verdict, visiting>>

(* The RPC route alone looks at the length that is announced.                *)
TooLong ==
    /\ request.at = "reading" /\ request.size = 0 /\ Normalized(request.place) = "/api/observation/rpc"
    /\ Answered(Refuses(413))
    /\ UNCHANGED <<entrance, signedIn, verdict, visiting>>

(* A body that is complete: for the API, one that can be read, or not.       *)
Understood(readable) ==
    /\ request.at = "reading" /\ Normalized(request.place) # "/api/auth/login"
    /\ Answered(IF ~readable \/ request.size = 0 THEN Refuses(422)
                ELSE IF verdict # "allows" /\ Normalized(request.place) = "/api/observation/rpc"
                     THEN Refuses(Status[verdict])
                ELSE Says(200, "data", request.place))
    /\ UNCHANGED <<entrance, signedIn, verdict, visiting>>

LogsIn(right) ==
    /\ request.at = "reading" /\ Normalized(request.place) = "/api/auth/login"
    /\ LET back == ReturnPath(request.back)
       IN  Answered(IF request.size = 0 THEN Refuses(400)
                    ELSE IF right THEN Redirects(303, back) ELSE LoginForm(401, back))
    /\ signedIn' = (signedIn \/ (right /\ request.size > 0))
    /\ UNCHANGED <<entrance, verdict, visiting>>

(* The callback: what failed at the provider ends at a login page that has   *)
(* forgotten where the visit wanted to go.                                   *)
ProviderAnswers(granted) ==
    /\ request.at = "provider"
    /\ Answered(IF granted THEN Redirects(303, ReturnPath(request.back)) ELSE ToLogin(Anywhere))
    /\ signedIn' = (signedIn \/ granted)
    /\ visiting' = IF granted THEN visiting ELSE [visiting EXCEPT !.goal = Home]
    /\ UNCHANGED <<entrance, verdict>>

(* /ready races the database against 750 ms.                                 *)
DatabaseSays(well) ==
    /\ request.at = "waiting"
    /\ Answered(IF well THEN Says(200, "probe", request.place) ELSE Refuses(503))
    /\ UNCHANGED <<entrance, signedIn, verdict, visiting>>

Waits ==
    /\ request.at = "waiting"
    /\ IF request.size + 1 >= Deadline THEN Answered(Refuses(503))
       ELSE request' = [request EXCEPT !.size = @ + 1] /\ UNCHANGED reply
    /\ UNCHANGED <<entrance, signedIn, verdict, visiting>>

-----------------------------------------------------------------------------
Sends(r, goal, hops) ==
    /\ request = NoRequest
    /\ request' = r /\ visiting' = [goal |-> goal, hops |-> hops] /\ reply' = NoReply
    /\ UNCHANGED <<entrance, signedIn, verdict>>

Visits(goal) == Sends(Asks("GET", goal, Navigation, Anywhere), goal, 0)

Single(method, place, sender) == reply = NoReply /\ Sends(Asks(method, place, sender, Anywhere), NoVisit.goal, 0)

(* The browser follows a redirect by itself.                                 *)
Follows ==
    /\ reply.shows = "redirect" /\ visiting.goal # NoVisit.goal
    /\ Sends(Asks("GET", reply.place, Navigation, reply.back), visiting.goal, visiting.hops + 1)

(* What the person does on the login page, ...                               *)
SubmitsLogin ==
    /\ reply.shows = "login" /\ visiting.goal # NoVisit.goal
    /\ IF entrance.mode = "basic"
       THEN Sends(Asks("POST", Place(Base, "/api/auth/login"), LoginSubmission, reply.back), visiting.goal, 0)
       ELSE Sends(Asks("GET", Place(Base, "/api/auth/oidc"), Navigation, reply.back), visiting.goal, 0)

(* ... on the page that tells why there is no access, ...                    *)
RetriesAccess == reply.shows = "access" /\ Visits(reply.place)
SwitchesAccount ==
    reply.shows = "access" /\ Sends(Asks("GET", LoginPlace, Navigation, Anywhere), Home, 0)

(* ... and on a page of the interface, which asks who this is.               *)
InterfaceNotices ==
    /\ reply.shows = "page" /\ ~signedIn /\ visiting.goal # NoVisit.goal
    /\ Sends(Asks("GET", LoginPlace, Navigation, reply.place), reply.place, 0)

(* The tab is closed, the client is done.                                    *)
Turns == request = NoRequest /\ reply' = NoReply /\ visiting' = NoVisit /\ UNCHANGED <<entrance, signedIn, verdict, request>>

SessionEnds ==
    signedIn /\ signedIn' = FALSE /\ UNCHANGED <<entrance, verdict, visiting, request, reply>>
VerdictTurns(v) ==
    v # verdict /\ verdict' = v /\ UNCHANGED <<entrance, signedIn, visiting, request, reply>>

Senders(method) ==
    {Interface(method), Elsewhere, Client("own"), Client("none")} \cup (IF method = "GET" THEN {Navigation, OwnSocket} ELSE {LoginSubmission})

RequestsInit ==
    /\ entrance \in [prefix : BOOLEAN, mode : {"basic", "oidc"}]
    /\ signedIn = FALSE /\ verdict = "allows"
    /\ visiting = NoVisit /\ request = NoRequest /\ reply = NoReply

RequestsNext ==
    \/ \E place \in Places :
          \/ Visits(place)
          \/ \E method \in {"GET", "POST", "PUT"} : \E sender \in Senders(method) : Single(method, place, sender)
    \/ Serve \/ Decides \/ Routes
    \/ \E n \in Piece : Receives(n)
    \/ TooLong
    \/ \E ok \in BOOLEAN : Understood(ok) \/ LogsIn(ok) \/ ProviderAnswers(ok) \/ DatabaseSays(ok)
    \/ Waits
    \/ Follows \/ SubmitsLogin \/ RetriesAccess \/ SwitchesAccount \/ InterfaceNotices \/ Turns
    \/ SessionEnds \/ \E v \in DOMAIN Status : VerdictTurns(v)

RequestsSpec == RequestsInit /\ [][RequestsNext]_requestsVars

-----------------------------------------------------------------------------
(* A visit ends where it wanted to go, however often the person has to sign  *)
(* in on the way and whatever is mistyped: the page that is shown is the one *)
(* asked for, a login page leads back there, and no two redirects are        *)
(* followed by a third (http.ts:72-103, 181-209, sessions.ts:100-113).       *)
VisitsArrive ==
    /\ visiting.goal # NoVisit.goal =>
        /\ reply.shows = "page" => reply.place = ReturnPath(visiting.goal)
        /\ reply.shows = "login" => reply.back = ReturnPath(visiting.goal)
    /\ visiting.hops <= 2

(* The classifications of a path agree, here by its place in the interface,  *)
(* there by its name: nothing but the files of the login page, the probes    *)
(* and the login itself is answered to somebody unproven or not allowed, and *)
(* nothing is changed or kept open for another origin (http.ts:36-70,        *)
(* 268-287, bun-entry.ts:598-640).                                           *)
RequestsAreGuarded ==
    LET r == reply.asked
    IN  /\ reply.shows \in {"page", "data", "identity", "socket", "file"} =>
            \/ r.proven /\ Under(r.place) /\ (r.allowed \/ reply.shows = "identity")
            \/ reply.shows = "file" /\ Normalized(r.place) \in PublicFiles
        /\ reply.shows \in {"data", "socket"} /\ Unsafe(r) => r.sender.origin = "own"
        /\ reply.shows = "data" => r.size <= BodyLimit

(* What an answer may contain, and which requests are answered at all: the   *)
(* decisions of one request agree (Access), and so do the two places that    *)
(* tell by its path what a request needs and what it gets, wherever redirects *)
(* lead it (http.ts:25-103, bun-entry.ts:594-822).                           *)
AnswersAreEarned == AnswersAreLawful /\ VisitsArrive /\ RequestsAreGuarded
=============================================================================
