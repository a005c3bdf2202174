------------------------------ MODULE Sessions ------------------------------
(* Who a request is from: session cookies, sealed under the authentication   *)
(* configuration of the process (runtime/security/sessions.ts), password and *)
(* OIDC sign-in, sign-out and the principal of each request (http.ts).       *)
(*                                                                           *)
(* A configuration is [secret, mode, password, roles].  In basic mode roles  *)
(* gives the roles of an account ({} if there is none), in OIDC mode those   *)
(* of a claim.  What a cookie seals cannot be read or made without the       *)
(* secret.                                                                   *)
EXTENDS Integers, FiniteSets, TLC

CONSTANTS
    Browser,
    User,
    Configs,         \* the configurations the server is started with
    Claims,          \* what the identity provider may claim of a user
    SessionSpan,     \* session_seconds
    TransactionSpan, \* 300 seconds
    MaxClock,        \* bound: the clock
    MaxVisits        \* bound: visits to the identity provider

ASSUME SessionsAssumption ==
    /\ {SessionSpan, TransactionSpan, MaxClock, MaxVisits} \subseteq Nat
    /\ \A c \in Configs : c.mode \in {"basic", "oidc"}

VARIABLES
    config,          \* the configuration of the running process
    clock,
    jar,             \* [session, transaction]: the cookies of each browser
    visits,          \* visits to the provider, with the state parameter of each
    redeeming,       \* callbacks that wait for the provider's tokens
    proof,           \* history: who last signed in with each browser, how and when
    accepted         \* the principal of the request that was just let in

sessionsVars == <<config, clock, jar, visits, redeeming, proof, accepted>>

NoCookie == [purpose |-> "none"]
Nobody == [account |-> "nobody"]
NoProof == [user |-> "nobody"]

SessionsInit ==
    /\ config \in Configs /\ clock = 0
    /\ jar = [b \in Browser |-> [session |-> NoCookie, transaction |-> NoCookie]]
    /\ visits = {} /\ redeeming = {} /\ proof = [b \in Browser |-> NoProof] /\ accepted = Nobody

-----------------------------------------------------------------------------
(* seal(): the revision is a MAC of the whole configuration.                 *)
Seal(payload, purpose, span) ==
    [purpose |-> purpose, payload |-> payload, revision |-> config, exp |-> clock + span]

(* Mutant: any cookie this installation sealed with its secret. *)
SealedHere(cookie) == cookie.revision.secret = config.secret

BoundTo(cookie) == cookie.revision = config

(* open().                                                                   *)
Opens(cookie, purpose) ==
    /\ cookie.purpose = purpose
    /\ BoundTo(cookie)
    /\ clock < cookie.exp

SetCookie(b, name, cookie) == jar' = [jar EXCEPT ![b][name] = cookie]

(* principal(): an account's roles are looked up, an OIDC cookie holds them. *)
RolesIn(cookie) ==
    IF config.mode = "basic" THEN config.roles[cookie.payload.user] ELSE cookie.payload.roles

Principal(b, account, roles) == [browser |-> b, account |-> account, roles |-> roles]

-----------------------------------------------------------------------------
PasswordMatches(u, password) ==
    config.mode = "basic" /\ config.roles[u] # {} /\ password = config.password[u]

Passwords(u) == {c.password[u] : c \in {d \in Configs : d.mode = "basic"}}

Proves(b, u, roles) ==
    proof' = [proof EXCEPT ![b] = [user |-> u, roles |-> roles, config |-> config, at |-> clock]]

(* POST /api/auth/login: a wrong password leaves the cookies alone.          *)
Login(b, u, password) ==
    /\ config.mode = "basic"
    /\ IF PasswordMatches(u, password)
       THEN /\ SetCookie(b, "session", Seal([user |-> u, roles |-> {}], "session", SessionSpan))
            /\ Proves(b, u, config.roles[u])
       ELSE UNCHANGED <<jar, proof>>
    /\ UNCHANGED <<config, clock, visits, redeeming>>

(* start(): one transaction cookie per browser; another tab overwrites it.   *)
StartsSignIn(b) ==
    /\ config.mode = "oidc" /\ Cardinality(visits) < MaxVisits
    /\ LET state == Cardinality(visits)
       IN  /\ visits' = visits \cup {[browser |-> b, state |-> state]}
           /\ SetCookie(b, "transaction", Seal([state |-> state], "oidc", TransactionSpan))
    /\ UNCHANGED <<config, clock, redeeming, proof>>

(* callback() reads its cookie and asks for the tokens, in which the         *)
(* provider claims something of the user who signed in there.                *)
CallbackBegins(visit, u, claim) ==
    /\ config.mode = "oidc"
    /\ Opens(jar[visit.browser].transaction, "oidc")
    /\ jar[visit.browser].transaction.payload.state = visit.state
    /\ redeeming' = redeeming \cup {[browser |-> visit.browser, user |-> u, claim |-> claim]}
    /\ UNCHANGED <<config, clock, jar, visits, proof>>

(* The transaction cookie is cleared whatever happens.                       *)
CallbackFails(b) ==
    /\ config.mode = "oidc"
    /\ SetCookie(b, "transaction", NoCookie)
    /\ redeeming' \in {redeeming} \cup {redeeming \ {r} : r \in {x \in redeeming : x.browser = b}}
    /\ UNCHANGED <<config, clock, visits, proof>>

CallbackEnds(r) ==
    /\ config.roles[r.claim] # {}
    /\ jar' = [jar EXCEPT ![r.browser] =
                  [session |-> Seal([user |-> r.user, roles |-> config.roles[r.claim]], "session", SessionSpan),
                   transaction |-> NoCookie]]
    /\ redeeming' = redeeming \ {r}
    /\ Proves(r.browser, r.user, config.roles[r.claim])
    /\ UNCHANGED <<config, clock, visits>>

(* POST /api/auth/logout: the browser forgets, and what was proved in it     *)
(* counts no more.                                                           *)
Logout(b) ==
    /\ SetCookie(b, "session", NoCookie)
    /\ proof' = [proof EXCEPT ![b] = NoProof]
    /\ UNCHANGED <<config, clock, visits, redeeming>>

(* authenticate() of a browser's request: never a Basic credential.          *)
BrowserRequest(b) ==
    /\ LET cookie == jar[b].session
       IN  accepted' = IF Opens(cookie, "session") /\ RolesIn(cookie) # {}
                       THEN Principal(b, cookie.payload.user, RolesIn(cookie))
                       ELSE Nobody
    /\ UNCHANGED <<config, clock, jar, visits, redeeming, proof>>

-----------------------------------------------------------------------------
(* The server is restarted with another configuration: the requests it was   *)
(* handling are lost, the cookies stay where they are.                       *)
Reconfigure(c) ==
    /\ c # config /\ config' = c
    /\ redeeming' = {}
    /\ UNCHANGED <<clock, jar, visits, proof>>

(* Time passes; a browser drops a cookie at its Max-Age.                     *)
Kept(cookie) == IF cookie.purpose = "none" \/ clock + 1 >= cookie.exp THEN NoCookie ELSE cookie

Tick ==
    /\ clock < MaxClock
    /\ clock' = clock + 1
    /\ \/ jar' = [b \in Browser |-> [session |-> Kept(jar[b].session), transaction |-> Kept(jar[b].transaction)]]
       \/ UNCHANGED jar
    /\ UNCHANGED <<config, visits, redeeming, proof>>

SessionsNext ==
    \/ \E b \in Browser : BrowserRequest(b)
    \/ /\ \/ \E b \in Browser, u \in User : \E password \in Passwords(u) : Login(b, u, password)
          \/ \E b \in Browser : StartsSignIn(b) \/ CallbackFails(b) \/ Logout(b)
          \/ \E visit \in visits, u \in User, claim \in Claims : CallbackBegins(visit, u, claim)
          \/ \E r \in redeeming : CallbackEnds(r)
          \/ \E c \in Configs : Reconfigure(c)
          \/ Tick
       /\ accepted' = Nobody

SessionsSpec == SessionsInit /\ [][SessionsNext]_sessionsVars

-----------------------------------------------------------------------------
(* Whoever a request is let in as proved himself in that browser, since its  *)
(* last sign-out, no longer ago than a session lasts, under the very         *)
(* configuration that is in force, and has the roles that configuration      *)
(* gave him then: rotating a password, dropping an account or remapping a    *)
(* claim ends every session (sessions.ts:20-22, 47-62).                      *)
PrincipalIsProven ==
    accepted # Nobody =>
        LET p == proof[accepted.browser]
        IN  /\ p # NoProof /\ p.user = accepted.account
            /\ p.config = config /\ p.roles = accepted.roles
            /\ clock < p.at + SessionSpan
=============================================================================
