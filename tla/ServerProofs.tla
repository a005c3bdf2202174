---------------------------- MODULE ServerProofs ----------------------------
(* Theorems about parts of the Bun server: its lifecycle, sessions, debug    *)
(* bundles, configuration, access decisions and search projections, each for *)
(* any values of its constants.                                              *)
EXTENDS ServerLifecycle, Sessions, DebugBundles, Configuration, Access, Requests, SearchIndexes, TLAPS,
        FiniteSetTheorems, NaturalsInduction

-----------------------------------------------------------------------------
(* Before a shutdown every Python child but the current one has been told to *)
(* stop, and nobody is the current one who should not be.  A shutdown that   *)
(* began when the server was serving meets no startup that spawns anything.  *)
ChildrenInv ==
    closing = "no" =>
        /\ signalledAt = "none"
        /\ children \subseteq told \cup {pythonChild}
        /\ ~leads /\ ~setup.replay => pythonChild = NoChild
        /\ stage \notin {"reading", "serving"} => ~pythonTimer /\ ~leads /\ pythonChild = NoChild

ClosingInv ==
    signalledAt = "serving" =>
        /\ stage = "serving" /\ closing # "no"
        /\ children \subseteq told
        /\ closing \in {"database", "exited"} =>
            /\ surreal \in {"none", "told"}
            /\ \A job \in {"status", "cleanup"} : upkeep[job] # "set"

LifecycleInv ==
    /\ upkeep \in [{"status", "cleanup"} -> {"none", "set", "running"}]
    /\ children \subseteq Child
    /\ ChildrenInv /\ ClosingInv

(* Steps that leave the children and how they are told alone.                *)
LEMMA NothingSpawned ==
    ASSUME LifecycleInv, UNCHANGED <<setup, stage, signalledAt, children, told, pythonChild, upkeep>>,
           ~pythonTimer => ~pythonTimer', leads' => leads,
           leads' = leads \/ closing' # "no",
           closing' = "no" => closing = "no", closing # "no" => closing' # "no",
           signalledAt = "serving" /\ closing' \in {"database", "exited"} =>
                closing \in {"database", "exited"} /\ (surreal' = surreal \/ surreal' = "none")
    PROVE  LifecycleInv'
<1>1. ChildrenInv'
  BY DEF LifecycleInv, ChildrenInv
<1>2. ClosingInv'
  BY DEF LifecycleInv, ClosingInv
<1> QED BY <1>1, <1>2 DEF LifecycleInv

LEMMA StartupKeeps ==
    ASSUME LifecycleInv, setup' = setup,
           \/ (SpawnSurrealDB \/ StageFails \/ Authenticates \/ Fills) /\ UNCHANGED upkeep
           \/ Prepares
    PROVE  LifecycleInv'
<1>1. CASE SpawnSurrealDB /\ UNCHANGED upkeep
  BY <1>1 DEF SpawnSurrealDB, Reaches, childVars, LifecycleInv, ChildrenInv, ClosingInv
<1>2. CASE StageFails /\ UNCHANGED upkeep
  BY <1>2 DEF StageFails, Dies, childVars, LifecycleInv, ChildrenInv, ClosingInv
<1>3. CASE Authenticates /\ UNCHANGED upkeep
  BY <1>3 DEF Authenticates, BeginsShutdown, ShuttingDown, Reaches, childVars, LifecycleInv, ChildrenInv, ClosingInv
<1>4. CASE Fills /\ UNCHANGED upkeep
  <2>1. /\ stage = "filling" /\ stage' = "reading" /\ UNCHANGED <<closing, signalledAt, told>>
        /\ \/ children' = children /\ pythonChild' = pythonChild
           \/ (setup.replay \/ leads') /\ \E p \in Child : children' = children \cup {p} /\ pythonChild' = p
    BY <1>4 DEF Fills, SpawnPython, Reaches
  <2>2. ChildrenInv'
    BY <2>1, LifecycleAssumption DEF LifecycleInv, ChildrenInv
  <2>3. ClosingInv'
    BY <2>1 DEF LifecycleInv, ClosingInv
  <2> QED BY <2>1, <1>4, <2>2, <2>3 DEF LifecycleInv
<1>5. CASE Prepares
  <2>1. /\ stage # "serving" /\ UNCHANGED <<closing, signalledAt, children, told, pythonChild, pythonTimer, leads>>
        /\ stage' \in {"reading", "serving"} <=> stage = "reading"
    BY <1>5 DEF Prepares, Reaches, childVars
  <2>2. upkeep' \in [{"status", "cleanup"} -> {"none", "set", "running"}]
    BY <1>5 DEF Prepares, LifecycleInv
  <2>3. ChildrenInv'
    BY <2>1, LifecycleAssumption DEF LifecycleInv, ChildrenInv
  <2>4. ClosingInv'
    BY <2>1 DEF LifecycleInv, ClosingInv
  <2> QED BY <1>5, <2>1, <2>2, <2>3, <2>4 DEF Prepares, childVars, LifecycleInv
<1> QED BY <1>1, <1>2, <1>3, <1>4, <1>5

LEMMA ChildrenKeep ==
    ASSUME LifecycleInv, setup' = setup, UNCHANGED upkeep,
           \/ PythonRestarts \/ Elected \/ Deposed \/ Signal
           \/ \E p \in Child : PythonEnds(p)
    PROVE  LifecycleInv'
<1>1. CASE PythonRestarts
  <2>1. CASE MayRestart
    <3>1. /\ pythonTimer /\ closing = "no" /\ pythonChild = NoChild /\ (setup.replay \/ leads)
          /\ UNCHANGED <<stage, closing, signalledAt, told, leads>>
          /\ \E p \in Child : children' = children \cup {p} /\ pythonChild' = p
      BY <1>1, <2>1 DEF PythonRestarts, MayRestart, Ingests, SpawnPython, ShuttingDown
    <3>2. ChildrenInv'
      BY <3>1, LifecycleAssumption DEF LifecycleInv, ChildrenInv
    <3>3. ClosingInv'
      BY <3>1 DEF LifecycleInv, ClosingInv
    <3> QED BY <3>1, <3>2, <3>3 DEF LifecycleInv
  <2>2. CASE ~MayRestart
    BY <1>1, <2>2, NothingSpawned DEF PythonRestarts, surrealVars
  <2> QED BY <2>1, <2>2
<1>2. CASE Elected
  <2>1. /\ closing = "no" /\ ~setup.replay /\ ~leads /\ stage \in {"reading", "serving"} /\ leads' = TRUE
        /\ UNCHANGED <<stage, closing, signalledAt, told, pythonTimer>>
        /\ \E p \in Child : children' = children \cup {p} /\ pythonChild' = p
    BY <1>2 DEF Elected, SpawnPython, ShuttingDown
  <2>2. ChildrenInv'
    BY <2>1, LifecycleAssumption DEF LifecycleInv, ChildrenInv
  <2>3. ClosingInv'
    BY <2>1 DEF LifecycleInv, ClosingInv
  <2> QED BY <2>1, <2>2, <2>3 DEF LifecycleInv
<1>3. CASE Deposed
  BY <1>3 DEF Deposed, surrealVars, LifecycleInv, ChildrenInv, ClosingInv
<1>4. CASE Signal
  BY <1>4 DEF Signal, BeginsShutdown, ShuttingDown, surrealVars, LifecycleInv, ChildrenInv, ClosingInv
<1>5. ASSUME NEW p \in Child, PythonEnds(p) PROVE LifecycleInv'
  <2>1. /\ children' = children \ {p} /\ told' = told \ {p}
        /\ UNCHANGED <<stage, closing, signalledAt, surreal, leads>>
        /\ \/ closing = "no" /\ pythonChild = p /\ pythonChild' = NoChild
           \/ (closing # "no" \/ pythonChild # p) /\ UNCHANGED <<pythonChild, pythonTimer>>
    BY <1>5 DEF PythonEnds, Alive, ShuttingDown, surrealVars
  <2>2. closing = "no" /\ pythonTimer' => pythonTimer \/ setup.replay \/ leads
    BY <1>5 DEF PythonEnds, Ingests
  <2>3. ChildrenInv'
    BY <2>1, <2>2, LifecycleAssumption DEF LifecycleInv, ChildrenInv
  <2>4. ClosingInv'
    BY <2>1 DEF LifecycleInv, ClosingInv
  <2> QED BY <2>1, <2>3, <2>4 DEF LifecycleInv
<1> QED BY <1>1, <1>2, <1>3, <1>4, <1>5

LEMMA ShutdownKeeps ==
    ASSUME LifecycleInv, setup' = setup,
           \/ (SurrealExits \/ SurrealRestarts) /\ UNCHANGED upkeep
           \/ (PythonStopped \/ ElectionStops \/ IndexesFail \/ ServerExits) /\ UNCHANGED upkeep
           \/ ConnectionsClose
    PROVE  LifecycleInv'
<1>1. CASE (SurrealExits \/ SurrealRestarts) /\ UNCHANGED upkeep
  BY <1>1, NothingSpawned DEF SurrealExits, SurrealRestarts, ShuttingDown, childVars, LifecycleInv, ClosingInv
<1>2. CASE (PythonStopped \/ ElectionStops \/ IndexesFail) /\ UNCHANGED upkeep
  BY <1>2 DEF PythonStopped, ElectionStops, IndexesFail, childVars, surrealVars, LifecycleInv, ChildrenInv, ClosingInv
<1>3. CASE ServerExits /\ UNCHANGED upkeep
  BY <1>3, NothingSpawned DEF ServerExits, childVars, surrealVars
<1>4. CASE ConnectionsClose
  <2>1. /\ upkeep' \in [{"status", "cleanup"} -> {"none", "set", "running"}]
        /\ \A job \in {"status", "cleanup"} : upkeep'[job] # "set"
    BY <1>4 DEF ConnectionsClose, LifecycleInv
  <2> QED BY <1>4, <2>1 DEF ConnectionsClose, childVars, LifecycleInv, ChildrenInv, ClosingInv
<1> QED BY <1>1, <1>2, <1>3, <1>4

LEMMA UpkeepKeeps ==
    ASSUME LifecycleInv, NEW job \in DOMAIN upkeep, Fires(job) \/ Finishes(job),
           UNCHANGED <<setup, stage, closing, signalledAt, surrealVars, childVars, drained, leads>>
    PROVE  LifecycleInv'
<1>1. DOMAIN upkeep = {"status", "cleanup"}
  BY DEF LifecycleInv
<1>2. upkeep' \in [{"status", "cleanup"} -> {"none", "set", "running"}]
  BY <1>1 DEF Fires, Finishes, LifecycleInv
<1>3. ASSUME closing # "no", NEW other \in {"status", "cleanup"}, upkeep'[other] = "set"
      PROVE  \E any \in {"status", "cleanup"} : upkeep[any] = "set"
  BY <1>1, <1>3 DEF Fires, Finishes, ShuttingDown, LifecycleInv
<1> QED BY <1>2, <1>3 DEF LifecycleInv, ChildrenInv, ClosingInv, surrealVars, childVars

(* A timer is set anew by a startup that gets ready or by work that ends     *)
(* before the shutdown.                                                      *)
LEMMA NoStepSetsAnew ==
    ASSUME LifecycleInv, LifecycleNext PROVE NoneSetAnew
<1> SUFFICES ASSUME signalledAt = "serving", NEW job \in {"status", "cleanup"}, upkeep'[job] = "set"
             PROVE  upkeep[job] = "set"
  BY DEF LifecycleInv, NoneSetAnew
<1>1. stage = "serving" /\ closing # "no"
  BY DEF LifecycleInv, ClosingInv
<1>2. CASE UNCHANGED upkeep
  BY <1>2
<1>3. CASE Prepares
  BY <1>1, <1>3 DEF Prepares
<1>4. CASE ConnectionsClose
  BY <1>4 DEF ConnectionsClose, LifecycleInv
<1>5. ASSUME NEW one \in DOMAIN upkeep, Fires(one) \/ Finishes(one) PROVE upkeep[job] = "set"
  BY <1>1, <1>5 DEF Fires, Finishes, ShuttingDown, LifecycleInv
<1> QED BY <1>2, <1>3, <1>4, <1>5 DEF LifecycleNext

(* However the shutdown of a server that was serving ends, it leaves no      *)
(* Python child behind that has not been told, and sets no timer anew.       *)
THEOREM NothingOutlivesTheServer == LifecycleSpec => NothingOutlives
<1>1. LifecycleInit => LifecycleInv
  BY DEF LifecycleInit, LifecycleInv, ChildrenInv, ClosingInv
<1>2. LifecycleInv /\ [LifecycleNext]_lifecycleVars => LifecycleInv'
  <2> SUFFICES ASSUME LifecycleInv, [LifecycleNext]_lifecycleVars PROVE LifecycleInv'
    OBVIOUS
  <2>1. CASE UNCHANGED lifecycleVars
    BY <2>1 DEF lifecycleVars, childVars, surrealVars, LifecycleInv, ChildrenInv, ClosingInv
  <2>2. CASE LifecycleNext
    BY <2>2, StartupKeeps, ChildrenKeep, ShutdownKeeps, UpkeepKeeps DEF LifecycleNext
  <2> QED BY <2>1, <2>2
<1>3. LifecycleInv => NobodyLeft
  BY DEF LifecycleInv, ClosingInv, NobodyLeft
<1>4. LifecycleInv /\ [LifecycleNext]_lifecycleVars => [NoneSetAnew]_lifecycleVars
  BY NoStepSetsAnew
<1> QED BY <1>1, <1>2, <1>3, <1>4, PTL DEF LifecycleSpec, NothingOutlives

-----------------------------------------------------------------------------
(* Whatever configuration a session cookie was sealed under, it tells who    *)
(* last proved himself in its browser, when, and the roles that he had then. *)
RolesUnder(c, cookie) ==
    IF c.mode = "basic" THEN c.roles[cookie.payload.user] ELSE cookie.payload.roles

ProofOf(cookie) ==
    [user |-> cookie.payload.user, roles |-> RolesUnder(cookie.revision, cookie),
     config |-> cookie.revision, at |-> cookie.exp - SessionSpan]

CookieInv(b) ==
    LET cookie == jar[b].session
    IN  cookie.purpose = "session" => cookie.exp \in Nat /\ proof[b] = ProofOf(cookie)

SessionsInv ==
    /\ clock \in Nat
    /\ DOMAIN jar = Browser /\ DOMAIN proof = Browser
    /\ \A b \in Browser : DOMAIN jar[b] = {"session", "transaction"}
    /\ redeeming # {} => config.mode = "oidc"
    /\ \A b \in Browser : CookieInv(b)

(* The principal of the request that was let in is that of its cookie.       *)
AcceptedInv ==
    accepted # Nobody =>
        LET cookie == jar[accepted.browser].session
        IN  /\ accepted.browser \in Browser
            /\ cookie.purpose = "session" /\ cookie.revision = config /\ clock < cookie.exp
            /\ accepted.account = cookie.payload.user
            /\ accepted.roles = RolesUnder(config, cookie)

LEMMA AcceptedIsProven == SessionsInv /\ AcceptedInv => PrincipalIsProven
<1> SUFFICES ASSUME SessionsInv, AcceptedInv, accepted # Nobody
             PROVE  LET p == proof[accepted.browser]
                    IN  /\ p # NoProof /\ p.user = accepted.account
                        /\ p.config = config /\ p.roles = accepted.roles
                        /\ clock < p.at + SessionSpan
  BY DEF PrincipalIsProven
<1> DEFINE b == accepted.browser
           cookie == jar[b].session
<1>1. /\ b \in Browser
      /\ cookie.purpose = "session" /\ cookie.revision = config /\ clock < cookie.exp
      /\ accepted.account = cookie.payload.user
      /\ accepted.roles = RolesUnder(config, cookie)
  BY DEF AcceptedInv
<1>2. cookie.exp \in Nat /\ proof[b] = ProofOf(cookie)
  BY <1>1 DEF SessionsInv, CookieInv
<1>3. /\ proof[b].user = cookie.payload.user /\ proof[b].roles = RolesUnder(cookie.revision, cookie)
      /\ proof[b].config = cookie.revision /\ proof[b].at = cookie.exp - SessionSpan
      /\ "at" \in DOMAIN proof[b]
  BY <1>2 DEF ProofOf
<1>4. "at" \notin DOMAIN NoProof
  BY DEF NoProof
<1>5. clock < proof[b].at + SessionSpan
  BY <1>1, <1>2, <1>3, SessionsAssumption DEF SessionsInv
<1> QED BY <1>1, <1>3, <1>4, <1>5

(* The cookie of a sign-in, and its proof.                                   *)
LEMMA Sealed ==
    ASSUME SessionsInv, NEW u, NEW roles, NEW held,
           roles = IF config.mode = "basic" THEN config.roles[u] ELSE held
    PROVE  LET cookie == Seal([user |-> u, roles |-> held], "session", SessionSpan)
           IN  /\ cookie.exp \in Nat
               /\ ProofOf(cookie) = [user |-> u, roles |-> roles, config |-> config, at |-> clock]
BY SessionsAssumption DEF ProofOf, RolesUnder, Seal, SessionsInv

(* Steps that hand out no session cookie: each session is left as it is, or  *)
(* forgotten.                                                                *)
LEMMA NoNewSession ==
    ASSUME SessionsInv,
           clock' \in Nat,
           redeeming' # {} => config'.mode = "oidc",
           DOMAIN jar' = Browser, DOMAIN proof' = Browser,
           \A b \in Browser : DOMAIN jar'[b] = {"session", "transaction"},
           \A b \in Browser : \/ jar'[b].session = jar[b].session /\ proof'[b] = proof[b]
                              \/ jar'[b].session = NoCookie
    PROVE  SessionsInv'
<1>1. ASSUME NEW b \in Browser PROVE CookieInv(b)'
  <2>1. CASE jar'[b].session = jar[b].session /\ proof'[b] = proof[b]
    BY <2>1 DEF SessionsInv, CookieInv
  <2>2. CASE jar'[b].session = NoCookie
    BY <2>2 DEF CookieInv, NoCookie
  <2> QED BY <2>1, <2>2
<1> QED BY <1>1 DEF SessionsInv

(* A sign-in.                                                                *)
LEMMA NewSession ==
    ASSUME SessionsInv, NEW x, NEW u, NEW roles, NEW held,
           roles = IF config.mode = "basic" THEN config.roles[u] ELSE held,
           redeeming' \subseteq redeeming, UNCHANGED <<config, clock>>,
           DOMAIN jar' = Browser,
           \A b \in Browser : DOMAIN jar'[b] = {"session", "transaction"},
           \A b \in Browser : b # x => jar'[b] = jar[b],
           x \in Browser => jar'[x].session = Seal([user |-> u, roles |-> held], "session", SessionSpan),
           Proves(x, u, roles)
    PROVE  SessionsInv'
<1> DEFINE cookie == Seal([user |-> u, roles |-> held], "session", SessionSpan)
<1>1. cookie.exp \in Nat /\ ProofOf(cookie) = [user |-> u, roles |-> roles, config |-> config, at |-> clock]
  BY Sealed
<1>2. /\ proof' = [proof EXCEPT ![x] = [user |-> u, roles |-> roles, config |-> config, at |-> clock]]
      /\ x \in Browser => jar'[x].session = cookie
  BY DEF Proves
<1> HIDE DEF cookie
<1>3. DOMAIN proof' = Browser
  BY <1>2 DEF SessionsInv
<1>4. ASSUME NEW b \in Browser PROVE CookieInv(b)'
  <2>1. CASE b = x
    <3>1. jar'[b].session = cookie /\ proof'[b] = ProofOf(cookie)
      BY <1>1, <1>2, <2>1 DEF SessionsInv
    <3> QED BY <1>1, <3>1 DEF CookieInv
  <2>2. CASE b # x
    <3>1. jar'[b] = jar[b] /\ proof'[b] = proof[b]
      BY <1>2, <2>2 DEF SessionsInv
    <3> QED BY <3>1 DEF SessionsInv, CookieInv
  <2> QED BY <2>1, <2>2
<1> QED BY <1>3, <1>4 DEF SessionsInv

LEMMA SessionsStep == SessionsInv /\ [SessionsNext]_sessionsVars => SessionsInv'
<1> SUFFICES ASSUME SessionsInv, [SessionsNext]_sessionsVars PROVE SessionsInv'
  OBVIOUS
<1>1. CASE UNCHANGED <<config, clock, jar, redeeming, proof>>
  BY <1>1 DEF SessionsInv, CookieInv
<1>2. ASSUME NEW b \in Browser, NEW u \in User, NEW password, Login(b, u, password) PROVE SessionsInv'
  <2>1. CASE ~PasswordMatches(u, password)
    BY <1>1, <1>2, <2>1 DEF Login
  <2>2. CASE PasswordMatches(u, password)
    <3>1. /\ config.mode = "basic" /\ UNCHANGED <<config, clock, redeeming>>
          /\ jar' = [jar EXCEPT ![b]["session"] = Seal([user |-> u, roles |-> {}], "session", SessionSpan)]
          /\ Proves(b, u, config.roles[u])
      BY <1>2, <2>2 DEF Login, SetCookie
    <3> DEFINE cookie == Seal([user |-> u, roles |-> {}], "session", SessionSpan)
    <3> HIDE DEF cookie
    <3>2. /\ DOMAIN jar' = Browser
          /\ \A c \in Browser : DOMAIN jar'[c] = {"session", "transaction"}
          /\ \A c \in Browser : c # b => jar'[c] = jar[c]
          /\ jar'[b].session = cookie
      <4>1. jar' = [jar EXCEPT ![b]["session"] = cookie]
        BY <3>1 DEF cookie
      <4> QED BY <4>1 DEF SessionsInv
    <3> QED BY <3>1, <3>2, NewSession DEF cookie
  <2> QED BY <2>1, <2>2
<1>3. ASSUME NEW b \in Browser, StartsSignIn(b) \/ CallbackFails(b) PROVE SessionsInv'
  <2>1. PICK cookie : jar' = [jar EXCEPT ![b]["transaction"] = cookie]
    BY <1>3 DEF StartsSignIn, CallbackFails, SetCookie
  <2>2. /\ UNCHANGED <<clock, proof, config>>
        /\ config.mode = "oidc"
    BY <1>3 DEF StartsSignIn, CallbackFails
  <2>3. /\ DOMAIN jar' = Browser
        /\ \A c \in Browser : DOMAIN jar'[c] = {"session", "transaction"} /\ jar'[c].session = jar[c].session
    BY <2>1 DEF SessionsInv
  <2> QED BY <2>2, <2>3, NoNewSession DEF SessionsInv
<1>4. ASSUME NEW b \in Browser, Logout(b) PROVE SessionsInv'
  <2>1. /\ UNCHANGED <<clock, config, redeeming>>
        /\ jar' = [jar EXCEPT ![b]["session"] = NoCookie]
        /\ proof' = [proof EXCEPT ![b] = NoProof]
    BY <1>4 DEF Logout, SetCookie
  <2>2. /\ DOMAIN jar' = Browser /\ DOMAIN proof' = Browser
        /\ \A c \in Browser : DOMAIN jar'[c] = {"session", "transaction"}
        /\ \A c \in Browser : \/ jar'[c].session = jar[c].session /\ proof'[c] = proof[c]
                              \/ jar'[c].session = NoCookie
    BY <2>1 DEF SessionsInv
  <2> QED BY <2>1, <2>2, NoNewSession DEF SessionsInv
<1>5. ASSUME NEW visit \in visits, NEW u \in User, NEW claim \in Claims, CallbackBegins(visit, u, claim)
      PROVE  SessionsInv'
  <2>1. UNCHANGED <<config, clock, jar, proof>> /\ config.mode = "oidc"
    BY <1>5 DEF CallbackBegins
  <2> QED BY <2>1, NoNewSession DEF SessionsInv
<1>6. ASSUME NEW r \in redeeming, CallbackEnds(r) PROVE SessionsInv'
  <2>1. config.mode = "oidc"
    BY <1>6 DEF SessionsInv
  <2> DEFINE cookie == Seal([user |-> r.user, roles |-> config.roles[r.claim]], "session", SessionSpan)
             x == r.browser
  <2> HIDE DEF cookie, x
  <2>2. jar' = [jar EXCEPT ![x] = [session |-> cookie, transaction |-> NoCookie]]
    BY <1>6 DEF CallbackEnds, cookie, x
  <2>3. /\ DOMAIN jar' = Browser
        /\ \A c \in Browser : DOMAIN jar'[c] = {"session", "transaction"}
        /\ \A c \in Browser : c # x => jar'[c] = jar[c]
        /\ x \in Browser => jar'[x].session = cookie
    BY <2>2 DEF SessionsInv
  <2> QED BY <1>6, <2>1, <2>3, NewSession DEF CallbackEnds, cookie, x
<1>7. ASSUME NEW c \in Configs, Reconfigure(c) PROVE SessionsInv'
  <2>1. UNCHANGED <<clock, jar, proof>> /\ redeeming' = {}
    BY <1>7 DEF Reconfigure
  <2> QED BY <2>1, NoNewSession DEF SessionsInv
<1>8. CASE Tick
  <2>1. /\ clock' \in Nat /\ UNCHANGED <<config, redeeming, proof>>
        /\ \/ jar' = [b \in Browser |-> [session |-> Kept(jar[b].session), transaction |-> Kept(jar[b].transaction)]]
           \/ jar' = jar
    BY <1>8 DEF Tick, SessionsInv
  <2>2. \A cookie : Kept(cookie) \in {cookie, NoCookie}
    BY DEF Kept
  <2>3. /\ DOMAIN jar' = Browser
        /\ \A b \in Browser : /\ DOMAIN jar'[b] = {"session", "transaction"}
                              /\ jar'[b].session \in {jar[b].session, NoCookie}
    BY <2>1, <2>2 DEF SessionsInv
  <2> QED BY <2>1, <2>3, NoNewSession DEF SessionsInv
<1>9. ASSUME NEW b \in Browser, BrowserRequest(b) PROVE SessionsInv'
  BY <1>1, <1>9 DEF BrowserRequest
<1> QED BY <1>1, <1>2, <1>3, <1>4, <1>5, <1>6, <1>7, <1>8, <1>9, SMTT(30)
       DEF SessionsNext, sessionsVars

LEMMA AcceptedStep ==
    ASSUME SessionsInv, AcceptedInv, [SessionsNext]_sessionsVars PROVE AcceptedInv'
<1>1. CASE UNCHANGED sessionsVars
  BY <1>1 DEF AcceptedInv, sessionsVars
<1>2. CASE accepted' = Nobody
  BY <1>2 DEF AcceptedInv
<1>3. ASSUME NEW b \in Browser, BrowserRequest(b), accepted' # Nobody PROVE AcceptedInv'
  <2> DEFINE cookie == jar[b].session
  <2>1. /\ Opens(cookie, "session")
        /\ accepted' = Principal(b, cookie.payload.user, RolesIn(cookie))
        /\ UNCHANGED <<config, clock, jar>>
    BY <1>3 DEF BrowserRequest
  <2>2. accepted'.browser = b /\ accepted'.account = cookie.payload.user /\ accepted'.roles = RolesIn(cookie)
    BY <2>1 DEF Principal
  <2>3. cookie.purpose = "session" /\ cookie.revision = config /\ clock < cookie.exp
    BY <2>1 DEF Opens, BoundTo
  <2>4. RolesIn(cookie) = RolesUnder(config, cookie)
    BY DEF RolesIn, RolesUnder
  <2> QED BY <2>1, <2>2, <2>3, <2>4 DEF AcceptedInv, RolesUnder
<1> QED BY <1>1, <1>2, <1>3 DEF SessionsNext

(* Nobody is let in but who proved himself in that browser, under this very  *)
(* configuration, no longer ago than a session lasts.                        *)
THEOREM PrincipalsAreProven == SessionsSpec => []PrincipalIsProven
<1>1. SessionsInit => SessionsInv /\ AcceptedInv
  BY DEF SessionsInit, SessionsInv, AcceptedInv, CookieInv, NoCookie
<1>2. SessionsInv /\ AcceptedInv /\ [SessionsNext]_sessionsVars => (SessionsInv /\ AcceptedInv)'
  BY SessionsStep, AcceptedStep
<1> QED BY <1>1, <1>2, AcceptedIsProven, PTL DEF SessionsSpec

-----------------------------------------------------------------------------
(* Bundles that were captured or brought in have a source section with       *)
(* every table; those captured by a server that replays have the records and *)
(* the time of the first one but for what an import cuts off, and so has     *)
(* everything that this server has read.                                     *)
HasSource(b) ==
    /\ DOMAIN b = {"format", "source", "counts", "replayed"}
    /\ DOMAIN b.source = {"createdAt", "config", "log", "data"}
    /\ b.source.data = [t \in Captured |-> b.source.data[t]]

ReplayInv ==
    /\ Replays <=> origin # NoBundle
    /\ ~Replays => ~fresh
    /\ Replays =>
        /\ HasSource(replaying) /\ HasSource(origin)
        /\ database = Revived(origin.source.data)
        /\ fresh => workflows \subseteq Ids(origin.source.data["task"])
        /\ replaying.source.createdAt = origin.source.createdAt
        /\ Secret \notin replaying.source.config
        /\ \A t \in Captured, what \in {"records", "count"} :
            <<t, what>> \in DOMAIN capture => capture[<<t, what>>] = database[t]

FirstCapture(b) ==
    /\ Revived(b.source.data) = Revived(origin.source.data)
    /\ b.source.createdAt = origin.source.createdAt
    /\ b.replayed # <<>> =>
        /\ b.source.data = Revived(origin.source.data)
        /\ b.source.log = <<>> /\ Secret \notin b.source.config
        /\ \A t \in Captured : b.counts[t] = Cardinality(b.source.data[t])

BundleInv ==
    bundle # NoBundle =>
        /\ HasSource(bundle)
        /\ Replays => FirstCapture(bundle)
        /\ ~Replays => bundle.replayed = <<>>

(* An import cuts off no more than the first did, and keeps the ids.         *)
LEMMA RevivedTwice ==
    ASSUME NEW data PROVE Revived(Revived(data)) = Revived(data)
<1> SUFFICES ASSUME NEW t \in Captured PROVE Revived(Revived(data))[t] = Revived(data)[t]
  BY DEF Revived
<1>1. \A record : ToMilliseconds(ToMilliseconds(record)) = ToMilliseconds(record)
  BY DEF ToMilliseconds
<1>2. Revived(data)[t] = {ToMilliseconds(record) : record \in data[t]}
  BY DEF Revived
<1>3. Revived(Revived(data))[t] = {ToMilliseconds(record) : record \in Revived(data)[t]}
  BY DEF Revived
<1>4. ASSUME NEW record \in Revived(data)[t] PROVE ToMilliseconds(record) = record
  BY <1>1, <1>2
<1> QED BY <1>3, <1>4

LEMMA RevivedIds ==
    ASSUME NEW data, NEW t \in Captured PROVE Ids(Revived(data)[t]) = Ids(data[t])
<1>1. Revived(data)[t] = {ToMilliseconds(record) : record \in data[t]}
  BY DEF Revived
<1>2. \A record : ToMilliseconds(record).id = record.id
  BY DEF ToMilliseconds
<1>3. ASSUME NEW id PROVE id \in Ids(Revived(data)[t]) <=> id \in Ids(data[t])
  BY <1>1, <1>2 DEF Ids
<1> QED BY <1>3, Zenon

LEMMA CaptureKeepsReplay ==
    ASSUME ReplayInv, BundleInv, NEW t \in Captured, NEW what \in {"records", "count"}, Reads(t, what)
    PROVE  ReplayInv' /\ BundleInv'
<1>1. /\ DOMAIN capture' = DOMAIN capture \cup {<<t, what>>}
      /\ \A q \in DOMAIN capture' : capture'[q] = IF q \in DOMAIN capture THEN capture[q] ELSE database[t]
      /\ UNCHANGED <<serverVars, log, bundle, replaying, moment, origin>>
  BY DEF Reads
<1>2. BundleInv'
  BY <1>1 DEF BundleInv, Replays, FirstCapture
<1>3. ReplayInv'
  BY <1>1 DEF ReplayInv, Replays, HasSource, serverVars
<1> QED BY <1>2, <1>3

LEMMA ArchiveKeepsReplay ==
    ASSUME ReplayInv, BundleInv, Archives PROVE ReplayInv' /\ BundleInv'
<1> DEFINE data == [t \in Captured |-> capture[<<t, "records">>]]
           counts == [t \in Captured |-> Cardinality(capture[<<t, "count">>])]
           replayed == IF Replays THEN <<moment>> ELSE <<>>
<1>1. /\ bundle' = [format |-> "v2", source |-> SourceOf(data), counts |-> counts, replayed |-> replayed]
      /\ DOMAIN capture = Captured \X {"records", "count"}
      /\ capture' = NoCapture /\ UNCHANGED <<database, workflows, fresh, replaying, origin>>
  BY DEF Archives, serverVars
<1>2. ReplayInv'
  <2>1. \A t \in Captured, what \in {"records", "count"} : <<t, what>> \notin DOMAIN capture'
    BY <1>1 DEF NoCapture
  <2> QED BY <1>1, <2>1 DEF ReplayInv, Replays, HasSource
<1>3. CASE Replays
  <2>1. database = [t \in Captured |-> database[t]]
    BY <1>3 DEF ReplayInv, Revived
  <2>2. data = database
    BY <1>1, <1>3, <2>1 DEF ReplayInv
  <2>3. \A t \in Captured : counts[t] = Cardinality(database[t])
    BY <1>1, <1>3 DEF ReplayInv
  <2> HIDE DEF data, counts
  <2>4. /\ DOMAIN SourceOf(data) = {"createdAt", "config", "log", "data"}
        /\ SourceOf(data).data = data /\ SourceOf(data).log = <<>>
        /\ SourceOf(data).createdAt = origin.source.createdAt
        /\ Secret \notin SourceOf(data).config
    BY <1>3 DEF SourceOf, ReplayInv, HasSource, Redacted
  <2>5. database = Revived(origin.source.data) /\ Revived(database) = database
    BY <1>3, RevivedTwice DEF ReplayInv
  <2>6. bundle'.source.data = database /\ UNCHANGED origin
    BY <1>1, <2>2, <2>4
  <2>7. /\ HasSource(bundle)'
        /\ FirstCapture(bundle)'
    BY <1>1, <1>3, <2>1, <2>2, <2>3, <2>4, <2>5, <2>6 DEF HasSource, FirstCapture, ReplayInv
  <2> QED BY <1>1, <1>2, <1>3, <2>7 DEF BundleInv, Replays
<1>4. CASE ~Replays
  <2>1. /\ DOMAIN SourceOf(data) = {"createdAt", "config", "log", "data"}
        /\ SourceOf(data).data = data
    BY <1>4 DEF SourceOf
  <2>2. HasSource(bundle)' /\ bundle'.replayed = <<>>
    BY <1>1, <1>4, <2>1 DEF HasSource
  <2> QED BY <1>1, <1>2, <1>4, <2>2 DEF BundleInv, Replays
<1> QED BY <1>3, <1>4

LEMMA ReplayKeepsReplay ==
    ASSUME ReplayInv, BundleInv, NEW inMemory \in BOOLEAN, Replay(inMemory) PROVE ReplayInv' /\ BundleInv'
<1>1. /\ bundle.format = "v2" /\ bundle # NoBundle
      /\ replaying' = [bundle EXCEPT !.source.config = Redacted(@)]
      /\ database' = Revived(bundle.source.data)
      /\ workflows' = IF inMemory THEN {} ELSE workflows \cup Ids(database["task"])
      /\ fresh' = (inMemory \/ fresh)
      /\ origin' = IF origin = NoBundle THEN bundle ELSE origin
      /\ capture' = NoCapture /\ bundle' = bundle
  BY DEF Replay, Imports, Imported, NoBundle
<1>2. /\ HasSource(replaying)' /\ replaying' # NoBundle
      /\ replaying'.source.createdAt = bundle.source.createdAt
      /\ Secret \notin replaying'.source.config
  <2>1. HasSource(bundle)
    BY <1>1 DEF BundleInv
  <2> QED BY <1>1, <2>1 DEF HasSource, Redacted, NoBundle
<1>3. \A t \in Captured, what \in {"records", "count"} : <<t, what>> \notin DOMAIN capture'
  BY <1>1 DEF NoCapture
<1>4. /\ HasSource(origin)' /\ origin' # NoBundle /\ FirstCapture(bundle)'
  <2>1. CASE origin = NoBundle
    BY <1>1, <2>1 DEF BundleInv, ReplayInv, HasSource, FirstCapture
  <2>2. CASE origin # NoBundle
    BY <1>1, <2>2 DEF BundleInv, ReplayInv, HasSource, FirstCapture
  <2> QED BY <2>1, <2>2
<1>5. fresh' => workflows' \subseteq Ids(origin'.source.data["task"])
  <2>1. CASE inMemory
    BY <1>1, <2>1
  <2>2. CASE ~inMemory
    <3> SUFFICES ASSUME fresh PROVE workflows' \subseteq Ids(origin'.source.data["task"])
      BY <1>1, <2>2
    <3>1. Replays /\ origin # NoBundle
      BY DEF ReplayInv
    <3>2. database = Revived(origin.source.data) /\ workflows \subseteq Ids(origin.source.data["task"])
      BY <3>1 DEF ReplayInv
    <3>3. Ids(database["task"]) = Ids(origin.source.data["task"])
      BY <3>2, RevivedIds DEF Captured
    <3> QED BY <1>1, <2>2, <3>1, <3>2, <3>3
  <2> QED BY <2>1, <2>2
<1>6. database' = Revived(origin'.source.data)
  BY <1>1, <1>4 DEF FirstCapture
<1>7. ReplayInv'
  BY <1>1, <1>2, <1>3, <1>4, <1>5, <1>6 DEF ReplayInv, Replays, FirstCapture
<1>8. BundleInv'
  BY <1>1, <1>2, <1>4 DEF BundleInv, Replays, HasSource
<1> QED BY <1>7, <1>8

(* However often a replay is captured and replayed again, its tasks, events  *)
(* and workers are those of the first capture, to the millisecond, and no    *)
(* others; one that began in an empty database shows no workflow of other    *)
(* tasks; and its bundles hold no secret.                                    *)
THEOREM SnapshotsSurvive == BundlesSpec => []SnapshotSurvives
<1>1. BundlesInit => ReplayInv /\ BundleInv
  BY DEF BundlesInit, ReplayInv, BundleInv, Replays
<1>2. ReplayInv /\ BundleInv /\ [BundlesNext]_bundlesVars => (ReplayInv /\ BundleInv)'
  <2> SUFFICES ASSUME ReplayInv, BundleInv, [BundlesNext]_bundlesVars PROVE ReplayInv' /\ BundleInv'
    OBVIOUS
  <2>1. CASE UNCHANGED bundlesVars
    BY <2>1 DEF bundlesVars, serverVars, ReplayInv, BundleInv, Replays, HasSource, FirstCapture
  <2>2. ASSUME NEW t \in Captured, NEW id \in Id, Observes(t, id) PROVE ReplayInv' /\ BundleInv'
    BY <2>2 DEF Observes, ReplayInv, BundleInv, Replays, HasSource
  <2>3. CASE Downloads
    BY <2>3 DEF Downloads, Idle, serverVars, ReplayInv, BundleInv, Replays, HasSource, FirstCapture
  <2>4. ASSUME ~Replays, NEW ids \in SUBSET Id, NEW complete \in BOOLEAN,
               BroughtIn([t \in Captured |-> {Stamped(id) : id \in ids}], complete)
        PROVE  ReplayInv' /\ BundleInv'
    BY <2>4 DEF BroughtIn, serverVars, ReplayInv, BundleInv, Replays, HasSource
  <2> QED BY <2>1, <2>2, <2>3, <2>4, CaptureKeepsReplay, ArchiveKeepsReplay, 
           ReplayKeepsReplay DEF BundlesNext
<1>3. ReplayInv /\ BundleInv => SnapshotSurvives
  BY DEF ReplayInv, BundleInv, FirstCapture, SnapshotSurvives
<1> QED BY <1>1, <1>2, <1>3, PTL DEF BundlesSpec

-----------------------------------------------------------------------------
(* A setting that is given has one of the values that were written down.     *)
LEMMA GivenValue ==
    ASSUME given \in Inputs \cup {{}}, NEW s, Given(s) PROVE Value(s) \in 1 .. 2
<1>1. Decisive(s) # {} /\ Decisive(s) \subseteq given
  BY DEF Given, GivenIn, Decisive, InEnvironment, InLegacy, InFile, FiveWays
<1>2. (CHOOSE g \in Decisive(s) : TRUE) \in given
  BY <1>1
<1>3. \A g \in given : g.value \in 1 .. 2
  BY ConfigurationAssumption
<1> QED BY <1>2, <1>3 DEF Value, StrongestValue

(* What a replica that runs was started with, but for the secrets that only  *)
(* it knows.                                                                 *)
AsConfigured(c) ==
    /\ ~LeaseRefused /\ ~CredentialsRefused
    /\ c.external = UsesExternal /\ c.replays = Given("replay") /\ c.ingests = ~Given("replay")
    /\ c.heartbeat = Seconds("heartbeat", 10) /\ c.ttl = Seconds("ttl", 30)
    /\ Given("root") => c.root = Value("root")
    /\ Given("ingester") => c.ingester = Value("ingester")
    /\ (Given("cursor") \/ Given("ingester")) =>
        c.cursor = (IF Given("cursor") THEN Value("cursor") ELSE Value("ingester"))
    /\ c.session = Value("session") /\ c.authenticates = WantsAuthentication

ConfigurationInv ==
    /\ given \in Inputs \cup {{}}
    /\ starts \in Nat
    /\ DOMAIN running = Replica
    /\ \A r \in Replica : Runs(r) => starts > 0 /\ AsConfigured(running[r])

(* All of that depends on the input alone.                                   *)
LEMMA SameInput ==
    ASSUME given' = given, NEW c, AsConfigured(c) PROVE AsConfigured(c)'
<1>1. \A s, sources : GivenIn(s, sources)' = GivenIn(s, sources)
  BY DEF GivenIn
<1>2. \A s : Given(s)' = Given(s) /\ Decisive(s)' = Decisive(s)
  BY <1>1 DEF Given, Decisive, InEnvironment, InLegacy, InFile
<1>3. \A s : Value(s)' = Value(s)
  BY <1>2 DEF Value
<1>4. Canonical' = Canonical
  BY DEF Canonical
<1>5. UsesExternal' = UsesExternal
  BY <1>2, <1>3, <1>4 DEF UsesExternal, External
<1>6. \A s : Seconds(s, 10)' = Seconds(s, 10) /\ Seconds(s, 30)' = Seconds(s, 30)
  BY <1>2, <1>3 DEF Seconds
<1>7. (LeaseRefused <=> LeaseRefused') /\ (CredentialsRefused <=> CredentialsRefused')
  BY <1>2, <1>3, <1>5, <1>6 DEF LeaseRefused, CredentialsRefused
<1>8. WantsAuthentication' = WantsAuthentication
  BY <1>2 DEF WantsAuthentication
<1> QED BY <1>2, <1>3, <1>5, <1>6, <1>7, <1>8 DEF AsConfigured

LEMMA StartKeepsConfiguration ==
    ASSUME ConfigurationInv, NEW x \in Replica, Starts(x) PROVE ConfigurationInv'
<1>1. /\ starts' \in Nat /\ starts' > 0 /\ given' = given /\ DOMAIN running' = Replica
      /\ \A r \in Replica : r # x => running'[r] = running[r]
      /\ running'[x] = IF Refusals = {} THEN Resolved ELSE Refusal(CHOOSE why \in Refusals : TRUE)
  BY DEF Starts, ConfigurationInv
<1>2. ASSUME NEW r \in Replica, Runs(r)' PROVE AsConfigured(running'[r])
  <2>1. CASE r # x
    BY <1>1, <1>2, <2>1 DEF ConfigurationInv, Runs
  <2>2. CASE r = x
    <3>1. Refusals = {} /\ running'[r] = Resolved
      BY <1>1, <1>2, <2>2 DEF Runs, Refusal
    <3>2. ~LeaseRefused /\ ~CredentialsRefused
      BY <3>1 DEF Refusals
    <3> QED BY <3>1, <3>2 DEF AsConfigured, Resolved, OrRandom
  <2> QED BY <2>1, <2>2
<1>3. ASSUME NEW r \in Replica, Runs(r)' PROVE AsConfigured(running[r])'
  <2> DEFINE c == running'[r]
  <2>1. AsConfigured(c)
    BY <1>2, <1>3
  <2> QED BY <1>1, <2>1, SameInput DEF AsConfigured
<1> QED BY <1>1, <1>3 DEF ConfigurationInv

(* Replicas that run and share a database agree, whatever combination of     *)
(* files, variables and old names the operator used.                         *)
THEOREM ReplicasAgreeAlways == ConfigurationSpec => []ReplicasAgree
<1>1. ConfigurationInit => ConfigurationInv
  <2>1. "refused" \in DOMAIN Stopped
    BY DEF Stopped, Refusal
  <2> QED BY <2>1 DEF ConfigurationInit, ConfigurationInv, Runs
<1>2. ConfigurationInv /\ [ConfigurationNext]_configurationVars => ConfigurationInv'
  <2> SUFFICES ASSUME ConfigurationInv, [ConfigurationNext]_configurationVars PROVE ConfigurationInv'
    OBVIOUS
  <2>1. CASE UNCHANGED configurationVars
    <3>1. UNCHANGED <<given, running, starts>>
      BY <2>1 DEF configurationVars
    <3>2. \A r \in Replica : Runs(r) => AsConfigured(running'[r])
      BY <3>1 DEF ConfigurationInv
    <3>3. \A r \in Replica : Runs(r) => AsConfigured(running[r])'
      BY <3>1, <3>2, SameInput DEF AsConfigured
    <3> QED BY <3>1, <3>3 DEF ConfigurationInv, Runs
  <2>2. ASSUME starts = 0, NEW input \in Inputs, Deploys(input) PROVE ConfigurationInv'
    <3>1. \A r \in Replica : ~Runs(r)'
      BY <2>2 DEF Deploys, ConfigurationInv, Runs
    <3> QED BY <2>2, <3>1 DEF Deploys, ConfigurationInv
  <2> QED BY <2>1, <2>2, StartKeepsConfiguration DEF ConfigurationNext
<1>3. ConfigurationInv => ReplicasAgree
  <2> SUFFICES ASSUME ConfigurationInv, NEW r \in Replica, Runs(r)
               PROVE  /\ running[r].ingests => running[r].heartbeat < running[r].ttl
                      /\ running[r].replays => ~running[r].external /\ ~running[r].ingests
                      /\ running[r].external => running[r].root > 0
                      /\ \A q \in Replica : Runs(q) /\ running[r].external =>
                          /\ running[r].root = running[q].root /\ running[r].ingester = running[q].ingester
                          /\ running[r].cursor = running[q].cursor /\ running[r].session = running[q].session
                          /\ running[r].authenticates = running[q].authenticates
    BY DEF ReplicasAgree
  <2>1. AsConfigured(running[r]) /\ given \in Inputs \cup {{}}
    BY DEF ConfigurationInv
  <2>2. ~LeaseRefused /\ ~CredentialsRefused
    BY <2>1 DEF AsConfigured
  <2>3. \A s : Given(s) => Value(s) \in 1 .. 2
    BY <2>1, GivenValue
  <2>4. running[r].heartbeat < running[r].ttl
    BY <2>1, <2>2, <2>3 DEF AsConfigured, LeaseRefused, Seconds
  <2>5. running[r].replays => ~running[r].external /\ ~running[r].ingests
    BY <2>1 DEF AsConfigured, UsesExternal
  <2>6. running[r].external => Given("root") /\ Given("ingester")
    BY <2>1, <2>2 DEF AsConfigured, CredentialsRefused
  <2>7. running[r].external => running[r].root > 0
    BY <2>1, <2>3, <2>6 DEF AsConfigured
  <2>8. ASSUME NEW q \in Replica, Runs(q), running[r].external
        PROVE  /\ running[r].root = running[q].root /\ running[r].ingester = running[q].ingester
               /\ running[r].cursor = running[q].cursor /\ running[r].session = running[q].session
               /\ running[r].authenticates = running[q].authenticates
    <3>1. AsConfigured(running[q])
      BY <2>8 DEF ConfigurationInv
    <3> QED BY <2>1, <2>6, <2>8, <3>1 DEF AsConfigured
  <2> QED BY <2>4, <2>5, <2>7, <2>8
<1> QED BY <1>1, <1>2, <1>3, PTL DEF ConfigurationSpec

-----------------------------------------------------------------------------
(* Of an instance that has a row in search_instance, live or lapsed.         *)
RowsHaveMode ==
    /\ lease \in [Instance -> {"none", "held", "expired"}] /\ DOMAIN instance = Instance
    /\ \A i \in Instance : "enabled" \in DOMAIN instance[i] /\ "at" \in DOMAIN instance[i]
    /\ \A i \in Instance : lease[i] # "none" => instance[i].enabled = indexConfig.enabled
    /\ "enabled" \in DOMAIN indexConfig

(* As long as a lease is held, its instance and the database have the same   *)
(* mode.                                                                     *)
THEOREM TheModeIsLeased == SearchSpec => []ModeIsLeased
<1>1. SearchInit => RowsHaveMode
  BY DEF SearchInit, RowsHaveMode, Off
<1>2. RowsHaveMode /\ [SearchNext]_searchVars => RowsHaveMode'
  <2> SUFFICES ASSUME RowsHaveMode, [SearchNext]_searchVars PROVE RowsHaveMode'
    OBVIOUS
  <2>1. ASSUME NEW i \in Instance, NEW enabled \in BOOLEAN, StartIndexes(i, enabled) PROVE RowsHaveMode'
    <3>1. /\ lease' = [j \in Instance |-> IF j = i THEN "held" ELSE IF lease[j] = "expired" THEN "none" ELSE lease[j]]
          /\ indexConfig'.enabled = enabled /\ "enabled" \in DOMAIN indexConfig'
          /\ instance' = [instance EXCEPT ![i] = [Off EXCEPT !.at = "started", !.enabled = enabled]]
          /\ \A j \in Instance \ {i} : lease[j] = "held" => instance[j].enabled = enabled
      BY <2>1 DEF StartIndexes, Conflicts
    <3> DEFINE started == [Off EXCEPT !.at = "started", !.enabled = enabled]
    <3>2. started.enabled = enabled /\ "enabled" \in DOMAIN started /\ "at" \in DOMAIN started
      BY DEF Off
    <3>3. instance' = [instance EXCEPT ![i] = started]
      BY <3>1
    <3> HIDE DEF started
    <3> QED BY <3>1, <3>2, <3>3 DEF RowsHaveMode
  <2>2. ASSUME NEW i \in Instance,
               \/ Prepare(i) \/ RemoveProjections(i) \/ ReadPage(i) \/ ProjectPage(i)
               \/ CrashIndexes(i)
        PROVE  RowsHaveMode'
    <3>1. /\ lease' = lease /\ DOMAIN indexConfig' = DOMAIN indexConfig
          /\ indexConfig'.enabled = indexConfig.enabled
      BY <2>2 DEF Prepare, RemoveProjections, ReadPage, ProjectPage, CrashIndexes, RowsHaveMode
    <3>2. /\ DOMAIN instance' = DOMAIN instance
          /\ \A j \in Instance : DOMAIN instance'[j] = DOMAIN instance[j]
          /\ \A j \in Instance : instance'[j].enabled = instance[j].enabled
      <4>1. CASE Prepare(i) \/ RemoveProjections(i) \/ ProjectPage(i)
        BY <4>1 DEF Prepare, RemoveProjections, ProjectPage, At, RowsHaveMode
      <4>2. CASE ReadPage(i)
        <5>1. PICK page : \/ instance' = [instance EXCEPT ![i].at = "running"]
                          \/ instance' = [instance EXCEPT ![i] =
                                 [instance[i] EXCEPT !.at = "projecting", !.page = page]]
          BY <4>2, ZenonT(30) DEF ReadPage, At
        <5>2. CASE instance' = [instance EXCEPT ![i].at = "running"]
          BY <5>2 DEF RowsHaveMode
        <5> DEFINE reading == [instance[i] EXCEPT !.at = "projecting", !.page = page]
        <5>3. DOMAIN reading = DOMAIN instance[i] /\ reading.enabled = instance[i].enabled
          BY DEF RowsHaveMode
        <5>4. CASE instance' = [instance EXCEPT ![i] = reading]
          <6> HIDE DEF reading
          <6> QED BY <5>3, <5>4 DEF RowsHaveMode
        <5> QED BY <5>1, <5>2, <5>4
      <4>3. CASE CrashIndexes(i)
        BY <4>3 DEF CrashIndexes, RowsHaveMode
      <4> QED BY <2>2, <4>1, <4>2, <4>3
    <3> QED BY <3>1, <3>2 DEF RowsHaveMode
  <2>3. ASSUME NEW i \in Instance, LabelRow(i) PROVE RowsHaveMode'
    BY <2>3 DEF LabelRow, RowsHaveMode
  <2>4. ASSUME NEW i \in Instance, LeaseExpires(i) \/ RenewLease(i) PROVE RowsHaveMode'
    BY <2>4 DEF LeaseExpires, RenewLease, RowsHaveMode
  <2>8. ASSUME NEW i \in Instance, StopIndexes(i) PROVE RowsHaveMode'
    <3>1. /\ instance' = [instance EXCEPT ![i] = Off] /\ lease' = [lease EXCEPT ![i] = "none"]
          /\ indexConfig' = indexConfig
      BY <2>8 DEF StopIndexes
    <3>2. "enabled" \in DOMAIN Off /\ "at" \in DOMAIN Off
      BY DEF Off
    <3> QED BY <3>1, <3>2 DEF RowsHaveMode
  <2>5. ASSUME UNCHANGED <<indexConfig, lease, instance>> PROVE RowsHaveMode'
    BY <2>5 DEF RowsHaveMode
  <2>6. ASSUME NEW i \in Instance, NEW t \in IndexedTask, RemoveTask(i, t) PROVE RowsHaveMode'
    BY <2>5, <2>6 DEF RemoveTask
  <2>7. ASSUME NEW i \in Instance, NEW t \in IndexedTask, NEW new \in Text[t], IngestText(i, t, new)
        PROVE  RowsHaveMode'
    BY <2>5, <2>7 DEF IngestText
  <2> QED BY <2>1, <2>2, <2>3, <2>4, <2>5, <2>6, <2>7, <2>8 DEF SearchNext, searchVars
<1>3. RowsHaveMode => ModeIsLeased
  BY DEF RowsHaveMode, ModeIsLeased
<1> QED BY <1>1, <1>2, <1>3, PTL DEF SearchSpec

(* A set of numbers that is not empty has a least one.                       *)
LEMMA LeastOf == ASSUME NEW S \in SUBSET Nat, S # {} PROVE \E m \in S : \A n \in S : m <= n
<1> DEFINE Below == {0 .. n : n \in S}
<1>1. \A n \in Nat : 0 .. n \in FiniteSubsetsOf(Nat)
  BY FS_Interval DEF FiniteSubsetsOf
<1>2. Below \subseteq FiniteSubsetsOf(Nat) /\ Below # {}
  BY <1>1
<1>3. PICK least \in Below : \A other \in Below : ~ (<<other, least>> \in StrictSubsetOrdering(Nat))
  <2> HIDE DEF Below
  <2> QED BY <1>2, FS_StrictSubsetOrderingWellFounded, WFMin
<1>4. PICK m \in S : least = 0 .. m
  BY <1>3
<1>5. ASSUME NEW n \in S, n < m PROVE FALSE
  <2>1. 0 .. n \in Below
    OBVIOUS
  <2>2. 0 .. n \subseteq 0 .. m /\ 0 .. n # 0 .. m /\ 0 .. n \in SUBSET Nat /\ 0 .. m \in SUBSET Nat
    BY <1>5
  <2> QED BY <1>3, <1>4, <2>1, <2>2 DEF StrictSubsetOrdering
<1> QED BY <1>5

-----------------------------------------------------------------------------
(* A projection shows the text that its task has, and a task that has none   *)
(* is bare.                                                                  *)
Bare(t) == text[t] # NoText /\ projection[t] = NoProjection

Shown(t) ==
    projection[t] # NoProjection =>
        text[t] # NoText /\ \E terms \in {text[t], Fallback} : projection[t] = [grams |-> text[t], terms |-> terms]

(* What a backfill has left bare is still before it.                         *)
Covered(i) ==
    \A t \in IndexedTask : Bare(t) =>
        /\ instance[i].at = "building" => t > instance[i].after
        /\ instance[i].at = "projecting" =>
            \/ \E row \in instance[i].page : t = row.task
            \/ \A row \in instance[i].page : t > row.task
        /\ instance[i].at = "labelling" => \A row \in instance[i].page : t > row.task

(* Without a clash all live instances have the mode of the database, and     *)
(* those that have prepared it see the triggers of their mode.               *)
JobInv(i) ==
    /\ Live(i) => instance[i].enabled = indexConfig.enabled
    /\ instance[i].at \notin {"off", "started"} => triggers = instance[i].enabled
    /\ instance[i].at = "started" => instance[i].after = 0
    /\ instance[i].at = "removing" => ~instance[i].enabled
    /\ instance[i].at \in {"building", "projecting", "labelling"} => instance[i].enabled
    /\ instance[i].at = "running" /\ ~instance[i].enabled => \A t \in IndexedTask : projection[t] = NoProjection
    /\ Covered(i)

ReadyInv == indexConfig.ready => indexConfig.enabled /\ \A t \in IndexedTask : ~Bare(t)

Stage == {"off", "started", "building", "projecting", "labelling", "removing", "running"}
Row == [at : Stage, enabled : BOOLEAN, after : Nat, page : PagesRead]

SearchShape ==
    /\ text \in [IndexedTask -> AnyText \cup {NoText}] /\ DOMAIN projection = IndexedTask
    /\ triggers \in BOOLEAN /\ clashed \in BOOLEAN
    /\ indexConfig \in [enabled : BOOLEAN, ready : BOOLEAN]
    /\ instance \in [Instance -> Row]
    /\ \A i \in Instance : instance[i].at \in {"projecting", "labelling"} => instance[i].page # {}

SearchInv ==
    /\ SearchShape
    /\ ~clashed => (\A t \in IndexedTask : Shown(t)) /\ ReadyInv /\ \A i \in Instance : JobInv(i)

LEMMA SearchFinds1 == SearchInv => SearchMissesNothing
<1> SUFFICES ASSUME SearchInv, ~clashed, NEW t \in IndexedTask
             PROVE  IF text[t] # NoText THEN t \in Candidates(text[t])
                    ELSE indexConfig.ready => projection[t] = NoProjection
  BY DEF SearchMissesNothing
<1>1. Shown(t) /\ ReadyInv
  BY DEF SearchInv
<1>2. CASE text[t] # NoText /\ indexConfig.ready
  <2>1. PICK terms \in {text[t], Fallback} : projection[t] = [grams |-> text[t], terms |-> terms]
    BY <1>1, <1>2 DEF Shown, ReadyInv, Bare
  <2> QED BY <1>2, <2>1 DEF Candidates
<1>3. CASE text[t] # NoText /\ ~indexConfig.ready
  BY <1>3 DEF Candidates
<1>4. CASE text[t] = NoText
  BY <1>1, <1>4 DEF Shown
<1> QED BY <1>2, <1>3, <1>4

LEMMA TaskIsNatural == IndexedTask \in SUBSET (Nat \ {0}) /\ IsFiniteSet(IndexedTask)
BY SearchAssumption, FS_CardinalityType DEF IndexedTask

(* The texts and projections change, and the instances do their work: none   *)
(* becomes bare.                                                             *)
LEMMA SearchKeeps ==
    ASSUME SearchInv, ~clashed, SearchShape',
           UNCHANGED triggers, indexConfig'.enabled = indexConfig.enabled,
           indexConfig'.ready => indexConfig.ready \/ (indexConfig.enabled /\ \A t \in IndexedTask : ~Bare(t)),
           \A t \in IndexedTask : Shown(t)',
           \A t \in IndexedTask : indexConfig.enabled /\ Bare(t)' => Bare(t),
           ~indexConfig.enabled =>
               \A t \in IndexedTask : projection[t] = NoProjection => projection'[t] = NoProjection,
           \A i \in Instance : instance'[i] = instance[i] \/ JobInv(i)'
    PROVE  SearchInv'
<1>1. ReadyInv'
  BY DEF SearchInv, ReadyInv
<1>2. ASSUME NEW i \in Instance, instance'[i] = instance[i] PROVE JobInv(i)'
  <2>1. JobInv(i)
    BY DEF SearchInv
  <2>2. Covered(i)'
    <3>1. CASE indexConfig.enabled
      BY <1>2, <2>1, <3>1 DEF JobInv, Covered
    <3>2. CASE ~indexConfig.enabled
      BY <1>2, <2>1, <3>2 DEF JobInv, Covered, Live
    <3> QED BY <3>1, <3>2
  <2> QED BY <1>2, <2>1, <2>2 DEF JobInv, Live
<1> QED BY <1>1, <1>2 DEF SearchInv

LEMMA Placed ==
    ASSUME NEW rows \in [Instance -> Row], NEW x \in Instance, NEW place \in Stage
    PROVE  [rows EXCEPT ![x].at = place] \in [Instance -> Row]
<1>1. [rows[x] EXCEPT !.at = place] \in Row
  BY DEF Row
<1> QED BY <1>1

LEMMA StartKeepsSearch ==
    ASSUME SearchInv, NEW x \in Instance, NEW enabled \in BOOLEAN, StartIndexes(x, enabled) PROVE SearchInv'
<1> DEFINE started == [Off EXCEPT !.at = "started", !.enabled = enabled]
<1>1. /\ instance' = [instance EXCEPT ![x] = started]
      /\ indexConfig' = [enabled |-> enabled, ready |-> indexConfig.ready /\ indexConfig.enabled = enabled]
      /\ clashed' = (clashed \/ \E j \in Instance : Live(j) /\ instance[j].enabled # enabled)
      /\ UNCHANGED <<text, projection, triggers>>
  BY DEF StartIndexes, tables
<1>2. /\ started \in Row
      /\ started.at = "started" /\ started.enabled = enabled /\ started.after = 0
  <2>1. {} \in PagesRead
    BY DEF PagesRead
  <2>2. "off" \in Stage /\ "started" \in Stage
    BY DEF Stage
  <2>3. Off \in Row
    BY <2>1, <2>2 DEF Off, Row
  <2>4. Off.after = 0
    BY DEF Off
  <2> QED BY <2>2, <2>3, <2>4 DEF Row
<1> HIDE DEF started
<1>3. SearchShape'
  <2>1. indexConfig' \in [enabled : BOOLEAN, ready : BOOLEAN] /\ clashed' \in BOOLEAN
    BY <1>1 DEF SearchInv, SearchShape
  <2> QED BY <1>1, <1>2, <2>1 DEF SearchInv, SearchShape
<1>4. ASSUME ~clashed' PROVE (\A t \in IndexedTask : Shown(t)') /\ ReadyInv' /\ \A i \in Instance : JobInv(i)'
  <2>1. ~clashed /\ \A j \in Instance : Live(j) => instance[j].enabled = enabled
    BY <1>1, <1>4 DEF SearchInv, SearchShape
  <2>2. \A t \in IndexedTask : Shown(t)' /\ (Bare(t)' <=> Bare(t))
    BY <1>1, <2>1 DEF SearchInv, Shown, Bare
  <2>3. ReadyInv'
    BY <1>1, <2>1, <2>2 DEF SearchInv, ReadyInv
  <2>4. ASSUME NEW i \in Instance PROVE JobInv(i)'
    <3>1. CASE i = x
      <4>1. instance'[i].at = "started" /\ instance'[i].enabled = enabled /\ instance'[i].after = 0
        BY <1>1, <1>2, <3>1 DEF SearchInv, SearchShape
      <4> QED BY <1>1, <4>1 DEF JobInv, Covered, Live
    <3>2. CASE i # x
      <4>1. instance'[i] = instance[i] /\ JobInv(i)
        BY <1>1, <2>1, <3>2 DEF SearchInv, SearchShape
      <4>2. Covered(i)'
        BY <2>2, <4>1 DEF JobInv, Covered
      <4> QED BY <1>1, <2>1, <4>1, <4>2 DEF JobInv, Live
    <3> QED BY <3>1, <3>2
  <2> QED BY <2>2, <2>3, <2>4
<1> QED BY <1>3, <1>4 DEF SearchInv

LEMMA PrepareKeepsSearch ==
    ASSUME SearchInv, NEW x \in Instance, Prepare(x) PROVE SearchInv'
<1>1. /\ instance[x].at = "started"
      /\ indexConfig' = [indexConfig EXCEPT !.ready = FALSE]
      /\ triggers' = instance[x].enabled
      /\ instance' = [instance EXCEPT ![x].at = IF instance[x].enabled THEN "building" ELSE "removing"]
      /\ UNCHANGED <<text, projection, clashed>>
  BY DEF Prepare, At
<1>2. SearchShape'
  <2>1. (IF instance[x].enabled THEN "building" ELSE "removing") \in Stage
    BY DEF Stage
  <2>2. instance' \in [Instance -> Row]
    BY <1>1, <2>1, Placed DEF SearchInv, SearchShape
  <2>3. instance[x].enabled \in BOOLEAN
    BY DEF SearchInv, SearchShape, Row
  <2>4. indexConfig' \in [enabled : BOOLEAN, ready : BOOLEAN]
    BY <1>1 DEF SearchInv, SearchShape
  <2> QED BY <1>1, <2>2, <2>3, <2>4 DEF SearchInv, SearchShape
<1>3. ASSUME ~clashed PROVE (\A t \in IndexedTask : Shown(t)') /\ ReadyInv' /\ \A i \in Instance : JobInv(i)'
  <2>1. \A t \in IndexedTask : Shown(t)' /\ (Bare(t)' <=> Bare(t))
    BY <1>1, <1>3 DEF SearchInv, Shown, Bare
  <2>2. indexConfig'.enabled = indexConfig.enabled /\ ~indexConfig'.ready
    BY <1>1 DEF SearchInv, SearchShape
  <2>3. ASSUME NEW i \in Instance PROVE JobInv(i)'
    <3>1. JobInv(i) /\ JobInv(x)
      BY <1>3 DEF SearchInv
    <3>2. CASE i = x
      <4>1. /\ instance'[i].at = (IF instance[x].enabled THEN "building" ELSE "removing")
            /\ instance'[i].enabled = instance[x].enabled /\ instance'[i].after = instance[x].after
        BY <1>1, <3>2 DEF SearchInv, SearchShape
      <4>2. Covered(i)'
        BY <1>1, <3>1, <4>1, TaskIsNatural DEF Covered, JobInv
      <4> QED BY <1>1, <2>2, <3>1, <4>1, <4>2 DEF JobInv, Live
    <3>3. CASE i # x
      <4>1. instance'[i] = instance[i]
        BY <1>1, <3>3 DEF SearchInv, SearchShape
      <4>2. Covered(i)'
        BY <2>1, <3>1, <4>1 DEF JobInv, Covered
      <4>3. Live(i) => triggers' = instance[i].enabled
        BY <1>1, <3>1 DEF JobInv, Live
      <4> QED BY <1>1, <2>2, <3>1, <4>1, <4>2, <4>3 DEF JobInv, Live
    <3> QED BY <3>2, <3>3
  <2> QED BY <2>1, <2>2, <2>3 DEF ReadyInv
<1> QED BY <1>1, <1>2, <1>3 DEF SearchInv

LEMMA RemovalKeepsSearch ==
    ASSUME SearchInv, NEW x \in Instance, RemoveProjections(x) PROVE SearchInv'
<1>1. /\ instance[x].at = "removing"
      /\ projection' = [t \in IndexedTask |-> NoProjection]
      /\ instance' = [instance EXCEPT ![x].at = "running"]
      /\ UNCHANGED <<text, triggers, indexConfig, clashed>>
  BY DEF RemoveProjections, At
<1>2. SearchShape'
  <2>1. instance' \in [Instance -> Row]
    BY <1>1, Placed DEF SearchInv, SearchShape, Stage
  <2> QED BY <1>1, <2>1 DEF SearchInv, SearchShape
<1>3. CASE ~clashed
  <2>1. JobInv(x) /\ ~indexConfig.enabled
    BY <1>1, <1>3 DEF SearchInv, JobInv, Live
  <2>2. instance'[x].at = "running" /\ instance'[x].enabled = instance[x].enabled
    BY <1>1 DEF SearchInv, SearchShape
  <2>3. JobInv(x)'
    BY <1>1, <2>1, <2>2 DEF JobInv, Covered, Live
  <2>4. \A i \in Instance : instance'[i] = instance[i] \/ JobInv(i)'
    BY <1>1, <2>3 DEF SearchInv, SearchShape
  <2>5. \A t \in IndexedTask : Shown(t)'
    BY <1>1 DEF Shown
  <2> QED BY <1>1, <1>2, <1>3, <2>1, <2>4, <2>5, SearchKeeps
<1> QED BY <1>1, <1>2, <1>3 DEF SearchInv

(* A page leaves out only tasks that come after it, and is empty only when   *)
(* there is no other task.                                                   *)
Before(rest, t) == {u \in rest : u < t}

LEMMA PageIsFirst ==
    ASSUME NEW rest \in SUBSET IndexedTask, NEW page,
           page = {t \in rest : Cardinality(Before(rest, t)) < PageSize}
    PROVE  /\ \A t \in rest \ page, p \in page : t > p
           /\ page = {} => rest = {}
<1>1. IsFiniteSet(rest) /\ rest \in SUBSET Nat
  BY TaskIsNatural, FS_Subset
<1>2. \A t \in rest : Before(rest, t) \in SUBSET rest
  BY DEF Before
<1>3. \A t \in rest : IsFiniteSet(Before(rest, t)) /\ Cardinality(Before(rest, t)) \in Nat
  BY <1>1, <1>2, FS_Subset, FS_CardinalityType
<1>4. ASSUME NEW t \in rest \ page, NEW p \in page PROVE t > p
  <2>1. SUFFICES ASSUME t <= p PROVE FALSE
    BY <1>1
  <2>2. Before(rest, t) \in SUBSET Before(rest, p)
    <3>1. \A u \in rest : u < t => u < p
      BY <1>1, <2>1
    <3> QED BY <3>1 DEF Before
  <2>3. Cardinality(Before(rest, t)) <= Cardinality(Before(rest, p))
    BY <1>3, <2>2, FS_Subset
  <2> QED BY <1>3, <2>3, SearchAssumption
<1>5. ASSUME rest # {}, page = {} PROVE FALSE
  <2>1. PICK m \in rest : \A n \in rest : m <= n
    BY <1>1, <1>5, LeastOf
  <2>2. Before(rest, m) = {}
    <3>1. \A n \in rest : ~ (n < m)
      BY <1>1, <2>1
    <3> QED BY <3>1 DEF Before
  <2>3. Cardinality(Before(rest, m)) = 0
    BY <2>2, FS_EmptySet
  <2> QED BY <1>5, <2>3, SearchAssumption
<1> QED BY <1>4, <1>5

LEMMA ReadingKeepsSearch ==
    ASSUME SearchInv, NEW x \in Instance, ReadPage(x) PROVE SearchInv'
<1> DEFINE rest == {t \in IndexedTask : t > instance[x].after /\ text[t] # NoText}
           page == {t \in rest : Cardinality({u \in rest : u < t}) < PageSize}
           rows == {[task |-> t, raw |-> text[t]] : t \in page}
           reading == [instance[x] EXCEPT !.at = "projecting", !.page = rows]
<1>1. /\ instance[x].at = "building"
      /\ UNCHANGED <<text, projection, triggers, clashed>>
      /\ \/ /\ page = {}
            /\ indexConfig' = [indexConfig EXCEPT !.ready = TRUE]
            /\ instance' = [instance EXCEPT ![x].at = "running"]
         \/ /\ page # {} /\ indexConfig' = indexConfig
            /\ instance' = [instance EXCEPT ![x] = reading]
  BY DEF ReadPage, tables, At
<1>2. /\ \A t \in rest \ page, p \in page : t > p
      /\ page = {} => rest = {}
  <2>1. page = {t \in rest : Cardinality(Before(rest, t)) < PageSize}
    BY DEF Before
  <2>2. rest \in SUBSET IndexedTask
    OBVIOUS
  <2> HIDE DEF rest, page
  <2> QED BY <2>1, <2>2, PageIsFirst
<1>3. \A p \in page : [task |-> p, raw |-> text[p]] \in rows
  OBVIOUS
<1>4. /\ rows \in PagesRead /\ \A row \in rows : row.task \in page
      /\ \A p \in page : \E row \in rows : row.task = p
  <2>1. \A p \in page : p \in IndexedTask /\ text[p] \in AnyText
    BY DEF SearchInv, SearchShape
  <2>2. \A row \in rows : \E p \in page : row = [task |-> p, raw |-> text[p]]
    OBVIOUS
  <2> HIDE DEF rows, page
  <2>3. \A row \in rows : row \in [task : IndexedTask, raw : AnyText] /\ row.task \in page
    BY <2>1, <2>2
  <2>4. \A p \in page : \E row \in rows : row.task = p
    BY <1>3
  <2> QED BY <2>3, <2>4 DEF PagesRead
<1>5. \A t \in IndexedTask : t \in rest <=> t > instance[x].after /\ text[t] # NoText
  BY ZenonT(30)
<1> HIDE DEF rest, page, rows
<1>6. /\ reading \in Row /\ reading.at = "projecting" /\ reading.page = rows
      /\ reading.enabled = instance[x].enabled
  BY <1>4 DEF SearchInv, SearchShape, Row, Stage
<1> HIDE DEF reading
<1>9. /\ instance' \in [Instance -> Row]
      /\ instance'[x].enabled = instance[x].enabled
      /\ instance'[x].at = "running" \/ (page # {} /\ instance'[x] = reading)
      /\ \A i \in Instance \ {x} : instance'[i] = instance[i]
  <2>1. CASE page # {} /\ instance' = [instance EXCEPT ![x] = reading]
    BY <1>6, <2>1 DEF SearchInv, SearchShape
  <2>2. CASE instance' = [instance EXCEPT ![x].at = "running"]
    <3>1. instance' \in [Instance -> Row]
      BY <2>2, Placed DEF SearchInv, SearchShape, Stage
    <3> QED BY <2>2, <3>1 DEF SearchInv, SearchShape, Row
  <2> QED BY <1>1, <2>1, <2>2
<1>7. SearchShape'
  <2>2. indexConfig' \in [enabled : BOOLEAN, ready : BOOLEAN]
    BY <1>1 DEF SearchInv, SearchShape
  <2>3. instance'[x].at \in {"projecting", "labelling"} => instance'[x].page # {}
    BY <1>4, <1>6, <1>9
  <2> QED BY <1>1, <1>9, <2>2, <2>3 DEF SearchInv, SearchShape
<1>8. CASE ~clashed
  <2>1. JobInv(x) /\ indexConfig.enabled /\ indexConfig'.enabled = indexConfig.enabled
    BY <1>1, <1>8 DEF SearchInv, SearchShape, JobInv, Live
  <2>2. \A t \in IndexedTask : Bare(t) => t \in rest
    BY <1>1, <1>5, <2>1 DEF JobInv, Covered, Bare
  <2>3. indexConfig'.ready => indexConfig.ready \/ \A t \in IndexedTask : ~Bare(t)
    BY <1>1, <1>2, <2>2
  <2>4. \A t \in IndexedTask : Shown(t)' /\ (Bare(t)' <=> Bare(t))
    BY <1>1, <1>8 DEF SearchInv, Shown, Bare
  <2>5. JobInv(x)'
    <3>1. CASE instance'[x].at = "running"
      BY <1>1, <1>9, <2>1, <3>1 DEF JobInv, Covered, Live
    <3>2. CASE page # {} /\ instance'[x] = reading
      <4>1. Covered(x)'
        <5>1. \A t \in IndexedTask : Bare(t) =>
                \/ \E row \in rows : t = row.task
                \/ \A row \in rows : t > row.task
          BY <1>2, <1>4, <2>2
        <5> QED BY <1>6, <2>4, <3>2, <5>1 DEF Covered
      <4>2. /\ instance'[x].at = "projecting" /\ instance'[x].page # {}
            /\ instance'[x].enabled = instance[x].enabled
        BY <1>4, <1>6, <3>2
      <4>3. instance[x].enabled /\ triggers = instance[x].enabled /\ triggers' = triggers
        BY <1>1, <2>1 DEF JobInv
      <4>4. indexConfig'.enabled = instance[x].enabled
        BY <1>1, <2>1 DEF JobInv, Live
      <4> QED BY <4>1, <4>2, <4>3, <4>4 DEF JobInv, Live
    <3> QED BY <1>9, <3>1, <3>2
  <2>6. \A i \in Instance : instance'[i] = instance[i] \/ JobInv(i)'
    BY <1>9, <2>5
  <2> QED BY <1>1, <1>7, <1>8, <2>1, <2>3, <2>4, <2>6, SearchKeeps
<1> QED BY <1>1, <1>7, <1>8 DEF SearchInv

LEMMA ProjectingKeepsSearch ==
    ASSUME SearchInv, NEW x \in Instance, ProjectPage(x) PROVE SearchInv'
<1>1. /\ instance[x].at = "projecting"
      /\ projection' = ProjectCurrent(instance[x].page)
      /\ instance' = [instance EXCEPT ![x].at = "labelling"]
      /\ UNCHANGED <<text, triggers, indexConfig, clashed>>
  BY DEF ProjectPage, At
<1>2. /\ instance' \in [Instance -> Row]
      /\ instance'[x].enabled = instance[x].enabled /\ instance'[x].page = instance[x].page
      /\ instance'[x].at = "labelling"
      /\ \A i \in Instance \ {x} : instance'[i] = instance[i]
  <2>1. instance' \in [Instance -> Row]
    BY <1>1, Placed DEF SearchInv, SearchShape, Stage
  <2> QED BY <1>1, <2>1 DEF SearchInv, SearchShape, Row
<1>3. SearchShape'
  BY <1>1, <1>2 DEF SearchInv, SearchShape, ProjectCurrent
<1>4. CASE ~clashed
  <2>1. JobInv(x) /\ indexConfig.enabled
    BY <1>1, <1>4 DEF SearchInv, JobInv, Live
  <2>2. ASSUME NEW t \in IndexedTask
        PROVE  \/ projection'[t] = projection[t]
               \/ text[t] # NoText /\ projection'[t] = [grams |-> text[t], terms |-> Fallback]
    BY <1>1 DEF ProjectCurrent, Projected
  <2>3. ASSUME NEW t \in IndexedTask, text[t] # NoText, NEW row \in instance[x].page, row.task = t
        PROVE  projection'[t] # NoProjection
    <3>1. projection'[t] = Projected(projection[t], text[t], text[t])
      BY <1>1, <2>3 DEF ProjectCurrent
    <3>2. [grams |-> text[t], terms |-> Fallback] # NoProjection
      BY <2>3 DEF NoProjection
    <3> QED BY <3>1, <3>2 DEF Projected
  <2>4. \A t \in IndexedTask : Shown(t)' /\ (Bare(t)' => Bare(t))
    <3>1. ASSUME NEW t \in IndexedTask PROVE Shown(t)' /\ (Bare(t)' => Bare(t))
      <4>1. CASE projection'[t] = projection[t]
        BY <1>1, <1>4, <4>1 DEF SearchInv, Shown, Bare
      <4>2. CASE text[t] # NoText /\ projection'[t] = [grams |-> text[t], terms |-> Fallback]
        <5>1. projection'[t] # NoProjection
          BY <4>2 DEF NoProjection
        <5> QED BY <1>1, <4>2, <5>1 DEF Shown, Bare
      <4> QED BY <2>2, <4>1, <4>2
    <3> QED BY <3>1
  <2>5. JobInv(x)'
    <3>1. Covered(x)'
      BY <1>1, <1>2, <2>1, <2>3, <2>4 DEF JobInv, Covered, Bare
    <3> QED BY <1>1, <1>2, <2>1, <3>1 DEF JobInv, Live
  <2>6. \A i \in Instance : instance'[i] = instance[i] \/ JobInv(i)'
    BY <1>2, <2>5
  <2> QED BY <1>1, <1>3, <1>4, <2>1, <2>4, <2>6, SearchKeeps
<1> QED BY <1>1, <1>3, <1>4 DEF SearchInv

LEMMA FirstIsFirst ==
    ASSUME NEW page \in PagesRead, page # {}
    PROVE  FirstRow(page) \in page /\ \A row \in page : FirstRow(page).task <= row.task
<1> DEFINE tasks == {row.task : row \in page}
<1>1. tasks \in SUBSET Nat /\ tasks # {}
  BY TaskIsNatural DEF PagesRead
<1>2. PICK m \in tasks : \A n \in tasks : m <= n
  <2> HIDE DEF tasks
  <2> QED BY <1>1, LeastOf
<1>3. \E row \in page : \A other \in page : row.task <= other.task
  BY <1>2
<1> QED BY <1>3 DEF FirstRow

LEMMA LabellingKeepsSearch ==
    ASSUME SearchInv, NEW x \in Instance, LabelRow(x) PROVE SearchInv'
<1> DEFINE page == instance[x].page
           r == FirstRow(page)
           place == IF page = {r} THEN "building" ELSE "labelling"
           labelled == [instance[x] EXCEPT !.page = page \ {r}, !.after = r.task, !.at = place]
<1>1. /\ instance[x].at = "labelling"
      /\ \E terms \in {r.raw, Fallback} :
            projection' = IF Labels(r) THEN [projection EXCEPT ![r.task].terms = terms] ELSE projection
      /\ instance' = [instance EXCEPT ![x] = labelled]
      /\ UNCHANGED <<text, triggers, indexConfig, clashed>>
  <2>1. instance[x].at = "labelling" /\ UNCHANGED <<text, triggers, indexConfig, clashed>>
    BY DEF LabelRow
  <2>2. \E terms \in {r.raw, Fallback} :
            projection' = IF Labels(r) THEN [projection EXCEPT ![r.task].terms = terms] ELSE projection
    BY DEF LabelRow
  <2>3. instance' = [instance EXCEPT ![x] = labelled]
    BY DEF LabelRow
  <2> QED BY <2>1, <2>2, <2>3
<1>2. /\ r \in page /\ \A row \in page : r.task <= row.task
      /\ page \in PagesRead
  BY <1>1, FirstIsFirst DEF SearchInv, SearchShape, Row
<1>3. r.task \in IndexedTask /\ r.task \in Nat
  BY <1>2, TaskIsNatural DEF PagesRead
<1>4. /\ labelled \in Row /\ labelled.at = place /\ labelled.page = page \ {r} /\ labelled.after = r.task
      /\ labelled.enabled = instance[x].enabled
  <2>1. page \ {r} \in PagesRead /\ place \in Stage
    BY <1>2 DEF PagesRead, Stage
  <2> HIDE DEF place, r, page
  <2> QED BY <1>3, <2>1 DEF SearchInv, SearchShape, Row
<1>5. (place = "labelling" /\ page \ {r} # {}) \/ (place = "building" /\ page = {r})
  BY <1>2
<1> HIDE DEF labelled, place, r
<1>6. /\ instance' \in [Instance -> Row] /\ instance'[x] = labelled
      /\ \A i \in Instance \ {x} : instance'[i] = instance[i]
  BY <1>1, <1>4 DEF SearchInv, SearchShape
<1>7. SearchShape'
  BY <1>1, <1>4, <1>5, <1>6 DEF SearchInv, SearchShape
<1>8. CASE ~clashed
  <2>1. JobInv(x) /\ indexConfig.enabled
    BY <1>1, <1>8 DEF SearchInv, JobInv, Live
  <2>2. ASSUME NEW t \in IndexedTask PROVE Shown(t)' /\ (Bare(t)' <=> Bare(t))
    <3>1. CASE projection'[t] = projection[t]
      BY <1>1, <1>8, <3>1 DEF SearchInv, Shown, Bare
    <3>2. CASE projection'[t] # projection[t]
      <4>1. /\ t = r.task /\ Labels(r)
            /\ \E terms \in {r.raw, Fallback} : projection'[t] = [projection[t] EXCEPT !.terms = terms]
        BY <1>1, <1>3, <3>2 DEF SearchInv, SearchShape
      <4>2. projection[t] # NoProjection /\ text[t] = r.raw
        BY <4>1 DEF Labels
      <4>3. text[t] # NoText /\ \E old : projection[t] = [grams |-> text[t], terms |-> old]
        BY <1>8, <4>2 DEF SearchInv, Shown
      <4>4. \E terms \in {text[t], Fallback} : projection'[t] = [grams |-> text[t], terms |-> terms]
        BY <4>1, <4>2, <4>3
      <4>5. projection'[t] # NoProjection
        BY <4>3, <4>4 DEF NoProjection
      <4> QED BY <1>1, <4>2, <4>3, <4>4, <4>5 DEF Shown, Bare
    <3> QED BY <3>1, <3>2
  <2>3. JobInv(x)'
    <3>1. ASSUME NEW t \in IndexedTask, Bare(t)' PROVE \A row \in page : t > row.task
      BY <1>1, <2>1, <2>2, <3>1 DEF JobInv, Covered
    <3>2. Covered(x)'
      BY <1>2, <1>4, <1>5, <1>6, <3>1 DEF Covered
    <3> QED BY <1>1, <1>4, <1>5, <1>6, <2>1, <3>2 DEF JobInv, Live
  <2>4. \A i \in Instance : instance'[i] = instance[i] \/ JobInv(i)'
    BY <1>6, <2>3
  <2> QED BY <1>1, <1>7, <1>8, <2>1, <2>2, <2>4, SearchKeeps
<1> QED BY <1>1, <1>7, <1>8 DEF SearchInv

LEMMA EndingKeepsSearch ==
    ASSUME SearchInv, NEW x \in Instance, StopIndexes(x) \/ CrashIndexes(x) PROVE SearchInv'
<1>1. /\ \E ended \in Row : ended.at = "off" /\ instance' = [instance EXCEPT ![x] = ended]
      /\ UNCHANGED <<text, projection, triggers, indexConfig, clashed>>
  <2>1. {} \in PagesRead /\ "off" \in Stage
    BY DEF PagesRead, Stage
  <2>2. CASE StopIndexes(x)
    BY <2>1, <2>2 DEF StopIndexes, tables, Off, Row
  <2>3. CASE CrashIndexes(x)
    <3>1. [instance[x] EXCEPT !.at = "off", !.page = {}, !.after = 0] \in Row
      BY <2>1 DEF SearchInv, SearchShape, Row
    <3>2. instance' = [instance EXCEPT ![x] = [instance[x] EXCEPT !.at = "off", !.page = {}, !.after = 0]]
      BY <2>3 DEF CrashIndexes
    <3>3. [instance[x] EXCEPT !.at = "off", !.page = {}, !.after = 0].at = "off"
      BY DEF SearchInv, SearchShape, Row
    <3> QED BY <2>3, <3>1, <3>2, <3>3 DEF CrashIndexes, tables
  <2> QED BY <2>2, <2>3
<1>2. PICK ended \in Row : ended.at = "off" /\ instance' = [instance EXCEPT ![x] = ended]
  BY <1>1
<1>3. SearchShape'
  BY <1>1, <1>2 DEF SearchInv, SearchShape
<1>4. instance'[x].at = "off" /\ \A i \in Instance \ {x} : instance'[i] = instance[i]
  BY <1>2 DEF SearchInv, SearchShape
<1>5. CASE ~clashed
  <2>1. JobInv(x)'
    BY <1>4 DEF JobInv, Covered, Live
  <2>2. \A t \in IndexedTask : Shown(t)' /\ (Bare(t)' <=> Bare(t))
    BY <1>1, <1>5 DEF SearchInv, Shown, Bare
  <2>3. \A i \in Instance : instance'[i] = instance[i] \/ JobInv(i)'
    BY <1>4, <2>1
  <2> QED BY <1>1, <1>3, <1>5, <2>2, <2>3, SearchKeeps
<1> QED BY <1>1, <1>3, <1>5 DEF SearchInv

LEMMA WritingKeepsSearch ==
    ASSUME SearchInv, NEW x \in Instance, NEW t \in IndexedTask, NEW new \in Text[t], IngestText(x, t, new)
    PROVE  SearchInv'
<1> DEFINE now == IF triggers THEN Projected(projection[t], text[t], new) ELSE projection[t]
           labels == instance[x].enabled /\ indexConfig.enabled /\ now # NoProjection
<1>1. /\ instance[x].at = "running" /\ text[t] # new
      /\ text' = [text EXCEPT ![t] = new]
      /\ \E terms \in {new, Fallback} :
            projection' = [projection EXCEPT ![t] = IF labels THEN [now EXCEPT !.terms = terms] ELSE now]
      /\ UNCHANGED <<triggers, indexConfig, instance, clashed>>
  BY DEF IngestText
<1>2. new \in AnyText /\ new # NoText
  BY SearchAssumption DEF AnyText, IndexedTask
<1>3. SearchShape'
  BY <1>1, <1>2 DEF SearchInv, SearchShape
<1>4. CASE ~clashed
  <2>1. JobInv(x) /\ triggers = instance[x].enabled /\ instance[x].enabled = indexConfig.enabled
    BY <1>1, <1>4 DEF SearchInv, JobInv, Live
  <2>2. CASE ~indexConfig.enabled
    <3>1. projection[t] = NoProjection /\ ~triggers
      BY <1>1, <2>1, <2>2 DEF JobInv
    <3>2. \A u \in IndexedTask : projection'[u] = projection[u]
      BY <1>1, <2>2, <3>1 DEF SearchInv, SearchShape
    <3>3. \A u \in IndexedTask : Shown(u)'
      BY <1>1, <1>4, <3>1, <3>2 DEF SearchInv, SearchShape, Shown
    <3> QED BY <1>1, <1>3, <1>4, <2>2, <3>2, <3>3, SearchKeeps DEF SearchInv, ReadyInv
  <2>3. CASE indexConfig.enabled
    <3>1. now = [grams |-> new, terms |-> Fallback] /\ now # NoProjection
      BY <1>1, <1>2, <2>1, <2>3 DEF Projected, NoProjection
    <3> HIDE DEF now
    <3>2. \E terms \in {new, Fallback} : projection'[t] = [grams |-> new, terms |-> terms]
      BY <1>1, <2>1, <2>3, <3>1 DEF SearchInv, SearchShape
    <3>3. projection'[t] # NoProjection /\ text'[t] = new
      BY <1>1, <1>2, <3>2 DEF NoProjection, SearchInv, SearchShape
    <3>4. Shown(t)' /\ ~Bare(t)'
      BY <1>2, <3>2, <3>3 DEF Shown, Bare
    <3>5. \A u \in IndexedTask \ {t} : Shown(u)' /\ (Bare(u)' <=> Bare(u))
      BY <1>1, <1>4 DEF SearchInv, SearchShape, Shown, Bare
    <3> QED BY <1>1, <1>3, <1>4, <2>3, <3>4, <3>5, SearchKeeps
  <2> QED BY <2>2, <2>3
<1> QED BY <1>1, <1>3, <1>4 DEF SearchInv

LEMMA DeletingKeepsSearch ==
    ASSUME SearchInv, NEW x \in Instance, NEW t \in IndexedTask, RemoveTask(x, t) PROVE SearchInv'
<1>1. /\ instance[x].at = "running"
      /\ text' = [text EXCEPT ![t] = NoText]
      /\ projection' = IF triggers THEN [projection EXCEPT ![t] = NoProjection] ELSE projection
      /\ UNCHANGED <<triggers, indexConfig, instance, clashed>>
  BY DEF RemoveTask, ProjectionAfterRemoval
<1>2. SearchShape'
  BY <1>1 DEF SearchInv, SearchShape
<1>3. CASE ~clashed
  <2>1. JobInv(x) /\ triggers = instance[x].enabled
    BY <1>1, <1>3 DEF SearchInv, JobInv
  <2>2. projection'[t] = NoProjection
    BY <1>1, <2>1 DEF SearchInv, SearchShape, JobInv
  <2>3. Shown(t)' /\ ~Bare(t)'
    BY <1>1, <2>2 DEF Shown, Bare, SearchInv, SearchShape
  <2>4. \A u \in IndexedTask \ {t} : projection'[u] = projection[u] /\ text'[u] = text[u]
    BY <1>1 DEF SearchInv, SearchShape
  <2>5. \A u \in IndexedTask \ {t} : Shown(u)' /\ (Bare(u)' <=> Bare(u))
    BY <1>3, <2>4 DEF SearchInv, Shown, Bare
  <2> QED BY <1>1, <1>2, <1>3, <2>2, <2>3, <2>4, <2>5, SearchKeeps
<1> QED BY <1>1, <1>2, <1>3 DEF SearchInv

(* Whatever is ingested and deleted while projections are built, and however *)
(* often instances fail and change their mode, an indexed search misses no   *)
(* task that a scan would find, and considers none that has been deleted.    *)
THEOREM IndexedSearchIsComplete == SearchSpec => []SearchMissesNothing
<1>1. SearchInit => SearchInv
  <2> SUFFICES ASSUME SearchInit PROVE SearchInv
    OBVIOUS
  <2>1. {} \in PagesRead /\ "off" \in Stage /\ Off.at = "off"
    BY DEF PagesRead, Stage, Off
  <2>2. Off \in Row
    BY <2>1 DEF Off, Row
  <2>3. SearchShape
    BY <2>1, <2>2 DEF SearchInit, SearchShape
  <2>4. (\A t \in IndexedTask : Shown(t)) /\ ReadyInv
    BY DEF SearchInit, Shown, ReadyInv
  <2>5. \A i \in Instance : JobInv(i)
    BY <2>1 DEF SearchInit, JobInv, Covered, Live
  <2> QED BY <2>3, <2>4, <2>5 DEF SearchInv
<1>2. SearchInv /\ [SearchNext]_searchVars => SearchInv'
  <2> SUFFICES ASSUME SearchInv, [SearchNext]_searchVars PROVE SearchInv'
    OBVIOUS
  <2>1. ASSUME UNCHANGED <<text, projection, triggers, indexConfig, instance, clashed>> PROVE SearchInv'
    <3>1. SearchShape'
      BY <2>1 DEF SearchInv, SearchShape
    <3>2. ~clashed => \A t \in IndexedTask : Shown(t)' /\ (Bare(t)' <=> Bare(t))
      BY <2>1 DEF SearchInv, Shown, Bare
    <3> QED BY <2>1, <3>1, <3>2, SearchKeeps DEF SearchInv
  <2>2. CASE UNCHANGED searchVars
    BY <2>1, <2>2 DEF searchVars, tables
  <2>3. ASSUME NEW x \in Instance, LeaseExpires(x) \/ RenewLease(x) PROVE SearchInv'
    BY <2>1, <2>3 DEF LeaseExpires, RenewLease, tables
  <2> QED
    BY <2>2, <2>3, StartKeepsSearch, PrepareKeepsSearch, RemovalKeepsSearch, ReadingKeepsSearch,
       ProjectingKeepsSearch, LabellingKeepsSearch, EndingKeepsSearch, WritingKeepsSearch, DeletingKeepsSearch
       DEF SearchNext
<1> QED BY <1>1, <1>2, SearchFinds1, PTL DEF SearchSpec

-----------------------------------------------------------------------------
(* A scope is no wider than another.                                         *)
Within(s, wide) ==
    /\ s.tasks \subseteq wide.tasks /\ s.workers \subseteq wide.workers
    /\ wide.deny \subseteq s.deny

LEMMA NarrowerAdmitsLess ==
    ASSUME NEW s, NEW wide, Within(s, wide), NEW cell, Admits(s, cell) PROVE Admits(wide, cell)
BY DEF Within, Admits, TaskScoped

(* The columns and rows of a table that a scope leaves are admitted by it.   *)
LEMMA CellsAreAdmitted ==
    ASSUME NEW table \in Table, NEW s, NEW cell \in Cells(table, s) PROVE Admits(s, cell)
<1>1. cell[1] = table /\ cell[2] \in RowsIn(table, s) /\ cell[3] \in Columns(table, s)
  BY DEF Cells
<1>2. CASE table = "task"
  BY <1>1, <1>2 DEF RowsIn, Columns, Admits, Needs, TaskScoped
<1>3. CASE table = "workflow"
  BY <1>1, <1>3 DEF RowsIn, Columns, Admits, Needs, TaskScoped
<1>4. CASE table = "worker"
  <2>1. cell[3] = "inspect" => s.deny = {}
    BY <1>1, <1>4 DEF Columns, Restricted
  <2>2. cell[3] \in {"metadata", "load", "inspect"}
    BY <1>1, <1>4 DEF Columns
  <2>3. Needs(cell[3]) \cap s.deny = {}
    BY <2>1, <2>2 DEF Needs
  <2> QED BY <1>1, <1>4, <2>2, <2>3 DEF RowsIn, Admits
<1>5. CASE table = "event"
  <2>1. cell[3] = "raw" => s.deny = {}
    BY <1>1, <1>5 DEF Columns, Restricted
  <2>2. cell[3] \in {"metadata", "raw"}
    BY <1>1, <1>5 DEF Columns
  <2>3. Needs(cell[3]) \cap s.deny = {}
    BY <2>1, <2>2 DEF Needs
  <2> QED BY <1>1, <1>5, <2>2, <2>3 DEF RowsIn, Admits
<1> QED BY <1>2, <1>3, <1>4, <1>5 DEF Table

(* The scope of a request is within the policy's, and denies each payload    *)
(* that the role lacks.                                                      *)
Lacking(account) == Payload \ Grants(account)

LEMMA ScopeIsWithin ==
    ASSUME NEW account, NEW answer
    PROVE  /\ Within(PrincipalScope(account, answer), answer)
           /\ Lacking(account) \subseteq PrincipalScope(account, answer).deny
BY DEF PrincipalScope, IntersectScopes, EmptyScope, Within, Lacking

LEMMA CheckedScope ==
    ASSUME NEW account, NEW actions, NEW answer, ~Refused(Check(account, actions, answer))
    PROVE  /\ Check(account, actions, answer) = PrincipalScope(account, answer)
           /\ answer \notin {Denial, Unavailable}
           /\ Authorized(account, actions)
           /\ NeedsEverything(actions) => ~Restricted(answer)
BY DEF Check, Refused

(* What a request is let through with.                                       *)
CallInv ==
    call # NoCall =>
        /\ call.gate \in ReadScopes
        /\ Lacking(call.account) \subseteq call.scope.deny
        /\ Within(call.scope, call.gate)
        /\ call.at = "gated" =>
            /\ call.route \in Route
            /\ Authorized(call.account, RoutePermission(call.route))
            /\ NeedsEverything(RoutePermission(call.route)) => ~Restricted(call.gate)
        /\ call.at = "decided" =>
            /\ call.op \in Operation /\ call.table \in Table
            /\ ~Refused(call.decision) /\ Within(call.scope, call.decision)

AccessInv ==
    /\ decides \in [{"gate", "operation"} -> ReadScopes \cup {Denial, Unavailable}]
    /\ CallInv
    /\ AnswersAreLawful

(* An answer is lawful when it consists of cells that a narrow scope admits. *)
LEMMA AdmittedIsLawful ==
    ASSUME NEW s, NEW account, Lacking(account) \subseteq s.deny, NEW wide, Within(s, wide),
           NEW cell, Admits(s, cell)
    PROVE  Needs(cell[3]) \subseteq Grants(account) /\ Admits(wide, cell)
<1>1. Needs(cell[3]) \subseteq Payload
  BY DEF Needs, Payload
<1>2. Needs(cell[3]) \cap s.deny = {}
  BY DEF Admits
<1> QED BY <1>1, <1>2, NarrowerAdmitsLess DEF Lacking

LEMMA ReturnedIsAdmitted ==
    ASSUME NEW op \in Operation, NEW table \in Table, NEW s, NEW cell \in Returned(op, table, s)
    PROVE  Admits(s, cell)
<1>1. FullReads(op, table) \subseteq Table
  BY DEF FullReads, TableRead, Table, Operation
<1>2. PartialReads(op) \subseteq Table
  BY DEF PartialReads, Table, Operation
<1>3. \E t \in Table : cell \in Cells(t, s)
  <2> DEFINE full == UNION {Cells(t, s) : t \in FullReads(op, table)}
             partial == UNION {Cells(t, s) : t \in PartialReads(op)}
  <2>1. \A c \in full : \E t \in FullReads(op, table) : c \in Cells(t, s)
    OBVIOUS
  <2>2. \A c \in partial : \E t \in PartialReads(op) : c \in Cells(t, s)
    OBVIOUS
  <2>3. cell \in full \cup {c \in partial : c[3] = IF op = "exceptions" THEN "failure" ELSE "metadata"}
    BY DEF Returned
  <2> HIDE DEF full, partial
  <2> QED BY <1>1, <1>2, <2>1, <2>2, <2>3
<1> QED BY <1>3, CellsAreAdmitted

(* What a handler returns is admitted by the scope of the request, or the    *)
(* policy restricted nothing and the role may see what it returns.           *)
LEMMA HandledIsLawful ==
    ASSUME AccessInv, call # NoCall, call.at = "gated", call.route \in Route \ Unscoped \/ ~RowScoped(call.scope),
           NEW cell \in RouteReturns(call.route, call.scope)
    PROVE  /\ Needs(cell[3]) \subseteq Grants(call.account)
           /\ Admits(call.gate, cell)
<1> DEFINE route == call.route
           s == call.scope
<1>1. /\ Within(s, call.gate) /\ Lacking(call.account) \subseteq s.deny
      /\ call.gate \in ReadScopes
      /\ RoutePermission(route) \subseteq Grants(call.account)
      /\ NeedsEverything(RoutePermission(route)) => ~Restricted(call.gate)
  BY DEF AccessInv, CallInv, Authorized
<1>2. ASSUME Admits(s, cell)
      PROVE  Needs(cell[3]) \subseteq Grants(call.account) /\ Admits(call.gate, cell)
  BY <1>1, <1>2, AdmittedIsLawful
<1>3. ASSUME NEW t \in Table, cell \in Cells(t, s) PROVE Admits(s, cell)
  BY <1>3, CellsAreAdmitted
<1>4. ASSUME NEW t \in Table, cell \in Cells(t, EmptyScope), ~Restricted(call.gate)
      PROVE  Admits(call.gate, cell)
  <2>1. Admits(EmptyScope, cell)
    BY <1>4, CellsAreAdmitted
  <2>2. Within(EmptyScope, call.gate)
    BY <1>1, <1>4, AccessAssumption DEF Restricted, RowScoped, TaskScoped, ReadScopes, Within, EmptyScope, AnyTask, AnyWorker
  <2> QED BY <2>1, <2>2, NarrowerAdmitsLess
<1>5. {"task", "workflow", "event", "worker"} \subseteq Table
  BY DEF Table
<1>6. CASE route \in {"GET info", "GET retention", "GET metrics", "GET metrics/system", "GET metrics/verbose"}
  <2>1. \E t \in {"task", "event", "worker"} : cell \in Cells(t, s)
    BY <1>6 DEF RouteReturns, MetricCells, Counts
  <2> QED BY <1>2, <1>3, <1>5, <2>1
<1>7. CASE route \in {"GET export", "POST exports/csv"}
  <2>1. \E t \in {"task", "event", "worker", "workflow"} : cell \in Cells(t, s)
    BY <1>7 DEF RouteReturns, ExportedCells
  <2> QED BY <1>2, <1>3, <1>5, <2>1
<1>8. CASE route = "POST download-debug-bundle"
  <2>1. PICK t \in Table : cell \in Cells(t, EmptyScope)
    BY <1>8 DEF RouteReturns
  <2>2. RoutePermission(route) = {"diagnostics.export", "backup.export"} \cup Everything
    BY <1>8 DEF RoutePermission, Catalogue
  <2>3. Needs(cell[3]) \subseteq Grants(call.account)
    BY <1>1, <2>2 DEF Everything, Needs, Payload
  <2>4. ~Restricted(call.gate)
    BY <1>1, <2>2 DEF NeedsEverything
  <2> QED BY <1>4, <2>1, <2>3, <2>4
<1>9. CASE route \in {"PUT retention", "POST cleanup"}
  <2>1. PICK t \in {"task", "event", "worker"} : cell \in Cells(t, EmptyScope) /\ cell[3] = "metadata"
    BY <1>9 DEF RouteReturns, Counts
  <2>2. RoutePermission(route) \cap Changing # {}
    BY <1>9 DEF RoutePermission, Changing, Catalogue
  <2>3. ~Restricted(call.gate)
    BY <1>1, <2>2 DEF NeedsEverything
  <2>4. Needs(cell[3]) = {}
    BY <2>1 DEF Needs
  <2> QED BY <1>4, <1>5, <2>1, <2>3, <2>4
<1>10. CASE route \notin {"GET info", "GET retention", "GET metrics", "GET metrics/system", "GET metrics/verbose",
                          "GET export", "POST exports/csv", "POST download-debug-bundle",
                          "PUT retention", "POST cleanup"}
  BY <1>10 DEF RouteReturns
<1> QED BY <1>6, <1>7, <1>8, <1>9, <1>10

LEMMA AnswerKeepsAccess == ASSUME AccessInv, Answer PROVE AccessInv'
<1> DEFINE actions == ReadPermissions(call.account, call.op, call.table)
           answer == decides["operation"]
<1>1. call.at = "decided" /\ call # NoCall /\ call' = NoCall /\ UNCHANGED <<replays, decides>>
  BY DEF Answer, NoCall
<1>2. /\ Within(call.scope, call.gate) /\ Lacking(call.account) \subseteq call.scope.deny
      /\ ~Refused(call.decision) /\ Within(call.scope, call.decision)
      /\ call.op \in Operation /\ call.table \in Table
  BY <1>1 DEF AccessInv, CallInv
<1>3. CASE outcome' = NoOutcome
  BY <1>1, <1>3 DEF AccessInv, CallInv, AnswersAreLawful, NoOutcome
<1>4. CASE /\ Check(call.account, actions, answer) = call.decision
           /\ outcome' = [cells |-> Returned(call.op, call.table, call.scope), made |-> {},
                          account |-> call.account, at |-> {call.gate, answer}]
  <2>1. Within(call.decision, answer)
    BY <1>2, <1>4, CheckedScope, ScopeIsWithin
  <2>2. Within(call.scope, answer)
    BY <1>2, <2>1 DEF Within
  <2>3. ASSUME NEW cell \in Returned(call.op, call.table, call.scope)
        PROVE  Needs(cell[3]) \subseteq Grants(call.account) /\ Admits(call.gate, cell) /\ Admits(answer, cell)
    <3>1. Admits(call.scope, cell)
      BY <1>2, <2>3, ReturnedIsAdmitted
    <3> QED BY <1>2, <2>2, <3>1, AdmittedIsLawful
  <2> HIDE DEF answer
  <2> QED BY <1>1, <1>4, <2>3 DEF AccessInv, CallInv, AnswersAreLawful
<1> QED BY <1>3, <1>4 DEF Answer, SameDecision

LEMMA HandleKeepsAccess == ASSUME AccessInv, Handle PROVE AccessInv'
<1>1. call.at = "gated" /\ call # NoCall /\ call' = NoCall /\ UNCHANGED <<replays, decides>>
  BY DEF Handle, NoCall
<1>2. CASE outcome' = NoOutcome
  BY <1>1, <1>2 DEF AccessInv, CallInv, AnswersAreLawful, NoOutcome
<1>3. CASE /\ ~ (replays /\ RoutePermission(call.route) \cap Changing # {})
           /\ ~ (RowScoped(call.scope) /\ call.route \in Unscoped)
           /\ outcome' = [cells |-> RouteReturns(call.route, call.scope),
                          made |-> RoutePermission(call.route) \cap Changing,
                          account |-> call.account, at |-> {call.gate}]
  <2>1. /\ RoutePermission(call.route) \subseteq Grants(call.account)
        /\ NeedsEverything(RoutePermission(call.route)) => ~Restricted(call.gate)
    BY <1>1 DEF AccessInv, CallInv, Authorized
  <2>2. \A cell \in RouteReturns(call.route, call.scope) :
            Needs(cell[3]) \subseteq Grants(call.account) /\ Admits(call.gate, cell)
    <3>1. call.route \in Route \ Unscoped \/ ~RowScoped(call.scope)
      BY <1>1, <1>3 DEF AccessInv, CallInv
    <3> QED BY <1>1, <3>1, HandledIsLawful
  <2>3. RoutePermission(call.route) \cap Changing # {} => ~replays /\ ~Restricted(call.gate)
    BY <1>3, <2>1 DEF NeedsEverything
  <2> QED BY <1>1, <1>3, <2>1, <2>2, <2>3 DEF AccessInv, CallInv, AnswersAreLawful
<1> QED BY <1>2, <1>3 DEF Handle

LEMMA GateKeepsAccess ==
    ASSUME AccessInv, NEW account \in Account, NEW route \in Route, Gate(account, route) PROVE AccessInv'
<1> DEFINE answer == decides["gate"]
           scope == Check(account, RoutePermission(route), answer)
<1>1. /\ ~Refused(scope) /\ outcome' = NoOutcome /\ UNCHANGED <<replays, decides>>
      /\ call' = [at |-> "gated", account |-> account, route |-> route, scope |-> scope, gate |-> answer]
  BY DEF Gate
<1>2. /\ scope = PrincipalScope(account, answer) /\ answer \notin {Denial, Unavailable}
      /\ Authorized(account, RoutePermission(route))
      /\ NeedsEverything(RoutePermission(route)) => ~Restricted(answer)
  BY <1>1, CheckedScope
<1>3. answer \in ReadScopes
  BY <1>2 DEF AccessInv
<1>4. Within(scope, answer) /\ Lacking(account) \subseteq scope.deny
  BY <1>2, ScopeIsWithin
<1> HIDE DEF answer, scope
<1>5. CallInv'
  <2>1. Authorized(account, RoutePermission(route))'
    BY <1>1, <1>2 DEF Authorized
  <2> QED BY <1>1, <1>2, <1>3, <1>4, <2>1 DEF CallInv
<1> QED BY <1>1, <1>5 DEF AccessInv, AnswersAreLawful, NoOutcome

LEMMA DecideKeepsAccess ==
    ASSUME AccessInv, NEW op \in Operation, NEW table \in Table, Decide(op, table) PROVE AccessInv'
<1> DEFINE actions == ReadPermissions(call.account, op, table)
           answer == decides["operation"]
           decision == Check(call.account, actions, answer)
           both == IntersectScopes(call.scope, decision)
<1>1. call.at = "gated" /\ call # NoCall /\ UNCHANGED <<replays, decides, outcome>>
  BY DEF Decide, NoCall
<1>2. CASE call' = NoCall
  BY <1>1, <1>2 DEF AccessInv, CallInv, AnswersAreLawful
<1>3. CASE /\ ~Refused(decision)
           /\ call' = [at |-> "decided", account |-> call.account, route |-> Catalogue,
                       scope |-> both, gate |-> call.gate, decision |-> decision, op |-> op, table |-> table]
  <2>1. /\ call.gate \in ReadScopes /\ Within(call.scope, call.gate)
        /\ Lacking(call.account) \subseteq call.scope.deny
    BY <1>1 DEF AccessInv, CallInv
  <2> HIDE DEF decision
  <2>2. Within(both, call.gate) /\ Within(both, decision) /\ Lacking(call.account) \subseteq both.deny
    BY <2>1 DEF Within, IntersectScopes
  <2> HIDE DEF both
  <2>3. CallInv'
    BY <1>3, <2>1, <2>2 DEF CallInv
  <2> QED BY <1>1, <2>3 DEF AccessInv, AnswersAreLawful
<1> QED BY <1>2, <1>3 DEF Decide

(* Whatever the policy becomes while a request is under way, each cell of an *)
(* answer is one that the role may see and that every decision behind it     *)
(* admits, and each change one that the role may make.                       *)
THEOREM LawfulAnswers == AccessSpec => []AnswersAreLawful
<1>1. AccessInit => AccessInv
  <2>1. EmptyScope \in ReadScopes
    BY DEF EmptyScope, ReadScopes
  <2> QED BY <2>1 DEF AccessInit, AccessInv, CallInv, AnswersAreLawful, NoOutcome
<1>2. AccessInv /\ [AccessNext]_accessVars => AccessInv'
  <2> SUFFICES ASSUME AccessInv, [AccessNext]_accessVars PROVE AccessInv'
    OBVIOUS
  <2>1. CASE UNCHANGED accessVars
    BY <2>1 DEF accessVars, AccessInv, CallInv, AnswersAreLawful, Authorized
  <2>2. ASSUME NEW context \in {"gate", "operation"}, NEW answer \in PolicyScope \cup {Denial, Unavailable},
               PolicyUpdate(context, answer)
        PROVE  AccessInv'
    BY <2>2, AccessAssumption DEF PolicyUpdate, AccessInv, CallInv, AnswersAreLawful, Authorized
  <2> QED
    BY <2>1, <2>2, GateKeepsAccess, HandleKeepsAccess, DecideKeepsAccess, AnswerKeepsAccess DEF AccessNext
<1>3. AccessInv => AnswersAreLawful
  BY DEF AccessInv
<1> QED BY <1>1, <1>2, <1>3, PTL DEF AccessSpec

-----------------------------------------------------------------------------
(* The way of a request.                                                     *)
(* How far a request has come says what has been checked: what is proven is  *)
(* of the interface and no way of signing in, what is admitted was allowed   *)
(* and gated, and a body is read within its limit, of a login or of what was *)
(* admitted.                                                                 *)
RequestFields == {"at", "method", "place", "sender", "back", "size", "proven", "allowed"}

Somewhere(p) == p.rest = "none" => p.base = "none"

Checked(r) ==
    /\ DOMAIN r = RequestFields /\ Somewhere(r.place)
    /\ r.at \in {"sent", "proven", "admitted", "reading", "waiting", "provider"}
    /\ r.size \in Nat /\ (r.at \notin {"reading", "waiting"} => r.size = 0)
    /\ r.at \in {"proven", "admitted"} => r.proven /\ Under(r.place) /\ ~SigningIn(r)
    /\ r.at = "admitted" => r.allowed /\ (Guarded(Normalized(r.place)) => Gated(r))
    /\ r.at = "provider" => Normalized(r.place) = "/api/auth/oidc" /\ r.method = "GET"
    /\ r.at = "reading" =>
        /\ r.method # "GET" /\ r.size <= Limit(r)
        /\ \/ Normalized(r.place) = "/api/auth/login"
           \/ r.proven /\ r.allowed /\ Under(r.place) /\ r.sender.origin = "own"

(* What was answered, and what it was asked for.                             *)
Earned(a) ==
    LET r == a.asked
    IN  /\ a.shows \in {"page", "data", "identity", "socket", "file"} =>
            \/ r.proven /\ Under(r.place) /\ (r.allowed \/ a.shows = "identity")
            \/ a.shows = "file" /\ Normalized(r.place) \in PublicFiles
        /\ a.shows \in {"data", "socket"} /\ Unsafe(r) => r.sender.origin = "own"
        /\ a.shows = "data" => r.size <= BodyLimit

(* A visit asks for its goal, for what it is to return to, or for the login  *)
(* page, or it signs in, always to return to where it wanted to go and after *)
(* no more redirects than that takes.                                        *)
Wanted == ReturnPath(visiting.goal)
LeadsBack(p) == ReturnPath(p) = Wanted

OnItsWay(r) ==
    \/ /\ r.method = "GET" /\ r.back = Anywhere
       /\ \/ r.place = visiting.goal /\ visiting.hops = 0
          \/ r.place = Wanted /\ visiting.hops <= 1
    \/ /\ LeadsBack(r.back)
       /\ \/ r.method = "GET" /\ r.place = LoginPlace /\ visiting.hops <= 2
          \/ r.method = "POST" /\ r.place = Place(Base, "/api/auth/login") /\ visiting.hops = 0
          \/ /\ r.method = "GET" /\ r.place = Place(Base, "/api/auth/oidc") /\ visiting.hops = 0
             /\ entrance.mode = "oidc"

LedOn(a) ==
    /\ a.shows = "page" => a.place = Wanted
    /\ a.shows = "login" => a.back = Wanted
    /\ a.shows = "redirect" =>
        \/ a.place = LoginPlace /\ LeadsBack(a.back) /\ visiting.hops <= 1
        \/ a.place = Wanted /\ a.back = Anywhere /\ visiting.hops = 0

RequestsInv ==
    /\ entrance.mode \in {"basic", "oidc"}
    /\ DOMAIN visiting = {"goal", "hops"} /\ visiting.hops \in 0..2
    /\ Somewhere(visiting.goal) /\ Somewhere(reply.place) /\ Somewhere(reply.back)
    /\ request # NoRequest => Checked(request)
    /\ Earned(reply)
    /\ IF visiting.goal = NoVisit.goal THEN visiting.hops = 0
       ELSE LedOn(reply) /\ (request # NoRequest => OnItsWay(request))

LEMMA ReturnsOnce ==
    ASSUME NEW p
    PROVE  /\ ReturnPath(ReturnPath(p)) = ReturnPath(p)
           /\ ReturnPath(p).rest \notin AuthRoutes \cup {"", "/login", "none"}
           /\ Under(ReturnPath(p)) /\ ReturnPath(p) # NoVisit.goal
           /\ ReturnPath(Anywhere) = Home /\ ReturnPath(Home) = Home
<1>1. /\ Home.rest = "/" /\ Home.base = Base /\ Base # "none"
      /\ Anywhere.base = "none" /\ NoVisit.goal.base = "none"
      BY DEF Home, Place, Base, Anywhere, NoReply, NoVisit
<1>2. QED  BY <1>1 DEF ReturnPath, Under, AuthRoutes

(* Nothing but the answer and the session changes.                           *)
LEMMA AnswerKeeps ==
    ASSUME RequestsInv, NEW a, Answered(a), UNCHANGED <<entrance, visiting>>,
           Somewhere(a.place), Somewhere(a.back), Earned(a), visiting.goal # NoVisit.goal => LedOn(a)
    PROVE  RequestsInv'
<1>1. Earned(reply)'
      BY DEF Answered, Earned, Under, Base, Normalized, Unsafe
<1>2. visiting.goal # NoVisit.goal => LedOn(reply)'
      BY DEF Answered, LedOn, Wanted, LeadsBack, ReturnPath, Under, Base, Home, LoginPlace
<1>3. Somewhere(reply.place)' /\ Somewhere(reply.back)' /\ Somewhere(visiting.goal)'
      BY DEF Answered, Somewhere, RequestsInv
<1>4. request' = NoRequest
      BY DEF Answered
<1>5. QED  BY <1>1, <1>2, <1>3, <1>4 DEF RequestsInv, NoVisit, NoRequest, Place

LEMMA NowhereFits == Somewhere(Anywhere)
BY DEF Somewhere, Anywhere, NoReply, Place

LEMMA RefusalKeeps ==
    ASSUME RequestsInv, NEW a, Answered(a), UNCHANGED <<entrance, visiting>>,
           a.shows \in {"error", "signed out", "probe", "access"}, Somewhere(a.place), a.back = Anywhere
    PROVE  RequestsInv'
<1>1. a.shows \notin {"page", "data", "identity", "socket", "file", "login", "redirect"}
      OBVIOUS
<1>2. Earned(a) /\ LedOn(a)
      BY <1>1 DEF Earned, LedOn
<1>3. Somewhere(a.back)
      BY NowhereFits
<1>4. QED  BY <1>2, <1>3, AnswerKeeps

LEMMA SaysIs ==
    ASSUME NEW status, NEW shows, NEW place
    PROVE  LET a == Says(status, shows, place)
           IN  /\ a.shows = shows /\ a.place = place /\ a.back = Anywhere /\ a.asked = request
               /\ Somewhere(Anywhere)
BY DEF Says, Somewhere, Anywhere, NoReply, Place

LEMMA OthersKeep ==
    ASSUME RequestsInv, NEW status, NEW shows \in {"error", "signed out", "probe", "access"},
           NEW place, Somewhere(place),
           Answered(Says(status, shows, place)), UNCHANGED <<entrance, visiting>>
    PROVE  RequestsInv'
<1> DEFINE a == Says(status, shows, place)
<1>1. a.shows = shows /\ a.place = place /\ a.back = Anywhere
      BY DEF Says
<1>2. Answered(a)
      OBVIOUS
<1> HIDE DEF a
<1>3. QED  BY <1>1, <1>2, RefusalKeeps

LEMMA RefusesKeeps ==
    ASSUME RequestsInv, NEW status, Answered(Refuses(status)), UNCHANGED <<entrance, visiting>>
    PROVE  RequestsInv'
BY OthersKeep, NowhereFits DEF Refuses

(* The request goes on as it is.                                             *)
LEMMA GoingOnKeeps ==
    ASSUME RequestsInv, request # NoRequest, NEW r, DOMAIN r = RequestFields, request' = r,
           r.method = request.method, r.place = request.place, r.back = request.back,
           Checked(r), UNCHANGED <<entrance, visiting, reply>>
    PROVE  RequestsInv'
<1>1. Checked(r)'
      BY DEF Checked, Somewhere, Under, Base, Normalized, SigningIn, Guarded, Gated, Unsafe, Known, Limit
<1>2. Earned(reply)' /\ (visiting.goal # NoVisit.goal => LedOn(reply)')
      BY DEF RequestsInv, Earned, Under, Base, Normalized, Unsafe, LedOn, Wanted, LeadsBack,
             ReturnPath, Home, LoginPlace
<1>3. visiting.goal # NoVisit.goal => OnItsWay(r)'
      BY DEF RequestsInv, OnItsWay, Wanted, LeadsBack, ReturnPath, Under, Base, Home, LoginPlace
<1>4. QED  BY <1>1, <1>2, <1>3 DEF RequestsInv, Somewhere

LEMMA SetsOfRoutes ==
    /\ AuthRoutes = {"/api/auth/login", "/api/auth/logout", "/api/auth/oidc", "/api/auth/identity"}
    /\ ProbeRoutes = {"/health", "/ready"} /\ PublicFiles = {"/assets/app.js", "/favicon.ico"}
    /\ Files = {"/assets/app.js", "/logo.svg"}
    /\ ApiRoutes = {"/api/config", "/api/settings/retention", "/api/observation/rpc", "/api/none",
                    "/mcp", "/metrics"}
BY DEF AuthRoutes, ProbeRoutes, PublicFiles, Files, ApiRoutes

(* What is asked for on the way is seen as a page only at the goal, and a    *)
(* place without a path is completed to where the visit returns.             *)
LEMMA WayIs ==
    ASSUME RequestsInv, request # NoRequest, visiting.goal # NoVisit.goal, ~SigningIn(request)
    PROVE  /\ request.place.rest = "" => Wanted = Home /\ visiting.hops = 0
           /\ /\ Under(request.place)
              /\ request.place.rest \notin AuthRoutes \cup {"", "/login"}
              => request.place = Wanted
           /\ request.method = "GET" /\ LeadsBack(request.place) /\ visiting.hops <= 1
<1>1. OnItsWay(request) /\ Somewhere(request.place) /\ Somewhere(visiting.goal)
      BY DEF RequestsInv, Checked
<1>2. /\ LoginPlace.rest = "/login" /\ Place(Base, "/api/auth/login").rest = "/api/auth/login"
      /\ Place(Base, "/api/auth/oidc").rest = "/api/auth/oidc" /\ Base # "none"
      BY DEF LoginPlace, Place, Base
<1>3. ~(request.method = "GET" /\ request.place = LoginPlace)
      BY <1>2 DEF SigningIn, Normalized
<1>4. request.place # Place(Base, "/api/auth/login")
      BY <1>2 DEF SigningIn, Normalized
<1>5. ~(request.method = "GET" /\ request.place = Place(Base, "/api/auth/oidc") /\ entrance.mode = "oidc")
      BY <1>2 DEF SigningIn, Normalized
<1>6. /\ request.method = "GET" /\ request.back = Anywhere
      /\ \/ request.place = visiting.goal /\ visiting.hops = 0
         \/ request.place = Wanted /\ visiting.hops <= 1
      BY <1>1, <1>3, <1>4, <1>5 DEF OnItsWay
<1>7. LeadsBack(request.place) /\ (request.place.rest = "" => request.place = visiting.goal)
      BY <1>6, ReturnsOnce DEF LeadsBack, Wanted
<1>8. visiting.hops \in 0..2
      BY DEF RequestsInv
<1>9. request.place.rest = "" => Wanted = Home /\ visiting.hops = 0
  <2>1. SUFFICES ASSUME request.place.rest = "" PROVE Wanted = Home /\ visiting.hops = 0
        OBVIOUS
  <2>2. request.place = visiting.goal /\ request.place # Wanted
        BY <1>7, <2>1, ReturnsOnce DEF Wanted
  <2>3. QED  BY <1>6, <2>1, <2>2 DEF Wanted, ReturnPath
<1>10. ASSUME Under(request.place), request.place.rest \notin AuthRoutes \cup {"", "/login"}
       PROVE  request.place = Wanted
  <2>1. request.place.rest # "none"
        BY <1>1, <1>2, <1>10 DEF Under, Somewhere
  <2>2. ReturnPath(request.place) = request.place
        BY <1>10, <2>1 DEF ReturnPath
  <2>3. QED  BY <1>7, <2>2 DEF LeadsBack
<1>11. visiting.hops <= 1
      BY <1>6, <1>8
<1>12. QED  BY <1>6, <1>7, <1>9, <1>10, <1>11

LEMMA AnsweredAsked ==
    ASSUME RequestsInv, request # NoRequest, NEW status, NEW shows, NEW place,
           shows \in {"page", "data", "file", "socket", "identity", "access", "redirect"},
           Answered(Says(status, shows, place)), UNCHANGED <<entrance, visiting>>,
           Somewhere(place),
           shows \in {"page", "data", "file", "socket", "identity"} =>
              \/ request.proven /\ Under(request.place) /\ (request.allowed \/ shows = "identity")
              \/ shows = "file" /\ Normalized(request.place) \in PublicFiles,
           shows \in {"data", "socket"} /\ Unsafe(request) => request.sender.origin = "own",
           shows = "data" => request.size <= BodyLimit,
           visiting.goal # NoVisit.goal =>
              /\ shows = "page" => place = Wanted
              /\ shows = "redirect" => place = Wanted /\ visiting.hops = 0
    PROVE  RequestsInv'
<1> DEFINE a == Says(status, shows, place)
<1>1. a.shows = shows /\ a.place = place /\ a.back = Anywhere /\ a.asked = request
      BY SaysIs
<1>2. Answered(a)
      OBVIOUS
<1> HIDE DEF a
<1>3. Earned(a)
  <2>1. SUFFICES
          /\ shows \in {"page", "data", "identity", "socket", "file"} =>
              \/ request.proven /\ Under(request.place) /\ (request.allowed \/ shows = "identity")
              \/ shows = "file" /\ Normalized(request.place) \in PublicFiles
          /\ shows \in {"data", "socket"} /\ Unsafe(request) => request.sender.origin = "own"
          /\ shows = "data" => request.size <= BodyLimit
        BY <1>1, Zenon DEF Earned
  <2>2. QED  OBVIOUS
<1>4. visiting.goal # NoVisit.goal => LedOn(a)
      BY <1>1 DEF LedOn
<1>5. Somewhere(a.place) /\ Somewhere(a.back)
      BY <1>1, NowhereFits
<1>6. QED  BY <1>2, <1>3, <1>4, <1>5, AnswerKeeps

LEMMA MayBeData ==
    ASSUME RequestsInv, request # NoRequest, request.at = "admitted", Guarded(Normalized(request.place))
    PROVE  /\ request.proven /\ Under(request.place) /\ request.allowed
           /\ Unsafe(request) => request.sender.origin = "own"
           /\ request.size <= BodyLimit /\ Somewhere(request.place)
<1>1. Checked(request) /\ BodyLimit \in Nat
      BY RequestsAssumption DEF RequestsInv
<1>2. request.size = 0 /\ Gated(request)
      BY <1>1 DEF Checked
<1>3. QED  BY <1>1, <1>2 DEF Checked, Gated

LEMMA DataKeeps ==
    ASSUME RequestsInv, request # NoRequest, request.at = "admitted", Guarded(Normalized(request.place)),
           NEW status, NEW shows \in {"data", "socket", "file", "page"},
           Answered(Says(status, shows, request.place)), UNCHANGED <<entrance, visiting>>,
           shows # "page"
    PROVE  RequestsInv'
BY MayBeData, AnsweredAsked

LEMMA ReadingKeeps ==
    ASSUME RequestsInv, request # NoRequest, request.at = "admitted", Guarded(Normalized(request.place)),
           request.method # "GET", GoesOn(request, "reading"), UNCHANGED <<entrance, visiting>>
    PROVE  RequestsInv'
<1> DEFINE r == [request EXCEPT !.at = "reading"]
<1>1. Checked(request) /\ LoginLimit \in Nat /\ BodyLimit \in Nat
      BY RequestsAssumption DEF RequestsInv
<1>2. DOMAIN request = RequestFields /\ request.size = 0
      BY <1>1 DEF Checked
<1>3. /\ DOMAIN r = RequestFields /\ r.at = "reading" /\ r.method = request.method
      /\ r.place = request.place /\ r.back = request.back /\ r.sender = request.sender
      /\ r.size = 0 /\ r.proven = request.proven /\ r.allowed = request.allowed
      BY <1>2 DEF RequestFields
<1>4. request' = r /\ reply' = reply
      BY DEF GoesOn
<1> HIDE DEF r
<1>5. request.sender.origin = "own"
      BY MayBeData DEF Unsafe
<1>6. Limit(r) \in Nat
      BY <1>1 DEF Limit
<1>7. Checked(r)
      BY <1>1, <1>3, <1>5, <1>6, MayBeData DEF Checked
<1>8. QED  BY <1>3, <1>4, <1>7, GoingOnKeeps

LEMMA WaitingKeeps ==
    ASSUME RequestsInv, request # NoRequest, NEW at \in {"waiting"},
           GoesOn(request, at), UNCHANGED <<entrance, visiting>>
    PROVE  RequestsInv'
<1> DEFINE r == [request EXCEPT !.at = at]
<1>1. Checked(request)
      BY DEF RequestsInv
<1>2. DOMAIN request = RequestFields
      BY <1>1 DEF Checked
<1>3. /\ DOMAIN r = RequestFields /\ r.at = "waiting" /\ r.method = request.method
      /\ r.place = request.place /\ r.back = request.back /\ r.size = request.size
      BY <1>2 DEF RequestFields
<1>4. request' = r /\ reply' = reply
      BY DEF GoesOn
<1> HIDE DEF r
<1>5. Checked(r)
      BY <1>1, <1>3 DEF Checked
<1>6. QED  BY <1>3, <1>4, <1>5, GoingOnKeeps

(* What is open is misplaced, a probe or a file of the login page.           *)
LEMMA DispatchKeeps ==
    ASSUME RequestsInv, request # NoRequest, request.at \in {"sent", "admitted"},
           request.at = "sent" => Open(request.place),
           Dispatch(request), UNCHANGED <<entrance, visiting>>
    PROVE  RequestsInv'
<1> DEFINE rest == Normalized(request.place)
<1>1. Checked(request) /\ Somewhere(request.place)
      BY DEF RequestsInv, Checked
<1>2. ASSUME Misplaced(request) PROVE RequestsInv'
  <2>1. CASE request.place.rest = ""
    <3>1. Answered(Says(308, "redirect", Home))
          BY <1>2, <2>1 DEF Dispatch, Completes, Redirects
    <3>2. ~SigningIn(request)
          BY <2>1 DEF SigningIn, Normalized
    <3>3. Somewhere(Home)
          BY DEF Somewhere, Home, Place
    <3>4. visiting.goal # NoVisit.goal => Home = Wanted /\ visiting.hops = 0
          BY <2>1, <3>2, WayIs
    <3>5. QED  BY <3>1, <3>3, <3>4, AnsweredAsked
  <2>2. CASE request.place.rest # ""
    <3>1. Answered(Refuses(404))
          BY <1>2, <2>2 DEF Dispatch, Completes
    <3>2. QED  BY <3>1, RefusesKeeps
  <2>3. QED  BY <2>1, <2>2
<1>3. ASSUME ~Misplaced(request) PROVE RequestsInv'
  <2>1. /\ rest # "" /\ rest = request.place.rest
        /\ Under(request.place) \/ rest \in ProbeRoutes
        /\ request.at = "admitted" \/ rest \in ProbeRoutes \cup PublicFiles
        BY <1>3 DEF Misplaced, Open, Normalized
  <2>2. CASE rest \in {"/api/config", "/mcp", "/metrics"}
    <3>1. Answered(Says(200, "data", request.place))
          BY <1>3, <2>2, SetsOfRoutes DEF Dispatch
    <3>2. request.at = "admitted" /\ Guarded(rest)
          BY <2>1, <2>2, SetsOfRoutes DEF Guarded
    <3>3. QED  BY <3>1, <3>2, DataKeeps
  <2>3. CASE rest = "/api/settings/retention"
    <3>1. IF request.method = "PUT" THEN GoesOn(request, "reading")
          ELSE Answered(Says(200, "data", request.place))
          BY <1>3, <2>3, SetsOfRoutes DEF Dispatch
    <3>2. request.at = "admitted" /\ Guarded(rest)
          BY <2>1, <2>3, SetsOfRoutes DEF Guarded
    <3>3. QED  BY <3>1, <3>2, DataKeeps, ReadingKeeps
  <2>4. CASE rest = "/api/observation/rpc"
    <3>1. Operates(request)
          BY <1>3, <2>4, SetsOfRoutes DEF Dispatch
    <3>2. request.at = "admitted" /\ Guarded(rest)
          BY <2>1, <2>4, SetsOfRoutes DEF Guarded
    <3>3. \/ Answered(Says(101, "socket", request.place))
          \/ Answered(Refuses(400)) \/ Answered(Refuses(405))
          \/ request.method # "GET" /\ GoesOn(request, "reading")
          BY <3>1 DEF Operates
    <3>4. QED  BY <3>2, <3>3, DataKeeps, ReadingKeeps, RefusesKeeps
  <2>5. CASE rest = "/ready"
    <3>1. GoesOn(request, "waiting")
          BY <1>3, <2>5, SetsOfRoutes DEF Dispatch
    <3>2. QED  BY <3>1, WaitingKeeps
  <2>6. CASE rest = "/health"
    <3>1. Answered(Says(200, "probe", request.place))
          BY <1>3, <2>6, SetsOfRoutes DEF Dispatch
    <3>2. QED  BY <1>1, <3>1, OthersKeep
  <2>7. CASE rest \in {"/api/none", "/apis"} \cup AuthRoutes
    <3>1. Answered(Refuses(404))
          BY <1>3, <2>7, SetsOfRoutes DEF Dispatch
    <3>2. QED  BY <3>1, RefusesKeeps
  <2>8. CASE rest \in PublicFiles \cup Files
    <3>1. Answered(Says(200, "file", request.place)) \/ Answered(Refuses(404))
          BY <1>3, <2>8, SetsOfRoutes DEF Dispatch, ServesFile
    <3>2. \/ request.proven /\ Under(request.place) /\ request.allowed
          \/ rest \in PublicFiles
          BY <1>1, <2>1, <2>8, SetsOfRoutes DEF Checked
    <3>3. QED  BY <1>1, <3>1, <3>2, AnsweredAsked, RefusesKeeps
  <2>9. CASE rest \notin {"/api/config", "/mcp", "/metrics", "/api/settings/retention",
                          "/api/observation/rpc", "/ready", "/health", "/api/none", "/apis"}
                         \cup AuthRoutes \cup PublicFiles \cup Files
    <3>1. Answered(Says(200, "page", request.place))
          BY <1>3, <2>9, SetsOfRoutes DEF Dispatch
    <3>2. request.at = "admitted"
          BY <2>1, <2>9, SetsOfRoutes
    <3>3. request.proven /\ Under(request.place) /\ request.allowed /\ ~SigningIn(request)
          BY <1>1, <3>2 DEF Checked
    <3>4. visiting.goal # NoVisit.goal => request.place = Wanted
      <4>1. CASE rest = "/login"
        <5>1. request.method # "GET"
              BY <3>3, <4>1 DEF SigningIn
        <5>2. QED  BY <3>3, <5>1, WayIs
      <4>2. CASE rest # "/login"
            BY <2>1, <2>9, <3>3, <4>2, WayIs
      <4>3. QED  BY <4>1, <4>2
    <3>5. QED  BY <1>1, <3>1, <3>3, <3>4, AnsweredAsked
  <2>10. QED
         BY <2>2, <2>3, <2>4, <2>5, <2>6, <2>7, <2>8, <2>9
<1>4. QED  BY <1>2, <1>3

(* The answers of signing in.                                                *)
LEMMA LedKeeps ==
    ASSUME RequestsInv, NEW a, Answered(a), UNCHANGED <<entrance, visiting>>,
           a.shows \in {"redirect", "login"}, Somewhere(a.place), Somewhere(a.back),
           visiting.goal # NoVisit.goal => LedOn(a)
    PROVE  RequestsInv'
<1>1. a.shows \notin {"page", "data", "identity", "socket", "file"}
      OBVIOUS
<1>2. Earned(a)
      BY <1>1 DEF Earned
<1>3. QED  BY <1>2, AnswerKeeps

LEMMA LoginPlaceFits == Somewhere(LoginPlace) /\ \A p : Somewhere(ReturnPath(p))
<1>1. Somewhere(LoginPlace)
      BY DEF Somewhere, LoginPlace, Place
<1>2. QED  BY <1>1, ReturnsOnce DEF Somewhere

LEMMA ToLoginIs ==
    ASSUME NEW back
    PROVE  /\ ToLogin(back).shows = "redirect" /\ ToLogin(back).place = LoginPlace
           /\ ToLogin(back).back = back
BY DEF ToLogin, Redirects, Says

LEMMA LoginFormIs ==
    ASSUME NEW status, NEW back
    PROVE  LoginForm(status, back).shows = "login" /\ LoginForm(status, back).place = LoginPlace
           /\ LoginForm(status, back).back = back
BY DEF LoginForm, Says

LEMMA FormKeeps ==
    ASSUME RequestsInv, NEW status, NEW p, Answered(LoginForm(status, ReturnPath(p))),
           UNCHANGED <<entrance, visiting>>, visiting.goal # NoVisit.goal => LeadsBack(p)
    PROVE  RequestsInv'
<1> DEFINE a == LoginForm(status, ReturnPath(p))
<1>1. a.shows = "login" /\ a.place = LoginPlace /\ a.back = ReturnPath(p)
      BY LoginFormIs
<1>2. Answered(a)
      OBVIOUS
<1> HIDE DEF a
<1>3. visiting.goal # NoVisit.goal => LedOn(a)
      BY <1>1 DEF LedOn, LeadsBack
<1>4. QED  BY <1>1, <1>2, <1>3, LedKeeps, LoginPlaceFits

LEMMA ReturnKeeps ==
    ASSUME RequestsInv, NEW p, Answered(Redirects(303, ReturnPath(p))),
           UNCHANGED <<entrance, visiting>>, visiting.goal # NoVisit.goal => LeadsBack(p) /\ visiting.hops = 0
    PROVE  RequestsInv'
<1> DEFINE a == Redirects(303, ReturnPath(p))
<1>1. a.shows = "redirect" /\ a.place = ReturnPath(p) /\ a.back = Anywhere
      BY DEF Redirects, Says
<1>2. Answered(a)
      OBVIOUS
<1> HIDE DEF a
<1>3. visiting.goal # NoVisit.goal => LedOn(a)
      BY <1>1 DEF LedOn, LeadsBack
<1>4. QED  BY <1>1, <1>2, <1>3, LedKeeps, LoginPlaceFits, NowhereFits

LEMMA FailureKeeps ==
    ASSUME RequestsInv, request # NoRequest, ~SigningIn(request),
           NEW status, Answered(Failure(request, status)), UNCHANGED <<entrance, visiting>>
    PROVE  RequestsInv'
<1>1. Somewhere(request.place)
      BY DEF RequestsInv, Checked
<1>2. CASE Failure(request, status) = Refuses(status)
      BY <1>2, RefusesKeeps
<1>3. CASE Failure(request, status) = Says(status, "access", request.place)
      BY <1>1, <1>3, OthersKeep
<1>4. CASE Failure(request, status) = ToLogin(request.place) /\ request.method = "GET"
  <2> DEFINE a == ToLogin(request.place)
  <2>1. a.shows = "redirect" /\ a.place = LoginPlace /\ a.back = request.place
        BY ToLoginIs
  <2>2. Answered(a)
        BY <1>4
  <2> HIDE DEF a
  <2>3. visiting.goal # NoVisit.goal => LedOn(a)
        BY <1>4, <2>1, WayIs DEF LedOn
  <2>4. QED  BY <1>1, <2>1, <2>2, <2>3, LedKeeps, LoginPlaceFits
<1>5. QED  BY <1>2, <1>3, <1>4 DEF Failure

(* Where a visit signs in, it is told where to lead back.                    *)
LEMMA SigningLeadsBack ==
    ASSUME RequestsInv, request # NoRequest, visiting.goal # NoVisit.goal,
           request.place.rest \in AuthRoutes \cup {"/login"}
    PROVE  /\ LeadsBack(request.back)
           /\ request.place.rest \in AuthRoutes => visiting.hops = 0
<1>1. OnItsWay(request)
      BY DEF RequestsInv
<1>2. request.place # Wanted
      BY ReturnsOnce DEF Wanted
<1>3. LoginPlace.rest = "/login" /\ "/login" \notin AuthRoutes
      BY DEF LoginPlace, Place, AuthRoutes
<1>4. CASE request.place = visiting.goal /\ request.back = Anywhere /\ visiting.hops = 0
  <2>1. ReturnPath(visiting.goal) = Home
        BY <1>4 DEF ReturnPath
  <2>2. QED  BY <1>4, <2>1, ReturnsOnce DEF LeadsBack, Wanted
<1>5. QED  BY <1>1, <1>2, <1>3, <1>4 DEF OnItsWay

LEMMA HandlesKeeps ==
    ASSUME RequestsInv, request.at = "sent", HandlesSignIn(request), SigningIn(request),
           UNCHANGED <<entrance, visiting>>
    PROVE  RequestsInv'
<1> DEFINE rest == Normalized(request.place)
<1>1. request # NoRequest
      BY DEF NoRequest
<1>2. Checked(request) /\ LoginLimit \in Nat
      BY <1>1, RequestsAssumption DEF RequestsInv
<1>3. CASE Answered(LoginForm(200, ReturnPath(request.back))) /\ rest = "/login"
      BY <1>1, <1>3, FormKeeps, SigningLeadsBack DEF Normalized
<1>4. CASE \E status : Answered(Refuses(status))
      BY <1>4, RefusesKeeps
<1>5. CASE Answered(Says(204, "signed out", Anywhere))
      BY <1>5, OthersKeep, NowhereFits
<1>6. CASE GoesOn(request, "provider") /\ rest = "/api/auth/oidc"
  <2> DEFINE r == [request EXCEPT !.at = "provider"]
  <2>1. DOMAIN request = RequestFields
        BY <1>2 DEF Checked
  <2>2. /\ DOMAIN r = RequestFields /\ r.at = "provider" /\ r.method = request.method
        /\ r.place = request.place /\ r.back = request.back /\ r.size = request.size
        BY <2>1 DEF RequestFields
  <2>3. request' = r /\ reply' = reply
        BY <1>6 DEF GoesOn
  <2> HIDE DEF r
  <2>4. request.method = "GET"
        BY <1>6 DEF SigningIn
  <2>5. Checked(r)
        BY <1>2, <1>6, <2>2, <2>4 DEF Checked, Normalized
  <2>6. QED  BY <1>1, <2>2, <2>3, <2>5, GoingOnKeeps
<1>7. CASE GoesOn(request, "reading") /\ rest = "/api/auth/login" /\ request.method = "POST"
  <2> DEFINE r == [request EXCEPT !.at = "reading"]
  <2>1. DOMAIN request = RequestFields
        BY <1>2 DEF Checked
  <2>2. /\ DOMAIN r = RequestFields /\ r.at = "reading" /\ r.method = request.method
        /\ r.place = request.place /\ r.back = request.back /\ r.size = request.size
        BY <2>1 DEF RequestFields
  <2>3. request' = r /\ reply' = reply
        BY <1>7 DEF GoesOn
  <2> HIDE DEF r
  <2>4. r.size = 0 /\ Limit(r) = LoginLimit
        BY <1>2, <1>7, <2>2 DEF Checked, Limit, Normalized
  <2>5. Checked(r)
        BY <1>2, <1>7, <2>2, <2>4 DEF Checked, Normalized
  <2>6. QED  BY <1>1, <2>2, <2>3, <2>5, GoingOnKeeps
<1>8. rest \in {"/api/auth/login", "/api/auth/logout", "/login", "/api/auth/oidc"}
      BY DEF SigningIn
<1>9. QED  BY <1>3, <1>4, <1>5, <1>6, <1>7, <1>8 DEF HandlesSignIn

LEMMA ServeKeeps == ASSUME RequestsInv, Serve PROVE RequestsInv'
<1>1. request.at = "sent" /\ request # NoRequest /\ UNCHANGED <<entrance, visiting>>
      BY DEF Serve, NoRequest
<1>2. Checked(request)
      BY <1>1 DEF RequestsInv
<1>3. CASE Open(request.place)
      BY <1>1, <1>3, DispatchKeeps DEF Serve
<1>4. CASE ~Open(request.place) /\ SigningIn(request)
      BY <1>1, <1>4, HandlesKeeps DEF Serve
<1>5. CASE ~Open(request.place) /\ ~SigningIn(request)
  <2>1. CASE \E status : Answered(Failure(request, status))
        BY <1>1, <1>5, <2>1, FailureKeeps
  <2>2. CASE GoesOn([request EXCEPT !.proven = TRUE], "proven")
    <3> DEFINE q == [request EXCEPT !.proven = TRUE]
               r == [q EXCEPT !.at = "proven"]
    <3>1. DOMAIN request = RequestFields
          BY <1>2 DEF Checked
    <3>2. /\ DOMAIN q = RequestFields /\ q.proven /\ q.method = request.method /\ q.size = request.size
          /\ q.place = request.place /\ q.back = request.back
          BY <3>1 DEF RequestFields
    <3>3. request' = r /\ reply' = reply
          BY <2>2 DEF GoesOn
    <3> HIDE DEF q
    <3>4. /\ DOMAIN r = RequestFields /\ r.at = "proven" /\ r.method = request.method
          /\ r.place = request.place /\ r.back = request.back /\ r.size = request.size /\ r.proven
          BY <3>2 DEF RequestFields
    <3> HIDE DEF r
    <3>5. Under(r.place) /\ ~SigningIn(r)
          BY <1>5, <3>4 DEF Open, SigningIn
    <3>6. Checked(r)
          BY <1>1, <1>2, <3>4, <3>5 DEF Checked
    <3>7. QED  BY <1>1, <3>3, <3>4, <3>6, GoingOnKeeps
  <2>3. QED  BY <1>5, <2>1, <2>2 DEF Serve
<1>6. QED  BY <1>3, <1>4, <1>5

LEMMA DecidesKeeps == ASSUME RequestsInv, Decides PROVE RequestsInv'
<1> DEFINE rest == Normalized(request.place)
           identity == rest = "/api/auth/identity" /\ request.method = "GET"
<1>1. request.at = "proven" /\ request # NoRequest /\ UNCHANGED <<entrance, visiting>>
      BY DEF Decides, NoRequest
<1>2. Checked(request)
      BY <1>1 DEF RequestsInv
<1>3. request.proven /\ Under(request.place) /\ ~SigningIn(request) /\ Somewhere(request.place)
      BY <1>1, <1>2 DEF Checked
<1>4. CASE \E status : Answered(Failure(request, status))
      BY <1>1, <1>3, <1>4, FailureKeeps
<1>5. CASE Answered(Says(200, "identity", request.place))
      BY <1>1, <1>3, <1>5, AnsweredAsked
<1>6. CASE /\ Guarded(rest) /\ ~identity => Gated(request)
           /\ ~identity /\ GoesOn([request EXCEPT !.allowed = TRUE], "admitted")
  <2> DEFINE q == [request EXCEPT !.allowed = TRUE]
             r == [q EXCEPT !.at = "admitted"]
  <2>1. DOMAIN request = RequestFields
        BY <1>2 DEF Checked
  <2>2. /\ DOMAIN q = RequestFields /\ q.allowed /\ q.proven = request.proven /\ q.method = request.method
        /\ q.size = request.size /\ q.place = request.place /\ q.back = request.back /\ q.sender = request.sender
        BY <2>1 DEF RequestFields
  <2>3. request' = r /\ reply' = reply
        BY <1>6 DEF GoesOn
  <2> HIDE DEF q
  <2>4. /\ DOMAIN r = RequestFields /\ r.at = "admitted" /\ r.method = request.method
        /\ r.place = request.place /\ r.back = request.back /\ r.size = request.size
        /\ r.proven = request.proven /\ r.allowed /\ r.sender = request.sender
        BY <2>2 DEF RequestFields
  <2> HIDE DEF r
  <2>5. ~SigningIn(r) /\ (Guarded(Normalized(r.place)) => Gated(r))
        BY <1>3, <1>6, <2>4 DEF SigningIn, Gated, Unsafe, Known
  <2>6. Checked(r)
        BY <1>1, <1>2, <1>3, <2>4, <2>5 DEF Checked
  <2>7. QED  BY <1>1, <2>3, <2>4, <2>6, GoingOnKeeps
<1>7. QED  BY <1>4, <1>5, <1>6 DEF Decides

LEMMA LooksOpen ==
    ASSUME RequestsInv, request.at \in {"reading", "waiting", "provider", "admitted"}
    PROVE  request # NoRequest /\ Checked(request) /\ Somewhere(request.place)
<1>1. request # NoRequest
      BY DEF NoRequest
<1>2. QED  BY <1>1 DEF RequestsInv, Checked

LEMMA ReceivesKeeps == ASSUME RequestsInv, NEW n \in Piece, Receives(n) PROVE RequestsInv'
<1>1. request.at = "reading" /\ UNCHANGED <<entrance, visiting>>
      BY DEF Receives
<1>2. request # NoRequest /\ Checked(request) /\ n \in Nat
      BY <1>1, LooksOpen, RequestsAssumption
<1>3. CASE Answered(Refuses(413))
      BY <1>1, <1>3, RefusesKeeps
<1>4. CASE /\ ~(request.size + n > Limit(request)) /\ UNCHANGED reply
           /\ request' = [request EXCEPT !.size = @ + n]
  <2> DEFINE r == [request EXCEPT !.size = @ + n]
  <2>1. DOMAIN request = RequestFields /\ request.size \in Nat /\ Limit(request) \in Nat
        BY <1>2, RequestsAssumption DEF Checked, Limit
  <2>2. /\ DOMAIN r = RequestFields /\ r.at = "reading" /\ r.method = request.method
        /\ r.place = request.place /\ r.back = request.back /\ r.size = request.size + n
        /\ r.proven = request.proven /\ r.allowed = request.allowed /\ r.sender = request.sender
        BY <1>1, <2>1 DEF RequestFields
  <2>3. request' = r
        BY <1>4
  <2> HIDE DEF r
  <2>4. Limit(r) = Limit(request) /\ r.size \in Nat /\ r.size <= Limit(r)
        BY <1>2, <1>4, <2>1, <2>2 DEF Limit
  <2>5. Checked(r)
        BY <1>1, <1>2, <2>2, <2>4 DEF Checked
  <2>6. QED  BY <1>1, <1>2, <1>4, <2>2, <2>3, <2>5, GoingOnKeeps
<1>5. QED  BY <1>3, <1>4 DEF Receives

LEMMA UnderstoodKeeps == ASSUME RequestsInv, NEW readable, Understood(readable) PROVE RequestsInv'
<1>1. request.at = "reading" /\ Normalized(request.place) # "/api/auth/login" /\ UNCHANGED <<entrance, visiting>>
      BY DEF Understood
<1>2. request # NoRequest /\ Checked(request) /\ Somewhere(request.place)
      BY <1>1, LooksOpen
<1>3. CASE \E status : Answered(Refuses(status))
      BY <1>1, <1>3, RefusesKeeps
<1>4. CASE Answered(Says(200, "data", request.place))
  <2>1. /\ request.proven /\ request.allowed /\ Under(request.place) /\ request.sender.origin = "own"
        /\ request.size <= BodyLimit
        BY <1>1, <1>2 DEF Checked, Limit
  <2>2. QED  BY <1>1, <1>2, <1>4, <2>1, AnsweredAsked
<1>5. QED  BY <1>3, <1>4 DEF Understood

LEMMA LogsInKeeps == ASSUME RequestsInv, NEW right, LogsIn(right) PROVE RequestsInv'
<1>1. request.at = "reading" /\ request.place.rest = "/api/auth/login" /\ UNCHANGED <<entrance, visiting>>
      BY DEF LogsIn, Normalized
<1>2. request # NoRequest
      BY <1>1, LooksOpen
<1>3. visiting.goal # NoVisit.goal => LeadsBack(request.back) /\ visiting.hops = 0
      BY <1>1, <1>2, SigningLeadsBack, SetsOfRoutes
<1>4. \/ Answered(Refuses(400)) \/ Answered(Redirects(303, ReturnPath(request.back)))
      \/ Answered(LoginForm(401, ReturnPath(request.back)))
      BY DEF LogsIn
<1>5. QED  BY <1>1, <1>3, <1>4, RefusesKeeps, ReturnKeeps, FormKeeps

(* What fails at the provider leads on to the start.                         *)
LEMMA ProviderKeeps == ASSUME RequestsInv, NEW granted, ProviderAnswers(granted) PROVE RequestsInv'
<1>1. request.at = "provider" /\ UNCHANGED entrance
      BY DEF ProviderAnswers
<1>2. request # NoRequest /\ Checked(request)
      BY <1>1, LooksOpen
<1>3. request.place.rest = "/api/auth/oidc"
      BY <1>1, <1>2 DEF Checked, Normalized
<1>4. visiting.goal # NoVisit.goal => LeadsBack(request.back) /\ visiting.hops = 0
      BY <1>2, <1>3, SigningLeadsBack, SetsOfRoutes
<1>5. CASE Answered(Redirects(303, ReturnPath(request.back))) /\ UNCHANGED visiting
      BY <1>1, <1>4, <1>5, ReturnKeeps
<1>6. CASE Answered(ToLogin(Anywhere)) /\ visiting' = [visiting EXCEPT !.goal = Home]
  <2>1. DOMAIN visiting = {"goal", "hops"} /\ visiting.hops = 0
        BY <1>4 DEF RequestsInv
  <2>2. visiting'.goal = Home /\ visiting'.hops = 0 /\ DOMAIN visiting' = {"goal", "hops"}
        BY <1>6, <2>1
  <2>3. /\ reply'.shows = "redirect" /\ reply'.place = LoginPlace /\ reply'.back = Anywhere
        /\ request' = NoRequest
        BY <1>6, ToLoginIs DEF Answered
  <2>4. Earned(reply)'
        BY <2>3 DEF Earned
  <2>5. LoginPlace' = LoginPlace /\ Home' = Home
        BY <1>1 DEF LoginPlace, Home, Base
  <2>6. LeadsBack(reply.back)'
        BY <1>1, <2>2, <2>3, ReturnsOnce DEF LeadsBack, Wanted, ReturnPath, Under, Base, Home
  <2>7. LedOn(reply)'
        BY <2>2, <2>3, <2>5, <2>6 DEF LedOn
  <2>8. Somewhere(Home) /\ Somewhere(LoginPlace) /\ Somewhere(Anywhere)
        BY ReturnsOnce, LoginPlaceFits, NowhereFits
  <2>9. Somewhere(visiting.goal)' /\ Somewhere(reply.place)' /\ Somewhere(reply.back)'
        BY <2>2, <2>3, <2>8 DEF Somewhere
  <2>10. QED  BY <1>1, <2>2, <2>3, <2>4, <2>7, <2>9 DEF RequestsInv
<1>7. QED  BY <1>5, <1>6 DEF ProviderAnswers

LEMMA WaitKeeps ==
    ASSUME RequestsInv, Waits \/ TooLong \/ \E well \in BOOLEAN : DatabaseSays(well) PROVE RequestsInv'
<1>1. request.at \in {"waiting", "reading"} /\ UNCHANGED <<entrance, visiting>>
      BY DEF Waits, TooLong, DatabaseSays
<1>2. request # NoRequest /\ Checked(request) /\ Somewhere(request.place)
      BY <1>1, LooksOpen
<1>3. CASE \E status : Answered(Refuses(status))
      BY <1>1, <1>3, RefusesKeeps
<1>4. CASE Answered(Says(200, "probe", request.place))
      BY <1>1, <1>2, <1>4, OthersKeep
<1>5. CASE request.at = "waiting" /\ request' = [request EXCEPT !.size = @ + 1] /\ UNCHANGED reply
  <2> DEFINE r == [request EXCEPT !.size = @ + 1]
  <2>1. DOMAIN request = RequestFields /\ request.size \in Nat
        BY <1>2 DEF Checked
  <2>2. /\ DOMAIN r = RequestFields /\ r.at = "waiting" /\ r.method = request.method
        /\ r.place = request.place /\ r.back = request.back /\ r.size \in Nat
        BY <1>5, <2>1 DEF RequestFields
  <2>3. request' = r
        BY <1>5
  <2> HIDE DEF r
  <2>4. Checked(r)
        BY <1>2, <2>2 DEF Checked
  <2>5. QED  BY <1>1, <1>2, <1>5, <2>2, <2>3, <2>4, GoingOnKeeps
<1>6. QED  BY <1>3, <1>4, <1>5 DEF Waits, TooLong, DatabaseSays

(* A request that is sent: for the goal, for what it returns to, or to sign  *)
(* in and be led back.                                                       *)
LEMMA SendsKeeps ==
    ASSUME RequestsInv, NEW method, NEW place, NEW sender, NEW back, NEW goal, NEW hops \in 0..2,
           Sends(Asks(method, place, sender, back), goal, hops), Somewhere(place), Somewhere(goal),
           goal = NoVisit.goal => hops = 0,
           goal # NoVisit.goal =>
              \/ /\ method = "GET" /\ back = Anywhere
                 /\ (place = goal /\ hops = 0) \/ (place = ReturnPath(goal) /\ hops <= 1)
              \/ /\ ReturnPath(back) = ReturnPath(goal)
                 /\ \/ method = "GET" /\ place = LoginPlace
                    \/ method = "POST" /\ place = Place(Base, "/api/auth/login") /\ hops = 0
                    \/ /\ method = "GET" /\ place = Place(Base, "/api/auth/oidc") /\ hops = 0
                       /\ entrance.mode = "oidc"
    PROVE  RequestsInv'
<1> DEFINE r == Asks(method, place, sender, back)
<1>1. /\ DOMAIN r = RequestFields /\ r.at = "sent" /\ r.method = method /\ r.place = place
      /\ r.back = back /\ r.size = 0 /\ r # NoRequest
      BY DEF Asks, RequestFields, NoRequest
<1>2. /\ request' = r /\ reply' = NoReply /\ UNCHANGED entrance
      /\ visiting'.goal = goal /\ visiting'.hops = hops /\ DOMAIN visiting' = {"goal", "hops"}
      BY DEF Sends
<1> HIDE DEF r
<1>3. Checked(r)'
      BY <1>1, <1>2 DEF Checked, Somewhere
<1>4. Checked(request)'
      BY <1>2, <1>3
<1>5. NoReply.shows = "none" /\ NoReply.place = Anywhere /\ NoReply.back = Anywhere
      BY DEF NoReply, Anywhere
<1>6. Earned(reply)' /\ LedOn(reply)'
      BY <1>2, <1>5 DEF Earned, LedOn
<1>7. Somewhere(visiting.goal)' /\ Somewhere(reply.place)' /\ Somewhere(reply.back)'
      BY <1>2, <1>5, NowhereFits DEF Somewhere
<1>8. ASSUME goal # NoVisit.goal PROVE OnItsWay(request)'
  <2>1. Wanted' = ReturnPath(goal)
        BY <1>2 DEF Wanted, ReturnPath, Under, Base, Home
  <2>2. LeadsBack(request.back)' <=> ReturnPath(back) = ReturnPath(goal)
    <3>1. ReturnPath(request.back)' = ReturnPath(back)
          BY <1>1, <1>2 DEF ReturnPath, Under, Base, Home
    <3>2. QED  BY <2>1, <3>1 DEF LeadsBack
  <2>3. LoginPlace' = LoginPlace /\ Base' = Base
        BY <1>2 DEF LoginPlace, Base
  <2>4. QED  BY <1>1, <1>2, <1>8, <2>1, <2>2, <2>3 DEF OnItsWay
<1>9. QED  BY <1>2, <1>4, <1>6, <1>7, <1>8 DEF RequestsInv

LEMMA PlacesFit == \A place \in Places : Somewhere(place)
<1> DEFINE own == {Place(base, rest) : base \in {"root", Base}, rest \in Rest}
           bare == IF entrance.prefix THEN {Place("prefix", "")} ELSE {}
<1>1. Places = own \cup bare
      BY DEF Places
<1>2. "none" \notin Rest
      BY DEF Rest, AuthRoutes, ProbeRoutes, PublicFiles, Files, ApiRoutes, PageRoutes
<1>3. ASSUME NEW place \in own PROVE place.rest # "none"
  <2>1. PICK base \in {"root", Base}, rest \in Rest : place = Place(base, rest)
        BY <1>3
  <2>2. QED  BY <1>2, <2>1 DEF Place
<1>4. ASSUME NEW place \in bare PROVE place.rest = ""
  <2>1. place = Place("prefix", "")
        BY <1>4
  <2>2. QED  BY <2>1 DEF Place
<1> HIDE DEF own, bare
<1>5. QED  BY <1>1, <1>3, <1>4 DEF Somewhere

LEMMA VisitsKeep == ASSUME RequestsInv, NEW goal, Somewhere(goal), Visits(goal) PROVE RequestsInv'
BY SendsKeeps DEF Visits

LEMMA SingleKeeps ==
    ASSUME RequestsInv, NEW method, NEW place \in Places, NEW sender, Single(method, place, sender)
    PROVE  RequestsInv'
<1>1. Somewhere(place) /\ Somewhere(NoVisit.goal)
      BY PlacesFit DEF Somewhere, NoVisit, Place
<1>2. QED  BY <1>1, SendsKeeps DEF Single

LEMMA FollowsKeeps == ASSUME RequestsInv, Follows PROVE RequestsInv'
<1>1. /\ reply.shows = "redirect" /\ visiting.goal # NoVisit.goal /\ visiting.hops \in 0..2
      /\ Somewhere(reply.place) /\ Somewhere(visiting.goal)
      BY DEF Follows, RequestsInv
<1>2. \/ reply.place = LoginPlace /\ LeadsBack(reply.back) /\ visiting.hops <= 1
      \/ reply.place = Wanted /\ reply.back = Anywhere /\ visiting.hops = 0
      BY <1>1 DEF RequestsInv, LedOn
<1>3. visiting.hops + 1 \in 0..2 /\ visiting.hops <= 1
      BY <1>1, <1>2
<1>4. Sends(Asks("GET", reply.place, Navigation, reply.back), visiting.goal, visiting.hops + 1)
      BY DEF Follows
<1>5. CASE reply.place = LoginPlace /\ LeadsBack(reply.back)
      BY <1>1, <1>3, <1>4, <1>5, SendsKeeps DEF LeadsBack, Wanted
<1>6. CASE reply.place = Wanted /\ reply.back = Anywhere /\ visiting.hops = 0
      BY <1>1, <1>3, <1>4, <1>6, SendsKeeps DEF Wanted
<1>7. QED  BY <1>2, <1>5, <1>6

LEMMA SubmitsKeeps == ASSUME RequestsInv, SubmitsLogin PROVE RequestsInv'
<1>1. visiting.goal # NoVisit.goal /\ reply.back = Wanted /\ Somewhere(visiting.goal)
      BY DEF SubmitsLogin, RequestsInv, LedOn
<1>2. ReturnPath(reply.back) = ReturnPath(visiting.goal)
      BY <1>1, ReturnsOnce DEF Wanted
<1>3. Somewhere(Place(Base, "/api/auth/login")) /\ Somewhere(Place(Base, "/api/auth/oidc"))
      BY DEF Somewhere, Place
<1>4. CASE entrance.mode = "basic"
      BY <1>1, <1>2, <1>3, <1>4, SendsKeeps DEF SubmitsLogin
<1>5. CASE entrance.mode = "oidc"
      BY <1>1, <1>2, <1>3, <1>5, SendsKeeps DEF SubmitsLogin
<1>6. QED  BY <1>4, <1>5 DEF RequestsInv

LEMMA PersonKeeps ==
    ASSUME RequestsInv, RetriesAccess \/ SwitchesAccount \/ InterfaceNotices PROVE RequestsInv'
<1>1. Somewhere(reply.place) /\ Somewhere(Home) /\ Somewhere(LoginPlace)
      BY ReturnsOnce, LoginPlaceFits DEF RequestsInv
<1>2. CASE RetriesAccess
      BY <1>1, <1>2, VisitsKeep DEF RetriesAccess
<1>3. CASE SwitchesAccount
  <2>1. ReturnPath(Anywhere) = ReturnPath(Home) /\ Home # NoVisit.goal
        BY ReturnsOnce
  <2>2. Sends(Asks("GET", LoginPlace, Navigation, Anywhere), Home, 0)
        BY <1>3 DEF SwitchesAccount
  <2>3. QED  BY <1>1, <2>1, <2>2, SendsKeeps
<1>4. CASE InterfaceNotices
      BY <1>1, <1>4, SendsKeeps DEF InterfaceNotices
<1>5. QED  BY <1>2, <1>3, <1>4

LEMMA RestsKeep == ASSUME RequestsInv, Turns \/ UNCHANGED <<entrance, visiting, request, reply>> PROVE RequestsInv'
<1>1. CASE UNCHANGED <<entrance, visiting, request, reply>>
  <2>1. Earned(reply)' /\ (visiting.goal # NoVisit.goal => LedOn(reply)')
        BY <1>1 DEF RequestsInv, Earned, Under, Base, Normalized, Unsafe, LedOn, Wanted, LeadsBack,
                    ReturnPath, Home, LoginPlace
  <2>2. request # NoRequest => Checked(request)'
        BY <1>1 DEF RequestsInv, Checked, Somewhere, Under, Base, Normalized, SigningIn, Guarded,
                    Gated, Unsafe, Known, Limit
  <2>3. visiting.goal # NoVisit.goal /\ request # NoRequest => OnItsWay(request)'
        BY <1>1 DEF RequestsInv, OnItsWay, Wanted, LeadsBack, ReturnPath, Under, Base, Home, LoginPlace
  <2>4. QED  BY <1>1, <2>1, <2>2, <2>3 DEF RequestsInv, Somewhere
<1>2. CASE Turns
  <2>1. /\ request' = NoRequest /\ reply' = NoReply /\ visiting' = NoVisit /\ UNCHANGED entrance
        BY <1>2 DEF Turns
  <2>2. /\ NoReply.shows = "none" /\ NoReply.place = Anywhere /\ NoReply.back = Anywhere
        /\ DOMAIN NoVisit = {"goal", "hops"} /\ NoVisit.hops = 0 /\ Somewhere(NoVisit.goal)
        BY DEF NoReply, Anywhere, NoVisit, Somewhere, Place
  <2>3. Earned(reply)'
        BY <2>1, <2>2 DEF Earned
  <2>4. Somewhere(visiting.goal)' /\ Somewhere(reply.place)' /\ Somewhere(reply.back)'
        BY <2>1, <2>2, NowhereFits DEF Somewhere
  <2>5. QED  BY <2>1, <2>2, <2>3, <2>4 DEF RequestsInv
<1>3. QED  BY <1>1, <1>2

LEMMA InitRequests == RequestsInit => RequestsInv
<1> SUFFICES ASSUME RequestsInit PROVE RequestsInv
    OBVIOUS
<1>1. request = NoRequest /\ reply = NoReply /\ visiting = NoVisit /\ entrance.mode \in {"basic", "oidc"}
      BY DEF RequestsInit
<1>2. /\ NoReply.shows = "none" /\ NoReply.place = Anywhere /\ NoReply.back = Anywhere
      /\ DOMAIN NoVisit = {"goal", "hops"} /\ NoVisit.hops = 0 /\ Somewhere(NoVisit.goal)
      BY DEF NoReply, Anywhere, NoVisit, Somewhere, Place
<1>3. Earned(reply)
      BY <1>1, <1>2 DEF Earned
<1>4. Somewhere(visiting.goal) /\ Somewhere(reply.place) /\ Somewhere(reply.back)
      BY <1>1, <1>2, NowhereFits
<1>5. QED  BY <1>1, <1>2, <1>3, <1>4 DEF RequestsInv

LEMMA RequestsStep == RequestsInv /\ [RequestsNext]_requestsVars => RequestsInv'
<1> SUFFICES ASSUME RequestsInv, [RequestsNext]_requestsVars PROVE RequestsInv'
    OBVIOUS
<1>1. CASE \E place \in Places : Visits(place)
      BY <1>1, PlacesFit, VisitsKeep
<1>2. CASE \E place \in Places, method \in {"GET", "POST", "PUT"} :
              \E sender \in Senders(method) : Single(method, place, sender)
      BY <1>2, SingleKeeps
<1>3. CASE Serve
      BY <1>3, ServeKeeps
<1>4. CASE Decides
      BY <1>4, DecidesKeeps
<1>5. CASE Routes
  <2>1. request # NoRequest
        BY <1>5 DEF Routes, NoRequest
  <2>2. QED  BY <1>5, <2>1, DispatchKeeps DEF Routes
<1>6. CASE \E n \in Piece : Receives(n)
      BY <1>6, ReceivesKeeps
<1>7. CASE TooLong \/ Waits \/ \E ok \in BOOLEAN : DatabaseSays(ok)
      BY <1>7, WaitKeeps
<1>8. CASE \E ok \in BOOLEAN : Understood(ok) \/ LogsIn(ok) \/ ProviderAnswers(ok)
      BY <1>8, UnderstoodKeeps, LogsInKeeps, ProviderKeeps
<1>9. CASE Follows
      BY <1>9, FollowsKeeps
<1>10. CASE SubmitsLogin
      BY <1>10, SubmitsKeeps
<1>11. CASE RetriesAccess \/ SwitchesAccount \/ InterfaceNotices
      BY <1>11, PersonKeeps
<1>12. CASE Turns \/ SessionEnds \/ (\E v \in DOMAIN Status : VerdictTurns(v)) \/ UNCHANGED requestsVars
      BY <1>12, RestsKeep DEF SessionEnds, VerdictTurns, requestsVars
<1>13. QED
  BY <1>1, <1>2, <1>3, <1>4, <1>5, <1>6, <1>7, <1>8, <1>9, <1>10, <1>11, <1>12 DEF RequestsNext

LEMMA RequestsInvImplies == RequestsInv => VisitsArrive /\ RequestsAreGuarded
BY DEF RequestsInv, VisitsArrive, RequestsAreGuarded, Earned, LedOn, Wanted

(* However often a person signs in on the way, is refused or mistypes, a     *)
(* visit ends where it wanted to go; and nothing is answered to a request    *)
(* that was not proven and allowed (secureApplicationRequest, returnPath).   *)
THEOREM VisitsAreLed == RequestsSpec => [](VisitsArrive /\ RequestsAreGuarded)
<1>1. RequestsSpec => []RequestsInv
      BY InitRequests, RequestsStep, PTL DEF RequestsSpec
<1>2. QED  BY <1>1, RequestsInvImplies, PTL

(* What is answered, and to whom: both halves of the way, the decisions of a *)
(* request and the routes it takes.                                          *)
THEOREM AnswersEarned == AccessSpec /\ RequestsSpec => []AnswersAreEarned
<1>1. AnswersAreLawful /\ VisitsArrive /\ RequestsAreGuarded => AnswersAreEarned
      BY DEF AnswersAreEarned
<1>2. QED  BY <1>1, LawfulAnswers, VisitsAreLed, PTL
=============================================================================
