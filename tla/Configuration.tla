--------------------------- MODULE Configuration ---------------------------
(* What replicas make of what the operator writes down                       *)
(* (runtime/config-loader.ts, config.ts, authentication-config.ts,           *)
(* database-config.ts, bun-entry.ts): each setting is given in the TOML      *)
(* file, in a secret file it names, or in variables of the environment, or   *)
(* falls back to a default, which for secrets is random in each process.     *)
(*                                                                           *)
(* The settings are those that others depend on.  A value is a number, with  *)
(* 0 for the default.  Syntax and ranges of single values are left out.      *)
EXTENDS Integers, FiniteSets, TLC

CONSTANTS
    Replica,
    Inputs,          \* what operators write: sets of [setting, source, value]
    MaxStarts        \* bound: starts of replicas

TwoWays == {"toml", "legacy"}
FiveWays == {"toml", "toml_file", "env", "env_file", "legacy"}

(* config-registry.ts.                                                       *)
Sources ==
    [s \in {"ttl", "heartbeat", "workers", "module"} |-> TwoWays]
    @@ [s \in {"url", "ingester", "cursor", "broker"} |-> FiveWays]
    @@ [s \in {"root", "session"} |-> FiveWays \ {"legacy"}]
    @@ [s \in {"storage", "replay"} |-> {"toml", "env", "legacy"}]
    @@ [s \in {"public"} |-> {"toml", "env"}]
    @@ [s \in {"accounts", "oidc", "mode", "database", "enabled"} |-> {"toml"}]
    @@ [s \in {"external"} |-> {"legacy"}]

Setting == DOMAIN Sources
Authentication == {"session", "oidc", "mode", "accounts"}

ASSUME ConfigurationAssumption ==
    /\ \A input \in Inputs : \A g, h \in input :
        /\ g.source \in Sources[g.setting] /\ g.value \in 1 .. 2
        /\ g.setting = h.setting /\ g.source = h.source => g = h
    /\ MaxStarts \in Nat

VARIABLES
    given,           \* the operator's input, the same for every replica
    running,         \* the configuration of each replica that runs, or why it does not
    starts           \* how many times replicas have been started

configurationVars == <<given, running, starts>>

Refusal(why) == [refused |-> why]
Stopped == Refusal("not started")
Runs(r) == "refused" \notin DOMAIN running[r]

-----------------------------------------------------------------------------
(* resolveConfig(), setting by setting.                                      *)
GivenIn(s, sources) == {g \in given : g.setting = s /\ g.source \in sources}
Given(s) == GivenIn(s, FiveWays) # {}
InEnvironment(s) == GivenIn(s, {"env", "env_file"})
InLegacy(s) == GivenIn(s, {"legacy"})
InFile(s) == GivenIn(s, {"toml", "toml_file"})

Conflicting(s) ==
    \/ Cardinality(InEnvironment(s)) = 2
    \/ \E g \in GivenIn(s, {"env"}), h \in InLegacy(s) : g.value # h.value
    \/ InEnvironment(s) = {} /\ InLegacy(s) = {} /\ Cardinality(InFile(s)) = 2

(* The strongest source.                                                     *)
Decisive(s) ==
    IF InEnvironment(s) # {} THEN InEnvironment(s)
    ELSE IF InLegacy(s) # {} THEN InLegacy(s)
    ELSE InFile(s)

StrongestValue(gifts) == (CHOOSE g \in gifts : TRUE).value
Value(s) == IF Given(s) THEN StrongestValue(Decisive(s)) ELSE 0

(* In legacy mode nothing but the old variables is used.                     *)
Canonical == \E g \in given : g.source # "legacy"

External ==
    IF Canonical THEN Given("url") \/ Value("database") = 2 \/ Given("external") ELSE Given("external")

TopologyRefused ==
    /\ Canonical
    /\ \/ Value("database") = 1 /\ Given("url")
       \/ Value("database") = 2 /\ ~Given("url") /\ ~Given("external")
       \/ Given("module") /\ Given("broker")
       \/ Given("replay") /\ External

RetentionRefused == Value("enabled") = 1 /\ ~Given("workers")

(* Hours for which a dead worker is kept; 0 is for ever.                     *)
WorkerRetention ==
    IF Value("enabled") = 2 /\ InLegacy("workers") = {} THEN 0
    ELSE IF Given("workers") THEN Value("workers") ELSE 24

(* validateConfig(); by default 10 and 30 seconds.                           *)
Seconds(s, default) == IF Given(s) THEN 10 * Value(s) ELSE default
LeaseRefused == Seconds("heartbeat", 10) >= Seconds("ttl", 30)

(* authenticationConfig(): values of mode are 1, basic, and 2, OIDC.  Where  *)
(* no setting of it is given there is none, and the server runs on: it       *)
(* migrates, elects and ingests, though it can let nobody in.                *)
WantsAuthentication == \E s \in Authentication : Given(s)
AuthenticationRefused ==
    /\ WantsAuthentication
    /\ \/ ~Given("public") \/ ~Given("session")
       \/ Value("mode") = 2 /\ (Given("accounts") \/ ~Given("oidc"))
       \/ Value("mode") # 2 /\ (~Given("accounts") \/ Given("oidc"))

(* buildSnapshotRuntimeConfig(): a replay has a database of its own.         *)
UsesExternal == External /\ ~Given("replay")

(* Mutant: an external database does not need the ingester's password. *)
OnlyRootRequired == (UsesExternal \/ Value("storage") = 2) /\ ~Given("root")

(* prepareDatabaseConfig(): values of storage are 1, memory, and 2, a disk.  *)
CredentialsRefused ==
    \/ (UsesExternal \/ Value("storage") = 2) /\ ~Given("root")
    \/ UsesExternal /\ ~Given("ingester")

Refusals ==
    {why \in {"ambiguous", "topology", "retention", "lease", "authentication", "credentials"} :
        \/ why = "ambiguous" /\ \E s \in Setting : Conflicting(s)
        \/ why = "topology" /\ TopologyRefused
        \/ why = "retention" /\ RetentionRefused
        \/ why = "lease" /\ LeaseRefused
        \/ why = "authentication" /\ AuthenticationRefused
        \/ why = "credentials" /\ CredentialsRefused}

(* A random secret of one start.                                             *)
OrRandom(s) == IF Given(s) THEN Value(s) ELSE -starts - 1

Resolved ==
    [external |-> UsesExternal,
     disk |-> Value("storage") = 2,
     replays |-> Given("replay"),
     ingests |-> ~Given("replay"),
     module |-> Given("module") \/ ~Canonical,
     broker |-> Value("broker"),
     heartbeat |-> Seconds("heartbeat", 10),
     ttl |-> Seconds("ttl", 30),
     workers |-> WorkerRetention,
     root |-> OrRandom("root"),
     ingester |-> OrRandom("ingester"),
     cursor |-> IF Given("cursor") THEN Value("cursor") ELSE OrRandom("ingester"),
     authenticates |-> WantsAuthentication,
     session |-> Value("session")]

-----------------------------------------------------------------------------
ConfigurationInit ==
    /\ given = {} /\ starts = 0
    /\ running = [r \in Replica |-> Stopped]

Deploys(input) ==
    /\ given' = input
    /\ UNCHANGED <<running, starts>>

Starts(r) ==
    /\ starts < MaxStarts /\ starts' = starts + 1
    /\ running' = [running EXCEPT ![r] =
                    IF Refusals = {} THEN Resolved ELSE Refusal(CHOOSE why \in Refusals : TRUE)]
    /\ UNCHANGED given

ConfigurationNext ==
    \/ given = {} /\ starts = 0 /\ \E input \in Inputs : Deploys(input)
    \/ \E r \in Replica : Starts(r)

ConfigurationSpec == ConfigurationInit /\ [][ConfigurationNext]_configurationVars

-----------------------------------------------------------------------------
(* Replicas that run and share a database agree on everything that is        *)
(* compared across processes: the database passwords, the key of sessions    *)
(* and that of MCP cursors (database-config.ts:5-11, bun-entry.ts:526-530).  *)
(* One that ingests renews its lease before it expires, as LeaderElection    *)
(* assumes, and no replay touches a shared database, whatever combination of *)
(* files, variables and old names the operator used, with authentication or  *)
(* without (config-loader.ts:302-305, where the server runs on).             *)
ReplicasAgree ==
    \A r \in Replica : Runs(r) =>
        /\ running[r].ingests => running[r].heartbeat < running[r].ttl
        /\ running[r].replays => ~running[r].external /\ ~running[r].ingests
        /\ running[r].external => running[r].root > 0
        /\ \A q \in Replica : Runs(q) /\ running[r].external =>
            /\ running[r].root = running[q].root /\ running[r].ingester = running[q].ingester
            /\ running[r].cursor = running[q].cursor /\ running[r].session = running[q].session
            /\ running[r].authenticates = running[q].authenticates
=============================================================================
