-------------------------- MODULE ServerLifecycle --------------------------
(* One server process from start to exit (bun-entry.ts): the startup         *)
(* sequence, the SurrealDB and Python children with their restart timers,    *)
(* and shutdown(), which runs beside whatever startup or timers still do.    *)
(*                                                                           *)
(* LeaderElection has the election in detail.  Here leadership comes and     *)
(* goes, but is not won back in the ten seconds for which shutdown() waits   *)
(* for Python: that takes a lease shorter than the wait.                     *)
EXTENDS Integers, FiniteSets

CONSTANTS
    Child,           \* Python processes the server may spawn
    NoChild

ASSUME LifecycleAssumption == NoChild \notin Child /\ IsFiniteSet(Child)

VARIABLES
    setup,           \* [managed: runs its own SurrealDB, replay: of a snapshot]
    stage,           \* how far the startup is
    closing,         \* how far shutdown() is
    signalledAt,     \* the stage at which it began
    surreal,         \* the SurrealDB child
    surrealTimer,    \* its restart timer is set
    children,        \* Python processes that live
    told,            \* those that have been sent a signal
    pythonChild,     \* pythonProcess
    drained,         \* the process that shutdown() waits for
    pythonTimer,
    leads,           \* leaderElection.isLeader
    upkeep           \* the status report and the cleanup: their timer is set, or they run

surrealVars == <<surreal, surrealTimer>>
childVars == <<children, told, pythonChild, pythonTimer>>
lifecycleVars == <<setup, stage, closing, signalledAt, surrealVars, childVars, drained, leads, upkeep>>

Stages == {"spawning", "waiting", "migrating", "connecting", "indexing",
           "authenticating", "filling", "reading", "serving"}
Closings == {"no", "python", "election", "indexes", "database", "exited", "rejected", "crashed"}

LifecycleTypeOK ==
    /\ setup \in [managed : BOOLEAN, replay : BOOLEAN]
    /\ stage \in Stages /\ closing \in Closings /\ signalledAt \in Stages \cup {"none"}
    /\ surreal \in {"none", "running", "told"} /\ surrealTimer \in BOOLEAN
    /\ told \subseteq children /\ children \subseteq Child
    /\ {pythonChild, drained} \subseteq Child \cup {NoChild}
    /\ pythonTimer \in BOOLEAN /\ leads \in BOOLEAN
    /\ upkeep \in [{"status", "cleanup"} -> {"none", "set", "running"}]

LifecycleInit ==
    /\ setup \in {s \in [managed : BOOLEAN, replay : BOOLEAN] : s.replay => s.managed}
    /\ stage = "spawning" /\ closing = "no" /\ signalledAt = "none"
    /\ surreal = "none" /\ surrealTimer = FALSE
    /\ children = {} /\ told = {} /\ pythonChild = NoChild /\ drained = NoChild
    /\ pythonTimer = FALSE /\ leads = FALSE
    /\ upkeep = [status |-> "none", cleanup |-> "none"]

Alive == closing \notin {"exited", "crashed"}
ShuttingDown == closing # "no"
Reaches(next) == stage' = next

-----------------------------------------------------------------------------
SpawnPython(p) ==
    /\ p \notin children
    /\ children' = children \cup {p} /\ pythonChild' = p

(* The uncaught exception of a failed stage ends the process as it is.       *)
Dies ==
    /\ closing' = "crashed"
    /\ UNCHANGED <<stage, signalledAt, surrealVars, childVars, drained, leads>>

SpawnSurrealDB ==
    /\ stage = "spawning" /\ Reaches("waiting")
    /\ surreal' = IF setup.managed THEN "running" ELSE surreal
    /\ UNCHANGED <<closing, signalledAt, surrealTimer, childVars, drained, leads>>

(* waitForSurrealDB, runSchemaMigration, connect and startSearchIndexes.     *)
Prepares ==
    /\ \/ stage = "waiting" /\ Reaches("migrating")
       \/ stage = "migrating" /\ Reaches("connecting")
       \/ stage = "connecting" /\ Reaches("indexing")
       \/ stage = "indexing" /\ Reaches("authenticating")
       \/ stage = "reading" /\ Reaches("serving")
    /\ setup.managed => surreal = "running"
    /\ upkeep' = IF stage = "reading"
                 THEN [status |-> IF ShuttingDown THEN "none" ELSE "running", cleanup |-> "set"]
                 ELSE upkeep
    /\ UNCHANGED <<closing, signalledAt, surrealVars, childVars, drained, leads>>

StageFails == stage \in Stages \ {"spawning", "authenticating", "serving"} /\ Dies

(* shutdown() begins: the ingester is told to stop, or there is none and the *)
(* next step is left.                                                        *)
BeginsShutdown ==
    /\ signalledAt' = stage
    /\ drained' = pythonChild
    /\ told' = told \cup (children \cap {pythonChild})
    /\ closing' = IF pythonChild = NoChild THEN "election" ELSE "python"
    /\ UNCHANGED <<stage, surrealVars, children, pythonChild, pythonTimer, leads>>

Signal == ~ShuttingDown /\ BeginsShutdown

(* If it fails while a shutdown is under way, the startup goes on.           *)
Authenticates ==
    /\ stage = "authenticating"
    /\ \/ Reaches("filling") /\ UNCHANGED <<closing, signalledAt, childVars, drained>>
       \/ ~ShuttingDown /\ BeginsShutdown
    /\ UNCHANGED <<surrealVars, leads>>

(* importSurrealData, or the first attempt of the election.  A stopped       *)
(* election is not looked at before it has been created.                     *)
Fills ==
    /\ stage = "filling" /\ Reaches("reading")
    /\ setup.managed => surreal = "running"
    /\ leads' \in IF setup.replay THEN {FALSE} ELSE BOOLEAN
    /\ IF setup.replay \/ leads'
       THEN \E p \in Child : SpawnPython(p)
       ELSE UNCHANGED <<children, pythonChild>>
    /\ UNCHANGED <<closing, signalledAt, surrealVars, told, pythonTimer, drained>>

-----------------------------------------------------------------------------
(* The SurrealDB child exits, and its handler sets the restart timer.        *)
SurrealExits ==
    /\ surreal # "none"
    /\ surreal' = "none"
    /\ surrealTimer' = ~ShuttingDown
    /\ UNCHANGED <<stage, closing, signalledAt, childVars, drained, leads>>

SurrealRestarts ==
    /\ surrealTimer /\ surrealTimer' = FALSE
    /\ surreal' = IF ShuttingDown THEN surreal ELSE "running"
    /\ UNCHANGED <<stage, closing, signalledAt, childVars, drained, leads>>

Ingests == setup.replay \/ leads

(* A Python child exits, told or not.                                        *)
PythonEnds(p) ==
    /\ p \in children
    /\ children' = children \ {p} /\ told' = told \ {p}
    /\ IF Alive /\ ~ShuttingDown /\ pythonChild = p
       THEN pythonChild' = NoChild /\ pythonTimer' = (pythonTimer \/ Ingests)
       ELSE UNCHANGED <<pythonChild, pythonTimer>>
    /\ UNCHANGED <<stage, closing, signalledAt, surrealVars, drained, leads>>

(* Mutant: the timer does not look whether a shutdown has begun. *)
RestartsRegardless == pythonChild = NoChild /\ Ingests

MayRestart == ~ShuttingDown /\ pythonChild = NoChild /\ Ingests

PythonRestarts ==
    /\ pythonTimer /\ pythonTimer' = FALSE
    /\ IF MayRestart
       THEN \E p \in Child : SpawnPython(p)
       ELSE UNCHANGED <<children, pythonChild>>
    /\ UNCHANGED <<stage, closing, signalledAt, surrealVars, told, drained, leads>>

(* onBecomeLeader and onLoseLeadership.                                      *)
Elected ==
    /\ ~setup.replay /\ ~leads /\ ~ShuttingDown /\ stage \in {"reading", "serving"}
    /\ leads' = TRUE
    /\ \E p \in Child : SpawnPython(p)
    /\ UNCHANGED <<stage, closing, signalledAt, surrealVars, told, pythonTimer, drained>>

Deposed ==
    /\ leads /\ closing \in {"no", "python"}
    /\ leads' = FALSE
    /\ told' = told \cup (children \cap {pythonChild}) /\ pythonChild' = NoChild
    /\ UNCHANGED <<stage, closing, signalledAt, surrealVars, children, pythonTimer, drained>>

-----------------------------------------------------------------------------
(* The child has exited, by itself or killed after ten seconds.              *)
PythonStopped ==
    /\ closing = "python" /\ drained \notin children
    /\ closing' = "election" /\ pythonChild' = NoChild
    /\ UNCHANGED <<stage, signalledAt, surrealVars, children, told, pythonTimer, drained, leads>>

(* leaderElection.stop() catches the errors of its calls.                    *)
ElectionStops ==
    /\ closing = "election" /\ closing' = "indexes"
    /\ leads' = FALSE
    /\ UNCHANGED <<stage, signalledAt, surrealVars, childVars, drained>>

(* searchIndexes.stop() deletes a row, and nobody catches its error.  The    *)
(* rest of shutdown() is left out: the process lives on, and no signal ends  *)
(* it any more, or the unhandled rejection does, as the version of Bun has   *)
(* it.                                                                       *)
IndexesFail ==
    /\ closing = "indexes" /\ stage \in {"authenticating", "filling", "reading", "serving"}
    /\ closing' \in {"rejected", "crashed"}
    /\ UNCHANGED <<stage, signalledAt, surrealVars, childVars, drained, leads>>

(* searchIndexes.stop() and mcpDb.close() are over: the timers are cleared;  *)
(* SurrealDB is told, and waited for.                                        *)
ConnectionsClose ==
    /\ closing = "indexes" /\ closing' = "database"
    /\ upkeep' = [job \in DOMAIN upkeep |-> IF upkeep[job] = "set" THEN "none" ELSE upkeep[job]]
    /\ surreal' = IF surreal = "none" THEN "none" ELSE "told"
    /\ UNCHANGED <<stage, signalledAt, surrealTimer, childVars, drained, leads>>

(* It has exited, or ten seconds are over.                                   *)
ServerExits ==
    /\ closing = "database" /\ closing' = "exited"
    /\ UNCHANGED <<stage, signalledAt, surrealVars, childVars, drained, leads>>

(* shareBridgeStatus and periodicCleanup, each with its timer.  The latter   *)
(* does not look for a shutdown before it works.                             *)
Worth(job) == job = "cleanup" /\ ~setup.replay /\ leads

Fires(job) ==
    /\ upkeep[job] = "set"
    /\ upkeep' = [upkeep EXCEPT ![job] =
          IF (job = "status" /\ ~ShuttingDown) \/ Worth(job) THEN "running"
          ELSE IF ShuttingDown THEN "none" ELSE "set"]

(* Mutant: the timer is set again whatever happened meanwhile. *)
FinishesRegardless(job) == upkeep[job] = "running" /\ upkeep' = [upkeep EXCEPT ![job] = "set"]

Finishes(job) ==
    upkeep[job] = "running" /\ upkeep' = [upkeep EXCEPT ![job] = IF ShuttingDown THEN "none" ELSE "set"]

LifecycleNext ==
    /\ \/ /\ Alive
          /\ \/ /\ \/ SpawnSurrealDB \/ StageFails \/ Authenticates \/ Fills
                   \/ SurrealExits \/ SurrealRestarts \/ PythonRestarts
                   \/ Elected \/ Deposed \/ Signal
                   \/ PythonStopped \/ ElectionStops \/ IndexesFail \/ ServerExits
                /\ UNCHANGED upkeep
             \/ Prepares \/ ConnectionsClose
             \/ /\ \E job \in DOMAIN upkeep : Fires(job) \/ Finishes(job)
                /\ UNCHANGED <<stage, closing, signalledAt, surrealVars, childVars, drained, leads>>
       \/ \E p \in Child : PythonEnds(p) /\ UNCHANGED upkeep
    /\ UNCHANGED setup

LifecycleSpec == LifecycleInit /\ [][LifecycleNext]_lifecycleVars

-----------------------------------------------------------------------------
(* No Python child outlives the shutdown of a server that was serving,       *)
(* except one that has been told to stop, however the shutdown ends: done,   *)
(* broken off by an error of SurrealDB or crashed of it.  Only if it gets    *)
(* past the release of the search lease is SurrealDB told as well, and are   *)
(* the timers of the upkeep cleared, but what runs then and what still fires *)
(* sets none anew, broken off or not (bun-entry.ts:380-419, 554-577,         *)
(* search-indexes.ts:114-117).  A signal during the startup is another       *)
(* matter: the startup goes on and may spawn a child that nobody stops.      *)
NobodyLeft ==
    signalledAt = "serving" =>
        /\ closing \in {"exited", "rejected", "crashed"} => children \subseteq told
        /\ closing = "exited" => surreal \in {"none", "told"}
        /\ closing \in {"database", "exited"} => \A job \in DOMAIN upkeep : upkeep[job] # "set"

NoneSetAnew ==
    signalledAt = "serving" => \A job \in DOMAIN upkeep : upkeep'[job] = "set" => upkeep[job] = "set"

NothingOutlives == []NobodyLeft /\ [][NoneSetAnew]_lifecycleVars
=============================================================================
