---------------------------- MODULE DebugBundles ----------------------------
(* Debug bundles (runtime/debug-bundle.ts, bun-entry.ts:424-429, 482-495,    *)
(* 712-760): a running installation is captured table by table, a bundle is  *)
(* checked and imported when a server replays it, and a replay is captured   *)
(* like any installation.  Of the rows of workflow only whose they are is    *)
(* kept: bundles do not have them, and an import does not look at them.      *)
EXTENDS Naturals, Sequences, FiniteSets

CONSTANTS
    Id,              \* ids of records
    MaxLines,        \* lines a LineRingBuffer keeps
    MaxMoments       \* bound: moments at which something is written or captured

Captured == {"task", "event", "worker"}
Plain == "plain setting"
Secret == "secret setting"
NoBundle == [format |-> "none"]

VARIABLES
    database,        \* the records of each table of the running server
    workflows,       \* ids of tasks that have a row of workflow
    log,             \* lines of the running server's log
    capture,         \* what a download in progress has read, by query
    bundle,          \* the bundle that was captured, or brought in, last
    replaying,       \* the bundle the server replays, or NoBundle
    moment,
    origin,          \* history: the bundle that was first replayed
    fresh            \* history: the replay began in an empty database

serverVars == <<database, workflows, fresh>>
bundlesVars == <<serverVars, log, capture, bundle, replaying, moment, origin>>

NoCapture == [query \in {<<"none">>} |-> {}]
Idle == <<>>
Replays == replaying # NoBundle
Empty == [t \in Captured |-> {}]

(* The database keeps time finer than a millisecond.                         *)
Stamped(id) == [id |-> id, ms |-> moment, rest |-> 1]
Ids(records) == {record.id : record \in records}

BundlesInit ==
    /\ database = Empty /\ workflows = {} /\ fresh = FALSE
    /\ log = <<>> /\ capture = NoCapture
    /\ bundle = NoBundle /\ replaying = NoBundle /\ origin = NoBundle
    /\ moment = 1

(* LineRingBuffer.add().                                                     *)
Add(lines, line) ==
    LET all == Append(lines, line)
    IN  IF Len(all) > MaxLines THEN SubSeq(all, Len(all) - MaxLines + 1, Len(all)) ELSE all

(* Whatever is observed, or cleaned up, is also logged; a replay observes    *)
(* nothing.                                                                  *)
Observes(t, id) ==
    /\ ~Replays /\ moment < MaxMoments
    /\ moment' = moment + 1
    /\ database' = [database EXCEPT ![t] =
                      IF id \in Ids(@) THEN {record \in @ : record.id # id} ELSE @ \cup {Stamped(id)}]
    /\ workflows' = Ids(database'["task"])
    /\ log' = Add(log, moment)
    /\ UNCHANGED <<capture, bundle, replaying, origin, fresh>>

-----------------------------------------------------------------------------
(* The download of a bundle is asked for; the page sends its own part along. *)
Downloads ==
    /\ capture = NoCapture
    /\ capture' = Idle
    /\ UNCHANGED <<serverVars, log, bundle, replaying, moment, origin>>

(* exportSurrealData and getSurrealRecordCounts: six queries, in any order.  *)
Reads(t, what) ==
    /\ capture # NoCapture /\ <<t, what>> \notin DOMAIN capture
    /\ capture' = [query \in DOMAIN capture \cup {<<t, what>>} |->
                      IF query = <<t, what>> THEN database[t] ELSE capture[query]]
    /\ UNCHANGED <<serverVars, log, bundle, replaying, moment, origin>>

(* redactConfig without secrets, and redactImportedConfig of a replay.       *)
Redacted(config) == config \ {Secret}

(* createDebugBundleArchive: a replay keeps the source section of the        *)
(* bundle it replays but for its logs, and adds one of its own.              *)
SourceOf(data) ==
    IF Replays
    THEN [replaying.source EXCEPT !.config = Redacted(@), !.log = <<>>, !.data = data]
    ELSE [createdAt |-> moment, config |-> Redacted({Plain, Secret}), log |-> log, data |-> data]

Archives ==
    /\ DOMAIN capture = Captured \X {"records", "count"}
    /\ moment < MaxMoments /\ moment' = moment + 1
    /\ bundle' = [format |-> "v2",
                  source |-> SourceOf([t \in Captured |-> capture[<<t, "records">>]]),
                  counts |-> [t \in Captured |-> Cardinality(capture[<<t, "count">>])],
                  replayed |-> IF Replays THEN <<moment>> ELSE <<>>]
    /\ capture' = NoCapture
    /\ UNCHANGED <<serverVars, log, replaying, origin>>

(* A bundle of an older version, made by others: nothing was redacted, and   *)
(* parts may be missing.                                                     *)
BroughtIn(data, complete) ==
    /\ bundle' = [format |-> IF complete THEN "v2" ELSE "incomplete",
                  source |-> [createdAt |-> moment, config |-> {Plain, Secret}, log |-> <<moment>>, data |-> data],
                  counts |-> [t \in Captured |-> Cardinality(data[t])],
                  replayed |-> <<>>]
    /\ UNCHANGED <<serverVars, log, capture, replaying, moment, origin>>

(* reviveDateFields: new Date() drops what is below a millisecond.           *)
ToMilliseconds(record) == [id |-> record.id, ms |-> record.ms, rest |-> 0]
Revived(data) == [t \in Captured |-> {ToMilliseconds(record) : record \in data[t]}]

(* importSurrealData empties the tables of a bundle in the transaction that  *)
(* fills them.                                                               *)
Imported(data) == Revived(data)

(* Mutant: the transaction fills the tables without emptying them. *)
ImportedOver(data) == [t \in Captured |-> database[t] \cup Revived(data)[t]]

Imports(data) == Imported(data)

(* The server is started with the bundle: parseDebugSnapshot, the migration  *)
(* with its backfill of workflows, then the import.  Its database is a new   *)
(* one, in memory, or the one it had on disk.  A bundle that is not complete *)
(* stops the startup.                                                        *)
Replay(inMemory) ==
    /\ bundle.format = "v2"
    /\ replaying' = [bundle EXCEPT !.source.config = Redacted(@)]
    /\ workflows' = IF inMemory THEN {} ELSE workflows \cup Ids(database["task"])
    /\ database' = Imports(bundle.source.data)
    /\ fresh' = (inMemory \/ fresh)
    /\ origin' = IF origin = NoBundle THEN bundle ELSE origin
    /\ log' = <<>> /\ capture' = NoCapture
    /\ UNCHANGED <<bundle, moment>>

BundlesNext ==
    \/ \E t \in Captured : (\E id \in Id : Observes(t, id)) \/ (\E what \in {"records", "count"} : Reads(t, what))
    \/ Downloads \/ Archives
    \/ /\ ~Replays
       /\ \E ids \in SUBSET Id, complete \in BOOLEAN :
            BroughtIn([t \in Captured |-> {Stamped(id) : id \in ids}], complete)
    \/ \E inMemory \in BOOLEAN : Replay(inMemory)

BundlesSpec == BundlesInit /\ [][BundlesNext]_bundlesVars

-----------------------------------------------------------------------------
(* A snapshot survives: the tasks, events and workers of a server that       *)
(* replays a bundle are those of the bundle, with their times to the         *)
(* millisecond, and no others, whatever its database held before.  However   *)
(* often the replay is captured and replayed again, they and the time of the *)
(* first capture stay, and nothing is lost but what the first import cut     *)
(* off; no captured bundle holds a secret or somebody else's log             *)
(* (debug-bundle.ts:18-25, 289-378, 484-526).  A replay that began in an     *)
(* empty database shows no workflow of tasks it has not got; one on disk may *)
(* go on to show those of what the database held.                            *)
SnapshotSurvives ==
    /\ Replays =>
        /\ database = Revived(origin.source.data)
        /\ fresh => workflows \subseteq Ids(origin.source.data["task"])
        /\ replaying.source.createdAt = origin.source.createdAt
        /\ Secret \notin replaying.source.config
    /\ bundle # NoBundle /\ origin # NoBundle =>
        /\ Revived(bundle.source.data) = Revived(origin.source.data)
        /\ bundle.source.createdAt = origin.source.createdAt
        /\ bundle.replayed # <<>> =>
            /\ bundle.source.data = Revived(origin.source.data)
            /\ bundle.source.log = <<>> /\ Secret \notin bundle.source.config
            /\ \A t \in Captured : bundle.counts[t] = Cardinality(bundle.source.data[t])
=============================================================================
