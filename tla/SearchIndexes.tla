--------------------------- MODULE SearchIndexes ---------------------------
(* The search projections that replicas sharing a database maintain          *)
(* (runtime/search-indexes.ts, runtime/search-index-schema.surql): the lease *)
(* of the indexing mode, the paged backfill, and the database triggers and   *)
(* the ingester, which keep the projections current.                         *)
(*                                                                           *)
(* The text of a task is one value, of which `grams` and `terms` are         *)
(* computed; tasks are their positions in the order of their ids.  The       *)
(* ingester of a replica ends with it.                                       *)
EXTENDS Integers, FiniteSets

CONSTANTS
    Instance,
    Text,            \* the texts that each task may have
    PageSize         \* LIMIT of the backfill, 200

NoText == "none"
Fallback == "fallback"
NoProjection == [grams |-> NoText, terms |-> NoText]
IndexedTask == DOMAIN Text
AnyText == UNION {Text[t] : t \in IndexedTask}

ASSUME SearchAssumption ==
    /\ PageSize \in Nat \ {0} /\ IsFiniteSet(IndexedTask)
    /\ DOMAIN Text = 1..Cardinality(DOMAIN Text)
    /\ {NoText, Fallback} \cap AnyText = {}

VARIABLES
    text,            \* the task table
    projection,      \* task_search
    triggers,        \* the event ci_search_task is defined
    indexConfig,     \* search_config:current
    lease,           \* search_instance: [Instance -> "none", "held" or "expired"]
    instance,        \* [Instance -> where its start() is]
    clashed          \* an instance has started beside a live one of the other mode

tables == <<text, projection, triggers>>
searchVars == <<tables, indexConfig, lease, instance, clashed>>

Off == [at |-> "off", enabled |-> FALSE, after |-> 0, page |-> {}]
PagesRead == SUBSET [task : IndexedTask, raw : AnyText]

SearchTypeOK ==
    /\ text \in [IndexedTask -> AnyText \cup {NoText}]
    /\ projection \in [IndexedTask -> [grams : AnyText \cup {NoText},
                                       terms : AnyText \cup {Fallback, NoText}]]
    /\ triggers \in BOOLEAN
    /\ indexConfig \in [enabled : BOOLEAN, ready : BOOLEAN]
    /\ lease \in [Instance -> {"none", "held", "expired"}]
    /\ \A i \in Instance :
        /\ instance[i].at \in {"off", "started", "building", "projecting",
                               "labelling", "removing", "running"}
        /\ instance[i].after \in 0..Cardinality(IndexedTask)
        /\ instance[i].page \in PagesRead
    /\ clashed \in BOOLEAN

SearchInit ==
    /\ text \in {f \in [IndexedTask -> AnyText \cup {NoText}] : \A t \in IndexedTask : f[t] \in Text[t] \cup {NoText}}
    /\ projection = [t \in IndexedTask |-> NoProjection]
    /\ triggers = FALSE
    /\ indexConfig = [enabled |-> FALSE, ready |-> FALSE]
    /\ lease = [i \in Instance |-> "none"]
    /\ instance = [i \in Instance |-> Off]
    /\ clashed = FALSE

Live(i) == instance[i].at # "off"
At(i, place) == instance' = [instance EXCEPT ![i].at = place]

-----------------------------------------------------------------------------
(* Mutant: the modes of the others are not compared. *)
ConflictsNever(i, enabled) == FALSE

Conflicts(i, enabled) ==
    \E j \in Instance \ {i} : lease[j] = "held" /\ instance[j].enabled # enabled

(* The transaction of start().  A conflicting instance throws and exits.     *)
StartIndexes(i, enabled) ==
    /\ ~Live(i)
    /\ lease[i] # "held"     \* a restarted replica is a new instance
    /\ ~Conflicts(i, enabled)
    /\ lease' = [j \in Instance |-> IF j = i THEN "held"
                                    ELSE IF lease[j] = "expired" THEN "none" ELSE lease[j]]
    /\ indexConfig' = [enabled |-> enabled,
                       ready |-> indexConfig.ready /\ indexConfig.enabled = enabled]
    /\ instance' = [instance EXCEPT ![i] = [Off EXCEPT !.at = "started", !.enabled = enabled]]
    /\ clashed' = (clashed \/ \E j \in Instance : Live(j) /\ instance[j].enabled # enabled)
    /\ UNCHANGED tables

(* `ready = false`, then either the schema of the projections or their       *)
(* removal, of the trigger first.                                            *)
Prepare(i) ==
    /\ instance[i].at = "started"
    /\ indexConfig' = [indexConfig EXCEPT !.ready = FALSE]
    /\ triggers' = instance[i].enabled
    /\ At(i, IF instance[i].enabled THEN "building" ELSE "removing")
    /\ UNCHANGED <<text, projection, lease, clashed>>

RemoveProjections(i) ==
    /\ instance[i].at = "removing"
    /\ projection' = [t \in IndexedTask |-> NoProjection]
    /\ At(i, "running")
    /\ UNCHANGED <<text, triggers, indexConfig, lease, clashed>>

(* The next page, with the texts the terms will be computed from.            *)
ReadPage(i) ==
    /\ instance[i].at = "building"
    /\ LET rest == {t \in IndexedTask : t > instance[i].after /\ text[t] # NoText}
           page == {t \in rest : Cardinality({u \in rest : u < t}) < PageSize}
       IN  IF page = {}
           THEN /\ indexConfig' = [indexConfig EXCEPT !.ready = TRUE]
                /\ At(i, "running")
           ELSE /\ instance' = [instance EXCEPT ![i] =
                    [@ EXCEPT !.at = "projecting",
                              !.page = {[task |-> t, raw |-> text[t]] : t \in page}]]
                /\ UNCHANGED indexConfig
    /\ UNCHANGED <<tables, lease, clashed>>

(* fn::search_project_task.  Grams and terms are kept when the text has not  *)
(* changed and the task has a projection.                                    *)
Projected(old, before, now) ==
    IF before = now /\ old # NoProjection THEN old ELSE [grams |-> now, terms |-> Fallback]

(* Each row is read again by the statement that projects it.                 *)
ProjectCurrent(page) ==
    [t \in IndexedTask |->
        IF text[t] # NoText /\ \E r \in page : r.task = t
        THEN Projected(projection[t], text[t], text[t])
        ELSE projection[t]]

ProjectPage(i) ==
    /\ instance[i].at = "projecting"
    /\ projection' = ProjectCurrent(instance[i].page)
    /\ At(i, "labelling")
    /\ UNCHANGED <<text, triggers, indexConfig, lease, clashed>>

(* Mutant: without `WHERE record.kwargs = $raw`. *)
LabelsAnyway(r) == projection[r.task] # NoProjection

Labels(r) == projection[r.task] # NoProjection /\ text[r.task] = r.raw

FirstRow(page) == CHOOSE x \in page : \A y \in page : x.task <= y.task

(* kwargsSearchTerms of one row, which may fall back.                        *)
LabelRow(i) ==
    /\ instance[i].at = "labelling"
    /\ LET r == FirstRow(instance[i].page)
       IN  /\ \E terms \in {r.raw, Fallback} :
                projection' = IF Labels(r) THEN [projection EXCEPT ![r.task].terms = terms]
                              ELSE projection
           /\ instance' = [instance EXCEPT ![i] =
                [@ EXCEPT !.page = instance[i].page \ {r}, !.after = r.task,
                          !.at = IF instance[i].page = {r} THEN "building" ELSE "labelling"]]
    /\ UNCHANGED <<text, triggers, indexConfig, lease, clashed>>

(* A statement fails, or the replica shuts down: stop().                     *)
StopIndexes(i) ==
    /\ Live(i)
    /\ instance' = [instance EXCEPT ![i] = Off]
    /\ lease' = [lease EXCEPT ![i] = "none"]
    /\ UNCHANGED <<tables, indexConfig, clashed>>

(* The replica dies, its lease remains.                                      *)
CrashIndexes(i) ==
    /\ Live(i)
    /\ instance' = [instance EXCEPT ![i].at = "off", ![i].page = {}, ![i].after = 0]
    /\ UNCHANGED <<tables, indexConfig, lease, clashed>>

(* Sixty seconds without a heartbeat, of a dead instance or of one that      *)
(* could not reach the database.                                             *)
LeaseExpires(i) ==
    /\ lease[i] = "held"
    /\ lease' = [lease EXCEPT ![i] = "expired"]
    /\ UNCHANGED <<tables, indexConfig, instance, clashed>>

(* The heartbeat is an UPDATE: it revives a row, and does not create one.    *)
RenewLease(i) ==
    /\ instance[i].at \notin {"off"}
    /\ lease[i] = "expired"
    /\ lease' = [lease EXCEPT ![i] = "held"]
    /\ UNCHANGED <<tables, indexConfig, instance, clashed>>

-----------------------------------------------------------------------------
(* The leader's ingester writes a task.  The trigger projects it, and the    *)
(* ingester adds the terms when it and the database have indexing enabled.   *)
IngestText(i, t, new) ==
    /\ instance[i].at = "running"
    /\ text[t] # new
    /\ text' = [text EXCEPT ![t] = new]
    /\ LET now == IF triggers THEN Projected(projection[t], text[t], new) ELSE projection[t]
       IN  \E terms \in {new, Fallback} :
            projection' = [projection EXCEPT ![t] =
                IF instance[i].enabled /\ indexConfig.enabled /\ now # NoProjection
                THEN [now EXCEPT !.terms = terms] ELSE now]
    /\ UNCHANGED <<triggers, indexConfig, lease, instance, clashed>>

(* Mutant: the trigger has no branch for DELETE. *)
ProjectionAfterDelete(t) == projection

ProjectionAfterRemoval(t) ==
    IF triggers THEN [projection EXCEPT ![t] = NoProjection] ELSE projection

RemoveTask(i, t) ==
    /\ instance[i].at = "running"
    /\ text[t] # NoText
    /\ text' = [text EXCEPT ![t] = NoText]
    /\ projection' = ProjectionAfterRemoval(t)
    /\ UNCHANGED <<triggers, indexConfig, lease, instance, clashed>>

SearchNext ==
    \E i \in Instance :
        \/ \E enabled \in BOOLEAN : StartIndexes(i, enabled)
        \/ Prepare(i) \/ RemoveProjections(i)
        \/ ReadPage(i) \/ ProjectPage(i) \/ LabelRow(i)
        \/ StopIndexes(i) \/ CrashIndexes(i) \/ LeaseExpires(i) \/ RenewLease(i)
        \/ \E t \in IndexedTask : RemoveTask(i, t) \/ \E new \in Text[t] : IngestText(i, t, new)

SearchSpec == SearchInit /\ [][SearchNext]_searchVars

-----------------------------------------------------------------------------
(* buildIndexedTaskSearch: the tasks that a search for a text of a task      *)
(* considers, by its grams or by its terms.                                  *)
Candidates(v) ==
    IF indexConfig.ready
    THEN {t \in IndexedTask : projection[t].grams = v /\ projection[t].terms \in {v, Fallback}}
    ELSE IndexedTask

(* Whatever is ingested and deleted while it runs, an indexed search misses  *)
(* no task that a scan would find, and considers no task that has been       *)
(* deleted (search-indexes.ts:77-106).  This is not claimed once instances   *)
(* of both modes have run together, which a lapsed lease allows              *)
(* (search-indexes.ts:53).                                                   *)
SearchMissesNothing ==
    ~clashed =>
        \A t \in IndexedTask :
            IF text[t] # NoText THEN t \in Candidates(text[t])
            ELSE indexConfig.ready => projection[t] = NoProjection

(* As long as a lease is held, its instance and the database have the same   *)
(* mode: a deployment with another setting fails before it changes anything  *)
(* (search-indexes.ts:26-27).                                                *)
ModeIsLeased ==
    \A i \in Instance :
        lease[i] = "held" => instance[i].enabled = indexConfig.enabled
=============================================================================
