----------------------------- MODULE TaskTimeline -----------------------------
(* How long a task has run, as its page and the timeline of its workflow     *)
(* draw it (src/utils/task-phases.ts, src/utils/task-execution.ts,           *)
(* src/components/task/task-lifetime-chart.tsx,                              *)
(* src/components/workflow/timeline-chart.tsx): from a record that events    *)
(* and inspections of its worker write, some of them late or never, and the  *)
(* clock of the page, which trails the time.                                 *)
EXTENDS Integers, FiniteSets, Sequences

CONSTANTS
    EndOfTimeline,      \* bound on the time
    MaxAge,             \* EXECUTION_OBSERVATION_MAX_AGE_MS
    RefreshAge,         \* OBSERVATION_REFRESH_SECONDS
    NiceIntervals,      \* niceIntervals
    Minute,             \* 60000
    TargetTicks         \* targetTickCount at the widths of the window

ASSUME TaskTimelineAssumption ==
    /\ {EndOfTimeline, MaxAge, RefreshAge} \subseteq Nat /\ Minute \in Nat \ {0}
    /\ NiceIntervals \subseteq 1..Minute /\ TargetTicks \subseteq Nat \ {0, 1}

VARIABLES
    now,                \* the time
    rendered,           \* useNow: the clock of the page
    raw,                \* the record of the task
    lastSeen           \* the last inspection that found the task at work

timelineVars == <<now, rendered, raw, lastSeen>>

Never == -1
Final == {"SUCCESS", "REVOKED"}     \* success stands for failure and retry
Moment == {Never} \cup 0..EndOfTimeline
Latest(S) == CHOOSE x \in S : \A y \in S : y <= x
Earliest(S) == CHOOSE x \in S : \A y \in S : x <= y
Or(x, y) == IF x # Never THEN x ELSE y

(* The time of the record that an event of each state writes.                *)
Stamp == [PENDING |-> "sent", RECEIVED |-> "received", STARTED |-> "started",
          SUCCESS |-> "succeeded", REVOKED |-> "revoked"]
Times == {"sent", "received", "started", "succeeded", "revoked",
          "updated", "observed", "confirmed"}

TaskTimelineTypeOK ==
    /\ now \in 0..EndOfTimeline /\ rendered \in 0..now
    /\ raw.state \in DOMAIN Stamp /\ raw.active \in {"yes", "no", "unknown"}
    /\ \A f \in Times : raw[f] \in Moment
    /\ lastSeen \in Moment

(* The first event of a task makes its record.                               *)
TaskTimelineInit ==
    /\ now = 0 /\ rendered = 0 /\ lastSeen = Never
    /\ \E first \in {"PENDING", "RECEIVED", "STARTED"} :
          raw = [f \in Times \cup {"state", "active"} |->
                   CASE f = "state" -> first [] f = "active" -> "unknown"
                     [] f \in {"updated", Stamp[first]} -> 0 [] OTHER -> Never]

-----------------------------------------------------------------------------
(* An event of any state, of now or a moment ago, is written; it decides the *)
(* state if it is later than any other.                                      *)
EventSays(state, ts) ==
    /\ ts \in {now, now - 1} \cap Nat /\ raw[Stamp[state]] = Never
    /\ raw' = [raw EXCEPT ![Stamp[state]] = ts,
                          !.state = IF ts > raw.updated THEN state ELSE @,
                          !.updated = Latest({@, ts})]
    /\ UNCHANGED <<now, rendered, lastSeen>>

(* The poller of workers writes what an inspection of now found, if it is    *)
(* news or what is there grows old.                                          *)
PollFinds(found) ==
    /\ raw.state = "STARTED" /\ raw.updated <= now
    /\ lastSeen' = IF found = "yes" THEN now ELSE lastSeen
    /\ raw' = IF raw.active # found \/ raw.observed < raw.updated \/ raw.observed < now - RefreshAge
              THEN [raw EXCEPT !.active = found, !.observed = now,
                               !.confirmed = IF found = "yes" THEN now ELSE @]
              ELSE raw
    /\ UNCHANGED <<now, rendered>>

(* An inspection fails, or the worker goes offline.                          *)
Clears ==
    /\ raw.state = "STARTED" /\ raw' = [raw EXCEPT !.active = "unknown"]
    /\ UNCHANGED <<now, rendered, lastSeen>>

Passes == now < EndOfTimeline /\ now' = now + 1 /\ UNCHANGED <<rendered, raw, lastSeen>>

(* The shared ticker of useNow, for pages of a task that is not done.        *)
RendersAgain ==
    /\ raw.state \notin Final /\ rendered' = now
    /\ UNCHANGED <<now, raw, lastSeen>>

TaskTimelineNext ==
    \/ \E state \in DOMAIN Stamp, ts \in 0..now : EventSays(state, ts)
    \/ \E found \in {"yes", "no"} : PollFinds(found)
    \/ Clears \/ Passes \/ RendersAgain

TaskTimelineSpec == TaskTimelineInit /\ [][TaskTimelineNext]_timelineVars

-----------------------------------------------------------------------------
(* parseTask: without a time of sending, that of the last update.            *)
ParsedTask == [raw EXCEPT !.sent = Or(@, raw.updated)]

(* getTaskExecution: an observation is current within the window to either   *)
(* side of the page's clock, and void once something later is reported.      *)
Execution ==
    IF \/ raw.observed = Never
       \/ rendered - raw.observed \notin -MaxAge..MaxAge
       \/ raw.observed < raw.updated
    THEN "unknown" ELSE raw.active

Unconfirmed == raw.state = "STARTED" /\ Execution # "yes"

FinishedAt == Or(raw.succeeded, raw.revoked)
StartedAt == Or(raw.started, raw.revoked)
ReceivedAt == Or(raw.received, raw.revoked)

(* Mutant: any inspection moves the end of what is not confirmed. *)
TaskEndTimeByObservation ==
    IF raw.state \in Final THEN Or(FinishedAt, raw.updated)
    ELSE IF Unconfirmed
    THEN Earliest({rendered, Latest({0, raw.started, raw.updated, raw.observed})})
    ELSE rendered

(* getTaskEndTime: the end of a task that is done, the last sign of one that *)
(* is not known to run, and else the present.                                *)
TaskEndTime ==
    IF raw.state \in Final THEN Or(FinishedAt, raw.updated)
    ELSE IF Unconfirmed
    THEN Earliest({rendered, Latest({0, raw.started, raw.updated, raw.confirmed})})
    ELSE rendered

Phase(kind, start, end) == [kind |-> kind, start |-> start, end |-> end]

(* computeTaskPhases: waiting in the queue, in the worker, and running, for  *)
(* what takes time; a time that is missing is taken to be the end.           *)
TaskPhases ==
    LET sent == ParsedTask.sent
        end == TaskEndTime
        received == Or(ReceivedAt, end)
        started == Or(StartedAt, end)
        known ==
            (IF received > sent THEN {Phase("queue", sent, received)} ELSE {})
              \cup (IF ReceivedAt # Never /\ started > received
                    THEN {Phase("worker", received, started)} ELSE {})
              \cup (IF StartedAt # Never /\ end > started
                    THEN {Phase(IF Unconfirmed THEN "unconfirmed" ELSE "running", started, end)} ELSE {})
    IN  IF known = {} /\ end > sent THEN {Phase("queue", sent, end)} ELSE known

(* The ticks of an axis: multiples of the first nice interval that is long   *)
(* enough, or else of whole minutes.                                         *)
TickInterval(range, target) ==
    LET enough == {n \in NiceIntervals : n * target >= range}
    IN  IF enough # {} THEN Earliest(enough)
        ELSE ((range + target * Minute - 1) \div (target * Minute)) * Minute

Ticks(start, end, target) ==
    IF end <= start THEN {}
    ELSE {t \in start..end : t % TickInterval(end - start, target) = 0}

(* The bar of the task in the timeline of its workflow.                      *)
Bar == [start |-> ParsedTask.sent, end |-> TaskEndTime]

-----------------------------------------------------------------------------
(* A page never shows a task at work for longer than there is a sign of it:  *)
(* what is drawn as running goes on to the page's clock only while the last  *)
(* inspection is recent and has found the task, and stops at the last event  *)
(* or finding otherwise, however often later inspections miss it; what is    *)
(* drawn takes time, and an axis has no more ticks than fit it               *)
(* (getTaskEndTime, computeTaskPhases, getTaskExecution, ticks).             *)
TimelineShowsSigns ==
    /\ \A p \in TaskPhases :
          /\ p.start < p.end
          /\ p.kind = "running" /\ raw.state = "STARTED" =>
                lastSeen >= raw.updated /\ rendered - MaxAge - RefreshAge - 1 <= lastSeen
          /\ p.kind = "unconfirmed" => p.end <= Latest({lastSeen, raw.started, raw.updated})
    /\ \A target \in TargetTicks :
          LET ticks == Ticks(Bar.start, Bar.end, target)
          IN  \A t, u \in ticks : t < u => (u - t) * target >= Bar.end - Bar.start
=============================================================================
