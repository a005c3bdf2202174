--------------------------- MODULE WorkerPresence ---------------------------
(* Whether a worker is online and which of its tasks it executes, as events  *)
(* (build_worker_upsert in server/events/ingester.py) and the poller         *)
(* (server/workers/poller.py) record it.  One worker; the poller's awaits    *)
(* split a poll into steps, and events are written between any two of them.  *)
(*                                                                           *)
(* Time passes when something happens to the worker, so that what the poller *)
(* stamps `now` comes after all that happened then.  Clocks agree.           *)
EXTENDS Naturals, Sequences

CONSTANTS
    WorkerTask,                   \* tasks of the worker, each executed once
    MissedPollsThreshold,   \* MISSED_POLLS_THRESHOLD
    MaxTime,                \* bound on what happens to the worker
    MaxFaults               \* bound on database calls of the poller that fail

NoName == "none"

ASSUME WorkerPresenceAssumption ==
    /\ MissedPollsThreshold \in Nat \ {0}
    /\ {MaxTime, MaxFaults} \subseteq Nat
    /\ NoName \notin WorkerTask

VARIABLES
    now,
    alive,      \* the worker runs
    executing,  \* the tasks it executes
    begun,      \* the tasks it has ever begun
    events,     \* its events on their way, in order
    worker,     \* the worker's row
    tasks,      \* rows of the task table
    poll,       \* the poll under way
    misses,     \* polls without an answer since the last one that was recorded
    faults

worldVars == <<now, alive, executing, begun>>
presenceTables == <<worker, tasks>>
pollVars == <<poll, misses, faults>>
presenceVars == <<worldVars, events, presenceTables, pollVars>>

Step == {"idle", "inspecting", "answered", "upserted", "missing", "read", "cleared"}
NoAnswer == [stats |-> FALSE, active |-> FALSE, ids |-> {}]
Idle == [at |-> "idle", observed |-> 0, now |-> 0, answer |-> NoAnswer, missed |-> 0]

PresenceTypeOK ==
    /\ now \in 0..MaxTime
    /\ alive \in BOOLEAN
    /\ executing \subseteq begun /\ begun \subseteq WorkerTask
    /\ events \in Seq([kind : {"online", "offline", "started", "finished"},
                       task : WorkerTask \cup {NoName}, ts : 0..MaxTime])
    /\ worker \in [status : {NoName, "online", "offline"}, last : 0..MaxTime,
                   missed : 0..MissedPollsThreshold]
    /\ tasks \in [WorkerTask -> [state : {NoName, "STARTED", "DONE"}, last : 0..MaxTime,
                           active : {"unknown", "yes", "no"}, observed : 0..MaxTime]]
    /\ poll \in [at : Step, observed : 0..MaxTime, now : 0..MaxTime,
                 answer : [stats : BOOLEAN, active : BOOLEAN, ids : SUBSET WorkerTask],
                 missed : 0..MissedPollsThreshold]
    /\ misses \in 0..MissedPollsThreshold
    /\ faults \in 0..MaxFaults

PresenceInit ==
    /\ now = 0
    /\ alive = FALSE
    /\ executing = {}
    /\ begun = {}
    /\ events = <<>>
    /\ worker = [status |-> NoName, last |-> 0, missed |-> 0]
    /\ tasks = [t \in WorkerTask |-> [state |-> NoName, last |-> 0, active |-> "unknown", observed |-> 0]]
    /\ poll = Idle
    /\ misses = 0
    /\ faults = 0

-----------------------------------------------------------------------------
(* The worker; any of its events may be lost.                                *)
Emit(kind, t) ==
    /\ now < MaxTime
    /\ now' = now + 1
    /\ \/ events' = Append(events, [kind |-> kind, task |-> t, ts |-> now'])
       \/ UNCHANGED events
    /\ UNCHANGED <<presenceTables, pollVars>>

Join ==
    /\ ~alive
    /\ alive' = TRUE
    /\ Emit("online", NoName)
    /\ UNCHANGED <<executing, begun>>

Heartbeat ==
    /\ alive
    /\ Emit("online", NoName)
    /\ UNCHANGED <<alive, executing, begun>>

Leave ==
    /\ alive
    /\ alive' = FALSE
    /\ executing' = {}
    /\ Emit("offline", NoName)
    /\ UNCHANGED begun

Begin(t) ==
    /\ alive /\ t \notin begun
    /\ executing' = executing \cup {t}
    /\ begun' = begun \cup {t}
    /\ Emit("started", t)
    /\ UNCHANGED alive

End(t) ==
    /\ t \in executing
    /\ executing' = executing \ {t}
    /\ Emit("finished", t)
    /\ UNCHANGED <<alive, begun>>

-----------------------------------------------------------------------------
(* The ingester writes the next event (a transaction).                       *)
Fresh(e) == worker.status = NoName \/ e.ts >= worker.last

Observed(r) == r.state = "STARTED" /\ r.active # "unknown"

WriteWorker(e) ==
    /\ worker' = IF Fresh(e)
                 THEN [status |-> IF e.kind = "offline" THEN "offline" ELSE "online",
                       last |-> e.ts, missed |-> 0]
                 ELSE worker
    /\ tasks' = [t \in WorkerTask |->
                    IF e.kind = "offline" /\ Observed(tasks[t]) /\ tasks[t].observed <= e.ts
                    THEN [tasks[t] EXCEPT !.active = "unknown"]
                    ELSE tasks[t]]

WriteTask(e) ==
    /\ tasks' = [tasks EXCEPT ![e.task].state = IF e.kind = "started" THEN "STARTED" ELSE "DONE",
                              ![e.task].last = e.ts]
    /\ UNCHANGED worker

WriteEvent ==
    /\ events # <<>>
    /\ events' = Tail(events)
    /\ LET e == Head(events)
       IN  IF e.task = NoName THEN WriteWorker(e) ELSE WriteTask(e)
    /\ UNCHANGED <<worldVars, pollVars>>

-----------------------------------------------------------------------------
(* _inspect_sync: other calls first, the active tasks last, stamped with the *)
(* time right before that request.  A worker may miss any call.              *)
PollStarts ==
    /\ poll.at = "idle"
    /\ \E stats \in {FALSE, alive} :
          poll' = [Idle EXCEPT !.at = "inspecting", !.observed = now, !.answer.stats = stats]
    /\ UNCHANGED <<worldVars, events, presenceTables, misses, faults>>

Inspected ==
    /\ poll.at = "inspecting"
    /\ \E active \in {FALSE, alive} :
          LET answers == poll.answer.stats \/ active
          IN  /\ poll' = [poll EXCEPT !.at = IF answers THEN "answered" ELSE "missing",
                                      !.now = now,
                                      !.answer.active = active,
                                      !.answer.ids = IF active THEN executing ELSE {}]
              /\ misses' = IF answers \/ misses = MissedPollsThreshold THEN misses ELSE misses + 1
    /\ UNCHANGED <<worldVars, events, presenceTables, faults>>

Fault == faults < MaxFaults /\ faults' = faults + 1

Continue(place) == poll' = [poll EXCEPT !.at = place]

(* Mutant: an answer does not reset the count. *)
UpsertKeepingMissed ==
    /\ poll.at = "answered"
    /\ worker' = [worker EXCEPT !.status = "online", !.last = poll.now]
    /\ misses' = 0
    /\ Continue("upserted")
    /\ UNCHANGED <<worldVars, events, tasks, faults>>

UpsertWorker ==
    /\ poll.at = "answered"
    /\ worker' = [status |-> "online", last |-> poll.now, missed |-> 0]
    /\ misses' = 0
    /\ Continue("upserted")
    /\ UNCHANGED <<worldVars, events, tasks, faults>>

ClearExecution ==
    tasks' = [t \in WorkerTask |-> IF Observed(tasks[t]) THEN [tasks[t] EXCEPT !.active = "unknown"] ELSE tasks[t]]

Shown(t) == IF t \in poll.answer.ids THEN "yes" ELSE "no"

(* Mutant: tasks that started since the request are judged too. *)
ObserveAll ==
    tasks' = [t \in WorkerTask |->
                IF tasks[t].state = "STARTED"
                THEN [tasks[t] EXCEPT !.active = Shown(t), !.observed = poll.observed]
                ELSE tasks[t]]

ObserveExecution ==
    tasks' = [t \in WorkerTask |->
                IF tasks[t].state = "STARTED" /\ tasks[t].last <= poll.observed
                THEN [tasks[t] EXCEPT !.active = Shown(t), !.observed = poll.observed]
                ELSE tasks[t]]

UpdateExecution ==
    /\ poll.at = "upserted"
    /\ IF poll.answer.active THEN ObserveExecution ELSE ClearExecution
    /\ poll' = Idle
    /\ UNCHANGED <<worldVars, events, worker, misses, faults>>

(* Offline detection for a worker that did not answer.                       *)
ReadKnown ==
    /\ poll.at = "missing"
    /\ poll' = IF worker.status = "online"
               THEN [poll EXCEPT !.at = "read", !.missed = worker.missed + 1]
               ELSE Idle
    /\ UNCHANGED <<worldVars, events, presenceTables, misses, faults>>

ClearMissing ==
    /\ poll.at = "read"
    /\ ClearExecution
    /\ Continue("cleared")
    /\ UNCHANGED <<worldVars, events, worker, misses, faults>>

(* Mutant: the count is not written. *)
ForgetMissed ==
    /\ poll.at = "cleared"
    /\ worker' = IF poll.missed >= MissedPollsThreshold
                 THEN [worker EXCEPT !.status = "offline", !.missed = poll.missed, !.last = poll.now]
                 ELSE worker
    /\ poll' = Idle
    /\ UNCHANGED <<worldVars, events, tasks, misses, faults>>

WriteMissed ==
    /\ poll.at = "cleared"
    /\ worker' = IF poll.missed >= MissedPollsThreshold
                 THEN [worker EXCEPT !.status = "offline", !.missed = poll.missed, !.last = poll.now]
                 ELSE [worker EXCEPT !.missed = poll.missed]
    /\ poll' = Idle
    /\ UNCHANGED <<worldVars, events, tasks, misses, faults>>

(* A database call fails: the poll is over for this worker.                  *)
PollFails ==
    /\ poll.at \in {"answered", "upserted", "missing", "read", "cleared"}
    /\ Fault
    /\ poll' = Idle
    /\ UNCHANGED <<worldVars, events, presenceTables, misses>>

PollStep ==
    \/ PollStarts \/ UpsertWorker \/ UpdateExecution
    \/ ReadKnown \/ ClearMissing \/ WriteMissed

PresenceNext ==
    \/ Join \/ Heartbeat \/ Leave
    \/ \E t \in WorkerTask : Begin(t) \/ End(t)
    \/ WriteEvent
    \/ PollStep \/ Inspected \/ PollFails

PresenceSpec == PresenceInit /\ [][PresenceNext]_presenceVars

(* Polls are repeated and events written, and a worker that lives answers    *)
(* some polls.                                                               *)
Answered == Inspected /\ poll'.at = "answered"

PresenceFairness ==
    /\ WF_presenceVars(WriteEvent) /\ WF_presenceVars(PollStep) /\ WF_presenceVars(Inspected)
    /\ SF_presenceVars(Answered)

FairPresenceSpec == PresenceSpec /\ PresenceFairness

-----------------------------------------------------------------------------
(* "Workers are only marked offline after MISSED_POLLS_THRESHOLD consecutive *)
(* missed polls" (poller.py:79): the poller's count, kept in a row that      *)
(* events reset and that it reads before it writes, never runs ahead.  (An   *)
(* answer whose UPSERT fails is no answer to this count.)                    *)
OfflineAfterMisses ==
    [][WriteMissed /\ worker.status = "online" /\ worker'.status = "offline" => misses >= MissedPollsThreshold]_presenceVars

(* "absence only proves anything before the request" (poller.py:62): a task  *)
(* shown as started but not executed has really ended.                       *)
AbsenceIsProof ==
    \A t \in WorkerTask : tasks[t].state = "STARTED" /\ tasks[t].active = "no" => t \notin executing

(* A worker that went away is shown offline in the end, and a worker that    *)
(* stays is shown online.                                                    *)
PresenceShown ==
    /\ ~alive /\ worker.status = "online" ~> alive \/ worker.status = "offline"
    /\ alive ~> ~alive \/ worker.status = "online"

(* "Polls skip offline workers, so observations made before the worker left  *)
(* would otherwise outlive it" (ingester.py:645): nothing is shown to be     *)
(* executed by a worker that is shown offline, once the poll is over.        *)
NoneExecutedOffline ==
    worker.status = "offline" /\ poll.at = "idle" => \A t \in WorkerTask : ~Observed(tasks[t])
=============================================================================
