------------------------------ MODULE Ingester ------------------------------
(* SurrealDBIngester (server/events/ingester.py): two tasks of one event     *)
(* loop, the consume loop and the flush timer, share a buffer and flush it   *)
(* to SurrealDB one transaction at a time.                                   *)
(*                                                                           *)
(* Code between two awaits is one step.  A task waits for the flush lock     *)
(* ("locking"), for the database ("committing") or for the terminal callback *)
(* ("callback").  asyncio.Lock serves its waiters in FIFO order and nobody   *)
(* overtakes one: a task that releases it leaves it to the one that waits.   *)
EXTENDS Naturals, Sequences, FiniteSets

CONSTANTS
    Kind,              \* kinds of events that may arrive
    MaxEvents,         \* bound on the events that arrive
    FlushSize,         \* BUFFER_SIZE_THRESHOLD
    Backpressure,      \* BACKPRESSURE_THRESHOLD
    ConflictRetries,   \* CONFLICT_RETRIES
    MaxFaults          \* bound on conflicts, failed commits and cancelled ones

(* "malformed" events fail validate_event, "unusable" ones pass it but give  *)
(* no query at all (they have no timestamp, nor a uuid if they are of a      *)
(* task), and the database always refuses "refused" ones.                    *)
EventKind == {"plain", "terminal", "malformed", "unusable", "refused"}

ASSUME IngesterAssumption ==
    /\ Kind \subseteq EventKind
    /\ {MaxEvents, ConflictRetries, MaxFaults} \subseteq Nat
    /\ {FlushSize, Backpressure} \subseteq Nat \ {0}

Task == {"consumer", "timer"}
Null == "none"
Event == [id : 1..MaxEvents, kind : EventKind]

VARIABLES
    queue,        \* the asyncio.Queue the receiver fills
    arrived,      \* number of events that arrived
    buffer,       \* _buffer
    hasTerminal,  \* _has_terminal
    lock,         \* the task that owns _flush_lock, or is about to
    pc,
    batch,        \* events of the transaction each task is committing
    attempt,      \* retryable conflicts of that transaction
    callback,     \* terminal task ids of the callback each task is in
    log,          \* events of the transactions the database has applied
    fetched,      \* terminal task ids handed to on_terminal so far
    dropped,      \* events discarded on purpose
    failed,       \* events that were in a failed flush
    faults

arrivalVars == <<queue, arrived>>
dbVars == <<log, failed, faults>>
taskVars == <<batch, attempt, callback>>
vars == <<arrivalVars, buffer, hasTerminal, lock, pc, taskVars, dbVars, fetched, dropped>>

Elements(s) == {s[n] : n \in DOMAIN s}
Ids(s) == {s[n].id : n \in DOMAIN s}

TypeOK ==
    /\ queue \in Seq(Event)
    /\ arrived \in 0..MaxEvents
    /\ buffer \in Seq(Event)
    /\ hasTerminal \in BOOLEAN
    /\ lock \in Task \cup {Null}
    /\ pc \in [Task -> {"idle", "locking", "committing", "callback", "done"}]
    /\ batch \in [Task -> Seq(Event)]
    /\ attempt \in [Task -> 0..ConflictRetries]
    /\ callback \in [Task -> SUBSET (1..MaxEvents)]
    /\ log \in Seq(Event)
    /\ fetched \subseteq 1..MaxEvents
    /\ dropped \subseteq 1..MaxEvents
    /\ failed \subseteq 1..MaxEvents
    /\ faults \in 0..MaxFaults

Init ==
    /\ queue = <<>>
    /\ arrived = 0
    /\ buffer = <<>>
    /\ hasTerminal = FALSE
    /\ lock = Null
    /\ pc = [t \in Task |-> "idle"]
    /\ batch = [t \in Task |-> <<>>]
    /\ attempt = [t \in Task |-> 0]
    /\ callback = [t \in Task |-> {}]
    /\ log = <<>>
    /\ fetched = {}
    /\ dropped = {}
    /\ failed = {}
    /\ faults = 0

-----------------------------------------------------------------------------
Other(t) == IF t = "consumer" THEN "timer" ELSE "consumer"
Unusable(s) == \A n \in DOMAIN s : s[n].kind = "unusable"
TerminalIds(s) == {s[n].id : n \in {m \in DOMAIN s : s[m].kind = "terminal"}}
Stopped == pc["consumer"] = "done"

Goto(t, place) == pc' = [pc EXCEPT ![t] = place]

Release(t) == lock' = IF pc[Other(t)] = "locking" THEN Other(t) ELSE Null

(* _flush_buffer up to its await: take the buffer and send it.  When there   *)
(* is no query to send the lock is free again.                               *)
StartFlush(t, buf, flag) ==
    /\ buffer' = <<>>
    /\ hasTerminal' = (flag /\ buf = <<>>)
    /\ attempt' = [attempt EXCEPT ![t] = 0]
    /\ IF Unusable(buf)
       THEN /\ Release(t)
            /\ Goto(t, "idle")
            /\ dropped' = dropped \cup Ids(buf)
            /\ UNCHANGED batch
       ELSE /\ lock' = t
            /\ Goto(t, "committing")
            /\ batch' = [batch EXCEPT ![t] = buf]
            /\ UNCHANGED dropped

(* _flush up to its first await, with buf in the buffer.                     *)
Flush(t, buf, flag) ==
    IF lock = Null
    THEN StartFlush(t, buf, flag)
    ELSE /\ buffer' = buf
         /\ hasTerminal' = flag
         /\ Goto(t, "locking")
         /\ UNCHANGED <<lock, batch, attempt, dropped>>

FlushNow(buf, flag) == Len(buf) >= FlushSize \/ flag

Arrive(k) ==
    /\ ~Stopped
    /\ arrived < MaxEvents
    /\ arrived' = arrived + 1
    /\ queue' = Append(queue, [id |-> arrived + 1, kind |-> k])
    /\ UNCHANGED <<buffer, hasTerminal, lock, pc, taskVars, dbVars, fetched, dropped>>

(* One iteration of _consume_loop.                                           *)
Consume ==
    /\ pc["consumer"] = "idle"
    /\ queue # <<>>
    /\ queue' = Tail(queue)
    /\ LET e == Head(queue)
           buf == Append(buffer, e)
           flag == hasTerminal \/ e.kind = "terminal"
       IN  IF Len(buffer) >= Backpressure \/ e.kind = "malformed"
           THEN /\ dropped' = dropped \cup {e.id}
                /\ UNCHANGED <<buffer, hasTerminal, lock, pc, batch, attempt>>
           ELSE IF FlushNow(buf, flag)
           THEN Flush("consumer", buf, flag)
           ELSE /\ buffer' = buf
                /\ hasTerminal' = flag
                /\ UNCHANGED <<lock, pc, batch, attempt, dropped>>
    /\ UNCHANGED <<arrived, callback, dbVars, fetched>>

TimerFires ==
    /\ pc["timer"] = "idle"
    /\ buffer # <<>>
    /\ Flush("timer", buffer, hasTerminal)
    /\ UNCHANGED <<arrivalVars, callback, dbVars, fetched>>

(* The task the lock was left to goes on.                                    *)
Enter(t) ==
    /\ pc[t] = "locking"
    /\ lock = t
    /\ StartFlush(t, buffer, hasTerminal)
    /\ UNCHANGED <<arrivalVars, callback, dbVars, fetched>>

-----------------------------------------------------------------------------
(* The database answers a transaction (_commit and the end of _flush).       *)
Fault == faults < MaxFaults /\ faults' = faults + 1
Refused(s) == \E n \in DOMAIN s : s[n].kind = "refused"

(* Mutant: what arrived during the commit is overwritten. *)
RestoreBuffer(t) == buffer' = batch[t]

(* Mutant: the failed events queue up behind the new ones. *)
RequeueLast(t) == buffer' = buffer \o batch[t]

Requeue(t) == buffer' = batch[t] \o buffer

EndTransaction(t) ==
    /\ Release(t)
    /\ batch' = [batch EXCEPT ![t] = <<>>]
    /\ UNCHANGED <<arrivalVars, hasTerminal, attempt, dropped>>

(* Mutant: only the consume loop looks at the terminal ids. *)
ReturnToConsumerOnly(t, ids) ==
    IF ids = {} \/ t = "timer"
    THEN Goto(t, "idle") /\ UNCHANGED <<callback, fetched>>
    ELSE /\ Goto(t, "callback")
         /\ callback' = [callback EXCEPT ![t] = ids]
         /\ fetched' = fetched \cup ids

Return(t, ids) ==
    IF ids = {}
    THEN Goto(t, "idle") /\ UNCHANGED <<callback, fetched>>
    ELSE /\ Goto(t, "callback")
         /\ callback' = [callback EXCEPT ![t] = ids]
         /\ fetched' = fetched \cup ids

CommitOk(t) ==
    /\ pc[t] = "committing"
    /\ ~Refused(batch[t])
    /\ log' = log \o batch[t]
    /\ EndTransaction(t)
    /\ Return(t, TerminalIds(batch[t]))
    /\ UNCHANGED <<buffer, failed, faults>>

CommitConflicts(t) ==
    /\ pc[t] = "committing"
    /\ Fault
    /\ attempt[t] < ConflictRetries
    /\ attempt' = [attempt EXCEPT ![t] = @ + 1]
    /\ UNCHANGED <<arrivalVars, buffer, hasTerminal, lock, pc, batch, callback, log, failed, fetched, dropped>>

FlushFails(t) ==
    /\ Requeue(t)
    /\ failed' = failed \cup Ids(batch[t])
    /\ EndTransaction(t)
    /\ Return(t, {})

CommitGivesUp(t) ==
    /\ pc[t] = "committing"
    /\ Fault
    /\ attempt[t] = ConflictRetries
    /\ FlushFails(t)
    /\ UNCHANGED log

CommitRefused(t) ==
    /\ pc[t] = "committing"
    /\ Refused(batch[t])
    /\ FlushFails(t)
    /\ UNCHANGED <<log, faults>>

(* The call fails; the transaction may have been committed all the same.     *)
CommitErrors(t) ==
    /\ pc[t] = "committing"
    /\ Fault
    /\ FlushFails(t)
    /\ \/ UNCHANGED log
       \/ ~Refused(batch[t]) /\ log' = log \o batch[t]

(* on_terminal returns or raises, which _flush swallows.                     *)
CallbackReturns(t) ==
    /\ pc[t] = "callback"
    /\ Goto(t, "idle")
    /\ callback' = [callback EXCEPT ![t] = {}]
    /\ UNCHANGED <<arrivalVars, buffer, hasTerminal, lock, batch, attempt, dbVars, fetched, dropped>>

(* stop() cancels both tasks at their awaits.  CancelledError is not an      *)
(* Exception: a batch on its way is not put back.                            *)
Stop ==
    /\ ~Stopped
    /\ pc' = [t \in Task |-> "done"]
    /\ lock' = Null
    /\ batch' = [t \in Task |-> <<>>]
    /\ callback' = [t \in Task |-> {}]
    /\ \/ UNCHANGED log
       \/ \E t \in Task : ~Refused(batch[t]) /\ log' = log \o batch[t]
    /\ UNCHANGED <<arrivalVars, buffer, hasTerminal, attempt, failed, faults, fetched, dropped>>

Answer(t) ==
    \/ CommitOk(t)
    \/ CommitConflicts(t)
    \/ CommitGivesUp(t)
    \/ CommitRefused(t)
    \/ CommitErrors(t)

Step(t) ==
    \/ Enter(t)
    \/ Answer(t)
    \/ CallbackReturns(t)

Next ==
    \/ \E k \in Kind : Arrive(k)
    \/ Consume
    \/ TimerFires
    \/ \E t \in Task : Step(t)
    \/ Stop

Spec == Init /\ [][Next]_vars

(* The event loop runs what is ready, the interval elapses, and every call   *)
(* to the database or to the result backend returns or raises.               *)
Fairness ==
    /\ WF_vars(Consume)
    /\ WF_vars(TimerFires)
    /\ \A t \in Task : WF_vars(Step(t))

FairSpec == Spec /\ Fairness

-----------------------------------------------------------------------------
Held == batch["consumer"] \o batch["timer"] \o buffer
HeldIds == Ids(Held)

(* An event that arrived is waiting, being written, written or dropped on    *)
(* purpose, until the ingester stops: no failed flush, retry or interleaving *)
(* of the two tasks loses one (_flush_buffer, ingester.py:211-296).          *)
NothingLost ==
    ~Stopped => 1..arrived \subseteq Ids(queue) \cup HeldIds \cup Ids(log) \cup dropped

(* "two transactions in flight conflict on the same task and workflow rows"  *)
(* (ingester.py:140): the loop and the timer never commit at the same time.  *)
OneCommit == \A t \in Task : pc[t] = "committing" => lock = t

(* Results are fetched only for terminal events the database already holds,  *)
(* so that the fetched outcome finds its row (_flush, ingester.py:201-209).  *)
FetchedAfterCommit == fetched \subseteq Ids(log)

(* The ingester implements EventLog: events reach the database in arrival    *)
(* order, whole batches at a time, whatever fails.                           *)
Log == INSTANCE EventLog
       WITH held <- IF Stopped THEN <<>> ELSE Held,
            Unrecorded <- {e \in Event : e.kind = "unusable"}
WritesInOrder == Log!Spec

(* Every event that arrives is written in the end or dropped on purpose, and *)
(* every terminal event that is written has its result fetched, by whichever *)
(* task wrote it and however often it was tried (_flush_loop and _flush,     *)
(* ingester.py:190-209), unless the ingester stops or an event the database  *)
(* refuses is among those it holds.                                          *)
EventuallyWritten ==
    \A i \in 1..MaxEvents :
        /\ i <= arrived ~> (Stopped \/ i \in Ids(log) \cup dropped \/ Refused(Held))
        /\ i \in TerminalIds(log) ~> (Stopped \/ i \in fetched \/ Refused(Held))

(* "test_malformed_event_does_not_block_valid_event" (ingester_test.py:638): *)
(* an event the database will not take does not keep others from it.         *)
RefusedDoesNotBlock ==
    \A i \in 1..MaxEvents :
        i <= arrived ~>
            \/ Stopped
            \/ i \in Ids(log) \cup dropped
            \/ \E e \in Elements(Held \o queue) : e.id = i /\ e.kind = "refused"
=============================================================================
