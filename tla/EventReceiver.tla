--------------------------- MODULE EventReceiver ---------------------------
(* CeleryEventReceiver (server/events/receiver.py): a thread that consumes   *)
(* Celery events and hands each one over to the event loop, which puts it    *)
(* into the queue of the ingester.                                           *)
(*                                                                           *)
(* The thread and the loop interleave at the calls that touch what they      *)
(* share: the permits, the callbacks scheduled on the loop, the stop signal. *)
EXTENDS Naturals, Sequences

CONSTANTS
    Kind,           \* kinds of events the broker delivers
    MaxEvents,      \* bound on the events the broker delivers
    QueueSize,      \* maxsize of the queue
    MaxPending,     \* permits of _pending
    MaxFaults       \* bound on failed and lost connections

ASSUME ReceiverAssumption ==
    {MaxEvents, QueueSize, MaxPending, MaxFaults} \subseteq Nat

NoEvent == [id |-> 0, kind |-> "none"]
Event == [id : 1..MaxEvents, kind : Kind]

VARIABLES
    thread,         \* where the thread is
    delivered,      \* number of events the broker delivered
    event,          \* the one on_event is handling, or handled last
    hasReceiver,    \* self.receiver is not None
    shouldStop,     \* should_stop of the current celery receiver
    stopSignal,     \* _stop_signal
    permits,        \* value of the semaphore _pending
    scheduled,      \* _enqueue callbacks waiting on the loop
    loop,           \* "running", "stopping" between the two lines of stop(),
                    \* "joining" while it blocks in join, "closed"
    queue,          \* the asyncio.Queue
    taken,          \* events taken out of it
    late,           \* events accepted after the stop signal
    faults

threadVars == <<thread, delivered, event, hasReceiver>>
stopVars == <<shouldStop, stopSignal, loop>>
vars == <<threadVars, stopVars, permits, scheduled, queue, taken, late, faults>>

Thread == {"connecting", "capturing", "delivered", "permitted", "checking", "sleeping", "ended"}

TypeOK ==
    /\ thread \in Thread
    /\ delivered \in 0..MaxEvents
    /\ event \in Event \cup {NoEvent}
    /\ hasReceiver \in BOOLEAN
    /\ shouldStop \in BOOLEAN
    /\ stopSignal \in BOOLEAN
    /\ permits \in 0..MaxPending
    /\ scheduled \in Seq(Event)
    /\ loop \in {"running", "stopping", "joining", "closed"}
    /\ queue \in Seq(Event)
    /\ taken \in Seq(Event)
    /\ late \in Nat
    /\ faults \in 0..MaxFaults

Init ==
    /\ thread = "connecting"
    /\ delivered = 0
    /\ event = NoEvent
    /\ hasReceiver = FALSE
    /\ shouldStop = FALSE
    /\ stopSignal = FALSE
    /\ permits = MaxPending
    /\ scheduled = <<>>
    /\ loop = "running"
    /\ queue = <<>>
    /\ taken = <<>>
    /\ late = 0
    /\ faults = 0

-----------------------------------------------------------------------------
(* The thread.                                                               *)

(* `while not self._stop_signal.is_set()`                                    *)
Again == thread' = IF stopSignal THEN "ended" ELSE "connecting"

Fault == faults < MaxFaults /\ faults' = faults + 1

(* consume_events up to capture, with a receiver of its own.                 *)
Connect ==
    /\ thread = "connecting"
    /\ thread' = "capturing"
    /\ hasReceiver' = TRUE
    /\ shouldStop' = FALSE
    /\ UNCHANGED <<delivered, event, stopSignal, loop, permits, scheduled, queue, taken, late, faults>>

(* The connection fails, or is lost while capturing; ten seconds of sleep    *)
(* unless the receiver is being stopped.                                     *)
Disconnect ==
    /\ thread \in {"connecting", "capturing"}
    /\ Fault
    /\ thread' = IF stopSignal THEN "ended" ELSE "sleeping"
    /\ UNCHANGED <<delivered, event, hasReceiver, stopVars, permits, scheduled, queue, taken, late>>

Wake ==
    /\ thread = "sleeping"
    /\ Again
    /\ UNCHANGED <<delivered, event, hasReceiver, stopVars, permits, scheduled, queue, taken, late, faults>>

(* capture returns once it sees should_stop.                                 *)
CaptureEnds ==
    /\ thread = "capturing"
    /\ shouldStop
    /\ Again
    /\ UNCHANGED <<delivered, event, hasReceiver, stopVars, permits, scheduled, queue, taken, late, faults>>

(* _receive: a malformed event goes no further than this.                    *)
Deliver(k) ==
    /\ thread = "capturing"
    /\ delivered < MaxEvents
    /\ delivered' = delivered + 1
    /\ IF k = "malformed"
       THEN UNCHANGED <<thread, event>>
       ELSE thread' = "delivered" /\ event' = [id |-> delivered', kind |-> k]
    /\ UNCHANGED <<hasReceiver, stopVars, permits, scheduled, queue, taken, late, faults>>

Acquire ==
    /\ thread = "delivered"
    /\ IF permits > 0
       THEN permits' = permits - 1 /\ thread' = "permitted"
       ELSE thread' = "checking" /\ UNCHANGED permits
    /\ UNCHANGED <<delivered, event, hasReceiver, stopVars, scheduled, queue, taken, late, faults>>

(* Mutant: a closed loop keeps the permit. *)
ScheduleKeepingPermit ==
    /\ thread = "permitted"
    /\ IF loop = "closed"
       THEN thread' = "capturing" /\ UNCHANGED <<permits, scheduled, late>>
       ELSE /\ thread' = "checking"
            /\ scheduled' = Append(scheduled, event)
            /\ late' = IF stopSignal THEN late + 1 ELSE late
            /\ UNCHANGED permits
    /\ UNCHANGED <<delivered, event, hasReceiver, stopVars, queue, taken, faults>>

(* call_soon_threadsafe raises RuntimeError on a closed loop, which          *)
(* ValidatedEventReceiver swallows: capturing goes on.                       *)
Schedule ==
    /\ thread = "permitted"
    /\ IF loop = "closed"
       THEN /\ permits' = permits + 1
            /\ thread' = "capturing"
            /\ UNCHANGED <<scheduled, late>>
       ELSE /\ thread' = "checking"
            /\ scheduled' = Append(scheduled, event)
            /\ late' = IF stopSignal THEN late + 1 ELSE late
            /\ UNCHANGED permits
    /\ UNCHANGED <<delivered, event, hasReceiver, stopVars, queue, taken, faults>>

(* KeyboardInterrupt passes `except Exception` and ends run().               *)
CheckStop ==
    /\ thread = "checking"
    /\ thread' = IF stopSignal THEN "ended" ELSE "capturing"
    /\ UNCHANGED <<delivered, event, hasReceiver, stopVars, permits, scheduled, queue, taken, late, faults>>

-----------------------------------------------------------------------------
(* The event loop.                                                           *)

Enqueue ==
    /\ loop = "running"
    /\ scheduled # <<>>
    /\ scheduled' = Tail(scheduled)
    /\ permits' = permits + 1
    /\ queue' = IF Len(queue) < QueueSize THEN Append(queue, Head(scheduled)) ELSE queue
    /\ UNCHANGED <<threadVars, stopVars, taken, late, faults>>

(* The ingester's queue.get().                                               *)
Take ==
    /\ loop = "running"
    /\ queue # <<>>
    /\ queue' = Tail(queue)
    /\ taken' = Append(taken, Head(queue))
    /\ UNCHANGED <<threadVars, stopVars, permits, scheduled, late, faults>>

(* stop() runs on the loop and blocks it until join returns: the thread is   *)
(* gone, or ten seconds have passed.                                         *)
StopCapture ==
    /\ loop = "running"
    /\ loop' = "stopping"
    /\ shouldStop' = (shouldStop \/ hasReceiver)
    /\ UNCHANGED <<threadVars, stopSignal, permits, scheduled, queue, taken, late, faults>>

SetStopSignal ==
    /\ loop = "stopping"
    /\ loop' = "joining"
    /\ stopSignal' = TRUE
    /\ UNCHANGED <<threadVars, shouldStop, permits, scheduled, queue, taken, late, faults>>

(* The process ends soon after; a thread that is still alive is a daemon.    *)
CloseLoop ==
    /\ loop = "joining"
    /\ loop' = "closed"
    /\ UNCHANGED <<threadVars, shouldStop, stopSignal, permits, scheduled, queue, taken, late, faults>>

Next ==
    \/ Connect \/ Disconnect \/ Wake \/ CaptureEnds
    \/ \E k \in Kind : Deliver(k)
    \/ Acquire \/ Schedule \/ CheckStop
    \/ Enqueue \/ Take
    \/ StopCapture \/ SetStopSignal \/ CloseLoop

Spec == Init /\ [][Next]_vars

-----------------------------------------------------------------------------
Ids(s) == {s[n].id : n \in DOMAIN s}

(* Every permit that is out belongs to a scheduled callback or to the event  *)
(* the thread is handling: none leaks when a queue is full or a loop closed, *)
(* which would throttle ingestion for good (receiver.py:71-86).              *)
PermitsMatch ==
    permits + Len(scheduled) + (IF thread = "permitted" THEN 1 ELSE 0) = MaxPending

(* Once the stop signal is set the receiver accepts no more than the event   *)
(* it is handling, or one it waited for (receiver.py:77-78).                 *)
LastEvent == late <= 1
=============================================================================
