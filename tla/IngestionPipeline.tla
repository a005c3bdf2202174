------------------------- MODULE IngestionPipeline -------------------------
(* The bridge's ingestion as lifespan (server/lifespan.py) puts it together: *)
(* the receiver thread and the ingester's tasks share a queue, and shutdown  *)
(* stops the ingester first and the receiver after it.                       *)
EXTENDS EventReceiver

CONSTANTS FlushSize, Backpressure, ConflictRetries, MaxDbFaults

VARIABLES buffer, hasTerminal, lock, pc, batch, attempt, callback,
          log, fetched, dropped, failed, dbFaults

ingesterVars == <<buffer, hasTerminal, lock, pc, batch, attempt, callback,
                  log, fetched, dropped, failed, dbFaults>>

(* Nothing arrives in the ingester's queue but what the receiver enqueues.   *)
I == INSTANCE Ingester WITH arrived <- 0, faults <- dbFaults, MaxFaults <- MaxDbFaults

ASSUME PipelineAssumption ==
    /\ Kind \subseteq I!EventKind
    /\ {ConflictRetries, MaxDbFaults} \subseteq Nat
    /\ {FlushSize, Backpressure} \subseteq Nat \ {0}

PipelineTypeOK == TypeOK /\ I!TypeOK

PipelineInit == Init /\ I!Init

(* lifespan after its yield: `await ingester.stop()`, `event_receiver.stop()`. *)
ReceiverStep ==
    /\ \/ Connect \/ Disconnect \/ Wake \/ CaptureEnds
       \/ \E k \in Kind : Deliver(k)
       \/ Acquire \/ Schedule \/ CheckStop \/ Enqueue
       \/ I!Stopped /\ StopCapture
       \/ SetStopSignal \/ CloseLoop
    /\ UNCHANGED ingesterVars

ConsumeEvent == Take /\ I!Consume

IngesterStep ==
    /\ \/ I!TimerFires
       \/ \E t \in I!Task : I!Step(t)
       \/ I!Stop
    /\ UNCHANGED <<threadVars, stopVars, permits, scheduled, taken, late, faults>>

PipelineNext == ReceiverStep \/ ConsumeEvent \/ IngesterStep

PipelineSpec == PipelineInit /\ [][PipelineNext]_<<vars, ingesterVars>>

-----------------------------------------------------------------------------
(* From the broker to the database no event overtakes another: when one is   *)
(* written, every earlier one has been written before it or has been dropped *)
(* on the way, in whichever of the five places it could wait                 *)
(* (receiver.py:67-86, ingester.py:155-296).                                 *)
OnItsWay == Ids(scheduled) \cup Ids(queue) \cup Ids(I!Held)

NoOvertaking ==
    \A n \in DOMAIN log : \A i \in OnItsWay \cup Ids(log) :
        i < log[n].id => i \in Ids(SubSeq(log, 1, n))
=============================================================================
