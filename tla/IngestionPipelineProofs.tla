---------------------- MODULE IngestionPipelineProofs ----------------------
(* Proofs about EventReceiver and about the pipeline it forms with the       *)
(* ingester, for any number of events, permits and faults and any thresholds *)
(* and size of the queue.                                                    *)
EXTENDS IngestionPipeline, SequenceTheorems, TLAPS

(* What has been proved of the ingester.                                     *)
P == INSTANCE IngesterProofs WITH arrived <- 0, faults <- dbFaults, MaxFaults <- MaxDbFaults

-----------------------------------------------------------------------------
(* The receiver by itself.                                                   *)

(* What the thread is about to hand over is an event the broker delivered.   *)
HandlesEvent == thread \in {"delivered", "permitted"} => event \in Event

(* TypeOK bounds the permits only because of PermitsMatch, so the two are    *)
(* shown together.                                                           *)
PermitInv == TypeOK /\ HandlesEvent /\ PermitsMatch

(* The initial states have all the permits and handle no event.              *)
LEMMA InitPermitInv == Init => PermitInv
<1> SUFFICES ASSUME Init
             PROVE  PermitInv
    OBVIOUS
<1>1. /\ MaxPending \in Nat
      /\ 0 \in 0..MaxEvents
      /\ 0 \in 0..MaxFaults
      /\ MaxPending \in 0..MaxPending
      BY ReceiverAssumption, SMT DEF ReceiverAssumption
<1>2. <<>> \in Seq(Event) /\ Len(<<>>) = 0
      BY SMT
<1>3. TypeOK
      BY <1>1, <1>2 DEF Init, TypeOK, Thread
<1>4. HandlesEvent
      BY DEF Init, HandlesEvent
<1>5. PermitsMatch
      BY <1>1, <1>2, SMT DEF Init, PermitsMatch
<1>6. QED  BY <1>3, <1>4, <1>5 DEF PermitInv

(* Every step of the thread and of the event loop keeps the account of the   *)
(* permits: what Acquire takes is given back by Schedule or by Enqueue.      *)
LEMMA NextPermitInv == PermitInv /\ [Next]_vars => PermitInv'
<1> SUFFICES ASSUME PermitInv, [Next]_vars
             PROVE  PermitInv'
    OBVIOUS
<1> USE ReceiverAssumption DEF ReceiverAssumption, PermitInv, TypeOK, HandlesEvent, PermitsMatch,
        Thread, threadVars, stopVars
<1>1. CASE Connect
  <2>1. hasReceiver' \in BOOLEAN /\ shouldStop' \in BOOLEAN
        BY <1>1 DEF Connect
  <2>2. thread' = "capturing" /\ thread # "permitted"
        BY <1>1 DEF Connect
  <2>3. QED  BY <1>1, <2>1, <2>2, SMT DEF Connect
<1>2. CASE Disconnect
  <2>1. faults' \in 0..MaxFaults
        BY <1>2, SMT DEF Disconnect, Fault
  <2>2. thread' \in {"ended", "sleeping"}
        BY <1>2, SMT DEF Disconnect
  <2>3. thread # "permitted"
        BY <1>2, SMT DEF Disconnect
  <2>4. QED  BY <1>2, <2>1, <2>2, <2>3, SMT DEF Disconnect
<1>3. CASE Wake
      BY <1>3, SMT DEF Wake, Again
<1>4. CASE CaptureEnds
      BY <1>4, SMT DEF CaptureEnds, Again
<1>5. ASSUME NEW k \in Kind, Deliver(k)
      PROVE  PermitInv'
  <2>1. CASE k = "malformed"
        BY <1>5, <2>1, SMT DEF Deliver
  <2>2. CASE k # "malformed"
    <3>1. event' \in Event
          BY <1>5, <2>2, SMT DEF Deliver, Event
    <3>2. QED  BY <1>5, <2>2, <3>1, SMT DEF Deliver
  <2>3. QED  BY <2>1, <2>2
<1>6. CASE Acquire
      BY <1>6, SMT DEF Acquire
<1>7. CASE Schedule
  <2>1. CASE loop = "closed"
        BY <1>7, <2>1, SMT DEF Schedule
  <2>2. CASE loop # "closed"
    <3>1. event \in Event
          BY <1>7, SMT DEF Schedule
    <3>2. scheduled' = Append(scheduled, event)
          BY <1>7, <2>2, SMT DEF Schedule
    <3>3. /\ scheduled' \in Seq(Event)
          /\ Len(scheduled') = Len(scheduled) + 1
          BY <3>1, <3>2, SMT
    <3>4. QED  BY <1>7, <2>2, <3>3, SMT DEF Schedule
  <2>3. QED  BY <2>1, <2>2
<1>8. CASE CheckStop
      BY <1>8, SMT DEF CheckStop
<1>9. CASE Enqueue
  <2>1. /\ scheduled' \in Seq(Event)
        /\ Len(scheduled) \in Nat \ {0}
        /\ Len(scheduled') = Len(scheduled) - 1
        BY <1>9, SMT DEF Enqueue
  <2>2. queue' \in Seq(Event)
        BY <1>9, SMT DEF Enqueue
  <2>3. QED  BY <1>9, <2>1, <2>2, SMT DEF Enqueue
<1>10. CASE Take
  <2>1. queue' \in Seq(Event) /\ taken' \in Seq(Event)
        BY <1>10, SMT DEF Take
  <2>2. QED  BY <1>10, <2>1, SMT DEF Take
<1>11. CASE StopCapture
       BY <1>11, SMT DEF StopCapture
<1>12. CASE SetStopSignal
       BY <1>12, SMT DEF SetStopSignal
<1>13. CASE CloseLoop
       BY <1>13, SMT DEF CloseLoop
<1>14. CASE UNCHANGED vars
       BY <1>14, SMT DEF vars
<1>15. QED
       BY <1>1, <1>2, <1>3, <1>4, <1>5, <1>6, <1>7, <1>8, <1>9, <1>10, <1>11, <1>12, <1>13, <1>14
       DEF Next

(* The receiver never leaks a permit, and never has more than it was given:  *)
(* no sequence of full queues, lost connections and a closed loop throttles  *)
(* ingestion for good.                                                       *)
THEOREM PermitsNeverLeak == Spec => []PermitsMatch
<1>1. PermitInv => PermitsMatch
      BY DEF PermitInv
<1>2. QED  BY InitPermitInv, NextPermitInv, <1>1, PTL DEF Spec

(* The types of the receiver's state.                                        *)
THEOREM ReceiverTypes == Spec => []TypeOK
<1>1. PermitInv => TypeOK
      BY DEF PermitInv
<1>2. QED  BY InitPermitInv, NextPermitInv, <1>1, PTL DEF Spec

-----------------------------------------------------------------------------
(* An event accepted after the stop signal is the last one: the thread is    *)
(* about to look at the signal, or has ended.                                *)
StopInv ==
    /\ late \in {0, 1}
    /\ late = 1 => stopSignal /\ thread \in {"checking", "ended"}

(* No step after a late event leads back to an event.                        *)
LEMMA NextStopInv == StopInv /\ [Next]_vars => StopInv'
<1> SUFFICES ASSUME StopInv, [Next]_vars
             PROVE  StopInv'
    OBVIOUS
<1> USE DEF StopInv, threadVars, stopVars
<1>1. CASE Connect \/ Disconnect \/ Wake \/ CaptureEnds
      BY <1>1 DEF Connect, Disconnect, Wake, CaptureEnds, Again
<1>2. ASSUME NEW k \in Kind, Deliver(k)
      PROVE  StopInv'
      BY <1>2 DEF Deliver
<1>3. CASE Acquire
      BY <1>3 DEF Acquire
<1>4. CASE Schedule
      BY <1>4, SMT DEF Schedule
<1>5. CASE CheckStop
      BY <1>5 DEF CheckStop
<1>6. CASE Enqueue \/ Take
      BY <1>6 DEF Enqueue, Take
<1>7. CASE StopCapture \/ SetStopSignal \/ CloseLoop
      BY <1>7 DEF StopCapture, SetStopSignal, CloseLoop
<1>8. CASE UNCHANGED vars
      BY <1>8 DEF vars
<1>9. QED
      BY <1>1, <1>2, <1>3, <1>4, <1>5, <1>6, <1>7, <1>8 DEF Next

(* However many events the broker still has, the thread hands over at most   *)
(* one after the stop signal.                                                *)
THEOREM AtMostOneLateEvent == Spec => []LastEvent
<1>1. Init => StopInv
      BY DEF Init, StopInv
<1>2. StopInv => LastEvent
      BY SMT DEF StopInv, LastEvent
<1>3. QED  BY <1>1, NextStopInv, <1>2, PTL DEF Spec
-----------------------------------------------------------------------------
(* The pipeline.                                                             *)
(* The assumptions of the ingester hold of the pipeline's constants.         *)
LEMMA IngesterAssumed ==
    /\ Kind \subseteq P!EventKind
    /\ {MaxEvents, ConflictRetries, MaxDbFaults} \subseteq Nat
    /\ {FlushSize, Backpressure} \subseteq Nat \ {0}
BY PipelineAssumption, ReceiverAssumption DEF PipelineAssumption, ReceiverAssumption, I!EventKind, P!EventKind

-----------------------------------------------------------------------------
(* Sequences of events whose ids increase, and sequences of which one is     *)
(* before the other.                                                         *)
Increasing(s) == \A m, n \in DOMAIN s : m < n => s[m].id < s[n].id
Before(s, u) == \A i \in Ids(s), j \in Ids(u) : i < j

LEMMA EventFacts ==
    /\ Event \subseteq P!Event
    /\ \A s \in Seq(Event) : s \in Seq(P!Event)
    /\ \A e \in P!Event : e.id \in Nat
<1>1. Event \subseteq P!Event
      BY IngesterAssumed DEF Event, P!Event
<1>2. ASSUME NEW s \in Seq(Event) PROVE s \in Seq(P!Event)
      BY <1>1, SeqMonotonic
<1>3. \A e \in P!Event : e.id \in Nat
      BY DEF P!Event
<1>4. QED  BY <1>1, <1>2, <1>3

LEMMA IdsAreNumbers == \A s \in Seq(P!Event) : Ids(s) \subseteq Nat
BY EventFacts DEF Ids

LEMMA IdsOfParts ==
    ASSUME NEW s \in Seq(P!Event), NEW u \in Seq(P!Event)
    PROVE  /\ s \o u \in Seq(P!Event)
           /\ Ids(s \o u) = Ids(s) \cup Ids(u)
BY P!IdsOfConcat, IngesterAssumed DEF Ids, P!Ids

LEMMA IdsOfOne == ASSUME NEW e PROVE Ids(<<e>>) = {e.id}
BY DEF Ids

LEMMA IncreasingParts ==
    ASSUME NEW s \in Seq(P!Event), NEW u \in Seq(P!Event)
    PROVE  Increasing(s \o u) <=> Increasing(s) /\ Increasing(u) /\ Before(s, u)
<1> DEFINE w == s \o u
<1>1. /\ Len(s) \in Nat /\ Len(u) \in Nat
      /\ DOMAIN s = 1..Len(s) /\ DOMAIN u = 1..Len(u) /\ DOMAIN w = 1..(Len(s) + Len(u))
      /\ \A n \in 1..Len(s) : w[n] = s[n]
      /\ \A n \in 1..Len(u) : w[Len(s) + n] = u[n]
      BY ConcatProperties, LenProperties
<1> HIDE DEF w
<1>2. ASSUME Increasing(w) PROVE Increasing(s) /\ Increasing(u) /\ Before(s, u)
  <2>1. Increasing(s)
        BY <1>1, <1>2 DEF Increasing
  <2>2. ASSUME NEW m \in DOMAIN u, NEW n \in DOMAIN u, m < n PROVE u[m].id < u[n].id
    <3>1. Len(s) + m \in DOMAIN w /\ Len(s) + n \in DOMAIN w /\ Len(s) + m < Len(s) + n
          BY <1>1, <2>2
    <3>2. w[Len(s) + m].id < w[Len(s) + n].id
          BY <1>2, <3>1 DEF Increasing
    <3>3. QED  BY <1>1, <3>2
  <2>3. ASSUME NEW m \in DOMAIN s, NEW n \in DOMAIN u PROVE s[m].id < u[n].id
    <3>1. m \in DOMAIN w /\ Len(s) + n \in DOMAIN w /\ m < Len(s) + n
          BY <1>1
    <3>2. w[m].id < w[Len(s) + n].id
          BY <1>2, <3>1 DEF Increasing
    <3>3. QED  BY <1>1, <3>2
  <2>4. QED  BY <2>1, <2>2, <2>3 DEF Increasing, Before, Ids
<1>3. ASSUME Increasing(s), Increasing(u), Before(s, u) PROVE Increasing(w)
  <2> SUFFICES ASSUME NEW m \in DOMAIN w, NEW n \in DOMAIN w, m < n PROVE w[m].id < w[n].id
      BY DEF Increasing
  <2>1. CASE n <= Len(s)
    <3>1. m \in DOMAIN s /\ n \in DOMAIN s /\ w[m] = s[m] /\ w[n] = s[n]
          BY <1>1, <2>1
    <3>2. QED  BY <1>3, <3>1 DEF Increasing
  <2>2. CASE m > Len(s)
    <3>1. /\ m - Len(s) \in DOMAIN u /\ n - Len(s) \in DOMAIN u /\ m - Len(s) < n - Len(s)
          /\ w[m] = u[m - Len(s)] /\ w[n] = u[n - Len(s)]
          BY <1>1, <2>2
    <3>2. QED  BY <1>3, <3>1 DEF Increasing
  <2>3. CASE m <= Len(s) /\ n > Len(s)
    <3>1. m \in DOMAIN s /\ n - Len(s) \in DOMAIN u /\ w[m] = s[m] /\ w[n] = u[n - Len(s)]
          BY <1>1, <2>3
    <3>2. s[m].id \in Ids(s) /\ u[n - Len(s)].id \in Ids(u)
          BY <3>1 DEF Ids
    <3>3. QED  BY <1>3, <3>1, <3>2 DEF Before
  <2>4. QED  BY <1>1, <2>1, <2>2, <2>3
<1>4. QED  BY <1>2, <1>3 DEF w

LEMMA IncreasingOne == ASSUME NEW e PROVE Increasing(<<e>>)
BY DEF Increasing

LEMMA IncreasingNone == Increasing(<<>>) /\ Ids(<<>>) = {} /\ <<>> \in Seq(P!Event)
BY DEF Increasing, Ids

(* The first event of a sequence, and those behind it.                       *)
LEMMA FirstAndRest ==
    ASSUME NEW s \in Seq(P!Event), s # <<>>
    PROVE  /\ Head(s) \in P!Event /\ Tail(s) \in Seq(P!Event) /\ <<Head(s)>> \in Seq(P!Event)
           /\ s = <<Head(s)>> \o Tail(s)
           /\ Ids(s) = {Head(s).id} \cup Ids(Tail(s))
           /\ Increasing(s) => Increasing(Tail(s)) /\ Before(<<Head(s)>>, Tail(s))
<1>1. /\ Head(s) \in P!Event /\ Tail(s) \in Seq(P!Event) /\ <<Head(s)>> \in Seq(P!Event)
      /\ s = <<Head(s)>> \o Tail(s)
      OBVIOUS
<1>2. Ids(s) = {Head(s).id} \cup Ids(Tail(s))
      BY <1>1, IdsOfParts, IdsOfOne
<1>3. Increasing(s) => Increasing(Tail(s)) /\ Before(<<Head(s)>>, Tail(s))
      BY <1>1, IncreasingParts
<1>4. QED  BY <1>1, <1>2, <1>3

-----------------------------------------------------------------------------
(* The events on their way to the database: those the ingester holds, those  *)
(* in its queue, those the receiver has scheduled.                           *)
InLine(held, waiting, coming) ==
    /\ Increasing(held) /\ Increasing(waiting) /\ Increasing(coming)
    /\ Before(held, waiting) /\ Before(held, coming) /\ Before(waiting, coming)

(* What comes first may leave, and the rest may too.                         *)
LEMMA FirstLeaves ==
    ASSUME NEW first \in Seq(P!Event), NEW rest \in Seq(P!Event),
           NEW waiting \in Seq(P!Event), NEW coming \in Seq(P!Event),
           InLine(first \o rest, waiting, coming)
    PROVE  InLine(rest, waiting, coming) /\ InLine(<<>>, waiting, coming)
<1>1. Increasing(rest) /\ Ids(rest) \subseteq Ids(first \o rest)
      BY IdsOfParts, IncreasingParts DEF InLine
<1>2. QED  BY <1>1, IncreasingNone DEF InLine, Before

(* The ingester takes an event out of its queue.                             *)
LEMMA NextIsTaken ==
    ASSUME NEW held \in Seq(P!Event), NEW waiting \in Seq(P!Event), NEW coming \in Seq(P!Event),
           waiting # <<>>, InLine(held, waiting, coming)
    PROVE  /\ InLine(held \o <<Head(waiting)>>, Tail(waiting), coming)
           /\ InLine(held, Tail(waiting), coming)
           /\ InLine(<<>>, Tail(waiting), coming)
<1> DEFINE e == Head(waiting)
           rest == Tail(waiting)
<1>1. /\ rest \in Seq(P!Event) /\ <<e>> \in Seq(P!Event)
      /\ Ids(waiting) = {e.id} \cup Ids(rest) /\ Ids(<<e>>) = {e.id}
      /\ Increasing(rest) /\ Before(<<e>>, rest)
      BY FirstAndRest, IdsOfOne DEF InLine
<1> HIDE DEF e, rest
<1>2. Before(held, <<e>>) /\ Before(<<e>>, coming)
      BY <1>1 DEF InLine, Before
<1>3. Increasing(held \o <<e>>) /\ Ids(held \o <<e>>) = Ids(held) \cup {e.id}
  <2> DEFINE first == <<e>>
  <2>1. first \in Seq(P!Event) /\ Increasing(held) /\ Increasing(first) /\ Before(held, first)
        BY <1>1, <1>2, IncreasingOne DEF InLine
  <2>2. Ids(first) = {e.id}
        BY <1>1
  <2> HIDE DEF first
  <2>3. Increasing(held \o first) /\ Ids(held \o first) = Ids(held) \cup {e.id}
        BY <2>1, <2>2, IdsOfParts, IncreasingParts
  <2>4. QED  BY <2>3 DEF first
<1>4. InLine(held \o <<e>>, rest, coming)
      BY <1>1, <1>2, <1>3 DEF InLine, Before
<1>5. InLine(held, rest, coming) /\ InLine(<<>>, rest, coming)
      BY <1>1, IncreasingNone DEF InLine, Before
<1>6. QED  BY <1>4, <1>5 DEF e, rest

(* The event loop moves an event into the queue, or finds it full.           *)
LEMMA NextIsEnqueued ==
    ASSUME NEW held \in Seq(P!Event), NEW waiting \in Seq(P!Event), NEW coming \in Seq(P!Event),
           coming # <<>>, InLine(held, waiting, coming)
    PROVE  /\ InLine(held, waiting \o <<Head(coming)>>, Tail(coming))
           /\ InLine(held, waiting, Tail(coming))
<1> DEFINE e == Head(coming)
           rest == Tail(coming)
<1>1. /\ rest \in Seq(P!Event) /\ <<e>> \in Seq(P!Event)
      /\ Ids(coming) = {e.id} \cup Ids(rest) /\ Ids(<<e>>) = {e.id}
      /\ Increasing(rest) /\ Before(<<e>>, rest)
      BY FirstAndRest, IdsOfOne DEF InLine
<1> HIDE DEF e, rest
<1>2. Before(waiting, <<e>>)
      BY <1>1 DEF InLine, Before
<1>3. Increasing(waiting \o <<e>>) /\ Ids(waiting \o <<e>>) = Ids(waiting) \cup {e.id}
  <2> DEFINE first == <<e>>
  <2>1. first \in Seq(P!Event) /\ Increasing(waiting) /\ Increasing(first) /\ Before(waiting, first)
        BY <1>1, <1>2, IncreasingOne DEF InLine
  <2>2. Ids(first) = {e.id}
        BY <1>1
  <2> HIDE DEF first
  <2>3. Increasing(waiting \o first) /\ Ids(waiting \o first) = Ids(waiting) \cup {e.id}
        BY <2>1, <2>2, IdsOfParts, IncreasingParts
  <2>4. QED  BY <2>3 DEF first
<1>4. InLine(held, waiting \o <<e>>, rest)
      BY <1>1, <1>3 DEF InLine, Before
<1>5. InLine(held, waiting, rest)
      BY <1>1 DEF InLine, Before
<1>6. QED  BY <1>4, <1>5 DEF e, rest

(* A new event joins the line at its end.                                    *)
LEMMA NewIsLast ==
    ASSUME NEW held \in Seq(P!Event), NEW waiting \in Seq(P!Event), NEW coming \in Seq(P!Event),
           NEW e \in P!Event, InLine(held, waiting, coming),
           \A i \in Ids(held) \cup Ids(waiting) \cup Ids(coming) : i < e.id
    PROVE  /\ InLine(held, waiting, coming \o <<e>>)
           /\ Ids(coming \o <<e>>) = Ids(coming) \cup {e.id}
<1> DEFINE last == <<e>>
<1>1. last \in Seq(P!Event) /\ Ids(last) = {e.id} /\ Increasing(last)
      BY IdsOfOne, IncreasingOne
<1> HIDE DEF last
<1>2. Before(coming, last) /\ Increasing(coming)
      BY <1>1 DEF Before, InLine
<1>3. Increasing(coming \o last) /\ Ids(coming \o last) = Ids(coming) \cup {e.id}
      BY <1>1, <1>2, IdsOfParts, IncreasingParts
<1>4. QED  BY <1>3 DEF InLine, Before, last

-----------------------------------------------------------------------------
(* NoOvertaking of a log and of what is still on its way to it.              *)
InOrder(written, way) ==
    \A n \in DOMAIN written : \A i \in way \cup Ids(written) :
        i < written[n].id => i \in Ids(SubSeq(written, 1, n))

(* Writing the events that come first keeps the order: those before an event *)
(* that is written are before it in what is written.                         *)
LEMMA FirstIsWritten ==
    ASSUME NEW written \in Seq(P!Event), NEW first \in Seq(P!Event), NEW way \in SUBSET Nat,
           InOrder(written, way), Ids(first) \subseteq way, Increasing(first),
           \A i \in way \ Ids(first), j \in Ids(first) : j < i
    PROVE  InOrder(written \o first, way)
<1> DEFINE w == written \o first
<1>1. /\ w \in Seq(P!Event) /\ Ids(w) = Ids(written) \cup Ids(first)
      /\ Len(written) \in Nat /\ Len(first) \in Nat /\ Len(w) = Len(written) + Len(first)
      /\ DOMAIN written = 1..Len(written) /\ DOMAIN first = 1..Len(first) /\ DOMAIN w = 1..Len(w)
      /\ \A n \in 1..Len(written) : w[n] = written[n]
      /\ \A n \in 1..Len(first) : w[Len(written) + n] = first[n]
      BY IdsOfParts, ConcatProperties, LenProperties
<1> HIDE DEF w
<1>2. ASSUME NEW n \in 1..Len(w), NEW m \in 1..n PROVE w[m].id \in Ids(SubSeq(w, 1, n))
  <2>1. m \in DOMAIN SubSeq(w, 1, n) /\ SubSeq(w, 1, n)[m] = w[m]
        BY <1>1
  <2>2. QED  BY <2>1 DEF Ids
<1>3. ASSUME NEW n \in 1..Len(written), NEW i \in way \cup Ids(w), i < w[n].id
      PROVE  i \in Ids(SubSeq(w, 1, n))
  <2>1. i \in way \cup Ids(written) /\ w[n] = written[n] /\ n \in DOMAIN written
        BY <1>1, <1>3
  <2>2. i \in Ids(SubSeq(written, 1, n))
        BY <1>3, <2>1 DEF InOrder
  <2>3. PICK m \in 1..n : i = written[m].id
    <3>1. DOMAIN SubSeq(written, 1, n) = 1..n /\ \A m \in 1..n : SubSeq(written, 1, n)[m] = written[m]
          BY <1>1
    <3>2. QED  BY <2>2, <3>1 DEF Ids
  <2>4. n \in 1..Len(w) /\ w[m] = written[m]
        BY <1>1
  <2>5. QED  BY <1>2, <2>3, <2>4
<1>4. ASSUME NEW n \in 1..Len(first), NEW i \in way \cup Ids(w), i < first[n].id
      PROVE  i \in Ids(SubSeq(w, 1, Len(written) + n))
  <2>1. Len(written) + n \in 1..Len(w) /\ first[n].id \in Ids(first)
    <3>1. Len(written) + n \in 1..Len(w) /\ n \in DOMAIN first
          BY <1>1
    <3>2. QED  BY <3>1 DEF Ids
  <2>2. CASE i \in Ids(written)
    <3>1. PICK m \in 1..Len(written) : i = written[m].id
          BY <1>1, <2>2 DEF Ids
    <3>2. m \in 1..(Len(written) + n) /\ i = w[m].id
          BY <1>1, <3>1
    <3>3. QED  BY <1>2, <2>1, <3>2
  <2>3. CASE i \in Ids(first)
    <3>1. PICK m \in 1..Len(first) : i = first[m].id
          BY <1>1, <2>3 DEF Ids
    <3>2. m < n
      <4>1. first[n].id \in Nat /\ first[m].id \in Nat
            BY <1>1, EventFacts, ElementOfSeq
      <4>2. n < m => first[n].id < first[m].id
            BY <1>1 DEF Increasing
      <4>3. QED  BY <1>1, <1>4, <3>1, <4>1, <4>2
    <3>3. Len(written) + m \in 1..(Len(written) + n) /\ i = w[Len(written) + m].id
          BY <1>1, <3>1, <3>2
    <3>4. QED  BY <1>2, <2>1, <3>3
  <2>4. CASE i \in way \ Ids(first)
    <3>1. i \in Nat /\ first[n].id \in Nat /\ first[n].id < i
          BY <2>1, <2>4
    <3>2. QED  BY <1>4, <3>1
  <2>5. QED  BY <1>1, <2>2, <2>3, <2>4
<1>5. ASSUME NEW n \in DOMAIN w, NEW i \in way \cup Ids(w), i < w[n].id
      PROVE  i \in Ids(SubSeq(w, 1, n))
  <2>1. CASE n <= Len(written)
        BY <1>1, <1>3, <1>5, <2>1
  <2>2. CASE n > Len(written)
    <3>1. /\ n - Len(written) \in 1..Len(first) /\ w[n] = first[n - Len(written)]
          /\ Len(written) + (n - Len(written)) = n
          BY <1>1, <2>2
    <3>2. QED  BY <1>4, <1>5, <3>1
  <2>3. QED  BY <1>1, <2>1, <2>2
<1>6. QED  BY <1>5 DEF w, InOrder

LEMMA LessIsOnTheWay ==
    ASSUME NEW written, NEW way, NEW less, InOrder(written, way), less \subseteq way
    PROVE  InOrder(written, less)
BY DEF InOrder

LEMMA NewIsNotBefore ==
    ASSUME NEW written, NEW way, NEW d, InOrder(written, way), \A i \in Ids(written) : ~(d < i)
    PROVE  InOrder(written, way \cup {d})
BY DEF InOrder, Ids

-----------------------------------------------------------------------------
(* The ingester of the pipeline is the one of IngesterProofs.                *)
LEMMA SameIngester ==
    /\ I!Init => P!Init
    /\ I!Consume => P!Consume
    /\ I!TimerFires \/ (\E t \in I!Task : I!Step(t)) \/ I!Stop
           => P!TimerFires \/ (\E t \in P!Task : P!Step(t)) \/ P!Stop
    /\ I!Held = P!Held
<1> USE DEF I!Flush, P!Flush, I!StartFlush, P!StartFlush, I!Release, P!Release, I!Goto, P!Goto,
            I!Other, P!Other, I!Unusable, P!Unusable, I!Ids, P!Ids, I!dbVars, P!dbVars, I!Null, P!Null,
            I!arrivalVars, P!arrivalVars, I!Task, P!Task, I!Stopped, P!Stopped, I!Refused, P!Refused
<1>1. I!Init => P!Init
      BY DEF I!Init, P!Init
<1>2. I!Consume => P!Consume
      BY DEF I!Consume, P!Consume, I!FlushNow, P!FlushNow
<1>3. I!TimerFires => P!TimerFires
      BY DEF I!TimerFires, P!TimerFires
<1>4. ASSUME NEW t \in I!Task, I!Enter(t) PROVE P!Enter(t)
      BY <1>4 DEF I!Enter, P!Enter
<1>5. ASSUME NEW t \in I!Task, I!Answer(t) PROVE P!Answer(t)
  <2> USE DEF I!EndTransaction, P!EndTransaction, I!Return, P!Return, I!Fault, P!Fault,
              I!FlushFails, P!FlushFails, I!Requeue, P!Requeue
  <2>1. I!CommitOk(t) => P!CommitOk(t)
        BY DEF I!CommitOk, P!CommitOk, I!TerminalIds, P!TerminalIds
  <2>2. I!CommitConflicts(t) => P!CommitConflicts(t)
        BY DEF I!CommitConflicts, P!CommitConflicts
  <2>3. I!CommitGivesUp(t) => P!CommitGivesUp(t)
        BY DEF I!CommitGivesUp, P!CommitGivesUp
  <2>4. I!CommitRefused(t) => P!CommitRefused(t)
        BY DEF I!CommitRefused, P!CommitRefused
  <2>5. I!CommitErrors(t) => P!CommitErrors(t)
        BY DEF I!CommitErrors, P!CommitErrors
  <2>6. QED  BY <1>5, <2>1, <2>2, <2>3, <2>4, <2>5 DEF I!Answer, P!Answer
<1>6. ASSUME NEW t \in I!Task, I!CallbackReturns(t) PROVE P!CallbackReturns(t)
      BY <1>6 DEF I!CallbackReturns, P!CallbackReturns
<1>7. I!Stop => P!Stop
      BY DEF I!Stop, P!Stop
<1>8. I!Held = P!Held
      BY DEF I!Held, P!Held
<1>9. I!Task = P!Task
      OBVIOUS
<1>10. ASSUME NEW t \in I!Task, I!Step(t) PROVE P!Step(t)
       BY <1>4, <1>5, <1>6, <1>10 DEF I!Step, P!Step
<1>11. QED  BY <1>1, <1>2, <1>3, <1>7, <1>8, <1>9, <1>10

LEMMA SameHeld == I!Held' = P!Held'
BY DEF I!Held, P!Held

-----------------------------------------------------------------------------
(* The events on their way stand in a line, with increasing ids, and the     *)
(* thread hands over what the broker delivered last.                         *)
Way == Ids(scheduled) \cup Ids(queue) \cup Ids(P!Held)

InHand == thread \in {"delivered", "permitted"}

PipelineInv ==
    /\ PermitInv
    /\ P!IngesterInv
    /\ InLine(P!Held, queue, scheduled)
    /\ \A i \in Way \cup Ids(log) : i <= delivered /\ (InHand => i < event.id)
    /\ InHand => event.id = delivered
    /\ InOrder(log, Way)

LEMMA PipelineTypes ==
    ASSUME PipelineInv
    PROVE  /\ queue \in Seq(P!Event) /\ scheduled \in Seq(P!Event)
           /\ log \in Seq(P!Event) /\ P!Held \in Seq(P!Event)
           /\ Way \in SUBSET Nat /\ Ids(log) \in SUBSET Nat
<1>1. P!Shape /\ scheduled \in Seq(Event)
      BY DEF PipelineInv, P!IngesterInv, PermitInv, TypeOK
<1>2. queue \in Seq(P!Event) /\ log \in Seq(P!Event) /\ scheduled \in Seq(P!Event)
      BY <1>1, EventFacts DEF P!Shape
<1>3. P!Held \in Seq(P!Event)
      BY <1>1, P!HeldIsASequence, IngesterAssumed
<1>4. QED  BY <1>2, <1>3, IdsAreNumbers DEF Way

LEMMA InitPipelineInv == PipelineInit => PipelineInv
<1> SUFFICES ASSUME PipelineInit PROVE PipelineInv
    OBVIOUS
<1>1. PermitInv
      BY InitPermitInv DEF PipelineInit
<1>2. P!IngesterInv
      BY SameIngester, P!InitIngesterInv, IngesterAssumed DEF PipelineInit
<1>3. /\ scheduled = <<>> /\ queue = <<>> /\ log = <<>> /\ P!Held = <<>> /\ ~InHand
  <2>1. scheduled = <<>> /\ queue = <<>> /\ ~InHand
        BY DEF PipelineInit, Init, InHand
  <2>2. buffer = <<>> /\ log = <<>> /\ batch["consumer"] = <<>> /\ batch["timer"] = <<>>
        BY DEF PipelineInit, I!Init, I!Task
  <2>3. P!Held = <<>>
        BY <2>2, ConcatEmptySeq, IncreasingNone DEF P!Held
  <2>4. QED  BY <2>1, <2>2, <2>3
<1>4. Way = {} /\ Ids(log) = {} /\ InLine(P!Held, queue, scheduled) /\ InOrder(log, Way)
      BY <1>3, IncreasingNone DEF Way, InLine, Before, InOrder
<1>5. QED  BY <1>1, <1>2, <1>3, <1>4 DEF PipelineInv

(* What the receiver does is nothing to the ingester but a longer queue.     *)
LEMMA QueueKeeps ==
    ASSUME P!IngesterInv, queue' \in Seq(P!Event), UNCHANGED ingesterVars
    PROVE  P!IngesterInv' /\ P!Held' = P!Held /\ log' = log
<1> USE DEF ingesterVars
<1>1. P!Shape'
      BY DEF P!IngesterInv, P!Shape
<1>2. P!OneCommit' /\ P!IdleHoldsNothing'
      BY DEF P!IngesterInv, P!OneCommit, P!IdleHoldsNothing
<1>3. 1..0 \subseteq P!Kept'
      OBVIOUS
<1>4. P!FetchedAfterCommit'
      BY DEF P!IngesterInv, P!FetchedAfterCommit, P!Ids
<1>5. P!Held' = P!Held /\ log' = log
      BY DEF P!Held
<1>6. QED  BY <1>1, <1>2, <1>3, <1>4, <1>5 DEF P!IngesterInv

(* What the invariant says of the next state.                                *)
LEMMA InTheNextState ==
    /\ InLine(P!Held, queue, scheduled)' <=> InLine(P!Held', queue', scheduled')
    /\ InOrder(log, Way)' <=> InOrder(log', Way')
    /\ Way' = Ids(scheduled') \cup Ids(queue') \cup Ids(P!Held')
    /\ (Way \cup Ids(log))' = Way' \cup Ids(log')
<1>1. InLine(P!Held, queue, scheduled)' <=> InLine(P!Held', queue', scheduled')
      BY DEF InLine, Increasing, Before, Ids
<1>2. InOrder(log, Way)' <=> InOrder(log', Way')
      BY DEF InOrder, Ids
<1>3. Way' = Ids(scheduled') \cup Ids(queue') \cup Ids(P!Held') /\ Ids(log)' = Ids(log')
      BY DEF Way, Ids
<1>4. QED  BY <1>1, <1>2, <1>3

(* Steps that move no event.                                                 *)
LEMMA NothingMoves ==
    ASSUME PipelineInv, PermitInv', P!IngesterInv', P!Held' = P!Held, log' = log,
           UNCHANGED <<queue, scheduled, delivered, event>>, InHand' => InHand
    PROVE  PipelineInv'
<1>1. Way' = Way
      BY InTheNextState DEF Way
<1>2. /\ InLine(P!Held, queue, scheduled)' /\ InOrder(log, Way)'
      /\ (Way \cup Ids(log))' = Way \cup Ids(log)
      BY <1>1, InTheNextState DEF PipelineInv
<1>3. QED  BY <1>2 DEF PipelineInv

LEMMA DeliverKeeps ==
    ASSUME PipelineInv, PermitInv', P!IngesterInv', P!Held' = P!Held, log' = log,
           NEW k \in Kind, Deliver(k)
    PROVE  PipelineInv'
<1>1. /\ thread = "capturing" /\ delivered' = delivered + 1 /\ queue' = queue /\ scheduled' = scheduled
      /\ thread' = thread \/ event'.id = delivered'
      BY DEF Deliver
<1>2. ~InHand /\ (InHand' => event'.id = delivered')
      BY <1>1 DEF InHand
<1>3. Way' = Way
      BY <1>1, InTheNextState DEF Way
<1>4. delivered \in Nat /\ Way \in SUBSET Nat /\ Ids(log) \in SUBSET Nat
  <2>1. delivered \in 0..MaxEvents /\ MaxEvents \in Nat
        BY ReceiverAssumption DEF ReceiverAssumption, PipelineInv, PermitInv, TypeOK
  <2>2. QED  BY <2>1, PipelineTypes
<1>5. ASSUME NEW i \in Way \cup Ids(log)
      PROVE  i <= delivered' /\ i < delivered'
  <2>1. i \in Nat /\ i <= delivered
        BY <1>4, <1>5 DEF PipelineInv
  <2>2. QED  BY <1>1, <1>4, <2>1
<1>6. /\ InLine(P!Held, queue, scheduled)' /\ InOrder(log, Way)'
      /\ (Way \cup Ids(log))' = Way \cup Ids(log)
      BY <1>1, <1>3, InTheNextState DEF PipelineInv
<1>7. QED  BY <1>2, <1>5, <1>6 DEF PipelineInv

(* The event in hand is later than all those on their way or written.        *)
LEMMA ScheduleKeeps ==
    ASSUME PipelineInv, PermitInv', P!IngesterInv', P!Held' = P!Held, log' = log, Schedule
    PROVE  PipelineInv'
<1>1. /\ thread = "permitted" /\ InHand /\ ~InHand'
      /\ queue' = queue /\ delivered' = delivered /\ event' = event
      /\ scheduled' = scheduled \/ scheduled' = Append(scheduled, event)
      BY DEF Schedule, InHand
<1>2. CASE scheduled' = scheduled
      BY <1>1, <1>2, NothingMoves
<1>3. CASE scheduled' = Append(scheduled, event)
  <2>1. event \in P!Event /\ event.id = delivered
        BY <1>1, EventFacts DEF PipelineInv, PermitInv, HandlesEvent
  <2>2. /\ queue \in Seq(P!Event) /\ scheduled \in Seq(P!Event)
        /\ P!Held \in Seq(P!Event) /\ scheduled' = scheduled \o <<event>>
        BY <1>3, <2>1, PipelineTypes, AppendIsConcat
  <2>3. \A i \in Way \cup Ids(log) : i < event.id
        BY <1>1 DEF PipelineInv
  <2>4. /\ InLine(P!Held, queue, scheduled \o <<event>>)
        /\ Ids(scheduled \o <<event>>) = Ids(scheduled) \cup {event.id}
    <3>1. \A i \in Ids(P!Held) \cup Ids(queue) \cup Ids(scheduled) : i < event.id
          BY <2>3 DEF Way
    <3>2. InLine(P!Held, queue, scheduled)
          BY DEF PipelineInv
    <3>3. QED  BY <2>1, <2>2, <3>1, <3>2, NewIsLast
  <2>5. Way' = Way \cup {event.id}
        BY <1>1, <2>2, <2>4, InTheNextState DEF Way
  <2>6. InOrder(log, Way \cup {event.id})
    <3>1. \A i \in Ids(log) : ~(event.id < i)
      <4>1. \A i \in Ids(log) : i \in Nat /\ i < event.id
            BY <2>3, PipelineTypes
      <4>2. event.id \in Nat
            BY <2>1, EventFacts
      <4>3. QED  BY <4>1, <4>2
    <3>2. QED  BY <3>1, NewIsNotBefore DEF PipelineInv
  <2>7. /\ InLine(P!Held, queue, scheduled)' /\ InOrder(log, Way)'
        /\ (Way \cup Ids(log))' = Way \cup {event.id} \cup Ids(log)
        BY <1>1, <2>2, <2>4, <2>5, <2>6, InTheNextState
  <2>8. \A i \in (Way \cup Ids(log))' : i <= delivered'
    <3>1. \A i \in Way \cup Ids(log) : i <= delivered
          BY DEF PipelineInv
    <3>2. event.id <= delivered
          BY <2>1, EventFacts
    <3>3. QED  BY <1>1, <2>7, <3>1, <3>2
  <2>9. QED  BY <1>1, <2>7, <2>8 DEF PipelineInv
<1>4. QED  BY <1>1, <1>2, <1>3

LEMMA EnqueueKeeps ==
    ASSUME PipelineInv, PermitInv', P!IngesterInv', P!Held' = P!Held, log' = log, Enqueue
    PROVE  PipelineInv'
<1> DEFINE e == Head(scheduled)
<1>1. /\ scheduled # <<>> /\ scheduled' = Tail(scheduled)
      /\ queue' = Append(queue, e) \/ queue' = queue
      /\ delivered' = delivered /\ event' = event /\ thread' = thread
      BY DEF Enqueue, threadVars
<1>2. /\ queue \in Seq(P!Event) /\ scheduled \in Seq(P!Event) /\ P!Held \in Seq(P!Event)
      /\ InLine(P!Held, queue, scheduled)
      BY PipelineTypes DEF PipelineInv
<1>3. /\ e \in P!Event /\ <<e>> \in Seq(P!Event)
      /\ Ids(scheduled) = {e.id} \cup Ids(Tail(scheduled))
      BY <1>1, <1>2, FirstAndRest
<1>4. Append(queue, e) = queue \o <<e>> /\ Ids(queue \o <<e>>) = Ids(queue) \cup {e.id}
  <2>1. Append(queue, e) = queue \o <<e>>
        BY <1>2, <1>3, AppendIsConcat
  <2>2. Ids(queue \o <<e>>) = Ids(queue) \cup Ids(<<e>>)
        BY <1>2, <1>3, IdsOfParts
  <2>3. QED  BY <2>1, <2>2, IdsOfOne
<1>5. InLine(P!Held, queue \o <<e>>, Tail(scheduled)) /\ InLine(P!Held, queue, Tail(scheduled))
      BY <1>1, <1>2, NextIsEnqueued
<1> HIDE DEF e
<1>6. InLine(P!Held, queue', scheduled') /\ Ids(queue') \cup Ids(scheduled') \subseteq Ids(queue) \cup Ids(scheduled)
      BY <1>1, <1>3, <1>4, <1>5
<1>7. Way' \subseteq Way
      BY <1>6, InTheNextState DEF Way
<1>8. InOrder(log, Way')
      BY <1>7, LessIsOnTheWay DEF PipelineInv
<1>9. /\ InLine(P!Held, queue, scheduled)' /\ InOrder(log, Way)'
      /\ (Way \cup Ids(log))' \subseteq Way \cup Ids(log)
      BY <1>6, <1>7, <1>8, InTheNextState
<1>10. InHand' = InHand
       BY <1>1 DEF InHand
<1>11. QED  BY <1>1, <1>9, <1>10 DEF PipelineInv

LEMMA ReceiverKeeps ==
    ASSUME PipelineInv, ReceiverStep
    PROVE  PipelineInv'
<1>1. PermitInv'
  <2>1. Next
        BY DEF ReceiverStep, Next
  <2>2. QED  BY <2>1, NextPermitInv DEF PipelineInv
<1>2. P!IngesterInv' /\ P!Held' = P!Held /\ log' = log
  <2>1. queue' \in Seq(P!Event)
        BY <1>1, EventFacts DEF PermitInv, TypeOK
  <2>2. QED  BY <2>1, QueueKeeps DEF PipelineInv, ReceiverStep
<1>3. CASE Connect \/ Disconnect \/ Wake \/ CaptureEnds
      BY <1>1, <1>2, <1>3, NothingMoves
      DEF Connect, Disconnect, Wake, CaptureEnds, Again, InHand
<1>4. ASSUME NEW k \in Kind, Deliver(k) PROVE PipelineInv'
      BY <1>1, <1>2, <1>4, DeliverKeeps
<1>5. CASE Acquire \/ CheckStop
      BY <1>1, <1>2, <1>5, NothingMoves DEF Acquire, CheckStop, InHand
<1>6. CASE Schedule
      BY <1>1, <1>2, <1>6, ScheduleKeeps
<1>7. CASE Enqueue
      BY <1>1, <1>2, <1>7, EnqueueKeeps
<1>8. CASE StopCapture \/ SetStopSignal \/ CloseLoop
      BY <1>1, <1>2, <1>8, NothingMoves DEF StopCapture, SetStopSignal, CloseLoop, InHand, threadVars
<1>9. QED  BY <1>3, <1>4, <1>5, <1>6, <1>7, <1>8 DEF ReceiverStep

(* What is left of the line when no event joins it.                          *)
LEMMA LineMovesOn ==
    ASSUME PipelineInv, PermitInv', P!IngesterInv', UNCHANGED threadVars,
           InLine(P!Held', queue', scheduled'), Way' \subseteq Way,
           Ids(log') \subseteq Way \cup Ids(log), InOrder(log', Way)
    PROVE  PipelineInv'
<1>1. InOrder(log', Way')
      BY LessIsOnTheWay
<1>2. /\ InLine(P!Held, queue, scheduled)' /\ InOrder(log, Way)'
      /\ (Way \cup Ids(log))' \subseteq Way \cup Ids(log)
      BY <1>1, InTheNextState
<1>3. InHand' = InHand /\ delivered' = delivered /\ event' = event
      BY DEF InHand, threadVars
<1>4. QED  BY <1>2, <1>3 DEF PipelineInv

LEMMA ConsumeEventKeeps ==
    ASSUME PipelineInv, ConsumeEvent
    PROVE  PipelineInv'
<1> DEFINE e == Head(queue)
<1>1. P!IngesterInv /\ P!Consume
      BY SameIngester DEF PipelineInv, ConsumeEvent
<1>2. P!IngesterInv'
      BY <1>1, P!NextIngesterInv, IngesterAssumed DEF P!Next
<1>3. PermitInv'
  <2>1. Next
        BY DEF ConsumeEvent, Next
  <2>2. QED  BY <2>1, NextPermitInv DEF PipelineInv
<1>4. /\ queue # <<>> /\ queue' = Tail(queue) /\ log' = log
      /\ \/ P!Held' = P!Held \/ P!Held' = P!Held \o <<e>> \/ P!Held' = <<>>
      BY <1>1, P!ConsumeHolds, IngesterAssumed
<1>5. scheduled' = scheduled /\ UNCHANGED threadVars
      BY DEF ConsumeEvent, Take
<1>6. /\ queue \in Seq(P!Event) /\ scheduled \in Seq(P!Event) /\ P!Held \in Seq(P!Event)
      /\ InLine(P!Held, queue, scheduled) /\ InOrder(log, Way)
      BY PipelineTypes DEF PipelineInv
<1>7. <<e>> \in Seq(P!Event) /\ Ids(queue) = {e.id} \cup Ids(Tail(queue))
      BY <1>4, <1>6, FirstAndRest
<1>8. Ids(P!Held \o <<e>>) = Ids(P!Held) \cup {e.id}
  <2>1. Ids(P!Held \o <<e>>) = Ids(P!Held) \cup Ids(<<e>>)
        BY <1>6, <1>7, IdsOfParts
  <2>2. QED  BY <2>1, IdsOfOne
<1>9. /\ InLine(P!Held \o <<e>>, Tail(queue), scheduled)
      /\ InLine(P!Held, Tail(queue), scheduled)
      /\ InLine(<<>>, Tail(queue), scheduled)
      BY <1>4, <1>6, NextIsTaken
<1> HIDE DEF e
<1>10. InLine(P!Held', queue', scheduled')
       BY <1>4, <1>5, <1>9
<1>11. Way' \subseteq Way
  <2>1. Ids(P!Held') \subseteq Ids(P!Held) \cup {e.id}
        BY <1>4, <1>8, IncreasingNone
  <2>2. QED  BY <1>4, <1>5, <1>7, <2>1, InTheNextState DEF Way
<1>12. QED  BY <1>2, <1>3, <1>4, <1>5, <1>6, <1>10, <1>11, LineMovesOn

LEMMA IngesterStepKeeps ==
    ASSUME PipelineInv, IngesterStep
    PROVE  PipelineInv'
<1>1. /\ P!IngesterInv
      /\ P!TimerFires \/ (\E t \in P!Task : P!Step(t)) \/ P!Stop
      BY SameIngester DEF PipelineInv, IngesterStep
<1>2. P!IngesterInv'
      BY <1>1, P!NextIngesterInv, IngesterAssumed DEF P!Next
<1>3. queue' = queue /\ P!WritesFirst
      BY <1>1, P!OthersWriteFirst, IngesterAssumed
<1>4. scheduled' = scheduled /\ UNCHANGED threadVars /\ UNCHANGED vars
      BY <1>3 DEF IngesterStep, vars
<1>5. PermitInv'
      BY <1>4, NextPermitInv DEF PipelineInv
<1>6. PICK first, rest \in Seq(P!Event) :
        /\ P!Held = first \o rest
        /\ log' \in {log, log \o first}
        /\ P!Held' \in {P!Held, rest, <<>>}
      BY <1>3 DEF P!WritesFirst
<1>7. /\ queue \in Seq(P!Event) /\ scheduled \in Seq(P!Event) /\ log \in Seq(P!Event)
      /\ Way \in SUBSET Nat /\ InLine(P!Held, queue, scheduled) /\ InOrder(log, Way)
      BY PipelineTypes DEF PipelineInv
<1>8. Ids(P!Held) = Ids(first) \cup Ids(rest) /\ Ids(log \o first) = Ids(log) \cup Ids(first)
      BY <1>6, <1>7, IdsOfParts
<1>9. InLine(P!Held', queue', scheduled')
  <2>1. InLine(rest, queue, scheduled) /\ InLine(<<>>, queue, scheduled)
        BY <1>6, <1>7, FirstLeaves
  <2>2. QED  BY <1>3, <1>4, <1>6, <1>7, <2>1
<1>10. Way' \subseteq Way
  <2>1. Ids(P!Held') \subseteq Ids(P!Held)
        BY <1>6, <1>8, IncreasingNone
  <2>2. QED  BY <1>3, <1>4, <2>1, InTheNextState DEF Way
<1>11. Ids(log') \subseteq Way \cup Ids(log)
       BY <1>6, <1>8 DEF Way
<1>12. InOrder(log \o first, Way)
  <2>1. Ids(first) \subseteq Way
        BY <1>8 DEF Way
  <2>2. Increasing(first) /\ Before(first, rest)
    <3>1. Increasing(first \o rest)
          BY <1>6, <1>7 DEF InLine
    <3>2. QED  BY <3>1, IncreasingParts
  <2>3. ASSUME NEW i \in Way \ Ids(first), NEW j \in Ids(first) PROVE j < i
    <3>1. j \in Ids(P!Held)
          BY <1>8, <2>3
    <3>2. i \in Ids(rest) \/ i \in Ids(queue) \/ i \in Ids(scheduled)
          BY <1>8, <2>3 DEF Way
    <3>3. QED  BY <1>7, <2>2, <2>3, <3>1, <3>2 DEF InLine, Before
  <2>4. QED  BY <1>6, <1>7, <2>1, <2>2, <2>3, FirstIsWritten
<1>13. InOrder(log', Way)
       BY <1>6, <1>7, <1>12
<1>14. QED  BY <1>2, <1>4, <1>5, <1>9, <1>10, <1>11, <1>13, LineMovesOn

LEMMA NextPipelineInv == PipelineInv /\ [PipelineNext]_<<vars, ingesterVars>> => PipelineInv'
<1>1. ASSUME PipelineInv, UNCHANGED <<vars, ingesterVars>> PROVE PipelineInv'
  <2>1. PermitInv'
        BY <1>1, NextPermitInv DEF PipelineInv
  <2>2. UNCHANGED <<queue, scheduled, thread, delivered, event>>
        BY <1>1 DEF vars, threadVars
  <2>3. P!IngesterInv' /\ P!Held' = P!Held /\ log' = log
        BY <1>1, <2>2, PipelineTypes, QueueKeeps DEF PipelineInv
  <2>4. QED  BY <1>1, <2>1, <2>2, <2>3, NothingMoves DEF InHand
<1>2. QED  BY <1>1, ReceiverKeeps, ConsumeEventKeeps, IngesterStepKeeps DEF PipelineNext

(* Whatever the broker delivers, the queue refuses and the database fails to *)
(* do, no event overtakes another on its way to the database.                *)
THEOREM NothingOvertakes == PipelineSpec => []NoOvertaking
<1>1. PipelineInv => NoOvertaking
      BY SameIngester DEF PipelineInv, InOrder, Way, NoOvertaking, OnItsWay
<1>2. QED  BY InitPipelineInv, NextPipelineInv, <1>1, PTL DEF PipelineSpec

(* The permits match while the ingester takes its events and stops, too.     *)
THEOREM PermitsMatchInPipeline == PipelineSpec => []PermitsMatch
<1>1. PipelineInv => PermitsMatch
      BY DEF PipelineInv, PermitInv
<1>2. QED  BY InitPipelineInv, NextPipelineInv, <1>1, PTL DEF PipelineSpec
=============================================================================
