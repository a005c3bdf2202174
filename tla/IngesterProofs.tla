--------------------------- MODULE IngesterProofs ---------------------------
(* Proofs about Ingester, for any thresholds and any number of events,       *)
(* retries and faults.                                                       *)
EXTENDS Ingester, SequenceTheorems, TLAPS

Place == {"idle", "locking", "committing", "callback", "done"}

Shape ==
    /\ arrived \in 0..MaxEvents
    /\ queue \in Seq(Event)
    /\ buffer \in Seq(Event)
    /\ log \in Seq(Event)
    /\ batch \in [Task -> Seq(Event)]
    /\ pc \in [Task -> Place]
    /\ lock \in Task \cup {Null}

(* A task that commits nothing holds nothing; with OneCommit, at most one    *)
(* batch is under way.                                                       *)
IdleHoldsNothing == \A t \in Task : pc[t] # "committing" => batch[t] = <<>>

(* Where an event that arrived can be.                                       *)
Kept == Ids(queue) \cup Ids(batch["consumer"]) \cup Ids(batch["timer"])
            \cup Ids(buffer) \cup Ids(log) \cup dropped

IngesterInv ==
    /\ Shape
    /\ OneCommit
    /\ IdleHoldsNothing
    /\ ~Stopped => 1..arrived \subseteq Kept
    /\ FetchedAfterCommit

-----------------------------------------------------------------------------
(* What Ids says of the sequences the two tasks pass around.                 *)
LEMMA IdsOfConcat ==
    ASSUME NEW s \in Seq(Event), NEW u \in Seq(Event)
    PROVE  /\ s \o u \in Seq(Event)
           /\ Ids(s \o u) = Ids(s) \cup Ids(u)
<1>1. s \o u \in Seq(Event)
      OBVIOUS
<1>2. Ids(s \o u) \subseteq Ids(s) \cup Ids(u)
  <2> SUFFICES ASSUME NEW n \in DOMAIN (s \o u)
               PROVE  (s \o u)[n].id \in Ids(s) \cup Ids(u)
      BY DEF Ids
  <2>1. n \in 1..(Len(s) + Len(u))
        OBVIOUS
  <2>2. CASE n <= Len(s)
    <3>1. n \in DOMAIN s /\ (s \o u)[n] = s[n]
          BY <2>1, <2>2
    <3>2. QED  BY <3>1 DEF Ids
  <2>3. CASE n > Len(s)
    <3>1. n - Len(s) \in DOMAIN u /\ (s \o u)[n] = u[n - Len(s)]
          BY <2>1, <2>3
    <3>2. QED  BY <3>1 DEF Ids
  <2>4. QED  BY <2>1, <2>2, <2>3
<1>3. Ids(s) \subseteq Ids(s \o u)
  <2> SUFFICES ASSUME NEW n \in DOMAIN s
               PROVE  s[n].id \in Ids(s \o u)
      BY DEF Ids
  <2>1. n \in DOMAIN (s \o u) /\ (s \o u)[n] = s[n]
        OBVIOUS
  <2>2. QED  BY <2>1 DEF Ids
<1>4. Ids(u) \subseteq Ids(s \o u)
  <2> SUFFICES ASSUME NEW n \in DOMAIN u
               PROVE  u[n].id \in Ids(s \o u)
      BY DEF Ids
  <2>1. n + Len(s) \in DOMAIN (s \o u) /\ (s \o u)[n + Len(s)] = u[n]
        OBVIOUS
  <2>2. QED  BY <2>1 DEF Ids
<1>5. QED  BY <1>1, <1>2, <1>3, <1>4

LEMMA IdsOfAppend ==
    ASSUME NEW s \in Seq(Event), NEW e \in Event
    PROVE  /\ Append(s, e) \in Seq(Event)
           /\ Ids(Append(s, e)) = Ids(s) \cup {e.id}
<1>1. /\ <<e>> \in Seq(Event)
      /\ Append(s, e) = s \o <<e>>
      OBVIOUS
<1>2. Ids(<<e>>) = {e.id}
      BY DEF Ids
<1>3. QED  BY <1>1, <1>2, IdsOfConcat

LEMMA IdsOfTail ==
    ASSUME NEW s \in Seq(Event), s # <<>>
    PROVE  /\ Head(s) \in Event
           /\ Tail(s) \in Seq(Event)
           /\ Ids(s) = {Head(s).id} \cup Ids(Tail(s))
<1>1. /\ Head(s) \in Event
      /\ Tail(s) \in Seq(Event)
      /\ <<Head(s)>> \in Seq(Event)
      /\ s = <<Head(s)>> \o Tail(s)
      OBVIOUS
<1>2. Ids(<<Head(s)>>) = {Head(s).id}
      BY DEF Ids
<1>3. QED  BY <1>1, <1>2, IdsOfConcat

LEMMA IdsOfNone == <<>> \in Seq(Event) /\ Ids(<<>>) = {}
BY DEF Ids

(* NothingLost is the last but one conjunct of the invariant.                *)
LEMMA KeptIsHeld ==
    ASSUME Shape
    PROVE  Kept = Ids(queue) \cup HeldIds \cup Ids(log) \cup dropped
<1>1. batch["consumer"] \in Seq(Event) /\ batch["timer"] \in Seq(Event) /\ buffer \in Seq(Event)
      BY DEF Shape, Task
<1>2. HeldIds = Ids(batch["consumer"]) \cup Ids(batch["timer"]) \cup Ids(buffer)
  <2> DEFINE batches == batch["consumer"] \o batch["timer"]
  <2>1. /\ batches \in Seq(Event)
        /\ Ids(batches) = Ids(batch["consumer"]) \cup Ids(batch["timer"])
        BY <1>1, IdsOfConcat
  <2> HIDE DEF batches
  <2>2. Ids(batches \o buffer) = Ids(batches) \cup Ids(buffer)
        BY <1>1, <2>1, IdsOfConcat
  <2>3. HeldIds = Ids(batches \o buffer)
        BY DEF batches, HeldIds, Held
  <2>4. QED  BY <2>1, <2>2, <2>3
<1>3. QED  BY <1>2 DEF Kept
-----------------------------------------------------------------------------
(* Taking the buffer: the task has the lock or finds it free, so the other   *)
(* one commits nothing, and every event of the buffer is in its batch or has *)
(* been dropped.                                                             *)
LEMMA StartFlushKeeps ==
    ASSUME Shape, OneCommit, IdleHoldsNothing,
           NEW t \in Task, NEW buf \in Seq(Event), NEW flag,
           pc[t] # "committing", lock \in {Null, t},
           StartFlush(t, buf, flag)
    PROVE  /\ buffer' = <<>>
           /\ batch' \in [Task -> Seq(Event)]
           /\ pc' \in [Task -> Place]
           /\ lock' \in Task \cup {Null}
           /\ OneCommit' /\ IdleHoldsNothing'
           /\ dropped \subseteq dropped'
           /\ Ids(buf) \subseteq Ids(batch'[t]) \cup dropped'
           /\ batch[t] = <<>>
           /\ \A u \in Task \ {t} : batch'[u] = batch[u] /\ pc'[u] = pc[u]
<1> USE DEF Shape, OneCommit, IdleHoldsNothing, Task, Place, Null, Goto
<1>1. /\ Other(t) \in Task
      /\ \A u \in Task : u = t \/ u = Other(t)
      /\ Other(t) # t
      BY DEF Other
<1>2. batch[t] = <<>> /\ pc[Other(t)] # "committing"
      BY <1>1
<1>3. CASE Unusable(buf)
  <2>1. /\ buffer' = <<>>
        /\ lock' = IF pc[Other(t)] = "locking" THEN Other(t) ELSE Null
        /\ pc' = [pc EXCEPT ![t] = "idle"]
        /\ dropped' = dropped \cup Ids(buf)
        /\ batch' = batch
        BY <1>3 DEF StartFlush, Release
  <2>2. \A u \in Task : pc'[u] # "committing"
        BY <1>1, <1>2, <2>1
  <2>3. QED  BY <1>1, <1>2, <2>1, <2>2
<1>4. CASE ~Unusable(buf)
  <2>1. /\ buffer' = <<>>
        /\ lock' = t
        /\ pc' = [pc EXCEPT ![t] = "committing"]
        /\ dropped' = dropped
        /\ batch' = [batch EXCEPT ![t] = buf]
        BY <1>4 DEF StartFlush
  <2>2. pc'[t] = "committing" /\ pc'[Other(t)] # "committing"
        BY <1>1, <1>2, <2>1
  <2>3. batch'[t] = buf /\ batch'[Other(t)] = <<>>
        BY <1>1, <1>2, <2>1
  <2>4. QED  BY <1>1, <1>2, <2>1, <2>2, <2>3
<1>5. QED  BY <1>3, <1>4

(* Asking for the lock, with buf as the new buffer.                          *)
LEMMA FlushKeeps ==
    ASSUME Shape, OneCommit, IdleHoldsNothing,
           NEW t \in Task, NEW buf \in Seq(Event), NEW flag,
           pc[t] = "idle",
           Flush(t, buf, flag)
    PROVE  /\ buffer' \in Seq(Event)
           /\ batch' \in [Task -> Seq(Event)]
           /\ pc' \in [Task -> Place]
           /\ lock' \in Task \cup {Null}
           /\ OneCommit' /\ IdleHoldsNothing'
           /\ dropped \subseteq dropped'
           /\ Ids(buf) \subseteq Ids(batch'[t]) \cup Ids(buffer') \cup dropped'
           /\ batch[t] = <<>>
           /\ \A u \in Task \ {t} : batch'[u] = batch[u] /\ pc'[u] = pc[u]
<1>1. CASE lock = Null
  <2>1. StartFlush(t, buf, flag)
        BY <1>1 DEF Flush
  <2>2. QED  BY <1>1, <2>1, StartFlushKeeps, IdsOfNone
<1>2. CASE lock # Null
  <2>1. /\ buffer' = buf
        /\ pc' = [pc EXCEPT ![t] = "locking"]
        /\ lock' = lock /\ batch' = batch /\ dropped' = dropped
        BY <1>2 DEF Flush, Goto
  <2>2. QED  BY <2>1 DEF Shape, OneCommit, IdleHoldsNothing, Place
<1>3. QED  BY <1>1, <1>2

(* The end of a transaction: the lock goes to the other task or is free.     *)
LEMMA EndTransactionKeeps ==
    ASSUME Shape, OneCommit, IdleHoldsNothing,
           NEW t \in Task, pc[t] = "committing",
           EndTransaction(t),
           pc'[t] # "committing", pc' = [pc EXCEPT ![t] = pc'[t]], pc'[t] \in Place
    PROVE  /\ batch' \in [Task -> Seq(Event)]
           /\ pc' \in [Task -> Place]
           /\ lock' \in Task \cup {Null}
           /\ OneCommit' /\ IdleHoldsNothing'
           /\ \A u \in Task \ {t} : batch'[u] = batch[u]
<1> USE DEF Shape, OneCommit, IdleHoldsNothing, Task, Null
<1>1. /\ Other(t) \in Task
      /\ \A u \in Task : u = t \/ u = Other(t)
      /\ Other(t) # t
      BY DEF Other
<1>2. /\ lock' = IF pc[Other(t)] = "locking" THEN Other(t) ELSE Null
      /\ batch' = [batch EXCEPT ![t] = <<>>]
      BY DEF EndTransaction, Release
<1>3. \A u \in Task : pc'[u] # "committing"
      BY <1>1
<1>4. <<>> \in Seq(Event)
      OBVIOUS
<1>5. pc' \in [Task -> Place]
      OBVIOUS
<1>6. batch' \in [Task -> Seq(Event)] /\ batch'[t] = <<>> /\ batch'[Other(t)] = batch[Other(t)]
      BY <1>1, <1>2, <1>4
<1>7. batch[Other(t)] = <<>>
      BY <1>1
<1>8. QED  BY <1>1, <1>2, <1>3, <1>5, <1>6, <1>7

-----------------------------------------------------------------------------
LEMMA InitIngesterInv == Init => IngesterInv
<1> SUFFICES ASSUME Init
             PROVE  IngesterInv
    OBVIOUS
<1>1. Shape
  <2>1. 0 \in 0..MaxEvents
        BY IngesterAssumption, SMT DEF IngesterAssumption
  <2>2. QED  BY <2>1, IdsOfNone DEF Init, Shape, Place, Null
<1>2. OneCommit /\ IdleHoldsNothing
      BY DEF Init, OneCommit, IdleHoldsNothing
<1>3. 1..arrived \subseteq Kept
      BY SMT DEF Init
<1>4. FetchedAfterCommit
      BY DEF Init, FetchedAfterCommit
<1>5. QED  BY <1>1, <1>2, <1>3, <1>4 DEF IngesterInv

(* An event enters the queue.                                                *)
LEMMA ArriveKeeps ==
    ASSUME IngesterInv, NEW k \in Kind, Arrive(k)
    PROVE  IngesterInv'
<1> USE DEF IngesterInv, Shape, taskVars, dbVars
<1> DEFINE e == [id |-> arrived + 1, kind |-> k]
<1>1. e \in Event /\ arrived + 1 \in 0..MaxEvents
      BY IngesterAssumption, SMT DEF IngesterAssumption, Arrive, Event
<1>2. queue' = Append(queue, e) /\ arrived' = arrived + 1
      BY DEF Arrive
<1> HIDE DEF e
<1>3. queue' \in Seq(Event) /\ Ids(queue') = Ids(queue) \cup {e.id}
      BY <1>1, <1>2, IdsOfAppend
<1>4. e.id = arrived'
      BY <1>2 DEF e
<1>5. Shape' /\ OneCommit' /\ IdleHoldsNothing' /\ FetchedAfterCommit'
      BY <1>1, <1>2, <1>3 DEF Arrive, OneCommit, IdleHoldsNothing, FetchedAfterCommit
<1>6. 1..arrived' \subseteq 1..arrived \cup {e.id}
      BY <1>1, <1>2, <1>4, SMT
<1>7. ~Stopped /\ Kept' = Kept \cup {e.id}
      BY <1>3 DEF Arrive, Kept
<1>8. 1..arrived' \subseteq Kept'
      BY <1>6, <1>7
<1>9. QED  BY <1>5, <1>8

(* What a flush that starts does to the whole invariant, whoever starts it.  *)
LEMMA FlushStepKeeps ==
    ASSUME IngesterInv, NEW t \in Task, pc[t] \in Place \ {"committing"},
           buffer' \in Seq(Event), batch' \in [Task -> Seq(Event)],
           pc' \in [Task -> Place], lock' \in Task \cup {Null},
           OneCommit', IdleHoldsNothing', dropped \subseteq dropped',
           batch[t] = <<>>, \A u \in Task \ {t} : batch'[u] = batch[u],
           Ids(queue) \cup Ids(buffer)
               \subseteq Ids(queue') \cup Ids(batch'[t]) \cup Ids(buffer') \cup dropped',
           queue' \in Seq(Event), Stopped => Stopped', arrived' = arrived, log' = log, fetched' = fetched
    PROVE  IngesterInv'
<1>1. Shape'
      BY DEF IngesterInv, Shape
<1>2. FetchedAfterCommit'
      BY DEF IngesterInv, FetchedAfterCommit
<1>3. Ids(batch[t]) = {}
      BY IdsOfNone
<1>4. \A u \in Task : Ids(batch[u]) \subseteq Ids(batch'[u])
      BY <1>3
<1>5. Ids(batch["consumer"]) \cup Ids(batch["timer"])
          \subseteq Ids(batch'["consumer"]) \cup Ids(batch'["timer"])
      BY <1>4 DEF Task
<1>6. t = "consumer" \/ t = "timer"
      BY DEF Task
<1>7. Kept \subseteq Kept'
      BY <1>5, <1>6 DEF Kept
<1>8. ~Stopped' => 1..arrived' \subseteq Kept'
      BY <1>7 DEF IngesterInv
<1>9. QED  BY <1>1, <1>2, <1>8 DEF IngesterInv

LEMMA ConsumeKeeps ==
    ASSUME IngesterInv, Consume
    PROVE  IngesterInv'
<1> DEFINE e == Head(queue)
           buf == Append(buffer, e)
           flag == hasTerminal \/ e.kind = "terminal"
<1>1. /\ pc["consumer"] = "idle" /\ "consumer" \in Task
      /\ queue # <<>> /\ queue' = Tail(queue)
      /\ arrived' = arrived /\ log' = log /\ fetched' = fetched
      BY DEF Consume, dbVars, Task
<1>2. Shape /\ OneCommit /\ IdleHoldsNothing /\ ~Stopped
      BY <1>1 DEF IngesterInv, Stopped
<1>3. /\ e \in Event /\ queue' \in Seq(Event)
      /\ Ids(queue) = {e.id} \cup Ids(queue')
      BY <1>1, <1>2, IdsOfTail DEF Shape
<1>4. buf \in Seq(Event) /\ Ids(buf) = Ids(buffer) \cup {e.id}
      BY <1>2, <1>3, IdsOfAppend DEF Shape
<1>5. batch["consumer"] = <<>>
      BY <1>1, <1>2 DEF IdleHoldsNothing
<1>6. \/ dropped' = dropped \cup {e.id} /\ UNCHANGED <<buffer, lock, pc, batch>>
      \/ Flush("consumer", buf, flag)
      \/ buffer' = buf /\ UNCHANGED <<lock, pc, batch, dropped>>
      BY DEF Consume
<1> HIDE DEF e, buf, flag
<1>7. CASE dropped' = dropped \cup {e.id} /\ UNCHANGED <<buffer, lock, pc, batch>>
  <2>1. Ids(queue) \cup Ids(buffer)
            \subseteq Ids(queue') \cup Ids(batch'["consumer"]) \cup Ids(buffer') \cup dropped'
        BY <1>3, <1>7
  <2>2. OneCommit' /\ IdleHoldsNothing'
        BY <1>2, <1>7 DEF OneCommit, IdleHoldsNothing
  <2>3. QED  BY <1>1, <1>2, <1>3, <1>5, <1>7, <2>1, <2>2, FlushStepKeeps DEF Shape, Place
<1>8. CASE Flush("consumer", buf, flag)
  <2>1. /\ buffer' \in Seq(Event)
        /\ batch' \in [Task -> Seq(Event)]
        /\ pc' \in [Task -> Place]
        /\ lock' \in Task \cup {Null}
        /\ OneCommit' /\ IdleHoldsNothing'
        /\ dropped \subseteq dropped'
        /\ Ids(buf) \subseteq Ids(batch'["consumer"]) \cup Ids(buffer') \cup dropped'
        /\ \A u \in Task \ {"consumer"} : batch'[u] = batch[u] /\ pc'[u] = pc[u]
        BY <1>1, <1>2, <1>4, <1>8, FlushKeeps
  <2>2. QED  BY <1>1, <1>2, <1>3, <1>4, <1>5, <2>1, FlushStepKeeps DEF Place
<1>9. CASE buffer' = buf /\ UNCHANGED <<lock, pc, batch, dropped>>
  <2>1. OneCommit' /\ IdleHoldsNothing'
        BY <1>2, <1>9 DEF OneCommit, IdleHoldsNothing
  <2>2. QED  BY <1>1, <1>2, <1>3, <1>4, <1>5, <1>9, <2>1, FlushStepKeeps DEF Shape, Place
<1>10. QED  BY <1>6, <1>7, <1>8, <1>9

LEMMA TimerFiresKeeps ==
    ASSUME IngesterInv, TimerFires
    PROVE  IngesterInv'
<1>1. /\ pc["timer"] = "idle" /\ "timer" \in Task
      /\ Flush("timer", buffer, hasTerminal)
      /\ queue' = queue /\ arrived' = arrived /\ log' = log /\ fetched' = fetched
      BY DEF TimerFires, arrivalVars, dbVars, Task
<1>2. Shape /\ OneCommit /\ IdleHoldsNothing
      BY DEF IngesterInv
<1>3. buffer \in Seq(Event) /\ queue \in Seq(Event)
      BY <1>2 DEF Shape
<1>4. /\ buffer' \in Seq(Event)
      /\ batch' \in [Task -> Seq(Event)]
      /\ pc' \in [Task -> Place]
      /\ lock' \in Task \cup {Null}
      /\ OneCommit' /\ IdleHoldsNothing'
      /\ dropped \subseteq dropped'
      /\ Ids(buffer) \subseteq Ids(batch'["timer"]) \cup Ids(buffer') \cup dropped'
      /\ batch["timer"] = <<>>
      /\ \A u \in Task \ {"timer"} : batch'[u] = batch[u] /\ pc'[u] = pc[u]
      BY <1>1, <1>2, <1>3, FlushKeeps
<1>5. Stopped => Stopped'
      BY <1>4 DEF Stopped, Task
<1>6. QED  BY <1>1, <1>3, <1>4, <1>5, FlushStepKeeps DEF Place

LEMMA EnterKeeps ==
    ASSUME IngesterInv, NEW t \in Task, Enter(t)
    PROVE  IngesterInv'
<1>1. /\ pc[t] = "locking" /\ lock = t
      /\ StartFlush(t, buffer, hasTerminal)
      /\ queue' = queue /\ arrived' = arrived /\ log' = log /\ fetched' = fetched
      BY DEF Enter, arrivalVars, dbVars
<1>2. Shape /\ OneCommit /\ IdleHoldsNothing
      BY DEF IngesterInv
<1>3. buffer \in Seq(Event) /\ queue \in Seq(Event)
      BY <1>2 DEF Shape
<1>4. /\ buffer' \in Seq(Event)
      /\ batch' \in [Task -> Seq(Event)]
      /\ pc' \in [Task -> Place]
      /\ lock' \in Task \cup {Null}
      /\ OneCommit' /\ IdleHoldsNothing'
      /\ dropped \subseteq dropped'
      /\ Ids(buffer) \subseteq Ids(batch'[t]) \cup Ids(buffer') \cup dropped'
      /\ batch[t] = <<>>
      /\ \A u \in Task \ {t} : batch'[u] = batch[u] /\ pc'[u] = pc[u]
      BY <1>1, <1>2, <1>3, StartFlushKeeps, IdsOfNone
<1>5. Stopped => Stopped'
      BY <1>1, <1>4 DEF Stopped, Task
<1>6. QED  BY <1>1, <1>3, <1>4, <1>5, FlushStepKeeps DEF Place

-----------------------------------------------------------------------------
(* The answer to a transaction of t, applied or failed: what its batch held  *)
(* is in the database or back in the buffer.                                 *)
LEMMA AnswerStepKeeps ==
    ASSUME IngesterInv, NEW t \in Task, pc[t] = "committing",
           EndTransaction(t),
           pc' = [pc EXCEPT ![t] = pc'[t]], pc'[t] \in {"idle", "callback"},
           buffer' \in Seq(Event), log' \in Seq(Event),
           Ids(batch[t]) \cup Ids(buffer) \cup Ids(log) \subseteq Ids(buffer') \cup Ids(log'),
           fetched' \subseteq Ids(log')
    PROVE  IngesterInv'
<1>1. Shape /\ OneCommit /\ IdleHoldsNothing
      BY DEF IngesterInv
<1>2. /\ batch' \in [Task -> Seq(Event)]
      /\ pc' \in [Task -> Place]
      /\ lock' \in Task \cup {Null}
      /\ OneCommit' /\ IdleHoldsNothing'
      /\ \A u \in Task \ {t} : batch'[u] = batch[u]
      BY <1>1, EndTransactionKeeps DEF Place
<1>3. queue' = queue /\ arrived' = arrived /\ dropped' = dropped
      BY DEF EndTransaction, arrivalVars
<1>4. Shape'
      BY <1>1, <1>2, <1>3 DEF Shape
<1>5. \A u \in Task : Ids(batch[u]) \subseteq Ids(batch'[u]) \cup Ids(buffer') \cup Ids(log')
      BY <1>2
<1>6. Kept \subseteq Kept'
      BY <1>3, <1>5 DEF Kept, Task
<1>7. Stopped => Stopped'
      BY <1>1 DEF Stopped, Shape, Task
<1>8. ~Stopped' => 1..arrived' \subseteq Kept'
      BY <1>3, <1>6, <1>7 DEF IngesterInv
<1>9. QED  BY <1>2, <1>4, <1>8 DEF IngesterInv, FetchedAfterCommit

LEMMA TerminalIdsAreIds == \A s : TerminalIds(s) \subseteq Ids(s)
BY DEF TerminalIds, Ids

LEMMA CommitOkKeeps ==
    ASSUME IngesterInv, NEW t \in Task, CommitOk(t)
    PROVE  IngesterInv'
<1>1. /\ pc[t] = "committing" /\ EndTransaction(t)
      /\ log' = log \o batch[t] /\ buffer' = buffer
      /\ Return(t, TerminalIds(batch[t]))
      BY DEF CommitOk
<1>2. /\ batch[t] \in Seq(Event) /\ buffer \in Seq(Event) /\ log \in Seq(Event)
      /\ fetched \subseteq Ids(log)
      BY DEF IngesterInv, Shape, FetchedAfterCommit
<1>3. log' \in Seq(Event) /\ Ids(log') = Ids(log) \cup Ids(batch[t])
      BY <1>1, <1>2, IdsOfConcat
<1>4. pc \in [Task -> Place]
      BY DEF IngesterInv, Shape
<1>5. pc' = [pc EXCEPT ![t] = pc'[t]] /\ pc'[t] \in {"idle", "callback"}
      BY <1>1, <1>4 DEF Return, Goto
<1>6. fetched' \subseteq fetched \cup TerminalIds(batch[t])
      BY <1>1 DEF Return
<1>7. QED  BY <1>1, <1>2, <1>3, <1>5, <1>6, TerminalIdsAreIds, AnswerStepKeeps

(* A transaction that failed, whether or not the database applied it.        *)
LEMMA FlushFailsKeeps ==
    ASSUME IngesterInv, NEW t \in Task, pc[t] = "committing", FlushFails(t),
           log' = log \/ log' = log \o batch[t]
    PROVE  IngesterInv'
<1>1. /\ EndTransaction(t)
      /\ buffer' = batch[t] \o buffer
      /\ pc' = [pc EXCEPT ![t] = "idle"] /\ fetched' = fetched
      BY DEF FlushFails, Requeue, Return, Goto
<1>2. /\ batch[t] \in Seq(Event) /\ buffer \in Seq(Event) /\ log \in Seq(Event)
      /\ pc \in [Task -> Place]
      /\ fetched \subseteq Ids(log)
      BY DEF IngesterInv, Shape, FetchedAfterCommit
<1>3. /\ buffer' \in Seq(Event)
      /\ Ids(buffer') = Ids(batch[t]) \cup Ids(buffer)
      BY <1>1, <1>2, IdsOfConcat
<1>4. log' \in Seq(Event) /\ Ids(log) \subseteq Ids(log')
      BY <1>2, IdsOfConcat
<1>5. pc' = [pc EXCEPT ![t] = pc'[t]] /\ pc'[t] = "idle"
      BY <1>1, <1>2
<1>6. QED  BY <1>1, <1>2, <1>3, <1>4, <1>5, AnswerStepKeeps, ZenonT(30)

(* stop() forgets what the tasks hold, and may have let a commit through.    *)
LEMMA StopKeeps ==
    ASSUME IngesterInv, Stop
    PROVE  IngesterInv'
<1>1. /\ pc' = [t \in Task |-> "done"] /\ lock' = Null
      /\ batch' = [t \in Task |-> <<>>]
      /\ queue' = queue /\ arrived' = arrived /\ buffer' = buffer /\ fetched' = fetched
      BY DEF Stop, arrivalVars
<1>2. \/ log' = log
      \/ \E t \in Task : log' = log \o batch[t]
      BY DEF Stop
<1>3. log' \in Seq(Event) /\ Ids(log) \subseteq Ids(log')
  <2>1. log \in Seq(Event) /\ \A t \in Task : batch[t] \in Seq(Event)
        BY DEF IngesterInv, Shape
  <2>2. CASE log' = log
        BY <2>1, <2>2
  <2>3. ASSUME NEW t \in Task, log' = log \o batch[t]
        PROVE  log' \in Seq(Event) /\ Ids(log) \subseteq Ids(log')
        BY <2>1, <2>3, IdsOfConcat
  <2>4. QED  BY <1>2, <2>2, <2>3
<1>4. Shape'
      BY <1>1, <1>3, IdsOfNone DEF IngesterInv, Shape, Place
<1>5. OneCommit' /\ IdleHoldsNothing' /\ Stopped'
      BY <1>1 DEF OneCommit, IdleHoldsNothing, Stopped, Task
<1>6. FetchedAfterCommit'
      BY <1>1, <1>3 DEF IngesterInv, FetchedAfterCommit
<1>7. QED  BY <1>4, <1>5, <1>6 DEF IngesterInv

(* Every action preserves the invariant.                                     *)
LEMMA NextIngesterInv == IngesterInv /\ [Next]_vars => IngesterInv'
<1> SUFFICES ASSUME IngesterInv, [Next]_vars
             PROVE  IngesterInv'
    OBVIOUS
<1>1. ASSUME NEW t \in Task, CommitConflicts(t)
      PROVE  IngesterInv'
      BY <1>1 DEF CommitConflicts, IngesterInv, Shape, OneCommit, IdleHoldsNothing,
                  Stopped, Kept, FetchedAfterCommit, arrivalVars
<1>2. ASSUME NEW t \in Task, CallbackReturns(t)
      PROVE  IngesterInv'
  <2>1. /\ pc[t] = "callback" /\ pc' = [pc EXCEPT ![t] = "idle"]
        /\ UNCHANGED <<queue, arrived, buffer, lock, batch, log, fetched, dropped>>
        BY <1>2 DEF CallbackReturns, Goto, arrivalVars, dbVars
  <2>2. Shape'
        BY <2>1 DEF IngesterInv, Shape, Place
  <2>3. \A u \in Task : (pc'[u] = "committing") <=> (pc[u] = "committing")
        BY <2>1 DEF IngesterInv, Shape
  <2>4. OneCommit' /\ IdleHoldsNothing'
        BY <2>1, <2>3 DEF IngesterInv, OneCommit, IdleHoldsNothing
  <2>5. Stopped => Stopped'
        BY <2>1 DEF IngesterInv, Shape, Stopped, Task
  <2>6. Kept' = Kept /\ FetchedAfterCommit'
        BY <2>1 DEF IngesterInv, Kept, FetchedAfterCommit
  <2>7. QED  BY <2>1, <2>2, <2>4, <2>5, <2>6 DEF IngesterInv
<1>3. ASSUME NEW t \in Task, CommitGivesUp(t) \/ CommitRefused(t) \/ CommitErrors(t)
      PROVE  IngesterInv'
  <2>1. /\ pc[t] = "committing" /\ FlushFails(t)
        /\ log' = log \/ log' = log \o batch[t]
        BY <1>3 DEF CommitGivesUp, CommitRefused, CommitErrors
  <2>2. QED  BY <2>1, FlushFailsKeeps
<1>4. CASE UNCHANGED vars
      BY <1>4 DEF vars, arrivalVars, taskVars, dbVars, IngesterInv, Shape, OneCommit,
                  IdleHoldsNothing, Stopped, Kept, FetchedAfterCommit
<1>5. QED
      BY <1>1, <1>2, <1>3, <1>4, ArriveKeeps, ConsumeKeeps, TimerFiresKeeps, EnterKeeps,
         CommitOkKeeps, StopKeeps DEF Next, Step, Answer

-----------------------------------------------------------------------------
(* What the invariant has shown of every run.                                *)
LEMMA AlwaysIngesterInv == Spec => []IngesterInv
BY InitIngesterInv, NextIngesterInv, PTL DEF Spec

(* Until the ingester stops no event is lost between the queue and the       *)
(* database, however flushes, failures, retries and arrivals interleave.     *)
THEOREM NoEventIsLost == Spec => []NothingLost
<1>1. IngesterInv => NothingLost
      BY KeptIsHeld DEF IngesterInv, NothingLost
<1>2. QED  BY AlwaysIngesterInv, <1>1, PTL

(* The consume loop and the timer never have two transactions in flight.     *)
THEOREM CommitsNeverOverlap == Spec => []OneCommit
<1>1. IngesterInv => OneCommit
      BY DEF IngesterInv
<1>2. QED  BY AlwaysIngesterInv, <1>1, PTL

(* No result is asked for before the event that ended the task is written.   *)
THEOREM FetchesFollowCommits == Spec => []FetchedAfterCommit
<1>1. IngesterInv => FetchedAfterCommit
      BY DEF IngesterInv
<1>2. QED  BY AlwaysIngesterInv, <1>1, PTL

-----------------------------------------------------------------------------
(* The refinement of EventLog.  What the ingester holds are the batch of the *)
(* task that commits, if one does, and the buffer behind it.                 *)
BothStop == Stopped => pc["timer"] = "done"

LogInv == IngesterInv /\ BothStop

LEMMA OthersBatchIsEmpty ==
    ASSUME NEW b \in [Task -> Seq(Event)], NEW s \in Seq(Event), NEW t \in Task, b[Other(t)] = <<>>
    PROVE  b["consumer"] \o b["timer"] \o s = b[t] \o s
<1>1. b["consumer"] \in Seq(Event) /\ b["timer"] \in Seq(Event)
      BY DEF Task
<1>2. CASE t = "consumer"
      BY <1>1, <1>2, ConcatEmptySeq DEF Other
<1>3. CASE t = "timer"
      BY <1>1, <1>3, ConcatEmptySeq DEF Other
<1>4. QED  BY <1>2, <1>3 DEF Task

LEMMA TwoParts ==
    ASSUME NEW b \in Seq(Event), NEW s \in Seq(Event)
    PROVE  /\ SubSeq(b \o s, 1, Len(b)) = b
           /\ SubSeq(b \o s, Len(b) + 1, Len(b \o s)) = s
           /\ b # <<>> => Len(b) \in DOMAIN (b \o s)
           /\ Len(b) \in 0 .. Len(b \o s)
<1> DEFINE w == b \o s
<1>1. /\ w \in Seq(Event) /\ Len(w) = Len(b) + Len(s)
      /\ \A i \in 1 .. Len(b) + Len(s) : w[i] = IF i <= Len(b) THEN b[i] ELSE s[i - Len(b)]
      /\ Len(b) \in Nat /\ Len(s) \in Nat
      BY ConcatProperties, LenProperties
<1> HIDE DEF w
<1>2. \A i \in 1 .. Len(w) : w[i] \in Event
      BY <1>1, ElementOfSeq
<1>3. SubSeq(w, 1, Len(b)) = b
  <2>1. /\ SubSeq(w, 1, Len(b)) \in Seq(Event)
        /\ Len(SubSeq(w, 1, Len(b))) = Len(b)
        /\ \A i \in 1 .. Len(b) : SubSeq(w, 1, Len(b))[i] = w[i]
        BY <1>1, <1>2
  <2>2. \A i \in 1 .. Len(b) : SubSeq(w, 1, Len(b))[i] = b[i]
        BY <1>1, <2>1
  <2>3. QED  BY <2>1, <2>2, SeqEqual
<1>4. SubSeq(w, Len(b) + 1, Len(w)) = s
  <2>1. /\ SubSeq(w, Len(b) + 1, Len(w)) \in Seq(Event)
        /\ Len(SubSeq(w, Len(b) + 1, Len(w))) = Len(s)
        /\ \A i \in 1 .. Len(s) : SubSeq(w, Len(b) + 1, Len(w))[i] = w[Len(b) + i]
        BY <1>1, <1>2, SMTT(30)
  <2>2. \A i \in 1 .. Len(s) : SubSeq(w, Len(b) + 1, Len(w))[i] = s[i]
        BY <1>1, <2>1
  <2>3. QED  BY <2>1, <2>2, SeqEqual
<1>5. b # <<>> => Len(b) > 0
      BY <1>1, EmptySeq
<1>6. DOMAIN w = 1 .. Len(w)
      BY <1>1, LenProperties
<1>7. QED  BY <1>1, <1>3, <1>4, <1>5, <1>6 DEF w

(* Taking the buffer of the ingester: what it holds are the events of buf,   *)
(* and it forgets them if they give no query.                                *)
LEMMA StartFlushHolds ==
    ASSUME Shape, OneCommit, IdleHoldsNothing,
           NEW t \in Task, NEW buf \in Seq(Event), NEW flag,
           pc[t] # "committing", lock \in {Null, t}, StartFlush(t, buf, flag)
    PROVE  /\ Held = buffer
           /\ Held' = buf \/ (Held' = <<>> /\ Unusable(buf))
<1>1. Other(t) \in Task /\ Other(t) # t /\ (\A u \in Task : u = t \/ u = Other(t))
      BY DEF Task, Other
<1>2. batch[t] = <<>> /\ batch[Other(t)] = <<>>
      BY <1>1 DEF OneCommit, IdleHoldsNothing, Null, Task
<1>3. buffer \in Seq(Event) /\ batch \in [Task -> Seq(Event)] /\ <<>> \in Seq(Event)
      BY DEF Shape
<1>4. Held = buffer
  <2>1. batch["consumer"] \o batch["timer"] \o buffer = batch[t] \o buffer
        BY <1>2, <1>3, OthersBatchIsEmpty
  <2>2. <<>> \o buffer = buffer
        BY <1>3, ConcatEmptySeq
  <2>3. QED  BY <1>2, <2>1, <2>2 DEF Held
<1>5. CASE Unusable(buf)
  <2>1. buffer' = <<>> /\ batch' = batch
        BY <1>5 DEF StartFlush
  <2>2. Held' = <<>> \o <<>>
        BY <1>2, <1>3, <2>1, OthersBatchIsEmpty DEF Held
  <2>3. QED  BY <1>3, <1>4, <1>5, <2>2, ConcatEmptySeq
<1>6. CASE ~Unusable(buf)
  <2>1. buffer' = <<>> /\ batch' = [batch EXCEPT ![t] = buf]
        BY <1>6 DEF StartFlush
  <2>2. batch' \in [Task -> Seq(Event)] /\ batch'[t] = buf /\ batch'[Other(t)] = <<>>
        BY <1>1, <1>2, <1>3, <2>1
  <2>3. Held' = buf \o <<>>
    <3>1. batch'["consumer"] \o batch'["timer"] \o <<>> = batch'[t] \o <<>>
          BY <1>3, <2>2, OthersBatchIsEmpty
    <3>2. QED  BY <2>1, <2>2, <3>1 DEF Held
  <2>4. QED  BY <1>4, <2>3, ConcatEmptySeq
<1>7. QED  BY <1>5, <1>6

(* Asking for the lock with buf in the buffer, which is the buffer or has    *)
(* one event more.                                                           *)
LEMMA FlushHolds ==
    ASSUME Shape, OneCommit, IdleHoldsNothing,
           NEW t \in Task, NEW buf \in Seq(Event), NEW flag, pc[t] = "idle", Flush(t, buf, flag),
           NEW more \in Seq(Event), buf = buffer \o more
    PROVE  \/ Held' = Held \o more
           \/ Held' = <<>> /\ Unusable(Held \o more)
<1>1. CASE lock = Null
  <2>1. StartFlush(t, buf, flag)
        BY <1>1 DEF Flush
  <2>2. QED  BY <1>1, <2>1, StartFlushHolds
<1>2. CASE lock # Null
  <2>1. buffer' = buf /\ batch' = batch
        BY <1>2 DEF Flush
  <2>2. batch["consumer"] \in Seq(Event) /\ batch["timer"] \in Seq(Event) /\ buffer \in Seq(Event)
        BY DEF Shape, Task
  <2> DEFINE both == batch["consumer"] \o batch["timer"]
  <2>3. both \in Seq(Event)
        BY <2>2, ConcatProperties
  <2>4. Held = both \o buffer /\ Held' = both \o buf
        BY <2>1 DEF Held
  <2> HIDE DEF both
  <2>5. (both \o buffer) \o more = both \o (buffer \o more)
        BY <2>2, <2>3, ConcatAssociative, SMTT(30)
  <2>6. QED  BY <2>4, <2>5
<1>3. QED  BY <1>1, <1>2

LEMMA HeldIsASequence == ASSUME Shape PROVE Held \in Seq(Event)
<1>1. batch["consumer"] \in Seq(Event) /\ batch["timer"] \in Seq(Event) /\ buffer \in Seq(Event)
      BY DEF Shape, Task
<1>2. batch["consumer"] \o batch["timer"] \in Seq(Event)
      BY <1>1, ConcatProperties
<1>3. QED  BY <1>1, <1>2, ConcatProperties DEF Held

(* A task that commits holds what comes first.                               *)
LEMMA CommitterHolds ==
    ASSUME Shape, OneCommit, IdleHoldsNothing, NEW t \in Task, pc[t] = "committing"
    PROVE  Held = batch[t] \o buffer
<1>1. Other(t) \in Task /\ Other(t) # t
      BY DEF Task, Other
<1>2. batch[Other(t)] = <<>>
      BY <1>1 DEF OneCommit, IdleHoldsNothing
<1>3. QED  BY <1>2, OthersBatchIsEmpty DEF Shape, Held

(* Writing the batch of the task that commits is a write of EventLog; so is  *)
(* not writing it.                                                           *)
LEMMA BatchIsAPrefix ==
    ASSUME Shape, OneCommit, IdleHoldsNothing, NEW t \in Task, pc[t] = "committing"
    PROVE  /\ Len(batch[t]) \in 0 .. Len(Held)
           /\ SubSeq(Held, 1, Len(batch[t])) = batch[t]
           /\ SubSeq(Held, Len(batch[t]) + 1, Len(Held)) = buffer
           /\ batch[t] # <<>> => Len(batch[t]) \in DOMAIN Held
<1>1. batch[t] \in Seq(Event) /\ buffer \in Seq(Event)
      BY DEF Shape
<1>2. Held = batch[t] \o buffer
      BY CommitterHolds
<1>3. QED  BY <1>1, <1>2, TwoParts

(* The end of a transaction: no task commits any more.                       *)
LEMMA EndTransactionHolds ==
    ASSUME Shape, OneCommit, IdleHoldsNothing, NEW t \in Task, pc[t] = "committing",
           EndTransaction(t), buffer' \in Seq(Event)
    PROVE  Held' = buffer'
<1>1. Other(t) \in Task /\ Other(t) # t
      BY DEF Task, Other
<1>2. batch[Other(t)] = <<>>
      BY <1>1 DEF OneCommit, IdleHoldsNothing
<1>3. batch' = [batch EXCEPT ![t] = <<>>] /\ <<>> \in Seq(Event)
      BY DEF EndTransaction
<1>4. batch' \in [Task -> Seq(Event)] /\ batch'[t] = <<>> /\ batch'[Other(t)] = <<>>
      BY <1>1, <1>2, <1>3 DEF Shape
<1>5. Held' = <<>> \o buffer'
      BY <1>4, OthersBatchIsEmpty DEF Held
<1>6. QED  BY <1>5, ConcatEmptySeq

-----------------------------------------------------------------------------
(* What a step does to the events held, to those in the queue and to those   *)
(* in the database.  Consuming moves one event, or forgets all.              *)
LEMMA ConsumeHolds ==
    ASSUME IngesterInv, Consume
    PROVE  /\ queue # <<>> /\ Head(queue) \in Event
           /\ queue' = Tail(queue) /\ log' = log
           /\ \/ Held' = Held
              \/ Held' = Held \o <<Head(queue)>>
              \/ Held' = <<>> /\ Unusable(Held \o <<Head(queue)>>)
<1> DEFINE e == Head(queue)
           buf == Append(buffer, e)
           flag == hasTerminal \/ e.kind = "terminal"
<1>1. /\ pc["consumer"] = "idle" /\ "consumer" \in Task
      /\ queue # <<>> /\ queue' = Tail(queue) /\ log' = log
      BY DEF Consume, dbVars, Task
<1>2. Shape /\ OneCommit /\ IdleHoldsNothing
      BY DEF IngesterInv
<1>3. e \in Event /\ buffer \in Seq(Event)
      BY <1>1, <1>2 DEF Shape
<1>4. <<e>> \in Seq(Event) /\ buf = buffer \o <<e>> /\ buf \in Seq(Event)
      BY <1>3, AppendIsConcat, AppendProperties
<1>5. \/ UNCHANGED <<buffer, batch>>
      \/ Flush("consumer", buf, flag)
      \/ buffer' = buf /\ UNCHANGED batch
      BY DEF Consume
<1> HIDE DEF e, buf, flag
<1>6. CASE UNCHANGED <<buffer, batch>>
      BY <1>1, <1>3, <1>6 DEF Held, e
<1>7. CASE Flush("consumer", buf, flag)
  <2>1. Held' = Held \o <<e>> \/ (Held' = <<>> /\ Unusable(Held \o <<e>>))
        BY <1>1, <1>2, <1>4, <1>7, FlushHolds
  <2>2. QED  BY <1>1, <1>3, <2>1 DEF e
<1>8. CASE buffer' = buf /\ UNCHANGED batch
  <2> DEFINE both == batch["consumer"] \o batch["timer"]
  <2>1. Held = both \o buffer /\ Held' = both \o (buffer \o <<e>>)
        BY <1>4, <1>8 DEF Held
  <2>2. both \in Seq(Event)
        BY <1>2, ConcatProperties DEF Shape, Task
  <2> HIDE DEF both
  <2>3. Held' = Held \o <<e>>
        BY <1>3, <1>4, <2>1, <2>2, ConcatAssociative
  <2>4. QED  BY <1>1, <1>3, <2>3 DEF e
<1>9. QED  BY <1>5, <1>6, <1>7, <1>8

(* Every other step leaves the queue alone: it writes what comes first among *)
(* the events held, or not; it lets go of these events, of all or of none.   *)
WritesFirst ==
    \E first, rest \in Seq(Event) :
        /\ Held = first \o rest
        /\ log' \in {log, log \o first}
        /\ Held' \in {Held, rest, <<>>}

(* A step that writes nothing and lets go of all or of nothing.              *)
LEMMA WritesNothing ==
    ASSUME Shape, log' = log, Held' \in {Held, <<>>}
    PROVE  WritesFirst
<1>1. Held \in Seq(Event) /\ <<>> \in Seq(Event) /\ Held = <<>> \o Held
      BY HeldIsASequence, ConcatEmptySeq
<1>2. QED  BY <1>1 DEF WritesFirst

LEMMA OthersWriteFirst ==
    ASSUME IngesterInv, TimerFires \/ (\E t \in Task : Step(t)) \/ Stop
    PROVE  queue' = queue /\ WritesFirst
<1>1. Shape /\ OneCommit /\ IdleHoldsNothing
      BY DEF IngesterInv
<1>2. /\ buffer \in Seq(Event) /\ log \in Seq(Event) /\ batch \in [Task -> Seq(Event)]
      /\ <<>> \in Seq(Event)
      BY <1>1 DEF Shape
<1>3. CASE TimerFires
  <2>1. /\ pc["timer"] = "idle" /\ "timer" \in Task /\ queue' = queue /\ log' = log
        /\ Flush("timer", buffer, hasTerminal)
        BY <1>3 DEF TimerFires, arrivalVars, dbVars, Task
  <2>2. buffer = buffer \o <<>> /\ Held \o <<>> = Held
        BY <1>1, <1>2, HeldIsASequence, ConcatEmptySeq
  <2>3. Held' \in {Held, <<>>}
        BY <1>1, <1>2, <2>1, <2>2, FlushHolds
  <2>4. QED  BY <1>1, <2>1, <2>3, WritesNothing
<1>4. ASSUME NEW t \in Task, Enter(t)
      PROVE  queue' = queue /\ WritesFirst
  <2>1. /\ pc[t] = "locking" /\ lock = t /\ queue' = queue /\ log' = log
        /\ StartFlush(t, buffer, hasTerminal)
        BY <1>4 DEF Enter, arrivalVars, dbVars
  <2>2. Held' \in {Held, <<>>}
        BY <1>1, <1>2, <2>1, StartFlushHolds
  <2>3. QED  BY <1>1, <2>1, <2>2, WritesNothing
<1>5. ASSUME NEW t \in Task, UNCHANGED <<queue, buffer, batch, log>>
      PROVE  queue' = queue /\ WritesFirst
      BY <1>1, <1>5, WritesNothing DEF Held
<1>6. ASSUME NEW t \in Task, pc[t] = "committing", EndTransaction(t),
             buffer' \in {buffer, batch[t] \o buffer}, log' \in {log, log \o batch[t]}
      PROVE  queue' = queue /\ WritesFirst
  <2>1. batch[t] \in Seq(Event) /\ buffer' \in Seq(Event)
    <3>1. batch[t] \in Seq(Event)
          BY <1>2
    <3>2. batch[t] \o buffer \in Seq(Event)
          BY <1>2, <3>1, ConcatProperties
    <3>3. QED  BY <1>2, <1>6, <3>1, <3>2
  <2>2. Held = batch[t] \o buffer /\ Held' = buffer'
        BY <1>1, <1>6, <2>1, CommitterHolds, EndTransactionHolds
  <2>3. queue' = queue
        BY <1>6 DEF EndTransaction, arrivalVars
  <2>4. QED  BY <1>2, <1>6, <2>1, <2>2, <2>3 DEF WritesFirst
<1>7. ASSUME NEW t \in Task, Answer(t) \/ CallbackReturns(t)
      PROVE  queue' = queue /\ WritesFirst
  <2>1. CASE CommitOk(t)
        BY <1>6, <2>1 DEF CommitOk
  <2>2. CASE CommitConflicts(t)
        BY <1>5, <2>2 DEF CommitConflicts, arrivalVars
  <2>3. CASE CommitGivesUp(t) \/ CommitRefused(t) \/ CommitErrors(t)
        BY <1>6, <2>3 DEF CommitGivesUp, CommitRefused, CommitErrors, FlushFails, Requeue
  <2>4. CASE CallbackReturns(t)
        BY <1>5, <2>4 DEF CallbackReturns, arrivalVars, dbVars
  <2>5. QED  BY <1>7, <2>1, <2>2, <2>3, <2>4 DEF Answer
<1>8. CASE Stop
  <2>1. /\ queue' = queue /\ buffer' = buffer /\ batch' = [t \in Task |-> <<>>]
        /\ log' = log \/ \E t \in Task : log' = log \o batch[t]
        BY <1>8 DEF Stop, arrivalVars
  <2>2. Held' = buffer
    <3>1. batch' \in [Task -> Seq(Event)] /\ batch'["consumer"] = <<>> /\ batch'["timer"] = <<>>
          BY <1>2, <2>1 DEF Task
    <3>2. QED  BY <1>2, <2>1, <3>1, ConcatEmptySeq DEF Held
  <2>3. CASE \E t \in Task : pc[t] = "committing"
    <3>1. PICK t \in Task : pc[t] = "committing"
          BY <2>3
    <3>2. \A u \in Task : u # t => batch[u] = <<>>
          BY <1>1, <3>1 DEF OneCommit, IdleHoldsNothing
    <3>3. batch[t] \in Seq(Event) /\ Held = batch[t] \o buffer
          BY <1>1, <1>2, <3>1, CommitterHolds
    <3>4. log' \in {log, log \o batch[t]}
          BY <1>2, <2>1, <3>2, ConcatEmptySeq
    <3>5. QED  BY <1>2, <2>1, <2>2, <3>3, <3>4 DEF WritesFirst
  <2>4. CASE ~\E t \in Task : pc[t] = "committing"
    <3>1. \A t \in Task : batch[t] = <<>>
          BY <1>1, <2>4 DEF IdleHoldsNothing
    <3>2. log' = log
          BY <1>2, <2>1, <3>1, ConcatEmptySeq
    <3>3. Held = buffer
          BY <1>2, <3>1, ConcatEmptySeq DEF Held, Task
    <3>4. QED  BY <1>1, <2>1, <2>2, <3>2, <3>3, WritesNothing
  <2>5. QED  BY <2>3, <2>4
<1>9. QED  BY <1>3, <1>4, <1>7, <1>8 DEF Step

-----------------------------------------------------------------------------
(* Each step of the ingester is a step of EventLog, or none of its concern.  *)
LEMMA UnusableAreUnrecorded ==
    ASSUME NEW s \in Seq(Event), Unusable(s)
    PROVE  Log!Elements(s) \subseteq {e \in Event : e.kind = "unusable"}
<1> SUFFICES ASSUME NEW n \in DOMAIN s
             PROVE  s[n] \in Event /\ s[n].kind = "unusable"
    BY DEF Log!Elements
<1>1. QED  BY ElementOfSeq, LenProperties DEF Unusable

LEMMA ConsumeIsAccepted ==
    ASSUME LogInv, Consume
    PROVE  [Log!Next]_(Log!vars)
<1> DEFINE e == Head(queue)
<1>1. /\ IngesterInv /\ Shape /\ "consumer" \in Task
      /\ pc \in [Task -> Place] /\ pc["consumer"] = "idle"
      BY DEF LogInv, IngesterInv, Shape, Consume, Task
<1>2. /\ e \in Event /\ log' = log
      /\ \/ Held' = Held
         \/ Held' = Held \o <<e>>
         \/ Held' = <<>> /\ Unusable(Held \o <<e>>)
      BY <1>1, ConsumeHolds
<1> HIDE DEF e
<1>3. Append(Held, e) = Held \o <<e>> /\ Held \o <<e>> \in Seq(Event)
      BY <1>1, <1>2, HeldIsASequence, AppendIsConcat, AppendProperties
<1>4. ~Stopped /\ ~Stopped'
  <2>1. UNCHANGED pc \/ \E buf, flag : Flush("consumer", buf, flag)
        BY DEF Consume
  <2>2. QED  BY <1>1, <2>1 DEF Flush, StartFlush, Goto, Stopped
<1>5. CASE Held' = Held
      BY <1>2, <1>4, <1>5 DEF Log!vars
<1>6. CASE Held' = Held \o <<e>> \/ (Held' = <<>> /\ Unusable(Held \o <<e>>))
  <2>1. Unusable(Held \o <<e>>) => Log!Elements(Append(Held, e)) \subseteq {x \in Event : x.kind = "unusable"}
        BY <1>3, UnusableAreUnrecorded
  <2>2. Log!Accept(e)
        BY <1>2, <1>3, <1>4, <1>6, <2>1 DEF Log!Accept, Log!Forget
  <2>3. QED  BY <1>2, <2>2 DEF Log!Next
<1>7. QED  BY <1>2, <1>5, <1>6

(* A flush of the buffer as it is changes nothing that is held, or forgets   *)
(* events without a record.                                                  *)
LEMMA FlushIsForgotten ==
    ASSUME Shape, ~Stopped, ~Stopped', log' = log,
           Held' = Held \/ (Held' = <<>> /\ Unusable(Held))
    PROVE  [Log!Next]_(Log!vars)
<1>1. CASE Held' = Held
      BY <1>1 DEF Log!vars
<1>2. CASE Held' = <<>> /\ Unusable(Held)
  <2>1. Log!Elements(Held) \subseteq {x \in Event : x.kind = "unusable"}
        BY <1>2, HeldIsASequence, UnusableAreUnrecorded
  <2>2. Log!Forget(Held)
        BY <1>2, <2>1 DEF Log!Forget
  <2>3. QED  BY <2>2 DEF Log!Next
<1>3. QED  BY <1>1, <1>2

LEMMA TimerIsForgotten ==
    ASSUME LogInv, TimerFires
    PROVE  [Log!Next]_(Log!vars)
<1>1. /\ pc["timer"] = "idle" /\ "timer" \in Task
      /\ Flush("timer", buffer, hasTerminal) /\ log' = log
      BY DEF TimerFires, dbVars, Task
<1>2. Shape /\ OneCommit /\ IdleHoldsNothing /\ ~Stopped
      BY <1>1 DEF LogInv, IngesterInv, BothStop
<1>3. buffer \in Seq(Event) /\ <<>> \in Seq(Event) /\ buffer = buffer \o <<>>
      BY <1>2, ConcatEmptySeq DEF Shape
<1>4. Held \o <<>> = Held
      BY <1>2, HeldIsASequence, ConcatEmptySeq
<1>5. Held' = Held \/ (Held' = <<>> /\ Unusable(Held))
  <2>1. Held' = Held \o <<>> \/ (Held' = <<>> /\ Unusable(Held \o <<>>))
        BY <1>1, <1>2, <1>3, FlushHolds
  <2>2. QED  BY <1>4, <2>1
<1>6. ~Stopped'
      BY <1>1, <1>2 DEF Flush, StartFlush, Goto, Stopped, Shape, Task
<1>7. QED  BY <1>1, <1>2, <1>5, <1>6, FlushIsForgotten

LEMMA EnterIsForgotten ==
    ASSUME LogInv, NEW t \in Task, Enter(t)
    PROVE  [Log!Next]_(Log!vars)
<1>1. /\ pc[t] = "locking" /\ lock = t /\ StartFlush(t, buffer, hasTerminal) /\ log' = log
      BY DEF Enter, dbVars
<1>2. Shape /\ OneCommit /\ IdleHoldsNothing /\ ~Stopped
      BY <1>1 DEF LogInv, IngesterInv, BothStop, Stopped, Task
<1>3. Held = buffer /\ (Held' = buffer \/ (Held' = <<>> /\ Unusable(buffer)))
      BY <1>1, <1>2, StartFlushHolds DEF Shape
<1>4. ~Stopped'
      BY <1>1, <1>2 DEF StartFlush, Goto, Stopped, Shape, Task
<1>5. QED  BY <1>1, <1>2, <1>3, <1>4, FlushIsForgotten

(* A commit writes the batch and lets it go.                                 *)
LEMMA CommitOkIsWritten ==
    ASSUME LogInv, NEW t \in Task, CommitOk(t)
    PROVE  [Log!Next]_(Log!vars)
<1>1. /\ pc[t] = "committing" /\ EndTransaction(t) /\ buffer' = buffer
      /\ log' = log \o batch[t] /\ Return(t, TerminalIds(batch[t]))
      BY DEF CommitOk
<1>2. Shape /\ OneCommit /\ IdleHoldsNothing /\ ~Stopped
      BY <1>1 DEF LogInv, IngesterInv, BothStop, Stopped, Task
<1>3. buffer \in Seq(Event) /\ log \in Seq(Event) /\ batch[t] \in Seq(Event)
      BY <1>2 DEF Shape
<1>4. ~Stopped'
      BY <1>1, <1>2 DEF Return, Goto, Stopped, Shape, Task
<1>5. Held' = buffer
      BY <1>1, <1>2, <1>3, EndTransactionHolds
<1>6. CASE batch[t] = <<>>
  <2>1. Held = buffer
        BY <1>1, <1>2, <1>3, <1>6, CommitterHolds, ConcatEmptySeq
  <2>2. log' = log
        BY <1>1, <1>3, <1>6, ConcatEmptySeq
  <2>3. QED  BY <1>2, <1>4, <1>5, <2>1, <2>2 DEF Log!vars
<1>7. CASE batch[t] # <<>>
  <2>1. Log!Write(Len(batch[t]))
        BY <1>1, <1>2, <1>4, <1>5, BatchIsAPrefix DEF Log!Write
  <2>2. Len(batch[t]) \in DOMAIN Held
        BY <1>1, <1>2, <1>7, BatchIsAPrefix
  <2>3. QED  BY <1>2, <2>1, <2>2 DEF Log!Next
<1>8. QED  BY <1>6, <1>7

(* A commit that fails lets nothing go, and may have written the batch.      *)
LEMMA FailureIsWritten ==
    ASSUME LogInv, NEW t \in Task, pc[t] = "committing", FlushFails(t),
           log' = log \/ log' = log \o batch[t]
    PROVE  [Log!Next]_(Log!vars)
<1>1. /\ EndTransaction(t) /\ buffer' = batch[t] \o buffer /\ Return(t, {})
      BY DEF FlushFails, Requeue
<1>2. Shape /\ OneCommit /\ IdleHoldsNothing /\ ~Stopped
      BY DEF LogInv, IngesterInv, BothStop, Stopped, Task
<1>3. buffer \in Seq(Event) /\ log \in Seq(Event) /\ batch[t] \in Seq(Event)
      BY <1>2 DEF Shape
<1>4. ~Stopped'
      BY <1>1, <1>2 DEF Return, Goto, Stopped, Shape, Task
<1>5. buffer' \in Seq(Event)
      BY <1>1, <1>3, ConcatProperties
<1>6. Held' = Held
      BY <1>1, <1>2, <1>5, EndTransactionHolds, CommitterHolds
<1>7. CASE log' = log
      BY <1>2, <1>4, <1>6, <1>7 DEF Log!vars
<1>8. CASE batch[t] = <<>> /\ log' = log \o batch[t]
      BY <1>2, <1>3, <1>4, <1>6, <1>8, ConcatEmptySeq DEF Log!vars
<1>9. CASE batch[t] # <<>> /\ log' = log \o batch[t]
  <2>1. Log!Write(Len(batch[t]))
        BY <1>2, <1>4, <1>6, <1>9, BatchIsAPrefix DEF Log!Write
  <2>2. Len(batch[t]) \in DOMAIN Held
        BY <1>2, <1>9, BatchIsAPrefix
  <2>3. QED  BY <1>2, <2>1, <2>2 DEF Log!Next
<1>10. QED  BY <1>7, <1>8, <1>9

(* stop() closes the log: what it cancels has been written or has not.       *)
LEMMA StopCloses ==
    ASSUME LogInv, Stop
    PROVE  [Log!Next]_(Log!vars)
<1>1. /\ ~Stopped /\ pc' = [t \in Task |-> "done"]
      /\ log' = log \/ (\E t \in Task : log' = log \o batch[t])
      BY DEF Stop
<1>2. Shape /\ OneCommit /\ IdleHoldsNothing
      BY DEF LogInv, IngesterInv
<1>3. Stopped'
      BY <1>1 DEF Stopped, Task
<1>4. log \in Seq(Event) /\ Held \in Seq(Event)
      BY <1>2, HeldIsASequence DEF Shape
<1>5. SubSeq(Held, 1, 0) = <<>> /\ 0 \in 0 .. Len(Held) /\ log \o <<>> = log
      BY <1>4, SubSeqEmpty, ConcatEmptySeq, LenProperties
<1>6. \E n \in 0 .. Len(Held) : log' = log \o SubSeq(Held, 1, n)
  <2>1. CASE log' = log
        BY <1>5, <2>1
  <2>2. ASSUME NEW t \in Task, log' = log \o batch[t]
        PROVE  \E n \in 0 .. Len(Held) : log' = log \o SubSeq(Held, 1, n)
    <3>1. CASE pc[t] = "committing"
          BY <1>2, <2>2, <3>1, BatchIsAPrefix
    <3>2. CASE pc[t] # "committing"
      <4>1. batch[t] = <<>>
            BY <1>2, <3>2 DEF IdleHoldsNothing
      <4>2. QED  BY <1>5, <2>2, <4>1
    <3>3. QED  BY <3>1, <3>2
  <2>3. QED  BY <1>1, <2>1, <2>2
<1>7. Log!Close
      BY <1>1, <1>3, <1>6 DEF Log!Close
<1>8. QED  BY <1>7 DEF Log!Next

LEMMA NextIsALogStep == LogInv /\ [Next]_vars => [Log!Next]_(Log!vars)
<1> SUFFICES ASSUME LogInv, [Next]_vars
             PROVE  [Log!Next]_(Log!vars)
    OBVIOUS
<1>1. ASSUME UNCHANGED <<buffer, batch, log>>, Stopped' = Stopped
      PROVE  [Log!Next]_(Log!vars)
      BY <1>1 DEF Log!vars, Held
<1>2. ASSUME NEW k \in Kind, Arrive(k) PROVE [Log!Next]_(Log!vars)
      BY <1>1, <1>2 DEF Arrive, Stopped, taskVars, dbVars
<1>3. ASSUME NEW t \in Task, CommitConflicts(t) PROVE [Log!Next]_(Log!vars)
      BY <1>1, <1>3 DEF CommitConflicts, Stopped
<1>4. ASSUME NEW t \in Task, CallbackReturns(t) PROVE [Log!Next]_(Log!vars)
  <2>1. /\ pc[t] = "callback" /\ pc' = [pc EXCEPT ![t] = "idle"]
        /\ UNCHANGED <<buffer, batch, log>> /\ pc \in [Task -> Place]
        BY <1>4 DEF CallbackReturns, Goto, dbVars, LogInv, IngesterInv, Shape
  <2>2. Stopped' = Stopped
        BY <2>1 DEF Stopped, Task
  <2>3. QED  BY <1>1, <2>1, <2>2
<1>5. ASSUME NEW t \in Task, CommitGivesUp(t) \/ CommitRefused(t) \/ CommitErrors(t)
      PROVE  [Log!Next]_(Log!vars)
  <2>1. /\ pc[t] = "committing" /\ FlushFails(t)
        /\ log' = log \/ log' = log \o batch[t]
        BY <1>5 DEF CommitGivesUp, CommitRefused, CommitErrors
  <2>2. QED  BY <2>1, FailureIsWritten
<1>6. CASE UNCHANGED vars
      BY <1>1, <1>6 DEF vars, Stopped, taskVars, dbVars
<1>7. QED
      BY <1>2, <1>3, <1>4, <1>5, <1>6, ConsumeIsAccepted, TimerIsForgotten, EnterIsForgotten,
         CommitOkIsWritten, StopCloses DEF Next, Step, Answer

(* Both tasks end together, so that a stopped ingester writes no more.       *)
LEMMA NextBothStop == LogInv /\ [Next]_vars => BothStop'
<1> SUFFICES ASSUME LogInv, [Next]_vars
             PROVE  BothStop'
    OBVIOUS
<1>1. pc \in [Task -> Place] /\ BothStop
      BY DEF LogInv, IngesterInv, Shape
<1>2. CASE Stop
      BY <1>2 DEF Stop, BothStop, Stopped, Task
<1>3. CASE UNCHANGED pc
      BY <1>1, <1>3 DEF BothStop, Stopped
<1>4. ASSUME NEW t \in Task, pc[t] # "done", pc' = [pc EXCEPT ![t] = pc'[t]], pc'[t] # "done"
      PROVE  BothStop'
      BY <1>1, <1>4 DEF BothStop, Stopped, Task
<1>5. ASSUME NEW t \in Task, NEW buf, NEW flag, Flush(t, buf, flag), pc[t] = "idle"
      PROVE  BothStop'
  <2>1. pc' = [pc EXCEPT ![t] = pc'[t]] /\ pc'[t] # "done"
        BY <1>1, <1>5 DEF Flush, StartFlush, Goto
  <2>2. QED  BY <1>4, <1>5, <2>1
<1>6. CASE Consume
  <2>1. "consumer" \in Task /\ pc["consumer"] = "idle"
        BY <1>6 DEF Consume, Task
  <2>2. UNCHANGED pc \/ Flush("consumer", Append(buffer, Head(queue)), hasTerminal \/ Head(queue).kind = "terminal")
        BY <1>6 DEF Consume
  <2>3. QED  BY <1>3, <1>5, <2>1, <2>2
<1>7. CASE TimerFires
      BY <1>5, <1>7 DEF TimerFires, Task
<1>8. ASSUME NEW t \in Task, Step(t)
      PROVE  BothStop'
  <2>1. CASE Enter(t)
    <3>1. pc[t] = "locking" /\ pc' = [pc EXCEPT ![t] = pc'[t]] /\ pc'[t] # "done"
          BY <1>1, <2>1 DEF Enter, StartFlush, Goto
    <3>2. QED  BY <1>4, <3>1
  <2>2. CASE CommitConflicts(t)
        BY <1>3, <2>2 DEF CommitConflicts
  <2>3. CASE CommitOk(t) \/ CommitGivesUp(t) \/ CommitRefused(t) \/ CommitErrors(t)
    <3>1. pc[t] = "committing" /\ \E ids : Return(t, ids)
          BY <2>3 DEF CommitOk, CommitGivesUp, CommitRefused, CommitErrors, FlushFails
    <3>2. pc' = [pc EXCEPT ![t] = pc'[t]] /\ pc'[t] # "done"
          BY <1>1, <3>1 DEF Return, Goto
    <3>3. QED  BY <1>4, <3>1, <3>2
  <2>4. CASE CallbackReturns(t)
    <3>1. pc[t] = "callback" /\ pc' = [pc EXCEPT ![t] = pc'[t]] /\ pc'[t] # "done"
          BY <1>1, <2>4 DEF CallbackReturns, Goto
    <3>2. QED  BY <1>4, <3>1
  <2>5. QED  BY <1>8, <2>1, <2>2, <2>3, <2>4 DEF Step, Answer
<1>9. ASSUME NEW k \in Kind, Arrive(k) PROVE BothStop'
      BY <1>3, <1>9 DEF Arrive
<1>10. QED  BY <1>2, <1>3, <1>6, <1>7, <1>8, <1>9 DEF Next, vars

(* The ingester implements EventLog: what it writes are prefixes of what it  *)
(* holds, in the order of arrival, and it lets go of nothing it has not      *)
(* written but events that leave no record.                                  *)
THEOREM WritesAreInOrder == Spec => WritesInOrder
<1>1. Init => LogInv
      BY InitIngesterInv DEF LogInv, BothStop, Init, Task, Stopped
<1>2. LogInv /\ [Next]_vars => LogInv'
      BY NextIngesterInv, NextBothStop DEF LogInv
<1>3. Init => Log!Init
  <2> SUFFICES ASSUME Init PROVE Log!Init
      OBVIOUS
  <2>1. batch["consumer"] = <<>> /\ batch["timer"] = <<>> /\ buffer = <<>> /\ log = <<>>
        BY DEF Init, Task
  <2>2. Held = <<>>
        BY <2>1, IdsOfNone, ConcatEmptySeq DEF Held
  <2>3. QED  BY <2>1, <2>2 DEF Log!Init
<1>4. QED  BY <1>1, <1>2, <1>3, NextIsALogStep, PTL DEF Spec, WritesInOrder, Log!Spec
=============================================================================
