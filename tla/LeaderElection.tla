--------------------------- MODULE LeaderElection ---------------------------
(* Ingestion leader election between replicas that share one SurrealDB       *)
(* (runtime/leader-election.ts) and the Python ingester each leader runs     *)
(* (bun-entry.ts).                                                           *)
(*                                                                           *)
(* A replica is one event loop.  Every await splits a handler: the call is   *)
(* issued in one step, the database executes it in another, and the handler  *)
(* continues in a third, so timers and other handlers run in between.        *)
(* calls[i][k] counts the calls and answers of kind k in flight for i.       *)
(* The lease's age is abstracted to lock.fresh: FALSE once the heartbeat is  *)
(* older than the TTL.  An instance id is drawn at random on every start, so *)
(* a restarted replica is another member of Instance.                        *)
EXTENDS Integers, FiniteSets

CONSTANTS
    Instance,       \* replica ids (generateInstanceId)
    Pid,            \* Python processes one replica can have at a time
    Null,           \* no holder, no process
    Mode,           \* "election", "assumed" (election disabled) or "read-only"
    Punctual,       \* TRUE: a leader's heartbeats always arrive within the TTL
    MaxInFlight,    \* per replica, runs of one interval's callback that may overlap
    MaxLeaked,      \* bound on standby intervals nobody can clear any more
    MaxRestarts,    \* bound on pending Python restart timers
    MaxFaults       \* bound on failed calls and crashes

ASSUME ConstantsAssumption ==
    /\ Null \notin Instance
    /\ Null \notin Pid
    /\ Mode \in [Instance -> {"election", "assumed", "read-only"}]
    /\ Punctual \in BOOLEAN
    /\ MaxInFlight \in [Instance -> Nat]
    /\ {MaxLeaked, MaxRestarts, MaxFaults} \subseteq Nat

VARIABLES
    lock,            \* the ingestion_lock:leader record
    phase,           \* where the replica is between its start and its exit
    isLeader,        \* LeaderElection._isLeader
    heartbeatTimer,  \* LeaderElection.heartbeatTimer is an interval
    standbyTimer,    \* LeaderElection.standbyTimer is an interval
    leaked,          \* standby intervals that run but that no field refers to
    calls,           \* database calls and answers in flight
    pythonProcess,   \* bun-entry's pythonProcess
    live,            \* Python processes that ingest
    terminating,     \* Python processes told to stop that have not exited yet
    awaited,         \* the process shutdown() waits for
    restarts,        \* pending setTimeout callbacks that restart Python
    faults

electionVars == <<lock, calls, isLeader, heartbeatTimer, standbyTimer, leaked>>
pythonVars == <<pythonProcess, live, terminating, awaited, restarts>>
vars == <<electionVars, phase, pythonVars, faults>>

Phase == {"new", "running", "draining", "releasing", "closing", "gone"}
Call == {"start", "startGranted", "startRefused", "poll", "pollGranted",
         "beat", "beatLost", "beatFailed", "look", "release", "released"}

TypeOK ==
    /\ lock \in [holder : Instance \cup {Null}, fresh : BOOLEAN]
    /\ phase \in [Instance -> Phase]
    /\ isLeader \in [Instance -> BOOLEAN]
    /\ heartbeatTimer \in [Instance -> BOOLEAN]
    /\ standbyTimer \in [Instance -> BOOLEAN]
    /\ leaked \in [Instance -> Nat]
    /\ calls \in [Instance -> [Call -> Nat]]
    /\ pythonProcess \in [Instance -> Pid \cup {Null}]
    /\ live \in [Instance -> SUBSET Pid]
    /\ terminating \in [Instance -> SUBSET Pid]
    /\ awaited \in [Instance -> Pid \cup {Null}]
    /\ restarts \in [Instance -> Nat]
    /\ faults \in Nat

Init ==
    /\ lock = [holder |-> Null, fresh |-> FALSE]
    /\ phase = [i \in Instance |-> "new"]
    /\ isLeader = [i \in Instance |-> FALSE]
    /\ heartbeatTimer = [i \in Instance |-> FALSE]
    /\ standbyTimer = [i \in Instance |-> FALSE]
    /\ leaked = [i \in Instance |-> 0]
    /\ calls = [i \in Instance |-> [k \in Call |-> 0]]
    /\ pythonProcess = [i \in Instance |-> Null]
    /\ live = [i \in Instance |-> {}]
    /\ terminating = [i \in Instance |-> {}]
    /\ awaited = [i \in Instance |-> Null]
    /\ restarts = [i \in Instance |-> 0]
    /\ faults = 0

-----------------------------------------------------------------------------
(* The event loop runs; LeaderElection.stopped; bun-entry's shuttingDown.   *)
Up(i) == phase[i] \in {"running", "draining", "releasing", "closing"}
Stopped(i) == phase[i] \in {"releasing", "closing", "gone"}
ShuttingDown(i) == Stopped(i) \/ phase[i] = "draining"
Electing(i) == Up(i) /\ ~Stopped(i)

InFlight(i, k) == calls[i][k] > 0
Issue(i, k) == calls' = [calls EXCEPT ![i][k] = @ + 1]
Finish(i, k) == calls' = [calls EXCEPT ![i][k] = @ - 1]
Become(i, k, l) == calls' = [calls EXCEPT ![i][k] = @ - 1, ![i][l] = @ + 1]

Fault == faults < MaxFaults /\ faults' = faults + 1

ClearTimers(i) ==
    /\ heartbeatTimer' = [heartbeatTimer EXCEPT ![i] = FALSE]
    /\ standbyTimer' = [standbyTimer EXCEPT ![i] = FALSE]

(* The new process overwrites pythonProcess whatever it referred to.        *)
SpawnPython(i) ==
    \E p \in Pid \ (live[i] \cup terminating[i] \cup {pythonProcess[i], awaited[i]}) :
        /\ pythonProcess' = [pythonProcess EXCEPT ![i] = p]
        /\ live' = [live EXCEPT ![i] = @ \cup {p}]

(* Mutant: the process is forgotten without the signal. *)
ForgetPython(i) ==
    /\ pythonProcess' = [pythonProcess EXCEPT ![i] = Null]
    /\ UNCHANGED <<live, terminating>>

(* Mutant: onLoseLeadership does nothing. *)
KeepPython(i) == UNCHANGED <<live, terminating, pythonProcess>>

(* onLoseLeadership: signal the tracked process and forget it at once.      *)
LoseLeadership(i) ==
    /\ terminating' = [terminating EXCEPT ![i] = @ \cup (live[i] \cap {pythonProcess[i]})]
    /\ live' = [live EXCEPT ![i] = @ \ {pythonProcess[i]}]
    /\ pythonProcess' = [pythonProcess EXCEPT ![i] = Null]

(* promoteToLeader: the answer k is the granted lock.                       *)
PromoteToLeader(i, k) ==
    /\ Finish(i, k)
    /\ IF Stopped(i)
       THEN UNCHANGED <<isLeader, heartbeatTimer, standbyTimer, pythonProcess, live>>
       ELSE /\ isLeader' = [isLeader EXCEPT ![i] = TRUE]
            /\ heartbeatTimer' = [heartbeatTimer EXCEPT ![i] = TRUE]
            /\ standbyTimer' = [standbyTimer EXCEPT ![i] = FALSE]
            /\ SpawnPython(i)
    /\ UNCHANGED <<lock, leaked, phase, terminating, awaited, restarts, faults>>

-----------------------------------------------------------------------------
(* LeaderElection.start and the first lines of bun-entry's startup.         *)
Start(i) ==
    /\ phase[i] = "new"
    /\ phase' = [phase EXCEPT ![i] = "running"]
    /\ \/ /\ Mode[i] = "read-only"
          /\ UNCHANGED <<calls, isLeader, pythonProcess, live>>
       \/ /\ Mode[i] = "assumed"
          /\ isLeader' = [isLeader EXCEPT ![i] = TRUE]
          /\ SpawnPython(i)
          /\ UNCHANGED calls
       \/ /\ Mode[i] = "election"
          /\ Issue(i, "start")
          /\ UNCHANGED <<isLeader, pythonProcess, live>>
    /\ UNCHANGED <<lock, heartbeatTimer, standbyTimer, leaked, terminating,
                   awaited, restarts, faults>>

StartGranted(i) ==
    /\ Up(i) /\ InFlight(i, "startGranted")
    /\ PromoteToLeader(i, "startGranted")

(* enterStandby up to its await; it issues the read of the current leader.  *)
StartRefused(i) ==
    /\ Up(i) /\ InFlight(i, "startRefused")
    /\ IF Stopped(i)
       THEN Finish(i, "startRefused") /\ UNCHANGED <<isLeader, heartbeatTimer, standbyTimer>>
       ELSE /\ Become(i, "startRefused", "look")
            /\ isLeader' = [isLeader EXCEPT ![i] = FALSE]
            /\ ClearTimers(i)
    /\ UNCHANGED <<lock, leaked, phase, pythonVars, faults>>

(* The rest of enterStandby; startStandbyPolling overwrites standbyTimer.   *)
LookReturns(i) ==
    /\ Up(i) /\ InFlight(i, "look")
    /\ Finish(i, "look")
    /\ IF Stopped(i)
       THEN UNCHANGED <<standbyTimer, leaked>>
       ELSE /\ standbyTimer' = [standbyTimer EXCEPT ![i] = TRUE]
            /\ leaked' = [leaked EXCEPT ![i] = IF standbyTimer[i] THEN @ + 1 ELSE @]
    /\ UNCHANGED <<lock, isLeader, heartbeatTimer, phase, pythonVars, faults>>

(* The standby interval; a tick may come while earlier ones await.          *)
StandbyTick(i) ==
    /\ Electing(i) /\ (standbyTimer[i] \/ leaked[i] > 0)
    /\ calls[i]["poll"] + calls[i]["pollGranted"] < MaxInFlight[i]
    /\ Issue(i, "poll")
    /\ UNCHANGED <<lock, isLeader, heartbeatTimer, standbyTimer, leaked, phase, pythonVars, faults>>

PollGranted(i) ==
    /\ Up(i) /\ InFlight(i, "pollGranted")
    /\ PromoteToLeader(i, "pollGranted")

BeatsInFlight(i) == calls[i]["beat"] + calls[i]["beatLost"] + calls[i]["beatFailed"]

HeartbeatTick(i) ==
    /\ Electing(i) /\ heartbeatTimer[i]
    /\ BeatsInFlight(i) < MaxInFlight[i]
    /\ leaked[i] + calls[i]["look"] + BeatsInFlight(i) <= MaxLeaked
    /\ Issue(i, "beat")
    /\ UNCHANGED <<lock, isLeader, heartbeatTimer, standbyTimer, leaked, phase, pythonVars, faults>>

(* The heartbeat's two ways out of leadership.  Only the error branch asks  *)
(* whether the instance still leads.                                        *)
StepDown(i, k) ==
    /\ Become(i, k, "look")
    /\ isLeader' = [isLeader EXCEPT ![i] = FALSE]
    /\ ClearTimers(i)
    /\ LoseLeadership(i)
    /\ UNCHANGED <<lock, leaked, phase, awaited, restarts, faults>>

Ignore(i, k) ==
    /\ Finish(i, k)
    /\ UNCHANGED <<lock, isLeader, heartbeatTimer, standbyTimer, leaked, phase, pythonVars, faults>>

BeatLost(i) ==
    /\ Up(i) /\ InFlight(i, "beatLost")
    /\ IF Stopped(i) THEN Ignore(i, "beatLost") ELSE StepDown(i, "beatLost")

BeatFailed(i) ==
    /\ Up(i) /\ InFlight(i, "beatFailed")
    /\ IF Stopped(i) \/ ~isLeader[i] THEN Ignore(i, "beatFailed") ELSE StepDown(i, "beatFailed")

-----------------------------------------------------------------------------
(* SurrealDB executes the calls, in any order, also those of a replica that *)
(* has gone.  A call that fails may still have taken effect.                *)
Granted(i) == [holder |-> i, fresh |-> TRUE]
(* Mutants: the age comparison reversed; a stale lock is kept. *)
AvailableWhileFresh(i) == lock.holder \in {Null, i} \/ lock.fresh
AvailableUnlessHeld(i) == lock.holder \in {Null, i}

Available(i) == lock.holder \in {Null, i} \/ ~lock.fresh
Renewed(i) == IF lock.holder = i THEN [lock EXCEPT !.fresh = TRUE] ELSE lock
Deleted(i) == IF lock.holder = i THEN [holder |-> Null, fresh |-> FALSE] ELSE lock

Answered(i) ==
    UNCHANGED <<isLeader, heartbeatTimer, standbyTimer, leaked, phase, pythonVars>>

(* The conditional UPSERT of tryAcquireLock, sent by start().               *)
StartExecutes(i) ==
    /\ InFlight(i, "start")
    /\ \/ Available(i) /\ lock' = Granted(i) /\ Become(i, "start", "startGranted")
       \/ ~Available(i) /\ UNCHANGED lock /\ Become(i, "start", "startRefused")
    /\ Answered(i) /\ UNCHANGED faults

StartFails(i) ==
    /\ InFlight(i, "start") /\ Fault
    /\ UNCHANGED lock \/ (Available(i) /\ lock' = Granted(i))
    /\ Become(i, "start", "startRefused")
    /\ Answered(i)

(* The same UPSERT sent by a standby tick: a refusal changes nothing.       *)
PollExecutes(i) ==
    /\ InFlight(i, "poll")
    /\ \/ Available(i) /\ lock' = Granted(i) /\ Become(i, "poll", "pollGranted")
       \/ ~Available(i) /\ UNCHANGED lock /\ Finish(i, "poll")
    /\ Answered(i) /\ UNCHANGED faults

PollFails(i) ==
    /\ InFlight(i, "poll") /\ Fault
    /\ UNCHANGED lock \/ (Available(i) /\ lock' = Granted(i))
    /\ Finish(i, "poll")
    /\ Answered(i)

(* Mutant: the heartbeat's UPDATE without its WHERE. *)
BeatAnyHolder(i) ==
    /\ InFlight(i, "beat")
    /\ lock' = [lock EXCEPT !.fresh = TRUE]
    /\ Finish(i, "beat")
    /\ Answered(i) /\ UNCHANGED faults

(* UPDATE ... SET heartbeat = time::now() WHERE holder = $id.               *)
BeatExecutes(i) ==
    /\ InFlight(i, "beat")
    /\ lock' = Renewed(i)
    /\ IF lock.holder = i THEN Finish(i, "beat") ELSE Become(i, "beat", "beatLost")
    /\ Answered(i) /\ UNCHANGED faults

BeatFails(i) ==
    /\ InFlight(i, "beat") /\ Fault
    /\ lock' \in {lock, Renewed(i)}
    /\ Become(i, "beat", "beatFailed")
    /\ Answered(i)

(* releaseLock: DELETE ... WHERE holder = $id; an error is only logged.     *)
ReleaseExecutes(i) ==
    /\ InFlight(i, "release")
    /\ lock' = Deleted(i)
    /\ Become(i, "release", "released")
    /\ Answered(i) /\ UNCHANGED faults

ReleaseFails(i) ==
    /\ InFlight(i, "release") /\ Fault
    /\ lock' \in {lock, Deleted(i)}
    /\ Become(i, "release", "released")
    /\ Answered(i)

(* A leader, or an instance about to process its granted lock.              *)
Renewing(i) ==
    Electing(i) /\ (isLeader[i] \/ InFlight(i, "startGranted") \/ InFlight(i, "pollGranted"))

(* The TTL passes without a heartbeat.                                      *)
Lapse ==
    /\ lock.holder # Null /\ lock.fresh
    /\ Punctual => ~Renewing(lock.holder)
    /\ lock' = [lock EXCEPT !.fresh = FALSE]
    /\ UNCHANGED <<calls, isLeader, heartbeatTimer, standbyTimer, leaked, phase, pythonVars, faults>>

-----------------------------------------------------------------------------
(* Mutant: the exit handler does not schedule a restart. *)
PythonExitsForGood(i, p) ==
    /\ \/ p \in live[i] /\ Fault
       \/ p \in terminating[i] /\ UNCHANGED faults
    /\ live' = [live EXCEPT ![i] = @ \ {p}]
    /\ terminating' = [terminating EXCEPT ![i] = @ \ {p}]
    /\ pythonProcess' = [pythonProcess EXCEPT ![i] = IF @ = p THEN Null ELSE @]
    /\ UNCHANGED <<restarts, electionVars, phase, awaited>>

(* A Python process exits: by itself (a fault) or because it was told to.   *)
(* The exit handler restarts it only for a leader, after a backoff.         *)
PythonExits(i, p) ==
    /\ \/ p \in live[i] /\ Fault
       \/ p \in terminating[i] /\ UNCHANGED faults
    /\ live' = [live EXCEPT ![i] = @ \ {p}]
    /\ terminating' = [terminating EXCEPT ![i] = @ \ {p}]
    /\ IF phase[i] = "running" /\ pythonProcess[i] = p
       THEN /\ pythonProcess' = [pythonProcess EXCEPT ![i] = Null]
            /\ isLeader[i] => restarts[i] < MaxRestarts
            /\ restarts' = [restarts EXCEPT ![i] = IF isLeader[i] THEN @ + 1 ELSE @]
       ELSE UNCHANGED <<pythonProcess, restarts>>
    /\ UNCHANGED <<electionVars, phase, awaited>>

RestartFires(i) ==
    /\ Up(i) /\ restarts[i] > 0
    /\ restarts' = [restarts EXCEPT ![i] = @ - 1]
    /\ IF ~ShuttingDown(i) /\ pythonProcess[i] = Null /\ isLeader[i]
       THEN SpawnPython(i)
       ELSE UNCHANGED <<pythonProcess, live>>
    /\ UNCHANGED <<electionVars, phase, terminating, awaited, faults>>

(* LeaderElection.stop up to its await.                                     *)
StopElection(i) ==
    /\ ClearTimers(i)
    /\ IF isLeader[i]
       THEN phase' = [phase EXCEPT ![i] = "releasing"] /\ Issue(i, "release")
       ELSE phase' = [phase EXCEPT ![i] = "closing"] /\ UNCHANGED calls

(* SIGTERM or SIGINT: shutdown() stops Python before the election.          *)
Shutdown(i) ==
    /\ phase[i] = "running"
    /\ IF pythonProcess[i] = Null
       THEN StopElection(i) /\ UNCHANGED <<live, terminating, awaited>>
       ELSE /\ phase' = [phase EXCEPT ![i] = "draining"]
            /\ awaited' = [awaited EXCEPT ![i] = pythonProcess[i]]
            /\ live' = [live EXCEPT ![i] = @ \ {pythonProcess[i]}]
            /\ terminating' = [terminating EXCEPT ![i] = @ \cup {pythonProcess[i]}]
            /\ UNCHANGED <<calls, heartbeatTimer, standbyTimer>>
    /\ UNCHANGED <<lock, isLeader, leaked, pythonProcess, restarts, faults>>

(* Mutant: waits for pythonProcess to be cleared, which the exit handler     *)
(* does not do during a shutdown.                                            *)
AwaitedCleared(i) ==
    /\ phase[i] = "draining" /\ pythonProcess[i] = Null
    /\ StopElection(i)
    /\ UNCHANGED <<lock, isLeader, leaked, pythonProcess, live, terminating, awaited, restarts, faults>>

AwaitedExits(i) ==
    /\ phase[i] = "draining"
    /\ awaited[i] \notin live[i] \cup terminating[i]
    /\ pythonProcess' = [pythonProcess EXCEPT ![i] = Null]
    /\ StopElection(i)
    /\ UNCHANGED <<lock, isLeader, leaked, live, terminating, awaited, restarts, faults>>

ReleaseReturns(i) ==
    /\ Up(i) /\ InFlight(i, "released")
    /\ Finish(i, "released")
    /\ isLeader' = [isLeader EXCEPT ![i] = FALSE]
    /\ phase' = [phase EXCEPT ![i] = "closing"]
    /\ UNCHANGED <<lock, heartbeatTimer, standbyTimer, leaked, pythonVars, faults>>

(* The process ends; its children are not told, and may or may not survive. *)
Leave(i) ==
    /\ phase' = [phase EXCEPT ![i] = "gone"]
    /\ isLeader' = [isLeader EXCEPT ![i] = FALSE]
    /\ ClearTimers(i)
    /\ \/ UNCHANGED <<live, terminating>>
       \/ live' = [live EXCEPT ![i] = {}] /\ terminating' = [terminating EXCEPT ![i] = {}]
    /\ UNCHANGED <<lock, calls, leaked, pythonProcess, awaited, restarts>>

Exit(i) == phase[i] = "closing" /\ Leave(i) /\ UNCHANGED faults
Crash(i) == Up(i) /\ Fault /\ Leave(i)

-----------------------------------------------------------------------------
Continues(i) ==
    \/ StartGranted(i) \/ StartRefused(i) \/ LookReturns(i) \/ PollGranted(i)
    \/ BeatLost(i) \/ BeatFailed(i) \/ ReleaseReturns(i)

Ticks(i) == StandbyTick(i) \/ HeartbeatTick(i) \/ RestartFires(i)

DatabaseExecutes(i) ==
    \/ StartExecutes(i) \/ PollExecutes(i) \/ BeatExecutes(i) \/ ReleaseExecutes(i)

DatabaseFails(i) ==
    \/ StartFails(i) \/ PollFails(i) \/ BeatFails(i) \/ ReleaseFails(i)

Next ==
    \/ \E i \in Instance :
        \/ Start(i) \/ Continues(i) \/ Ticks(i)
        \/ DatabaseExecutes(i) \/ DatabaseFails(i)
        \/ \E p \in Pid : PythonExits(i, p)
        \/ Shutdown(i) \/ AwaitedExits(i) \/ Exit(i) \/ Crash(i)
    \/ Lapse

Spec == Init /\ [][Next]_vars

(* Intervals keep ticking, the database keeps answering, handlers run and   *)
(* signalled processes exit (SIGKILL after 10 s).  Only a lease nobody      *)
(* renews is bound to run out.  Nothing is assumed of starts, signals,      *)
(* crashes and failures.                                                    *)
LapseUnattended == Lapse /\ ~Renewing(lock.holder)

Fairness ==
    /\ WF_vars(LapseUnattended)
    /\ \A i \in Instance :
        /\ WF_vars(StartGranted(i)) /\ WF_vars(StartRefused(i)) /\ WF_vars(LookReturns(i))
        /\ WF_vars(PollGranted(i)) /\ WF_vars(BeatLost(i)) /\ WF_vars(BeatFailed(i))
        /\ WF_vars(ReleaseReturns(i)) /\ WF_vars(StandbyTick(i)) /\ WF_vars(HeartbeatTick(i))
        /\ WF_vars(RestartFires(i)) /\ WF_vars(StartExecutes(i)) /\ WF_vars(PollExecutes(i))
        /\ WF_vars(BeatExecutes(i)) /\ WF_vars(ReleaseExecutes(i))
        /\ WF_vars(AwaitedExits(i)) /\ WF_vars(Exit(i))
        /\ \A p \in Pid : WF_vars(p \in terminating[i] /\ PythonExits(i, p))

FairSpec == Spec /\ Fairness

-----------------------------------------------------------------------------
(* Safety.                                                                  *)

(* Nobody falls out of the election: a running replica that does not lead   *)
(* has a standby interval, or is in a handler that leads to one or to the   *)
(* leadership (clearTimers, enterStandby and their awaits); and it renews   *)
(* the lease exactly while it leads, so that no interval of an earlier term *)
(* survives to renew or to depose a later one.                              *)
NeverAbandoned ==
    \A i \in Instance : Mode[i] = "election" =>
        /\ Electing(i) /\ ~isLeader[i] =>
            \/ standbyTimer[i] \/ InFlight(i, "look")
            \/ \E k \in {"start", "startGranted", "startRefused"} : InFlight(i, k)
        /\ heartbeatTimer[i] <=> isLeader[i] /\ ~Stopped(i)

(* A leader has its Python ingester, or a timer that will restart it, and   *)
(* the process that bun-entry tracks lives and is a leader's.               *)
LeaderIngests ==
    \A i \in Instance : phase[i] = "running" =>
        /\ isLeader[i] => pythonProcess[i] # Null \/ restarts[i] > 0
        /\ pythonProcess[i] # Null => isLeader[i] /\ pythonProcess[i] \in live[i]

(* Both, for a replica of each mode: while a replica runs it either leads   *)
(* and ingests, or is on its way to one or the other (LeaderElection and    *)
(* the callbacks of bun-entry.ts).                                          *)
ElectionGoesOn == NeverAbandoned /\ LeaderIngests

(* If ticks of one interval never overlap, no ingester escapes: a running   *)
(* replica has no process that ingests other than the one it can stop.      *)
NoOrphan ==
    \A i \in Instance : phase[i] = "running" => live[i] \subseteq {pythonProcess[i]}

(* While heartbeats arrive in time, whoever leads holds the lock, so that   *)
(* at most one replica leads.                                               *)
Leads(i) == Mode[i] = "election" /\ Electing(i) /\ isLeader[i]
LeaderHoldsLock == \A i \in Instance : Leads(i) => lock.holder = i

(* Why: whoever leads, or has the grant to, holds a fresh lock; a replica   *)
(* that has not started has nothing in flight, and only a stopped one       *)
(* releases.  This is inductive.                                            *)
LockInv ==
    \A i \in Instance :
        /\ Mode[i] = "election" /\ Renewing(i) => lock = Granted(i)
        /\ phase[i] = "new" => ~isLeader[i] /\ \A k \in Call : calls[i][k] = 0
        /\ InFlight(i, "release") => Stopped(i)

(* The same promise as an abstract specification.                           *)
Leaders == {i \in Instance : Leads(i)}
Lease == INSTANCE SingleLeader WITH leaders <- Leaders
LeaseSpec == Lease!Spec

(* At most one replica has a process that ingests, among those still able   *)
(* to stop it.                                                              *)
OneIngester ==
    \A i, j \in Instance : i # j /\ Electing(i) /\ Electing(j) => live[i] = {} \/ live[j] = {}

(* Liveness.                                                                *)

(* As long as a replica takes part, somebody leads sooner or later, however *)
(* the previous leader went.                                                *)
Failover ==
    \A i \in Instance : (phase[i] = "running" /\ Mode[i] = "election") ~>
        (phase[i] # "running" \/ \E j \in Instance : Electing(j) /\ isLeader[j])

(* A leader that lost the lock to another replica finds out.                *)
DeposedStepsDown ==
    \A i \in Instance : (Leads(i) /\ lock.holder # i) ~> (~Leads(i) \/ lock.holder = i)

(* A shutdown that began ends.                                              *)
ShutdownCompletes ==
    \A i \in Instance : ShuttingDown(i) ~> phase[i] = "gone"

-----------------------------------------------------------------------------
(* What the documentation says and the code does not keep.                  *)

(* "only one of them will actively ingest events at a time": in particular  *)
(* one replica does not run two ingesters.                                  *)
OneIngesterPerReplica == \A i \in Instance : phase[i] = "running" => Cardinality(live[i]) <= 1
=============================================================================
