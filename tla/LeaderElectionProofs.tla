------------------------ MODULE LeaderElectionProofs ------------------------
(* Theorems about LeaderElection for every set of replicas, every mode and  *)
(* every bound, with the proofs.                                            *)
EXTENDS LeaderElection, TLAPS

(* What the helper actions do to the counters of calls in flight.           *)
LEMMA IssueType ==
    ASSUME TypeOK, NEW i \in Instance, NEW k \in Call, Issue(i, k)
    PROVE  calls' \in [Instance -> [Call -> Nat]]
BY DEF TypeOK, Issue

LEMMA FinishType ==
    ASSUME TypeOK, NEW i \in Instance, NEW k \in Call, InFlight(i, k), Finish(i, k)
    PROVE  calls' \in [Instance -> [Call -> Nat]]
BY DEF TypeOK, Finish, InFlight

LEMMA BecomeType ==
    ASSUME TypeOK, NEW i \in Instance, NEW k \in Call, NEW l \in Call \ {k},
           InFlight(i, k), Become(i, k, l)
    PROVE  calls' \in [Instance -> [Call -> Nat]]
<1>1. calls[i][k] \in Nat /\ calls[i][k] - 1 \in Nat /\ calls[i][l] + 1 \in Nat
  BY DEF TypeOK, InFlight
<1>2. [calls[i] EXCEPT ![k] = @ - 1, ![l] = @ + 1] \in [Call -> Nat]
  BY <1>1 DEF TypeOK
<1> QED BY <1>1, <1>2 DEF TypeOK, Become

LEMMA PromoteType ==
    ASSUME TypeOK, NEW i \in Instance, NEW k \in Call, InFlight(i, k), PromoteToLeader(i, k)
    PROVE  TypeOK'
<1>1. calls' \in [Instance -> [Call -> Nat]]
  BY FinishType DEF PromoteToLeader
<1>2. CASE Stopped(i)
  BY <1>1, <1>2 DEF TypeOK, PromoteToLeader
<1>3. CASE ~Stopped(i)
  <2>1. PICK p \in Pid : /\ pythonProcess' = [pythonProcess EXCEPT ![i] = p]
                         /\ live' = [live EXCEPT ![i] = @ \cup {p}]
    BY <1>3 DEF PromoteToLeader, SpawnPython
  <2>2. live' \in [Instance -> SUBSET Pid] /\ pythonProcess' \in [Instance -> Pid \cup {Null}]
    BY <2>1 DEF TypeOK
  <2> QED BY <1>1, <1>3, <2>2 DEF TypeOK, PromoteToLeader
<1> QED BY <1>2, <1>3

LEMMA StepDownType ==
    ASSUME TypeOK, NEW i \in Instance, NEW k \in {"beatLost", "beatFailed"},
           InFlight(i, k), StepDown(i, k) \/ Ignore(i, k)
    PROVE  TypeOK'
<1>1. calls' \in [Instance -> [Call -> Nat]]
  <2>1. k \in Call /\ "look" \in Call \ {k}
    BY DEF Call
  <2>2. CASE StepDown(i, k)
    BY <2>1, <2>2, BecomeType DEF StepDown
  <2>3. CASE Ignore(i, k)
    BY <2>1, <2>3, FinishType DEF Ignore
  <2> QED BY <2>2, <2>3
<1>2. CASE StepDown(i, k)
  BY <1>1, <1>2 DEF TypeOK, StepDown, ClearTimers, LoseLeadership
<1>3. CASE Ignore(i, k)
  BY <1>1, <1>3 DEF TypeOK, Ignore, pythonVars
<1> QED BY <1>2, <1>3

(* The database's actions only touch the lock, the calls and the faults.    *)
LEMMA LockType ==
    ASSUME TypeOK, NEW i \in Instance
    PROVE  {Granted(i), Renewed(i), Deleted(i)}
               \subseteq [holder : Instance \cup {Null}, fresh : BOOLEAN]
<1>1. lock \in [holder : Instance \cup {Null}, fresh : BOOLEAN]
  BY DEF TypeOK
<1>2. Granted(i) \in [holder : Instance \cup {Null}, fresh : BOOLEAN]
  BY DEF Granted
<1>3. Renewed(i) \in [holder : Instance \cup {Null}, fresh : BOOLEAN]
  BY <1>1 DEF Renewed
<1>4. Deleted(i) \in [holder : Instance \cup {Null}, fresh : BOOLEAN]
  BY <1>1 DEF Deleted
<1> QED BY <1>2, <1>3, <1>4

LEMMA DatabaseType ==
    ASSUME TypeOK, NEW i \in Instance, DatabaseExecutes(i) \/ DatabaseFails(i)
    PROVE  TypeOK'
<1> USE DEF Answered, pythonVars, Call
<1>1. CASE StartExecutes(i)
  <2>1. calls' \in [Instance -> [Call -> Nat]]
    BY <1>1, BecomeType DEF StartExecutes
  <2> QED BY <1>1, <2>1, LockType DEF TypeOK, StartExecutes
<1>2. CASE StartFails(i)
  <2>1. calls' \in [Instance -> [Call -> Nat]]
    BY <1>2, BecomeType DEF StartFails
  <2> QED BY <1>2, <2>1, LockType DEF TypeOK, StartFails, Fault
<1>3. CASE PollExecutes(i)
  <2>1. calls' \in [Instance -> [Call -> Nat]]
    BY <1>3, BecomeType, FinishType DEF PollExecutes
  <2> QED BY <1>3, <2>1, LockType DEF TypeOK, PollExecutes
<1>4. CASE PollFails(i)
  <2>1. calls' \in [Instance -> [Call -> Nat]]
    BY <1>4, FinishType DEF PollFails
  <2> QED BY <1>4, <2>1, LockType DEF TypeOK, PollFails, Fault
<1>5. CASE BeatExecutes(i)
  <2>1. calls' \in [Instance -> [Call -> Nat]]
    BY <1>5, BecomeType, FinishType DEF BeatExecutes
  <2> QED BY <1>5, <2>1, LockType DEF TypeOK, BeatExecutes
<1>6. CASE BeatFails(i)
  <2>1. calls' \in [Instance -> [Call -> Nat]]
    BY <1>6, BecomeType DEF BeatFails
  <2> QED BY <1>6, <2>1, LockType DEF TypeOK, BeatFails, Fault
<1>7. CASE ReleaseExecutes(i)
  <2>1. calls' \in [Instance -> [Call -> Nat]]
    BY <1>7, BecomeType DEF ReleaseExecutes
  <2> QED BY <1>7, <2>1, LockType DEF TypeOK, ReleaseExecutes
<1>8. CASE ReleaseFails(i)
  <2>1. calls' \in [Instance -> [Call -> Nat]]
    BY <1>8, BecomeType DEF ReleaseFails
  <2> QED BY <1>8, <2>1, LockType DEF TypeOK, ReleaseFails, Fault
<1> QED BY <1>1, <1>2, <1>3, <1>4, <1>5, <1>6, <1>7, <1>8 DEF DatabaseExecutes, DatabaseFails

(* SpawnPython, for the actions that do nothing else to the processes.      *)
LEMMA SpawnType ==
    ASSUME TypeOK, NEW i \in Instance, SpawnPython(i)
    PROVE  /\ live' \in [Instance -> SUBSET Pid]
           /\ pythonProcess' \in [Instance -> Pid \cup {Null}]
<1>1. PICK p \in Pid : /\ pythonProcess' = [pythonProcess EXCEPT ![i] = p]
                       /\ live' = [live EXCEPT ![i] = @ \cup {p}]
  BY DEF SpawnPython
<1> QED BY <1>1 DEF TypeOK

LEMMA TimerType ==
    ASSUME TypeOK, NEW i \in Instance,
           Start(i) \/ StartRefused(i) \/ LookReturns(i) \/ StandbyTick(i)
           \/ HeartbeatTick(i) \/ RestartFires(i)
    PROVE  TypeOK'
<1> USE DEF Call
<1>1. CASE Start(i)
  <2>1. calls' \in [Instance -> [Call -> Nat]]
    BY <1>1, IssueType DEF Start, TypeOK
  <2>2. live' \in [Instance -> SUBSET Pid] /\ pythonProcess' \in [Instance -> Pid \cup {Null}]
    BY <1>1, SpawnType DEF Start, TypeOK
  <2>3. phase' \in [Instance -> Phase] /\ isLeader' \in [Instance -> BOOLEAN]
    BY <1>1 DEF Start, TypeOK, Phase
  <2> QED BY <1>1, <2>1, <2>2, <2>3 DEF TypeOK, Start
<1>2. CASE StartRefused(i)
  <2>1. calls' \in [Instance -> [Call -> Nat]]
    BY <1>2, BecomeType, FinishType DEF StartRefused
  <2> QED BY <1>2, <2>1 DEF TypeOK, StartRefused, ClearTimers, pythonVars
<1>3. CASE LookReturns(i)
  <2>1. calls' \in [Instance -> [Call -> Nat]]
    BY <1>3, FinishType DEF LookReturns
  <2>2. standbyTimer' \in [Instance -> BOOLEAN] /\ leaked' \in [Instance -> Nat]
    <3>1. leaked[i] \in Nat /\ leaked[i] + 1 \in Nat
      BY DEF TypeOK
    <3>2. leaked' \in [Instance -> Nat]
      BY <1>3, <3>1 DEF TypeOK, LookReturns
    <3>3. standbyTimer' \in [Instance -> BOOLEAN]
      BY <1>3 DEF TypeOK, LookReturns
    <3> QED BY <3>2, <3>3
  <2> QED BY <1>3, <2>1, <2>2 DEF TypeOK, LookReturns, pythonVars
<1>4. CASE StandbyTick(i)
  <2>1. calls' \in [Instance -> [Call -> Nat]]
    BY <1>4, IssueType DEF StandbyTick
  <2> QED BY <1>4, <2>1 DEF TypeOK, StandbyTick, pythonVars
<1>5. CASE HeartbeatTick(i)
  <2>1. calls' \in [Instance -> [Call -> Nat]]
    BY <1>5, IssueType DEF HeartbeatTick
  <2> QED BY <1>5, <2>1 DEF TypeOK, HeartbeatTick, pythonVars
<1>6. CASE RestartFires(i)
  <2>1. live' \in [Instance -> SUBSET Pid] /\ pythonProcess' \in [Instance -> Pid \cup {Null}]
    BY <1>6, SpawnType DEF RestartFires, TypeOK
  <2>2. restarts' \in [Instance -> Nat]
    <3>1. restarts[i] \in Nat /\ restarts[i] > 0
      BY <1>6 DEF TypeOK, RestartFires
    <3> QED BY <1>6, <3>1 DEF TypeOK, RestartFires
  <2> QED BY <1>6, <2>1, <2>2 DEF TypeOK, RestartFires, electionVars
<1> QED BY <1>1, <1>2, <1>3, <1>4, <1>5, <1>6

LEMMA EndingType ==
    ASSUME TypeOK, NEW i \in Instance,
           Shutdown(i) \/ AwaitedExits(i) \/ ReleaseReturns(i) \/ Exit(i) \/ Crash(i)
    PROVE  TypeOK'
<1> USE DEF Call, Phase
<1>1. ASSUME StopElection(i)
      PROVE  /\ calls' \in [Instance -> [Call -> Nat]]
             /\ phase' \in [Instance -> Phase]
             /\ heartbeatTimer' \in [Instance -> BOOLEAN]
             /\ standbyTimer' \in [Instance -> BOOLEAN]
  BY <1>1, IssueType DEF StopElection, ClearTimers, TypeOK
<1>2. CASE Shutdown(i)
  <2>1. CASE pythonProcess[i] = Null
    <3>1. StopElection(i) /\ UNCHANGED <<live, terminating, awaited>>
      BY <1>2, <2>1 DEF Shutdown
    <3> QED BY <1>1, <1>2, <3>1 DEF TypeOK, Shutdown
  <2>2. CASE pythonProcess[i] # Null
    <3>1. pythonProcess[i] \in Pid
      BY <2>2 DEF TypeOK
    <3>a. /\ phase' = [phase EXCEPT ![i] = "draining"]
          /\ awaited' = [awaited EXCEPT ![i] = pythonProcess[i]]
          /\ live' = [live EXCEPT ![i] = @ \ {pythonProcess[i]}]
          /\ terminating' = [terminating EXCEPT ![i] = @ \cup {pythonProcess[i]}]
      BY <1>2, <2>2 DEF Shutdown
    <3>b. live' \in [Instance -> SUBSET Pid]
      BY <3>a DEF TypeOK
    <3>c. terminating' \in [Instance -> SUBSET Pid]
      BY <3>1, <3>a DEF TypeOK
    <3>2. /\ phase' \in [Instance -> Phase]
          /\ awaited' \in [Instance -> Pid \cup {Null}]
          /\ live' \in [Instance -> SUBSET Pid]
          /\ terminating' \in [Instance -> SUBSET Pid]
      BY <3>1, <3>a, <3>b, <3>c DEF TypeOK
    <3>3. UNCHANGED <<calls, heartbeatTimer, standbyTimer, lock, isLeader, leaked,
                      pythonProcess, restarts, faults>>
      BY <1>2, <2>2 DEF Shutdown
    <3> QED BY <3>2, <3>3 DEF TypeOK
  <2> QED BY <2>1, <2>2
<1>3. CASE AwaitedExits(i)
  BY <1>1, <1>3 DEF TypeOK, AwaitedExits
<1>4. CASE ReleaseReturns(i)
  <2>1. calls' \in [Instance -> [Call -> Nat]]
    BY <1>4, FinishType DEF ReleaseReturns
  <2> QED BY <1>4, <2>1 DEF TypeOK, ReleaseReturns, pythonVars
<1>5. ASSUME Leave(i), faults' \in Nat
      PROVE  TypeOK'
  BY <1>5 DEF TypeOK, Leave, ClearTimers
<1>6. CASE Exit(i)
  BY <1>5, <1>6 DEF Exit, TypeOK
<1>7. CASE Crash(i)
  BY <1>5, <1>7 DEF Crash, Fault, TypeOK
<1> QED BY <1>2, <1>3, <1>4, <1>6, <1>7

LEMMA TypeStep == TypeOK /\ [Next]_vars => TypeOK'
<1> SUFFICES ASSUME TypeOK, [Next]_vars PROVE TypeOK'
  OBVIOUS
<1>1. ASSUME NEW i \in Instance, Continues(i)
      PROVE  TypeOK'
  <2> USE <1>1 DEF Call
  <2>1. CASE StartGranted(i)
    BY <2>1, PromoteType DEF StartGranted
  <2>2. CASE PollGranted(i)
    BY <2>2, PromoteType DEF PollGranted
  <2>3. CASE BeatLost(i)
    BY <2>3, StepDownType DEF BeatLost
  <2>4. CASE BeatFailed(i)
    BY <2>4, StepDownType DEF BeatFailed
  <2> QED BY <2>1, <2>2, <2>3, <2>4, TimerType, EndingType DEF Continues
<1>2. ASSUME NEW i \in Instance, NEW p \in Pid, PythonExits(i, p)
      PROVE  TypeOK'
  BY <1>2 DEF TypeOK, PythonExits, Fault, electionVars
<1>3. CASE Lapse
  BY <1>3 DEF TypeOK, Lapse, pythonVars
<1>4. CASE UNCHANGED vars
  BY <1>4 DEF TypeOK, vars, electionVars, pythonVars
<1> QED BY <1>1, <1>2, <1>3, <1>4, TimerType, DatabaseType, EndingType DEF Next, Ticks

(* Every variable keeps its type, whatever the bounds.                      *)
THEOREM TypeCorrect == Spec => []TypeOK
<1>1. Init => TypeOK
  BY DEF Init, TypeOK, Phase
<1> QED BY <1>1, TypeStep, PTL DEF Spec

-----------------------------------------------------------------------------
(* The lock under punctual heartbeats.                                      *)

LEMMA LockInit == Init => LockInv
BY DEF Init, LockInv, Renewing, Electing, Up, InFlight, Call

(* A step of replica i leaves what the invariant says of the others alone   *)
(* as long as it does not take their lock.                                  *)
LEMMA OthersKeep ==
    ASSUME LockInv, NEW i \in Instance, NEW j \in Instance \ {i},
           phase'[j] = phase[j], isLeader'[j] = isLeader[j], calls'[j] = calls[j],
           lock' = lock \/ (lock # Granted(j))
    PROVE  /\ Mode[j] = "election" /\ Renewing(j)' => lock' = Granted(j)
           /\ phase'[j] = "new" => ~isLeader'[j] /\ \A k \in Call : calls'[j][k] = 0
           /\ InFlight(j, "release")' => Stopped(j)'
BY DEF LockInv, Renewing, Electing, Up, Stopped, InFlight, Granted

(* The steps of one replica, its process exits and database calls included. *)
StepOf(i) ==
    \/ Start(i) \/ Continues(i) \/ Ticks(i)
    \/ DatabaseExecutes(i) \/ DatabaseFails(i)
    \/ \E p \in Pid : PythonExits(i, p)
    \/ Shutdown(i) \/ AwaitedExits(i) \/ Exit(i) \/ Crash(i)

LEMMA FrameCalls ==
    ASSUME TypeOK, NEW i \in Instance, NEW j \in Instance \ {i}, NEW k, NEW l,
           Issue(i, k) \/ Finish(i, k) \/ Become(i, k, l)
    PROVE  calls'[j] = calls[j]
BY DEF TypeOK, Issue, Finish, Become

LEMMA FramePhase ==
    ASSUME TypeOK, NEW i \in Instance, NEW j \in Instance \ {i}, StepOf(i)
    PROVE  phase'[j] = phase[j] /\ isLeader'[j] = isLeader[j]
<1> USE DEF TypeOK
<1>1. CASE Continues(i)
  BY <1>1 DEF Continues, StartGranted, PollGranted, PromoteToLeader, StartRefused, LookReturns,
              BeatLost, BeatFailed, StepDown, Ignore, ReleaseReturns
<1>2. CASE DatabaseExecutes(i) \/ DatabaseFails(i)
  BY <1>2 DEF DatabaseExecutes, DatabaseFails, Answered, StartExecutes, StartFails, PollExecutes,
              PollFails, BeatExecutes, BeatFails, ReleaseExecutes, ReleaseFails
<1>3. CASE Ticks(i) \/ \E p \in Pid : PythonExits(i, p)
  BY <1>3 DEF Ticks, StandbyTick, HeartbeatTick, RestartFires, PythonExits, electionVars
<1>4. CASE Start(i) \/ Shutdown(i) \/ AwaitedExits(i) \/ Exit(i) \/ Crash(i)
  BY <1>4 DEF Start, Shutdown, AwaitedExits, StopElection, Exit, Crash, Leave
<1> QED BY <1>1, <1>2, <1>3, <1>4 DEF StepOf

LEMMA FrameStep ==
    ASSUME TypeOK, NEW i \in Instance, NEW j \in Instance \ {i}, StepOf(i)
    PROVE  calls'[j] = calls[j]
<1>1. CASE Continues(i)
  BY <1>1, FrameCalls DEF Continues, StartGranted, PollGranted, PromoteToLeader, StartRefused,
              LookReturns, BeatLost, BeatFailed, StepDown, Ignore, ReleaseReturns
<1>2. CASE DatabaseExecutes(i) \/ DatabaseFails(i)
  BY <1>2, FrameCalls DEF DatabaseExecutes, DatabaseFails, StartExecutes, StartFails, PollExecutes,
              PollFails, BeatExecutes, BeatFails, ReleaseExecutes, ReleaseFails
<1>3. CASE Ticks(i) \/ \E p \in Pid : PythonExits(i, p)
  BY <1>3, FrameCalls DEF Ticks, StandbyTick, HeartbeatTick, RestartFires, PythonExits, electionVars
<1>4. CASE Start(i) \/ Shutdown(i) \/ AwaitedExits(i) \/ Exit(i) \/ Crash(i)
  BY <1>4, FrameCalls DEF Start, Shutdown, AwaitedExits, StopElection, Exit, Crash, Leave
<1> QED BY <1>1, <1>2, <1>3, <1>4 DEF StepOf

(* Only the database changes the lock, and never away from a fresh holder.  *)
LEMMA FrameLock ==
    ASSUME TypeOK, NEW i \in Instance, NEW j \in Instance \ {i}, StepOf(i)
    PROVE  lock' = lock \/ lock # Granted(j)
<1>1. CASE DatabaseExecutes(i) \/ DatabaseFails(i)
  <2>1. Available(i) => lock # Granted(j)
    BY ConstantsAssumption DEF Available, Granted
  <2>2. Renewed(i) = lock \/ lock # Granted(j)
    BY DEF Renewed, Granted
  <2>3. Deleted(i) = lock \/ lock # Granted(j)
    BY DEF Deleted, Granted
  <2>4. \/ lock' \in {lock, Renewed(i), Deleted(i)}
        \/ Available(i)
    BY <1>1 DEF DatabaseExecutes, DatabaseFails, StartExecutes, StartFails,
              PollExecutes, PollFails, BeatExecutes, BeatFails, ReleaseExecutes, ReleaseFails
  <2> QED BY <2>1, <2>2, <2>3, <2>4
<1>2. CASE Continues(i)
  BY <1>2 DEF Continues, StartGranted, PollGranted, PromoteToLeader, StartRefused, LookReturns,
              BeatLost, BeatFailed, StepDown, Ignore, ReleaseReturns
<1>3. CASE Ticks(i) \/ \E p \in Pid : PythonExits(i, p)
  BY <1>3 DEF Ticks, StandbyTick, HeartbeatTick, RestartFires, PythonExits, electionVars
<1>4. CASE Start(i) \/ Shutdown(i) \/ AwaitedExits(i) \/ Exit(i) \/ Crash(i)
  BY <1>4 DEF Start, Shutdown, AwaitedExits, Exit, Crash, Leave
<1> QED BY <1>1, <1>2, <1>3, <1>4 DEF StepOf

(* What the invariant says of i after its own steps.                        *)
OwnPart(i) ==
    /\ Mode[i] = "election" /\ Renewing(i) => lock = Granted(i)
    /\ phase[i] = "new" => ~isLeader[i] /\ \A k \in Call : calls[i][k] = 0
    /\ InFlight(i, "release") => Stopped(i)

(* The same after an answer of the database has reached i: a promotion needs *)
(* the grant, and only stop() issues a release.                             *)
LEMMA OwnContinues ==
    ASSUME TypeOK, LockInv, NEW i \in Instance, Continues(i)
    PROVE  OwnPart(i)'
<1> USE DEF TypeOK, Call
<1>0. OwnPart(i) /\ phase[i] # "new"
  BY DEF LockInv, OwnPart, Continues, StartGranted, PollGranted, StartRefused, LookReturns,
         BeatLost, BeatFailed, ReleaseReturns, Up
<1>1. CASE StartGranted(i) \/ PollGranted(i)
  <2>1. CASE Stopped(i)
    BY <1>0, <1>1, <2>1 DEF StartGranted, PollGranted, PromoteToLeader, Finish, OwnPart,
       Renewing, Electing, Up, Stopped, InFlight
  <2>2. CASE ~Stopped(i)
    <3>1. Renewing(i) /\ lock' = lock /\ phase' = phase
      BY <1>1, <2>2 DEF StartGranted, PollGranted, PromoteToLeader, Renewing, Electing
    <3>2. calls'[i]["release"] = calls[i]["release"]
      BY <1>1 DEF StartGranted, PollGranted, PromoteToLeader, Finish
    <3> QED BY <1>0, <3>1, <3>2 DEF OwnPart, Granted, Stopped, InFlight
  <2> QED BY <2>1, <2>2
<1>2. CASE StartRefused(i)
  BY <1>0, <1>2 DEF StartRefused, Finish, Become, OwnPart, Renewing, Electing, Up, Stopped,
     InFlight, Granted
<1>3. CASE LookReturns(i)
  <2>1. /\ UNCHANGED <<lock, phase, isLeader>>
        /\ \A k \in Call \ {"look"} : calls'[i][k] = calls[i][k]
    BY <1>3 DEF LookReturns, Finish
  <2> QED BY <1>0, <2>1 DEF OwnPart, Renewing, Electing, Up, Stopped, InFlight, Granted
<1>4. CASE BeatLost(i) \/ BeatFailed(i)
  <2>1. /\ UNCHANGED <<lock, phase>>
        /\ isLeader'[i] => isLeader[i]
        /\ \A k \in Call \ {"beatLost", "beatFailed", "look"} : calls'[i][k] = calls[i][k]
    BY <1>4 DEF BeatLost, BeatFailed, StepDown, Ignore, Finish, Become
  <2> QED BY <1>0, <2>1 DEF OwnPart, Renewing, Electing, Up, Stopped, InFlight, Granted
<1>5. CASE ReleaseReturns(i)
  BY <1>0, <1>5 DEF ReleaseReturns, Finish, OwnPart, Renewing, Electing, Up, Stopped, InFlight
<1> QED BY <1>1, <1>2, <1>3, <1>4, <1>5 DEF Continues

LEMMA OwnDatabase ==
    ASSUME TypeOK, LockInv, NEW i \in Instance, DatabaseExecutes(i) \/ DatabaseFails(i)
    PROVE  OwnPart(i)'
<1> USE DEF TypeOK, Call
<1>0. OwnPart(i) /\ phase' = phase /\ isLeader' = isLeader
  BY DEF LockInv, OwnPart, DatabaseExecutes, DatabaseFails, Answered, StartExecutes, StartFails,
     PollExecutes, PollFails, BeatExecutes, BeatFails, ReleaseExecutes, ReleaseFails
<1>1. phase[i] # "new"
  BY <1>0 DEF OwnPart, InFlight, DatabaseExecutes, DatabaseFails, StartExecutes, StartFails,
     PollExecutes, PollFails, BeatExecutes, BeatFails, ReleaseExecutes, ReleaseFails
<1>2. CASE StartExecutes(i) \/ PollExecutes(i)
  <2>1. calls'[i]["release"] = calls[i]["release"]
    BY <1>2 DEF StartExecutes, PollExecutes, Become, Finish
  <2>2. \/ lock' = Granted(i)
        \/ /\ lock' = lock
           /\ \A k \in {"startGranted", "pollGranted"} : calls'[i][k] = calls[i][k]
    BY <1>2 DEF StartExecutes, PollExecutes, Become, Finish
  <2> QED BY <1>0, <1>1, <2>1, <2>2 DEF OwnPart, Renewing, Electing, Up, Stopped, InFlight, Granted
<1>3. CASE StartFails(i) \/ PollFails(i)
  <2>1. lock' = lock \/ lock' = Granted(i)
    BY <1>3 DEF StartFails, PollFails
  <2>2. \A k \in {"startGranted", "pollGranted", "release"} : calls'[i][k] = calls[i][k]
    BY <1>3 DEF StartFails, PollFails, Become, Finish
  <2> QED BY <1>0, <1>1, <2>1, <2>2 DEF OwnPart, Renewing, Electing, Up, Stopped, InFlight, Granted
<1>4. CASE BeatExecutes(i) \/ BeatFails(i)
  <2>1. lock = Granted(i) => Renewed(i) = Granted(i)
    BY DEF Renewed, Granted
  <2>2. lock' \in {lock, Renewed(i)}
    BY <1>4 DEF BeatExecutes, BeatFails
  <2>3. \A k \in {"startGranted", "pollGranted", "release"} : calls'[i][k] = calls[i][k]
    BY <1>4 DEF BeatExecutes, BeatFails, Become, Finish
  <2> QED BY <1>0, <1>1, <2>1, <2>2, <2>3 DEF OwnPart, Renewing, Electing, Up, Stopped, InFlight
<1>5. CASE ReleaseExecutes(i) \/ ReleaseFails(i)
  <2>1. Stopped(i)
    BY <1>0, <1>5 DEF ReleaseExecutes, ReleaseFails, OwnPart
  <2> QED BY <1>0, <1>1, <2>1 DEF OwnPart, Renewing, Electing, Stopped
<1> QED BY <1>2, <1>3, <1>4, <1>5 DEF DatabaseExecutes, DatabaseFails

LEMMA OwnRest ==
    ASSUME TypeOK, LockInv, NEW i \in Instance,
           \/ Start(i) \/ Ticks(i) \/ (\E p \in Pid : PythonExits(i, p))
           \/ Shutdown(i) \/ AwaitedExits(i) \/ Exit(i) \/ Crash(i)
    PROVE  OwnPart(i)'
<1> USE DEF TypeOK, Call
<1>0. OwnPart(i)
  BY DEF LockInv, OwnPart
<1>1. CASE Start(i)
  BY <1>0, <1>1 DEF Start, Issue, OwnPart, Renewing, Electing, Up, Stopped, InFlight
<1>2. CASE StandbyTick(i) \/ HeartbeatTick(i)
  <2>1. /\ lock' = lock /\ phase' = phase /\ isLeader' = isLeader /\ phase[i] # "new"
        /\ \A k \in {"startGranted", "pollGranted", "release"} : calls'[i][k] = calls[i][k]
    BY <1>2 DEF StandbyTick, HeartbeatTick, Issue, Electing, Up
  <2> QED BY <1>0, <2>1 DEF OwnPart, Renewing, Electing, Up, Stopped, InFlight, Granted
<1>3. CASE RestartFires(i) \/ \E p \in Pid : PythonExits(i, p)
  BY <1>0, <1>3 DEF RestartFires, PythonExits, electionVars, OwnPart, Renewing, Electing, Up,
     Stopped, InFlight, Granted
<1>4. CASE Shutdown(i) \/ AwaitedExits(i)
  <2>1. CASE StopElection(i)
    BY <2>1 DEF StopElection, Issue, OwnPart, Renewing, Electing, Stopped
  <2>2. CASE ~StopElection(i)
    <3>1. /\ Shutdown(i) /\ calls' = calls /\ isLeader' = isLeader /\ lock' = lock
          /\ phase[i] = "running" /\ phase' = [phase EXCEPT ![i] = "draining"]
      BY <1>4, <2>2 DEF Shutdown, AwaitedExits
    <3> QED BY <1>0, <3>1 DEF OwnPart, Renewing, Electing, Up, Stopped, InFlight, Granted
  <2> QED BY <2>1, <2>2
<1>5. CASE Exit(i) \/ Crash(i)
  BY <1>5 DEF Exit, Crash, Leave, OwnPart, Renewing, Electing, Stopped
<1> QED BY <1>1, <1>2, <1>3, <1>4, <1>5 DEF Ticks

LEMMA LockStep ==
    ASSUME Punctual, TypeOK, LockInv, [Next]_vars
    PROVE  LockInv'
<1>1. ASSUME NEW i \in Instance, StepOf(i)
      PROVE  LockInv'
  <2>1. OwnPart(i)'
    BY <1>1, OwnContinues, OwnDatabase, OwnRest DEF StepOf
  <2>2. ASSUME NEW j \in Instance \ {i}
        PROVE  OwnPart(j)'
    BY <1>1, <2>2, FramePhase, FrameStep, FrameLock, OthersKeep DEF OwnPart
  <2> QED BY <2>1, <2>2 DEF LockInv, OwnPart
<1>2. CASE Lapse
  <2>1. ASSUME NEW i \in Instance, Mode[i] = "election"
        PROVE  ~Renewing(i)
    BY <1>2, <2>1, ConstantsAssumption DEF Lapse, LockInv, Granted
  <2> QED BY <1>2, <2>1 DEF Lapse, LockInv, Renewing, Electing, Up, Stopped, InFlight, Granted
<1>3. CASE UNCHANGED vars
  BY <1>3 DEF vars, electionVars, LockInv, Renewing, Electing, Up, Stopped, InFlight, Granted
<1> QED BY <1>1, <1>2, <1>3 DEF Next, StepOf

(* As long as heartbeats arrive within the TTL, a leader holds the lock.    *)
THEOREM LeaderHolds == ASSUME Punctual PROVE Spec => []LeaderHoldsLock
<1>1. TypeOK /\ LockInv /\ [Next]_vars => (TypeOK /\ LockInv)'
  BY TypeStep, LockStep
<1>2. Init => TypeOK /\ LockInv
  BY LockInit DEF Init, TypeOK, Phase
<1>3. LockInv => LeaderHoldsLock
  BY DEF LockInv, LeaderHoldsLock, Leads, Renewing, Granted
<1> QED BY <1>1, <1>2, <1>3, PTL DEF Spec

-----------------------------------------------------------------------------
(* The refinement of SingleLeader.                                          *)

(* Whoever is elected had the grant.                                        *)
LEMMA OwnElected ==
    ASSUME TypeOK, LockInv, NEW i \in Instance, StepOf(i), Leads(i)', ~Leads(i)
    PROVE  Renewing(i)
<1> USE DEF TypeOK, Leads
<1>1. CASE StartGranted(i) \/ PollGranted(i)
  BY <1>1 DEF StartGranted, PollGranted, PromoteToLeader, Renewing, Electing, Up, Stopped
<1>2. CASE StartRefused(i) \/ LookReturns(i) \/ BeatLost(i) \/ BeatFailed(i) \/ ReleaseReturns(i)
  BY <1>2 DEF StartRefused, LookReturns, BeatLost, BeatFailed, StepDown, Ignore, ReleaseReturns,
     Electing, Up, Stopped
<1>3. CASE DatabaseExecutes(i) \/ DatabaseFails(i)
  BY <1>3 DEF DatabaseExecutes, DatabaseFails, Answered, StartExecutes, StartFails, PollExecutes,
     PollFails, BeatExecutes, BeatFails, ReleaseExecutes, ReleaseFails, Electing, Up, Stopped
<1>4. CASE Ticks(i) \/ \E p \in Pid : PythonExits(i, p)
  BY <1>4 DEF Ticks, StandbyTick, HeartbeatTick, RestartFires, PythonExits, electionVars,
     Electing, Up, Stopped
<1>5. CASE Start(i)
  BY <1>5 DEF Start, LockInv
<1>6. CASE Shutdown(i) \/ AwaitedExits(i) \/ Exit(i) \/ Crash(i)
  BY <1>6 DEF Shutdown, AwaitedExits, StopElection, Exit, Crash, Leave, Electing, Up, Stopped
<1> QED BY <1>1, <1>2, <1>3, <1>4, <1>5, <1>6 DEF StepOf, Continues

(* A replica's step elects it, retires it or leaves the leaders alone.      *)
LEMMA LeaseStep ==
    ASSUME Punctual, TypeOK, LockInv, [Next]_vars
    PROVE  [Lease!Next]_Leaders
<1>1. ASSUME NEW i \in Instance, StepOf(i)
      PROVE  [Lease!Next]_Leaders
  <2>1. \A j \in Instance \ {i} : Leads(j)' = Leads(j)
    BY <1>1, FramePhase DEF Leads, Electing, Up, Stopped
  <2>2. CASE Leads(i)' /\ ~Leads(i)
    <3>1. Renewing(i) \/ Mode[i] # "election"
      BY <1>1, <2>2, OwnElected
    <3>2. \A j \in Instance : ~Leads(j)
      BY <2>2, <3>1, ConstantsAssumption DEF LockInv, Leads, Renewing, Granted
    <3>3. Leaders = {} /\ Leaders' = {i}
      BY <2>1, <2>2, <3>2 DEF Leaders
    <3> QED BY <3>3 DEF Lease!Next, Lease!Elect
  <2>3. CASE Leads(i) /\ ~Leads(i)'
    <3>1. i \in Leaders /\ Leaders' = Leaders \ {i}
      BY <2>1, <2>3 DEF Leaders
    <3> QED BY <3>1 DEF Lease!Next, Lease!Retire
  <2>4. CASE Leads(i)' = Leads(i)
    <3>1. Leaders' = Leaders
      BY <2>1, <2>4 DEF Leaders
    <3> QED BY <3>1
  <2> QED BY <2>2, <2>3, <2>4 DEF Leads
<1>2. CASE Lapse \/ UNCHANGED vars
  <2>1. phase' = phase /\ isLeader' = isLeader
    BY <1>2 DEF Lapse, vars, electionVars
  <2> QED BY <2>1 DEF Leaders, Leads, Electing, Up, Stopped
<1> QED BY <1>1, <1>2 DEF Next, StepOf

(* Under punctual heartbeats the election implements SingleLeader.          *)
THEOREM LeaseImplemented == ASSUME Punctual PROVE Spec => LeaseSpec
<1>1. TypeOK /\ LockInv /\ [Next]_vars => (TypeOK /\ LockInv)'
  BY TypeStep, LockStep
<1>2. Init => TypeOK /\ LockInv
  BY LockInit DEF Init, TypeOK, Phase
<1>3. Init => Lease!Init
  BY DEF Init, Lease!Init, Leaders, Leads
<1>4. TypeOK /\ LockInv /\ [Next]_vars => [Lease!Next]_Leaders
  BY LeaseStep
<1> QED BY <1>1, <1>2, <1>3, <1>4, PTL DEF Spec, LeaseSpec, Lease!Spec

-----------------------------------------------------------------------------
(* The election goes on in every mode.  What ElectionGoesOn says of one      *)
(* replica, and what keeps it: a replica that has not started has nothing    *)
(* under way, and only a stopped one releases its lock.                      *)
GoesOn(i) ==
    /\ Mode[i] = "election" =>
        /\ Electing(i) /\ ~isLeader[i] =>
            \/ standbyTimer[i] \/ InFlight(i, "look")
            \/ \E k \in {"start", "startGranted", "startRefused"} : InFlight(i, k)
        /\ heartbeatTimer[i] <=> isLeader[i] /\ ~Stopped(i)
    /\ phase[i] = "running" =>
        /\ isLeader[i] => pythonProcess[i] # Null \/ restarts[i] > 0
        /\ pythonProcess[i] # Null => isLeader[i] /\ pythonProcess[i] \in live[i]
    /\ phase[i] = "new" =>
        /\ ~isLeader[i] /\ ~heartbeatTimer[i] /\ pythonProcess[i] = Null
        /\ \A k \in Call : calls[i][k] = 0
    /\ InFlight(i, "release") \/ InFlight(i, "released") => Stopped(i)

GoesOnInv == TypeOK /\ \A i \in Instance : GoesOn(i)

(* The state that belongs to one replica.                                   *)
LocalState(i) ==
    <<phase[i], isLeader[i], calls[i], heartbeatTimer[i], standbyTimer[i], leaked[i],
      pythonProcess[i], live[i], awaited[i], terminating[i], restarts[i]>>

LEMMA FrameLocal ==
    ASSUME TypeOK, NEW i \in Instance, NEW j \in Instance \ {i}, StepOf(i)
    PROVE  LocalState(j)' = LocalState(j)
<1>1. phase'[j] = phase[j] /\ isLeader'[j] = isLeader[j] /\ calls'[j] = calls[j]
  BY FramePhase, FrameStep
<1> USE DEF TypeOK
<1>2. CASE Continues(i)
  BY <1>1, <1>2 DEF Continues, StartGranted, PollGranted, PromoteToLeader, StartRefused, LookReturns,
              BeatLost, BeatFailed, StepDown, Ignore, ReleaseReturns, SpawnPython, LoseLeadership,
              ClearTimers, pythonVars, LocalState
<1>3. CASE DatabaseExecutes(i) \/ DatabaseFails(i)
  BY <1>1, <1>3 DEF DatabaseExecutes, DatabaseFails, Answered, StartExecutes, StartFails, PollExecutes,
              PollFails, BeatExecutes, BeatFails, ReleaseExecutes, ReleaseFails, pythonVars, LocalState
<1>4. CASE Ticks(i) \/ \E p \in Pid : PythonExits(i, p)
  BY <1>1, <1>4 DEF Ticks, StandbyTick, HeartbeatTick, RestartFires, PythonExits, SpawnPython,
              electionVars, pythonVars, LocalState
<1>5. CASE Start(i) \/ Shutdown(i) \/ AwaitedExits(i) \/ Exit(i) \/ Crash(i)
  BY <1>1, <1>5 DEF Start, Shutdown, AwaitedExits, StopElection, Exit, Crash, Leave, SpawnPython,
              ClearTimers, LocalState
<1> QED BY <1>2, <1>3, <1>4, <1>5 DEF StepOf


(* What GoesOn says of j only depends on the state that belongs to j.       *)
LEMMA GoesOnLocal ==
    ASSUME NEW j \in Instance, GoesOn(j), LocalState(j)' = LocalState(j)
    PROVE  GoesOn(j)'
BY DEF LocalState, GoesOn, Electing, Up, Stopped, InFlight

LEMMA SpawnTracks ==
    ASSUME TypeOK, NEW i \in Instance, SpawnPython(i)
    PROVE  pythonProcess'[i] \in live'[i] /\ pythonProcess'[i] # Null
<1>1. PICK p \in Pid : /\ pythonProcess' = [pythonProcess EXCEPT ![i] = p]
                       /\ live' = [live EXCEPT ![i] = @ \cup {p}]
  BY DEF SpawnPython
<1> QED BY <1>1, ConstantsAssumption DEF TypeOK

LEMMA GoesOnContinues ==
    ASSUME TypeOK, NEW i \in Instance, GoesOn(i), Continues(i)
    PROVE  GoesOn(i)'
<1> USE DEF TypeOK, Call
<1>0. Up(i) /\ phase[i] # "new"
  BY DEF Continues, StartGranted, PollGranted, StartRefused, LookReturns, BeatLost, BeatFailed,
         ReleaseReturns, Up
<1> USE <1>0
<1>1. CASE StartGranted(i) \/ PollGranted(i)
  <2>1. PICK k \in {"startGranted", "pollGranted"} : PromoteToLeader(i, k)
    BY <1>1 DEF StartGranted, PollGranted
  <2>2. CASE Stopped(i)
    <3>1. UNCHANGED <<phase, isLeader, heartbeatTimer>>
      BY <2>1, <2>2 DEF PromoteToLeader
    <3> QED BY <2>2, <3>1 DEF GoesOn, Electing, Up, Stopped
  <2>3. CASE ~Stopped(i)
    <3>1. pythonProcess'[i] \in live'[i] /\ pythonProcess'[i] # Null
      BY <2>1, <2>3, SpawnTracks DEF PromoteToLeader
    <3> QED BY <2>1, <2>3, <3>1 DEF PromoteToLeader, Finish, GoesOn, Electing, Up, Stopped, InFlight
  <2> QED BY <2>2, <2>3
<1>2. CASE StartRefused(i)
  BY <1>2, SMTT(30) DEF StartRefused, Finish, Become, ClearTimers, GoesOn, Electing, Up, Stopped,
     InFlight, pythonVars
<1>3. CASE LookReturns(i)
  BY <1>3 DEF LookReturns, Finish, GoesOn, Electing, Up, Stopped, InFlight, pythonVars
<1>4. CASE BeatLost(i) \/ BeatFailed(i)
  <2>1. PICK k \in {"beatLost", "beatFailed"} : InFlight(i, k) /\ (StepDown(i, k) \/ Ignore(i, k))
    BY <1>4 DEF BeatLost, BeatFailed
  <2>2. CASE StepDown(i, k)
    BY <2>2 DEF StepDown, Become, ClearTimers, LoseLeadership, GoesOn, Electing, Up, Stopped, InFlight
  <2>3. CASE Ignore(i, k)
    BY <2>3 DEF Ignore, Finish, GoesOn, Electing, Up, Stopped, InFlight, pythonVars
  <2> QED BY <2>1, <2>2, <2>3
<1>5. CASE ReleaseReturns(i)
  BY <1>5 DEF ReleaseReturns, Finish, GoesOn, Electing, Up, Stopped, InFlight, pythonVars
<1> QED BY <1>1, <1>2, <1>3, <1>4, <1>5 DEF Continues

LEMMA GoesOnDatabase ==
    ASSUME TypeOK, NEW i \in Instance, GoesOn(i), DatabaseExecutes(i) \/ DatabaseFails(i)
    PROVE  GoesOn(i)'
<1> USE DEF TypeOK, Call
<1>1. /\ UNCHANGED <<isLeader, heartbeatTimer, standbyTimer, leaked, phase, pythonVars>>
      /\ phase[i] # "new"
  BY DEF GoesOn, DatabaseExecutes, DatabaseFails, Answered, StartExecutes, StartFails,
     PollExecutes, PollFails, BeatExecutes, BeatFails, ReleaseExecutes, ReleaseFails, InFlight
<1>2. CASE StartExecutes(i) \/ StartFails(i)
  BY <1>1, <1>2 DEF StartExecutes, StartFails, Become, GoesOn, Electing, Up, Stopped, InFlight, pythonVars
<1>3. CASE PollExecutes(i) \/ PollFails(i)
  <2>1. Finish(i, "poll") \/ Become(i, "poll", "pollGranted")
    BY <1>3 DEF PollExecutes, PollFails
  <2>2. \A k \in {"start", "startGranted", "startRefused", "look", "release", "released"} :
            calls'[i][k] = calls[i][k]
    BY <2>1 DEF Finish, Become
  <2> QED BY <1>1, <2>2 DEF GoesOn, Electing, Up, Stopped, InFlight, pythonVars
<1>4. CASE BeatExecutes(i) \/ BeatFails(i)
  <2>1. Finish(i, "beat") \/ \E k \in {"beatLost", "beatFailed"} : Become(i, "beat", k)
    BY <1>4 DEF BeatExecutes, BeatFails
  <2>2. \A k \in {"start", "startGranted", "startRefused", "look", "release", "released"} :
            calls'[i][k] = calls[i][k]
    BY <2>1 DEF Finish, Become
  <2> QED BY <1>1, <2>2 DEF GoesOn, Electing, Up, Stopped, InFlight, pythonVars
<1>5. CASE ReleaseExecutes(i) \/ ReleaseFails(i)
  BY <1>1, <1>5 DEF ReleaseExecutes, ReleaseFails, Become, GoesOn, Electing, Up, Stopped, InFlight,
     pythonVars
<1> QED BY <1>2, <1>3, <1>4, <1>5 DEF DatabaseExecutes, DatabaseFails

LEMMA GoesOnRest ==
    ASSUME TypeOK, NEW i \in Instance, GoesOn(i),
           \/ Start(i) \/ Ticks(i) \/ (\E p \in Pid : PythonExits(i, p))
           \/ Shutdown(i) \/ AwaitedExits(i) \/ Exit(i) \/ Crash(i)
    PROVE  GoesOn(i)'
<1> USE DEF TypeOK, Call
<1>1. CASE Start(i)
  <2>1. phase'[i] = "running" /\ heartbeatTimer' = heartbeatTimer /\ standbyTimer' = standbyTimer
    BY <1>1 DEF Start
  <2>2. phase[i] = "new" /\ ~heartbeatTimer[i] /\ ~isLeader[i] /\ pythonProcess[i] = Null
        /\ \A k \in Call : calls[i][k] = 0
    BY <1>1 DEF Start, GoesOn
  <2>3. CASE Mode[i] = "assumed" /\ isLeader' = [isLeader EXCEPT ![i] = TRUE] /\ SpawnPython(i)
             /\ UNCHANGED calls
    BY <2>1, <2>2, <2>3, SpawnTracks DEF GoesOn, Stopped, InFlight
  <2>4. CASE Mode[i] = "election" /\ Issue(i, "start") /\ UNCHANGED <<isLeader, pythonProcess, live>>
    BY <2>1, <2>2, <2>4 DEF GoesOn, Issue, Electing, Up, Stopped, InFlight
  <2>5. CASE Mode[i] = "read-only" /\ UNCHANGED <<calls, isLeader, pythonProcess, live>>
    BY <2>1, <2>2, <2>5 DEF GoesOn, Stopped, InFlight
  <2> QED BY <1>1, <2>3, <2>4, <2>5 DEF Start
<1>2. CASE StandbyTick(i) \/ HeartbeatTick(i)
  <2>1. /\ UNCHANGED <<phase, isLeader, heartbeatTimer, standbyTimer, pythonProcess, live, restarts>>
        /\ Electing(i)
    BY <1>2 DEF StandbyTick, HeartbeatTick, pythonVars
  <2>2. \A k \in Call \ {"poll", "beat"} : calls'[i][k] = calls[i][k]
    BY <1>2 DEF StandbyTick, HeartbeatTick, Issue
  <2> QED BY <2>1, <2>2 DEF GoesOn, Electing, Up, Stopped, InFlight
<1>3. CASE RestartFires(i)
  <2>1. CASE ~ShuttingDown(i) /\ pythonProcess[i] = Null /\ isLeader[i]
    <3>1. pythonProcess'[i] \in live'[i] /\ pythonProcess'[i] # Null
      BY <1>3, <2>1, SpawnTracks DEF RestartFires
    <3> QED BY <1>3, <2>1, <3>1 DEF RestartFires, electionVars, GoesOn, Electing, Up, Stopped, InFlight
  <2>2. CASE ~(~ShuttingDown(i) /\ pythonProcess[i] = Null /\ isLeader[i])
    BY <1>3, <2>2 DEF RestartFires, electionVars, GoesOn, Electing, Up, Stopped, ShuttingDown, InFlight
  <2> QED BY <2>1, <2>2
<1>4. ASSUME NEW p \in Pid, PythonExits(i, p)
      PROVE  GoesOn(i)'
  BY <1>4 DEF PythonExits, electionVars, GoesOn, Electing, Up, Stopped, InFlight
<1>5. CASE Shutdown(i) \/ AwaitedExits(i)
  <2>1. CASE StopElection(i)
    <3>1. Stopped(i)' /\ ~Electing(i)' /\ phase'[i] \notin {"new", "running"} /\ ~heartbeatTimer'[i]
      BY <2>1 DEF StopElection, ClearTimers, Electing, Stopped
    <3> QED BY <3>1 DEF GoesOn
  <2>2. CASE ~StopElection(i)
    <3>1. /\ calls' = calls /\ isLeader' = isLeader /\ heartbeatTimer' = heartbeatTimer
          /\ standbyTimer' = standbyTimer
          /\ phase[i] = "running" /\ phase' = [phase EXCEPT ![i] = "draining"]
      BY <1>5, <2>2 DEF Shutdown, AwaitedExits
    <3> QED BY <3>1 DEF GoesOn, Electing, Up, Stopped, InFlight
  <2> QED BY <2>1, <2>2
<1>6. CASE Exit(i) \/ Crash(i)
  BY <1>6 DEF Exit, Crash, Leave, ClearTimers, GoesOn, Electing, Stopped
<1> QED BY <1>1, <1>2, <1>3, <1>4, <1>5, <1>6 DEF Ticks

LEMMA GoesOnStep == GoesOnInv /\ [Next]_vars => GoesOnInv'
<1> SUFFICES ASSUME GoesOnInv, [Next]_vars PROVE GoesOnInv'
  OBVIOUS
<1>1. ASSUME NEW i \in Instance, StepOf(i), NEW j \in Instance
      PROVE  GoesOn(j)'
  <2>1. CASE j = i
    BY <1>1, <2>1, GoesOnContinues, GoesOnDatabase, GoesOnRest DEF StepOf, GoesOnInv
  <2>2. CASE j # i
    BY <1>1, <2>2, FrameLocal, GoesOnLocal DEF GoesOnInv
  <2> QED BY <2>1, <2>2
<1>2. ASSUME Lapse \/ UNCHANGED vars, NEW j \in Instance
      PROVE  GoesOn(j)'
  BY <1>2, GoesOnLocal DEF Lapse, vars, electionVars, pythonVars, LocalState, GoesOnInv
<1> QED BY <1>1, <1>2, TypeStep DEF Next, StepOf, GoesOnInv

(* Whatever the modes, the bounds and the failures, and however late the     *)
(* heartbeats: a running replica leads and ingests, or is on its way to one  *)
(* or the other (leader-election.ts, onBecomeLeader and the exit handler of  *)
(* bun-entry.ts).                                                            *)
THEOREM NobodyIsAbandoned == Spec => []ElectionGoesOn
<1>1. Init => GoesOnInv
  <2> SUFFICES ASSUME Init PROVE GoesOnInv
    OBVIOUS
  <2>1. TypeOK
    BY DEF Init, TypeOK, Phase
  <2> QED BY <2>1 DEF Init, GoesOnInv, GoesOn, Electing, Up, Stopped, InFlight, Call
<1>2. GoesOnInv => ElectionGoesOn
  BY DEF GoesOnInv, GoesOn, ElectionGoesOn, NeverAbandoned, LeaderIngests
<1> QED BY <1>1, <1>2, GoesOnStep, PTL DEF Spec

-----------------------------------------------------------------------------
(* One ingester.  If ticks of an interval never overlap, a replica that      *)
(* takes part does exactly one thing: it is about to learn how it stands,    *)
(* polls, or leads, and its heartbeats and its process are those of a leader. *)
NeverOverlaps == \A i \in Instance : MaxInFlight[i] <= 1

Deciding(i) ==
    calls[i]["start"] + calls[i]["startGranted"] + calls[i]["startRefused"] + calls[i]["look"]
Polls(i) == calls[i]["poll"] + calls[i]["pollGranted"]

DoesOneThing(i) ==
    /\ leaked[i] = 0
    /\ Deciding(i) <= 1 /\ Polls(i) <= 1 /\ BeatsInFlight(i) <= 1
    /\ standbyTimer[i] => Deciding(i) = 0 /\ ~isLeader[i]
    /\ isLeader[i] => Deciding(i) = 0
    /\ Polls(i) > 0 => standbyTimer[i]
    /\ BeatsInFlight(i) > 0 => isLeader[i]
    /\ heartbeatTimer[i] => isLeader[i]
    /\ pythonProcess[i] # Null => isLeader[i]
    /\ live[i] \subseteq {pythonProcess[i]}

Solo(i) ==
    /\ phase[i] = "new" =>
        /\ ~isLeader[i] /\ ~heartbeatTimer[i] /\ ~standbyTimer[i] /\ leaked[i] = 0
        /\ pythonProcess[i] = Null /\ live[i] = {}
        /\ \A k \in Call : calls[i][k] = 0
    /\ Electing(i) => DoesOneThing(i)
    /\ Mode[i] = "read-only" =>
        /\ ~isLeader[i] /\ ~heartbeatTimer[i] /\ ~standbyTimer[i] /\ leaked[i] = 0
        /\ \A k \in Call : calls[i][k] = 0

SoloInv == TypeOK /\ \A i \in Instance : Solo(i)

LEMMA SoloLocal ==
    ASSUME NEW j \in Instance, Solo(j), LocalState(j)' = LocalState(j)
    PROVE  Solo(j)'
BY DEF LocalState, Solo, DoesOneThing, Deciding, Polls, BeatsInFlight, Electing, Up, Stopped

(* The process a promotion or a restart spawns is the only one.             *)
LEMMA SpawnsOnly ==
    ASSUME TypeOK, NEW i \in Instance, SpawnPython(i), live[i] \subseteq {Null}
    PROVE  live'[i] = {pythonProcess'[i]}
<1>1. PICK p \in Pid : /\ pythonProcess' = [pythonProcess EXCEPT ![i] = p]
                       /\ live' = [live EXCEPT ![i] = @ \cup {p}]
  BY DEF SpawnPython
<1>2. live[i] = {}
  BY ConstantsAssumption DEF TypeOK
<1> QED BY <1>1, <1>2 DEF TypeOK

(* The sums count the calls in flight of three kinds; they stay what they   *)
(* are, or follow the one call that is issued, ends or becomes another.     *)
One(k, S) == IF k \in S THEN 1 ELSE 0
DecidingCalls == {"start", "startGranted", "startRefused", "look"}
PollCalls == {"poll", "pollGranted"}
BeatCalls == {"beat", "beatLost", "beatFailed"}

LEMMA Counted ==
    ASSUME TypeOK, NEW i \in Instance
    PROVE  /\ calls[i]["start"] \in Nat /\ calls[i]["startGranted"] \in Nat
           /\ calls[i]["startRefused"] \in Nat /\ calls[i]["look"] \in Nat
           /\ calls[i]["poll"] \in Nat /\ calls[i]["pollGranted"] \in Nat
           /\ calls[i]["beat"] \in Nat /\ calls[i]["beatLost"] \in Nat
           /\ calls[i]["beatFailed"] \in Nat
BY DEF TypeOK, Call

LEMMA Sums ==
    ASSUME TypeOK, NEW i \in Instance
    PROVE  /\ Deciding(i) \in Nat /\ Polls(i) \in Nat /\ BeatsInFlight(i) \in Nat
           /\ \A k \in DecidingCalls : InFlight(i, k) => Deciding(i) > 0
           /\ \A k \in PollCalls : InFlight(i, k) => Polls(i) > 0
           /\ \A k \in BeatCalls : InFlight(i, k) => BeatsInFlight(i) > 0
<1> USE Counted DEF Deciding, Polls, BeatsInFlight, InFlight
<1>1. \A k \in DecidingCalls : InFlight(i, k) => Deciding(i) > 0
  BY DEF DecidingCalls
<1>2. \A k \in PollCalls : InFlight(i, k) => Polls(i) > 0
  BY DEF PollCalls
<1>3. \A k \in BeatCalls : InFlight(i, k) => BeatsInFlight(i) > 0
  BY DEF BeatCalls
<1> QED BY <1>1, <1>2, <1>3

(* A call is of one kind at most, and is one call of its kind.              *)
LEMMA KindOfCall ==
    ASSUME NEW k
    PROVE  /\ One(k, DecidingCalls) = One(k, {"start"}) + One(k, {"startGranted"})
                                         + One(k, {"startRefused"}) + One(k, {"look"})
           /\ One(k, PollCalls) = One(k, {"poll"}) + One(k, {"pollGranted"})
           /\ One(k, BeatCalls) = One(k, {"beat"}) + One(k, {"beatLost"}) + One(k, {"beatFailed"})
           /\ \A S : One(k, S) \in 0..1
BY DEF One, DecidingCalls, PollCalls, BeatCalls

LEMMA SumsAfter ==
    ASSUME TypeOK, NEW i \in Instance, NEW k \in Call, NEW l \in Call \ {k}
    PROVE  /\ Issue(i, k) =>
                /\ Deciding(i)' = Deciding(i) + One(k, DecidingCalls)
                /\ Polls(i)' = Polls(i) + One(k, PollCalls)
                /\ BeatsInFlight(i)' = BeatsInFlight(i) + One(k, BeatCalls)
           /\ Finish(i, k) =>
                /\ Deciding(i)' = Deciding(i) - One(k, DecidingCalls)
                /\ Polls(i)' = Polls(i) - One(k, PollCalls)
                /\ BeatsInFlight(i)' = BeatsInFlight(i) - One(k, BeatCalls)
           /\ Become(i, k, l) =>
                /\ Deciding(i)' = Deciding(i) - One(k, DecidingCalls) + One(l, DecidingCalls)
                /\ Polls(i)' = Polls(i) - One(k, PollCalls) + One(l, PollCalls)
                /\ BeatsInFlight(i)' = BeatsInFlight(i) - One(k, BeatCalls) + One(l, BeatCalls)
<1>1. \A m \in Call :
        /\ Issue(i, k) => calls'[i][m] = calls[i][m] + One(k, {m})
        /\ Finish(i, k) => calls'[i][m] = calls[i][m] - One(k, {m})
        /\ Become(i, k, l) => calls'[i][m] = calls[i][m] - One(k, {m}) + One(l, {m})
  BY DEF TypeOK, Issue, Finish, Become, One
<1> DEFINE now(m) == calls[i][m]
           next(m) == calls'[i][m]
<1>2. /\ Deciding(i) = now("start") + now("startGranted") + now("startRefused") + now("look")
      /\ Deciding(i)' = next("start") + next("startGranted") + next("startRefused") + next("look")
      /\ Polls(i) = now("poll") + now("pollGranted")
      /\ Polls(i)' = next("poll") + next("pollGranted")
      /\ BeatsInFlight(i) = now("beat") + now("beatLost") + now("beatFailed")
      /\ BeatsInFlight(i)' = next("beat") + next("beatLost") + next("beatFailed")
  BY DEF Deciding, Polls, BeatsInFlight
<1>3. \A m \in Call : now(m) \in Nat
  BY DEF TypeOK
<1> HIDE DEF now, next
<1>4. \A m \in Call : /\ Issue(i, k) => next(m) = now(m) + One(k, {m})
                      /\ Finish(i, k) => next(m) = now(m) - One(k, {m})
                      /\ Become(i, k, l) => next(m) = now(m) - One(k, {m}) + One(l, {m})
  BY <1>1 DEF now, next
<1>5. \A m \in Call : One(k, {m}) \in 0..1 /\ One(l, {m}) \in 0..1
  BY KindOfCall
<1>6. CASE Issue(i, k)
  BY <1>2, <1>3, <1>4, <1>5, <1>6, KindOfCall DEF Call
<1>7. CASE Finish(i, k)
  BY <1>2, <1>3, <1>4, <1>5, <1>7, KindOfCall DEF Call
<1>8. CASE Become(i, k, l)
  BY <1>2, <1>3, <1>4, <1>5, <1>8, KindOfCall DEF Call
<1> QED BY <1>6, <1>7, <1>8

LEMMA SoloContinues ==
    ASSUME TypeOK, NEW i \in Instance, Solo(i), Continues(i)
    PROVE  Solo(i)'
<1>0. Up(i) /\ phase[i] # "new" /\ Mode[i] # "read-only"
  BY DEF Continues, StartGranted, PollGranted, StartRefused, LookReturns, BeatLost, BeatFailed,
         ReleaseReturns, Up, Solo, InFlight, Call
<1>1. phase'[i] # "new" /\ (~Electing(i) => ~Electing(i)')
  BY <1>0 DEF Continues, StartGranted, PollGranted, PromoteToLeader, StartRefused, LookReturns,
     BeatLost, BeatFailed, StepDown, Ignore, ReleaseReturns, Electing, Up, Stopped, TypeOK
<1>2. CASE ~Electing(i)
  BY <1>0, <1>1, <1>2 DEF Solo
<1>3. CASE Electing(i)
  <2>0. DoesOneThing(i) /\ ~Stopped(i)
    BY <1>3 DEF Solo, Electing
  <2> SUFFICES ASSUME Electing(i)' PROVE DoesOneThing(i)'
    BY <1>0, <1>1 DEF Solo
  <2> USE Sums DEF TypeOK
  <2>1. CASE StartGranted(i) \/ PollGranted(i)
    <3>1. PICK k \in {"startGranted", "pollGranted"} : InFlight(i, k) /\ PromoteToLeader(i, k)
      BY <2>1 DEF StartGranted, PollGranted
    <3>2. /\ k \in Call /\ "look" \in Call \ {k} /\ k \notin BeatCalls
          /\ One(k, DecidingCalls) + One(k, PollCalls) = 1 /\ One(k, BeatCalls) = 0
          /\ One(k, DecidingCalls) \in {0, 1} /\ One(k, PollCalls) \in {0, 1}
          /\ One(k, DecidingCalls) = 1 => k \in DecidingCalls
          /\ One(k, PollCalls) = 1 => k \in PollCalls
      BY DEF Call, One, DecidingCalls, PollCalls, BeatCalls
    <3>3. ~isLeader[i] /\ live[i] \subseteq {Null} /\ Deciding(i) + Polls(i) = 1 /\ BeatsInFlight(i) = 0
      BY <2>0, <3>1, <3>2 DEF DoesOneThing
    <3>4. live'[i] = {pythonProcess'[i]}
      BY <2>0, <3>1, <3>3, SpawnsOnly DEF PromoteToLeader
    <3>5. isLeader'[i] /\ ~standbyTimer'[i] /\ leaked' = leaked /\ Finish(i, k)
      BY <2>0, <3>1 DEF PromoteToLeader
    <3>6. Deciding(i)' = 0 /\ Polls(i)' = 0 /\ BeatsInFlight(i)' = 0
      <4>1. /\ Deciding(i)' = Deciding(i) - One(k, DecidingCalls)
            /\ Polls(i)' = Polls(i) - One(k, PollCalls)
            /\ BeatsInFlight(i)' = BeatsInFlight(i) - One(k, BeatCalls)
        BY <3>2, <3>5, SumsAfter
      <4>2. /\ One(k, DecidingCalls) = 1 => Deciding(i) > 0
            /\ One(k, PollCalls) = 1 => Polls(i) > 0
        BY <3>1, <3>2
      <4>3. Deciding(i) = One(k, DecidingCalls) /\ Polls(i) = One(k, PollCalls)
        <5>1. Deciding(i) \in Nat /\ Polls(i) \in Nat
          OBVIOUS
        <5> HIDE Sums DEF TypeOK
        <5> QED BY <3>2, <3>3, <4>2, <5>1
      <4> QED BY <3>2, <3>3, <4>1, <4>3
    <3> QED BY <2>0, <3>4, <3>5, <3>6 DEF DoesOneThing
  <2>2. CASE StartRefused(i)
    <3>1. /\ InFlight(i, "startRefused") /\ Become(i, "startRefused", "look")
          /\ ~isLeader'[i] /\ ~heartbeatTimer'[i] /\ ~standbyTimer'[i]
          /\ UNCHANGED <<leaked, pythonProcess, live>>
      BY <2>0, <2>2 DEF StartRefused, ClearTimers, pythonVars
    <3>2. ~isLeader[i] /\ ~standbyTimer[i] /\ Polls(i) = 0 /\ BeatsInFlight(i) = 0
      BY <2>0, <3>1 DEF DoesOneThing, DecidingCalls
    <3>3. Deciding(i)' = Deciding(i) /\ Polls(i)' = 0 /\ BeatsInFlight(i)' = 0
      BY <3>1, <3>2, SumsAfter DEF Call, One, DecidingCalls, PollCalls, BeatCalls
    <3> QED BY <2>0, <3>1, <3>2, <3>3 DEF DoesOneThing
  <2>3. CASE LookReturns(i)
    <3>1. /\ InFlight(i, "look") /\ Finish(i, "look") /\ standbyTimer'[i]
          /\ UNCHANGED <<isLeader, heartbeatTimer, pythonProcess, live>>
      BY <2>0, <2>3 DEF LookReturns, pythonVars
    <3>2. ~isLeader[i] /\ ~standbyTimer[i] /\ Deciding(i) = 1 /\ Polls(i) = 0 /\ BeatsInFlight(i) = 0
      BY <2>0, <3>1 DEF DoesOneThing, DecidingCalls
    <3>3. Deciding(i)' = 0 /\ Polls(i)' = 0 /\ BeatsInFlight(i)' = 0
      BY <3>1, <3>2, SumsAfter DEF Call, One, DecidingCalls, PollCalls, BeatCalls
    <3>4. leaked'[i] = 0
      BY <2>0, <2>3, <3>2 DEF LookReturns, DoesOneThing
    <3> QED BY <2>0, <3>1, <3>2, <3>3, <3>4 DEF DoesOneThing
  <2>4. CASE BeatLost(i) \/ BeatFailed(i)
    <3>1. PICK k \in {"beatLost", "beatFailed"} : InFlight(i, k) /\ (StepDown(i, k) \/ Ignore(i, k))
      BY <2>4 DEF BeatLost, BeatFailed
    <3>2. /\ k \in Call /\ "look" \in Call \ {k} /\ k \in BeatCalls
          /\ One(k, DecidingCalls) = 0 /\ One(k, PollCalls) = 0 /\ One(k, BeatCalls) = 1
      BY DEF Call, One, DecidingCalls, PollCalls, BeatCalls
    <3>3. isLeader[i] /\ Deciding(i) = 0 /\ Polls(i) = 0 /\ BeatsInFlight(i) = 1
      BY <2>0, <3>1, <3>2 DEF DoesOneThing
    <3>4. CASE StepDown(i, k)
      <4>1. /\ Become(i, k, "look") /\ UNCHANGED leaked
            /\ ~isLeader'[i] /\ ~heartbeatTimer'[i] /\ ~standbyTimer'[i]
            /\ pythonProcess'[i] = Null /\ live'[i] = {}
        BY <2>0, <3>4 DEF StepDown, ClearTimers, LoseLeadership, DoesOneThing
      <4>2. Deciding(i)' = 1 /\ Polls(i)' = 0 /\ BeatsInFlight(i)' = 0
        BY <3>2, <3>3, <4>1, SumsAfter DEF One, DecidingCalls, PollCalls, BeatCalls
      <4> QED BY <2>0, <4>1, <4>2 DEF DoesOneThing
    <3>5. CASE Ignore(i, k)
      <4>1. Deciding(i)' = 0 /\ Polls(i)' = 0 /\ BeatsInFlight(i)' = 0
        BY <3>2, <3>3, <3>5, SumsAfter DEF Ignore
      <4>2. UNCHANGED <<isLeader, heartbeatTimer, standbyTimer, leaked, pythonProcess, live>>
        BY <3>5 DEF Ignore, pythonVars
      <4> QED BY <2>0, <3>3, <4>1, <4>2 DEF DoesOneThing
    <3> QED BY <3>1, <3>4, <3>5
  <2>5. CASE ReleaseReturns(i)
    BY <2>5 DEF ReleaseReturns, Electing, Stopped
  <2> QED BY <2>1, <2>2, <2>3, <2>4, <2>5 DEF Continues
<1> QED BY <1>2, <1>3

LEMMA SoloDatabase ==
    ASSUME TypeOK, NEW i \in Instance, Solo(i), DatabaseExecutes(i) \/ DatabaseFails(i)
    PROVE  Solo(i)'
<1>1. UNCHANGED <<isLeader, heartbeatTimer, standbyTimer, leaked, phase, pythonProcess, live>>
  BY DEF DatabaseExecutes, DatabaseFails, Answered, StartExecutes, StartFails, PollExecutes,
         PollFails, BeatExecutes, BeatFails, ReleaseExecutes, ReleaseFails, pythonVars
<1>2. phase[i] # "new" /\ Mode[i] # "read-only"
  BY DEF Solo, DatabaseExecutes, DatabaseFails, StartExecutes, StartFails, PollExecutes, PollFails,
         BeatExecutes, BeatFails, ReleaseExecutes, ReleaseFails, InFlight, Call
<1> USE Sums, SumsAfter DEF Call, One, DecidingCalls, PollCalls, BeatCalls
<1>3. Deciding(i)' = Deciding(i) /\ Polls(i)' <= Polls(i) /\ BeatsInFlight(i)' <= BeatsInFlight(i)
  <2>1. CASE StartExecutes(i) \/ StartFails(i)
    <3>1. Become(i, "start", "startGranted") \/ Become(i, "start", "startRefused")
      BY <2>1 DEF StartExecutes, StartFails
    <3> QED BY <3>1
  <2>2. CASE PollExecutes(i) \/ PollFails(i)
    <3>1. Become(i, "poll", "pollGranted") \/ Finish(i, "poll")
      BY <2>2 DEF PollExecutes, PollFails
    <3> QED BY <3>1
  <2>3. CASE BeatExecutes(i) \/ BeatFails(i)
    <3>1. \/ Become(i, "beat", "beatLost") \/ Become(i, "beat", "beatFailed") \/ Finish(i, "beat")
      BY <2>3 DEF BeatExecutes, BeatFails
    <3> QED BY <3>1
  <2>4. CASE ReleaseExecutes(i) \/ ReleaseFails(i)
    <3>1. Become(i, "release", "released")
      BY <2>4 DEF ReleaseExecutes, ReleaseFails
    <3> QED BY <3>1
  <2> QED BY <2>1, <2>2, <2>3, <2>4 DEF DatabaseExecutes, DatabaseFails
<1>4. Deciding(i)' \in Nat /\ Polls(i)' \in Nat /\ BeatsInFlight(i)' \in Nat
  <2>1. TypeOK'
    BY DatabaseType
  <2> QED BY <2>1, Counted DEF Deciding, Polls, BeatsInFlight, TypeOK
<1> QED BY <1>1, <1>2, <1>3, <1>4 DEF Solo, DoesOneThing, Electing, Up, Stopped

(* A tick only finds calls of other kinds in flight.                        *)
LEMMA SoloTicks ==
    ASSUME TypeOK, NeverOverlaps, NEW i \in Instance, Solo(i), StandbyTick(i) \/ HeartbeatTick(i)
    PROVE  Solo(i)'
<1>1. /\ UNCHANGED <<isLeader, heartbeatTimer, standbyTimer, leaked, phase, pythonProcess, live>>
      /\ Electing(i)
  BY DEF StandbyTick, HeartbeatTick, pythonVars
<1>2. phase[i] # "new" /\ DoesOneThing(i) /\ Mode[i] # "read-only"
  BY <1>1 DEF Solo, Electing, Up, StandbyTick, HeartbeatTick, TypeOK
<1>3. MaxInFlight[i] \in Nat /\ MaxInFlight[i] <= 1 /\ leaked[i] = 0
  BY <1>2, ConstantsAssumption DEF NeverOverlaps, DoesOneThing
<1> USE Sums, SumsAfter DEF Call, One, DecidingCalls, PollCalls, BeatCalls
<1>4. CASE StandbyTick(i)
  <2>1. Issue(i, "poll") /\ standbyTimer[i] /\ Polls(i) = 0
    BY <1>3, <1>4 DEF StandbyTick, Polls
  <2>2. Deciding(i)' = Deciding(i) /\ Polls(i)' = 1 /\ BeatsInFlight(i)' = BeatsInFlight(i)
    BY <2>1
  <2> QED BY <1>1, <1>2, <2>1, <2>2 DEF Solo, DoesOneThing
<1>5. CASE HeartbeatTick(i)
  <2>1. Issue(i, "beat") /\ heartbeatTimer[i] /\ BeatsInFlight(i) = 0
    BY <1>3, <1>5 DEF HeartbeatTick
  <2>2. Deciding(i)' = Deciding(i) /\ Polls(i)' = Polls(i) /\ BeatsInFlight(i)' = 1
    BY <2>1
  <2> QED BY <1>1, <1>2, <2>1, <2>2 DEF Solo, DoesOneThing
<1> QED BY <1>4, <1>5

LEMMA SoloRest ==
    ASSUME TypeOK, NEW i \in Instance, Solo(i),
           \/ Start(i) \/ RestartFires(i) \/ (\E p \in Pid : PythonExits(i, p))
           \/ Shutdown(i) \/ AwaitedExits(i) \/ Exit(i) \/ Crash(i)
    PROVE  Solo(i)'
<1> USE DEF TypeOK
<1>1. CASE Start(i)
  <2>1. /\ phase'[i] = "running" /\ heartbeatTimer' = heartbeatTimer
        /\ standbyTimer' = standbyTimer /\ leaked' = leaked
    BY <1>1 DEF Start
  <2>2. /\ phase[i] = "new" /\ ~heartbeatTimer[i] /\ ~standbyTimer[i] /\ ~isLeader[i]
        /\ leaked[i] = 0 /\ pythonProcess[i] = Null /\ live[i] = {}
        /\ \A k \in Call : calls[i][k] = 0
    BY <1>1 DEF Start, Solo
  <2>3. Deciding(i) = 0 /\ Polls(i) = 0 /\ BeatsInFlight(i) = 0
    BY <2>2 DEF Deciding, Polls, BeatsInFlight, Call
  <2>4. CASE Mode[i] = "assumed" /\ isLeader' = [isLeader EXCEPT ![i] = TRUE] /\ SpawnPython(i)
             /\ UNCHANGED calls
    <3>1. Deciding(i)' = 0 /\ Polls(i)' = 0 /\ BeatsInFlight(i)' = 0
      BY <2>3, <2>4 DEF Deciding, Polls, BeatsInFlight
    <3> QED BY <2>1, <2>2, <2>4, <3>1, SpawnsOnly DEF Solo, DoesOneThing
  <2>5. CASE Mode[i] = "election" /\ Issue(i, "start") /\ UNCHANGED <<isLeader, pythonProcess, live>>
    <3>1. Deciding(i)' = 1 /\ Polls(i)' = 0 /\ BeatsInFlight(i)' = 0
      BY <2>3, <2>5, SumsAfter DEF Call, One, DecidingCalls, PollCalls, BeatCalls
    <3> QED BY <2>1, <2>2, <2>5, <3>1 DEF Solo, DoesOneThing
  <2>6. CASE Mode[i] = "read-only" /\ UNCHANGED <<calls, isLeader, pythonProcess, live>>
    <3>1. Deciding(i)' = 0 /\ Polls(i)' = 0 /\ BeatsInFlight(i)' = 0
      BY <2>3, <2>6 DEF Deciding, Polls, BeatsInFlight
    <3> QED BY <2>1, <2>2, <2>6, <3>1 DEF Solo, DoesOneThing
  <2> QED BY <1>1, <2>4, <2>5, <2>6 DEF Start
<1>2. ASSUME UNCHANGED <<calls, isLeader, heartbeatTimer, standbyTimer, leaked>>,
             phase[i] # "new", phase'[i] # "new", Electing(i)' => Electing(i),
             pythonProcess'[i] # Null => pythonProcess[i] # Null \/ isLeader[i],
             Electing(i) => live'[i] \subseteq {pythonProcess'[i]}
      PROVE  Solo(i)'
  BY <1>2 DEF Solo, DoesOneThing, Deciding, Polls, BeatsInFlight
<1>3. CASE RestartFires(i)
  <2>1. /\ UNCHANGED <<calls, isLeader, heartbeatTimer, standbyTimer, leaked, phase>>
        /\ phase[i] # "new" /\ (Electing(i)' => Electing(i))
    BY <1>3 DEF RestartFires, electionVars, Up, Electing, Stopped
  <2>2. CASE ~ShuttingDown(i) /\ pythonProcess[i] = Null /\ isLeader[i]
    <3>1. Electing(i) => live[i] \subseteq {Null}
      BY <2>2 DEF Solo, DoesOneThing
    <3> QED BY <1>2, <1>3, <2>1, <2>2, <3>1, SpawnsOnly DEF RestartFires
  <2>3. CASE ~(~ShuttingDown(i) /\ pythonProcess[i] = Null /\ isLeader[i])
    <3>1. UNCHANGED <<pythonProcess, live>>
      BY <1>3, <2>3 DEF RestartFires
    <3> QED BY <1>2, <2>1, <3>1 DEF Solo, DoesOneThing
  <2> QED BY <2>2, <2>3
<1>4. ASSUME NEW p \in Pid, PythonExits(i, p)
      PROVE  Solo(i)'
  <2>1. /\ UNCHANGED <<calls, isLeader, heartbeatTimer, standbyTimer, leaked, phase>>
        /\ live'[i] = live[i] \ {p}
        /\ \/ pythonProcess'[i] = pythonProcess[i]
           \/ pythonProcess[i] = p /\ pythonProcess'[i] = Null
    BY <1>4 DEF PythonExits, electionVars
  <2>2. CASE phase[i] = "new"
    BY <2>1, <2>2 DEF Solo, Electing, Up
  <2>3. CASE phase[i] # "new"
    <3>1. Electing(i) => live'[i] \subseteq {pythonProcess'[i]}
      BY <2>1 DEF Solo, DoesOneThing
    <3>2. Electing(i)' => Electing(i)
      BY <2>1 DEF Electing, Up, Stopped
    <3> QED BY <1>2, <2>1, <2>3, <3>1, <3>2
  <2> QED BY <2>2, <2>3
<1>5. ASSUME phase'[i] \in {"releasing", "closing", "gone"},
             UNCHANGED <<isLeader, leaked>> \/ Exit(i) \/ Crash(i),
             heartbeatTimer'[i] = FALSE, standbyTimer'[i] = FALSE,
             UNCHANGED calls \/ isLeader[i]
      PROVE  Solo(i)'
  <2>1. ~Electing(i)' /\ phase'[i] # "new"
    BY <1>5 DEF Electing, Stopped
  <2>2. leaked' = leaked /\ (~isLeader[i] => ~isLeader'[i])
    BY <1>5 DEF Exit, Crash, Leave
  <2> QED BY <1>5, <2>1, <2>2 DEF Solo
<1>6. CASE Shutdown(i) \/ AwaitedExits(i)
  <2>1. CASE StopElection(i)
    BY <1>5, <1>6, <2>1 DEF StopElection, ClearTimers, Shutdown, AwaitedExits
  <2>2. CASE ~StopElection(i)
    <3>1. /\ Shutdown(i) /\ UNCHANGED <<calls, isLeader, heartbeatTimer, standbyTimer, leaked, pythonProcess>>
          /\ phase[i] = "running" /\ phase'[i] = "draining"
          /\ live'[i] = live[i] \ {pythonProcess[i]}
      BY <1>6, <2>2 DEF Shutdown, AwaitedExits
    <3>2. (Electing(i)' => Electing(i)) /\ (Electing(i) => live'[i] \subseteq {pythonProcess'[i]})
      BY <3>1 DEF Electing, Up, Stopped, Solo, DoesOneThing
    <3> QED BY <1>2, <3>1, <3>2
  <2> QED BY <2>1, <2>2
<1>7. CASE Exit(i) \/ Crash(i)
  BY <1>5, <1>7 DEF Exit, Crash, Leave, ClearTimers
<1> QED BY <1>1, <1>3, <1>4, <1>6, <1>7

LEMMA SoloStep == ASSUME NeverOverlaps PROVE SoloInv /\ [Next]_vars => SoloInv'
<1> SUFFICES ASSUME SoloInv, [Next]_vars PROVE SoloInv'
  OBVIOUS
<1>1. ASSUME NEW i \in Instance, StepOf(i), NEW j \in Instance
      PROVE  Solo(j)'
  <2>1. CASE j = i
    BY <1>1, <2>1, SoloContinues, SoloDatabase, SoloTicks, SoloRest DEF StepOf, Ticks, SoloInv
  <2>2. CASE j # i
    BY <1>1, <2>2, FrameLocal, SoloLocal DEF SoloInv
  <2> QED BY <2>1, <2>2
<1>2. ASSUME Lapse \/ UNCHANGED vars, NEW j \in Instance
      PROVE  Solo(j)'
  BY <1>2, SoloLocal DEF Lapse, vars, electionVars, pythonVars, LocalState, SoloInv
<1> QED BY <1>1, <1>2, TypeStep DEF Next, StepOf, SoloInv

LEMMA SoloInit == Init => SoloInv
<1> SUFFICES ASSUME Init PROVE SoloInv
  OBVIOUS
<1>1. TypeOK
  BY DEF Init, TypeOK, Phase
<1> QED BY <1>1 DEF Init, SoloInv, Solo, Electing, Up

(* If the ticks of an interval never overlap, whatever fails and however     *)
(* late the heartbeats are: a running replica has no ingester but the one it *)
(* tracks and can stop (pythonProcess of bun-entry.ts).                      *)
THEOREM NoIngesterEscapes == ASSUME NeverOverlaps PROVE Spec => []NoOrphan
<1>1. SoloInv => NoOrphan
  BY DEF SoloInv, Solo, DoesOneThing, NoOrphan, Electing, Up, Stopped
<1> QED BY <1>1, SoloInit, SoloStep, PTL DEF Spec

(* If moreover heartbeats arrive within the TTL and no replica assumes that  *)
(* it leads, at most one replica among those that could still stop theirs    *)
(* has an ingester: a process is a leader's, and a leader holds the lock.    *)
THEOREM OneReplicaIngests ==
    ASSUME NeverOverlaps, Punctual, \A i \in Instance : Mode[i] # "assumed"
    PROVE  Spec => []OneIngester
<1>1. SoloInv /\ LockInv => OneIngester
  <2> SUFFICES ASSUME SoloInv, LockInv, NEW i \in Instance, NEW j \in Instance \ {i},
                      Electing(i), Electing(j), live[i] # {}, live[j] # {}
               PROVE  FALSE
    BY DEF OneIngester
  <2>1. ASSUME NEW k \in Instance, Electing(k), live[k] # {}
        PROVE  lock = Granted(k)
    <3>1. pythonProcess[k] # Null
      BY <2>1, ConstantsAssumption DEF SoloInv, Solo, DoesOneThing, TypeOK
    <3>2. isLeader[k] /\ Mode[k] = "election"
      BY <2>1, <3>1, ConstantsAssumption DEF SoloInv, Solo, DoesOneThing
    <3> QED BY <2>1, <3>2 DEF LockInv, Renewing
  <2> QED BY <2>1 DEF Granted
<1>2. SoloInv /\ LockInv /\ [Next]_vars => (SoloInv /\ LockInv)'
  BY SoloStep, LockStep DEF SoloInv
<1> QED BY <1>1, <1>2, SoloInit, LockInit, PTL DEF Spec
=============================================================================
