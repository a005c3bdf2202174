------------------------------- MODULE Records -------------------------------
(* What the Python server records of tasks and of workers.  The two have no  *)
(* state in common that their properties speak of, so that a behaviour is    *)
(* one of either, and the other rests in its initial state.                  *)
EXTENDS TaskRecords, WorkerPresence

VARIABLE part       \* "tasks" or "workers"

allRecords == <<recordsVars, presenceVars, part>>

AllRecordsInit == part \in {"tasks", "workers"} /\ RecordsInit /\ PresenceInit

AllRecordsNext ==
    \/ part = "tasks" /\ RecordsNext /\ UNCHANGED <<presenceVars, part>>
    \/ part = "workers" /\ PresenceNext /\ UNCHANGED <<recordsVars, part>>

Working(A) == part = "workers" /\ A

AllRecordsSpec ==
    /\ AllRecordsInit /\ [][AllRecordsNext]_allRecords
    /\ WF_presenceVars(Working(WriteEvent))
    /\ WF_presenceVars(Working(PollStep))
    /\ WF_presenceVars(Working(Inspected))
    /\ SF_presenceVars(Working(Answered))
=============================================================================
