---------------------------- MODULE SingleLeader ----------------------------
(* What the ingestion lease promises: replicas take turns at leading, and   *)
(* nobody is elected before the previous leader has retired.                *)
CONSTANT Instance

VARIABLE leaders

Init == leaders = {}

Elect(i) ==
    /\ leaders = {}
    /\ leaders' = {i}

Retire(i) ==
    /\ i \in leaders
    /\ leaders' = leaders \ {i}

Next == \E i \in Instance : Elect(i) \/ Retire(i)

Spec == Init /\ [][Next]_leaders
=============================================================================
