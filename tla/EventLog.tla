------------------------------ MODULE EventLog ------------------------------
(* What ingestion promises: the events it holds are written in the order in *)
(* which they were accepted, a prefix of them at a time.  A prefix may be    *)
(* written and still be held, when the outcome of the write is not known.    *)
(* Events that leave no record may be forgotten once nothing else is held.   *)
(* Closing forgets what is held.                                             *)
EXTENDS Naturals, Sequences

CONSTANTS Event, Unrecorded

VARIABLES held, log

vars == <<held, log>>

Init == held = <<>> /\ log = <<>>

Elements(s) == {s[n] : n \in DOMAIN s}

Forget(events) ==
    /\ Elements(events) \subseteq Unrecorded
    /\ held' = <<>>
    /\ UNCHANGED log

Accept(e) ==
    \/ held' = Append(held, e) /\ UNCHANGED log
    \/ Forget(Append(held, e))

Write(n) ==
    /\ log' = log \o SubSeq(held, 1, n)
    /\ \/ held' = SubSeq(held, n + 1, Len(held))
       \/ UNCHANGED held

Close ==
    /\ held' = <<>>
    /\ \E n \in 0..Len(held) : log' = log \o SubSeq(held, 1, n)

Next ==
    \/ \E e \in Event : Accept(e)
    \/ Forget(held)
    \/ \E n \in DOMAIN held : Write(n)
    \/ Close

Spec == Init /\ [][Next]_vars
=============================================================================
