------------------------------ MODULE MCRecords ------------------------------
(* A small instance of Records: a workflow of two tasks, one of them run     *)
(* twice, and a worker that executes one task.                               *)
EXTENDS Records

Two == {"root", "child"}
Chain == [t \in Two |-> "root"]
Lives == [t \in Two |-> IF t = "root"
                        THEN <<"SUCCESS">>
                        ELSE <<"RECEIVED", "SUCCESS", "STARTED", "RETRY", "FAILURE">>]
SentAndReceived == {"PENDING", "RECEIVED"}
OneTask == {"task"}
=============================================================================
