--------------------------- MODULE MCTimerManager ---------------------------
(* Model-checking instance of TimerManager: a worker and the callback of its *)
(* wait-ACK timer add timers; three may be ready, two are reported at a time. *)
EXTENDS TimerManager, TLC

CONSTANTS w1, a1, a2, a3, waitAck, delete1, delete2, delete3

MCAdders == {w1}
MCTimerAddr == {a1, a2, a3}
MCEvents == {waitAck, delete1, delete2, delete3}
MCRoots == {waitAck, delete2, delete3}
MCRearm == waitAck :> delete1 @@ delete1 :> NULL @@ delete2 :> NULL @@ delete3 :> NULL
MCFaults == {"create", "settime", "ctl"}
=============================================================================
