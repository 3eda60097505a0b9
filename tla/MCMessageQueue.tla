--------------------------- MODULE MCMessageQueue ---------------------------
(* Model-checking instance of MessageQueue: the main thread and the timer   *)
(* thread feed one worker through a ring small enough to wrap and to fill.  *)
EXTENDS MessageQueue

CONSTANTS main, timer, worker, m1, m2, m3

MCProducers == {main, timer}
MCPackets == {m1, m2, m3}
=============================================================================
