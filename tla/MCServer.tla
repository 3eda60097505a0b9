------------------------------ MODULE MCServer ------------------------------
(* Model-checking instance of Server: two workers and the requests of up to   *)
(* two calls, which go to different workers.  A call has an INVITE, an ACK    *)
(* and a later request, on two branches.  Two requests never get to a worker: *)
(* one has a Call-ID with a negative, odd sum, the other none.                *)
EXTENDS Server

CONSTANTS b1, b2

MCBranches == {b1, b2}

Msg(id, method, branch, cseq) ==
  [call_id |-> id, method |-> method, branch |-> branch, cseq |-> cseq]
One == <<98, 99>>
Two == <<98>>
Invite == Msg(One, "INVITE", b1, 1)
Ack == Msg(One, "ACK", b1, 2)
Bye == Msg(One, "OTHER", b2, 3)
Outside == Msg(<<-61>>, "OTHER", b1, 5)
Anonymous == Msg(NULL, "OTHER", b1, 6)

Other == Msg(Two, "OTHER", b1, 4)

MCRequests == {Invite, Ack, Bye, Other, Outside, Anonymous}
MCFaults == {"malloc", "timer"}
=============================================================================
