---------------------------- MODULE MCSipWorker ----------------------------
(* Model-checking instances of SipWorker: the requests a caller may send on *)
(* a few branches.  All of them carry the From tag of one caller and, where *)
(* they belong to a dialog, the To tag the worker draws.                    *)
EXTENDS SipWorker, TLC

CONSTANTS x1, x2, x3, d1, d2, k1, k2, b1, b2, b3, tag, caller, id

Msg(method, b, cseq, to, i) ==
  [method |-> method, branch |-> b, cseq |-> cseq, from_tag |-> caller,
   to_tag |-> to, call_id |-> i]

Invite == Msg("INVITE", b1, 1, NULL, id)
AckOfFailed == Msg("ACK", b1, 2, NULL, id)      \* same branch as the INVITE
AckOfOk == Msg("ACK", b2, 2, tag, id)
Bye2 == Msg("BYE", b2, 3, tag, id)
Reinvite == Msg("INVITE", b2, 4, tag, id)
Options == Msg("OTHER", b2, 5, NULL, id)
InviteNoId == Msg("INVITE", b2, 1, NULL, NULL)  \* with an empty Call-ID
Rejected == Msg("UNKNOWN", b2, 1, NULL, id)     \* what parse_message refuses
Bye3 == Msg("BYE", b3, 3, tag, id)

Everything == {Invite, AckOfFailed, AckOfOk, Bye2, Reinvite, Options,
               InviteNoId, Rejected}
BasicCall == {Invite, AckOfFailed, AckOfOk, Bye2}
ByeTwice == {Invite, Bye2, Bye3}

Txns3 == {x1, x2, x3}
Txns2 == {x1, x2}
Dlgs2 == {d1, d2}
Dlgs1 == {d1}
Calls2 == {k1, k2}
Calls1 == {k1}
Branches3 == {b1, b2, b3}
Branches2 == {b1, b2}
OneTag == {tag}
AllFaults == {"send", "malloc", "timer"}
SendFaults == {"send"}

NoFaults == {}

\* Addresses are interchangeable: malloc may return any free one
Addresses == Permutations(Txns3) \cup Permutations(Dlgs2) \cup Permutations(Calls2)
Addresses2 == Permutations(Txns2) \cup Permutations(Dlgs2)
=============================================================================
