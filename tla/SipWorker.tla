----------------------------- MODULE SipWorker -----------------------------
(***************************************************************************)
(* One worker thread: sip_server.c over the transaction, dialog and call   *)
(* records of sip_utils.c, fed by its message queue.  The main thread puts *)
(* requests into the queue, the timer thread puts transaction-delete       *)
(* events into it; nobody else touches the worker's records.               *)
(*                                                                         *)
(* Records live at addresses.  Freed memory is kept as the zero record     *)
(* (create_* clears it with memset before use) and an address may be used  *)
(* again, so a pointer that outlives its record is visible.  The linked    *)
(* lists are sets and the pointer tables of a dialog and of a call are the *)
(* sets of their non-NULL entries: only which records they hold matters.   *)
(* A response is its status code, 0 before any response was built.  The    *)
(* queue is the bounded FIFO that MessageQueue is shown to implement.      *)
(***************************************************************************)
EXTENDS Integers, Sequences, FiniteSets

CONSTANTS
  TxnAddr, DlgAddr, CallAddr,   \* the heap: addresses of the records
  Branches,          \* Via branch parameters
  ToTags,            \* tags create_to_tag may draw
  Requests,          \* messages the peer may send (see Message)
  QueueCapacity,     \* capacity of worker->queue
  MaxTxnsPerDialog,  \* MAX_TXNS_PER_DIALOG, entries of dialog->transaction
  MaxPending,        \* model bound: events a branch may have pending on input
  Faults,            \* which calls may fail: "send", "malloc", "timer"
  NULL

TxnStates == {"IDLE", "PROCEEDING", "COMPLETED", "TERMINATED"}
DlgStates == {"IDLE", "EARLY", "CONFIRMED", "TERMINATED"}
CallStates == {"IDLE", "INCOMING", "RINGING", "ESTABLISHED", "FAILED",
               "TERMINATING", "TERMINATED"}
Codes == {0, 100, 180, 200, 403, 404, 500, 501}

\* What parse_message leaves in a sip_message_t.  cseq stands for the CSeq
\* header together with the source address, which process_sip_request compares
\* together; method UNKNOWN stands for every message the parser rejects, the
\* responses among them.  to_tag is NULL when To has no tag (whatever get_to_tag
\* makes of it, no dialog has drawn that tag), call_id is NULL when the Call-ID
\* header is empty.
Methods == {"INVITE", "ACK", "BYE", "OTHER", "UNKNOWN"}
IsMessage(m) ==
  /\ DOMAIN m = {"method", "branch", "cseq", "from_tag", "to_tag", "call_id"}
  /\ m.method \in Methods
  /\ m.branch \in Branches

ASSUME WorkerAssumption ==
  /\ NULL \notin TxnAddr \cup DlgAddr \cup CallAddr \cup Branches \cup ToTags \cup Requests
  /\ \A m \in Requests : IsMessage(m)
  /\ QueueCapacity \in Nat \ {0}
  /\ MaxTxnsPerDialog \in Nat \ {0}
  /\ MaxPending \in Nat
  /\ Faults \subseteq {"send", "malloc", "timer"}

VARIABLES
  transactions, txn,   \* worker->transactions, and the memory at TxnAddr
  dialogs, dlg,        \* worker->dialogs, and the memory at DlgAddr
  calls, call,         \* worker->calls, and the memory at CallAddr
  queue,               \* worker->queue, packets in FIFO order
  waitAck, delTimer,   \* per branch: armed transaction_wait_ack_timeout and
                       \* transaction_delete_timeout timers
  pc, cur,             \* the step the worker is at, and the transaction it serves
  lost,                \* history: transactions that lost a delete event
  unlisted             \* history: transactions that met a full dialog table

records == <<transactions, txn, dialogs, dlg, calls, call>>
timers == <<waitAck, delTimer, lost>>
vars == <<records, queue, timers, pc, cur, unlisted>>

ZeroTxn == [branch |-> NULL, state |-> "IDLE", dialog |-> NULL, message |-> NULL,
            ack_message |-> NULL, response |-> 0]
ZeroDlg == [from_tag |-> NULL, to_tag |-> NULL, state |-> "IDLE", call |-> NULL,
            transaction |-> {}]
ZeroCall == [call_id |-> NULL, state |-> "IDLE", dialog |-> {}]

Sip(m) == [type |-> "INCOMING_SIP", message |-> m]
Delete(b) == [type |-> "DELETE_TRANSACTION", branch |-> b]

Init ==
  /\ transactions = {} /\ txn = [t \in TxnAddr |-> ZeroTxn]
  /\ dialogs = {}      /\ dlg = [d \in DlgAddr |-> ZeroDlg]
  /\ calls = {}        /\ call = [c \in CallAddr |-> ZeroCall]
  /\ queue = <<>>
  /\ waitAck = [b \in Branches |-> 0]
  /\ delTimer = [b \in Branches |-> 0]
  /\ pc = "dequeue" /\ cur = NULL
  /\ lost = {} /\ unlisted = {}

\* Branches are unique, so this is at most one transaction
find_transaction_by_id(b) == {t \in transactions : txn[t].branch = b}

-----------------------------------------------------------------------------
\* The other threads

\* The events of branch b on their way to the worker, and the requests that
\* may still create some
PendingDelete(b) == \E i \in DOMAIN queue : queue[i] = Delete(b)
Backlog(b) ==
  waitAck[b] + delTimer[b]
  + Cardinality({i \in DOMAIN queue :
      queue[i] = Delete(b) \/ \E m \in Requests : m.branch = b /\ queue[i] = Sip(m)})

\* (mutation) enqueue_message without its test for a full queue
ReceiveUnbounded(m) ==
  /\ Backlog(m.branch) < MaxPending
  /\ queue' = Append(queue, Sip(m))
  /\ UNCHANGED <<records, timers, pc, cur, unlisted>>

\* handle_new_message selects this worker; a full queue drops the request
Receive(m) ==
  /\ Len(queue) < QueueCapacity
  /\ Backlog(m.branch) < MaxPending
  /\ queue' = Append(queue, Sip(m))
  /\ UNCHANGED <<records, timers, pc, cur, unlisted>>

\* (mutation) the wait-ACK timeout that does not arm the delete timer
WaitAckTimeoutForgets(b) ==
  /\ waitAck[b] > 0
  /\ waitAck' = [waitAck EXCEPT ![b] = @ - 1]
  /\ UNCHANGED <<records, queue, delTimer, lost, pc, cur, unlisted>>

\* transaction_wait_ack_timeout arms the delete timer, if it can
WaitAckTimeout(b) ==
  /\ waitAck[b] > 0
  /\ waitAck' = [waitAck EXCEPT ![b] = @ - 1]
  /\ \/ /\ delTimer' = [delTimer EXCEPT ![b] = @ + 1]
        /\ UNCHANGED lost
     \/ /\ "timer" \in Faults
        /\ lost' = lost \cup find_transaction_by_id(b)
        /\ UNCHANGED delTimer
  /\ UNCHANGED <<records, queue, pc, cur, unlisted>>

\* transaction_delete_timeout ignores the result of enqueue_message
DeleteTimeout(b) ==
  /\ delTimer[b] > 0
  /\ delTimer' = [delTimer EXCEPT ![b] = @ - 1]
  /\ \/ /\ Len(queue) < QueueCapacity
        /\ queue' = Append(queue, Delete(b))
        /\ UNCHANGED lost
     \/ /\ Len(queue) = QueueCapacity
        /\ lost' = lost \cup find_transaction_by_id(b)
        /\ UNCHANGED queue
  /\ UNCHANGED <<records, waitAck, pc, cur, unlisted>>

-----------------------------------------------------------------------------
\* sip_utils.c

\* The to_tag of a record is an array, never NULL: both tags have to match
find_dialog_by_id(m) ==
  {d \in dialogs : dlg[d].from_tag = m.from_tag /\ dlg[d].to_tag = m.to_tag}

\* malloc fails when it likes, and when the heap is used up
MallocFails(addr, used) == "malloc" \in Faults \/ addr \subseteq used

\* add_transaction_to_dialog: a full table leaves the transaction out
HasRoom(d, t) == t \in dlg[d].transaction
                 \/ Cardinality(dlg[d].transaction) < MaxTxnsPerDialog
ListIn(d, t) == IF HasRoom(d, t) THEN [dlg EXCEPT ![d].transaction = @ \cup {t}]
                                 ELSE dlg

\* The timer part of set_transaction_state for transactions T that enter
\* TERMINATED: one event each, none when malloc or timer_one_shot_add fails.
\* freed is the transaction this step deletes, if any.
StartDelete(T, freed) ==
  \E L \in SUBSET T :
    /\ L # {} => Faults \cap {"malloc", "timer"} # {}
    /\ delTimer' = [b \in Branches |->
         IF \E t \in T \ L : txn[t].branch = b THEN delTimer[b] + 1 ELSE delTimer[b]]
    /\ lost' = (lost \cup L) \ freed
    /\ UNCHANGED waitAck

\* ... and for a transaction that enters COMPLETED
StartWaitAck(t) ==
  \/ /\ waitAck' = [waitAck EXCEPT ![txn[t].branch] = @ + 1]
     /\ UNCHANGED <<delTimer, lost>>
  \/ /\ Faults \cap {"malloc", "timer"} # {}
     /\ lost' = lost \cup {t}
     /\ UNCHANGED <<waitAck, delTimer>>

\* (mutation) the test for "already in state" inverted
TerminatingInverted(T) == {t \in T : txn[t].state = "TERMINATED"}

\* set_transaction_state(t, TERMINATED) does nothing in that state already
Terminating(T) == {t \in T : txn[t].state # "TERMINATED"}

-----------------------------------------------------------------------------
\* process_sip_messages and process_sip_request

Dequeue(packet) ==
  /\ pc = "dequeue"
  /\ queue # <<>>
  /\ Head(queue) = packet
  /\ queue' = Tail(queue)

Handler(m) == CASE m.method = "INVITE" -> "invite"
                [] m.method = "ACK" -> "ack"
                [] m.method = "BYE" -> "bye"
                [] OTHER -> "other"

\* parse_message fails: the message is freed
DropUnparsable(m) ==
  /\ Dequeue(Sip(m))
  /\ m.method = "UNKNOWN"
  /\ UNCHANGED <<records, timers, pc, cur, unlisted>>

\* No memory for a transaction: 500 without one, the message is freed
DropRequest(m) ==
  /\ Dequeue(Sip(m))
  /\ m.method # "UNKNOWN"
  /\ find_transaction_by_id(m.branch) = {}
  /\ MallocFails(TxnAddr, transactions)
  /\ UNCHANGED <<records, timers, pc, cur, unlisted>>

\* Attach transaction t, whose record is about to be r, to the dialog of m
Attach(t, r, m) ==
  \/ /\ find_dialog_by_id(m) = {}
     /\ txn' = [txn EXCEPT ![t] = r]
     /\ UNCHANGED <<dlg, unlisted>>
  \/ \E d \in find_dialog_by_id(m) :
       /\ txn' = [txn EXCEPT ![t] = [r EXCEPT !.dialog = d]]
       /\ dlg' = ListIn(d, t)
       /\ unlisted' = IF HasRoom(d, t) THEN unlisted ELSE unlisted \cup {t}

NewTransaction(m) ==
  /\ Dequeue(Sip(m))
  /\ m.method # "UNKNOWN"
  /\ find_transaction_by_id(m.branch) = {}
  /\ \E t \in TxnAddr \ transactions :
       /\ transactions' = transactions \cup {t}
       /\ Attach(t, [ZeroTxn EXCEPT !.branch = m.branch, !.message = m], m)
       /\ cur' = t
  /\ pc' = Handler(m)
  /\ UNCHANGED <<dialogs, calls, call, timers>>

IsRetransmission(m, t) == m.cseq = txn[t].message.cseq

\* (mutation) a retransmission answered with 100 again
RetransmissionTrying(m) ==
  /\ Dequeue(Sip(m))
  /\ m.method # "UNKNOWN"
  /\ \E t \in find_transaction_by_id(m.branch) :
       /\ IsRetransmission(m, t)
       /\ txn' = [txn EXCEPT ![t].response = 100]
  /\ UNCHANGED <<transactions, dialogs, dlg, calls, call, timers, pc, cur, unlisted>>

\* send_last_response_over_transaction; if that fails (there is none, or
\* sendto fails) a 500 takes the place of the stored response
Retransmission(m) ==
  /\ Dequeue(Sip(m))
  /\ m.method # "UNKNOWN"
  /\ \E t \in find_transaction_by_id(m.branch) :
       /\ IsRetransmission(m, t)
       /\ \/ /\ txn[t].response # 0
             /\ UNCHANGED txn
          \/ /\ txn[t].response = 0 \/ "send" \in Faults
             /\ txn' = [txn EXCEPT ![t].response = 500]
  /\ UNCHANGED <<transactions, dialogs, dlg, calls, call, timers, pc, cur, unlisted>>

\* Another ACK on the branch of an INVITE goes to that transaction
AckForInvite(m) ==
  /\ Dequeue(Sip(m))
  /\ m.method = "ACK"
  /\ \E t \in find_transaction_by_id(m.branch) :
       /\ ~IsRetransmission(m, t)
       /\ txn[t].message.method = "INVITE"
       /\ \/ /\ txn[t].dialog = NULL
             /\ Attach(t, [txn[t] EXCEPT !.ack_message = m], m)
          \/ /\ txn[t].dialog # NULL
             /\ txn' = [txn EXCEPT ![t].ack_message = m]
             /\ UNCHANGED <<dlg, unlisted>>
       /\ cur' = t
  /\ pc' = "ack"
  /\ UNCHANGED <<transactions, dialogs, calls, call, timers>>

\* Any other request on a used branch is freed
DropMismatch(m) ==
  /\ Dequeue(Sip(m))
  /\ m.method # "UNKNOWN"
  /\ \E t \in find_transaction_by_id(m.branch) :
       /\ ~IsRetransmission(m, t)
       /\ ~(m.method = "ACK" /\ txn[t].message.method = "INVITE")
  /\ UNCHANGED <<records, timers, pc, cur, unlisted>>

-----------------------------------------------------------------------------
\* The method handlers.  cur is the transaction they are called with.

Return == pc' = "dequeue" /\ cur' = NULL

\* The error exits of process_invite_request: 500, then COMPLETED
FailInvite ==
  /\ txn' = [txn EXCEPT ![cur].response = 500, ![cur].state = "COMPLETED"]
  /\ StartWaitAck(cur)
  /\ Return
  /\ UNCHANGED <<transactions, queue, unlisted>>

\* A re-INVITE (the transaction has a dialog) is not handled
ReInvite ==
  /\ pc = "invite"
  /\ txn[cur].dialog # NULL
  /\ Return
  /\ UNCHANGED <<records, queue, timers, unlisted>>

InviteTrying ==
  /\ pc = "invite"
  /\ txn[cur].dialog = NULL
  /\ \/ /\ txn' = [txn EXCEPT ![cur].response = 100, ![cur].state = "PROCEEDING"]
        /\ pc' = "dialog"
        /\ UNCHANGED <<transactions, queue, timers, cur, unlisted>>
     \/ /\ "send" \in Faults
        /\ FailInvite
  /\ UNCHANGED <<dialogs, dlg, calls, call>>

\* create_new_dialog, set_transaction_dialog, EARLY
InviteDialog ==
  /\ pc = "dialog"
  /\ \/ \E d \in DlgAddr \ dialogs, tag \in ToTags :
          /\ dialogs' = dialogs \cup {d}
          /\ dlg' = [dlg EXCEPT ![d] = [from_tag |-> txn[cur].message.from_tag,
                       to_tag |-> tag, state |-> "EARLY", call |-> NULL,
                       transaction |-> {cur}]]
          /\ txn' = [txn EXCEPT ![cur].dialog = d]
          /\ pc' = "call"
          /\ UNCHANGED <<transactions, queue, timers, cur, unlisted>>
     \/ /\ MallocFails(DlgAddr, dialogs)
        /\ FailInvite
        /\ UNCHANGED <<dialogs, dlg>>
  /\ UNCHANGED <<calls, call>>

\* create_new_call, set_dialog_call, INCOMING
InviteCall ==
  /\ pc = "call"
  /\ LET d == txn[cur].dialog IN
     \/ /\ txn[cur].message.call_id # NULL
        /\ \E c \in CallAddr \ calls :
             /\ calls' = calls \cup {c}
             /\ call' = [call EXCEPT ![c] = [call_id |-> txn[cur].message.call_id,
                           state |-> "INCOMING", dialog |-> {d}]]
             /\ dlg' = [dlg EXCEPT ![d].call = c]
        /\ pc' = "ringing"
        /\ UNCHANGED <<transactions, txn, queue, timers, cur, unlisted>>
     \/ /\ txn[cur].message.call_id = NULL \/ MallocFails(CallAddr, calls)
        /\ FailInvite
        /\ dlg' = [dlg EXCEPT ![d].state = "TERMINATED"]
        /\ UNCHANGED <<calls, call>>
  /\ UNCHANGED dialogs

\* (mutation) the error exits without set_dialog_state
FailDialogEarly ==
  /\ "send" \in Faults
  /\ FailInvite
  /\ call' = [call EXCEPT ![dlg[txn[cur].dialog].call].state = "FAILED"]
  /\ UNCHANGED dlg

\* A response that could not be sent also ends the dialog and the call
FailDialog ==
  /\ "send" \in Faults
  /\ FailInvite
  /\ dlg' = [dlg EXCEPT ![txn[cur].dialog].state = "TERMINATED"]
  /\ call' = [call EXCEPT ![dlg[txn[cur].dialog].call].state = "FAILED"]

InviteRinging ==
  /\ pc = "ringing"
  /\ \/ /\ txn' = [txn EXCEPT ![cur].response = 180]
        /\ call' = [call EXCEPT ![dlg[txn[cur].dialog].call].state = "RINGING"]
        /\ pc' = "ok"
        /\ UNCHANGED <<transactions, dlg, queue, timers, cur, unlisted>>
     \/ FailDialog
  /\ UNCHANGED <<dialogs, calls>>

InviteOk ==
  /\ pc = "ok"
  /\ \/ /\ txn' = [txn EXCEPT ![cur].response = 200, ![cur].state = "TERMINATED"]
        /\ StartDelete({cur}, {})
        /\ dlg' = [dlg EXCEPT ![txn[cur].dialog].state = "CONFIRMED"]
        /\ call' = [call EXCEPT ![dlg[txn[cur].dialog].call].state = "ESTABLISHED"]
        /\ Return
        /\ UNCHANGED <<transactions, queue, unlisted>>
     \/ FailDialog
  /\ UNCHANGED <<dialogs, calls>>

\* The common end of the other handlers
Terminate(response) ==
  /\ txn' = [txn EXCEPT ![cur].response = response, ![cur].state = "TERMINATED"]
  /\ StartDelete(Terminating({cur}), {})
  /\ Return
  /\ UNCHANGED <<transactions, dialogs, calls, queue, unlisted>>

\* (mutation) ACK moves the transaction to COMPLETED
AckCompletes ==
  /\ pc = "ack"
  /\ txn' = [txn EXCEPT ![cur].state = "COMPLETED"]
  /\ StartWaitAck(cur)
  /\ Return
  /\ UNCHANGED <<transactions, dialogs, dlg, calls, call, queue, unlisted>>

\* process_ack_request sends nothing
Ack ==
  /\ pc = "ack"
  /\ Terminate(txn[cur].response)
  /\ UNCHANGED <<dlg, call>>

\* (mutation) BYE accepted whatever the state of the dialog
MayHangUpAlways(d) == d # NULL /\ dlg[d].call # NULL

\* BYE ends a call through its CONFIRMED dialog only
MayHangUp(d) == d # NULL /\ dlg[d].call # NULL /\ dlg[d].state = "CONFIRMED"

\* process_bye_request; the result of sending the answer is ignored
Bye ==
  /\ pc = "bye"
  /\ LET d == txn[cur].dialog IN
     \/ /\ d # NULL => dlg[d].call = NULL
        /\ Terminate(404)
        /\ UNCHANGED <<dlg, call>>
     \/ /\ MayHangUp(d)
        /\ call' = [call EXCEPT ![dlg[d].call].state = "TERMINATING"]
        /\ txn' = [txn EXCEPT ![cur].response = 200]
        /\ pc' = "hangup"
        /\ UNCHANGED <<transactions, dialogs, dlg, calls, queue, timers, cur, unlisted>>
     \/ /\ d # NULL /\ dlg[d].call # NULL
        /\ ~MayHangUp(d)
        /\ Terminate(403)
        /\ UNCHANGED <<dlg, call>>

\* (mutation) the dialog left CONFIRMED
ByeHangupCallOnly ==
  /\ pc = "hangup"
  /\ call' = [call EXCEPT ![dlg[txn[cur].dialog].call].state = "TERMINATED"]
  /\ Terminate(200)
  /\ UNCHANGED dlg

\* ... and after the 200: the call, then the dialog are TERMINATED
ByeHangup ==
  /\ pc = "hangup"
  /\ LET d == txn[cur].dialog IN
     /\ call' = [call EXCEPT ![dlg[d].call].state = "TERMINATED"]
     /\ dlg' = [dlg EXCEPT ![d].state = "TERMINATED"]
  /\ Terminate(200)

\* Any other known method
Unsupported ==
  /\ pc = "other"
  /\ Terminate(501)
  /\ UNCHANGED <<dlg, call>>

-----------------------------------------------------------------------------
\* delete_transaction

NoTransaction(b) ==
  /\ Dequeue(Delete(b))
  /\ find_transaction_by_id(b) = {}
  /\ UNCHANGED <<records, timers, pc, cur, unlisted>>

\* delete_call_by_pointer: the dialogs D the call still lists end with it.  mem
\* is the memory of the dialogs.
DeleteCall(c, D, mem) ==
  /\ calls' = calls \ {c}
  /\ call' = [call EXCEPT ![c] = ZeroCall]
  /\ dlg' = [e \in DlgAddr |->
       IF e \in D THEN [mem[e] EXCEPT !.state = "TERMINATED", !.call = NULL]
                  ELSE mem[e]]

\* (mutation) cleanup_transaction without remove_transaction_from_dialog
KeepDialogListed(t, d) ==
  /\ d \in dialogs => dlg[d].state # "TERMINATED"
  /\ txn' = [txn EXCEPT ![t] = ZeroTxn]
  /\ lost' = lost \ {t}
  /\ UNCHANGED <<dialogs, dlg, calls, call, waitAck, delTimer>>

\* (mutation) delete_transaction without the deletion of a TERMINATED dialog
KeepDialogAlways(t, d) ==
  /\ txn' = [txn EXCEPT ![t] = ZeroTxn]
  /\ dlg' = [e \in DlgAddr |->
       IF e = d THEN [dlg[e] EXCEPT !.transaction = @ \ {t}] ELSE dlg[e]]
  /\ lost' = lost \ {t}
  /\ UNCHANGED <<dialogs, calls, call, waitAck, delTimer>>

\* The dialog, if there is one, goes on without the transaction
KeepDialog(t, d) ==
  /\ d \in dialogs => dlg[d].state # "TERMINATED"
  /\ txn' = [txn EXCEPT ![t] = ZeroTxn]
  /\ dlg' = [e \in DlgAddr |->
       IF e = d THEN [dlg[e] EXCEPT !.transaction = @ \ {t}] ELSE dlg[e]]
  /\ lost' = lost \ {t}
  /\ UNCHANGED <<dialogs, calls, call, waitAck, delTimer>>

\* delete_dialog_by_pointer: the transactions the dialog lists are detached and
\* terminated; the call is deleted as well if it is TERMINATED
DeleteDialog(t, d) ==
  /\ d \in dialogs
  /\ dlg[d].state = "TERMINATED"
  /\ LET T == dlg[d].transaction \ {t}
         c == dlg[d].call
         mem == [dlg EXCEPT ![d] = ZeroDlg]
     IN
     /\ txn' = [u \in TxnAddr |->
          IF u = t THEN ZeroTxn
          ELSE IF u \in T THEN [txn[u] EXCEPT !.dialog = NULL, !.state = "TERMINATED"]
          ELSE txn[u]]
     /\ StartDelete(Terminating(T), {t})
     /\ dialogs' = dialogs \ {d}
     /\ \/ /\ c # NULL
           /\ call[c].state = "TERMINATED"
           /\ DeleteCall(c, call[c].dialog \ {d}, mem)
        \/ /\ c # NULL
           /\ call[c].state # "TERMINATED"
           /\ call' = [call EXCEPT ![c].dialog = @ \ {d}]
           /\ dlg' = mem
           /\ UNCHANGED calls
        \/ /\ c = NULL
           /\ dlg' = mem
           /\ UNCHANGED <<calls, call>>

\* The dialog was freed before: its memory may read as TERMINATED and its call
\* as any address, and only an address in the list of calls is deleted
DanglingDialog(t, d) ==
  /\ d # NULL
  /\ d \notin dialogs
  /\ \E c \in calls : call[c].state = "TERMINATED" /\ DeleteCall(c, call[c].dialog, dlg)
  /\ txn' = [txn EXCEPT ![t] = ZeroTxn]
  /\ lost' = lost \ {t}
  /\ UNCHANGED <<dialogs, waitAck, delTimer>>

DeleteTransaction(b) ==
  /\ Dequeue(Delete(b))
  /\ \E t \in find_transaction_by_id(b) :
       /\ transactions' = transactions \ {t}
       /\ unlisted' = unlisted \ {t}
       /\ LET d == txn[t].dialog IN
          KeepDialog(t, d) \/ DeleteDialog(t, d) \/ DanglingDialog(t, d)
  /\ UNCHANGED <<pc, cur>>

-----------------------------------------------------------------------------
Request(m) ==
  \/ DropUnparsable(m) \/ DropRequest(m) \/ NewTransaction(m)
  \/ Retransmission(m) \/ AckForInvite(m) \/ DropMismatch(m)

Handle ==
  \/ ReInvite \/ InviteTrying \/ InviteDialog \/ InviteCall \/ InviteRinging
  \/ InviteOk \/ Ack \/ Bye \/ ByeHangup \/ Unsupported

Worker ==
  \/ \E m \in Requests : Request(m)
  \/ Handle
  \/ \E b \in Branches : NoTransaction(b) \/ DeleteTransaction(b)

Next ==
  \/ Worker
  \/ \E m \in Requests : Receive(m)
  \/ \E b \in Branches : WaitAckTimeout(b) \/ DeleteTimeout(b)

Spec == Init /\ [][Next]_vars

(***************************************************************************)
(* The worker loop never stops (every call it makes returns: the socket is *)
(* non-blocking), and an armed timer expires and is served by the timer    *)
(* thread.  Nothing obliges the peer to send.                              *)
(***************************************************************************)
Fairness ==
  /\ WF_vars(Worker)
  /\ \A b \in Branches : WF_vars(WaitAckTimeout(b)) /\ WF_vars(DeleteTimeout(b))

FairSpec == Spec /\ Fairness

-----------------------------------------------------------------------------
TxnType == [branch : Branches \cup {NULL}, state : TxnStates,
            dialog : DlgAddr \cup {NULL}, message : Requests \cup {NULL},
            ack_message : Requests \cup {NULL}, response : Codes]
Tags == ToTags \cup {m.from_tag : m \in Requests} \cup {NULL}
DlgType == [from_tag : Tags, to_tag : Tags, state : DlgStates,
            call : CallAddr \cup {NULL}, transaction : SUBSET TxnAddr]
CallType == [call_id : {m.call_id : m \in Requests} \cup {NULL}, state : CallStates,
             dialog : SUBSET DlgAddr]
Packets == {Sip(m) : m \in Requests} \cup {Delete(b) : b \in Branches}

\* Records, queue and events keep their types; no queue grows past its capacity.
TypeOK ==
  /\ transactions \subseteq TxnAddr /\ txn \in [TxnAddr -> TxnType]
  /\ dialogs \subseteq DlgAddr      /\ dlg \in [DlgAddr -> DlgType]
  /\ calls \subseteq CallAddr       /\ call \in [CallAddr -> CallType]
  /\ queue \in Seq(Packets) /\ Len(queue) <= QueueCapacity
  /\ waitAck \in [Branches -> Nat]
  /\ delTimer \in [Branches -> Nat]
  /\ pc \in {"dequeue", "invite", "dialog", "call", "ringing", "ok", "ack", "bye", "hangup",
           "other"}
  /\ cur \in transactions \cup {NULL}
  /\ lost \subseteq transactions
  /\ unlisted \subseteq transactions

Finished(t) == t \in transactions /\ txn[t].state \in {"COMPLETED", "TERMINATED"}

\* A delete event of branch b is on its way to the worker
Reaper(b) == waitAck[b] > 0 \/ delTimer[b] > 0 \/ PendingDelete(b)

\* cleanup_transaction, cleanup_dialog and cleanup_call leave no pointer to what
\* they free: what a dialog lists are live transactions that point back at it,
\* what a call lists are live dialogs that point back at it, and vice versa.
\* (A transaction that met a full dialog table is the known exception.)
NoDanglingPointer ==
  /\ \A t \in transactions \ unlisted :
       txn[t].dialog # NULL => /\ txn[t].dialog \in dialogs
                               /\ t \in dlg[txn[t].dialog].transaction
  /\ \A d \in dialogs :
       /\ \A t \in dlg[d].transaction : t \in transactions /\ txn[t].dialog = d
       /\ dlg[d].call # NULL => dlg[d].call \in calls /\ d \in call[dlg[d].call].dialog
  /\ \A c \in calls : \A d \in call[c].dialog : d \in dialogs /\ dlg[d].call = c

\* Every transaction the worker is done with will be freed: it is finished and
\* set_transaction_state has a delete event under way for its branch (one was
\* never dropped), or it waits in the table of a live dialog whose end ends it.
NoOrphanTransaction ==
  \A t \in transactions \ (unlisted \cup {cur}) :
    \/ Finished(t) /\ (Reaper(txn[t].branch) \/ t \in lost)
    \/ txn[t].state = "IDLE" /\ txn[t].dialog \in dialogs

\* Between two packets every dialog is CONFIRMED and has an ESTABLISHED call, or
\* is TERMINATED and some finished transaction still points at it, so that
\* delete_transaction reaches it; no error path leaves an EARLY dialog behind.
NoOrphanDialog ==
  pc = "dequeue" =>
    \A d \in dialogs :
      \/ /\ dlg[d].state = "CONFIRMED"
         /\ dlg[d].call # NULL
         /\ call[dlg[d].call].state = "ESTABLISHED"
      \/ /\ dlg[d].state = "TERMINATED"
         /\ \E t \in transactions : Finished(t) /\ txn[t].dialog = d

\* Between two packets an ESTABLISHED call has a CONFIRMED dialog, through which
\* BYE can end it, and a TERMINATED call a TERMINATED dialog, which takes the call
\* with it.  (A FAILED call stays in the list for ever: only TERMINATED ones are deleted.)
NoOrphanCall ==
  pc = "dequeue" =>
    \A c \in calls :
      \/ call[c].state = "FAILED"
      \/ /\ call[c].state = "ESTABLISHED"
         /\ \E d \in call[c].dialog : dlg[d].state = "CONFIRMED"
      \/ /\ call[c].state = "TERMINATED"
         /\ \E d \in call[c].dialog : dlg[d].state = "TERMINATED"

\* The states a record may be in after the one it is in
TxnAfter(s) == CASE s = "IDLE" -> TxnStates
                 [] s = "PROCEEDING" -> TxnStates \ {"IDLE"}
                 [] s = "COMPLETED" -> {"COMPLETED", "TERMINATED"}
                 [] s = "TERMINATED" -> {"TERMINATED"}
CallAfter(s) == CASE s = "ESTABLISHED" -> {"ESTABLISHED", "TERMINATING", "TERMINATED"}
                  [] s = "TERMINATING" -> {"TERMINATING", "TERMINATED"}
                  [] s \in {"FAILED", "TERMINATED"} -> {s}
                  [] OTHER -> CallStates

\* No sequence of requests, retransmissions, ACKs and deletions takes a record
\* back: a finished transaction is not served again, a hung-up or failed call
\* does not ring or get established again, a live dialog does not leave TERMINATED.
StatesAdvance ==
  [][ /\ \A t \in transactions \cap transactions' : txn[t].state' \in TxnAfter(txn[t].state)
      /\ \A d \in dialogs \cap dialogs' :
           dlg[d].state = "TERMINATED" => dlg[d].state' = "TERMINATED"
      /\ \A c \in calls \cap calls' : call[c].state' \in CallAfter(call[c].state) ]_vars

\* A final response is not taken back while its transaction lives: what a
\* retransmission gets is the final response, unless resending it failed and
\* the 500 of process_sip_request has replaced it.
FinalResponseKept ==
  [][ \A t \in transactions \cap transactions' :
        txn[t].response >= 200 => txn[t].response' \in {txn[t].response, 500} ]_vars

\* "start timer for cleanup": a finished transaction is freed in the end, unless
\* the queue was full (or memory or a timer missing) when its event was due.
FinishedIsFreed ==
  \A t \in TxnAddr : Finished(t) ~> (t \notin transactions \/ t \in lost)

\* After BYE the dialog and the call go too: a TERMINATED dialog is freed in the
\* end, unless the delete event of a transaction of it was lost.
HungUpIsForgotten ==
  \A d \in DlgAddr :
    (d \in dialogs /\ dlg[d].state = "TERMINATED")
      ~> (d \notin dialogs \/ \E t \in transactions : txn[t].dialog = d /\ t \in lost)

-----------------------------------------------------------------------------
(* What the documentation says and the code does not do *)

\* README.md:26, a retransmitted request gets "Return latest response": serving
\* one does not make up a response that the transaction never gave.
RetransmissionReturnsLatest ==
  [][ \A m \in Requests, t \in transactions :
        /\ Dequeue(Sip(m))
        /\ m.branch = txn[t].branch
        /\ m = txn[t].message
        => txn[t].response' = txn[t].response ]_vars

\* sip_utils.c:453, set_transaction_dialog "Adds a transaction to a dialog", so
\* that the end of the dialog reaches it: no transaction keeps a pointer to a
\* dialog that was freed.
DialogPointersLive ==
  \A t \in transactions : txn[t].dialog # NULL => txn[t].dialog \in dialogs
=============================================================================
