--------------------------- MODULE SipWorkerProofs ---------------------------
(***************************************************************************)
(* Proofs about SipWorker, for every heap, every set of requests, every    *)
(* queue capacity, table size and combination of faults.                   *)
(***************************************************************************)
EXTENDS SipWorker, SequenceTheorems, TLAPS

\* What the handlers may rely on: the transaction they serve is live, and it has
\* the dialog and the call that the steps before have given it.
HandlerInv ==
  /\ pc = "dequeue" <=> cur = NULL
  /\ \A t \in transactions : txn[t].message \in Requests /\ txn[t].branch \in Branches
  /\ pc \in {"invite", "bye"} => txn[cur].dialog \in dialogs \cup {NULL}
  /\ pc = "dialog" => txn[cur].dialog = NULL
  /\ pc \in {"call", "ringing", "ok", "hangup"} => txn[cur].dialog \in dialogs
  /\ pc = "call" => dlg[txn[cur].dialog].call = NULL
  /\ pc \in {"ringing", "ok", "hangup"} => dlg[txn[cur].dialog].call # NULL

\* The inductive invariant behind TypeOK and NoDanglingPointer: a handler keeps
\* the pointers consistent only because it starts from a live transaction, and it
\* finds one only because the pointers are consistent.
PInv == TypeOK /\ HandlerInv /\ NoDanglingPointer

LEMMA NullAddress ==
  /\ NULL \notin TxnAddr /\ NULL \notin DlgAddr /\ NULL \notin CallAddr
  /\ NULL \notin Requests /\ NULL \notin Branches /\ QueueCapacity \in Nat
  BY WorkerAssumption DEF WorkerAssumption

LEMMA PInvInit == Init => PInv
  BY WorkerAssumption
  DEF Init, PInv, TypeOK, HandlerInv, NoDanglingPointer, WorkerAssumption, TxnType, DlgType,
      CallType, ZeroTxn, ZeroDlg, ZeroCall, TxnStates, DlgStates, CallStates, Codes, Tags

-----------------------------------------------------------------------------
(* The types of the records the handlers write *)

LEMMA RequestFields ==
  ASSUME NEW m \in Requests
  PROVE  m.branch \in Branches /\ m.from_tag \in Tags
         /\ m.call_id \in {r.call_id : r \in Requests}
  BY WorkerAssumption DEF WorkerAssumption, IsMessage, Tags

LEMMA ZeroTypes == ZeroTxn \in TxnType /\ ZeroDlg \in DlgType /\ ZeroCall \in CallType
  BY DEF ZeroTxn, ZeroDlg, ZeroCall, TxnType, DlgType, CallType, TxnStates, DlgStates,
         CallStates, Codes, Tags

LEMMA TxnFinal ==
  ASSUME TypeOK, NEW t \in TxnAddr, NEW r \in Codes, NEW s \in TxnStates
  PROVE  [txn EXCEPT ![t].response = r, ![t].state = s] \in [TxnAddr -> TxnType]
  BY ZenonT(30) DEF TypeOK, TxnType

LEMMA TxnResponse ==
  ASSUME TypeOK, NEW t \in TxnAddr, NEW r \in Codes
  PROVE  [txn EXCEPT ![t].response = r] \in [TxnAddr -> TxnType]
  BY DEF TypeOK, TxnType

LEMMA DlgState ==
  ASSUME TypeOK, NEW d \in DlgAddr, NEW s \in DlgStates
  PROVE  [dlg EXCEPT ![d].state = s] \in [DlgAddr -> DlgType]
  BY DEF TypeOK, DlgType

LEMMA CallState ==
  ASSUME TypeOK, NEW c \in CallAddr, NEW s \in CallStates
  PROVE  [call EXCEPT ![c].state = s] \in [CallAddr -> CallType]
  BY DEF TypeOK, CallType

LEMMA ListInType ==
  ASSUME TypeOK, NEW d \in DlgAddr, NEW t \in TxnAddr
  PROVE  ListIn(d, t) \in [DlgAddr -> DlgType]
  <1>1. [dlg EXCEPT ![d].transaction = @ \cup {t}] \in [DlgAddr -> DlgType]
    BY DEF TypeOK, DlgType
  <1> QED BY <1>1 DEF ListIn, TypeOK

LEMMA AttachType ==
  ASSUME TypeOK, NEW t \in TxnAddr, NEW r \in TxnType, NEW m, Attach(t, r, m)
  PROVE  /\ txn' \in [TxnAddr -> TxnType]
         /\ dlg' \in [DlgAddr -> DlgType]
         /\ unlisted' \subseteq unlisted \cup {t}
  <1>1. CASE /\ txn' = [txn EXCEPT ![t] = r]
             /\ UNCHANGED <<dlg, unlisted>>
    BY <1>1 DEF TypeOK
  <1>2. ASSUME NEW d \in dialogs,
               txn' = [txn EXCEPT ![t] = [r EXCEPT !.dialog = d]],
               dlg' = ListIn(d, t),
               unlisted' = IF HasRoom(d, t) THEN unlisted ELSE unlisted \cup {t}
        PROVE  /\ txn' \in [TxnAddr -> TxnType]
               /\ dlg' \in [DlgAddr -> DlgType]
               /\ unlisted' \subseteq unlisted \cup {t}
    <2>1. d \in DlgAddr
      BY DEF TypeOK
    <2>2. [r EXCEPT !.dialog = d] \in TxnType
      BY <2>1 DEF TxnType
    <2> QED BY <1>2, <2>1, <2>2, ListInType DEF TypeOK
  <1> QED BY <1>1, <1>2 DEF Attach, find_dialog_by_id

LEMMA DequeueType ==
  ASSUME TypeOK, NEW packet, Dequeue(packet)
  PROVE  pc = "dequeue" /\ queue' \in Seq(Packets) /\ Len(queue') <= QueueCapacity
  BY HeadTailProperties, NullAddress DEF TypeOK, Dequeue

LEMMA StartDeleteType ==
  ASSUME TypeOK, NEW T, NEW freed, T \subseteq transactions, StartDelete(T, freed)
  PROVE  /\ waitAck' \in [Branches -> Nat]
         /\ delTimer' \in [Branches -> Nat]
         /\ lost' \subseteq transactions \ freed
  <1>1. PICK L \in SUBSET T :
          /\ delTimer' = [b \in Branches |->
               IF \E t \in T \ L : txn[t].branch = b THEN delTimer[b] + 1 ELSE delTimer[b]]
          /\ lost' = (lost \cup L) \ freed
          /\ UNCHANGED waitAck
    BY DEF StartDelete
  <1>2. \A b \in Branches : delTimer[b] \in Nat
    BY DEF TypeOK
  <1>3. delTimer' \in [Branches -> Nat]
    BY <1>1, <1>2
  <1>4. lost' \subseteq transactions \ freed
    BY <1>1 DEF TypeOK
  <1> QED BY <1>1, <1>3, <1>4 DEF TypeOK

LEMMA StartWaitAckType ==
  ASSUME TypeOK, NEW t \in transactions, txn[t].branch \in Branches, StartWaitAck(t)
  PROVE  /\ waitAck' \in [Branches -> Nat] /\ delTimer' \in [Branches -> Nat]
         /\ lost' \subseteq transactions
  BY DEF TypeOK, StartWaitAck

-----------------------------------------------------------------------------
(* Every step keeps the types *)

LEMMA AppendType ==
  ASSUME TypeOK, NEW p \in Packets, Len(queue) < QueueCapacity
  PROVE  Append(queue, p) \in Seq(Packets) /\ Len(Append(queue, p)) <= QueueCapacity
  BY AppendProperties, LenProperties, NullAddress DEF TypeOK

\* The other threads only touch the queue and the timers
LEMMA OthersType ==
  ASSUME TypeOK,
         \/ \E m \in Requests : Receive(m)
         \/ \E b \in Branches : WaitAckTimeout(b) \/ DeleteTimeout(b)
  PROVE  TypeOK' /\ UNCHANGED <<records, pc, cur, unlisted>>
  <1>1. ASSUME NEW m \in Requests, Receive(m)
        PROVE  TypeOK' /\ UNCHANGED <<records, pc, cur, unlisted>>
    <2>1. Sip(m) \in Packets
      BY DEF Packets
    <2>2. queue' \in Seq(Packets) /\ Len(queue') <= QueueCapacity
      BY <1>1, <2>1, AppendType DEF Receive
    <2> QED BY <1>1, <2>2 DEF TypeOK, Receive, records, timers
  <1>2. ASSUME NEW b \in Branches, WaitAckTimeout(b)
        PROVE  TypeOK' /\ UNCHANGED <<records, pc, cur, unlisted>>
    <2>1. waitAck' \in [Branches -> Nat]
      BY <1>2 DEF TypeOK, WaitAckTimeout
    <2>2. delTimer' \in [Branches -> Nat]
      <3>1. [delTimer EXCEPT ![b] = @ + 1] \in [Branches -> Nat]
        BY DEF TypeOK
      <3> QED BY <1>2, <3>1 DEF TypeOK, WaitAckTimeout
    <2>3. lost' \subseteq transactions
      BY <1>2 DEF TypeOK, WaitAckTimeout, find_transaction_by_id
    <2> QED BY <1>2, <2>1, <2>2, <2>3 DEF TypeOK, WaitAckTimeout, records
  <1>3. ASSUME NEW b \in Branches, DeleteTimeout(b)
        PROVE  TypeOK' /\ UNCHANGED <<records, pc, cur, unlisted>>
    <2>1. Delete(b) \in Packets
      BY DEF Packets
    <2>2. delTimer' \in [Branches -> Nat]
      BY <1>3 DEF TypeOK, DeleteTimeout
    <2>3. lost' \subseteq transactions
      BY <1>3 DEF TypeOK, DeleteTimeout, find_transaction_by_id
    <2>4. queue' \in Seq(Packets) /\ Len(queue') <= QueueCapacity
      BY <1>3, <2>1, AppendType DEF TypeOK, DeleteTimeout
    <2> QED BY <1>3, <2>2, <2>3, <2>4 DEF TypeOK, DeleteTimeout, records
  <1> QED BY <1>1, <1>2, <1>3

LEMMA RequestType ==
  ASSUME TypeOK, NEW m \in Requests, Request(m)
  PROVE  TypeOK'
  <1>1. ASSUME NEW packet, Dequeue(packet),
               UNCHANGED <<records, timers, pc, cur, unlisted>>
        PROVE  TypeOK'
    BY <1>1, DequeueType DEF TypeOK, records, timers
  <1>2. CASE DropUnparsable(m) \/ DropRequest(m) \/ DropMismatch(m)
    BY <1>1, <1>2 DEF DropUnparsable, DropRequest, DropMismatch
  <1>3. CASE NewTransaction(m)
    <2>1. PICK t \in TxnAddr \ transactions :
            /\ transactions' = transactions \cup {t}
            /\ Attach(t, [ZeroTxn EXCEPT !.branch = m.branch, !.message = m], m)
            /\ cur' = t
      BY <1>3 DEF NewTransaction
    <2>2. [ZeroTxn EXCEPT !.branch = m.branch, !.message = m] \in TxnType
      BY RequestFields, ZenonT(30) DEF ZeroTxn, TxnType, TxnStates, Codes
    <2>3. /\ txn' \in [TxnAddr -> TxnType] /\ dlg' \in [DlgAddr -> DlgType]
          /\ unlisted' \subseteq transactions'
      BY <2>1, <2>2, AttachType DEF TypeOK
    <2>4. pc' \in {"invite", "ack", "bye", "other"}
      BY <1>3 DEF NewTransaction, Handler
    <2>5. queue' \in Seq(Packets) /\ Len(queue') <= QueueCapacity
      BY <1>3, DequeueType DEF NewTransaction
    <2> QED BY <1>3, <2>1, <2>3, <2>4, <2>5 DEF NewTransaction, TypeOK, timers
  <1>4. CASE Retransmission(m)
    <2>1. txn' \in [TxnAddr -> TxnType]
      <3>1. PICK t \in transactions :
              txn' = txn \/ txn' = [txn EXCEPT ![t].response = 500]
        BY <1>4 DEF Retransmission, find_transaction_by_id
      <3>2. t \in TxnAddr /\ 500 \in Codes
        BY DEF TypeOK, Codes
      <3>3. [txn EXCEPT ![t].response = 500] \in [TxnAddr -> TxnType]
        BY <3>2, TxnResponse
      <3> QED BY <3>1, <3>3, ZenonT(30) DEF TypeOK
    <2>2. queue' \in Seq(Packets) /\ Len(queue') <= QueueCapacity
      BY <1>4, DequeueType DEF Retransmission
    <2> QED BY <1>4, <2>1, <2>2 DEF Retransmission, TypeOK, timers
  <1>5. CASE AckForInvite(m)
    <2>1. PICK t \in find_transaction_by_id(m.branch) :
            /\ \/ Attach(t, [txn[t] EXCEPT !.ack_message = m], m)
               \/ /\ txn' = [txn EXCEPT ![t].ack_message = m]
                  /\ UNCHANGED <<dlg, unlisted>>
            /\ cur' = t
      BY <1>5 DEF AckForInvite
    <2>2. t \in transactions /\ t \in TxnAddr
      BY <2>1 DEF find_transaction_by_id, TypeOK
    <2>3. [txn[t] EXCEPT !.ack_message = m] \in TxnType
      BY <2>2 DEF TypeOK, TxnType
    <2>4. /\ txn' \in [TxnAddr -> TxnType] /\ dlg' \in [DlgAddr -> DlgType]
          /\ unlisted' \subseteq transactions
      <3>1. CASE Attach(t, [txn[t] EXCEPT !.ack_message = m], m)
        BY <2>2, <2>3, <3>1, AttachType DEF TypeOK
      <3>2. CASE /\ txn' = [txn EXCEPT ![t].ack_message = m]
                 /\ UNCHANGED <<dlg, unlisted>>
        BY <2>2, <2>3, <3>2 DEF TypeOK
      <3> QED BY <2>1, <3>1, <3>2
    <2>5. queue' \in Seq(Packets) /\ Len(queue') <= QueueCapacity
      BY <1>5, DequeueType DEF AckForInvite
    <2> QED BY <1>5, <2>1, <2>2, <2>4, <2>5 DEF AckForInvite, TypeOK, timers
  <1> QED BY <1>2, <1>3, <1>4, <1>5 DEF Request

\* A handler serves a live transaction
LEMMA Serving ==
  ASSUME TypeOK, HandlerInv, pc # "dequeue"
  PROVE  /\ cur \in transactions /\ cur \in TxnAddr
         /\ txn[cur] \in TxnType
         /\ txn[cur].message \in Requests /\ txn[cur].branch \in Branches
  BY DEF TypeOK, HandlerInv

LEMMA FailInviteType ==
  ASSUME TypeOK, HandlerInv, pc # "dequeue", FailInvite
  PROVE  /\ txn' \in [TxnAddr -> TxnType]
         /\ waitAck' \in [Branches -> Nat] /\ delTimer' \in [Branches -> Nat]
         /\ lost' \subseteq transactions
         /\ pc' = "dequeue" /\ cur' = NULL
         /\ UNCHANGED <<transactions, queue, unlisted>>
  <1>1. 500 \in Codes /\ "COMPLETED" \in TxnStates
    BY DEF Codes, TxnStates
  <1>2. txn' \in [TxnAddr -> TxnType]
    BY <1>1, Serving, TxnFinal DEF FailInvite
  <1> QED BY <1>2, Serving, StartWaitAckType DEF FailInvite, Return

LEMMA TerminateType ==
  ASSUME TypeOK, HandlerInv, pc # "dequeue", NEW r \in Codes, Terminate(r)
  PROVE  /\ txn' \in [TxnAddr -> TxnType]
         /\ waitAck' \in [Branches -> Nat] /\ delTimer' \in [Branches -> Nat]
         /\ lost' \subseteq transactions
         /\ pc' = "dequeue" /\ cur' = NULL
         /\ UNCHANGED <<transactions, dialogs, calls, queue, unlisted>>
  <1>1. "TERMINATED" \in TxnStates
    BY DEF TxnStates
  <1>2. txn' \in [TxnAddr -> TxnType]
    BY <1>1, Serving, TxnFinal DEF Terminate
  <1>3. Terminating({cur}) \subseteq transactions
    BY Serving DEF Terminating
  <1>4. StartDelete(Terminating({cur}), {})
    BY DEF Terminate
  <1>5. /\ waitAck' \in [Branches -> Nat] /\ delTimer' \in [Branches -> Nat]
        /\ lost' \subseteq transactions
    BY <1>3, <1>4, StartDeleteType
  <1> QED BY <1>2, <1>5 DEF Terminate, Return

\* In a step with a dialog and a call, both are addresses
LEMMA DialogAddress ==
  ASSUME TypeOK, HandlerInv, pc \in {"call", "ringing", "ok", "hangup"}
  PROVE  /\ txn[cur].dialog \in DlgAddr
         /\ pc # "call" => dlg[txn[cur].dialog].call \in CallAddr
  <1>1. txn[cur].dialog \in DlgAddr
    BY DEF HandlerInv, TypeOK
  <1>2. dlg[txn[cur].dialog].call \in CallAddr \cup {NULL}
    BY <1>1 DEF TypeOK, DlgType
  <1> QED BY <1>1, <1>2 DEF HandlerInv

LEMMA FailDialogType ==
  ASSUME TypeOK, HandlerInv, pc \in {"ringing", "ok"}, FailDialog,
         UNCHANGED <<dialogs, calls>>
  PROVE  TypeOK'
  <1>1. dlg' \in [DlgAddr -> DlgType]
    <2>1. "TERMINATED" \in DlgStates
      BY DEF DlgStates
    <2> QED BY <2>1, DialogAddress, DlgState DEF FailDialog
  <1>2. call' \in [CallAddr -> CallType]
    <2>1. "FAILED" \in CallStates
      BY DEF CallStates
    <2> QED BY <2>1, DialogAddress, CallState DEF FailDialog
  <1> QED BY <1>1, <1>2, FailInviteType DEF FailDialog, TypeOK

LEMMA HandleType ==
  ASSUME TypeOK, HandlerInv, Handle
  PROVE  TypeOK'
  <1>1. CASE ReInvite
    BY <1>1 DEF ReInvite, Return, records, timers, TypeOK
  <1>2. CASE InviteTrying
    <2>1. ASSUME txn' = [txn EXCEPT ![cur].response = 100, ![cur].state = "PROCEEDING"],
                 pc' = "dialog", UNCHANGED <<transactions, queue, timers, cur, unlisted>>
          PROVE  TypeOK'
      <3>1. 100 \in Codes /\ "PROCEEDING" \in TxnStates
        BY DEF Codes, TxnStates
      <3>2. txn' \in [TxnAddr -> TxnType]
        BY <1>2, <2>1, <3>1, Serving, TxnFinal DEF InviteTrying
      <3> QED BY <1>2, <2>1, <3>2 DEF InviteTrying, timers, TypeOK
    <2>2. CASE FailInvite
      BY <1>2, <2>2, FailInviteType DEF InviteTrying, TypeOK
    <2> QED BY <1>2, <2>1, <2>2 DEF InviteTrying
  <1>3. CASE InviteDialog
    <2>1. ASSUME NEW d \in DlgAddr \ dialogs, NEW tag \in ToTags,
                 dialogs' = dialogs \cup {d},
                 dlg' = [dlg EXCEPT ![d] = [from_tag |-> txn[cur].message.from_tag,
                           to_tag |-> tag, state |-> "EARLY", call |-> NULL,
                           transaction |-> {cur}]],
                 txn' = [txn EXCEPT ![cur].dialog = d],
                 pc' = "call", UNCHANGED <<transactions, queue, timers, cur, unlisted>>
          PROVE  TypeOK'
      <3>1. [from_tag |-> txn[cur].message.from_tag, to_tag |-> tag, state |-> "EARLY",
             call |-> NULL, transaction |-> {cur}] \in DlgType
        BY <1>3, Serving, RequestFields DEF InviteDialog, DlgType, DlgStates, Tags
      <3>2. dlg' \in [DlgAddr -> DlgType]
        BY <2>1, <3>1 DEF TypeOK
      <3>3. txn' \in [TxnAddr -> TxnType]
        BY <1>3, <2>1, Serving DEF InviteDialog, TypeOK, TxnType
      <3> QED BY <1>3, <2>1, <3>2, <3>3 DEF InviteDialog, timers, TypeOK
    <2>2. CASE FailInvite /\ UNCHANGED <<dialogs, dlg>>
      BY <1>3, <2>2, FailInviteType DEF InviteDialog, TypeOK
    <2> QED BY <1>3, <2>1, <2>2 DEF InviteDialog
  <1>4. CASE InviteCall
    <2> DEFINE d == txn[cur].dialog
    <2>1. d \in DlgAddr
      BY <1>4, DialogAddress DEF InviteCall
    <2>2. ASSUME NEW c \in CallAddr \ calls,
                 calls' = calls \cup {c},
                 call' = [call EXCEPT ![c] = [call_id |-> txn[cur].message.call_id,
                           state |-> "INCOMING", dialog |-> {d}]],
                 dlg' = [dlg EXCEPT ![d].call = c],
                 pc' = "ringing", UNCHANGED <<transactions, txn, queue, timers, cur, unlisted>>
          PROVE  TypeOK'
      <3>1. [call_id |-> txn[cur].message.call_id, state |-> "INCOMING", dialog |-> {d}]
              \in CallType
        BY <1>4, <2>1, Serving, RequestFields DEF InviteCall, CallType, CallStates
      <3>2. call' \in [CallAddr -> CallType]
        BY <2>2, <3>1 DEF TypeOK
      <3>3. dlg' \in [DlgAddr -> DlgType]
        BY <2>1, <2>2, ZenonT(30) DEF TypeOK, DlgType
      <3> QED BY <1>4, <2>2, <3>2, <3>3 DEF InviteCall, timers, TypeOK
    <2>3. CASE /\ FailInvite
               /\ dlg' = [dlg EXCEPT ![d].state = "TERMINATED"]
               /\ UNCHANGED <<calls, call>>
      <3>1. "TERMINATED" \in DlgStates
        BY DEF DlgStates
      <3>2. dlg' \in [DlgAddr -> DlgType]
        BY <2>1, <2>3, <3>1, DlgState
      <3> QED BY <1>4, <2>3, <3>2, FailInviteType DEF InviteCall, TypeOK
    <2> QED BY <1>4, <2>2, <2>3 DEF InviteCall
  <1>5. CASE InviteRinging
    <2>1. ASSUME txn' = [txn EXCEPT ![cur].response = 180],
                 call' = [call EXCEPT ![dlg[txn[cur].dialog].call].state = "RINGING"],
                 pc' = "ok", UNCHANGED <<transactions, dlg, queue, timers, cur, unlisted>>
          PROVE  TypeOK'
      <3>1. 180 \in Codes /\ "RINGING" \in CallStates
        BY DEF Codes, CallStates
      <3>2. txn' \in [TxnAddr -> TxnType]
        BY <1>5, <2>1, <3>1, Serving, TxnResponse DEF InviteRinging
      <3>3. call' \in [CallAddr -> CallType]
        BY <1>5, <2>1, <3>1, DialogAddress, CallState DEF InviteRinging
      <3> QED BY <1>5, <2>1, <3>2, <3>3 DEF InviteRinging, timers, TypeOK
    <2>2. CASE FailDialog
      BY <1>5, <2>2, FailDialogType DEF InviteRinging
    <2> QED BY <1>5, <2>1, <2>2 DEF InviteRinging
  <1>6. CASE InviteOk
    <2>1. ASSUME txn' = [txn EXCEPT ![cur].response = 200, ![cur].state = "TERMINATED"],
                 StartDelete({cur}, {}),
                 dlg' = [dlg EXCEPT ![txn[cur].dialog].state = "CONFIRMED"],
                 call' = [call EXCEPT ![dlg[txn[cur].dialog].call].state = "ESTABLISHED"],
                 Return, UNCHANGED <<transactions, queue, unlisted>>
          PROVE  TypeOK'
      <3>1. /\ 200 \in Codes /\ "TERMINATED" \in TxnStates
            /\ "CONFIRMED" \in DlgStates /\ "ESTABLISHED" \in CallStates
        BY DEF Codes, TxnStates, DlgStates, CallStates
      <3>2. txn' \in [TxnAddr -> TxnType]
        BY <1>6, <2>1, <3>1, Serving, TxnFinal DEF InviteOk
      <3>3. dlg' \in [DlgAddr -> DlgType]
        BY <1>6, <2>1, <3>1, DialogAddress, DlgState DEF InviteOk
      <3>4. call' \in [CallAddr -> CallType]
        BY <1>6, <2>1, <3>1, DialogAddress, CallState DEF InviteOk
      <3>5. {cur} \subseteq transactions
        BY <1>6, Serving DEF InviteOk
      <3>6. /\ waitAck' \in [Branches -> Nat] /\ delTimer' \in [Branches -> Nat]
            /\ lost' \subseteq transactions
        BY <2>1, <3>5, StartDeleteType
      <3> QED BY <1>6, <2>1, <3>2, <3>3, <3>4, <3>6 DEF InviteOk, Return, TypeOK
    <2>2. CASE FailDialog
      BY <1>6, <2>2, FailDialogType DEF InviteOk
    <2> QED BY <1>6, <2>1, <2>2 DEF InviteOk
  <1>7. CASE Ack
    <2>1. txn[cur].response \in Codes
      BY <1>7, Serving DEF Ack, TxnType
    <2> QED BY <1>7, <2>1, TerminateType DEF Ack, TypeOK
  <1>8. CASE Bye
    <2> DEFINE d == txn[cur].dialog
    <2>1. 404 \in Codes /\ 403 \in Codes /\ 200 \in Codes /\ "TERMINATING" \in CallStates
      BY DEF Codes, CallStates
    <2>2. CASE (Terminate(404) \/ Terminate(403)) /\ UNCHANGED <<dlg, call>>
      BY <1>8, <2>1, <2>2, TerminateType DEF Bye, TypeOK
    <2>3. CASE /\ MayHangUp(d)
               /\ call' = [call EXCEPT ![dlg[d].call].state = "TERMINATING"]
               /\ txn' = [txn EXCEPT ![cur].response = 200]
               /\ pc' = "hangup"
               /\ UNCHANGED <<transactions, dialogs, dlg, calls, queue, timers, cur, unlisted>>
      <3>1. d \in DlgAddr /\ dlg[d].call \in CallAddr
        <4>1. d \in DlgAddr
          BY <1>8, <2>3, Serving DEF Bye, MayHangUp, TxnType
        <4> QED BY <2>3, <4>1 DEF MayHangUp, TypeOK, DlgType
      <3>2. txn' \in [TxnAddr -> TxnType]
        BY <1>8, <2>1, <2>3, Serving, TxnResponse DEF Bye
      <3>3. call' \in [CallAddr -> CallType]
        BY <2>1, <2>3, <3>1, CallState
      <3> QED BY <2>3, <3>2, <3>3 DEF timers, TypeOK
    <2> QED BY <1>8, <2>2, <2>3 DEF Bye
  <1>9. CASE ByeHangup
    <2>1. 200 \in Codes /\ "TERMINATED" \in CallStates /\ "TERMINATED" \in DlgStates
      BY DEF Codes, CallStates, DlgStates
    <2>2. dlg' \in [DlgAddr -> DlgType]
      BY <1>9, <2>1, DialogAddress, DlgState DEF ByeHangup
    <2>3. call' \in [CallAddr -> CallType]
      BY <1>9, <2>1, DialogAddress, CallState DEF ByeHangup
    <2> QED BY <1>9, <2>1, <2>2, <2>3, TerminateType DEF ByeHangup, TypeOK
  <1>10. CASE Unsupported
    <2>1. 501 \in Codes
      BY DEF Codes
    <2> QED BY <1>10, <2>1, TerminateType DEF Unsupported, TypeOK
  <1> QED BY <1>1, <1>2, <1>3, <1>4, <1>5, <1>6, <1>7, <1>8, <1>9, <1>10 DEF Handle

LEMMA DeleteCallType ==
  ASSUME TypeOK, NEW c \in CallAddr, NEW D, NEW mem \in [DlgAddr -> DlgType],
         DeleteCall(c, D, mem)
  PROVE  /\ calls' \subseteq CallAddr /\ call' \in [CallAddr -> CallType]
         /\ dlg' \in [DlgAddr -> DlgType]
  <1>1. \A e \in DlgAddr : [mem[e] EXCEPT !.state = "TERMINATED", !.call = NULL] \in DlgType
    BY DEF DlgType, DlgStates
  <1>2. dlg' \in [DlgAddr -> DlgType]
    BY <1>1 DEF DeleteCall
  <1> QED BY <1>2, ZeroTypes DEF DeleteCall, TypeOK

LEMMA KeepDialogType ==
  ASSUME TypeOK, NEW t \in transactions, NEW d, KeepDialog(t, d)
  PROVE  /\ txn' \in [TxnAddr -> TxnType]
         /\ dialogs' \subseteq DlgAddr /\ dlg' \in [DlgAddr -> DlgType]
         /\ calls' \subseteq CallAddr /\ call' \in [CallAddr -> CallType]
         /\ waitAck' \in [Branches -> Nat] /\ delTimer' \in [Branches -> Nat]
         /\ lost' \subseteq transactions \ {t}
  <1>1. \A e \in DlgAddr : [dlg[e] EXCEPT !.transaction = @ \ {t}] \in DlgType
    BY DEF TypeOK, DlgType
  <1>2. dlg' \in [DlgAddr -> DlgType]
    BY <1>1 DEF KeepDialog, TypeOK
  <1>3. txn' \in [TxnAddr -> TxnType]
    BY ZeroTypes DEF KeepDialog, TypeOK
  <1> QED BY <1>2, <1>3 DEF KeepDialog, TypeOK

LEMMA DeleteDialogType ==
  ASSUME TypeOK, NoDanglingPointer, NEW t \in transactions, NEW d, DeleteDialog(t, d)
  PROVE  /\ txn' \in [TxnAddr -> TxnType]
         /\ dialogs' \subseteq DlgAddr /\ dlg' \in [DlgAddr -> DlgType]
         /\ calls' \subseteq CallAddr /\ call' \in [CallAddr -> CallType]
         /\ waitAck' \in [Branches -> Nat] /\ delTimer' \in [Branches -> Nat]
         /\ lost' \subseteq transactions \ {t}
  <1> DEFINE T == dlg[d].transaction \ {t}
             c == dlg[d].call
             mem == [dlg EXCEPT ![d] = ZeroDlg]
  <1>1. d \in dialogs /\ d \in DlgAddr
    BY DEF DeleteDialog, TypeOK
  <1>2. mem \in [DlgAddr -> DlgType]
    BY <1>1, ZeroTypes DEF TypeOK
  <1>3. c \in CallAddr \cup {NULL}
    BY <1>1 DEF TypeOK, DlgType
  <1>4. txn' \in [TxnAddr -> TxnType]
    <2>1. \A u \in TxnAddr :
            [txn[u] EXCEPT !.dialog = NULL, !.state = "TERMINATED"] \in TxnType
      BY DEF TypeOK, TxnType, TxnStates
    <2> QED BY <2>1, ZeroTypes DEF DeleteDialog, TypeOK
  <1>5. /\ waitAck' \in [Branches -> Nat] /\ delTimer' \in [Branches -> Nat]
        /\ lost' \subseteq transactions \ {t}
    <2>1. Terminating(T) \subseteq transactions
      BY <1>1 DEF NoDanglingPointer, Terminating
    <2>2. StartDelete(Terminating(T), {t})
      BY DEF DeleteDialog
    <2> QED BY <2>1, <2>2, StartDeleteType
  <1>6. /\ calls' \subseteq CallAddr /\ call' \in [CallAddr -> CallType]
        /\ dlg' \in [DlgAddr -> DlgType]
    <2>1. CASE c # NULL /\ DeleteCall(c, call[c].dialog \ {d}, mem)
      <3>1. c \in CallAddr
        BY <1>3, <2>1
      <3> QED BY <1>2, <2>1, <3>1, DeleteCallType
    <2>2. CASE /\ c # NULL /\ call' = [call EXCEPT ![c].dialog = @ \ {d}]
               /\ dlg' = mem /\ UNCHANGED calls
      <3>1. call' \in [CallAddr -> CallType]
        BY <1>3, <2>2 DEF TypeOK, CallType
      <3> QED BY <1>2, <2>2, <3>1 DEF TypeOK
    <2>3. CASE dlg' = mem /\ UNCHANGED <<calls, call>>
      BY <1>2, <2>3 DEF TypeOK
    <2> QED BY <2>1, <2>2, <2>3 DEF DeleteDialog
  <1>7. dialogs' \subseteq DlgAddr
    BY DEF DeleteDialog, TypeOK
  <1> QED BY <1>4, <1>5, <1>6, <1>7

LEMMA DanglingDialogType ==
  ASSUME TypeOK, NEW t \in transactions, NEW d, DanglingDialog(t, d)
  PROVE  /\ txn' \in [TxnAddr -> TxnType]
         /\ dialogs' \subseteq DlgAddr /\ dlg' \in [DlgAddr -> DlgType]
         /\ calls' \subseteq CallAddr /\ call' \in [CallAddr -> CallType]
         /\ waitAck' \in [Branches -> Nat] /\ delTimer' \in [Branches -> Nat]
         /\ lost' \subseteq transactions \ {t}
  <1>1. PICK c \in calls : DeleteCall(c, call[c].dialog, dlg)
    BY DEF DanglingDialog
  <1>2. c \in CallAddr /\ dlg \in [DlgAddr -> DlgType]
    BY DEF TypeOK
  <1>3. /\ calls' \subseteq CallAddr /\ call' \in [CallAddr -> CallType]
        /\ dlg' \in [DlgAddr -> DlgType]
    BY <1>1, <1>2, DeleteCallType
  <1>4. txn' \in [TxnAddr -> TxnType]
    BY ZeroTypes DEF DanglingDialog, TypeOK
  <1> QED BY <1>3, <1>4 DEF DanglingDialog, TypeOK

LEMMA DeleteType ==
  ASSUME TypeOK, HandlerInv, NoDanglingPointer, NEW b \in Branches,
         NoTransaction(b) \/ DeleteTransaction(b)
  PROVE  TypeOK'
  <1>1. CASE NoTransaction(b)
    BY <1>1, DequeueType DEF NoTransaction, TypeOK, records, timers
  <1>2. CASE DeleteTransaction(b)
    <2>1. PICK t \in transactions :
            /\ transactions' = transactions \ {t}
            /\ unlisted' = unlisted \ {t}
            /\ \/ KeepDialog(t, txn[t].dialog) \/ DeleteDialog(t, txn[t].dialog)
               \/ DanglingDialog(t, txn[t].dialog)
      BY <1>2 DEF DeleteTransaction, find_transaction_by_id
    <2>2. /\ pc = "dequeue" /\ pc' = pc /\ cur' = cur
          /\ queue' \in Seq(Packets) /\ Len(queue') <= QueueCapacity
      BY <1>2, DequeueType DEF DeleteTransaction
    <2>3. /\ txn' \in [TxnAddr -> TxnType]
          /\ dialogs' \subseteq DlgAddr /\ dlg' \in [DlgAddr -> DlgType]
          /\ calls' \subseteq CallAddr /\ call' \in [CallAddr -> CallType]
          /\ waitAck' \in [Branches -> Nat] /\ delTimer' \in [Branches -> Nat]
          /\ lost' \subseteq transactions \ {t}
      BY <2>1, KeepDialogType, DeleteDialogType, DanglingDialogType
    <2>4. cur' = NULL
      BY <2>2 DEF HandlerInv
    <2> QED BY <2>1, <2>2, <2>3, <2>4 DEF TypeOK
  <1> QED BY <1>1, <1>2

-----------------------------------------------------------------------------
(* Every step keeps the pointers consistent *)

\* A step that leaves the lists and the pointers between the records alone
LinksKept ==
  /\ UNCHANGED <<transactions, dialogs, calls, unlisted>>
  /\ \A t \in transactions : txn[t].dialog' = txn[t].dialog
  /\ \A d \in dialogs : /\ dlg[d].transaction' = dlg[d].transaction
                        /\ dlg[d].call' = dlg[d].call
  /\ \A c \in calls : call[c].dialog' = call[c].dialog

LEMMA LinksKeptEnough ==
  ASSUME NoDanglingPointer, LinksKept PROVE NoDanglingPointer'
  BY DEF NoDanglingPointer, LinksKept

\* The messages and branches of live transactions stay what they were
NamesKept ==
  /\ transactions' \subseteq transactions
  /\ \A t \in transactions' : /\ txn[t].message' = txn[t].message
                              /\ txn[t].branch' = txn[t].branch

\* Once the handler has returned, HandlerInv asks for no more than the names
LEMMA Returned ==
  ASSUME HandlerInv, NamesKept, pc' = "dequeue", cur' = NULL PROVE HandlerInv'
  BY DEF HandlerInv, NamesKept

LEMMA FailInviteLinks ==
  ASSUME TypeOK, HandlerInv, pc # "dequeue", FailInvite
  PROVE  /\ HandlerInv'
         /\ \A t \in transactions : txn[t].dialog' = txn[t].dialog
         /\ UNCHANGED <<transactions, unlisted>>
  <1>1. \A t \in transactions : /\ txn[t].dialog' = txn[t].dialog
                                /\ txn[t].message' = txn[t].message
                                /\ txn[t].branch' = txn[t].branch
    BY Serving DEF FailInvite, TypeOK, TxnType
  <1> QED BY <1>1, Returned DEF FailInvite, Return, NamesKept

LEMMA TerminateLinks ==
  ASSUME TypeOK, HandlerInv, pc # "dequeue", NEW r, Terminate(r)
  PROVE  /\ HandlerInv'
         /\ \A t \in transactions : txn[t].dialog' = txn[t].dialog
         /\ UNCHANGED <<transactions, dialogs, calls, unlisted>>
  <1>1. \A t \in transactions : /\ txn[t].dialog' = txn[t].dialog
                                /\ txn[t].message' = txn[t].message
                                /\ txn[t].branch' = txn[t].branch
    BY Serving DEF Terminate, TypeOK, TxnType
  <1> QED BY <1>1, Returned DEF Terminate, Return, NamesKept

\* Writing the state of a dialog or of a call leaves its pointers alone
LEMMA DlgStateLinks ==
  ASSUME TypeOK, NEW e \in DlgAddr, NEW s, dlg' = [dlg EXCEPT ![e].state = s]
  PROVE  \A d \in dialogs : /\ dlg[d].transaction' = dlg[d].transaction
                            /\ dlg[d].call' = dlg[d].call
  BY DEF TypeOK, DlgType

LEMMA CallStateLinks ==
  ASSUME TypeOK, NEW e \in CallAddr, NEW s, call' = [call EXCEPT ![e].state = s]
  PROVE  \A c \in calls : call[c].dialog' = call[c].dialog
  BY DEF TypeOK, CallType

LEMMA FailDialogLinks ==
  ASSUME PInv, pc \in {"ringing", "ok"}, FailDialog, UNCHANGED <<dialogs, calls>>
  PROVE  HandlerInv' /\ NoDanglingPointer'
  <1>1. /\ HandlerInv'
        /\ \A t \in transactions : txn[t].dialog' = txn[t].dialog
        /\ UNCHANGED <<transactions, unlisted>>
    BY FailInviteLinks DEF PInv, FailDialog
  <1>2. /\ \A d \in dialogs : /\ dlg[d].transaction' = dlg[d].transaction
                              /\ dlg[d].call' = dlg[d].call
        /\ \A c \in calls : call[c].dialog' = call[c].dialog
    BY DialogAddress, DlgStateLinks, CallStateLinks DEF PInv, FailDialog
  <1> QED BY <1>1, <1>2, LinksKeptEnough DEF LinksKept, PInv

LEMMA OthersLinks ==
  ASSUME PInv, UNCHANGED <<records, pc, cur, unlisted>>
  PROVE  HandlerInv' /\ NoDanglingPointer'
  BY DEF PInv, HandlerInv, NoDanglingPointer, records

\* Attach is the only place where a transaction enters the table of a dialog
\* that exists already; where there is no room it becomes unlisted.
LEMMA AttachLinks ==
  ASSUME PInv, NEW t \in TxnAddr, NEW r \in TxnType, NEW m, Attach(t, r, m),
         r.dialog = NULL, t \in transactions => txn[t].dialog = NULL,
         transactions' = transactions \cup {t}, UNCHANGED <<dialogs, calls, call>>
  PROVE  /\ NoDanglingPointer'
         /\ \A u \in transactions \ {t} : txn[u]' = txn[u]
         /\ txn[t]' = r \/ \E d \in dialogs : txn[t]' = [r EXCEPT !.dialog = d]
  <1> USE DEF PInv
  <1>0. \A d \in dialogs : d \in DlgAddr /\ t \notin dlg[d].transaction
    BY NullAddress DEF NoDanglingPointer, TypeOK
  <1>1. CASE txn' = [txn EXCEPT ![t] = r] /\ UNCHANGED <<dlg, unlisted>>
    <2>1. NoDanglingPointer'
      BY <1>0, <1>1 DEF TypeOK, NoDanglingPointer
    <2> QED BY <1>1, <2>1 DEF TypeOK
  <1>2. ASSUME NEW d \in dialogs,
               txn' = [txn EXCEPT ![t] = [r EXCEPT !.dialog = d]],
               dlg' = ListIn(d, t),
               unlisted' = IF HasRoom(d, t) THEN unlisted ELSE unlisted \cup {t}
        PROVE  /\ NoDanglingPointer'
               /\ \A u \in transactions \ {t} : txn[u]' = txn[u]
               /\ txn[t]' = [r EXCEPT !.dialog = d]
    <2>1. d \in DlgAddr
      BY <1>0
    <2>2. /\ \A u \in TxnAddr \ {t} : txn'[u] = txn[u]
          /\ txn'[t] = [r EXCEPT !.dialog = d] /\ txn'[t].dialog = d
      BY <1>2, <2>1 DEF TypeOK, TxnType
    <2>3. \A e \in dialogs : /\ dlg'[e].call = dlg[e].call
                             /\ e # d => dlg'[e].transaction = dlg[e].transaction
      BY <1>2, <2>1 DEF ListIn, TypeOK, DlgType
    <2>4. dlg'[d].transaction = IF HasRoom(d, t) THEN dlg[d].transaction \cup {t}
                                                 ELSE dlg[d].transaction
      BY <1>2, <2>1 DEF ListIn, TypeOK, DlgType
    <2>5. NoDanglingPointer'
      <3>1. ASSUME NEW u \in transactions' \ unlisted', txn'[u].dialog # NULL
            PROVE  txn'[u].dialog \in dialogs' /\ u \in dlg'[txn'[u].dialog].transaction
        <4>1. CASE u = t
          BY <1>2, <2>2, <2>4, <3>1, <4>1
        <4>2. CASE u # t
          <5>1. u \in transactions \ unlisted /\ txn'[u] = txn[u]
            BY <1>2, <2>2, <3>1, <4>2 DEF TypeOK
          <5>2. txn[u].dialog \in dialogs /\ u \in dlg[txn[u].dialog].transaction
            BY <3>1, <5>1 DEF NoDanglingPointer
          <5> QED BY <2>3, <2>4, <5>1, <5>2
        <4> QED BY <4>1, <4>2
      <3>2. ASSUME NEW e \in dialogs'
            PROVE  /\ \A u \in dlg'[e].transaction : u \in transactions' /\ txn'[u].dialog = e
                   /\ dlg'[e].call # NULL =>
                        dlg'[e].call \in calls' /\ e \in call'[dlg'[e].call].dialog
        <4>1. e \in dialogs /\ dlg'[e].call = dlg[e].call
          BY <2>3
        <4>2. \A u \in dlg[e].transaction : /\ u \in transactions \ {t} /\ u \in TxnAddr
                                           /\ txn[u].dialog = e
          BY <1>0, <4>1 DEF NoDanglingPointer, TypeOK
        <4>3. ASSUME NEW u \in dlg'[e].transaction
              PROVE  u \in transactions' /\ txn'[u].dialog = e
          <5>1. u \in dlg[e].transaction \/ (u = t /\ e = d)
            BY <2>3, <2>4, <4>1, <4>3
          <5> QED BY <2>2, <4>2, <5>1
        <4> QED BY <4>1, <4>3 DEF NoDanglingPointer
      <3>3. \A c \in calls' : \A e \in call'[c].dialog : e \in dialogs' /\ dlg'[e].call = c
        BY <2>3 DEF NoDanglingPointer
      <3> QED BY <3>1, <3>2, <3>3 DEF NoDanglingPointer
    <2> QED BY <2>2, <2>5 DEF TypeOK
  <1> QED BY <1>1, <1>2 DEF Attach, find_dialog_by_id

LEMMA RequestLinks ==
  ASSUME PInv, NEW m \in Requests, Request(m)
  PROVE  HandlerInv' /\ NoDanglingPointer'
  <1> USE DEF PInv
  <1>0. pc = "dequeue" /\ cur = NULL
    BY DEF Request, DropUnparsable, DropRequest, NewTransaction, Retransmission,
           AckForInvite, DropMismatch, Dequeue, HandlerInv
  <1>1. CASE DropUnparsable(m) \/ DropRequest(m) \/ DropMismatch(m)
    <2>1. UNCHANGED <<records, pc, cur, unlisted>>
      BY <1>1 DEF DropUnparsable, DropRequest, DropMismatch
    <2> QED BY <2>1, OthersLinks
  <1>2. CASE NewTransaction(m)
    <2> DEFINE r == [ZeroTxn EXCEPT !.branch = m.branch, !.message = m]
    <2>1. PICK t \in TxnAddr \ transactions :
            transactions' = transactions \cup {t} /\ Attach(t, r, m) /\ cur' = t
      BY <1>2 DEF NewTransaction
    <2>2. r \in TxnType /\ r.dialog = NULL /\ r.branch \in Branches /\ r.message \in Requests
      BY RequestFields DEF ZeroTxn, TxnType, TxnStates, Codes
    <2>3. UNCHANGED <<dialogs, calls, call>>
      BY <1>2 DEF NewTransaction
    <2>4. /\ NoDanglingPointer'
          /\ \A u \in transactions \ {t} : txn[u]' = txn[u]
          /\ txn[t]' = r \/ \E d \in dialogs : txn[t]' = [r EXCEPT !.dialog = d]
      BY <2>1, <2>2, <2>3, AttachLinks
    <2>5. /\ txn'[t].message = m /\ txn'[t].branch = m.branch
          /\ txn'[t].dialog \in dialogs \cup {NULL}
      BY <2>2, <2>4 DEF TxnType, ZeroTxn
    <2>6. pc' \in {"invite", "ack", "bye", "other"}
      BY <1>2 DEF NewTransaction, Handler
    <2>7. HandlerInv'
      <3>1. \A u \in transactions' : txn'[u].message \in Requests /\ txn'[u].branch \in Branches
        BY <2>1, <2>4, <2>5, RequestFields DEF HandlerInv
      <3>2. cur' # NULL
        BY <2>1, NullAddress
      <3> QED BY <2>1, <2>3, <2>5, <2>6, <3>1, <3>2 DEF HandlerInv
    <2> QED BY <2>4, <2>7
  <1>3. CASE Retransmission(m)
    <2>1. PICK t \in transactions :
            txn' = txn \/ txn' = [txn EXCEPT ![t].response = 500]
      BY <1>3 DEF Retransmission, find_transaction_by_id
    <2>2. \A u \in transactions : /\ txn[u].dialog' = txn[u].dialog
                                  /\ txn[u].message' = txn[u].message
                                  /\ txn[u].branch' = txn[u].branch
      BY <2>1, SMTT(20) DEF TypeOK, TxnType
    <2>3. LinksKept /\ NamesKept /\ pc' = "dequeue" /\ cur' = NULL
      BY <1>0, <1>3, <2>2 DEF Retransmission, LinksKept, NamesKept
    <2> QED BY <2>3, LinksKeptEnough, Returned
  <1>4. CASE AckForInvite(m)
    <2>1. PICK t \in find_transaction_by_id(m.branch) :
            /\ \/ /\ txn[t].dialog = NULL
                  /\ Attach(t, [txn[t] EXCEPT !.ack_message = m], m)
               \/ /\ txn[t].dialog # NULL
                  /\ txn' = [txn EXCEPT ![t].ack_message = m]
                  /\ UNCHANGED <<dlg, unlisted>>
            /\ cur' = t
      BY <1>4 DEF AckForInvite
    <2> DEFINE r == [txn[t] EXCEPT !.ack_message = m]
    <2>2. t \in transactions /\ t \in TxnAddr
      BY <2>1 DEF find_transaction_by_id, TypeOK
    <2>3. r \in TxnType /\ r.dialog = txn[t].dialog /\ r.message = txn[t].message
          /\ r.branch = txn[t].branch
      BY <2>2 DEF TypeOK, TxnType
    <2>4. UNCHANGED <<transactions, dialogs, calls, call>> /\ pc' = "ack"
      BY <1>4 DEF AckForInvite
    <2>5. CASE txn[t].dialog = NULL /\ Attach(t, r, m)
      <3>1. transactions' = transactions \cup {t}
        BY <2>2, <2>4
      <3>2. /\ NoDanglingPointer'
            /\ \A u \in transactions \ {t} : txn[u]' = txn[u]
            /\ txn[t]' = r \/ \E d \in dialogs : txn[t]' = [r EXCEPT !.dialog = d]
        BY <2>2, <2>3, <2>4, <2>5, <3>1, AttachLinks
      <3>3. txn'[t].message = txn[t].message /\ txn'[t].branch = txn[t].branch
        BY <2>3, <3>2 DEF TxnType
      <3>4. cur' # NULL
        BY <2>1, <2>2, NullAddress
      <3> QED BY <2>2, <2>4, <3>2, <3>3, <3>4 DEF HandlerInv
    <2>6. CASE /\ txn' = [txn EXCEPT ![t].ack_message = m]
               /\ UNCHANGED <<dlg, unlisted>>
      <3>1. \A u \in transactions : /\ txn[u].dialog' = txn[u].dialog
                                    /\ txn[u].message' = txn[u].message
                                    /\ txn[u].branch' = txn[u].branch
        BY <2>2, <2>6 DEF TypeOK, TxnType
      <3>2. LinksKept
        BY <2>4, <2>6, <3>1 DEF LinksKept
      <3>3. cur' # NULL
        BY <2>1, <2>2, NullAddress
      <3>4. HandlerInv'
        BY <2>4, <3>1, <3>3 DEF HandlerInv
      <3> QED BY <3>2, <3>4, LinksKeptEnough
    <2> QED BY <2>1, <2>5, <2>6
  <1> QED BY <1>1, <1>2, <1>3, <1>4 DEF Request

LEMMA InviteDialogLinks ==
  ASSUME PInv, pc = "dialog", NEW d \in DlgAddr \ dialogs, NEW tag,
         dialogs' = dialogs \cup {d},
         dlg' = [dlg EXCEPT ![d] = [from_tag |-> txn[cur].message.from_tag,
                   to_tag |-> tag, state |-> "EARLY", call |-> NULL,
                   transaction |-> {cur}]],
         txn' = [txn EXCEPT ![cur].dialog = d],
         pc' = "call", UNCHANGED <<transactions, cur, unlisted, calls, call>>
  PROVE  HandlerInv' /\ NoDanglingPointer'
  <1> USE DEF PInv
  <1>1. cur \in transactions /\ cur \in TxnAddr /\ txn[cur].dialog = NULL
    BY Serving DEF HandlerInv
  <1>2. /\ txn'[cur].dialog = d
        /\ \A t \in transactions : /\ txn'[t].message = txn[t].message
                                   /\ txn'[t].branch = txn[t].branch
                                   /\ t # cur => txn'[t].dialog = txn[t].dialog
    BY <1>1 DEF TypeOK, TxnType
  <1>3. /\ dlg'[d].call = NULL /\ dlg'[d].transaction = {cur}
        /\ \A e \in dialogs : dlg'[e] = dlg[e]
    BY DEF TypeOK
  <1>4. HandlerInv'
    BY <1>1, <1>2, <1>3 DEF HandlerInv
  <1>5. NoDanglingPointer'
    <2>1. ASSUME NEW t \in transactions \ unlisted, txn'[t].dialog # NULL
          PROVE  txn'[t].dialog \in dialogs' /\ t \in dlg'[txn'[t].dialog].transaction
      BY <1>1, <1>2, <1>3, <2>1 DEF NoDanglingPointer
    <2>2. ASSUME NEW e \in dialogs'
          PROVE  /\ \A t \in dlg'[e].transaction : t \in transactions /\ txn'[t].dialog = e
                 /\ dlg'[e].call # NULL => dlg'[e].call \in calls /\ e \in call[dlg'[e].call].dialog
      <3>1. CASE e = d
        BY <1>1, <1>2, <1>3, <3>1
      <3>2. CASE e \in dialogs
        <4>1. \A t \in dlg[e].transaction : t \in transactions /\ txn[t].dialog = e /\ t # cur
          BY <1>1, <3>2, NullAddress DEF NoDanglingPointer, TypeOK
        <4> QED BY <1>2, <1>3, <3>2, <4>1 DEF NoDanglingPointer
      <3> QED BY <3>1, <3>2
    <2>3. ASSUME NEW c \in calls, NEW e \in call[c].dialog
          PROVE  e \in dialogs' /\ dlg'[e].call = c
      BY <1>3 DEF NoDanglingPointer
    <2> QED BY <2>1, <2>2, <2>3 DEF NoDanglingPointer
  <1> QED BY <1>4, <1>5

LEMMA InviteCallLinks ==
  ASSUME PInv, pc = "call", NEW c \in CallAddr \ calls,
         calls' = calls \cup {c},
         call' = [call EXCEPT ![c] = [call_id |-> txn[cur].message.call_id,
                   state |-> "INCOMING", dialog |-> {txn[cur].dialog}]],
         dlg' = [dlg EXCEPT ![txn[cur].dialog].call = c],
         pc' = "ringing", UNCHANGED <<transactions, txn, cur, unlisted, dialogs>>
  PROVE  HandlerInv' /\ NoDanglingPointer'
  <1> USE DEF PInv
  <1> DEFINE d == txn[cur].dialog
  <1>1. d \in dialogs /\ d \in DlgAddr /\ dlg[d].call = NULL /\ cur \in transactions
    BY Serving DEF HandlerInv, TypeOK
  <1>2. /\ dlg'[d].call = c
        /\ \A e \in dialogs : /\ dlg'[e].transaction = dlg[e].transaction
                              /\ e # d => dlg'[e].call = dlg[e].call
    BY <1>1 DEF TypeOK, DlgType
  <1>3. call'[c].dialog = {d} /\ \A k \in calls : call'[k] = call[k]
    BY DEF TypeOK
  <1>4. HandlerInv'
    BY <1>1, <1>2, NullAddress DEF HandlerInv
  <1>5. NoDanglingPointer'
    <2>1. ASSUME NEW t \in transactions \ unlisted, txn[t].dialog # NULL
          PROVE  txn[t].dialog \in dialogs /\ t \in dlg'[txn[t].dialog].transaction
      BY <1>2, <2>1 DEF NoDanglingPointer
    <2>2. ASSUME NEW e \in dialogs
          PROVE  /\ \A t \in dlg'[e].transaction : t \in transactions /\ txn[t].dialog = e
                 /\ dlg'[e].call # NULL =>
                      dlg'[e].call \in calls' /\ e \in call'[dlg'[e].call].dialog
      <3>1. CASE e = d
        BY <1>1, <1>2, <1>3, <3>1 DEF NoDanglingPointer
      <3>2. CASE e # d
        BY <1>2, <1>3, <3>2 DEF NoDanglingPointer
      <3> QED BY <3>1, <3>2
    <2>3. ASSUME NEW k \in calls', NEW e \in call'[k].dialog
          PROVE  e \in dialogs /\ dlg'[e].call = k
      <3>1. CASE k = c
        BY <1>1, <1>2, <1>3, <3>1
      <3>2. CASE k \in calls
        <4>1. e \in dialogs /\ dlg[e].call = k /\ k # NULL
          BY <1>3, <3>2, NullAddress DEF NoDanglingPointer, TypeOK
        <4> QED BY <1>1, <1>2, <4>1
      <3> QED BY <3>1, <3>2
    <2> QED BY <2>1, <2>2, <2>3 DEF NoDanglingPointer
  <1> QED BY <1>4, <1>5

LEMMA HandleLinks ==
  ASSUME PInv, Handle
  PROVE  HandlerInv' /\ NoDanglingPointer'
  <1> USE DEF PInv
  <1>1. CASE ReInvite
    <2>1. LinksKept /\ NamesKept
      BY <1>1 DEF ReInvite, records, LinksKept, NamesKept
    <2> QED BY <1>1, <2>1, LinksKeptEnough, Returned DEF ReInvite, Return
  <1>2. CASE InviteTrying
    <2>1. CASE /\ txn' = [txn EXCEPT ![cur].response = 100, ![cur].state = "PROCEEDING"]
               /\ pc' = "dialog"
               /\ UNCHANGED <<transactions, cur, unlisted>>
      <3>1. \A t \in transactions : /\ txn[t].dialog' = txn[t].dialog
                                    /\ txn[t].message' = txn[t].message
                                    /\ txn[t].branch' = txn[t].branch
        BY <1>2, <2>1, Serving DEF InviteTrying, TypeOK, TxnType
      <3>2. LinksKept
        BY <1>2, <2>1, <3>1 DEF InviteTrying, LinksKept
      <3>3. HandlerInv'
        BY <1>2, <2>1, <3>1, Serving DEF InviteTrying, HandlerInv
      <3> QED BY <3>2, <3>3, LinksKeptEnough
    <2>2. CASE FailInvite
      <3>1. LinksKept /\ HandlerInv'
        BY <1>2, <2>2, FailInviteLinks DEF InviteTrying, LinksKept
      <3> QED BY <3>1, LinksKeptEnough
    <2> QED BY <1>2, <2>1, <2>2 DEF InviteTrying
  <1>3. CASE InviteDialog
    <2>1. CASE FailInvite /\ UNCHANGED <<dialogs, dlg>>
      <3>1. LinksKept /\ HandlerInv'
        BY <1>3, <2>1, FailInviteLinks DEF InviteDialog, LinksKept
      <3> QED BY <3>1, LinksKeptEnough
    <2> QED BY <1>3, <2>1, InviteDialogLinks DEF InviteDialog
  <1>4. CASE InviteCall
    <2>1. CASE /\ FailInvite
               /\ dlg' = [dlg EXCEPT ![txn[cur].dialog].state = "TERMINATED"]
               /\ UNCHANGED <<calls, call>>
      <3>1. \A d \in dialogs : /\ dlg[d].transaction' = dlg[d].transaction
                               /\ dlg[d].call' = dlg[d].call
        BY <1>4, <2>1, DialogAddress, DlgStateLinks DEF InviteCall
      <3>2. LinksKept /\ HandlerInv'
        BY <1>4, <2>1, <3>1, FailInviteLinks DEF InviteCall, LinksKept
      <3> QED BY <3>2, LinksKeptEnough
    <2> QED BY <1>4, <2>1, InviteCallLinks DEF InviteCall
  <1>5. CASE InviteRinging
    <2>1. CASE /\ txn' = [txn EXCEPT ![cur].response = 180]
               /\ call' = [call EXCEPT ![dlg[txn[cur].dialog].call].state = "RINGING"]
               /\ pc' = "ok"
               /\ UNCHANGED <<transactions, dlg, cur, unlisted>>
      <3>1. \A t \in transactions : /\ txn[t].dialog' = txn[t].dialog
                                    /\ txn[t].message' = txn[t].message
                                    /\ txn[t].branch' = txn[t].branch
        BY <1>5, <2>1, Serving DEF InviteRinging, TypeOK, TxnType
      <3>2. \A c \in calls : call[c].dialog' = call[c].dialog
        BY <1>5, <2>1, DialogAddress, CallStateLinks DEF InviteRinging
      <3>3. LinksKept
        BY <1>5, <2>1, <3>1, <3>2 DEF InviteRinging, LinksKept
      <3>4. HandlerInv'
        BY <1>5, <2>1, <3>1, Serving DEF InviteRinging, HandlerInv
      <3> QED BY <3>3, <3>4, LinksKeptEnough
    <2>2. CASE FailDialog
      BY <1>5, <2>2, FailDialogLinks DEF InviteRinging
    <2> QED BY <1>5, <2>1, <2>2 DEF InviteRinging
  <1>6. CASE InviteOk
    <2>1. CASE /\ txn' = [txn EXCEPT ![cur].response = 200, ![cur].state = "TERMINATED"]
               /\ dlg' = [dlg EXCEPT ![txn[cur].dialog].state = "CONFIRMED"]
               /\ call' = [call EXCEPT ![dlg[txn[cur].dialog].call].state = "ESTABLISHED"]
               /\ Return
               /\ UNCHANGED <<transactions, unlisted>>
      <3>1. \A t \in transactions : /\ txn[t].dialog' = txn[t].dialog
                                    /\ txn[t].message' = txn[t].message
                                    /\ txn[t].branch' = txn[t].branch
        BY <1>6, <2>1, Serving DEF InviteOk, TypeOK, TxnType
      <3>2. /\ \A d \in dialogs : /\ dlg[d].transaction' = dlg[d].transaction
                                  /\ dlg[d].call' = dlg[d].call
            /\ \A c \in calls : call[c].dialog' = call[c].dialog
        BY <1>6, <2>1, DialogAddress, DlgStateLinks, CallStateLinks DEF InviteOk
      <3>3. LinksKept /\ NamesKept
        BY <1>6, <2>1, <3>1, <3>2 DEF InviteOk, LinksKept, NamesKept
      <3> QED BY <2>1, <3>3, LinksKeptEnough, Returned DEF Return
    <2>2. CASE FailDialog
      BY <1>6, <2>2, FailDialogLinks DEF InviteOk
    <2> QED BY <1>6, <2>1, <2>2 DEF InviteOk
  <1>7. CASE Ack \/ Unsupported
    <2>1. LinksKept /\ HandlerInv'
      BY <1>7, TerminateLinks DEF Ack, Unsupported, LinksKept
    <2> QED BY <2>1, LinksKeptEnough
  <1>8. CASE Bye
    <2>1. CASE (Terminate(404) \/ Terminate(403)) /\ UNCHANGED <<dlg, call>>
      <3>1. LinksKept /\ HandlerInv'
        BY <1>8, <2>1, TerminateLinks DEF Bye, LinksKept
      <3> QED BY <3>1, LinksKeptEnough
    <2>2. CASE /\ MayHangUp(txn[cur].dialog)
               /\ call' = [call EXCEPT ![dlg[txn[cur].dialog].call].state = "TERMINATING"]
               /\ txn' = [txn EXCEPT ![cur].response = 200]
               /\ pc' = "hangup"
               /\ UNCHANGED <<transactions, dialogs, dlg, calls, cur, unlisted>>
      <3>1. txn[cur].dialog \in dialogs /\ dlg[txn[cur].dialog].call # NULL
        BY <1>8, <2>2 DEF Bye, MayHangUp, HandlerInv
      <3>2. dlg[txn[cur].dialog].call \in CallAddr
        BY <3>1 DEF NoDanglingPointer, TypeOK
      <3>3. \A t \in transactions : /\ txn[t].dialog' = txn[t].dialog
                                    /\ txn[t].message' = txn[t].message
                                    /\ txn[t].branch' = txn[t].branch
        BY <1>8, <2>2, Serving DEF Bye, TypeOK, TxnType
      <3>4. LinksKept
        BY <2>2, <3>2, <3>3, CallStateLinks DEF LinksKept
      <3>5. HandlerInv'
        BY <1>8, <2>2, <3>1, <3>3, Serving DEF Bye, HandlerInv
      <3> QED BY <3>4, <3>5, LinksKeptEnough
    <2> QED BY <1>8, <2>1, <2>2 DEF Bye
  <1>9. CASE ByeHangup
    <2>1. /\ \A d \in dialogs : /\ dlg[d].transaction' = dlg[d].transaction
                                /\ dlg[d].call' = dlg[d].call
          /\ \A c \in calls : call[c].dialog' = call[c].dialog
      BY <1>9, DialogAddress, DlgStateLinks, CallStateLinks DEF ByeHangup
    <2>2. LinksKept /\ HandlerInv'
      BY <1>9, <2>1, TerminateLinks DEF ByeHangup, LinksKept
    <2> QED BY <2>2, LinksKeptEnough
  <1> QED BY <1>1, <1>2, <1>3, <1>4, <1>5, <1>6, <1>7, <1>8, <1>9 DEF Handle


-----------------------------------------------------------------------------
(* Deletion: where a pointer could be left behind *)

\* A call that is deleted takes its dialogs out of the record of no other call:
\* they all point at it, so none of them is listed twice.
LEMMA DeleteCallLinks ==
  ASSUME PInv, NEW c \in calls, NEW mem, NEW G \in SUBSET dialogs,
         mem \in [DlgAddr -> DlgType], \A e \in dialogs \ G : mem[e] = dlg[e],
         DeleteCall(c, call[c].dialog \ G, mem)
  PROVE  /\ \A e \in dialogs \ G :
              /\ dlg'[e].transaction = dlg[e].transaction
              /\ dlg'[e].call # NULL => /\ dlg'[e].call = dlg[e].call
                                        /\ dlg[e].call \in calls \ {c}
         /\ \A k \in calls' : k # c /\ k \in calls /\ call'[k] = call[k]
         /\ \A k \in calls' : \A e \in call[k].dialog : e \notin G => dlg'[e].call = k
  <1> USE DEF PInv
  <1>0. calls' = calls \ {c} /\ call' = [call EXCEPT ![c] = ZeroCall]
    BY DEF DeleteCall
  <1>1. ASSUME NEW e \in dialogs \ G
        PROVE  /\ dlg'[e].transaction = dlg[e].transaction
               /\ e \in call[c].dialog => dlg'[e].call = NULL
               /\ e \notin call[c].dialog => dlg'[e].call = dlg[e].call
    <2>1. e \in DlgAddr /\ mem[e] = dlg[e] /\ dlg[e] \in DlgType
      BY DEF TypeOK
    <2>2. dlg'[e] = IF e \in call[c].dialog \ G
                    THEN [dlg[e] EXCEPT !.state = "TERMINATED", !.call = NULL] ELSE dlg[e]
      BY <2>1 DEF DeleteCall
    <2> QED BY <2>1, <2>2 DEF DlgType
  <1>2. ASSUME NEW e \in dialogs \ G, dlg'[e].call # NULL
        PROVE  dlg'[e].call = dlg[e].call /\ dlg[e].call \in calls \ {c}
    BY <1>1, <1>2 DEF NoDanglingPointer
  <1>3. \A k \in calls' : k # c /\ k \in calls /\ call'[k] = call[k]
    BY <1>0 DEF TypeOK
  <1>4. ASSUME NEW k \in calls', NEW e \in call[k].dialog, e \notin G
        PROVE  dlg'[e].call = k
    <2>1. e \in dialogs \ G /\ dlg[e].call = k /\ k # c
      BY <1>3, <1>4 DEF NoDanglingPointer
    <2>2. e \notin call[c].dialog
      BY <2>1 DEF NoDanglingPointer
    <2> QED BY <1>1, <2>1, <2>2
  <1> QED BY <1>1, <1>2, <1>3, <1>4

LEMMA KeepDialogLinks ==
  ASSUME PInv, NEW t \in transactions, KeepDialog(t, txn[t].dialog),
         transactions' = transactions \ {t}, unlisted' = unlisted \ {t}
  PROVE  NoDanglingPointer' /\ NamesKept
  <1> USE DEF PInv
  <1> DEFINE d == txn[t].dialog
  <1>1. \A u \in transactions' : u \in transactions /\ u # t /\ txn'[u] = txn[u]
    BY DEF KeepDialog, TypeOK
  <1>2. UNCHANGED <<dialogs, calls, call>>
    BY DEF KeepDialog
  <1>3. \A e \in dialogs : /\ dlg'[e].call = dlg[e].call
                           /\ dlg'[e].transaction = dlg[e].transaction \ {t}
    <2>1. ASSUME NEW e \in dialogs, e = d
          PROVE  /\ dlg'[e].call = dlg[e].call
                 /\ dlg'[e].transaction = dlg[e].transaction \ {t}
      BY <2>1 DEF KeepDialog, TypeOK, DlgType
    <2>2. ASSUME NEW e \in dialogs, e # d
          PROVE  dlg'[e] = dlg[e] /\ t \notin dlg[e].transaction
      BY <2>2 DEF KeepDialog, TypeOK, NoDanglingPointer
    <2> QED BY <2>1, <2>2
  <1>4. NamesKept
    BY <1>1 DEF NamesKept
  <1>5. NoDanglingPointer'
    <2>1. ASSUME NEW u \in transactions' \ unlisted', txn'[u].dialog # NULL
          PROVE  txn'[u].dialog \in dialogs /\ u \in dlg'[txn'[u].dialog].transaction
      BY <1>1, <1>3, <2>1 DEF NoDanglingPointer
    <2>2. ASSUME NEW e \in dialogs
          PROVE  /\ \A u \in dlg'[e].transaction : u \in transactions' /\ txn'[u].dialog = e
                 /\ dlg'[e].call # NULL => dlg'[e].call \in calls /\ e \in call[dlg'[e].call].dialog
      BY <1>1, <1>3 DEF NoDanglingPointer
    <2>3. ASSUME NEW k \in calls, NEW e \in call[k].dialog
          PROVE  e \in dialogs /\ dlg'[e].call = k
      BY <1>3 DEF NoDanglingPointer
    <2> QED BY <1>2, <2>1, <2>2, <2>3 DEF NoDanglingPointer
  <1> QED BY <1>4, <1>5

LEMMA DanglingDialogLinks ==
  ASSUME PInv, NEW t \in transactions, DanglingDialog(t, txn[t].dialog),
         transactions' = transactions \ {t}, unlisted' = unlisted \ {t}
  PROVE  NoDanglingPointer' /\ NamesKept
  <1> USE DEF PInv
  <1>0. UNCHANGED dialogs
    BY DEF DanglingDialog
  <1>1. \A u \in transactions' : u \in transactions /\ u # t /\ txn'[u] = txn[u]
    BY DEF DanglingDialog, TypeOK
  <1>2. \A e \in dialogs : t \notin dlg[e].transaction
    BY DEF DanglingDialog, NoDanglingPointer
  <1>3. PICK c \in calls : DeleteCall(c, call[c].dialog, dlg)
    BY DEF DanglingDialog
  <1>4. DeleteCall(c, call[c].dialog \ {}, dlg)
    BY <1>3 DEF DeleteCall
  <1>5. /\ \A e \in dialogs :
              /\ dlg'[e].transaction = dlg[e].transaction
              /\ dlg'[e].call # NULL => /\ dlg'[e].call = dlg[e].call
                                        /\ dlg[e].call \in calls \ {c}
        /\ \A k \in calls' : k # c /\ k \in calls /\ call'[k] = call[k]
        /\ \A k \in calls' : \A e \in call[k].dialog : dlg'[e].call = k
    <2> DEFINE G == {}
    <2>1. dlg \in [DlgAddr -> DlgType] /\ G \in SUBSET dialogs
      BY DEF TypeOK
    <2>2. DeleteCall(c, call[c].dialog \ G, dlg)
      BY <1>4
    <2>3. /\ \A e \in dialogs \ G :
               /\ dlg'[e].transaction = dlg[e].transaction
               /\ dlg'[e].call # NULL => /\ dlg'[e].call = dlg[e].call
                                         /\ dlg[e].call \in calls \ {c}
          /\ \A k \in calls' : k # c /\ k \in calls /\ call'[k] = call[k]
          /\ \A k \in calls' : \A e \in call[k].dialog : e \notin G => dlg'[e].call = k
      <3> HIDE DEF PInv, G
      <3> QED BY <2>1, <2>2, DeleteCallLinks
    <2> QED BY <2>3
  <1>6. calls' = calls \ {c}
    BY <1>3 DEF DeleteCall
  <1>7. NamesKept
    BY <1>1 DEF NamesKept
  <1>8. NoDanglingPointer'
    <2>1. ASSUME NEW u \in transactions' \ unlisted', txn'[u].dialog # NULL
          PROVE  txn'[u].dialog \in dialogs /\ u \in dlg'[txn'[u].dialog].transaction
      BY <1>1, <1>5, <2>1 DEF NoDanglingPointer
    <2>2. ASSUME NEW e \in dialogs
          PROVE  /\ \A u \in dlg'[e].transaction : u \in transactions' /\ txn'[u].dialog = e
                 /\ dlg'[e].call # NULL => dlg'[e].call \in calls' /\ e \in call'[dlg'[e].call].dialog
      BY <1>1, <1>2, <1>5, <1>6 DEF NoDanglingPointer
    <2>3. ASSUME NEW k \in calls', NEW e \in call'[k].dialog
          PROVE  e \in dialogs /\ dlg'[e].call = k
      BY <1>5 DEF NoDanglingPointer
    <2> QED BY <1>0, <2>1, <2>2, <2>3 DEF NoDanglingPointer
  <1> QED BY <1>7, <1>8

\* A deleted dialog leaves its call, or takes it along; in both cases the lists
\* of the dialogs and calls that remain agree.
LEMMA DeleteDialogCall ==
  ASSUME PInv, NEW t, NEW d, DeleteDialog(t, d)
  PROVE  /\ \A e \in dialogs \ {d} :
              /\ dlg'[e].transaction = dlg[e].transaction
              /\ dlg'[e].call # NULL => dlg'[e].call \in calls' /\ e \in call'[dlg'[e].call].dialog
         /\ \A k \in calls' : \A e \in call'[k].dialog :
              e \in dialogs \ {d} /\ dlg'[e].call = k
  <1> USE DEF PInv
  <1> DEFINE c == dlg[d].call
             mem == [dlg EXCEPT ![d] = ZeroDlg]
  <1>1. d \in dialogs /\ d \in DlgAddr
    BY DEF DeleteDialog, TypeOK
  <1>2. \A e \in dialogs \ {d} : mem[e] = dlg[e]
    BY DEF TypeOK
  <1>3. CASE c # NULL /\ DeleteCall(c, call[c].dialog \ {d}, mem)
    <2>1. c \in calls /\ {d} \in SUBSET dialogs /\ mem \in [DlgAddr -> DlgType]
      BY <1>1, <1>3, ZeroTypes DEF NoDanglingPointer, TypeOK
    <2>2. /\ \A e \in dialogs \ {d} :
               /\ dlg'[e].transaction = dlg[e].transaction
               /\ dlg'[e].call # NULL => /\ dlg'[e].call = dlg[e].call
                                         /\ dlg[e].call \in calls \ {c}
          /\ \A k \in calls' : k # c /\ k \in calls /\ call'[k] = call[k]
          /\ \A k \in calls' : \A e \in call[k].dialog : e \notin {d} => dlg'[e].call = k
      <3> HIDE DEF PInv, mem, c
      <3> QED BY <1>2, <1>3, <2>1, DeleteCallLinks
    <2>3. calls' = calls \ {c}
      BY <1>3 DEF DeleteCall
    <2>4. \A k \in calls' : d \notin call[k].dialog
      BY <2>2 DEF NoDanglingPointer
    <2>5. ASSUME NEW e \in dialogs \ {d}, dlg'[e].call # NULL
          PROVE  dlg'[e].call \in calls' /\ e \in call'[dlg'[e].call].dialog
      BY <2>2, <2>3, <2>5 DEF NoDanglingPointer
    <2>6. ASSUME NEW k \in calls', NEW e \in call'[k].dialog
          PROVE  e \in dialogs \ {d} /\ dlg'[e].call = k
      BY <2>2, <2>4 DEF NoDanglingPointer
    <2> QED BY <2>2, <2>5, <2>6
  <1>4. CASE /\ c # NULL
             /\ call' = [call EXCEPT ![c].dialog = @ \ {d}]
             /\ dlg' = mem
             /\ UNCHANGED calls
    <2>1. /\ \A k \in calls : call'[k].dialog = IF k = c THEN call[k].dialog \ {d}
                                                         ELSE call[k].dialog
      BY <1>4 DEF TypeOK, CallType
    <2>2. \A k \in calls : d \in call[k].dialog => k = c
      BY DEF NoDanglingPointer
    <2>3. ASSUME NEW e \in dialogs \ {d}, dlg[e].call # NULL
          PROVE  dlg[e].call \in calls /\ e \in call'[dlg[e].call].dialog
      BY <2>1, <2>3, ZenonT(30) DEF NoDanglingPointer
    <2>4. ASSUME NEW k \in calls, NEW e \in call'[k].dialog
          PROVE  e \in dialogs \ {d} /\ dlg[e].call = k
      <3>1. e \in call[k].dialog /\ e # d
        <4> HIDE DEF PInv, NoDanglingPointer
        <4>1. call'[k].dialog = IF k = c THEN call[k].dialog \ {d} ELSE call[k].dialog
          BY <2>1
        <4> QED BY <2>2, <4>1
      <3> QED BY <3>1 DEF NoDanglingPointer
    <2>5. calls' = calls /\ \A e \in dialogs \ {d} : dlg'[e] = dlg[e]
      BY <1>2, <1>4
    <2> HIDE DEF mem, c
    <2> QED BY <2>3, <2>4, <2>5
  <1>5. CASE c = NULL /\ dlg' = mem /\ UNCHANGED <<calls, call>>
    <2>1. \A k \in calls : d \notin call[k].dialog
      BY <1>5, NullAddress DEF NoDanglingPointer, TypeOK
    <2> QED BY <1>2, <1>5, <2>1 DEF NoDanglingPointer
  <1> QED BY <1>3, <1>4, <1>5 DEF DeleteDialog

LEMMA DeleteDialogLinks ==
  ASSUME PInv, NEW t \in transactions, DeleteDialog(t, txn[t].dialog),
         transactions' = transactions \ {t}, unlisted' = unlisted \ {t}
  PROVE  NoDanglingPointer' /\ NamesKept
  <1> USE DEF PInv
  <1> DEFINE d == txn[t].dialog
             T == dlg[d].transaction \ {t}
  <1>1. dialogs' = dialogs \ {d} /\ d \in dialogs /\ d # NULL
    BY NullAddress DEF DeleteDialog, TypeOK
  <1>2. /\ \A u \in transactions' :
             /\ txn'[u].message = txn[u].message /\ txn'[u].branch = txn[u].branch
             /\ u \in T => txn'[u].dialog = NULL
             /\ u \notin T => txn'[u].dialog = txn[u].dialog
    <2>1. ASSUME NEW u \in transactions'
          PROVE  txn'[u] = IF u \in T
                           THEN [txn[u] EXCEPT !.dialog = NULL, !.state = "TERMINATED"]
                           ELSE txn[u]
      BY DEF DeleteDialog, TypeOK
    <2>2. \A u \in transactions' : txn[u] \in TxnType
      BY DEF TypeOK
    <2> QED BY <2>1, <2>2 DEF TxnType
  <1>3. NamesKept
    BY <1>2 DEF NamesKept
  <1>4. /\ \A e \in dialogs \ {d} :
              /\ dlg'[e].transaction = dlg[e].transaction
              /\ dlg'[e].call # NULL => dlg'[e].call \in calls' /\ e \in call'[dlg'[e].call].dialog
        /\ \A k \in calls' : \A e \in call'[k].dialog :
              e \in dialogs \ {d} /\ dlg'[e].call = k
    BY DeleteDialogCall
  <1>5. ASSUME NEW u \in transactions' \ unlisted', txn'[u].dialog # NULL
        PROVE  txn'[u].dialog \in dialogs' /\ u \in dlg'[txn'[u].dialog].transaction
    <2>1. u \in transactions \ unlisted /\ u # t /\ u \notin T /\ txn'[u].dialog = txn[u].dialog
      BY <1>2, <1>5
    <2>2. txn[u].dialog \in dialogs /\ u \in dlg[txn[u].dialog].transaction
      BY <1>5, <2>1 DEF NoDanglingPointer
    <2>3. txn[u].dialog # d
      BY <2>1, <2>2
    <2> QED BY <1>1, <1>4, <2>1, <2>2, <2>3
  <1>6. ASSUME NEW e \in dialogs', NEW u \in dlg'[e].transaction
        PROVE  u \in transactions' /\ txn'[u].dialog = e
    <2>1. e \in dialogs /\ e # d /\ u \in dlg[e].transaction
      BY <1>1, <1>4
    <2>2. u \in transactions /\ txn[u].dialog = e /\ u # t
      BY <2>1 DEF NoDanglingPointer
    <2>3. u \notin T
      BY <1>1, <2>1, <2>2 DEF NoDanglingPointer
    <2> QED BY <1>2, <2>2, <2>3
  <1>7. NoDanglingPointer'
    BY <1>1, <1>4, <1>5, <1>6 DEF NoDanglingPointer
  <1> QED BY <1>3, <1>7

LEMMA DeleteLinks ==
  ASSUME PInv, NEW b \in Branches, NoTransaction(b) \/ DeleteTransaction(b)
  PROVE  HandlerInv' /\ NoDanglingPointer'
  <1>1. CASE NoTransaction(b)
    <2>1. UNCHANGED <<records, pc, cur, unlisted>>
      BY <1>1 DEF NoTransaction
    <2> QED BY <2>1, OthersLinks
  <1>2. CASE DeleteTransaction(b)
    <2>1. PICK t \in transactions :
            /\ transactions' = transactions \ {t}
            /\ unlisted' = unlisted \ {t}
            /\ \/ KeepDialog(t, txn[t].dialog) \/ DeleteDialog(t, txn[t].dialog)
               \/ DanglingDialog(t, txn[t].dialog)
      BY <1>2 DEF DeleteTransaction, find_transaction_by_id
    <2>2. NoDanglingPointer' /\ NamesKept
      BY <2>1, KeepDialogLinks, DeleteDialogLinks, DanglingDialogLinks
    <2>3. pc' = "dequeue" /\ cur' = NULL /\ HandlerInv
      BY <1>2 DEF DeleteTransaction, Dequeue, PInv, HandlerInv
    <2> QED BY <2>2, <2>3, Returned
  <1> QED BY <1>1, <1>2

-----------------------------------------------------------------------------
LEMMA PInvStep == PInv /\ [Next]_vars => PInv'
  <1> SUFFICES ASSUME PInv, [Next]_vars PROVE PInv'
    OBVIOUS
  <1>1. CASE \E m \in Requests : Request(m)
    BY <1>1, RequestType, RequestLinks DEF PInv
  <1>2. CASE Handle
    BY <1>2, HandleType, HandleLinks DEF PInv
  <1>3. CASE \E b \in Branches : NoTransaction(b) \/ DeleteTransaction(b)
    BY <1>3, DeleteType, DeleteLinks DEF PInv
  <1>4. CASE \/ \E m \in Requests : Receive(m)
             \/ \E b \in Branches : WaitAckTimeout(b) \/ DeleteTimeout(b)
    <2>1. TypeOK' /\ UNCHANGED <<records, pc, cur, unlisted>>
      BY <1>4, OthersType DEF PInv
    <2> QED BY <2>1, OthersLinks DEF PInv
  <1>5. CASE UNCHANGED vars
    <2>1. TypeOK' /\ UNCHANGED <<records, pc, cur, unlisted>>
      BY <1>5 DEF PInv, TypeOK, vars, records, timers
    <2> QED BY <2>1, OthersLinks DEF PInv
  <1> QED BY <1>1, <1>2, <1>3, <1>4, <1>5 DEF Next, Worker

LEMMA PInvInvariant == Spec => []PInv
  BY PInvInit, PInvStep, PTL DEF Spec

-----------------------------------------------------------------------------
(* The theorems *)

\* The worker only ever follows addresses of the right kind, its history of lost
\* and unlisted transactions names live ones, and the queue is never longer than
\* its capacity, whatever the heap, the requests and the failing calls are.
THEOREM WorkerTypeCorrect == Spec => []TypeOK
  BY PInvInvariant, PTL DEF PInv

\* cleanup_transaction, delete_dialog_by_pointer and delete_call_by_pointer leave
\* no pointer to freed memory behind, for any number of records, tables of any
\* size and any order of requests, timeouts and failures; the transactions that
\* met a full table (set_transaction_dialog ignores it) are the only exception.
THEOREM PointersConsistent == Spec => []NoDanglingPointer
  BY PInvInvariant, PTL DEF PInv
=============================================================================
