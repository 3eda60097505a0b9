------------------------ MODULE SipWorkerStateProofs ------------------------
(***************************************************************************)
(* Proofs about the states of the records of SipWorker: no record goes     *)
(* back, no final response is taken back, and nothing is left behind, for  *)
(* every heap, set of requests, queue capacity, table size and combination *)
(* of faults.  They rest on the pointers being consistent (PInv).          *)
(***************************************************************************)
EXTENDS SipWorkerProofs

-----------------------------------------------------------------------------
(* The inductive invariant *)

\* How far the transaction is that a handler serves
HandlerStates ==
  /\ pc \in {"invite", "bye", "hangup", "other"} => txn[cur].state = "IDLE"
  /\ pc \in {"dialog", "call", "ringing", "ok"} => txn[cur].state = "PROCEEDING"
  /\ pc \in {"invite", "dialog", "call", "ringing", "ok", "bye", "other"} =>
       txn[cur].response < 200
  /\ pc = "hangup" => txn[cur].response = 200

\* The worker is at one of the steps, for dialog d
Served(d, steps) == pc \in steps /\ txn[cur].dialog = d

\* A call and its dialog change state together, but for the moment in which a
\* handler has changed one and not yet the other
StatesFit(c, d) ==
  \/ call[c].state = "INCOMING" /\ dlg[d].state = "EARLY" /\ Served(d, {"ringing"})
  \/ call[c].state = "RINGING" /\ dlg[d].state = "EARLY" /\ Served(d, {"ok"})
  \/ call[c].state = "ESTABLISHED" /\ dlg[d].state = "CONFIRMED" /\ ~Served(d, {"hangup"})
  \/ call[c].state = "TERMINATING" /\ dlg[d].state = "CONFIRMED" /\ Served(d, {"hangup"})
  \/ call[c].state \in {"TERMINATED", "FAILED"} /\ dlg[d].state = "TERMINATED"

\* A call has one dialog; only a failed one may have lost it
CallsFit ==
  \A c \in calls :
    /\ call[c].state = "FAILED" \/ call[c].dialog # {}
    /\ \A d, e \in call[c].dialog : d = e
    /\ \A d \in call[c].dialog : StatesFit(c, d)

DialogsServed ==
  \A d \in dialogs :
    \/ dlg[d].state = "EARLY" /\ Served(d, {"call", "ringing", "ok"})
    \/ dlg[d].state = "CONFIRMED" /\ dlg[d].call # NULL
    \/ dlg[d].state = "TERMINATED" /\ \E t \in transactions : Finished(t) /\ txn[t].dialog = d

\* ... and the dialog it has
HandlerDialog ==
  /\ pc \in {"call", "ringing", "ok"} => dlg[txn[cur].dialog].state = "EARLY"
  /\ pc = "hangup" => dlg[txn[cur].dialog].state = "CONFIRMED"

\* process_sip_request looks for the branch before it creates a transaction
BranchesUnique ==
  \A t, u \in transactions : txn[t].branch = txn[u].branch => t = u

\* What is finished has its delete event, the transaction that is served included
FinishedReaped ==
  \A t \in transactions : Finished(t) => Reaper(txn[t].branch) \/ t \in lost

\* What is not finished is served now, or is ended by the end of its dialog
UnfinishedListed ==
  \A t \in transactions \ (unlisted \cup {cur}) :
    Finished(t) \/ (txn[t].state = "IDLE" /\ txn[t].dialog \in dialogs)

\* The states of the dialogs and calls, and those of the transactions
DInv == HandlerStates /\ HandlerDialog /\ CallsFit /\ DialogsServed
TInv == BranchesUnique /\ FinishedReaped /\ UnfinishedListed

WInv == PInv /\ DInv /\ TInv

\* The steps StatesAdvance and FinalResponseKept allow
TxnsAdvance == \A t \in transactions \cap transactions' : txn[t].state' \in TxnAfter(txn[t].state)
DialogsAdvance ==
  \A d \in dialogs \cap dialogs' :
    dlg[d].state = "TERMINATED" => dlg[d].state' = "TERMINATED"
CallsAdvance == \A c \in calls \cap calls' : call[c].state' \in CallAfter(call[c].state)
ResponsesKept ==
  \A t \in transactions \cap transactions' :
    txn[t].response >= 200 => txn[t].response' \in {txn[t].response, 500}
Advances == TxnsAdvance /\ DialogsAdvance /\ CallsAdvance /\ ResponsesKept

LEMMA SInvInit == Init => DInv /\ TInv
  BY DEF Init, DInv, TInv, HandlerStates, HandlerDialog, CallsFit, DialogsServed,
         BranchesUnique, FinishedReaped, UnfinishedListed

\* A state follows itself, and nothing follows TERMINATED.
LEMMA AfterItself ==
  /\ \A s \in TxnStates : s \in TxnAfter(s) /\ "TERMINATED" \in TxnAfter(s)
  /\ \A s \in {"IDLE", "PROCEEDING"} : "COMPLETED" \in TxnAfter(s) /\ "PROCEEDING" \in TxnAfter(s)
  /\ \A s \in CallStates : s \in CallAfter(s)
  BY DEF TxnAfter, CallAfter, TxnStates, CallStates

-----------------------------------------------------------------------------
(* Timers and events *)

\* Armed timers stay armed and lost events stay lost
TimersGrow ==
  /\ \A b \in Branches : waitAck'[b] >= waitAck[b] /\ delTimer'[b] >= delTimer[b]
  /\ lost \subseteq lost'

LEMMA ReaperGrows ==
  ASSUME TypeOK, NEW b \in Branches, Reaper(b), queue' = queue,
         waitAck'[b] >= waitAck[b] /\ delTimer'[b] >= delTimer[b],
         waitAck'[b] \in Nat /\ delTimer'[b] \in Nat
  PROVE  Reaper(b)'
  BY DEF Reaper, PendingDelete, TypeOK

\* set_transaction_state(TERMINATED) arms a timer for each transaction, or loses
\* its event.
LEMMA StartDeleteReaps ==
  ASSUME TypeOK, NEW T \in SUBSET transactions, NEW freed, StartDelete(T, freed),
         \A t \in transactions : txn[t].branch \in Branches
  PROVE  /\ \A b \in Branches : waitAck'[b] = waitAck[b] /\ delTimer'[b] >= delTimer[b]
         /\ lost \ freed \subseteq lost'
         /\ \A t \in T \ freed : delTimer'[txn[t].branch] > 0 \/ t \in lost'
  <1>1. PICK L \in SUBSET T :
          /\ delTimer' = [b \in Branches |->
               IF \E t \in T \ L : txn[t].branch = b THEN delTimer[b] + 1 ELSE delTimer[b]]
          /\ lost' = (lost \cup L) \ freed
          /\ UNCHANGED waitAck
    BY DEF StartDelete
  <1>2. \A b \in Branches : delTimer[b] \in Nat
    BY DEF TypeOK
  <1>3. ASSUME NEW t \in T \ freed
        PROVE  delTimer'[txn[t].branch] > 0 \/ t \in lost'
    BY <1>1, <1>2
  <1>4. \A b \in Branches : waitAck'[b] = waitAck[b] /\ delTimer'[b] >= delTimer[b]
    BY <1>1, <1>2
  <1> QED BY <1>1, <1>3, <1>4

LEMMA StartWaitAckReaps ==
  ASSUME TypeOK, NEW t \in transactions, txn[t].branch \in Branches, StartWaitAck(t)
  PROVE  /\ TimersGrow
         /\ waitAck'[txn[t].branch] > 0 \/ t \in lost'
  <1>1. \A b \in Branches : waitAck[b] \in Nat /\ delTimer[b] \in Nat
    BY DEF TypeOK
  <1>2. CASE /\ waitAck' = [waitAck EXCEPT ![txn[t].branch] = @ + 1]
             /\ UNCHANGED <<delTimer, lost>>
    BY <1>1, <1>2 DEF TimersGrow, TypeOK
  <1>3. CASE lost' = lost \cup {t} /\ UNCHANGED <<waitAck, delTimer>>
    BY <1>1, <1>3 DEF TimersGrow
  <1> QED BY <1>2, <1>3 DEF StartWaitAck

\* Another packet at the end of the queue, or the first one taken, leaves a delete
\* event where it was.
LEMMA AppendKeeps ==
  ASSUME TypeOK, NEW p \in Packets, queue' = Append(queue, p)
  PROVE  /\ \A b \in Branches : PendingDelete(b) => PendingDelete(b)'
         /\ \A b \in Branches : p = Delete(b) => PendingDelete(b)'
  <1>1. /\ DOMAIN queue' = 1 .. Len(queue) + 1
        /\ \A i \in 1 .. Len(queue) : queue'[i] = queue[i]
        /\ queue'[Len(queue) + 1] = p
        /\ DOMAIN queue = 1 .. Len(queue) /\ Len(queue) \in Nat
    BY AppendProperties, LenProperties DEF TypeOK
  <1> QED BY <1>1 DEF PendingDelete

LEMMA TailKeeps ==
  ASSUME TypeOK, NEW p, Dequeue(p), NEW b, p # Delete(b), PendingDelete(b)
  PROVE  PendingDelete(b)'
  <1>1. PICK i \in DOMAIN queue : queue[i] = Delete(b)
    BY DEF PendingDelete
  <1>2. /\ queue # <<>> /\ queue' = Tail(queue) /\ queue[1] = p
        /\ queue \in Seq(Packets)
    BY DEF Dequeue, TypeOK
  <1>3. i \in 2 .. Len(queue) /\ Len(queue) \in Nat
    BY <1>1, <1>2, LenProperties
  <1>4. i - 1 \in DOMAIN queue' /\ queue'[i - 1] = queue[i]
    BY <1>2, <1>3, HeadTailProperties
  <1> QED BY <1>1, <1>4 DEF PendingDelete
-----------------------------------------------------------------------------
(* What a step does to the transactions *)

TStep == TInv' /\ TxnsAdvance /\ ResponsesKept

\* The handler answers r, leaves the transaction it serves in state s with its
\* delete event under way, and returns
Finishes(s, r) ==
  /\ UNCHANGED <<transactions, queue, unlisted>>
  /\ pc' = "dequeue" /\ cur' = NULL
  /\ \A t \in transactions : /\ t # cur => txn'[t] = txn[t]
                             /\ txn'[t].branch = txn[t].branch
                             /\ txn'[t].dialog = txn[t].dialog
  /\ txn'[cur].state = s /\ txn'[cur].response = r
  /\ TimersGrow
  /\ \A b \in Branches : txn[cur].branch = b => Reaper(b)' \/ cur \in lost'

\* The handler answers r and goes on with its next step
GoesOn(s, r) ==
  /\ UNCHANGED <<transactions, queue, unlisted, timers, cur>>
  /\ \A t \in transactions : /\ t # cur => txn'[t] = txn[t]
                             /\ txn'[t].branch = txn[t].branch
  /\ txn'[cur].state = s /\ txn'[cur].response = r

LEMMA FinishesTStep ==
  ASSUME WInv, TypeOK', pc # "dequeue", NEW r, NEW s \in {"COMPLETED", "TERMINATED"},
         Finishes(s, r), dialogs \subseteq dialogs', s \in TxnAfter(txn[cur].state),
         txn[cur].response >= 200 => r \in {txn[cur].response, 500}
  PROVE  TStep
  <1> USE DEF WInv, PInv
  <1>1. /\ cur \in transactions
        /\ \A t \in transactions : txn[t].branch \in Branches /\ txn[t].state \in TxnStates
    BY Serving DEF HandlerInv, TypeOK, TxnType
  <1>2. BranchesUnique'
    BY DEF TInv, BranchesUnique, Finishes
  <1>3. FinishedReaped'
    <2>1. ASSUME NEW t \in transactions, t # cur, Finished(t)'
          PROVE  Reaper(txn[t].branch)' \/ t \in lost'
      <3>1. Finished(t) /\ (Reaper(txn[t].branch) \/ t \in lost)
        BY <2>1 DEF TInv, FinishedReaped, Finished, Finishes
      <3>2. Reaper(txn[t].branch) => Reaper(txn[t].branch)'
        <4> HIDE DEF WInv, PInv
        <4>1. \A b \in Branches : /\ waitAck'[b] >= waitAck[b] /\ delTimer'[b] >= delTimer[b]
                                  /\ waitAck'[b] \in Nat /\ delTimer'[b] \in Nat
          BY DEF Finishes, TimersGrow, TypeOK
        <4> QED BY <1>1, <4>1, ReaperGrows DEF Finishes, WInv, PInv
      <3> QED BY <3>1, <3>2 DEF Finishes, TimersGrow
    <2> QED BY <1>1, <2>1 DEF FinishedReaped, Finishes, Reaper, PendingDelete
  <1>4. UnfinishedListed'
    BY DEF TInv, UnfinishedListed, Finished, Finishes
  <1>5. TxnsAdvance /\ ResponsesKept
    BY <1>1, AfterItself DEF TxnsAdvance, ResponsesKept, Finishes
  <1> QED BY <1>2, <1>3, <1>4, <1>5 DEF TInv, TStep

LEMMA GoesOnTStep ==
  ASSUME WInv, pc # "dequeue", NEW r, NEW s \in {"IDLE", "PROCEEDING"}, GoesOn(s, r),
         dialogs \subseteq dialogs', s \in TxnAfter(txn[cur].state), txn[cur].response < 200
  PROVE  TStep
  <1> USE DEF WInv, PInv
  <1>1. /\ cur \in transactions
        /\ \A t \in transactions : txn[t].branch \in Branches /\ txn[t].state \in TxnStates
        /\ txn[cur].response \in Codes
    BY Serving DEF HandlerInv, TypeOK, TxnType
  <1>2. BranchesUnique'
    BY DEF TInv, BranchesUnique, GoesOn
  <1>3. FinishedReaped'
    BY DEF TInv, FinishedReaped, Finished, Reaper, PendingDelete, GoesOn, timers
  <1>4. UnfinishedListed'
    BY DEF TInv, UnfinishedListed, Finished, GoesOn
  <1>5. TxnsAdvance
    BY <1>1, AfterItself DEF TxnsAdvance, GoesOn
  <1>6. ResponsesKept
    BY <1>1 DEF ResponsesKept, GoesOn, Codes
  <1> QED BY <1>2, <1>3, <1>4, <1>5, <1>6 DEF TInv, TStep

-----------------------------------------------------------------------------
(* What a step does to the dialogs and calls *)

DStep == HandlerDialog' /\ CallsFit' /\ DialogsServed' /\ DialogsAdvance /\ CallsAdvance

\* The steps at which a handler has a dialog that is not settled
InCall == {"call", "ringing", "ok", "hangup"}

\* No dialog and no call changes its state.  Where some are deleted, a failed call
\* may lose its dialog, and the transactions that end the others stay.
DialogsStay ==
  /\ dialogs' \subseteq dialogs /\ calls' \subseteq calls
  /\ \A d \in dialogs' : /\ dlg'[d].state = dlg[d].state
                         /\ dlg[d].state = "TERMINATED" \/ dlg'[d].call = dlg[d].call
  /\ \A c \in calls' : /\ call'[c].state = call[c].state
                       /\ call'[c].dialog \subseteq call[c].dialog \ (dialogs \ dialogs')
                       /\ call[c].state = "FAILED" \/ call'[c].dialog = call[c].dialog
  /\ \A t \in transactions :
       Finished(t) /\ txn[t].dialog \in dialogs' /\ dlg[txn[t].dialog].state = "TERMINATED" =>
         /\ t \in transactions' /\ txn'[t].dialog = txn[t].dialog
         /\ txn'[t].state \in {"COMPLETED", "TERMINATED"}
  /\ \/ pc \notin InCall /\ pc' \notin InCall
     \/ UNCHANGED <<pc, cur, txn, dialogs>>

LEMMA DialogsStayDStep ==
  ASSUME PInv, DInv, DialogsStay PROVE DStep
  <1> USE DEF PInv, DInv
  <1>1. \A c \in calls' : \A d \in call'[c].dialog : d \in dialogs' /\ d \in call[c].dialog
    BY DEF NoDanglingPointer, DialogsStay
  <1>2. HandlerDialog'
    BY DEF HandlerDialog, DialogsStay, InCall, HandlerInv
  <1>3. ASSUME NEW c \in calls', NEW d \in dialogs', StatesFit(c, d)
        PROVE  StatesFit(c, d)'
    BY <1>3 DEF StatesFit, Served, DialogsStay, InCall
  <1>4. CallsFit'
    BY <1>1, <1>3 DEF CallsFit, DialogsStay
  <1>5. DialogsServed'
    <2>1. ASSUME NEW d \in dialogs'
          PROVE  \/ dlg'[d].state = "EARLY" /\ Served(d, {"call", "ringing", "ok"})'
                 \/ dlg'[d].state = "CONFIRMED" /\ dlg'[d].call # NULL
                 \/ dlg'[d].state = "TERMINATED"
                      /\ \E t \in transactions' : Finished(t)' /\ txn'[t].dialog = d
      BY DEF DialogsServed, DialogsStay, Served, Finished, InCall
    <2> QED BY <2>1 DEF DialogsServed
  <1>6. DialogsAdvance /\ CallsAdvance
    <2>1. \A c \in calls : call[c].state \in CallStates
      BY DEF TypeOK, CallType
    <2> QED BY <2>1, AfterItself DEF DialogsAdvance, CallsAdvance, DialogsStay
  <1> QED BY <1>2, <1>4, <1>5, <1>6 DEF DStep

\* The records m after the one at a has moved to state st
Moved(m, a, st) == [m EXCEPT ![a].state = st]

\* What a handler that moves the dialog d, or the call c, to another state changes
LEMMA SetDialogState ==
  ASSUME WInv, NEW d \in dialogs, NEW s, dlg' = Moved(dlg, d, s)
  PROVE  \A e \in dialogs : /\ dlg'[e].state = IF e = d THEN s ELSE dlg[e].state
                            /\ dlg'[e].call = dlg[e].call
  <1>1. dlg \in [DlgAddr -> DlgType] /\ dialogs \subseteq DlgAddr
    BY DEF WInv, PInv, TypeOK
  <1>2. PICK v : v = dlg[d]
    OBVIOUS
  <1>3. v \in DlgType
    BY <1>1, <1>2
  <1>4. [v EXCEPT !.state = s].state = s /\ [v EXCEPT !.state = s].call = v.call
    BY <1>3 DEF DlgType
  <1>5. PICK w : w = [v EXCEPT !.state = s]
    OBVIOUS
  <1>6. dlg' = [dlg EXCEPT ![d] = w]
    BY <1>2, <1>5 DEF Moved
  <1>7. dlg'[d] = w /\ \A e \in dialogs : e # d => dlg'[e] = dlg[e]
    BY <1>1, <1>6
  <1>8. w.state = s /\ w.call = dlg[d].call
    BY <1>2, <1>4, <1>5
  <1> QED BY <1>7, <1>8

LEMMA SetCallState ==
  ASSUME WInv, NEW c \in calls, NEW s, call' = Moved(call, c, s)
  PROVE  \A k \in calls : /\ call'[k].state = IF k = c THEN s ELSE call[k].state
                          /\ call'[k].dialog = call[k].dialog
  <1>1. call \in [CallAddr -> CallType] /\ calls \subseteq CallAddr
    BY DEF WInv, PInv, TypeOK
  <1>2. PICK v : v = call[c]
    OBVIOUS
  <1>3. v \in CallType
    BY <1>1, <1>2
  <1>4. [v EXCEPT !.state = s].state = s /\ [v EXCEPT !.state = s].dialog = v.dialog
    BY <1>3 DEF CallType
  <1>5. PICK w : w = [v EXCEPT !.state = s]
    OBVIOUS
  <1>6. call' = [call EXCEPT ![c] = w]
    BY <1>2, <1>5 DEF Moved
  <1>7. call'[c] = w /\ \A k \in calls : k # c => call'[k] = call[k]
    BY <1>1, <1>6
  <1>8. w.state = s /\ w.dialog = call[c].dialog
    BY <1>2, <1>4, <1>5
  <1> QED BY <1>7, <1>8

\* The dialog d that is served moves to state ds and its call to state cs
DialogMoves(d, ds, cs) ==
  /\ UNCHANGED <<transactions, dialogs, calls>>
  /\ \A e \in dialogs : /\ dlg'[e].state = IF e = d THEN ds ELSE dlg[e].state
                        /\ dlg'[e].call = dlg[e].call
  /\ \A c \in calls : /\ call'[c].state = IF c = dlg[d].call THEN cs ELSE call[c].state
                      /\ call'[c].dialog = call[c].dialog
  /\ \A t \in transactions : /\ txn'[t].dialog = txn[t].dialog
                             /\ t # cur => txn'[t].state = txn[t].state

\* Where a handler may leave the dialog and the call it has just changed
MovesFit(d, ds, cs) ==
  \/ pc' = "dequeue" /\ ds = "CONFIRMED" /\ cs = "ESTABLISHED" /\ dlg[d].call # NULL
  \/ /\ pc' = "dequeue" /\ ds = "TERMINATED" /\ cs \in {"TERMINATED", "FAILED"}
     /\ txn'[cur].state \in {"COMPLETED", "TERMINATED"}
  \/ pc' = "ok" /\ cur' = cur /\ ds = "EARLY" /\ cs = "RINGING"
  \/ /\ pc' = "hangup" /\ cur' = cur /\ ds = "CONFIRMED" /\ cs = "TERMINATING"
     /\ dlg[d].call # NULL

\* A dialog belongs to one call and a call lists one dialog
LEMMA OneDialog ==
  ASSUME PInv, CallsFit, NEW d \in dialogs, NEW c \in calls
  PROVE  /\ c = dlg[d].call => call[c].dialog = {d} /\ StatesFit(c, d)
         /\ \A e \in call[c].dialog : e \in dialogs /\ (e = d <=> c = dlg[d].call)
  <1>1. c = dlg[d].call => d \in call[c].dialog
    BY NullAddress DEF PInv, NoDanglingPointer, TypeOK
  <1>2. \A e \in call[c].dialog : e \in dialogs /\ dlg[e].call = c
    BY DEF PInv, NoDanglingPointer
  <1> QED BY <1>1, <1>2 DEF CallsFit

LEMMA DialogMovesDStep ==
  ASSUME PInv, DInv, pc \in InCall \cup {"bye"}, NEW d \in dialogs, d = txn[cur].dialog,
         NEW ds, NEW cs, DialogMoves(d, ds, cs), MovesFit(d, ds, cs),
         dlg[d].state = "TERMINATED" => ds = "TERMINATED",
         \A c \in calls : c = dlg[d].call => cs \in CallAfter(call[c].state)
  PROVE  DStep
  <1> USE DEF PInv, DInv
  <1>1. cur \in transactions
    BY Serving DEF InCall
  <1>2. HandlerDialog'
    BY <1>1 DEF HandlerDialog, DialogMoves, MovesFit
  <1>3. ASSUME NEW c \in calls, NEW e \in call[c].dialog
        PROVE  e \in dialogs /\ StatesFit(c, e)'
    <2>1. e \in dialogs /\ (e = d <=> c = dlg[d].call)
      BY OneDialog
    <2>2. StatesFit(c, e)
      BY DEF CallsFit
    <2>3. CASE e = d
      BY <1>1, <2>1, <2>3 DEF StatesFit, Served, DialogMoves, MovesFit
    <2>4. CASE e # d
      BY <1>1, <2>1, <2>2, <2>4 DEF StatesFit, Served, DialogMoves, MovesFit
    <2> QED BY <2>1, <2>3, <2>4
  <1>4. CallsFit'
    <2>1. ASSUME NEW c \in calls
          PROVE  call'[c].state = "FAILED" \/ call'[c].dialog # {}
      <3>1. c = dlg[d].call => call[c].dialog = {d}
        BY OneDialog
      <3>2. call[c].state = "FAILED" \/ call[c].dialog # {}
        BY DEF CallsFit
      <3> QED BY <3>1, <3>2 DEF DialogMoves
    <2> QED BY <1>3, <2>1 DEF CallsFit, DialogMoves
  <1>5. DialogsServed'
    <2>1. ASSUME NEW e \in dialogs
          PROVE  \/ dlg'[e].state = "EARLY" /\ Served(e, {"call", "ringing", "ok"})'
                 \/ dlg'[e].state = "CONFIRMED" /\ dlg'[e].call # NULL
                 \/ dlg'[e].state = "TERMINATED"
                      /\ \E t \in transactions : Finished(t)' /\ txn'[t].dialog = e
      <3>1. CASE e = d
        BY <1>1, <3>1 DEF Served, Finished, DialogMoves, MovesFit
      <3>2. CASE e # d
        BY <1>1, <3>2 DEF DialogsServed, Served, Finished, DialogMoves
      <3> QED BY <3>1, <3>2
    <2> QED BY <2>1 DEF DialogsServed, DialogMoves
  <1>6. DialogsAdvance /\ CallsAdvance
    <2>1. \A c \in calls : call[c].state \in CallStates
      BY DEF TypeOK, CallType
    <2> QED BY <2>1, AfterItself DEF DialogsAdvance, CallsAdvance, DialogMoves
  <1> QED BY <1>2, <1>4, <1>5, <1>6 DEF DStep

-----------------------------------------------------------------------------
(* The handlers *)

\* The exits of the handlers write one record
LEMMA ServedRecord ==
  ASSUME TypeOK, HandlerInv, pc # "dequeue", NEW r, NEW s,
         txn' = [txn EXCEPT ![cur].response = r, ![cur].state = s]
  PROVE  /\ txn'[cur].state = s /\ txn'[cur].response = r
         /\ \A t \in transactions : /\ t # cur => txn'[t] = txn[t]
                                    /\ txn'[t].branch = txn[t].branch
                                    /\ txn'[t].dialog = txn[t].dialog
  BY Serving DEF TypeOK, TxnType

LEMMA FailInviteFinishes ==
  ASSUME WInv, pc # "dequeue", FailInvite
  PROVE  Finishes("COMPLETED", 500)
  <1> USE DEF WInv, PInv
  <1>1. cur \in transactions /\ txn[cur].branch \in Branches
    BY Serving
  <1>2. /\ TimersGrow
        /\ waitAck'[txn[cur].branch] > 0 \/ cur \in lost'
    BY <1>1, StartWaitAckReaps DEF FailInvite
  <1>3. \A b \in Branches : txn[cur].branch = b => Reaper(b)' \/ cur \in lost'
    BY <1>2 DEF Reaper
  <1>4. /\ txn'[cur].state = "COMPLETED" /\ txn'[cur].response = 500
        /\ \A t \in transactions : /\ t # cur => txn'[t] = txn[t]
                                   /\ txn'[t].branch = txn[t].branch
                                   /\ txn'[t].dialog = txn[t].dialog
    BY Serving DEF FailInvite, TypeOK, TxnType
  <1> QED BY <1>2, <1>3, <1>4 DEF FailInvite, Finishes, Return

LEMMA StartDeleteFinishes ==
  ASSUME WInv, pc # "dequeue", NEW r, NEW T \in SUBSET {cur}, StartDelete(T, {}),
         txn' = [txn EXCEPT ![cur].response = r, ![cur].state = "TERMINATED"],
         Return, UNCHANGED <<transactions, queue, unlisted>>,
         T = {} => Finished(cur)
  PROVE  Finishes("TERMINATED", r)
  <1> USE DEF WInv, PInv
  <1>1. cur \in transactions /\ txn[cur].branch \in Branches /\ T \in SUBSET transactions
    BY Serving
  <1>2. \A t \in transactions : txn[t].branch \in Branches
    BY DEF HandlerInv
  <1>3. /\ \A b \in Branches : waitAck'[b] = waitAck[b] /\ delTimer'[b] >= delTimer[b]
        /\ lost \subseteq lost'
        /\ \A t \in T : delTimer'[txn[t].branch] > 0 \/ t \in lost'
    <2>1. /\ \A b \in Branches : waitAck'[b] = waitAck[b] /\ delTimer'[b] >= delTimer[b]
          /\ lost \ {} \subseteq lost'
          /\ \A t \in T \ {} : delTimer'[txn[t].branch] > 0 \/ t \in lost'
      BY <1>1, <1>2, StartDeleteReaps
    <2> QED BY <2>1
  <1>4. TimersGrow
    BY <1>3 DEF TimersGrow, TypeOK
  <1>5. \A b \in Branches : txn[cur].branch = b => Reaper(b)' \/ cur \in lost'
    <2>1. CASE T = {cur}
      BY <1>3, <2>1 DEF Reaper
    <2>2. CASE T = {}
      <3>1. Reaper(txn[cur].branch) \/ cur \in lost
        BY <1>1, <2>2 DEF TInv, FinishedReaped
      <3>2. delTimer' \in [Branches -> Nat] /\ delTimer \in [Branches -> Nat]
        BY <1>1, StartDeleteType DEF TypeOK
      <3> QED BY <1>1, <1>3, <3>1, <3>2 DEF Reaper, PendingDelete
    <2> QED BY <2>1, <2>2
  <1> QED BY <1>4, <1>5, ServedRecord DEF Finishes, Return

LEMMA TerminateFinishes ==
  ASSUME WInv, pc # "dequeue", NEW r, Terminate(r)
  PROVE  Finishes("TERMINATED", r)
  <1>1. Terminating({cur}) \in SUBSET {cur}
    BY DEF Terminating
  <1>2. Terminating({cur}) = {} => Finished(cur)
    BY Serving DEF Terminating, Finished, WInv, PInv
  <1> QED BY <1>1, <1>2, StartDeleteFinishes DEF Terminate

HStep == HandlerStates' /\ TStep /\ DStep

\* A handler that returns without a dialog of its own
LEMMA FinishesStays ==
  ASSUME WInv, TypeOK', pc \notin InCall \cup {"dequeue"}, NEW r,
         NEW s \in {"COMPLETED", "TERMINATED"}, Finishes(s, r), s \in TxnAfter(txn[cur].state),
         txn[cur].response >= 200 => r \in {txn[cur].response, 500},
         UNCHANGED <<dialogs, dlg, calls, call>>
  PROVE  HStep
  <1>1. HandlerStates'
    BY DEF Finishes, HandlerStates
  <1>2. TStep
    BY FinishesTStep
  <1>3. DialogsStay
    BY DEF DialogsStay, Finishes, Finished, InCall
  <1>4. DStep
    BY <1>3, DialogsStayDStep DEF WInv
  <1> QED BY <1>1, <1>2, <1>4 DEF HStep

\* A handler that returns and settles the dialog it serves
LEMMA FinishesMoves ==
  ASSUME WInv, TypeOK', pc \in InCall, NEW r,
         NEW s \in {"COMPLETED", "TERMINATED"}, Finishes(s, r), s \in TxnAfter(txn[cur].state),
         txn[cur].response >= 200 => r \in {txn[cur].response, 500},
         NEW d \in dialogs, d = txn[cur].dialog, NEW ds, NEW cs, DialogMoves(d, ds, cs),
         \/ ds = "CONFIRMED" /\ cs = "ESTABLISHED" /\ dlg[d].call # NULL
              /\ dlg[d].state # "TERMINATED"
         \/ ds = "TERMINATED" /\ cs \in {"TERMINATED", "FAILED"},
         \A c \in calls : c = dlg[d].call => cs \in CallAfter(call[c].state)
  PROVE  HStep
  <1>1. HandlerStates'
    BY DEF Finishes, HandlerStates
  <1>2. TStep
    BY FinishesTStep DEF InCall, DialogMoves
  <1>3. MovesFit(d, ds, cs)
    BY DEF MovesFit, Finishes
  <1>4. DStep
    BY <1>3, DialogMovesDStep DEF WInv
  <1> QED BY <1>1, <1>2, <1>4 DEF HStep

\* How far the served transaction is when a handler step begins
LEMMA ServedState ==
  ASSUME WInv, pc # "dequeue"
  PROVE  /\ cur \in transactions /\ txn[cur].state \in TxnStates
         /\ txn[cur].response \in Codes
         /\ pc # "ack" => txn[cur].state \in {"IDLE", "PROCEEDING"}
         /\ pc \notin {"ack", "hangup"} => txn[cur].response < 200
         /\ "TERMINATED" \in TxnAfter(txn[cur].state)
         /\ pc # "ack" => "COMPLETED" \in TxnAfter(txn[cur].state)
  <1>1. cur \in transactions /\ txn[cur] \in TxnType
    BY Serving DEF WInv, PInv
  <1>2. txn[cur].state \in TxnStates /\ txn[cur].response \in Codes
    BY <1>1 DEF TxnType
  <1>3. pc \in {"invite", "dialog", "call", "ringing", "ok", "ack", "bye", "hangup", "other"}
    BY DEF WInv, PInv, TypeOK
  <1> QED BY <1>1, <1>2, <1>3, AfterItself DEF WInv, DInv, HandlerStates

LEMMA TerminateStays ==
  ASSUME WInv, TypeOK', pc \in {"bye", "other"}, NEW r, Terminate(r), UNCHANGED <<dlg, call>>
  PROVE  HStep
  <1>1. ~(txn[cur].response >= 200)
    BY ServedState DEF Codes
  <1> QED BY <1>1, TerminateFinishes, ServedState, FinishesStays DEF Terminate, InCall

LEMMA SimpleHandlers ==
  ASSUME WInv, TypeOK', ReInvite \/ Ack \/ Unsupported
  PROVE  HStep
  <1>1. CASE ReInvite
    <2>1. cur \in transactions /\ txn[cur].state = "IDLE" /\ txn[cur].dialog \in dialogs
      BY <1>1, ServedState DEF ReInvite, WInv, PInv, HandlerInv, DInv, HandlerStates
    <2>2. TInv'
      BY <1>1, <2>1 DEF ReInvite, Return, WInv, TInv, records, timers, BranchesUnique,
         FinishedReaped, UnfinishedListed, Finished, Reaper, PendingDelete
    <2>3. TxnsAdvance /\ ResponsesKept
      <3>1. \A t \in transactions : txn[t].state \in TxnStates
        BY DEF WInv, PInv, TypeOK, TxnType
      <3> QED BY <1>1, <3>1, AfterItself DEF ReInvite, records, TxnsAdvance, ResponsesKept
    <2>4. DialogsStay
      BY <1>1 DEF ReInvite, Return, records, DialogsStay, InCall, Finished
    <2>5. HandlerStates'
      BY <1>1 DEF ReInvite, Return, HandlerStates
    <2> QED BY <2>2, <2>3, <2>4, <2>5, DialogsStayDStep DEF HStep, TStep, WInv
  <1>2. CASE Ack
    BY <1>2, TerminateFinishes, ServedState, FinishesStays, ZenonT(30) DEF Ack, Terminate, InCall
  <1>3. CASE Unsupported
    <2>1. \E r \in Codes : Terminate(r)
      BY <1>3 DEF Unsupported, Codes
    <2> QED BY <1>3, <2>1, TerminateStays DEF Unsupported
  <1> QED BY <1>1, <1>2, <1>3

LEMMA FailInviteStays ==
  ASSUME WInv, TypeOK', pc \in {"invite", "dialog"}, FailInvite,
         UNCHANGED <<dialogs, dlg, calls, call>>
  PROVE  HStep
  <1>1. ~(txn[cur].response >= 200)
    BY ServedState DEF Codes
  <1>2. \E r \in Codes : Finishes("COMPLETED", r)
    BY FailInviteFinishes DEF Codes
  <1> QED BY <1>1, <1>2, ServedState, FinishesStays DEF InCall

LEMMA InviteTryingStep ==
  ASSUME WInv, TypeOK', InviteTrying
  PROVE  HStep
  <1>1. CASE FailInvite
    BY <1>1, FailInviteStays DEF InviteTrying
  <1>2. CASE /\ txn' = [txn EXCEPT ![cur].response = 100, ![cur].state = "PROCEEDING"]
             /\ pc' = "dialog"
             /\ UNCHANGED <<transactions, queue, timers, cur, unlisted>>
    <2>1. /\ pc = "invite" /\ cur \in transactions /\ txn[cur].state = "IDLE"
          /\ txn[cur].response < 200 /\ UNCHANGED <<dialogs, dlg, calls, call>>
      BY ServedState DEF InviteTrying, WInv, DInv, HandlerStates
    <2>2. /\ txn'[cur].state = "PROCEEDING" /\ txn'[cur].response = 100
          /\ \A t \in transactions : /\ t # cur => txn'[t] = txn[t]
                                     /\ txn'[t].branch = txn[t].branch
                                     /\ txn'[t].dialog = txn[t].dialog
      BY <1>2, <2>1 DEF WInv, PInv, TypeOK, TxnType
    <2>3. \E r \in Codes : GoesOn("PROCEEDING", r)
      <3>1. txn'[cur].response \in Codes
        BY <2>2 DEF Codes
      <3> QED BY <1>2, <2>2, <3>1 DEF GoesOn
    <2>4. TStep
      <3>1. "PROCEEDING" \in TxnAfter(txn[cur].state)
        BY <2>1, AfterItself
      <3> QED BY <2>1, <2>3, <3>1, GoesOnTStep
    <2>5. DialogsStay
      BY <1>2, <2>1, <2>2 DEF DialogsStay, InCall, Finished
    <2>6. HandlerStates'
      BY <1>2, <2>2 DEF HandlerStates
    <2> QED BY <2>4, <2>5, <2>6, DialogsStayDStep DEF HStep, WInv
  <1> QED BY <1>1, <1>2 DEF InviteTrying

LEMMA InviteDialogStep ==
  ASSUME WInv, TypeOK', InviteDialog
  PROVE  HStep
  <1>1. CASE FailInvite /\ UNCHANGED <<dialogs, dlg>>
    BY <1>1, FailInviteStays DEF InviteDialog
  <1>2. ASSUME NEW d \in DlgAddr \ dialogs, NEW tag,
               dialogs' = dialogs \cup {d},
               dlg' = [dlg EXCEPT ![d] = [from_tag |-> txn[cur].message.from_tag,
                         to_tag |-> tag, state |-> "EARLY", call |-> NULL,
                         transaction |-> {cur}]],
               txn' = [txn EXCEPT ![cur].dialog = d],
               pc' = "call", UNCHANGED <<transactions, queue, timers, cur, unlisted>>
        PROVE  HStep
    <2>1. /\ pc = "dialog" /\ cur \in transactions /\ txn[cur].state = "PROCEEDING"
          /\ txn[cur].response < 200 /\ txn[cur].dialog = NULL
          /\ UNCHANGED <<calls, call>>
      BY ServedState DEF InviteDialog, WInv, DInv, HandlerStates, PInv, HandlerInv
    <2>2. /\ txn'[cur].state = "PROCEEDING" /\ txn'[cur].response = txn[cur].response
          /\ txn'[cur].dialog = d
          /\ \A t \in transactions : /\ t # cur => txn'[t] = txn[t]
                                     /\ txn'[t].branch = txn[t].branch
      BY <1>2, <2>1 DEF WInv, PInv, TypeOK, TxnType
    <2>3. /\ dlg'[d].state = "EARLY"
          /\ \A e \in dialogs : dlg'[e] = dlg[e] /\ e # d
      BY <1>2 DEF WInv, PInv, TypeOK
    <2>4. TStep
      <3>1. "PROCEEDING" \in TxnAfter(txn[cur].state)
        BY <2>1, AfterItself
      <3>2. GoesOn("PROCEEDING", txn[cur].response)
        BY <1>2, <2>2 DEF GoesOn
      <3> QED BY <1>2, <2>1, <3>1, <3>2, GoesOnTStep
    <2>5. HandlerStates' /\ HandlerDialog'
      BY <1>2, <2>1, <2>2, <2>3 DEF HandlerStates, HandlerDialog
    <2>6. CallsFit'
      <3>1. \A c \in calls : \A e \in call[c].dialog : e \in dialogs
        BY DEF WInv, PInv, NoDanglingPointer
      <3>2. ASSUME NEW c \in calls, NEW e \in dialogs, StatesFit(c, e)
            PROVE  StatesFit(c, e)'
        BY <1>2, <2>1, <2>2, <2>3, <3>2 DEF StatesFit, Served
      <3> QED BY <2>1, <3>1, <3>2 DEF WInv, DInv, CallsFit
    <2>7. DialogsServed'
      <3>1. ASSUME NEW e \in dialogs
            PROVE  \/ dlg'[e].state = "CONFIRMED" /\ dlg'[e].call # NULL
                   \/ dlg'[e].state = "TERMINATED"
                        /\ \E t \in transactions : Finished(t)' /\ txn'[t].dialog = e
        BY <1>2, <2>1, <2>2, <2>3 DEF WInv, DInv, DialogsServed, Served, Finished
      <3> QED BY <1>2, <2>2, <2>3, <3>1 DEF DialogsServed, Served
    <2>8. DialogsAdvance /\ CallsAdvance
      <3>1. \A c \in calls : call[c].state \in CallStates
        BY DEF WInv, PInv, TypeOK, CallType
      <3> QED BY <2>1, <2>3, <3>1, AfterItself DEF DialogsAdvance, CallsAdvance
    <2> QED BY <2>4, <2>5, <2>6, <2>7, <2>8 DEF HStep, DStep
  <1> QED BY <1>1, <1>2 DEF InviteDialog

LEMMA InviteCallStep ==
  ASSUME WInv, TypeOK', InviteCall
  PROVE  HStep
  <1> DEFINE d == txn[cur].dialog
  <1>1. /\ pc = "call" /\ cur \in transactions /\ txn[cur].state = "PROCEEDING"
        /\ txn[cur].response < 200 /\ d \in dialogs /\ d \in DlgAddr
        /\ dlg[d].call = NULL /\ dlg[d].state = "EARLY"
        /\ UNCHANGED dialogs
    BY ServedState DEF InviteCall, WInv, DInv, HandlerStates, HandlerDialog, PInv,
                       HandlerInv, TypeOK
  <1>2. CASE /\ FailInvite
             /\ dlg' = [dlg EXCEPT ![d].state = "TERMINATED"]
             /\ UNCHANGED <<calls, call>>
    <2>1. NULL \notin calls
      BY NullAddress DEF WInv, PInv, TypeOK
    <2>2. /\ \A e \in dialogs : /\ dlg'[e].state = IF e = d THEN "TERMINATED" ELSE dlg[e].state
                                /\ dlg'[e].call = dlg[e].call
      BY <1>1, <1>2 DEF WInv, PInv, TypeOK, DlgType
    <2>3. PICK r \in Codes : Finishes("COMPLETED", r) /\ r = 500
      BY <1>1, <1>2, FailInviteFinishes DEF Codes
    <2>4. DialogMoves(d, "TERMINATED", "FAILED")
      BY <1>1, <1>2, <2>1, <2>2, <2>3 DEF DialogMoves, Finishes
    <2>5. \A c \in calls : c # dlg[d].call
      BY <1>1, <2>1
    <2> HIDE DEF d
    <2>6. d = txn[cur].dialog
      BY DEF d
    <2> QED BY <1>1, <2>3, <2>4, <2>5, <2>6, ServedState, FinishesMoves DEF InCall
  <1>3. ASSUME NEW c \in CallAddr \ calls,
               calls' = calls \cup {c},
               call' = [call EXCEPT ![c] = [call_id |-> txn[cur].message.call_id,
                         state |-> "INCOMING", dialog |-> {d}]],
               dlg' = [dlg EXCEPT ![d].call = c],
               pc' = "ringing", UNCHANGED <<transactions, txn, queue, timers, cur, unlisted>>
        PROVE  HStep
    <2>1. GoesOn("PROCEEDING", txn[cur].response)
      BY <1>1, <1>3 DEF GoesOn
    <2>2. TStep
      <3>1. "PROCEEDING" \in TxnAfter(txn[cur].state)
        BY <1>1, AfterItself
      <3> QED BY <1>1, <2>1, <3>1, GoesOnTStep
    <2>3. \A e \in dialogs : /\ dlg'[e].state = dlg[e].state
                             /\ dlg'[e].call = IF e = d THEN c ELSE dlg[e].call
      BY <1>1, <1>3 DEF WInv, PInv, TypeOK, DlgType
    <2>4. /\ call'[c].state = "INCOMING" /\ call'[c].dialog = {d}
          /\ \A k \in calls : call'[k] = call[k] /\ k # c
      BY <1>3 DEF WInv, PInv, TypeOK
    <2>5. HandlerStates' /\ HandlerDialog'
      BY <1>1, <1>3, <2>3 DEF HandlerStates, HandlerDialog
    <2>6. CallsFit'
      <3>1. \A k \in calls : \A e \in call[k].dialog : e \in dialogs /\ e # d
        BY <1>1, NullAddress DEF WInv, PInv, NoDanglingPointer, TypeOK
      <3>2. ASSUME NEW k \in calls, NEW e \in dialogs \ {d}, StatesFit(k, e)
            PROVE  StatesFit(k, e)'
        BY <1>1, <1>3, <2>3, <2>4, <3>2 DEF StatesFit, Served
      <3>3. StatesFit(c, d)'
        BY <1>1, <1>3, <2>3, <2>4 DEF StatesFit, Served
      <3> QED BY <1>3, <2>4, <3>1, <3>2, <3>3, SMTT(20) DEF WInv, DInv, CallsFit
    <2>7. DialogsServed'
      BY <1>1, <1>3, <2>3, NullAddress DEF WInv, DInv, DialogsServed, Served, Finished
    <2>8. DialogsAdvance /\ CallsAdvance
      <3>1. \A k \in calls : call[k].state \in CallStates
        BY DEF WInv, PInv, TypeOK, CallType
      <3> QED BY <1>1, <1>3, <2>3, <2>4, <3>1, AfterItself DEF DialogsAdvance, CallsAdvance
    <2> QED BY <2>2, <2>5, <2>6, <2>7, <2>8 DEF HStep, DStep
  <1> QED BY <1>1, <1>2, <1>3 DEF InviteCall

\* The call of a dialog that is served at one of the last steps
LEMMA ServedCall ==
  ASSUME WInv, pc \in {"ringing", "ok", "hangup"}
  PROVE  LET d == txn[cur].dialog
             c == dlg[d].call
         IN /\ cur \in transactions /\ d \in dialogs /\ d \in DlgAddr
            /\ c \in calls /\ c \in CallAddr
            /\ pc = "ringing" => call[c].state = "INCOMING" /\ dlg[d].state = "EARLY"
            /\ pc = "ok" => call[c].state = "RINGING" /\ dlg[d].state = "EARLY"
            /\ pc = "hangup" => call[c].state = "TERMINATING" /\ dlg[d].state = "CONFIRMED"
  <1> DEFINE d == txn[cur].dialog
             c == dlg[d].call
  <1>1. cur \in transactions /\ d \in dialogs /\ d \in DlgAddr
    BY Serving DEF WInv, PInv, HandlerInv, TypeOK
  <1>2. c \in calls /\ c \in CallAddr
    BY <1>1 DEF WInv, PInv, HandlerInv, NoDanglingPointer, TypeOK
  <1>3. StatesFit(c, d)
    <2> HIDE DEF c, d
    <2>1. c = dlg[d].call
      BY DEF c
    <2> QED BY <1>1, <1>2, <2>1, OneDialog DEF WInv, DInv
  <1>4. /\ pc \in {"ringing", "ok"} => dlg[d].state = "EARLY"
        /\ pc = "hangup" => dlg[d].state = "CONFIRMED"
    BY DEF WInv, DInv, HandlerDialog
  <1> QED BY <1>1, <1>2, <1>3, <1>4 DEF StatesFit, Served

LEMMA FailDialogStep ==
  ASSUME WInv, TypeOK', pc \in {"ringing", "ok"}, FailDialog, UNCHANGED <<dialogs, calls>>
  PROVE  HStep
  <1>1. PICK d \in dialogs, c \in calls :
          /\ d = txn[cur].dialog /\ c = dlg[d].call /\ d \in DlgAddr /\ c \in CallAddr
          /\ call[c].state \in {"INCOMING", "RINGING"}
    BY ServedCall
  <1>2. PICK r \in Codes : Finishes("COMPLETED", r) /\ r = 500
    BY FailInviteFinishes DEF FailDialog, Codes
  <1>3. DialogMoves(d, "TERMINATED", "FAILED")
    <2>1. \A e \in dialogs : /\ dlg'[e].state = IF e = d THEN "TERMINATED" ELSE dlg[e].state
                             /\ dlg'[e].call = dlg[e].call
      <3>1. dlg' = Moved(dlg, d, "TERMINATED")
        BY <1>1 DEF FailDialog, Moved
      <3> QED BY <1>1, <3>1, SetDialogState
    <2>2. \A k \in calls : /\ call'[k].state = IF k = c THEN "FAILED" ELSE call[k].state
                           /\ call'[k].dialog = call[k].dialog
      <3>1. call' = Moved(call, c, "FAILED")
        BY <1>1 DEF FailDialog, Moved
      <3> QED BY <1>1, <3>1, SetCallState
    <2> QED BY <1>1, <1>2, <2>1, <2>2 DEF DialogMoves, Finishes
  <1>4. "FAILED" \in CallAfter(call[c].state)
    BY <1>1 DEF CallAfter, CallStates
  <1>5. ~(txn[cur].response >= 200)
    BY ServedState DEF Codes
  <1> QED BY <1>1, <1>2, <1>3, <1>4, <1>5, ServedState, FinishesMoves DEF InCall

LEMMA InviteRingingStep ==
  ASSUME WInv, TypeOK', InviteRinging
  PROVE  HStep
  <1>1. CASE FailDialog
    BY <1>1, FailDialogStep DEF InviteRinging
  <1>2. CASE /\ txn' = [txn EXCEPT ![cur].response = 180]
             /\ call' = [call EXCEPT ![dlg[txn[cur].dialog].call].state = "RINGING"]
             /\ pc' = "ok"
             /\ UNCHANGED <<transactions, dlg, queue, timers, cur, unlisted>>
    <2>1. PICK d \in dialogs, c \in calls :
            /\ d = txn[cur].dialog /\ c = dlg[d].call /\ d \in DlgAddr /\ c \in CallAddr
            /\ call[c].state = "INCOMING" /\ dlg[d].state = "EARLY"
      BY ServedCall DEF InviteRinging
    <2>2. /\ pc = "ringing" /\ cur \in transactions /\ txn[cur].state = "PROCEEDING"
          /\ txn[cur].response < 200
      BY ServedState DEF InviteRinging, WInv, DInv, HandlerStates
    <2>3. /\ txn'[cur].state = "PROCEEDING" /\ txn'[cur].response = 180
          /\ \A t \in transactions : /\ t # cur => txn'[t] = txn[t]
                                     /\ txn'[t].branch = txn[t].branch
                                     /\ txn'[t].dialog = txn[t].dialog
      BY <1>2, <2>2 DEF WInv, PInv, TypeOK, TxnType
    <2>4. TStep
      <3>1. txn'[cur].response \in Codes
        BY <2>3 DEF Codes
      <3>2. \E r \in Codes : GoesOn("PROCEEDING", r)
        BY <1>2, <2>3, <3>1 DEF GoesOn
      <3>3. "PROCEEDING" \in TxnAfter(txn[cur].state)
        BY <2>2, AfterItself
      <3> QED BY <2>2, <3>2, <3>3, GoesOnTStep DEF InviteRinging
    <2>5. HandlerStates'
      BY <1>2, <2>3 DEF HandlerStates
    <2>6. DialogMoves(d, "EARLY", "RINGING")
      <3>1. call' = Moved(call, c, "RINGING")
        BY <1>2, <2>1 DEF Moved
      <3>2. \A k \in calls : /\ call'[k].state = IF k = c THEN "RINGING" ELSE call[k].state
                             /\ call'[k].dialog = call[k].dialog
        BY <2>1, <3>1, SetCallState
      <3> QED BY <1>2, <2>1, <2>3, <3>2 DEF DialogMoves, InviteRinging
    <2>7. "RINGING" \in CallAfter(call[c].state)
      BY <2>1 DEF CallAfter, CallStates
    <2>8. MovesFit(d, "EARLY", "RINGING")
      BY <1>2 DEF MovesFit
    <2>9. DStep
      BY <2>1, <2>2, <2>6, <2>7, <2>8, DialogMovesDStep DEF WInv, InCall
    <2> QED BY <2>4, <2>5, <2>9 DEF HStep
  <1> QED BY <1>1, <1>2 DEF InviteRinging

LEMMA InviteOkStep ==
  ASSUME WInv, TypeOK', InviteOk
  PROVE  HStep
  <1>1. CASE FailDialog
    BY <1>1, FailDialogStep DEF InviteOk
  <1>2. CASE /\ txn' = [txn EXCEPT ![cur].response = 200, ![cur].state = "TERMINATED"]
             /\ StartDelete({cur}, {})
             /\ dlg' = [dlg EXCEPT ![txn[cur].dialog].state = "CONFIRMED"]
             /\ call' = [call EXCEPT ![dlg[txn[cur].dialog].call].state = "ESTABLISHED"]
             /\ Return
             /\ UNCHANGED <<transactions, queue, unlisted>>
    <2>1. PICK d \in dialogs, c \in calls :
            /\ d = txn[cur].dialog /\ c = dlg[d].call /\ d \in DlgAddr /\ c \in CallAddr
            /\ call[c].state = "RINGING" /\ dlg[d].state = "EARLY"
      BY ServedCall DEF InviteOk
    <2>2. pc = "ok" /\ UNCHANGED <<dialogs, calls>>
      BY DEF InviteOk
    <2>3. PICK r \in Codes : Finishes("TERMINATED", r)
      <3>1. PICK r \in Codes : /\ r = 200
                               /\ txn' = [txn EXCEPT ![cur].response = r, ![cur].state = "TERMINATED"]
        BY <1>2 DEF Codes
      <3>2. {cur} \in SUBSET {cur} /\ {cur} # {}
        OBVIOUS
      <3> QED BY <1>2, <2>2, <3>1, <3>2, StartDeleteFinishes
    <2>4. DialogMoves(d, "CONFIRMED", "ESTABLISHED")
      <3>1. \A e \in dialogs : /\ dlg'[e].state = IF e = d THEN "CONFIRMED" ELSE dlg[e].state
                               /\ dlg'[e].call = dlg[e].call
        <4>1. dlg' = Moved(dlg, d, "CONFIRMED")
          BY <1>2, <2>1 DEF Moved
        <4> QED BY <2>1, <4>1, SetDialogState
      <3>2. \A k \in calls : /\ call'[k].state = IF k = c THEN "ESTABLISHED" ELSE call[k].state
                             /\ call'[k].dialog = call[k].dialog
        <4>1. call' = Moved(call, c, "ESTABLISHED")
          BY <1>2, <2>1 DEF Moved
        <4> QED BY <2>1, <4>1, SetCallState
      <3> QED BY <2>1, <2>2, <2>3, <3>1, <3>2 DEF DialogMoves, Finishes
    <2>5. "ESTABLISHED" \in CallAfter(call[c].state)
      BY <2>1 DEF CallAfter, CallStates
    <2>6. ~(txn[cur].response >= 200)
      BY <2>2, ServedState DEF Codes
    <2>7. dlg[d].call # NULL
      BY <2>1, NullAddress
    <2> QED BY <2>1, <2>2, <2>3, <2>4, <2>5, <2>6, <2>7, ServedState, FinishesMoves DEF InCall
  <1> QED BY <1>1, <1>2 DEF InviteOk

LEMMA ByeStep ==
  ASSUME WInv, TypeOK', Bye
  PROVE  HStep
  <1>1. CASE (Terminate(404) \/ Terminate(403)) /\ UNCHANGED <<dlg, call>>
    <2>1. \E r \in Codes : Terminate(r)
      BY <1>1 DEF Codes
    <2> QED BY <1>1, <2>1, TerminateStays DEF Bye
  <1>2. CASE /\ MayHangUp(txn[cur].dialog)
             /\ call' = [call EXCEPT ![dlg[txn[cur].dialog].call].state = "TERMINATING"]
             /\ txn' = [txn EXCEPT ![cur].response = 200]
             /\ pc' = "hangup"
             /\ UNCHANGED <<transactions, dialogs, dlg, calls, queue, timers, cur, unlisted>>
    <2>1. /\ pc = "bye" /\ cur \in transactions /\ txn[cur].state = "IDLE"
          /\ txn[cur].response < 200
      BY ServedState DEF Bye, WInv, DInv, HandlerStates
    <2>2. PICK d \in dialogs, c \in calls :
            /\ d = txn[cur].dialog /\ c = dlg[d].call /\ d \in DlgAddr /\ c \in CallAddr
            /\ c # NULL /\ dlg[d].state = "CONFIRMED"
      <3>1. txn[cur].dialog \in dialogs /\ dlg[txn[cur].dialog].call # NULL
        BY <1>2, <2>1 DEF MayHangUp, WInv, PInv, HandlerInv
      <3>2. dlg[txn[cur].dialog].call \in calls
        BY <3>1 DEF WInv, PInv, NoDanglingPointer
      <3> QED BY <1>2, <3>1, <3>2 DEF MayHangUp, WInv, PInv, TypeOK
    <2>3. /\ txn'[cur].state = "IDLE" /\ txn'[cur].response = 200
          /\ \A t \in transactions : /\ t # cur => txn'[t] = txn[t]
                                     /\ txn'[t].branch = txn[t].branch
                                     /\ txn'[t].dialog = txn[t].dialog
      BY <1>2, <2>1 DEF WInv, PInv, TypeOK, TxnType
    <2>4. TStep
      <3>1. txn'[cur].response \in Codes
        BY <2>3 DEF Codes
      <3>2. \E r \in Codes : GoesOn("IDLE", r)
        BY <1>2, <2>3, <3>1 DEF GoesOn
      <3>3. "IDLE" \in TxnAfter(txn[cur].state)
        BY <2>1, AfterItself DEF TxnStates
      <3> QED BY <1>2, <2>1, <3>2, <3>3, GoesOnTStep
    <2>5. HandlerStates'
      BY <1>2, <2>3 DEF HandlerStates
    <2>6. DialogMoves(d, "CONFIRMED", "TERMINATING")
      <3>1. call' = Moved(call, c, "TERMINATING")
        BY <1>2, <2>2 DEF Moved
      <3>2. \A k \in calls : /\ call'[k].state = IF k = c THEN "TERMINATING" ELSE call[k].state
                             /\ call'[k].dialog = call[k].dialog
        BY <2>2, <3>1, SetCallState
      <3> QED BY <1>2, <2>2, <2>3, <3>2 DEF DialogMoves
    <2>7. "TERMINATING" \in CallAfter(call[c].state)
      <3>1. StatesFit(c, d)
        BY <2>2, OneDialog DEF WInv, DInv
      <3>2. call[c].state = "ESTABLISHED"
        BY <2>1, <2>2, <3>1 DEF StatesFit, Served
      <3> QED BY <3>2 DEF CallAfter, CallStates
    <2>8. MovesFit(d, "CONFIRMED", "TERMINATING")
      BY <1>2, <2>2 DEF MovesFit
    <2>9. DStep
      BY <2>1, <2>2, <2>6, <2>7, <2>8, DialogMovesDStep DEF WInv
    <2> QED BY <2>4, <2>5, <2>9 DEF HStep
  <1> QED BY <1>1, <1>2 DEF Bye

LEMMA ByeHangupStep ==
  ASSUME WInv, TypeOK', ByeHangup
  PROVE  HStep
  <1>1. PICK d \in dialogs, c \in calls :
          /\ d = txn[cur].dialog /\ c = dlg[d].call /\ d \in DlgAddr /\ c \in CallAddr
          /\ call[c].state = "TERMINATING"
    BY ServedCall DEF ByeHangup
  <1>2. PICK r \in Codes : Terminate(r) /\ r = 200
    BY DEF ByeHangup, Codes
  <1>3. pc = "hangup" /\ Finishes("TERMINATED", r) /\ UNCHANGED <<dialogs, calls>>
    BY <1>2, TerminateFinishes DEF ByeHangup, Terminate
  <1>4. DialogMoves(d, "TERMINATED", "TERMINATED")
    <2>1. \A e \in dialogs : /\ dlg'[e].state = IF e = d THEN "TERMINATED" ELSE dlg[e].state
                             /\ dlg'[e].call = dlg[e].call
      <3>1. dlg' = Moved(dlg, d, "TERMINATED")
        BY <1>1 DEF ByeHangup, Moved
      <3> QED BY <1>1, <3>1, SetDialogState
    <2>2. \A k \in calls : /\ call'[k].state = IF k = c THEN "TERMINATED" ELSE call[k].state
                           /\ call'[k].dialog = call[k].dialog
      <3>1. call' = Moved(call, c, "TERMINATED")
        BY <1>1 DEF ByeHangup, Moved
      <3> QED BY <1>1, <3>1, SetCallState
    <2> QED BY <1>1, <1>3, <2>1, <2>2 DEF DialogMoves, Finishes
  <1>5. "TERMINATED" \in CallAfter(call[c].state)
    BY <1>1 DEF CallAfter, CallStates
  <1>6. r = txn[cur].response
    BY <1>2, <1>3 DEF WInv, DInv, HandlerStates
  <1> QED BY <1>1, <1>3, <1>4, <1>5, <1>6, ServedState, FinishesMoves DEF InCall

LEMMA HandleStep ==
  ASSUME WInv, TypeOK', Handle PROVE HStep
  BY SimpleHandlers, InviteTryingStep, InviteDialogStep, InviteCallStep, InviteRingingStep,
     InviteOkStep, ByeStep, ByeHangupStep DEF Handle

-----------------------------------------------------------------------------
(* Requests and the other threads *)

\* A step that leaves the transactions in the states they are in
TxnsStay ==
  /\ UNCHANGED transactions /\ unlisted \subseteq unlisted' /\ dialogs \subseteq dialogs'
  /\ cur = NULL \/ cur' = cur
  /\ \A t \in transactions :
       /\ txn'[t].state = txn[t].state /\ txn'[t].branch = txn[t].branch
       /\ txn'[t].response \in {txn[t].response, 500}
       /\ txn[t].dialog \in dialogs => txn'[t].dialog = txn[t].dialog
       /\ \A b \in Branches :
            b = txn[t].branch /\ (Reaper(b) \/ t \in lost) => Reaper(b)' \/ t \in lost'

LEMMA TxnsStayTStep ==
  ASSUME WInv, TxnsStay PROVE TStep
  <1> USE DEF WInv, PInv
  <1>1. /\ NULL \notin transactions
        /\ \A t \in transactions : txn[t].branch \in Branches /\ txn[t].state \in TxnStates
    BY NullAddress DEF HandlerInv, TypeOK, TxnType
  <1>2. BranchesUnique'
    BY DEF TInv, BranchesUnique, TxnsStay
  <1>3. FinishedReaped'
    <2>1. ASSUME NEW t \in transactions, Finished(t)'
          PROVE  \A b \in Branches : b = txn[t].branch => Reaper(b)' \/ t \in lost'
      BY <2>1 DEF TInv, FinishedReaped, Finished, TxnsStay
    <2> QED BY <1>1, <2>1 DEF FinishedReaped, TxnsStay, Reaper, PendingDelete
  <1>4. UnfinishedListed'
    BY <1>1 DEF TInv, UnfinishedListed, Finished, TxnsStay
  <1>5. TxnsAdvance /\ ResponsesKept
    BY <1>1, AfterItself DEF TxnsAdvance, ResponsesKept, TxnsStay
  <1> QED BY <1>2, <1>3, <1>4, <1>5 DEF TInv, TStep

LEMMA DequeueReaper ==
  ASSUME TypeOK, NEW p, Dequeue(p), NEW b \in Branches, p # Delete(b), Reaper(b),
         UNCHANGED <<waitAck, delTimer>>
  PROVE  Reaper(b)'
  <1>1. PendingDelete(b) => PendingDelete(b)'
    BY TailKeeps
  <1> QED BY <1>1 DEF Reaper

LEMMA SipIsNoDelete ==
  ASSUME NEW m, NEW b PROVE Sip(m) # Delete(b)
  <1>1. Sip(m).type = "INCOMING_SIP" /\ Delete(b).type = "DELETE_TRANSACTION"
    BY DEF Sip, Delete
  <1> QED BY <1>1

\* Attaching a transaction changes nothing in a dialog but its table
LEMMA AttachStates ==
  ASSUME TypeOK, NEW t, NEW r, NEW m, Attach(t, r, m)
  PROVE  /\ \A e \in dialogs : dlg'[e].state = dlg[e].state /\ dlg'[e].call = dlg[e].call
         /\ unlisted \subseteq unlisted'
  <1>1. CASE UNCHANGED <<dlg, unlisted>>
    BY <1>1
  <1>2. ASSUME NEW d \in dialogs, dlg' = ListIn(d, t)
        PROVE  \A e \in dialogs : dlg'[e].state = dlg[e].state /\ dlg'[e].call = dlg[e].call
    BY <1>2 DEF ListIn, TypeOK, DlgType
  <1>3. unlisted \subseteq unlisted'
    BY DEF Attach
  <1> QED BY <1>1, <1>2, <1>3 DEF Attach, find_dialog_by_id

\* A request is taken from the queue and no transaction is created or finished
LEMMA TakenStep ==
  ASSUME WInv, NEW m, Dequeue(Sip(m)), UNCHANGED <<transactions, dialogs, calls, call, timers>>,
         unlisted \subseteq unlisted', pc' \in {"dequeue", "ack"},
         \A e \in dialogs : dlg'[e].state = dlg[e].state /\ dlg'[e].call = dlg[e].call,
         \A t \in transactions :
           /\ txn'[t].state = txn[t].state /\ txn'[t].branch = txn[t].branch
           /\ txn'[t].response \in {txn[t].response, 500}
           /\ txn[t].dialog # NULL => txn'[t].dialog = txn[t].dialog
  PROVE  HStep
  <1>1. pc = "dequeue" /\ cur = NULL /\ NULL \notin dialogs
    BY NullAddress DEF Dequeue, WInv, PInv, HandlerInv, TypeOK
  <1>2. TxnsStay
    <2>1. \A b \in Branches : Reaper(b) => Reaper(b)'
      BY DequeueReaper, SipIsNoDelete DEF WInv, PInv, timers
    <2>2. lost' = lost
      BY DEF timers
    <2>3. UNCHANGED <<transactions, dialogs>>
      OBVIOUS
    <2> QED BY <1>1, <2>1, <2>2, <2>3 DEF TxnsStay
  <1>3. DialogsStay
    BY <1>1 DEF DialogsStay, Finished, InCall
  <1>4. HandlerStates'
    BY DEF HandlerStates
  <1> QED BY <1>2, <1>3, <1>4, TxnsStayTStep, DialogsStayDStep DEF HStep, WInv

LEMMA NewTransactionStep ==
  ASSUME WInv, NEW m \in Requests, NewTransaction(m)
  PROVE  HStep
  <1> DEFINE r == [ZeroTxn EXCEPT !.branch = m.branch, !.message = m]
  <1>1. PICK t \in TxnAddr \ transactions :
          transactions' = transactions \cup {t} /\ Attach(t, r, m) /\ cur' = t
    BY DEF NewTransaction
  <1>2. /\ r \in TxnType /\ r.dialog = NULL /\ r.branch = m.branch /\ m.branch \in Branches
        /\ r.state = "IDLE" /\ r.response = 0
    BY RequestFields DEF ZeroTxn, TxnType, TxnStates, Codes
  <1>3. /\ pc = "dequeue" /\ cur = NULL /\ Dequeue(Sip(m))
        /\ UNCHANGED <<dialogs, calls, call, timers>>
        /\ pc' \in {"invite", "ack", "bye", "other"}
        /\ find_transaction_by_id(m.branch) = {}
    BY DEF NewTransaction, Dequeue, Handler, WInv, PInv, HandlerInv
  <1>4. \A u \in transactions : txn'[u] = txn[u]
    <2> HIDE DEF r
    <2>1. \A u \in transactions \ {t} : txn[u]' = txn[u]
      BY <1>1, <1>2, <1>3, AttachLinks DEF WInv
    <2> QED BY <1>1, <2>1
  <1>5. txn'[t].branch = m.branch /\ txn'[t].state = "IDLE" /\ txn'[t].response = 0
    <2>1. txn'[t] = r \/ \E d \in dialogs : txn'[t] = [r EXCEPT !.dialog = d]
      <3> HIDE DEF r
      <3> QED BY <1>1, <1>2, <1>3, AttachLinks DEF WInv
    <2> QED BY <1>2, <2>1 DEF TxnType
  <1>6. /\ \A e \in dialogs : dlg'[e].state = dlg[e].state /\ dlg'[e].call = dlg[e].call
        /\ unlisted \subseteq unlisted'
    BY <1>1, AttachStates DEF WInv, PInv
  <1>7. DialogsStay
    BY <1>3, <1>4, <1>1, <1>6 DEF DialogsStay, Finished, InCall
  <1>8. HandlerStates'
    BY <1>1, <1>3, <1>5 DEF HandlerStates
  <1>9. TStep
    <2>1. /\ NULL \notin transactions
          /\ \A u \in transactions : txn[u].branch \in Branches /\ txn[u].state \in TxnStates
      BY NullAddress DEF WInv, PInv, HandlerInv, TypeOK, TxnType
    <2>2. BranchesUnique'
      <3>1. \A u \in transactions : txn[u].branch # m.branch
        BY <1>3 DEF find_transaction_by_id
      <3> QED BY <1>1, <1>4, <1>5, <3>1 DEF WInv, TInv, BranchesUnique
    <2>3. FinishedReaped'
      <3>1. \A b \in Branches : Reaper(b) => Reaper(b)'
        BY <1>3, DequeueReaper, SipIsNoDelete DEF WInv, PInv, timers
      <3>2. ASSUME NEW u \in transactions', Finished(u)'
            PROVE  Reaper(txn[u].branch)' \/ u \in lost'
        <4>1. u \in transactions /\ Finished(u) /\ txn'[u] = txn[u]
          BY <1>1, <1>4, <1>5, <3>2 DEF Finished
        <4>2. \A b \in Branches : b = txn[u].branch => Reaper(b)' \/ u \in lost'
          BY <1>3, <3>1, <4>1 DEF WInv, TInv, FinishedReaped, timers
        <4> QED BY <2>1, <4>1, <4>2 DEF Reaper, PendingDelete
      <3> QED BY <3>2 DEF FinishedReaped
    <2>4. UnfinishedListed'
      BY <1>1, <1>3, <1>4, <1>6, <2>1 DEF WInv, TInv, UnfinishedListed, Finished
    <2>5. TxnsAdvance /\ ResponsesKept
      BY <1>4, <2>1, AfterItself DEF TxnsAdvance, ResponsesKept
    <2> QED BY <2>2, <2>3, <2>4, <2>5 DEF TInv, TStep
  <1> QED BY <1>7, <1>8, <1>9, DialogsStayDStep DEF HStep, WInv

LEMMA RequestStep ==
  ASSUME WInv, NEW m \in Requests, Request(m)
  PROVE  HStep
  <1>0. pc = "dequeue" /\ Dequeue(Sip(m))
    BY DEF Request, DropUnparsable, DropRequest, NewTransaction, Retransmission, AckForInvite,
           DropMismatch, Dequeue
  <1>1. CASE DropUnparsable(m) \/ DropRequest(m) \/ DropMismatch(m)
    <2>1. UNCHANGED <<records, timers, pc, cur, unlisted>>
      BY <1>1 DEF DropUnparsable, DropRequest, DropMismatch
    <2> QED BY <1>0, <2>1, TakenStep DEF records
  <1>2. CASE Retransmission(m)
    <2>1. PICK t \in transactions :
            txn' = txn \/ txn' = [txn EXCEPT ![t].response = 500]
      BY <1>2 DEF Retransmission, find_transaction_by_id
    <2>2. \A u \in transactions :
            /\ txn'[u].state = txn[u].state /\ txn'[u].branch = txn[u].branch
            /\ txn'[u].response \in {txn[u].response, 500}
            /\ txn'[u].dialog = txn[u].dialog
      <3>1. CASE txn' = txn
        BY <3>1
      <3>2. CASE txn' = [txn EXCEPT ![t].response = 500]
        BY <3>2 DEF WInv, PInv, TypeOK, TxnType
      <3> QED BY <2>1, <3>1, <3>2
    <2> QED BY <1>0, <1>2, <2>2, TakenStep DEF Retransmission
  <1>3. CASE AckForInvite(m)
    <2>1. PICK t \in transactions :
            \/ /\ txn[t].dialog = NULL
               /\ Attach(t, [txn[t] EXCEPT !.ack_message = m], m)
            \/ /\ txn' = [txn EXCEPT ![t].ack_message = m]
               /\ UNCHANGED <<dlg, unlisted>>
      BY <1>3 DEF AckForInvite, find_transaction_by_id
    <2>2. /\ \A e \in dialogs : dlg'[e].state = dlg[e].state /\ dlg'[e].call = dlg[e].call
          /\ unlisted \subseteq unlisted'
      BY <2>1, AttachStates DEF WInv, PInv
    <2>3. \A u \in transactions :
            /\ txn'[u].state = txn[u].state /\ txn'[u].branch = txn[u].branch
            /\ txn'[u].response = txn[u].response
            /\ txn[u].dialog # NULL => txn'[u].dialog = txn[u].dialog
      <3> DEFINE r == [txn[t] EXCEPT !.ack_message = m]
      <3>1. /\ t \in TxnAddr /\ txn \in [TxnAddr -> TxnType] /\ transactions \subseteq TxnAddr
            /\ r \in TxnType /\ r.state = txn[t].state /\ r.branch = txn[t].branch
            /\ r.response = txn[t].response /\ r.dialog = txn[t].dialog
        BY DEF WInv, PInv, TypeOK, TxnType
      <3>2. CASE txn' = [txn EXCEPT ![t].ack_message = m]
        BY <3>1, <3>2 DEF TxnType
      <3>3. CASE txn[t].dialog = NULL /\ Attach(t, r, m)
        <4>1. txn' = [txn EXCEPT ![t] = r]
              \/ \E d \in dialogs : txn' = [txn EXCEPT ![t] = [r EXCEPT !.dialog = d]]
          BY <3>3 DEF Attach, find_dialog_by_id
        <4> HIDE DEF r
        <4> QED BY <3>1, <3>3, <4>1 DEF TxnType
      <3> QED BY <2>1, <3>2, <3>3
    <2>4. UNCHANGED <<transactions, dialogs, calls, call, timers>> /\ pc' = "ack"
      BY <1>3 DEF AckForInvite
    <2> QED BY <1>0, <2>2, <2>3, <2>4, TakenStep
  <1> QED BY <1>1, <1>2, <1>3, NewTransactionStep DEF Request

\* A step of another thread, or none: only the queue and the timers may change
LEMMA QuietStep ==
  ASSUME WInv, UNCHANGED <<records, pc, cur, unlisted>>,
         \A b \in Branches, t \in transactions :
           b = txn[t].branch /\ (Reaper(b) \/ t \in lost) => Reaper(b)' \/ t \in lost'
  PROVE  HStep
  <1>0. UNCHANGED <<transactions, txn, dialogs, dlg, calls, call, pc, cur, unlisted>>
    BY DEF records
  <1>1. TxnsStay
    BY <1>0 DEF TxnsStay
  <1>2. DialogsStay
    BY <1>0 DEF DialogsStay, Finished
  <1>3. HandlerStates'
    BY <1>0 DEF WInv, DInv, HandlerStates
  <1> QED BY <1>1, <1>2, <1>3, TxnsStayTStep, DialogsStayDStep DEF HStep, WInv

LEMMA OthersStep ==
  ASSUME WInv, TypeOK',
         \/ \E m \in Requests : Receive(m)
         \/ \E b \in Branches : WaitAckTimeout(b) \/ DeleteTimeout(b)
         \/ UNCHANGED vars
  PROVE  HStep
  <1>1. ASSUME NEW m \in Requests, Receive(m)
        PROVE  HStep
    <2>1. queue' = Append(queue, Sip(m)) /\ UNCHANGED <<records, waitAck, delTimer, lost, pc, cur, unlisted>>
      BY <1>1 DEF Receive, timers
    <2>2. \A b \in Branches : Reaper(b) => Reaper(b)'
      <3>1. Sip(m) \in Packets
        BY DEF Packets
      <3> QED BY <2>1, <3>1, AppendKeeps DEF Reaper, WInv, PInv
    <2> QED BY <2>1, <2>2, QuietStep
  <1>2. ASSUME NEW b \in Branches, WaitAckTimeout(b)
        PROVE  HStep
    <2>1. UNCHANGED <<records, queue, pc, cur, unlisted>>
      BY <1>2 DEF WaitAckTimeout
    <2>2. ASSUME NEW a \in Branches, a # b, Reaper(a)
          PROVE  Reaper(a)'
      BY <1>2, <2>2 DEF WaitAckTimeout, Reaper, PendingDelete, WInv, PInv, TypeOK
    <2>3. CASE delTimer' = [delTimer EXCEPT ![b] = @ + 1] /\ UNCHANGED lost
      <3>1. delTimer'[b] > 0
        BY <2>3 DEF WInv, PInv, TypeOK
      <3>2. Reaper(b)'
        BY <3>1 DEF Reaper
      <3> QED BY <2>1, <2>2, <2>3, <3>2, QuietStep
    <2>4. CASE lost' = lost \cup find_transaction_by_id(b)
      <3>1. \A t \in transactions : txn[t].branch = b => t \in lost'
        BY <2>4 DEF find_transaction_by_id
      <3> QED BY <2>1, <2>2, <2>4, <3>1, QuietStep
    <2> QED BY <1>2, <2>3, <2>4 DEF WaitAckTimeout
  <1>3. ASSUME NEW b \in Branches, DeleteTimeout(b)
        PROVE  HStep
    <2>1. UNCHANGED <<records, waitAck, pc, cur, unlisted>>
      BY <1>3 DEF DeleteTimeout
    <2>2. \A a \in Branches : a # b => delTimer'[a] = delTimer[a]
      BY <1>3 DEF DeleteTimeout, WInv, PInv, TypeOK
    <2>3. CASE queue' = Append(queue, Delete(b)) /\ UNCHANGED lost
      <3>1. Delete(b) \in Packets
        BY DEF Packets
      <3>2. /\ \A a \in Branches : PendingDelete(a) => PendingDelete(a)'
            /\ PendingDelete(b)'
        BY <2>3, <3>1, AppendKeeps DEF WInv, PInv
      <3>3. \A a \in Branches : Reaper(a) => Reaper(a)'
        BY <2>1, <2>2, <3>2 DEF Reaper
      <3> QED BY <2>1, <2>3, <3>3, QuietStep
    <2>4. CASE lost' = lost \cup find_transaction_by_id(b) /\ UNCHANGED queue
      <3>1. \A t \in transactions : txn[t].branch = b => t \in lost'
        BY <2>4 DEF find_transaction_by_id
      <3>2. \A a \in Branches : a # b /\ Reaper(a) => Reaper(a)'
        BY <2>1, <2>2, <2>4 DEF Reaper, PendingDelete
      <3> QED BY <2>1, <2>4, <3>1, <3>2, QuietStep
    <2> QED BY <1>3, <2>3, <2>4 DEF DeleteTimeout
  <1>4. CASE UNCHANGED vars
    <2>1. UNCHANGED <<records, queue, waitAck, delTimer, lost, pc, cur, unlisted>>
      BY <1>4 DEF vars, timers
    <2>2. \A b \in Branches : Reaper(b) => Reaper(b)'
      BY <2>1 DEF Reaper, PendingDelete
    <2> QED BY <2>1, <2>2, QuietStep
  <1> QED BY <1>1, <1>2, <1>3, <1>4

-----------------------------------------------------------------------------
(* Deletion *)

LEMMA DeleteInjective == \A a, b : Delete(a) = Delete(b) => a = b
  <1>1. \A b : Delete(b).branch = b
    BY DEF Delete
  <1> QED BY <1>1

\* A transaction goes, with its delete event.  The others stay, but for those that
\* the end of a dialog terminates.
TxnGoes(t, T) ==
  /\ transactions' = transactions \ {t} /\ unlisted' = unlisted \ {t}
  /\ dialogs' \subseteq dialogs
  /\ \A u \in transactions \ {t} :
       /\ txn'[u].branch = txn[u].branch /\ txn'[u].response = txn[u].response
       /\ u \in T => txn'[u].state = "TERMINATED" /\ txn'[u].dialog = NULL
       /\ u \notin T => txn'[u] = txn[u]
       /\ u \in T \/ u \in unlisted \/ txn[u].dialog \notin dialogs \ dialogs'
       /\ u \in T => \A b \in Branches :
            b = txn[u].branch /\ ~Finished(u) => Reaper(b)' \/ u \in lost'
  /\ lost \ {t} \subseteq lost'
  /\ \A b \in Branches : waitAck'[b] >= waitAck[b] /\ delTimer'[b] >= delTimer[b]

LEMMA TxnGoesTStep ==
  ASSUME WInv, TypeOK', NEW b \in Branches, Dequeue(Delete(b)), cur' = cur,
         NEW t \in transactions, txn[t].branch = b, NEW T, TxnGoes(t, T)
  PROVE  TStep
  <1>1. /\ cur = NULL
        /\ \A u \in transactions : txn[u].branch \in Branches /\ txn[u].state \in TxnStates
    BY DEF Dequeue, WInv, PInv, HandlerInv, TypeOK, TxnType
  <1>2. \A u \in transactions \ {t} : txn[u].branch # b
    BY DEF WInv, TInv, BranchesUnique
  <1>3. BranchesUnique'
    BY DEF WInv, TInv, BranchesUnique, TxnGoes
  <1>4. \A a \in Branches : a # b /\ Reaper(a) => Reaper(a)'
    <2>1. ASSUME NEW a \in Branches, a # b, PendingDelete(a)
          PROVE  PendingDelete(a)'
      BY <2>1, TailKeeps, DeleteInjective DEF WInv, PInv
    <2>2. \A a \in Branches : /\ waitAck'[a] >= waitAck[a] /\ delTimer'[a] >= delTimer[a]
                              /\ waitAck'[a] \in Nat /\ delTimer'[a] \in Nat
                              /\ waitAck[a] \in Nat /\ delTimer[a] \in Nat
      BY DEF TxnGoes, WInv, PInv, TypeOK
    <2> QED BY <2>1, <2>2 DEF Reaper
  <1>5. FinishedReaped'
    <2>1. ASSUME NEW u \in transactions \ {t}, Finished(u)'
          PROVE  \A a \in Branches : a = txn[u].branch => Reaper(a)' \/ u \in lost'
      <3>1. CASE Finished(u)
        <4>1. \A a \in Branches : a = txn[u].branch => Reaper(a) \/ u \in lost
          BY <3>1 DEF WInv, TInv, FinishedReaped
        <4> QED BY <1>2, <1>4, <4>1 DEF TxnGoes
      <3>2. CASE ~Finished(u)
        BY <2>1, <3>2 DEF TxnGoes, Finished
      <3> QED BY <3>1, <3>2
    <2> QED BY <1>1, <2>1 DEF FinishedReaped, TxnGoes, Reaper, PendingDelete
  <1>6. UnfinishedListed'
    <2>1. ASSUME NEW u \in transactions \ {t}, u \notin unlisted
          PROVE  \/ txn'[u].state \in {"COMPLETED", "TERMINATED"}
                 \/ txn'[u].state = "IDLE" /\ txn'[u].dialog \in dialogs'
      <3>1. u # cur
        BY <1>1, NullAddress DEF WInv, PInv, TypeOK
      <3>2. Finished(u) \/ (txn[u].state = "IDLE" /\ txn[u].dialog \in dialogs)
        BY <2>1, <3>1 DEF WInv, TInv, UnfinishedListed
      <3> QED BY <2>1, <3>2 DEF TxnGoes, Finished
    <2> QED BY <2>1 DEF UnfinishedListed, TxnGoes, Finished
  <1>7. TxnsAdvance /\ ResponsesKept
    BY <1>1, AfterItself DEF TxnsAdvance, ResponsesKept, TxnGoes
  <1> QED BY <1>3, <1>5, <1>6, <1>7 DEF TInv, TStep

LEMMA KeepDialogGoes ==
  ASSUME WInv, NEW t \in transactions, KeepDialog(t, txn[t].dialog), pc = "dequeue", pc' = pc,
         transactions' = transactions \ {t}, unlisted' = unlisted \ {t}
  PROVE  TxnGoes(t, {}) /\ DialogsStay
  <1> DEFINE d == txn[t].dialog
  <1>1. /\ \A u \in transactions \ {t} : txn'[u] = txn[u]
        /\ UNCHANGED <<dialogs, calls, call, waitAck, delTimer>> /\ lost' = lost \ {t}
    BY DEF KeepDialog, WInv, PInv, TypeOK
  <1>2. \A e \in dialogs : dlg'[e].state = dlg[e].state /\ dlg'[e].call = dlg[e].call
    BY DEF KeepDialog, WInv, PInv, TypeOK, DlgType
  <1>3. TxnGoes(t, {})
    <2>1. \A b \in Branches : waitAck[b] >= waitAck[b] /\ delTimer[b] >= delTimer[b]
      BY DEF WInv, PInv, TypeOK
    <2> QED BY <1>1, <2>1 DEF TxnGoes
  <1>4. d \in dialogs => dlg[d].state # "TERMINATED"
    BY DEF KeepDialog
  <1>5. DialogsStay
    BY <1>1, <1>2, <1>4 DEF DialogsStay, Finished, InCall
  <1> QED BY <1>3, <1>5

\* The call of a TERMINATED dialog is TERMINATED or FAILED, and the dialogs of a
\* TERMINATED call are TERMINATED: deleting one ends nothing that still runs.
LEMMA DanglingDialogGoes ==
  ASSUME WInv, NEW t \in transactions, DanglingDialog(t, txn[t].dialog), pc = "dequeue",
         pc' = pc, transactions' = transactions \ {t}, unlisted' = unlisted \ {t}
  PROVE  TxnGoes(t, {}) /\ DialogsStay
  <1>1. /\ \A u \in transactions \ {t} : txn'[u] = txn[u]
        /\ UNCHANGED <<dialogs, waitAck, delTimer>> /\ lost' = lost \ {t}
        /\ txn[t].dialog \notin dialogs
    BY DEF DanglingDialog, WInv, PInv, TypeOK
  <1>2. TxnGoes(t, {})
    <2>1. \A b \in Branches : waitAck[b] >= waitAck[b] /\ delTimer[b] >= delTimer[b]
      BY DEF WInv, PInv, TypeOK
    <2> QED BY <1>1, <2>1 DEF TxnGoes
  <1>3. PICK c \in calls : call[c].state = "TERMINATED" /\ DeleteCall(c, call[c].dialog, dlg)
    BY DEF DanglingDialog
  <1>4. \A e \in call[c].dialog : dlg[e].state = "TERMINATED"
    BY <1>3 DEF WInv, DInv, CallsFit, StatesFit
  <1>5. \A e \in dialogs : /\ dlg'[e].state = dlg[e].state
                           /\ dlg[e].state = "TERMINATED" \/ dlg'[e].call = dlg[e].call
    BY <1>3, <1>4 DEF DeleteCall, WInv, PInv, TypeOK, DlgType
  <1>6. calls' = calls \ {c} /\ \A k \in calls' : call'[k] = call[k]
    BY <1>3 DEF DeleteCall, WInv, PInv, TypeOK
  <1>7. DialogsStay
    BY <1>1, <1>5, <1>6 DEF DialogsStay, Finished, InCall
  <1> QED BY <1>2, <1>7

LEMMA DeleteDialogGoes ==
  ASSUME WInv, TypeOK', NEW t \in transactions, DeleteDialog(t, txn[t].dialog), pc = "dequeue",
         pc' = pc, transactions' = transactions \ {t}, unlisted' = unlisted \ {t}
  PROVE  TxnGoes(t, dlg[txn[t].dialog].transaction \ {t}) /\ DialogsStay
  <1> DEFINE d == txn[t].dialog
             T == dlg[d].transaction \ {t}
             c == dlg[d].call
  <1>1. /\ d \in dialogs /\ d \in DlgAddr /\ dlg[d].state = "TERMINATED"
        /\ dialogs' = dialogs \ {d}
        /\ T \subseteq transactions /\ \A u \in T : txn[u].dialog = d
    <2>1. d \in dialogs /\ d \in DlgAddr /\ dlg[d].state = "TERMINATED" /\ dialogs' = dialogs \ {d}
      BY DEF DeleteDialog, WInv, PInv, TypeOK
    <2> HIDE DEF d
    <2>2. \A u \in dlg[d].transaction : u \in transactions /\ txn[u].dialog = d
      BY <2>1 DEF WInv, PInv, NoDanglingPointer
    <2> QED BY <2>1, <2>2
  <1>2. \A u \in transactions \ {t} :
          /\ txn'[u].branch = txn[u].branch /\ txn'[u].response = txn[u].response
          /\ u \in T => txn'[u].state = "TERMINATED" /\ txn'[u].dialog = NULL
          /\ u \notin T => txn'[u] = txn[u]
    <2>1. \A u \in transactions \ {t} :
            txn'[u] = IF u \in T THEN [txn[u] EXCEPT !.dialog = NULL, !.state = "TERMINATED"]
                                 ELSE txn[u]
      BY DEF DeleteDialog, WInv, PInv, TypeOK
    <2>2. \A u \in transactions : txn[u] \in TxnType
      BY DEF WInv, PInv, TypeOK
    <2> QED BY <2>1, <2>2 DEF TxnType
  <1>3. \A u \in transactions \ {t} : u \in T \/ u \in unlisted \/ txn[u].dialog # d
    BY <1>1, NullAddress DEF WInv, PInv, NoDanglingPointer
  <1>4. TxnGoes(t, T)
    <2> DEFINE E == Terminating(T)
    <2>1. StartDelete(E, {t}) /\ E \in SUBSET transactions
      BY <1>1 DEF DeleteDialog, Terminating
    <2>2. \A u \in T : ~Finished(u) => u \in E
      BY <1>1 DEF Terminating, Finished
    <2>3. /\ \A b \in Branches : waitAck'[b] = waitAck[b] /\ delTimer'[b] >= delTimer[b]
          /\ lost \ {t} \subseteq lost'
          /\ \A u \in E \ {t} : delTimer'[txn[u].branch] > 0 \/ u \in lost'
      <3>1. \A u \in transactions : txn[u].branch \in Branches
        BY DEF WInv, PInv, HandlerInv
      <3> HIDE DEF E
      <3> QED BY <2>1, <3>1, StartDeleteReaps DEF WInv, PInv
    <2>4. \A u \in T : \A b \in Branches :
            b = txn[u].branch /\ ~Finished(u) => Reaper(b)' \/ u \in lost'
      BY <2>2, <2>3 DEF Reaper
    <2>5. \A b \in Branches : waitAck'[b] >= waitAck[b] /\ delTimer'[b] >= delTimer[b]
      BY <2>3 DEF WInv, PInv, TypeOK
    <2> HIDE DEF E, T, d
    <2> QED BY <1>1, <1>2, <1>3, <2>3, <2>4, <2>5 DEF TxnGoes
  <1>5. /\ \A e \in dialogs' : /\ dlg'[e].state = dlg[e].state
                               /\ dlg[e].state = "TERMINATED" \/ dlg'[e].call = dlg[e].call
        /\ calls' \subseteq calls
        /\ \A k \in calls' : /\ call'[k].state = call[k].state
                             /\ call'[k].dialog \subseteq call[k].dialog \ {d}
                             /\ call[k].state = "FAILED" \/ call'[k].dialog = call[k].dialog
    <2> DEFINE mem == [dlg EXCEPT ![d] = ZeroDlg]
    <2>1. \A e \in dialogs' : e \in DlgAddr /\ e # d /\ mem[e] = dlg[e] /\ dlg[e] \in DlgType
      BY <1>1 DEF WInv, PInv, TypeOK
    <2>2. \A k \in calls : k # c => d \notin call[k].dialog
      BY DEF WInv, PInv, NoDanglingPointer
    <2>3. c # NULL => /\ c \in calls /\ c \in CallAddr /\ call[c].dialog = {d}
                      /\ call[c].state \in {"TERMINATED", "FAILED"}
      <3> HIDE DEF d
      <3>1. c # NULL => c \in calls /\ c \in CallAddr
        BY <1>1 DEF WInv, PInv, NoDanglingPointer, TypeOK
      <3>2. c # NULL => call[c].dialog = {d} /\ StatesFit(c, d)
        <4> DEFINE k == c
        <4>1. k = dlg[d].call /\ (k # NULL => k \in calls)
          BY <3>1
        <4> HIDE DEF k
        <4>2. k # NULL => call[k].dialog = {d} /\ StatesFit(k, d)
          BY <1>1, <4>1, OneDialog DEF WInv, DInv
        <4> QED BY <4>2 DEF k
      <3> QED BY <1>1, <3>1, <3>2 DEF StatesFit
    <2>4. CASE c # NULL /\ DeleteCall(c, call[c].dialog \ {d}, mem)
      <3>1. call[c].dialog \ {d} = {}
        BY <2>3, <2>4
      <3>2. \A e \in dialogs' : dlg'[e] = dlg[e]
        BY <2>1, <2>4, <3>1 DEF DeleteCall
      <3>3. calls' = calls \ {c} /\ \A k \in calls' : call'[k] = call[k]
        BY <2>4 DEF DeleteCall, WInv, PInv, TypeOK
      <3> QED BY <2>2, <3>2, <3>3
    <2>5. CASE /\ c # NULL /\ call[c].state # "TERMINATED"
               /\ call' = [call EXCEPT ![c].dialog = @ \ {d}] /\ dlg' = mem /\ UNCHANGED calls
      <3>1. \A k \in calls : /\ call'[k].state = call[k].state
                             /\ call'[k].dialog = IF k = c THEN call[k].dialog \ {d}
                                                           ELSE call[k].dialog
        <4>1. call \in [CallAddr -> CallType] /\ calls \subseteq CallAddr
          BY DEF WInv, PInv, TypeOK
        <4> HIDE DEF c, d
        <4> QED BY <2>5, <4>1 DEF CallType
      <3>2. call[c].state = "FAILED"
        BY <2>3, <2>5
      <3> HIDE DEF c, d
      <3> QED BY <2>1, <2>2, <2>5, <3>1, <3>2
    <2>6. CASE c = NULL /\ dlg' = mem /\ UNCHANGED <<calls, call>>
      <3>1. NULL \notin calls
        BY NullAddress DEF WInv, PInv, TypeOK
      <3> QED BY <2>1, <2>2, <2>6, <3>1
    <2> QED BY <2>4, <2>5, <2>6 DEF DeleteDialog
  <1>6. \A u \in transactions :
          Finished(u) /\ txn[u].dialog \in dialogs' =>
            /\ u \in transactions' /\ txn'[u].dialog = txn[u].dialog
            /\ txn'[u].state \in {"COMPLETED", "TERMINATED"}
    BY <1>1, <1>2 DEF Finished
  <1>7. DialogsStay
    <2>1. dialogs \ dialogs' = {d}
      BY <1>1
    <2> HIDE DEF d
    <2> QED BY <1>1, <1>5, <1>6, <2>1 DEF DialogsStay, InCall
  <1> QED BY <1>4, <1>7

LEMMA DeleteStep ==
  ASSUME WInv, TypeOK', NEW b \in Branches, NoTransaction(b) \/ DeleteTransaction(b)
  PROVE  HStep
  <1>0. pc = "dequeue" /\ Dequeue(Delete(b)) /\ UNCHANGED <<pc, cur>>
    BY DEF NoTransaction, DeleteTransaction, Dequeue
  <1>1. CASE NoTransaction(b)
    <2>1. /\ UNCHANGED <<records, waitAck, delTimer, lost, pc, cur, unlisted>>
          /\ \A t \in transactions : txn[t].branch # b
      BY <1>1 DEF NoTransaction, find_transaction_by_id, timers
    <2>2. ASSUME NEW a \in Branches, a # b, Reaper(a)
          PROVE  Reaper(a)'
      BY <1>0, <2>1, <2>2, DequeueReaper, DeleteInjective DEF WInv, PInv
    <2> QED BY <2>1, <2>2, QuietStep
  <1>2. CASE DeleteTransaction(b)
    <2>1. PICK t \in transactions :
            /\ txn[t].branch = b
            /\ transactions' = transactions \ {t}
            /\ unlisted' = unlisted \ {t}
            /\ \/ KeepDialog(t, txn[t].dialog) \/ DeleteDialog(t, txn[t].dialog)
               \/ DanglingDialog(t, txn[t].dialog)
      BY <1>2 DEF DeleteTransaction, find_transaction_by_id
    <2>2. (\E T : TxnGoes(t, T)) /\ DialogsStay
      BY <1>0, <2>1, KeepDialogGoes, DeleteDialogGoes, DanglingDialogGoes
    <2>3. TStep
      BY <1>0, <2>1, <2>2, TxnGoesTStep
    <2>4. HandlerStates'
      BY <1>0 DEF HandlerStates
    <2> QED BY <2>2, <2>3, <2>4, DialogsStayDStep DEF HStep, WInv
  <1> QED BY <1>1, <1>2

-----------------------------------------------------------------------------
LEMMA WInvStep == WInv /\ [Next]_vars => WInv' /\ Advances
  <1> SUFFICES ASSUME WInv, [Next]_vars PROVE WInv' /\ Advances
    OBVIOUS
  <1>1. PInv' /\ TypeOK'
    BY PInvStep DEF WInv, PInv
  <1>2. HStep
    BY <1>1, HandleStep, RequestStep, DeleteStep, OthersStep DEF Next, Worker
  <1> QED BY <1>1, <1>2 DEF HStep, TStep, DStep, WInv, DInv, Advances

LEMMA WInvInvariant == Spec => []WInv
  BY PInvInit, SInvInit, WInvStep, PTL DEF Spec, WInv

\* In a state of the invariant nothing is left behind
LEMMA NothingLeft == WInv => NoOrphanTransaction /\ NoOrphanDialog /\ NoOrphanCall
  <1> SUFFICES ASSUME WInv PROVE NoOrphanTransaction /\ NoOrphanDialog /\ NoOrphanCall
    OBVIOUS
  <1>1. NoOrphanTransaction
    BY DEF NoOrphanTransaction, WInv, TInv, UnfinishedListed, FinishedReaped
  <1>2. NoOrphanDialog
    <2>1. ASSUME pc = "dequeue", NEW d \in dialogs, dlg[d].state = "CONFIRMED",
                 dlg[d].call # NULL
          PROVE  call[dlg[d].call].state = "ESTABLISHED"
      <3>1. dlg[d].call \in calls /\ d \in call[dlg[d].call].dialog
        BY <2>1 DEF WInv, PInv, NoDanglingPointer
      <3> QED BY <2>1, <3>1 DEF WInv, DInv, CallsFit, StatesFit, Served
    <2> QED BY <2>1 DEF NoOrphanDialog, WInv, DInv, DialogsServed, Served
  <1>3. NoOrphanCall
    BY DEF NoOrphanCall, WInv, DInv, CallsFit, StatesFit, Served
  <1> QED BY <1>1, <1>2, <1>3

-----------------------------------------------------------------------------
(* The theorems *)

\* No order of requests, ACKs, timeouts and failing calls leaves a transaction
\* that set_transaction_state gave no delete event and that no dialog will end.
THEOREM NoTransactionOrphaned == Spec => []NoOrphanTransaction
  BY WInvInvariant, NothingLeft, PTL

\* Between two packets a dialog is CONFIRMED with an ESTABLISHED call, or it is
\* TERMINATED and delete_transaction will reach it: every error exit of
\* process_invite_request ends the dialog it has created.
THEOREM NoDialogOrphaned == Spec => []NoOrphanDialog
  BY WInvInvariant, NothingLeft, PTL

\* Between two packets a call that has not failed is ESTABLISHED and BYE can end it
\* through its dialog, or TERMINATED and its dialog takes it along.
THEOREM NoCallOrphaned == Spec => []NoOrphanCall
  BY WInvInvariant, NothingLeft, PTL

\* No record goes back to an earlier state, neither by a retransmission nor by
\* the deletion of another one that shares a dialog or a call with it.
THEOREM RecordsAdvance == Spec => StatesAdvance
  <1>1. WInv /\ [Next]_vars =>
          [ /\ \A t \in transactions \cap transactions' :
                 txn[t].state' \in TxnAfter(txn[t].state)
            /\ \A d \in dialogs \cap dialogs' :
                 dlg[d].state = "TERMINATED" => dlg[d].state' = "TERMINATED"
            /\ \A c \in calls \cap calls' : call[c].state' \in CallAfter(call[c].state) ]_vars
    BY WInvStep DEF Advances, TxnsAdvance, DialogsAdvance, CallsAdvance
  <1> QED BY <1>1, WInvInvariant, PTL DEF Spec, StatesAdvance

\* A final response stays what a retransmission gets, until the transaction is freed
\* or a 500 has replaced it.
THEOREM FinalResponseStays == Spec => FinalResponseKept
  <1>1. WInv /\ [Next]_vars =>
          [ \A t \in transactions \cap transactions' :
              txn[t].response >= 200 => txn[t].response' \in {txn[t].response, 500} ]_vars
    BY WInvStep DEF Advances, ResponsesKept
  <1> QED BY <1>1, WInvInvariant, PTL DEF Spec, FinalResponseKept
=============================================================================
