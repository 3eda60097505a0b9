------------------------------- MODULE Server -------------------------------
(***************************************************************************)
(* The whole program: main's loop (handle_new_message), the worker threads *)
(* with their queues, and the timers, seen as the owners of heap cells.  A *)
(* received message and a transaction-delete event are malloc'ed by one    *)
(* thread and freed by another; a cell has no owner field, so who frees it *)
(* depends on the path it took.                                            *)
(*                                                                         *)
(* A worker serves a packet in one step: no other thread sees what it does *)
(* in between (SipWorker has those steps, TimerManager those of a timer,   *)
(* MessageQueue those of a queue).  Of a transaction only its state and    *)
(* its two messages are left.                                              *)
(***************************************************************************)
EXTENDS Integers, Sequences, FiniteSets, SequencesExt

CONSTANTS
  NWorkers,        \* MAX_THREADS
  QueueCapacity,   \* QUEUE_CAPACITY
  NCells,          \* model bound: cells in the heap
  Branches,
  Requests,        \* datagrams the peers may send (see IsRequest)
  Faults,          \* which calls may fail: "malloc", "timer"
  NULL

Workers == 0 .. NWorkers - 1
Cells == 1 .. NCells

\* call_id is the sequence of bytes the header has, or NULL without one; cseq includes
\* the source address.  The headers that are left out decide whether parse_message
\* accepts the message.
IsRequest(m) ==
  /\ DOMAIN m = {"call_id", "method", "branch", "cseq"}
  /\ m.method \in {"INVITE", "ACK", "OTHER"}
  /\ m.branch \in Branches

CallIds == {m.call_id : m \in Requests} \ {NULL}

\* The characters are added from the first to the last
string_to_int_hash(id) ==
  LET hash[i \in 0 .. Len(id)] == IF i = 0 THEN 0 ELSE hash[i - 1] + id[i]
  IN hash[Len(id)]

\* A Call-ID is what the peer sent: char is signed, so a byte is one of -128 .. 127
ASSUME ServerAssumption ==
  /\ {NWorkers, QueueCapacity, NCells} \subseteq Nat \ {0}
  /\ NULL \notin Cells /\ NULL \notin Requests
  /\ \A m \in Requests :
       /\ IsRequest(m)
       /\ m.call_id # NULL => m.call_id \in Seq(-128 .. 127)

VARIABLES
  allocated, cell,     \* cells that are malloc'ed, and what they hold
  held,                \* the message handle_new_message has received, or NULL
  queue,               \* worker_threads[w].queue
  txn,                 \* txn[w][b]: the transaction of branch b at worker w
  waitAck, delTimer,   \* events whose timer is armed, by callback
  leaked,              \* history: cells nobody has a pointer to any more
  backlog              \* history: per Call-ID, the messages not served yet, oldest first

threads == <<held, queue, txn>>
timers == <<waitAck, delTimer>>
vars == <<allocated, cell, threads, timers, leaked, backlog>>

NoTxn == [state |-> "NONE", message |-> NULL, ack_message |-> NULL]
Zero == [type |-> "FREE"]
Sip(m) == [type |-> "INCOMING_SIP", message |-> m]
Delete(w, b) == [type |-> "DELETE_TRANSACTION", branch |-> b, queue |-> w]

Init ==
  /\ allocated = {} /\ cell = [c \in Cells |-> Zero]
  /\ held = NULL
  /\ queue = [w \in Workers |-> <<>>]
  /\ txn = [w \in Workers |-> [b \in Branches |-> NoTxn]]
  /\ waitAck = {} /\ delTimer = {}
  /\ leaked = {}
  /\ backlog = [id \in CallIds |-> <<>>]

\* One cell is as good as another: malloc hands out the first ones that are not taken
FirstFree(S, taken) ==
  /\ S \cap taken = {}
  /\ \A c \in S, d \in Cells : d < c => d \in S \cup taken

\* The cells C are freed and the cells in the domain of new are malloc'ed
Heap(C, new) ==
  /\ allocated' = (allocated \ C) \cup DOMAIN new
  /\ cell' = [c \in Cells |->
       IF c \in DOMAIN new THEN new[c] ELSE IF c \in C THEN Zero ELSE cell[c]]

Nothing == [c \in {} |-> Zero]
Just(c, contents) == [x \in {c} |-> contents]
\* Message c, which is in one backlog at most and once, is in none any more
Done(c) ==
  backlog' = [id \in CallIds |->
    IF \E i \in DOMAIN backlog[id] : backlog[id][i] = c
      THEN RemoveAt(backlog[id], CHOOSE i \in DOMAIN backlog[id] : backlog[id][i] = c)
      ELSE backlog[id]]

-----------------------------------------------------------------------------
\* The main thread

\* C's remainder has the sign of the dividend
Remainder(x, n) == IF x >= 0 THEN x % n ELSE -((-x) % n)

\* (mutation) the worker with the shortest queue
SelectIdle(id) ==
  CHOOSE w \in Workers : \A v \in Workers : Len(queue[w]) <= Len(queue[v])

Select(id) == Remainder(string_to_int_hash(id), NWorkers)

HasCallId(m) == m # NULL /\ m.call_id # NULL

\* A negative sum selects an element outside worker_threads
Misdirected(m) == HasCallId(m) /\ Select(m.call_id) \notin Workers

\* Five seconds without a datagram, a failing select, or no memory: back to the loop
ReceiveNothing ==
  /\ held = NULL
  /\ UNCHANGED vars

\* select, malloc, recvfrom; m is NULL when recvfrom fails or receives no byte
Receive(m) ==
  /\ held = NULL
  /\ \E c \in Cells \ allocated :
       /\ FirstFree({c}, allocated)
       /\ Heap({}, Just(c, Sip(m)))
       /\ held' = c
       /\ backlog' = [id \in CallIds |->
            IF HasCallId(m) /\ id = m.call_id THEN Append(backlog[id], c) ELSE backlog[id]]
  /\ UNCHANGED <<queue, txn, timers, leaked>>

\* (mutation) without the free
DiscardKept ==
  /\ held # NULL
  /\ ~HasCallId(cell[held].message)
  /\ held' = NULL
  /\ UNCHANGED <<allocated, cell, queue, txn, timers, leaked, backlog>>

\* Nothing was received, or a message without Call-ID
Discard ==
  /\ held # NULL
  /\ ~HasCallId(cell[held].message)
  /\ held' = NULL
  /\ Heap({held}, Nothing)
  /\ Done(held)
  /\ UNCHANGED <<queue, txn, timers, leaked>>

\* (mutation) enqueue_message without its test for a full queue
DispatchUnbounded ==
  /\ held # NULL
  /\ HasCallId(cell[held].message)
  /\ held' = NULL
  /\ LET w == Select(cell[held].message.call_id) IN
     /\ w \in Workers
     /\ queue' = [queue EXCEPT ![w] = Append(@, held)]
  /\ UNCHANGED <<allocated, cell, txn, timers, leaked, backlog>>

\* enqueue_message; a full queue gives the message back, and it is freed
Dispatch ==
  /\ held # NULL
  /\ HasCallId(cell[held].message)
  /\ held' = NULL
  /\ LET w == Select(cell[held].message.call_id) IN
     /\ w \in Workers
     /\ \/ /\ Len(queue[w]) < QueueCapacity
           /\ queue' = [queue EXCEPT ![w] = Append(@, held)]
           /\ UNCHANGED <<allocated, cell, backlog>>
        \/ /\ Len(queue[w]) = QueueCapacity
           /\ Heap({held}, Nothing)
           /\ Done(held)
           /\ UNCHANGED queue
  /\ UNCHANGED <<txn, timers, leaked>>

\* enqueue_message on memory that is no queue: it reads as a full one, or the pointer
\* goes where no thread looks for it.  What else it overwrites is not modelled.
Misdirect ==
  /\ held # NULL
  /\ Misdirected(cell[held].message)
  /\ held' = NULL
  /\ Done(held)
  /\ \/ Heap({held}, Nothing) /\ UNCHANGED leaked
     \/ leaked' = leaked \cup {held} /\ UNCHANGED <<allocated, cell>>
  /\ UNCHANGED <<queue, txn, timers>>

-----------------------------------------------------------------------------
\* The timer thread

\* transaction_wait_ack_timeout hands its event on; if timer_one_shot_add fails
\* nobody has it
WaitAckTimeout(e) ==
  /\ e \in waitAck
  /\ waitAck' = waitAck \ {e}
  /\ \/ delTimer' = delTimer \cup {e} /\ UNCHANGED leaked
     \/ "timer" \in Faults /\ leaked' = leaked \cup {e} /\ UNCHANGED delTimer
  /\ UNCHANGED <<allocated, cell, threads, backlog>>

\* transaction_delete_timeout does not look whether enqueue_message took the event
DeleteTimeout(e) ==
  /\ e \in delTimer
  /\ delTimer' = delTimer \ {e}
  /\ LET w == cell[e].queue IN
     IF Len(queue[w]) < QueueCapacity
     THEN queue' = [queue EXCEPT ![w] = Append(@, e)] /\ UNCHANGED leaked
     ELSE leaked' = leaked \cup {e} /\ UNCHANGED queue
  /\ UNCHANGED <<allocated, cell, held, txn, waitAck, backlog>>

-----------------------------------------------------------------------------
\* A worker

Dequeue(w, c) ==
  /\ queue[w] # <<>>
  /\ c = Head(queue[w])
  /\ queue' = [queue EXCEPT ![w] = Tail(@)]
  /\ Done(c)
  /\ UNCHANGED held

\* set_transaction_state(., state) for the branches B of worker w, which were not in
\* that state.  When it mallocs their events the step has freed the cells before; it
\* frees after later, and it forgets lost.  malloc may fail, and so may
\* timer_one_shot_add, whose result is ignored.
Enter(w, B, state, before, after, lost) ==
  LET taken == allocated \ before IN
  \E L \in SUBSET B, F \in SUBSET B :
    /\ L \cap F = {}
    /\ L # {} => "malloc" \in Faults \/ Cardinality(Cells \ taken) < Cardinality(B)
    /\ F # {} => "timer" \in Faults
    /\ \E event \in [B \ L -> Cells \ taken] :
         LET events == {event[b] : b \in B \ L}
             armed == {event[b] : b \in B \ (L \cup F)}
         IN
         /\ FirstFree(events, taken) /\ Cardinality(events) = Cardinality(B \ L)
         /\ Heap(before \cup after, [c \in events |-> Delete(w, CHOOSE b \in B \ L : event[b] = c)])
         /\ waitAck' = waitAck \cup IF state = "COMPLETED" THEN armed ELSE {}
         /\ delTimer' = delTimer \cup IF state = "TERMINATED" THEN armed ELSE {}
         /\ leaked' = leaked \cup (events \ armed) \cup lost

\* The state a handler leaves its transaction in: an INVITE may fail, and one in a
\* dialog is not handled
Outcomes(m) == IF m.method = "INVITE" THEN {"TERMINATED", "COMPLETED", "IDLE"}
                                      ELSE {"TERMINATED"}

\* parse_message fails
Reject(w, c) ==
  /\ Dequeue(w, c)
  /\ cell[c].type = "INCOMING_SIP"
  /\ Heap({c}, Nothing)
  /\ UNCHANGED <<txn, timers, leaked>>

\* No memory for the transaction
Refuse(w, c) ==
  /\ Dequeue(w, c)
  /\ cell[c].type = "INCOMING_SIP"
  /\ txn[w][cell[c].message.branch] = NoTxn
  /\ "malloc" \in Faults
  /\ Heap({c}, Nothing)
  /\ UNCHANGED <<txn, timers, leaked>>

\* The new transaction takes the message
Serve(w, c) ==
  /\ Dequeue(w, c)
  /\ cell[c].type = "INCOMING_SIP"
  /\ LET m == cell[c].message IN
     /\ txn[w][m.branch] = NoTxn
     /\ \E state \in Outcomes(m) :
          /\ txn' = [txn EXCEPT ![w][m.branch] = [NoTxn EXCEPT !.state = state, !.message = c]]
          /\ Enter(w, IF state = "IDLE" THEN {} ELSE {m.branch}, state, {}, {}, {})

\* The message meets a transaction on its branch
Known(w, c) ==
  /\ cell[c].type = "INCOMING_SIP"
  /\ txn[w][cell[c].message.branch] # NoTxn
First(w, c) == cell[txn[w][cell[c].message.branch].message].message
AckFor(m, first) == m.cseq # first.cseq /\ m.method = "ACK" /\ first.method = "INVITE"

\* (mutation) cleanup_sip_message of the transaction's message
FreeKnownFirst(w, c) ==
  /\ Dequeue(w, c)
  /\ Known(w, c)
  /\ ~AckFor(cell[c].message, First(w, c))
  /\ Heap({txn[w][cell[c].message.branch].message}, Nothing)
  /\ UNCHANGED <<txn, timers, leaked>>

\* A retransmission, or a request that does not fit
FreeKnown(w, c) ==
  /\ Dequeue(w, c)
  /\ Known(w, c)
  /\ ~AckFor(cell[c].message, First(w, c))
  /\ Heap({c}, Nothing)
  /\ UNCHANGED <<txn, timers, leaked>>

\* ack_message is overwritten, whether there was one or not
TakeAck(w, c) ==
  /\ Dequeue(w, c)
  /\ Known(w, c)
  /\ AckFor(cell[c].message, First(w, c))
  /\ LET b == cell[c].message.branch
         lost == {txn[w][b].ack_message} \ {NULL}
         begun == IF txn[w][b].state = "TERMINATED" THEN {} ELSE {b}
     IN
     /\ txn' = [txn EXCEPT ![w][b].ack_message = c, ![w][b].state = "TERMINATED"]
     /\ Enter(w, begun, "TERMINATED", {}, {}, lost)

\* An event whose transaction is gone
DropStaleEvent(w, c) ==
  /\ Dequeue(w, c)
  /\ cell[c].type = "DELETE_TRANSACTION"
  /\ txn[w][cell[c].branch] = NoTxn
  /\ Heap({c}, Nothing)
  /\ UNCHANGED <<txn, timers, leaked>>

\* The transactions that cleanup_dialog may set TERMINATED: any set of those that are
\* not, since their tables are in SipWorker
Endable(w, b) == {x \in Branches \ {b} : txn[w][x].state \notin {"NONE", "TERMINATED"}}

\* cleanup_transaction frees both messages.  When the dialog goes too, each transaction
\* it ends gets an event, a COMPLETED one its second.  process_sip_messages then frees
\* the event that was served.
DeleteTransaction(w, c) ==
  /\ Dequeue(w, c)
  /\ cell[c].type = "DELETE_TRANSACTION"
  /\ LET b == cell[c].branch
         messages == {txn[w][b].message, txn[w][b].ack_message} \ {NULL}
     IN
     /\ txn[w][b] # NoTxn
     /\ \E B \in SUBSET Endable(w, b) :
          /\ txn' = [txn EXCEPT ![w] = [x \in Branches |->
               IF x = b THEN NoTxn
               ELSE IF x \in B THEN [txn[w][x] EXCEPT !.state = "TERMINATED"]
               ELSE txn[w][x]]]
          /\ Enter(w, B, "TERMINATED", messages, {c}, {})

-----------------------------------------------------------------------------
Packet(w, c) ==
  \/ Reject(w, c) \/ Refuse(w, c) \/ Serve(w, c) \/ FreeKnown(w, c) \/ TakeAck(w, c)
  \/ DropStaleEvent(w, c) \/ DeleteTransaction(w, c)

Worker(w) == \E c \in Cells : Packet(w, c)

Timeout(e) == WaitAckTimeout(e) \/ DeleteTimeout(e)

Next ==
  \/ \E m \in Requests \cup {NULL} : Receive(m)
  \/ ReceiveNothing
  \/ Discard
  \/ Dispatch
  \/ Misdirect
  \/ \E w \in Workers : Worker(w)
  \/ \E e \in Cells : Timeout(e)

Spec == Init /\ [][Next]_vars

\* No thread stops, and an armed timer expires; nothing obliges a peer to send.  Whether
\* main comes back from Misdirect depends on the memory it meets.
Fairness ==
  /\ WF_vars(Discard \/ Dispatch)
  /\ \A w \in Workers : WF_vars(Worker(w))
  /\ \A e \in Cells : WF_vars(Timeout(e))

FairSpec == Spec /\ Fairness

-----------------------------------------------------------------------------
Contents == {Zero} \cup {Sip(m) : m \in Requests \cup {NULL}}
              \cup {Delete(w, b) : w \in Workers, b \in Branches}

\* No queue grows past its capacity, no table points outside the heap.
TypeOK ==
  /\ allocated \subseteq Cells
  /\ cell \in [Cells -> Contents]
  /\ held \in Cells \cup {NULL}
  /\ \A w \in Workers : queue[w] \in Seq(Cells) /\ Len(queue[w]) <= QueueCapacity
  /\ DOMAIN queue = Workers
  /\ txn \in [Workers -> [Branches ->
               [state : {"NONE", "IDLE", "COMPLETED", "TERMINATED"},
                message : Cells \cup {NULL}, ack_message : Cells \cup {NULL}]]]
  /\ waitAck \subseteq Cells /\ delTimer \subseteq Cells /\ leaked \subseteq Cells
  /\ DOMAIN backlog = CallIds /\ \A id \in CallIds : backlog[id] \in Seq(Cells)

\* How many pointers there are to cell c through which it will be freed
Owners(c) ==
  LET inQueues == {p \in Workers \X (1 .. QueueCapacity) :
                     p[2] <= Len(queue[p[1]]) /\ queue[p[1]][p[2]] = c}
      messages == {p \in Workers \X Branches : txn[p[1]][p[2]].message = c}
      acks == {p \in Workers \X Branches : txn[p[1]][p[2]].ack_message = c}
  IN Cardinality({held} \cap {c}) + Cardinality(waitAck \cap {c}) + Cardinality(delTimer \cap {c})
       + Cardinality(inQueues) + Cardinality(messages) + Cardinality(acks)

\* Whatever happens on the way of a message or an event through the three kinds of
\* threads, a full queue or a failing timer included, one place has the pointer to
\* it, so it is freed once and not used after; only an ACK (overwritten by another
\* one), an event (refused by the queue or the timers) or a message whose Call-ID
\* selects no worker is ever forgotten.
OneOwner ==
  /\ \A c \in Cells : Owners(c) = IF c \in allocated \ leaked THEN 1 ELSE 0
  /\ \A c \in leaked : /\ c \in allocated
                        /\ cell[c].type = "INCOMING_SIP" =>
                             Misdirected(cell[c].message) \/ cell[c].message.method = "ACK"

\* The messages worker w has, in its queue or in its transactions
Messages(w) ==
  {queue[w][i] : i \in {j \in DOMAIN queue[w] : cell[queue[w][j]].type = "INCOMING_SIP"}}
    \cup UNION {{txn[w][b].message, txn[w][b].ack_message} \ {NULL} : b \in Branches}

\* No two workers ever have messages of the same call, so their records need no lock.
OwnCallsOnly ==
  \A v, w \in Workers : \A c \in Messages(v), d \in Messages(w) :
    cell[c].message.call_id = cell[d].message.call_id => v = w

\* The messages of one call are served in the order they were received, although
\* many workers take packets at their own pace: what is taken out of the backlog of
\* a call is its oldest message, or the one main has just failed to enqueue.
ServedInOrder ==
  [][ \A id \in CallIds :
        Len(backlog'[id]) < Len(backlog[id]) =>
          \/ backlog'[id] = Tail(backlog[id])
          \/ held # NULL /\ held' = NULL /\ backlog'[id] = Front(backlog[id]) ]_vars

\* A transaction for which no event is under way: it is IDLE, or its event was lost
Stranded(w, b) ==
  /\ txn[w][b] # NoTxn
  /\ \A e \in waitAck \cup delTimer \cup {queue[w][i] : i \in DOMAIN queue[w]} : cell[e] # Delete(w, b)

\* Whatever is malloc'ed for a message or an event is given back, every time, unless
\* it was forgotten, belongs to a transaction without a delete event, or is with main
\* in a queue that is none.
CellsReturned ==
  \A c \in Cells :
    []<>( \/ c \notin allocated
          \/ c \in leaked
          \/ held = c /\ Misdirected(cell[c].message)
          \/ \E w \in Workers, b \in Branches :
               Stranded(w, b) /\ c \in {txn[w][b].message, txn[w][b].ack_message} )
=============================================================================
