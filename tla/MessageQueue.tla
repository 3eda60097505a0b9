---------------------------- MODULE MessageQueue ----------------------------
(***************************************************************************)
(* message_queue.c: the ring of packet pointers between the threads that   *)
(* feed a worker (the main thread and the timer thread) and the worker     *)
(* itself, guarded by one mutex and one condition variable.  Each queue    *)
(* has exactly one consumer, the worker that owns it (sip_server.c:617).   *)
(*                                                                         *)
(* One step is what a thread does between two points where another thread  *)
(* may be observed: acquiring the mutex, each half of a critical section   *)
(* (so that a missing lock would show), releasing the mutex.               *)
(***************************************************************************)
EXTENDS Integers, Sequences

CONSTANTS
  Producers,   \* threads that call enqueue_message
  Worker,      \* the thread that calls dequeue_message
  Packets,     \* the packets that are enqueued (never NULL: the callers test)
  Capacity,    \* the capacity that initialize_message_queue is asked for
  NULL

ASSUME QueueAssumption ==
  /\ Worker \notin Producers
  /\ NULL \notin Packets
  /\ NULL \notin Producers \cup {Worker}
  /\ Capacity \in Int

VARIABLES
  messages,    \* the ring: messages[i] for i in 0..capacity-1
  size, front, rear,
  mutex,       \* the thread that holds queue->mutex, NULL when it is free
  pc,          \* where each thread is in its call
  offer,       \* offer[p]: the argument of p's enqueue_message call
  answer,      \* answer[p]: the result of p's last enqueue_message call
  hand         \* *message of the worker's last dequeue_message call

vars == <<messages, size, front, rear, mutex, pc, offer, answer, hand>>

Threads == Producers \cup {Worker}

\* initialize_message_queue replaces a capacity below 1 by 1
capacity == IF Capacity <= 0 THEN 1 ELSE Capacity

Slots == 0 .. capacity - 1

\* The C expression (i + 1) % capacity
Succ(i) == (i + 1) % capacity

-----------------------------------------------------------------------------
\* initialize_message_queue; no thread is in a call yet
Init ==
  /\ messages = [i \in Slots |-> NULL]
  /\ size = 0
  /\ front = 0
  /\ rear = -1
  /\ mutex = NULL
  /\ pc = [t \in Threads |-> "idle"]
  /\ offer = [p \in Producers |-> NULL]
  /\ answer = [p \in Producers |-> 1]
  /\ hand = NULL

Goto(t, label) == pc' = [pc EXCEPT ![t] = label]

\* A producer enters enqueue_message with a packet
EnqueueCall(p, m) ==
  /\ pc[p] = "idle"
  /\ Goto(p, "lock")
  /\ offer' = [offer EXCEPT ![p] = m]
  /\ UNCHANGED <<messages, size, front, rear, mutex, answer, hand>>

EnqueueLock(p) ==
  /\ pc[p] = "lock"
  /\ mutex = NULL
  /\ mutex' = p
  /\ Goto(p, "check")
  /\ UNCHANGED <<messages, size, front, rear, offer, answer, hand>>

\* (mutations) the answers swapped; the early return without the unlock
EnqueueFullAccepts(p) ==
  /\ pc[p] = "check"
  /\ size = capacity
  /\ mutex' = NULL
  /\ Goto(p, "idle")
  /\ offer' = [offer EXCEPT ![p] = NULL]
  /\ answer' = [answer EXCEPT ![p] = 1]
  /\ UNCHANGED <<messages, size, front, rear, hand>>

EnqueueFullHolds(p) ==
  /\ pc[p] = "check"
  /\ size = capacity
  /\ Goto(p, "idle")
  /\ offer' = [offer EXCEPT ![p] = NULL]
  /\ answer' = [answer EXCEPT ![p] = 0]
  /\ UNCHANGED <<messages, size, front, rear, mutex, hand>>

\* A full queue: unlock and return 0, the packet stays with the caller
EnqueueFull(p) ==
  /\ pc[p] = "check"
  /\ size = capacity
  /\ mutex' = NULL
  /\ Goto(p, "idle")
  /\ offer' = [offer EXCEPT ![p] = NULL]
  /\ answer' = [answer EXCEPT ![p] = 0]
  /\ UNCHANGED <<messages, size, front, rear, hand>>

\* (mutation) no test for a full queue
EnqueueStoreUnchecked(p) ==
  /\ pc[p] = "check"
  /\ rear' = Succ(rear)
  /\ messages' = [messages EXCEPT ![rear'] = offer[p]]
  /\ Goto(p, "publish")
  /\ UNCHANGED <<size, front, mutex, offer, answer, hand>>

\* Advance rear and store the pointer ...
EnqueueStore(p) ==
  /\ pc[p] = "check"
  /\ size # capacity
  /\ rear' = Succ(rear)
  /\ messages' = [messages EXCEPT ![rear'] = offer[p]]
  /\ Goto(p, "publish")
  /\ UNCHANGED <<size, front, mutex, offer, answer, hand>>

\* (mutation) no pthread_cond_signal
EnqueuePublishQuietly(p) ==
  /\ pc[p] = "publish"
  /\ size' = size + 1
  /\ mutex' = NULL
  /\ Goto(p, "idle")
  /\ offer' = [offer EXCEPT ![p] = NULL]
  /\ answer' = [answer EXCEPT ![p] = 1]
  /\ UNCHANGED <<messages, front, rear, hand>>

\* ... then count it, signal the condition variable (a worker blocked in
\* pthread_cond_wait goes on to reacquire the mutex), unlock and return 1
EnqueuePublish(p) ==
  /\ pc[p] = "publish"
  /\ size' = size + 1
  /\ mutex' = NULL
  /\ pc' = [pc EXCEPT ![p] = "idle",
                      ![Worker] = IF @ = "wait" THEN "lock" ELSE @]
  /\ offer' = [offer EXCEPT ![p] = NULL]
  /\ answer' = [answer EXCEPT ![p] = 1]
  /\ UNCHANGED <<messages, front, rear, hand>>

\* The worker comes back to the top of its loop and calls dequeue_message
DequeueCall ==
  /\ pc[Worker] = "idle"
  /\ Goto(Worker, "lock")
  /\ hand' = NULL
  /\ UNCHANGED <<messages, size, front, rear, mutex, offer, answer>>

\* (mutation) going on without the mutex after the wakeup
DequeueLockBarging ==
  /\ pc[Worker] = "lock"
  /\ mutex' = Worker
  /\ Goto(Worker, "check")
  /\ UNCHANGED <<messages, size, front, rear, offer, answer, hand>>

\* pthread_mutex_lock, or the reacquisition at the end of pthread_cond_wait
DequeueLock ==
  /\ pc[Worker] = "lock"
  /\ mutex = NULL
  /\ mutex' = Worker
  /\ Goto(Worker, "check")
  /\ UNCHANGED <<messages, size, front, rear, offer, answer, hand>>

\* while (queue->size == 0): nothing to read, the mutex is still held ...
DequeueEmpty ==
  /\ pc[Worker] = "check"
  /\ size = 0
  /\ Goto(Worker, "empty")
  /\ UNCHANGED <<messages, size, front, rear, mutex, offer, answer, hand>>

\* ... pthread_cond_wait releases it and blocks atomically
DequeueWait ==
  /\ pc[Worker] = "empty"
  /\ mutex' = NULL
  /\ Goto(Worker, "wait")
  /\ UNCHANGED <<messages, size, front, rear, offer, answer, hand>>

\* POSIX lets pthread_cond_wait return without a signal
SpuriousWakeup ==
  /\ pc[Worker] = "wait"
  /\ Goto(Worker, "lock")
  /\ UNCHANGED <<messages, size, front, rear, mutex, offer, answer, hand>>

\* (mutation) front not advanced
DequeueReadAgain ==
  /\ pc[Worker] = "check"
  /\ size # 0
  /\ hand' = messages[front]
  /\ Goto(Worker, "publish")
  /\ UNCHANGED <<messages, size, front, rear, mutex, offer, answer>>

\* Read the pointer at the front and advance front ...
DequeueRead ==
  /\ pc[Worker] = "check"
  /\ size # 0
  /\ hand' = messages[front]
  /\ front' = Succ(front)
  /\ Goto(Worker, "publish")
  /\ UNCHANGED <<messages, size, rear, mutex, offer, answer>>

\* ... then uncount it, unlock and return 1
DequeuePublish ==
  /\ pc[Worker] = "publish"
  /\ size' = size - 1
  /\ mutex' = NULL
  /\ Goto(Worker, "idle")
  /\ UNCHANGED <<messages, front, rear, offer, answer, hand>>

Enqueue(p) ==
  \/ EnqueueLock(p) \/ EnqueueFull(p) \/ EnqueueStore(p) \/ EnqueuePublish(p)

Dequeue ==
  \/ DequeueCall \/ DequeueLock \/ DequeueEmpty \/ DequeueWait
  \/ DequeueRead \/ DequeuePublish

Next ==
  \/ \E p \in Producers : Enqueue(p) \/ \E m \in Packets : EnqueueCall(p, m)
  \/ Dequeue
  \/ SpuriousWakeup

Spec == Init /\ [][Next]_vars

(***************************************************************************)
(* Every thread goes on with a call it has entered, and the worker comes   *)
(* back for the next packet.  A thread that keeps finding the mutex free   *)
(* eventually gets it: the critical sections are a few assignments, and    *)
(* the futex behind a pthread mutex wakes its waiters.  The producers need *)
(* not call at all, and spurious wakeups need not happen.                  *)
(***************************************************************************)
Fairness ==
  /\ \A p \in Producers :
       /\ SF_vars(EnqueueLock(p))
       /\ WF_vars(EnqueueFull(p) \/ EnqueueStore(p) \/ EnqueuePublish(p))
  /\ SF_vars(DequeueLock)
  /\ WF_vars(DequeueCall \/ DequeueEmpty \/ DequeueWait \/ DequeueRead \/ DequeuePublish)

FairSpec == Spec /\ Fairness

-----------------------------------------------------------------------------
\* The ring holds packets and NULL only; size and the indices stay within capacity.
TypeOK ==
  /\ messages \in [Slots -> Packets \cup {NULL}]
  /\ size \in 0 .. capacity
  /\ front \in Slots
  /\ rear \in Slots \cup {-1}
  /\ mutex \in Threads \cup {NULL}
  /\ pc \in [Threads -> {"idle", "lock", "check", "publish", "empty", "wait"}]
  /\ offer \in [Producers -> Packets \cup {NULL}]
  /\ answer \in [Producers -> {0, 1}]
  /\ hand \in Packets \cup {NULL}

\* The threads between pthread_mutex_lock and pthread_mutex_unlock
Inside(t) == pc[t] \in {"check", "publish", "empty"}

\* queue->mutex protects the ring: whoever is between lock and unlock holds
\* it, so two threads never touch size, front, rear and messages together,
\* and nobody holds the mutex outside its critical section (a thread that
\* blocks in pthread_cond_wait has given it up).
MutualExclusion == \A t \in Threads : Inside(t) <=> mutex = t

\* pthread_cond_signal is not lost: from the test of size until it is woken the
\* worker has an empty queue; enqueue_message cannot store a packet before it
\* sleeps and leave it asleep, nor store one without waking it.
NoLostWakeup == pc[Worker] \in {"empty", "wait"} => size = 0

\* Packets the ring holds: size, but for the one a thread inside its critical
\* section has stored or read and not yet counted
Stored == IF \E p \in Producers : pc[p] = "publish" THEN size + 1 ELSE size
Unread == IF pc[Worker] = "publish" THEN size - 1 ELSE size

\* The three integers agree through every wrap-around of the ring: the next
\* slot enqueue_message writes is Stored slots after front (before the
\* worker's half-done dequeue advanced it), although rear starts at -1.
RingAligned ==
  Succ(rear) = (front + Stored + Unread - size) % capacity

\* The packets between front and rear, in the order dequeue_message returns them
Pending == [i \in 1 .. Unread |-> messages[(front + i - 1) % capacity]]

\* message_queue.c implements the bounded FIFO of BoundedFifo.tla: Pending is
\* its content, an enqueue takes effect when it is counted (or refused), a
\* dequeue when the pointer is read.
Fifo == INSTANCE BoundedFifo WITH fifo <- Pending, Bound <- capacity
ImplementsFifo == Fifo!Spec

\* An accepted packet is dequeued by the worker in the end: nothing accepted
\* is lost in the ring and the worker does not sleep through it.
AcceptedIsDelivered ==
  \A m \in Packets : (\E i \in DOMAIN Pending : Pending[i] = m) ~> (hand = m)

\* enqueue_message returns, whoever called it: the main thread, which serves every
\* worker, and the timer thread are not blocked for ever by a full queue or by the
\* worker.
EnqueueReturns == \A p \in Producers : []<>(pc[p] = "idle")
=============================================================================
