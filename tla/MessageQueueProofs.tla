------------------------- MODULE MessageQueueProofs -------------------------
(***************************************************************************)
(* Proofs about MessageQueue, for every set of producers and packets and   *)
(* every capacity.                                                         *)
(***************************************************************************)
EXTENDS MessageQueue, SequenceTheorems, TLAPS

\* What a thread knows inside a call: the packet it offers, and that size may
\* still be counted up (enqueue) or down (dequeue) when it gets to that.
Calls ==
  /\ \A p \in Producers :
       /\ pc[p] \notin {"empty", "wait"}
       /\ IF pc[p] = "idle" THEN offer[p] = NULL ELSE offer[p] \in Packets
       /\ pc[p] = "publish" => size < capacity
  /\ pc[Worker] = "publish" => size > 0
  /\ pc[Worker] \in {"lock", "check", "empty", "wait"} => hand = NULL

\* The inductive invariant behind the type invariant and the mutex properties
QInv == TypeOK /\ MutualExclusion /\ NoLostWakeup /\ Calls

-----------------------------------------------------------------------------
(* The ring arithmetic *)

\* i % capacity on one turn and a bit, without the modulo
Wrap(i) == IF i < capacity THEN i ELSE i - capacity

LEMMA CapacityPositive == capacity \in Nat \ {0}
  BY QueueAssumption DEF QueueAssumption, capacity

LEMMA ModBelow ==
  ASSUME NEW c \in Nat \ {0}, NEW i \in 0 .. c - 1 PROVE i % c = i
  BY SMT

LEMMA ModTurn ==
  ASSUME NEW c \in Nat \ {0}, NEW i \in c .. 2 * c - 1 PROVE i % c = i - c
  BY SMT

LEMMA ModWrap == ASSUME NEW i \in 0 .. 2 * capacity - 1 PROVE i % capacity = Wrap(i)
  <1>1. CASE i < capacity
    BY <1>1, CapacityPositive, ModBelow DEF Wrap
  <1>2. CASE i >= capacity
    BY <1>2, CapacityPositive, ModTurn DEF Wrap
  <1> QED BY <1>1, <1>2, CapacityPositive

LEMMA SuccWrap == ASSUME NEW i \in Slots \cup {-1} PROVE Succ(i) = Wrap(i + 1)
  BY CapacityPositive, ModWrap DEF Succ, Slots

LEMMA WrapType == ASSUME NEW i \in 0 .. 2 * capacity - 1 PROVE Wrap(i) \in Slots
  BY CapacityPositive DEF Wrap, Slots

-----------------------------------------------------------------------------
LEMMA QInvInit == Init => QInv
  BY QueueAssumption, CapacityPositive
  DEF Init, QInv, TypeOK, MutualExclusion, NoLostWakeup, Calls, Inside, Threads,
      Slots, QueueAssumption

LEMMA QInvStep == QInv /\ [Next]_vars => QInv'
  <1> SUFFICES ASSUME QInv, [Next]_vars PROVE QInv'
    OBVIOUS
  <1> USE QueueAssumption, CapacityPositive
      DEF QInv, TypeOK, MutualExclusion, NoLostWakeup, Calls, Inside, Threads,
          QueueAssumption
  <1>1. ASSUME NEW p \in Producers, NEW m \in Packets, EnqueueCall(p, m) PROVE QInv'
    BY <1>1 DEF EnqueueCall, Goto
  <1>2. ASSUME NEW p \in Producers, EnqueueLock(p) PROVE QInv'
    BY <1>2 DEF EnqueueLock, Goto
  <1>3. ASSUME NEW p \in Producers, EnqueueFull(p) PROVE QInv'
    BY <1>3 DEF EnqueueFull, Goto
  <1>4. ASSUME NEW p \in Producers, EnqueueStore(p) PROVE QInv'
    <2>1. rear' \in Slots
      BY <1>4, SuccWrap, WrapType, SMTT(20) DEF EnqueueStore, Slots
    <2> QED BY <1>4, <2>1 DEF EnqueueStore, Goto
  <1>5. ASSUME NEW p \in Producers, EnqueuePublish(p) PROVE QInv'
    BY <1>5 DEF EnqueuePublish, Goto
  <1>6. ASSUME DequeueCall PROVE QInv'
    BY <1>6 DEF DequeueCall, Goto
  <1>7. ASSUME DequeueLock PROVE QInv'
    BY <1>7 DEF DequeueLock, Goto
  <1>8. ASSUME DequeueWait PROVE QInv'
    BY <1>8 DEF DequeueWait, Goto
  <1>9. ASSUME DequeueRead PROVE QInv'
    <2>1. front' \in Slots
      BY <1>9, SuccWrap, WrapType DEF DequeueRead, Slots
    <2> QED BY <1>9, <2>1 DEF DequeueRead, Goto
  <1>10. ASSUME DequeuePublish PROVE QInv'
    BY <1>10 DEF DequeuePublish, Goto
  <1>11. ASSUME SpuriousWakeup PROVE QInv'
    BY <1>11 DEF SpuriousWakeup, Goto
  <1>12. ASSUME UNCHANGED vars PROVE QInv'
    BY <1>12 DEF vars
  <1>13. ASSUME DequeueEmpty PROVE QInv'
    BY <1>13 DEF DequeueEmpty, Goto
  <1> QED
    BY <1>1, <1>2, <1>3, <1>4, <1>5, <1>6, <1>7, <1>8, <1>9, <1>10, <1>11, <1>12, <1>13
    DEF Next, Enqueue, Dequeue

LEMMA QInvInvariant == Spec => []QInv
  BY QInvInit, QInvStep, PTL DEF Spec

-----------------------------------------------------------------------------
(* The ring: where the next packet goes, and which slots are pending *)

\* rear points at the last stored slot, which holds the packet of the producer
\* that has not counted it yet
RInv ==
  /\ RingAligned
  /\ \A p \in Producers :
       pc[p] = "publish" => /\ rear = Wrap(front + size)
                            /\ messages[rear] = offer[p]

\* Between two critical sections, and in one that has not touched the ring yet,
\* every stored packet is counted.
Quiet == \A t \in Threads : pc[t] # "publish"

LEMMA Critical ==
  ASSUME QInv, NEW t \in Threads, Inside(t)
  PROVE  \A u \in Threads : Inside(u) => u = t
  BY DEF QInv, MutualExclusion

StoredFacts ==
  /\ Quiet => Stored = size /\ Unread = size
  /\ \A p \in Producers : pc[p] = "publish" => Stored = size + 1 /\ Unread = size
  /\ pc[Worker] = "publish" => Stored = size /\ Unread = size - 1

LEMMA StoredUnread == QInv => StoredFacts
  <1> SUFFICES ASSUME QInv PROVE StoredFacts
    OBVIOUS
  <1>1. ASSUME NEW p \in Producers, pc[p] = "publish" PROVE pc[Worker] # "publish"
    BY <1>1, Critical, QueueAssumption DEF Threads, Inside, QueueAssumption
  <1> QED BY <1>1 DEF StoredFacts, Quiet, Stored, Unread, Threads

\* RingAligned without the modulo
AlignedFacts ==
  /\ Stored \in 0 .. capacity /\ Unread \in 0 .. capacity
  /\ Stored + Unread - size \in 0 .. capacity
  /\ RingAligned <=> Wrap(rear + 1) = Wrap(front + Stored + Unread - size)

LEMMA AlignedWrap == QInv => AlignedFacts
  <1> SUFFICES ASSUME QInv PROVE AlignedFacts
    OBVIOUS
  <1> USE CapacityPositive
  <1>1. /\ Stored \in 0 .. capacity /\ Unread \in 0 .. capacity
        /\ Stored + Unread - size \in 0 .. capacity
    BY StoredUnread DEF QInv, TypeOK, Calls, Quiet, Threads, StoredFacts
  <1>2. front + Stored + Unread - size \in 0 .. 2 * capacity - 1
    BY <1>1 DEF QInv, TypeOK, Slots
  <1>3. (front + Stored + Unread - size) % capacity = Wrap(front + Stored + Unread - size)
    BY <1>2, ModWrap
  <1>4. Succ(rear) = Wrap(rear + 1)
    BY SuccWrap DEF QInv, TypeOK
  <1> QED BY <1>1, <1>3, <1>4 DEF RingAligned, AlignedFacts

LEMMA RInvInit == Init => RInv
  <1> SUFFICES ASSUME Init PROVE RInv
    OBVIOUS
  <1>1. QInv
    BY QInvInit
  <1>2. Quiet
    BY DEF Init, Quiet
  <1>3. Stored = 0 /\ Unread = 0
    BY <1>1, <1>2, StoredUnread DEF Init, StoredFacts
  <1> QED
    BY <1>1, <1>3, AlignedWrap, CapacityPositive
    DEF RInv, Init, Wrap, Threads, AlignedFacts

LEMMA RInvStep == QInv /\ QInv' /\ RInv /\ [Next]_vars => RInv'
  <1> SUFFICES ASSUME QInv, QInv', RInv, [Next]_vars PROVE RInv'
    OBVIOUS
  <1>a. StoredFacts /\ AlignedFacts
    BY StoredUnread, AlignedWrap
  <1>b. StoredFacts' /\ AlignedFacts'
    <2>1. (QInv => StoredFacts /\ AlignedFacts)'
      BY StoredUnread, AlignedWrap, PTL
    <2> QED BY <2>1
  \* In most steps neither the ring nor what of it is counted changes
  <1>c. ASSUME UNCHANGED <<messages, size, front, rear>>,
               Stored' = Stored, Unread' = Unread,
               \A p \in Producers : pc'[p] = "publish" => pc[p] = "publish" /\ offer'[p] = offer[p]
        PROVE  RInv'
    BY <1>c DEF RInv, RingAligned, Succ, Wrap
  <1>d. Quiet /\ Quiet' /\ UNCHANGED size => Stored' = Stored /\ Unread' = Unread
    BY <1>a, <1>b DEF StoredFacts
  <1>e. ASSUME NEW t \in Threads, Inside(t), pc[t] = "check" PROVE Quiet
    BY <1>e, Critical DEF Quiet, Inside
  <1> USE QueueAssumption DEF QueueAssumption
  <1>1. ASSUME NEW p \in Producers, NEW m \in Packets, EnqueueCall(p, m) PROVE RInv'
    BY <1>1, <1>c DEF EnqueueCall, Goto, Stored, Unread, QInv, TypeOK, Threads
  <1>2. ASSUME NEW p \in Producers, EnqueueLock(p) PROVE RInv'
    BY <1>2, <1>c DEF EnqueueLock, Goto, Stored, Unread, QInv, TypeOK, Threads
  <1>3. ASSUME NEW p \in Producers, EnqueueFull(p) PROVE RInv'
    BY <1>3, <1>c DEF EnqueueFull, Goto, Stored, Unread, QInv, TypeOK, Threads
  <1>4. ASSUME NEW p \in Producers, EnqueueStore(p) PROVE RInv'
    <2>1. Quiet
      BY <1>4, <1>e DEF EnqueueStore, Inside, Threads
    <2>2. rear' = Wrap(front + size)
      <3>1. rear' = Wrap(rear + 1)
        BY <1>4, SuccWrap DEF EnqueueStore, QInv, TypeOK
      <3>2. front + Stored + Unread - size = front + size
        BY <2>1, <1>a DEF StoredFacts, QInv, TypeOK, Slots
      <3> QED BY <3>1, <3>2, <1>a DEF AlignedFacts, RInv
    <2>3. pc'[p] = "publish" /\ \A q \in Producers : pc'[q] = "publish" => q = p
      BY <1>4, <2>1 DEF EnqueueStore, Goto, Quiet, Threads, QInv, TypeOK
    <2>4. Stored' = size + 1 /\ Unread' = size
      BY <1>4, <2>3, <1>b DEF StoredFacts, EnqueueStore
    <2>5. messages'[rear'] = offer'[p]
      BY <1>4 DEF EnqueueStore, QInv, TypeOK
    <2>6. RingAligned'
      <3>1. Wrap(rear' + 1) = Wrap(front + size + 1)
        BY <1>4, <2>2, CapacityPositive DEF Wrap, QInv, TypeOK, Calls, Slots, EnqueueStore
      <3>2. (front + Stored + Unread - size)' = front + size + 1
        BY <1>4, <2>4 DEF EnqueueStore, QInv, TypeOK, Slots
      <3> QED BY <3>1, <3>2, <1>b DEF AlignedFacts
    <2> QED BY <1>4, <2>2, <2>3, <2>5, <2>6 DEF RInv, EnqueueStore, Wrap
  <1>5. ASSUME NEW p \in Producers, EnqueuePublish(p) PROVE RInv'
    <2>1. Quiet'
      BY <1>5, Critical DEF EnqueuePublish, Inside, Quiet, Threads, QInv, TypeOK
    <2>2. Stored' = size + 1 /\ Unread' = size + 1
      BY <1>5, <2>1, <1>b DEF StoredFacts, EnqueuePublish
    <2>3. Stored = size + 1 /\ Unread = size
      BY <1>5, <1>a DEF StoredFacts, EnqueuePublish
    <2>4. RingAligned'
      <3>1. (front + Stored + Unread - size)' = front + Stored + Unread - size
        BY <1>5, <2>2, <2>3 DEF EnqueuePublish, QInv, TypeOK, Slots
      <3> QED BY <1>5, <3>1 DEF RInv, RingAligned, EnqueuePublish, Succ
    <2> QED BY <2>1, <2>4 DEF RInv, Quiet, Threads
  <1>6. ASSUME DequeueCall PROVE RInv'
    BY <1>6, <1>c DEF DequeueCall, Goto, Stored, Unread, QInv, TypeOK, Threads
  <1>7. ASSUME DequeueLock PROVE RInv'
    BY <1>7, <1>c DEF DequeueLock, Goto, Stored, Unread, QInv, TypeOK, Threads
  <1>8. ASSUME DequeueWait PROVE RInv'
    BY <1>8, <1>c DEF DequeueWait, Goto, Stored, Unread, QInv, TypeOK, Threads
  <1>9. ASSUME DequeueRead PROVE RInv'
    <2>1. Quiet
      BY <1>9, <1>e DEF DequeueRead, Inside, Threads
    <2>2. front' = Wrap(front + 1)
      BY <1>9, SuccWrap DEF DequeueRead, QInv, TypeOK
    <2>3. pc'[Worker] = "publish" /\ \A q \in Producers : pc'[q] # "publish"
      BY <1>9, <2>1 DEF DequeueRead, Goto, Quiet, Threads, QInv, TypeOK
    <2>4. Stored' = size /\ Unread' = size - 1
      BY <1>9, <2>3, <1>b DEF StoredFacts, DequeueRead
    <2>5. Wrap(rear + 1) = Wrap(front + size)
      BY <2>1, <1>a DEF StoredFacts, AlignedFacts, RInv, QInv, TypeOK, Slots
    <2>6. Wrap(front + size) = Wrap(front' + size - 1)
      <3>1. front \in 0 .. capacity - 1 /\ size \in 1 .. capacity /\ capacity \in Nat \ {0}
        BY <1>9, CapacityPositive DEF DequeueRead, QInv, TypeOK, Slots
      <3>2. CASE front + 1 < capacity
        BY <3>1, <3>2, <2>2 DEF Wrap
      <3>3. CASE front + 1 = capacity
        BY <3>1, <3>3, <2>2 DEF Wrap
      <3> QED BY <3>1, <3>2, <3>3
    <2>7. RingAligned'
      BY <1>9, <2>4, <2>5, <2>6, <1>b DEF AlignedFacts, DequeueRead, QInv, TypeOK, Slots
    <2> QED BY <2>3, <2>7 DEF RInv
  <1>10. ASSUME DequeuePublish PROVE RInv'
    <2>1. Quiet'
      BY <1>10, Critical DEF DequeuePublish, Goto, Inside, Quiet, Threads, QInv, TypeOK
    <2>2. Stored' = size - 1 /\ Unread' = size - 1
      BY <1>10, <2>1, <1>b DEF StoredFacts, DequeuePublish
    <2>3. Stored = size /\ Unread = size - 1
      BY <1>10, <1>a DEF StoredFacts, DequeuePublish
    <2>4. RingAligned'
      BY <1>10, <2>2, <2>3 DEF RInv, RingAligned, DequeuePublish, QInv, TypeOK, Slots, Succ
    <2> QED BY <2>1, <2>4 DEF RInv, Quiet, Threads
  <1>11. ASSUME SpuriousWakeup PROVE RInv'
    BY <1>11, <1>c DEF SpuriousWakeup, Goto, Stored, Unread, QInv, TypeOK, Threads
  <1>12. ASSUME UNCHANGED vars PROVE RInv'
    BY <1>12, <1>c DEF vars, Stored, Unread
  <1>13. ASSUME DequeueEmpty PROVE RInv'
    BY <1>13, <1>c DEF DequeueEmpty, Goto, Stored, Unread, QInv, TypeOK, Threads
  <1> QED
    BY <1>1, <1>2, <1>3, <1>4, <1>5, <1>6, <1>7, <1>8, <1>9, <1>10, <1>11, <1>12, <1>13
    DEF Next, Enqueue, Dequeue

LEMMA RInvInvariant == Spec => [](QInv /\ RInv)
  <1>1. QInv /\ RInv /\ [Next]_vars => QInv' /\ RInv'
    BY QInvStep, RInvStep
  <1> QED BY <1>1, QInvInit, RInvInit, PTL DEF Spec

-----------------------------------------------------------------------------
(* The ring implements the bounded FIFO *)

PendingFacts ==
  /\ Pending \in Seq(Packets \cup {NULL})
  /\ Len(Pending) = Unread
  /\ \A i \in 1 .. Unread : Pending[i] = messages[Wrap(front + i - 1)]

LEMMA PendingSeq == QInv => PendingFacts
  <1> SUFFICES ASSUME QInv PROVE PendingFacts
    OBVIOUS
  <1>1. Unread \in 0 .. capacity
    BY AlignedWrap DEF AlignedFacts
  <1>2. ASSUME NEW i \in 1 .. Unread
        PROVE  /\ (front + i - 1) % capacity = Wrap(front + i - 1)
               /\ Wrap(front + i - 1) \in Slots
    <2>1. front + i - 1 \in 0 .. 2 * capacity - 1
      BY <1>1, CapacityPositive DEF QInv, TypeOK, Slots
    <2> QED BY <2>1, ModWrap, WrapType
  <1>3. Pending \in [1 .. Unread -> Packets \cup {NULL}]
    BY <1>2 DEF Pending, QInv, TypeOK
  <1>4. Pending \in Seq(Packets \cup {NULL}) /\ Len(Pending) = Unread
    BY <1>1, <1>3, CapacityPositive
  <1> QED BY <1>2, <1>4 DEF PendingFacts, Pending

\* Steps that leave the pending slots alone leave the FIFO alone
LEMMA SamePending ==
  ASSUME PendingFacts, PendingFacts', Unread' = Unread,
         \A i \in 1 .. Unread :
            messages'[Wrap(front' + i - 1)] = messages[Wrap(front + i - 1)]
  PROVE  Pending' = Pending
  <1>1. \A i \in 1 .. Len(Pending) : Pending'[i] = Pending[i]
    BY DEF PendingFacts
  <1> QED BY <1>1, SeqEqual DEF PendingFacts

LEMMA FifoInit == Init => Fifo!Init
  <1> SUFFICES ASSUME Init PROVE Fifo!Init
    OBVIOUS
  <1>1. PendingFacts /\ Unread = 0
    BY QInvInit, PendingSeq DEF Init, Unread, Threads
  <1>2. Pending = <<>>
    BY <1>1, EmptySeq DEF PendingFacts
  <1> QED BY <1>2 DEF Init, Fifo!Init

LEMMA FifoStep ==
  QInv /\ QInv' /\ RInv /\ RInv' /\ [Next]_vars => [Fifo!Next]_Fifo!vars
  <1> SUFFICES ASSUME QInv, QInv', RInv, RInv', [Next]_vars
               PROVE  [Fifo!Next]_Fifo!vars
    OBVIOUS
  <1>a. StoredFacts /\ AlignedFacts /\ PendingFacts
    BY StoredUnread, AlignedWrap, PendingSeq
  <1>b. StoredFacts' /\ AlignedFacts' /\ PendingFacts'
    <2>1. (QInv => StoredFacts /\ AlignedFacts /\ PendingFacts)'
      BY StoredUnread, AlignedWrap, PendingSeq, PTL
    <2> QED BY <2>1
  <1>c. ASSUME UNCHANGED <<messages, front>>, Unread' = Unread PROVE Pending' = Pending
    BY <1>c, <1>a, <1>b, SamePending DEF Wrap
  <1>e. ASSUME NEW t \in Threads, Inside(t), pc[t] = "check" PROVE Quiet
    BY <1>e, Critical DEF Quiet, Inside
  <1> USE QueueAssumption DEF QueueAssumption
  <1>1. ASSUME NEW p \in Producers, NEW m \in Packets, EnqueueCall(p, m) PROVE Fifo!Offer(p, m)
    <2>1. Pending' = Pending
      BY <1>1, <1>c DEF EnqueueCall, Goto, Unread, QInv, TypeOK, Threads
    <2> QED BY <1>1, <2>1 DEF EnqueueCall, Fifo!Offer, QInv, Calls
  <1>2. ASSUME NEW p \in Producers, EnqueueLock(p) PROVE UNCHANGED Fifo!vars
    <2>1. Pending' = Pending
      BY <1>2, <1>c DEF EnqueueLock, Goto, Unread, QInv, TypeOK, Threads
    <2> QED BY <1>2, <2>1 DEF EnqueueLock, Fifo!vars
  <1>3. ASSUME NEW p \in Producers, EnqueueFull(p) PROVE Fifo!Refuse(p)
    <2>1. Pending' = Pending
      BY <1>3, <1>c DEF EnqueueFull, Goto, Unread, QInv, TypeOK, Threads
    <2>2. Len(Pending) = capacity
      BY <1>3, <1>a, <1>e DEF EnqueueFull, Inside, Threads, StoredFacts, PendingFacts
    <2>3. offer[p] # NULL
      BY <1>3 DEF EnqueueFull, QInv, Calls
    <2> QED BY <1>3, <2>1, <2>2, <2>3 DEF EnqueueFull, Fifo!Refuse
  <1>4. ASSUME NEW p \in Producers, EnqueueStore(p) PROVE UNCHANGED Fifo!vars
    <2>1. Unread = size /\ Unread' = size
      BY <1>4, <1>a, <1>b, <1>e DEF EnqueueStore, Goto, Inside, Threads, StoredFacts, QInv, TypeOK
    <2>2. rear' = Wrap(front + size)
      BY <1>4 DEF RInv, EnqueueStore, Goto, QInv, TypeOK, Threads
    <2>3. ASSUME NEW i \in 1 .. Unread
          PROVE  messages'[Wrap(front + i - 1)] = messages[Wrap(front + i - 1)]
      <3>1. Wrap(front + i - 1) # Wrap(front + size) /\ Wrap(front + i - 1) \in Slots
        BY <1>4, <2>1, CapacityPositive DEF EnqueueStore, Wrap, QInv, TypeOK, Slots
      <3> QED BY <1>4, <2>2, <3>1 DEF EnqueueStore, QInv, TypeOK
    <2>4. Pending' = Pending
      BY <1>4, <2>1, <2>3, <1>a, <1>b, SamePending DEF EnqueueStore
    <2> QED BY <1>4, <2>4 DEF EnqueueStore, Fifo!vars
  <1>5. ASSUME NEW p \in Producers, EnqueuePublish(p) PROVE Fifo!Accept(p)
    <2>1. Unread = size /\ size < capacity
      BY <1>5, <1>a DEF EnqueuePublish, StoredFacts, QInv, Calls
    <2>2. Quiet'
      BY <1>5, Critical DEF EnqueuePublish, Inside, Quiet, Threads, QInv, TypeOK
    <2>3. Unread' = size + 1
      BY <1>5, <2>2, <1>b DEF EnqueuePublish, StoredFacts
    <2>4. offer[p] # NULL /\ offer[p] \in Packets
      BY <1>5 DEF EnqueuePublish, QInv, Calls
    <2>5. messages[Wrap(front + size)] = offer[p]
      BY <1>5 DEF EnqueuePublish, RInv
    <2> DEFINE app == Append(Pending, offer[p])
    <2>6. /\ app \in Seq(Packets \cup {NULL})
          /\ Len(app) = size + 1
          /\ \A i \in 1 .. size : app[i] = Pending[i]
          /\ app[size + 1] = offer[p]
      BY <2>1, <2>4, <1>a DEF PendingFacts, QInv, TypeOK
    <2>7. \A i \in 1 .. size + 1 : Pending'[i] = app[i]
      <3>1. \A i \in 1 .. size + 1 : Pending'[i] = messages[Wrap(front + i - 1)]
        BY <1>5, <2>3, <1>b DEF PendingFacts, EnqueuePublish, Wrap
      <3>2. front + (size + 1) - 1 = front + size
        BY DEF QInv, TypeOK, Slots
      <3>3. \A i \in 1 .. size : app[i] = messages[Wrap(front + i - 1)]
        BY <2>1, <2>6, <1>a DEF PendingFacts
      <3> QED BY <3>1, <3>2, <3>3, <2>5, <2>6 DEF QInv, TypeOK
    <2>8. Pending' = app
      <3> HIDE DEF app
      <3>1. Pending' \in Seq(Packets \cup {NULL}) /\ Len(Pending') = size + 1
        BY <2>3, <1>b DEF PendingFacts
      <3> QED BY <3>1, <2>6, <2>7, SeqEqual
    <2>9. Len(Pending) < capacity
      BY <2>1, <1>a DEF PendingFacts
    <2> QED BY <1>5, <2>4, <2>8, <2>9 DEF EnqueuePublish, Fifo!Accept
  <1>6. ASSUME DequeueCall PROVE Fifo!Finish \/ UNCHANGED Fifo!vars
    <2>1. Pending' = Pending
      BY <1>6, <1>c DEF DequeueCall, Goto, Unread, QInv, TypeOK, Threads
    <2> QED BY <1>6, <2>1 DEF DequeueCall, Fifo!Finish, Fifo!vars
  <1>7. ASSUME DequeueLock PROVE UNCHANGED Fifo!vars
    <2>1. Pending' = Pending
      BY <1>7, <1>c DEF DequeueLock, Goto, Unread, QInv, TypeOK, Threads
    <2> QED BY <1>7, <2>1 DEF DequeueLock, Fifo!vars
  <1>8. ASSUME DequeueWait PROVE UNCHANGED Fifo!vars
    <2>1. Pending' = Pending
      BY <1>8, <1>c DEF DequeueWait, Goto, Unread, QInv, TypeOK, Threads
    <2> QED BY <1>8, <2>1 DEF DequeueWait, Fifo!vars
  <1>9. ASSUME DequeueRead PROVE Fifo!Take
    <2>1. Unread = size /\ size \in 1 .. capacity
      BY <1>9, <1>a, <1>e, CapacityPositive
      DEF DequeueRead, Inside, Threads, StoredFacts, QInv, TypeOK
    <2>2. Unread' = size - 1
      BY <1>9, <1>b DEF DequeueRead, Goto, StoredFacts, QInv, TypeOK, Threads
    <2>3. front' = Wrap(front + 1)
      BY <1>9, SuccWrap DEF DequeueRead, QInv, TypeOK
    <2>4. Pending # <<>> /\ Head(Pending) = Pending[1]
      BY <2>1, <1>a DEF PendingFacts
    <2>5. hand' = Head(Pending)
      <3>1. Wrap(front + 1 - 1) = front
        BY CapacityPositive DEF Wrap, QInv, TypeOK, Slots
      <3> QED BY <1>9, <2>1, <2>4, <3>1, <1>a DEF PendingFacts, DequeueRead
    <2>6. /\ Tail(Pending) \in Seq(Packets \cup {NULL})
          /\ Len(Tail(Pending)) = size - 1
          /\ \A i \in 1 .. size - 1 : Tail(Pending)[i] = Pending[i + 1]
      BY <2>1, <2>4, <1>a, HeadTailProperties DEF PendingFacts
    <2>7. ASSUME NEW i \in 1 .. size - 1 PROVE Pending'[i] = Pending[i + 1]
      <3>1. Pending'[i] = messages[Wrap(front' + i - 1)]
        BY <1>9, <2>2, <1>b DEF PendingFacts, DequeueRead, Wrap
      <3>2. Pending[i + 1] = messages[Wrap(front + (i + 1) - 1)]
        BY <2>1, <1>a DEF PendingFacts
      <3>3. front \in 0 .. capacity - 1 /\ capacity \in Nat \ {0}
        BY CapacityPositive DEF QInv, TypeOK, Slots
      <3>4. Wrap(front' + i - 1) = Wrap(front + (i + 1) - 1)
        <4>1. CASE front + 1 < capacity
          BY <3>3, <4>1, <2>1, <2>3 DEF Wrap
        <4>2. CASE front + 1 = capacity
          BY <3>3, <4>2, <2>1, <2>3 DEF Wrap
        <4> QED BY <3>3, <4>1, <4>2
      <3> QED BY <3>1, <3>2, <3>4
    <2>8. Pending' = Tail(Pending)
      <3>1. Pending' \in Seq(Packets \cup {NULL}) /\ Len(Pending') = size - 1
        BY <2>2, <1>b DEF PendingFacts
      <3> QED BY <3>1, <2>6, <2>7, SeqEqual
    <2> QED BY <1>9, <2>4, <2>5, <2>8 DEF DequeueRead, Fifo!Take, QInv, Calls
  <1>10. ASSUME DequeuePublish PROVE UNCHANGED Fifo!vars
    <2>1. Quiet'
      BY <1>10, Critical DEF DequeuePublish, Goto, Inside, Quiet, Threads, QInv, TypeOK
    <2>2. Unread' = Unread
      BY <1>10, <2>1, <1>a, <1>b DEF DequeuePublish, StoredFacts
    <2>3. Pending' = Pending
      BY <1>10, <2>2, <1>c DEF DequeuePublish
    <2> QED BY <1>10, <2>3 DEF DequeuePublish, Fifo!vars
  <1>11. ASSUME SpuriousWakeup PROVE UNCHANGED Fifo!vars
    <2>1. Pending' = Pending
      BY <1>11, <1>c DEF SpuriousWakeup, Goto, Unread, QInv, TypeOK, Threads
    <2> QED BY <1>11, <2>1 DEF SpuriousWakeup, Fifo!vars
  <1>12. ASSUME UNCHANGED vars PROVE UNCHANGED Fifo!vars
    <2>1. Pending' = Pending
      BY <1>12, <1>c DEF vars, Unread
    <2> QED BY <1>12, <2>1 DEF vars, Fifo!vars
  <1>13. ASSUME DequeueEmpty PROVE UNCHANGED Fifo!vars
    <2>1. Pending' = Pending
      BY <1>13, <1>c DEF DequeueEmpty, Goto, Unread, QInv, TypeOK, Threads
    <2> QED BY <1>13, <2>1 DEF DequeueEmpty, Fifo!vars
  <1> QED
    BY <1>1, <1>2, <1>3, <1>4, <1>5, <1>6, <1>7, <1>8, <1>9, <1>10, <1>11, <1>12, <1>13
    DEF Next, Enqueue, Dequeue, Fifo!Next

-----------------------------------------------------------------------------
(* The results *)

\* The fields of message_queue_t keep their types and their ranges: size never
\* exceeds capacity and front and rear stay inside the ring, whatever the number
\* of threads and the capacity asked for.
THEOREM TypeCorrect == Spec => []TypeOK
  BY QInvInvariant, PTL DEF QInv

\* Whoever is between lock and unlock holds the mutex, so enqueue_message and
\* dequeue_message never overlap on the ring.
THEOREM MutexHeld == Spec => []MutualExclusion
  BY QInvInvariant, PTL DEF QInv

\* From its test of size until it is woken, no packet is counted behind the worker's back.
THEOREM WakeupNotLost == Spec => []NoLostWakeup
  BY QInvInvariant, PTL DEF QInv

\* size, front and rear agree at every step, through every wrap-around.
THEOREM RingConsistent == Spec => []RingAligned
  BY RInvInvariant, PTL DEF RInv

\* message_queue.c is a bounded FIFO: every packet that is accepted comes out
\* exactly once and in order, and a packet is refused only when capacity packets
\* are pending.
THEOREM QueueIsFifo == Spec => ImplementsFifo
  <1>1. Init => Fifo!Init
    BY FifoInit
  <1>2. QInv /\ RInv /\ QInv' /\ RInv' /\ [Next]_vars => [Fifo!Next]_Fifo!vars
    BY FifoStep
  <1> QED BY <1>1, <1>2, RInvInvariant, PTL DEF Spec, ImplementsFifo, Fifo!Spec
=============================================================================
