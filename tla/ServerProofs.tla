---------------------------- MODULE ServerProofs ----------------------------
(***************************************************************************)
(* Proofs about Server: who owns a heap cell, and which worker has which   *)
(* call, for any number of workers, cells, branches and messages and any   *)
(* queue capacity.                                                         *)
(*                                                                         *)
(* OneOwner counts pointers; the counts change in many places at once, so  *)
(* the inductive invariant says it place by place: a cell is free, leaked, *)
(* or at exactly one of six places (OnePlace), and the places that are     *)
(* lists or tables hold it once (Once).  What a cell holds says at which   *)
(* of them it may be (Contained).                                          *)
(***************************************************************************)
EXTENDS Server, SequenceTheorems, FiniteSetTheorems, WellFoundedInduction, TLAPS

\* Worker w has cell x in its queue, or in one of its transactions.
InQueue(w, x) == \E i \in DOMAIN queue[w] : queue[w][i] = x
HasMessage(w, x) == \E b \in Branches : txn[w][b].message = x
HasAck(w, x) == \E b \in Branches : txn[w][b].ack_message = x

Places == {"free", "leaked", "held", "waitAck", "delTimer", "queue", "message", "ack"}

At(p, x) ==
  \/ p = "free" /\ x \notin allocated
  \/ p = "leaked" /\ x \in leaked
  \/ p = "held" /\ held = x
  \/ p = "waitAck" /\ x \in waitAck
  \/ p = "delTimer" /\ x \in delTimer
  \/ p = "queue" /\ \E w \in Workers : InQueue(w, x)
  \/ p = "message" /\ \E w \in Workers : HasMessage(w, x)
  \/ p = "ack" /\ \E w \in Workers : HasAck(w, x)

\* A cell is at one place ...
OnePlace == \A x \in Cells : \E p \in Places : \A q \in Places : At(q, x) <=> q = p

\* ... and there it is once.
Once ==
  /\ \A v, w \in Workers : \A i \in DOMAIN queue[v], j \in DOMAIN queue[w] :
       queue[v][i] = queue[w][j] => v = w /\ i = j
  /\ \A v, w \in Workers, a, b \in Branches :
       txn[v][a].message # NULL /\ txn[v][a].message = txn[w][b].message => v = w /\ a = b
  /\ \A v, w \in Workers, a, b \in Branches :
       txn[v][a].ack_message # NULL /\ txn[v][a].ack_message = txn[w][b].ack_message
         => v = w /\ a = b

\* Cell x holds what main received, a message that selects no worker, a message for
\* worker w, or an event of one of its transactions.
Received(x) == \E m \in Requests \cup {NULL} : cell[x] = Sip(m)
Astray(x) == \E m \in Requests : cell[x] = Sip(m) /\ Misdirected(m)
SipFor(w, x) ==
  \E m \in Requests : cell[x] = Sip(m) /\ m.call_id # NULL /\ Select(m.call_id) = w
EventFor(w, x) == \E b \in Branches : cell[x] = Delete(w, b)
AckIn(x) == \E m \in Requests : cell[x] = Sip(m) /\ m.method = "ACK"

\* Cell x holds what belongs to the place where it is.
Fits(x) ==
  /\ held = x => Received(x)
  /\ \A w \in Workers : InQueue(w, x) => SipFor(w, x) \/ EventFor(w, x)
  /\ \A w \in Workers : HasMessage(w, x) => SipFor(w, x)
  /\ \A w \in Workers : HasAck(w, x) => SipFor(w, x) /\ AckIn(x)
  /\ x \in waitAck \cup delTimer => \E w \in Workers : EventFor(w, x)
  /\ x \in leaked => AckIn(x) \/ Astray(x) \/ \E w \in Workers : EventFor(w, x)

Contained == \A x \in Cells : Fits(x)

SInv == TypeOK /\ OnePlace /\ Once /\ Contained

-----------------------------------------------------------------------------
\* Constants and contents

LEMMA Constants ==
  /\ NWorkers \in Nat \ {0} /\ QueueCapacity \in Nat \ {0} /\ NCells \in Nat \ {0}
  /\ NULL \notin Cells
  /\ \A m \in Requests : m.branch \in Branches
BY ServerAssumption DEF IsRequest

LEMMA ContentKinds ==
  /\ \A m : Sip(m).type = "INCOMING_SIP" /\ Sip(m).message = m
  /\ \A w, b : /\ Delete(w, b).type = "DELETE_TRANSACTION"
               /\ Delete(w, b).branch = b /\ Delete(w, b).queue = w
  /\ Zero.type = "FREE"
BY DEF Sip, Delete, Zero

-----------------------------------------------------------------------------
\* Induction over the natural numbers, for a set of them

LEMMA LeastNatural ==
  ASSUME NEW T, T \subseteq Nat, T # {}
  PROVE  \E n \in T : \A m \in T : n <= m
<1>1. IsWellFoundedOn(OpToRel(<, Nat), Nat)
  BY NatLessThanWellFounded, Zenon
<1>2. PICK n \in T : \A m \in T : <<m, n>> \notin OpToRel(<, Nat)
  BY <1>1, WFMin, Zenon
<1>3. \A m \in T : <<m, n>> \notin OpToRel(<, Nat) => ~(m < n)
  BY Zenon DEF OpToRel
<1>4. \A m \in T : ~(m < n)
  BY <1>2, <1>3
<1>5. \A m \in T : m \in Nat /\ n \in Nat
  OBVIOUS
<1> QED
  BY <1>4, <1>5

LEMMA SetInduction ==
  ASSUME NEW S, NEW k \in Nat, 0 \in S, \A n \in 0 .. k : n \in S /\ n < k => n + 1 \in S
  PROVE  \A n \in 0 .. k : n \in S
<1> SUFFICES ASSUME (0 .. k) \ S # {} PROVE FALSE
  OBVIOUS
<1>1. PICK n \in (0 .. k) \ S : \A m \in (0 .. k) \ S : n <= m
  <2> DEFINE T == (0 .. k) \ S
  <2>1. T \subseteq Nat /\ T # {}
    OBVIOUS
  <2> HIDE DEF T
  <2>2. \E n \in T : \A m \in T : n <= m
    BY <2>1, LeastNatural
  <2> QED
    BY <2>2 DEF T
<1>2. n - 1 \in 0 .. k /\ n - 1 < n
  BY <1>1
<1>3. n - 1 \in S
  BY <1>1, <1>2
<1> QED
  BY <1>1, <1>2, <1>3

-----------------------------------------------------------------------------
\* The worker that a Call-ID selects

LEMMA Characters ==
  ASSUME NEW id \in Seq(0 .. 127)
  PROVE  Len(id) \in Nat /\ \A i \in 1 .. Len(id) : id[i] \in Nat
<1>1. Len(id) \in Nat
  BY LenProperties
<1>2. ASSUME NEW i \in 1 .. Len(id) PROVE id[i] \in Nat
  <2>1. id[i] \in 0 .. 127
    BY ElementOfSeq, Zenon
  <2>2. \A x \in 0 .. 127 : x \in Nat
    OBVIOUS
  <2> QED
    BY <2>1, <2>2, Zenon
<1> QED
  BY <1>1, <1>2

IsSum(id, v) ==
  v = [i \in 0 .. Len(id) |-> IF i = 0 THEN 0 ELSE v[i - 1] + id[i]]

\* The loop of string_to_int_hash has a sum after each character.
LEMMA SumExists ==
  ASSUME NEW id \in Seq(0 .. 127)
  PROVE  \E v \in [0 .. Len(id) -> Nat] : IsSum(id, v)
<1>1. PICK n : n = Len(id) /\ n \in Nat
  BY Characters
<1>2. \A i \in 1 .. n : id[i] \in Nat
  BY <1>1, Characters, Zenon
<1> DEFINE Sums(k) == {v \in [0 .. k -> Nat] : v[0] = 0 /\ \A i \in 1 .. k : v[i] = v[i - 1] + id[i]}
           S == {k \in 0 .. n : Sums(k) # {}}
<1>3. 0 \in S
  <2>1. [i \in 0 .. 0 |-> 0] \in Sums(0)
    OBVIOUS
  <2> QED
    BY <1>1, <2>1
<1>4. \A k \in 0 .. n : k \in S /\ k < n => k + 1 \in S
  <2> SUFFICES ASSUME NEW k \in 0 .. n, k \in S, k < n
               PROVE  k + 1 \in S
    OBVIOUS
  <2>1. PICK v \in [0 .. k -> Nat] : v[0] = 0 /\ \A i \in 1 .. k : v[i] = v[i - 1] + id[i]
    OBVIOUS
  <2>2. k \in Nat /\ k + 1 \in 0 .. n /\ k + 1 \in 1 .. n /\ k \in 0 .. k
    BY <1>1
  <2>3. v[k] + id[k + 1] \in Nat
    <3>1. v[k] \in Nat
      BY <2>1, <2>2, Zenon
    <3>2. id[k + 1] \in Nat
      BY <1>2, <2>2, Zenon
    <3> QED
      BY <3>1, <3>2
  <2>4. PICK w : w = [i \in 0 .. k + 1 |-> IF i = k + 1 THEN v[k] + id[k + 1] ELSE v[i]]
    OBVIOUS
  <2>5. w \in [0 .. k + 1 -> Nat]
    <3>1. \A i \in 0 .. k + 1 : i # k + 1 => i \in 0 .. k
      BY <2>2
    <3>2. \A i \in 0 .. k + 1 : (IF i = k + 1 THEN v[k] + id[k + 1] ELSE v[i]) \in Nat
      BY <2>3, <3>1
    <3> QED
      BY <2>4, <3>2
  <2>6. w[0] = 0
    BY <2>1, <2>2, <2>4
  <2>7. ASSUME NEW i \in 1 .. k + 1
        PROVE  w[i] = w[i - 1] + id[i]
    <3>1. i \in 0 .. k + 1 /\ i - 1 \in 0 .. k + 1 /\ i - 1 # k + 1
      BY <2>2
    <3>2. w[i - 1] = v[i - 1]
      BY <2>4, <3>1
    <3>3. CASE i = k + 1
      <4>1. i - 1 = k
        BY <2>2, <3>3
      <4> QED
        BY <2>4, <3>1, <3>2, <3>3, <4>1
    <3>4. CASE i # k + 1
      <4>1. i \in 1 .. k
        BY <2>2, <3>4
      <4>2. w[i] = v[i]
        BY <2>4, <3>1, <3>4
      <4> QED
        BY <2>1, <3>2, <4>1, <4>2
    <3> QED
      BY <3>3, <3>4
  <2>8. w \in Sums(k + 1)
    BY <2>5, <2>6, <2>7
  <2> QED
    BY <2>2, <2>8
<1>5. n \in S
  <2> HIDE DEF S
  <2>1. \A k \in 0 .. n : k \in S
    BY <1>1, <1>3, <1>4, SetInduction
  <2> QED
    BY <1>1, <2>1
<1>6. PICK v \in [0 .. n -> Nat] : v[0] = 0 /\ \A i \in 1 .. n : v[i] = v[i - 1] + id[i]
  BY <1>5
<1>7. \A i \in 0 .. n : v[i] = IF i = 0 THEN 0 ELSE v[i - 1] + id[i]
  <2>1. \A i \in 0 .. n : i # 0 => i \in 1 .. n
    BY <1>1
  <2> QED
    BY <1>6, <2>1
<1>8. v = [i \in 0 .. n |-> IF i = 0 THEN 0 ELSE v[i - 1] + id[i]]
  BY <1>6, <1>7
<1> QED
  BY <1>1, <1>6, <1>8 DEF IsSum

\* The sum is the same whichever function the loop is taken for.
LEMMA HashIsNatural ==
  ASSUME NEW id \in Seq(0 .. 127)
  PROVE  string_to_int_hash(id) \in Nat
<1>1. PICK v : v = (CHOOSE f : IsSum(id, f)) /\ IsSum(id, v)
  <2>1. \E f : IsSum(id, f)
    BY SumExists
  <2> QED
    BY <2>1, Zenon
<1>2. string_to_int_hash(id) = v[Len(id)]
  BY <1>1, Zenon DEF string_to_int_hash, IsSum
<1>3. PICK n : n = Len(id) /\ n \in Nat /\ \A i \in 1 .. n : id[i] \in Nat
  BY Characters, Zenon
<1>4. \A i \in 0 .. n : v[i] = IF i = 0 THEN 0 ELSE v[i - 1] + id[i]
  <2>1. v = [i \in 0 .. n |-> IF i = 0 THEN 0 ELSE v[i - 1] + id[i]]
    BY <1>1, <1>3 DEF IsSum
  <2> QED
    BY <2>1
<1> DEFINE S == {i \in 0 .. n : v[i] \in Nat}
<1>5. 0 \in S
  BY <1>3, <1>4
<1>6. \A i \in 0 .. n : i \in S /\ i < n => i + 1 \in S
  <2> SUFFICES ASSUME NEW i \in 0 .. n, i \in S, i < n
               PROVE  i + 1 \in S
    OBVIOUS
  <2>1. i + 1 \in 0 .. n /\ i + 1 \in 1 .. n /\ i + 1 # 0 /\ (i + 1) - 1 = i
    BY <1>3
  <2>2. v[i + 1] = v[i] + id[i + 1]
    BY <1>4, <2>1
  <2> QED
    BY <1>3, <2>1, <2>2
<1>7. \A i \in 0 .. n : i \in S
  <2> HIDE DEF S
  <2> QED
    BY <1>3, <1>5, <1>6, SetInduction
<1> QED
  BY <1>2, <1>3, <1>7

\* string_to_int_hash(call_id) % MAX_THREADS is the index of a worker when no character
\* of the Call-ID is negative, so that main never takes Misdirect for it.
THEOREM AsciiSelectsWorker ==
  ASSUME NEW m \in Requests, m.call_id \in Seq(0 .. 127)
  PROVE  ~Misdirected(m)
<1>1. string_to_int_hash(m.call_id) \in Nat
  BY HashIsNatural
<1>2. ASSUME NEW x \in Nat, NEW n \in Nat \ {0} PROVE Remainder(x, n) \in 0 .. n - 1
  BY DEF Remainder
<1>3. Select(m.call_id) \in Workers
  BY <1>1, <1>2, Constants DEF Select, Workers
<1> QED
  BY <1>3 DEF Misdirected

-----------------------------------------------------------------------------
\* What cells hold, and where they are

\* What a cell holds stays what it is until it is freed.
LEMMA SameContent ==
  ASSUME NEW c, cell'[c] = cell[c]
  PROVE  /\ \A w : SipFor(w, c)' <=> SipFor(w, c)
         /\ \A w : EventFor(w, c)' <=> EventFor(w, c)
         /\ AckIn(c)' <=> AckIn(c)
         /\ Received(c)' <=> Received(c)
         /\ Astray(c)' <=> Astray(c)
BY DEF SipFor, EventFor, AckIn, Received, Astray, Misdirected, HasCallId

\* malloc and free: the rest of the heap does not change.
LEMMA HeapIs ==
  ASSUME TypeOK, NEW C \in SUBSET Cells, NEW new, DOMAIN new \subseteq Cells,
         \A c \in DOMAIN new : new[c] \in Contents, Heap(C, new)
  PROVE  /\ allocated' = (allocated \ C) \cup DOMAIN new
         /\ allocated' \subseteq Cells
         /\ cell' \in [Cells -> Contents]
         /\ \A c \in DOMAIN new : cell'[c] = new[c]
         /\ \A c \in Cells : c \notin C /\ c \notin DOMAIN new => cell'[c] = cell[c]
BY DEF Heap, TypeOK, Contents

LEMMA FreeIs ==
  ASSUME TypeOK, NEW C \in SUBSET Cells, Heap(C, Nothing)
  PROVE  /\ allocated' = allocated \ C
         /\ cell' \in [Cells -> Contents]
         /\ \A c \in Cells : c \notin C => cell'[c] = cell[c]
<1>1. DOMAIN Nothing = {}
  BY DEF Nothing
<1>2. \A c \in DOMAIN Nothing : Nothing[c] \in Contents
  BY <1>1
<1>3. /\ allocated' = (allocated \ C) \cup DOMAIN Nothing
      /\ cell' \in [Cells -> Contents]
      /\ \A c \in Cells : c \notin C /\ c \notin DOMAIN Nothing => cell'[c] = cell[c]
  BY <1>1, <1>2, HeapIs
<1> QED
  BY <1>1, <1>3

-----------------------------------------------------------------------------
\* Queues

QueueTyped ==
  /\ DOMAIN queue = Workers
  /\ \A w \in Workers : queue[w] \in Seq(Cells) /\ Len(queue[w]) <= QueueCapacity

QueueOnce ==
  \A v, w \in Workers : \A i \in DOMAIN queue[v], j \in DOMAIN queue[w] :
    queue[v][i] = queue[w][j] => v = w /\ i = j

\* enqueue_message puts a cell that was in no queue into one of them.
LEMMA QueuePut ==
  ASSUME QueueTyped, QueueOnce, NEW w \in Workers, NEW c \in Cells,
         \A v \in Workers : ~InQueue(v, c),
         Len(queue[w]) < QueueCapacity,
         queue' = [queue EXCEPT ![w] = Append(queue[w], c)]
  PROVE  /\ QueueTyped' /\ QueueOnce'
         /\ \A v \in Workers : \A x : InQueue(v, x)' <=> InQueue(v, x) \/ (v = w /\ x = c)
         /\ \A v \in Workers : \A i \in DOMAIN queue'[v] :
              \/ v = w /\ queue'[v][i] = c /\ \A j \in DOMAIN queue[v] : j < i
              \/ i \in DOMAIN queue[v] /\ queue'[v][i] = queue[v][i]
<1> DEFINE q == queue[w]
<1>1. q \in Seq(Cells) /\ Len(q) \in Nat /\ DOMAIN q = 1 .. Len(q)
  BY DEF QueueTyped
<1>2. queue'[w] = Append(q, c) /\ DOMAIN queue' = Workers
        /\ \A v \in Workers : v # w => queue'[v] = queue[v]
  BY DEF QueueTyped
<1> HIDE DEF q
<1>3. /\ Append(q, c) \in Seq(Cells) /\ Len(Append(q, c)) = Len(q) + 1
      /\ \A i \in 1 .. Len(q) : Append(q, c)[i] = q[i]
      /\ Append(q, c)[Len(q) + 1] = c
  BY <1>1, AppendProperties
<1>a. queue'[w] \in Seq(Cells) /\ Len(queue'[w]) = Len(q) + 1
        /\ (\A i \in 1 .. Len(q) : queue'[w][i] = q[i]) /\ queue'[w][Len(q) + 1] = c
  BY <1>2, <1>3
<1>b. DOMAIN queue'[w] = 1 .. Len(queue'[w])
  BY <1>a, LenProperties
<1>4. DOMAIN queue'[w] = 1 .. Len(q) + 1 /\ queue'[w] \in Seq(Cells)
        /\ Len(queue'[w]) = Len(q) + 1
        /\ (\A i \in 1 .. Len(q) : queue'[w][i] = q[i]) /\ queue'[w][Len(q) + 1] = c
  BY <1>a, <1>b
<1>5. \A i \in DOMAIN queue'[w] : i \in DOMAIN q \/ i = Len(q) + 1
  BY <1>1, <1>4
<1>6. DOMAIN q \subseteq DOMAIN queue'[w] /\ Len(q) + 1 \in DOMAIN queue'[w]
        /\ Len(q) + 1 \notin DOMAIN q
  BY <1>1, <1>4
<1>7. \A v \in Workers : \A i \in DOMAIN queue'[v] :
        \/ v = w /\ i = Len(q) + 1 /\ queue'[v][i] = c
        \/ i \in DOMAIN queue[v] /\ queue'[v][i] = queue[v][i] /\ queue[v][i] # c
  BY <1>1, <1>2, <1>4, <1>5 DEF q, InQueue
<1>8. QueueTyped'
  BY <1>1, <1>2, <1>4, Constants DEF QueueTyped, q
<1>9. QueueOnce'
  BY <1>7 DEF QueueOnce
<1>10. ASSUME NEW v \in Workers, NEW x
       PROVE  InQueue(v, x)' <=> InQueue(v, x) \/ (v = w /\ x = c)
  <2>1. InQueue(v, x)' => InQueue(v, x) \/ (v = w /\ x = c)
    BY <1>7 DEF InQueue
  <2>2. v = w /\ x = c => InQueue(v, x)'
    BY <1>4, <1>6 DEF InQueue
  <2>3. InQueue(v, x) => InQueue(v, x)'
    <3> SUFFICES ASSUME NEW i \in DOMAIN queue[v], queue[v][i] = x
                 PROVE  i \in DOMAIN queue'[v] /\ queue'[v][i] = x
      BY DEF InQueue
    <3> QED
      BY <1>1, <1>2, <1>4, <1>6 DEF q
  <2> QED
    BY <2>1, <2>2, <2>3
<1>11. \A v \in Workers : \A i \in DOMAIN queue'[v] :
         \/ v = w /\ queue'[v][i] = c /\ \A j \in DOMAIN queue[v] : j < i
         \/ i \in DOMAIN queue[v] /\ queue'[v][i] = queue[v][i]
  <2>1. \A j \in DOMAIN queue[w] : j < Len(q) + 1
    BY <1>1 DEF q
  <2> QED
    BY <1>7, <2>1
<1> QED
  BY <1>8, <1>9, <1>10, <1>11

\* dequeue_message takes the cell at the head out of its queue.
LEMMA QueueTake ==
  ASSUME QueueTyped, QueueOnce, NEW w \in Workers, queue[w] # <<>>,
         queue' = [queue EXCEPT ![w] = Tail(queue[w])]
  PROVE  LET c == Head(queue[w]) IN
         /\ c \in Cells /\ 1 \in DOMAIN queue[w] /\ c = queue[w][1]
         /\ QueueTyped' /\ QueueOnce'
         /\ InQueue(w, c)
         /\ \A v \in Workers : \A x : InQueue(v, x)' <=> InQueue(v, x) /\ x # c
         /\ \A v \in Workers : \A i \in DOMAIN queue'[v] : \E j \in DOMAIN queue[v] :
              queue'[v][i] = queue[v][j] /\ j = IF v = w THEN i + 1 ELSE i
<1> DEFINE q == queue[w]
           c == Head(q)
<1>1. q \in Seq(Cells) /\ Len(q) \in Nat \ {0} /\ DOMAIN q = 1 .. Len(q) /\ q # <<>>
  BY DEF QueueTyped
<1>2. queue'[w] = Tail(q) /\ DOMAIN queue' = Workers
        /\ \A v \in Workers : v # w => queue'[v] = queue[v]
  BY DEF QueueTyped
<1>3. c \in Cells /\ c = q[1] /\ 1 \in DOMAIN q
  BY <1>1
<1> HIDE DEF q
<1>a. /\ Tail(q) \in Seq(Cells) /\ Len(Tail(q)) = Len(q) - 1
      /\ \A i \in 1 .. Len(Tail(q)) : Tail(q)[i] = q[i + 1]
  BY <1>1, HeadTailProperties
<1>b. DOMAIN Tail(q) = 1 .. Len(Tail(q))
  BY <1>a, LenProperties
<1>4. /\ queue'[w] \in Seq(Cells) /\ Len(queue'[w]) = Len(q) - 1
      /\ \A i \in 1 .. Len(q) - 1 : queue'[w][i] = q[i + 1]
  BY <1>2, <1>a
<1> HIDE DEF c
<1>5. DOMAIN queue'[w] = 1 .. Len(q) - 1
  BY <1>2, <1>a, <1>b
<1>6. \A v \in Workers : \A i \in DOMAIN queue'[v] : \E j \in DOMAIN queue[v] :
        /\ queue'[v][i] = queue[v][j] /\ queue[v][j] # c
        /\ j = IF v = w THEN i + 1 ELSE i
  <2> TAKE v \in Workers
  <2> TAKE i \in DOMAIN queue'[v]
  <2>1. CASE v = w
    <3>0. i \in 1 .. Len(q) - 1
      BY <1>5, <2>1
    <3>1. queue'[v][i] = q[i + 1]
      BY <1>4, <2>1, <3>0
    <3>2. i + 1 \in DOMAIN q /\ i + 1 # 1
      BY <1>1, <3>0
    <3> QED
      BY <1>3, <2>1, <3>1, <3>2 DEF QueueOnce, q
  <2>2. CASE v # w
    <3>1. queue[v][i] # c
      BY <1>2, <1>3, <2>2 DEF QueueOnce, q
    <3> QED
      BY <1>2, <2>2, <3>1
  <2> QED
    BY <2>1, <2>2
<1>7. QueueTyped'
  BY <1>1, <1>2, <1>4, Constants DEF QueueTyped, q
<1>8. QueueOnce'
  <2> SUFFICES ASSUME NEW u \in Workers, NEW v \in Workers,
                      NEW i \in DOMAIN queue'[u], NEW j \in DOMAIN queue'[v],
                      queue'[u][i] = queue'[v][j]
               PROVE  u = v /\ i = j
    BY DEF QueueOnce
  <2> DEFINE k == IF u = w THEN i + 1 ELSE i
             l == IF v = w THEN j + 1 ELSE j
  <2>1. k \in DOMAIN queue[u] /\ l \in DOMAIN queue[v] /\ queue[u][k] = queue[v][l]
    BY <1>6
  <2>2. u = v /\ k = l
    BY <2>1 DEF QueueOnce
  <2>3. CASE u = w
    BY <1>1, <1>5, <2>2, <2>3
  <2>4. CASE u # w
    BY <2>2, <2>4
  <2> QED
    BY <2>3, <2>4
<1>9. ASSUME NEW v \in Workers, NEW x
      PROVE  InQueue(v, x)' <=> InQueue(v, x) /\ x # c
  <2>1. InQueue(v, x)' => InQueue(v, x) /\ x # c
    BY <1>6 DEF InQueue
  <2>2. InQueue(v, x) /\ x # c => InQueue(v, x)'
    <3> SUFFICES ASSUME NEW i \in DOMAIN queue[v], queue[v][i] = x, x # c
                 PROVE  \E j \in DOMAIN queue'[v] : queue'[v][j] = x
      BY DEF InQueue
    <3>1. CASE v = w
      <4>1. i \in 1 .. Len(q) /\ i # 1 /\ q[i] = x
        BY <1>1, <1>3, <3>1 DEF q
      <4>2. i - 1 \in 1 .. Len(q) - 1 /\ (i - 1) + 1 = i
        BY <1>1, <4>1
      <4> QED
        BY <1>4, <1>5, <3>1, <4>1, <4>2
    <3>2. CASE v # w
      BY <1>2, <3>2
    <3> QED
      BY <3>1, <3>2
  <2> QED
    BY <2>1, <2>2
<1>10. InQueue(w, c)
  BY <1>3 DEF InQueue, q
<1> QED
  BY <1>3, <1>6, <1>7, <1>8, <1>9, <1>10 DEF q, c

-----------------------------------------------------------------------------
\* Places

LEMMA AtIs ==
  \A x : /\ At("free", x) <=> x \notin allocated
         /\ At("leaked", x) <=> x \in leaked
         /\ At("held", x) <=> held = x
         /\ At("waitAck", x) <=> x \in waitAck
         /\ At("delTimer", x) <=> x \in delTimer
         /\ At("queue", x) <=> \E w \in Workers : InQueue(w, x)
         /\ At("message", x) <=> \E w \in Workers : HasMessage(w, x)
         /\ At("ack", x) <=> \E w \in Workers : HasAck(w, x)
BY DEF At

LEMMA AtIsNext ==
  \A x : /\ At("free", x)' <=> x \notin allocated'
         /\ At("leaked", x)' <=> x \in leaked'
         /\ At("held", x)' <=> held' = x
         /\ At("waitAck", x)' <=> x \in waitAck'
         /\ At("delTimer", x)' <=> x \in delTimer'
         /\ At("queue", x)' <=> \E w \in Workers : InQueue(w, x)'
         /\ At("message", x)' <=> \E w \in Workers : HasMessage(w, x)'
         /\ At("ack", x)' <=> \E w \in Workers : HasAck(w, x)'
BY DEF At

\* A cell that is at one place is at no other.
LEMMA OnlyPlace ==
  ASSUME OnePlace, NEW x \in Cells, NEW p \in Places, At(p, x)
  PROVE  \A q \in Places : At(q, x) <=> q = p
BY DEF OnePlace

Unmoved(x) == \A q \in Places : At(q, x)' <=> At(q, x)
MovedTo(p, x) == \A q \in Places : At(q, x)' <=> q = p

\* A step that leaves each cell where it is, or moves it to one place, is right.
LEMMA OnePlaceKept ==
  ASSUME OnePlace, \A x \in Cells : Unmoved(x) \/ \E p \in Places : MovedTo(p, x)
  PROVE  OnePlace'
<1> SUFFICES ASSUME NEW x \in Cells
             PROVE  \E p \in Places : \A q \in Places : At(q, x)' <=> q = p
  BY DEF OnePlace
<1> QED
  BY DEF OnePlace, Unmoved, MovedTo

\* A cell that is where it was and holds what it held still belongs there.
LEMMA FitsKept ==
  ASSUME NEW x, Fits(x), cell'[x] = cell[x],
         held' = x => held = x,
         \A w \in Workers : /\ InQueue(w, x)' => InQueue(w, x)
                            /\ HasMessage(w, x)' => HasMessage(w, x)
                            /\ HasAck(w, x)' => HasAck(w, x),
         x \in waitAck' \cup delTimer' => x \in waitAck \cup delTimer,
         x \in leaked' => x \in leaked
  PROVE  Fits(x)'
<1>1. /\ \A w \in Workers : SipFor(w, x)' <=> SipFor(w, x)
      /\ \A w \in Workers : EventFor(w, x)' <=> EventFor(w, x)
      /\ AckIn(x)' <=> AckIn(x)
      /\ Received(x)' <=> Received(x)
      /\ Astray(x)' <=> Astray(x)
  BY SameContent
<1> QED
  BY <1>1 DEF Fits

\* As a cell is at one place, what it must hold depends on that place alone.
PlaceDecides(x) ==
  /\ At("free", x) => Fits(x)
  /\ At("leaked", x) /\ (AckIn(x) \/ Astray(x) \/ \E w \in Workers : EventFor(w, x)) => Fits(x)
  /\ At("held", x) /\ Received(x) => Fits(x)
  /\ At("waitAck", x) /\ (\E w \in Workers : EventFor(w, x)) => Fits(x)
  /\ At("delTimer", x) /\ (\E w \in Workers : EventFor(w, x)) => Fits(x)
  /\ At("queue", x)
       /\ (\A w \in Workers : InQueue(w, x) => SipFor(w, x) \/ EventFor(w, x)) => Fits(x)
  /\ At("message", x)
       /\ (\A w \in Workers : HasMessage(w, x) => SipFor(w, x)) => Fits(x)
  /\ At("ack", x) /\ AckIn(x)
       /\ (\A w \in Workers : HasAck(w, x) => SipFor(w, x)) => Fits(x)

LEMMA FitsThere == OnePlace => \A x \in Cells : PlaceDecides(x)
<1> SUFFICES ASSUME OnePlace, NEW x \in Cells, NEW p \in Places,
                    \A q \in Places : At(q, x) <=> q = p
             PROVE  PlaceDecides(x)
  BY DEF OnePlace
<1>1. /\ (x \notin allocated) <=> p = "free"
      /\ (x \in leaked) <=> p = "leaked"
      /\ (held = x) <=> p = "held"
      /\ (x \in waitAck) <=> p = "waitAck"
      /\ (x \in delTimer) <=> p = "delTimer"
      /\ (\E w \in Workers : InQueue(w, x)) <=> p = "queue"
      /\ (\E w \in Workers : HasMessage(w, x)) <=> p = "message"
      /\ (\E w \in Workers : HasAck(w, x)) <=> p = "ack"
  BY AtIs DEF Places
<1> QED
  BY <1>1, AtIs DEF Fits, PlaceDecides

LEMMA FitsThereNext == OnePlace' => \A x \in Cells : PlaceDecides(x)'
<1>1. (OnePlace => \A x \in Cells : PlaceDecides(x))'
  BY FitsThere, PTL
<1> QED
  BY <1>1 DEF Cells

\* What a step that does not touch the queues, or the transactions, leaves as it is
LEMMA QueueSame ==
  ASSUME queue' = queue, NEW w, NEW x
  PROVE  InQueue(w, x)' <=> InQueue(w, x)
BY DEF InQueue

LEMMA TxnSame ==
  ASSUME txn' = txn, NEW w, NEW x
  PROVE  /\ HasMessage(w, x)' <=> HasMessage(w, x)
         /\ HasAck(w, x)' <=> HasAck(w, x)
BY DEF HasMessage, HasAck

\* A cell no pointer to which changes, and that is not freed
LEMMA Rests ==
  ASSUME NEW x \in Cells, Fits(x), cell'[x] = cell[x],
         x \in allocated' <=> x \in allocated,
         x \in leaked' <=> x \in leaked,
         held' = x <=> held = x,
         x \in waitAck' <=> x \in waitAck,
         x \in delTimer' <=> x \in delTimer,
         \A w \in Workers : /\ InQueue(w, x)' <=> InQueue(w, x)
                            /\ HasMessage(w, x)' <=> HasMessage(w, x)
                            /\ HasAck(w, x)' <=> HasAck(w, x)
  PROVE  Unmoved(x) /\ Fits(x)'
<1>1. Unmoved(x)
  BY AtIs, AtIsNext DEF Unmoved, Places
<1>2. Fits(x)'
  BY FitsKept
<1> QED
  BY <1>1, <1>2

LEMMA TypeFacts ==
  ASSUME TypeOK
  PROVE  /\ QueueTyped
         /\ \A w \in Workers, b \in Branches :
              /\ txn[w][b].message \in Cells \cup {NULL}
              /\ txn[w][b].ack_message \in Cells \cup {NULL}
BY DEF TypeOK, QueueTyped

\* Done(c) leaves sequences of cells.
LEMMA DoneTyped ==
  ASSUME TypeOK, NEW c, Done(c)
  PROVE  DOMAIN backlog' = CallIds /\ \A id \in CallIds : backlog'[id] \in Seq(Cells)
<1>1. DOMAIN backlog' = CallIds
  BY DEF Done
<1>2. ASSUME NEW s \in Seq(Cells), NEW i \in DOMAIN s PROVE RemoveAt(s, i) \in Seq(Cells)
  <2>1. Len(s) \in Nat /\ i \in 1 .. Len(s)
    OBVIOUS
  <2>2. \A j \in 1 .. i - 1 : s[j] \in Cells
    BY <2>1
  <2>3. \A j \in i + 1 .. Len(s) : s[j] \in Cells
    BY <2>1
  <2>4. SubSeq(s, 1, i - 1) \in Seq(Cells) /\ SubSeq(s, i + 1, Len(s)) \in Seq(Cells)
    BY <2>1, <2>2, <2>3, SubSeqProperties
  <2> QED
    BY <2>4, ConcatProperties DEF RemoveAt
<1>3. ASSUME NEW id \in CallIds PROVE backlog'[id] \in Seq(Cells)
  <2> DEFINE s == backlog[id]
             i == CHOOSE j \in DOMAIN s : s[j] = c
  <2>1. s \in Seq(Cells)
    BY DEF TypeOK
  <2>2. CASE \E j \in DOMAIN s : s[j] = c
    <3>1. backlog'[id] = RemoveAt(s, i)
      BY <2>2 DEF Done
    <3>2. i \in DOMAIN s
      BY <2>2
    <3> HIDE DEF s, i
    <3> QED
      BY <1>2, <2>1, <3>1, <3>2
  <2>3. CASE ~ \E j \in DOMAIN s : s[j] = c
    BY <2>1, <2>3 DEF Done
  <2> QED
    BY <2>2, <2>3
<1> QED
  BY <1>1, <1>3

-----------------------------------------------------------------------------
\* The main thread

LEMMA InitKeeps == Init => SInv
<1> SUFFICES ASSUME Init PROVE SInv
  OBVIOUS
<1>1. \A w \in Workers : queue[w] = <<>> /\ queue[w] \in Seq(Cells) /\ Len(queue[w]) = 0
        /\ DOMAIN queue[w] = {}
  BY DEF Init
<1>2. \A w \in Workers, b \in Branches : txn[w][b] = NoTxn
  BY DEF Init
<1>3. NoTxn.message = NULL /\ NoTxn.ack_message = NULL
  BY DEF NoTxn
<1>4. TypeOK
  BY <1>1, Constants DEF Init, TypeOK, Contents, NoTxn
<1>5. \A x \in Cells : \A q \in Places : At(q, x) <=> q = "free"
  BY <1>1, <1>2, <1>3, Constants, AtIs DEF Init, Places, InQueue, HasMessage, HasAck
<1>6. OnePlace
  BY <1>5 DEF OnePlace, Places
<1>7. Once
  BY <1>1, <1>2, <1>3 DEF Once
<1>8. Contained
  BY <1>5, <1>6, FitsThere DEF Contained, Places, PlaceDecides
<1> QED
  BY <1>4, <1>6, <1>7, <1>8 DEF SInv

LEMMA ReceiveKeeps ==
  ASSUME SInv, NEW m \in Requests \cup {NULL}, Receive(m)
  PROVE  SInv'
<1> USE DEF SInv
<1> PICK c \in Cells \ allocated :
      /\ Heap({}, Just(c, Sip(m))) /\ held' = c
      /\ backlog' = [id \in CallIds |->
           IF HasCallId(m) /\ id = m.call_id THEN Append(backlog[id], c) ELSE backlog[id]]
  BY DEF Receive
<1>1. held = NULL /\ UNCHANGED <<queue, txn, waitAck, delTimer, leaked>>
  BY DEF Receive, timers
<1>a. PICK new : new = Just(c, Sip(m))
  OBVIOUS
<1>2. DOMAIN new = {c} /\ new[c] = Sip(m)
  BY <1>a DEF Just
<1>3. Sip(m) \in Contents
  BY DEF Contents
<1>4. /\ allocated' = (allocated \ {}) \cup DOMAIN new
      /\ cell' \in [Cells -> Contents]
      /\ \A x \in DOMAIN new : cell'[x] = new[x]
      /\ \A x \in Cells : x \notin {} /\ x \notin DOMAIN new => cell'[x] = cell[x]
  <2>1. DOMAIN new \subseteq Cells /\ \A x \in DOMAIN new : new[x] \in Contents
    BY <1>2, <1>3
  <2>2. Heap({}, new)
    BY <1>a
  <2> QED
    BY <2>1, <2>2, HeapIs
<1>5. allocated' = allocated \cup {c} /\ \A x \in Cells \ {c} : cell'[x] = cell[x]
  BY <1>2, <1>4
<1>6. TypeOK'
  <2>1. DOMAIN backlog' = CallIds /\ \A id \in CallIds : backlog'[id] \in Seq(Cells)
    BY AppendProperties DEF TypeOK
  <2>2. \A w \in Workers : queue'[w] \in Seq(Cells) /\ Len(queue'[w]) <= QueueCapacity
    BY <1>1 DEF TypeOK
  <2> QED
    BY <1>1, <1>4, <1>5, <2>1, <2>2 DEF TypeOK
<1>7. \A w \in Workers : \A x \in Cells :
               /\ InQueue(w, x)' <=> InQueue(w, x)
               /\ HasMessage(w, x)' <=> HasMessage(w, x)
               /\ HasAck(w, x)' <=> HasAck(w, x)
  BY <1>1, QueueSame, TxnSame
<1>8. ASSUME NEW x \in Cells, x # c PROVE Unmoved(x) /\ Fits(x)'
  <2>1. held # x /\ held' # x
    BY <1>1, <1>8, Constants
  <2>2. Fits(x) /\ cell'[x] = cell[x]
    BY <1>5, <1>8 DEF Contained
  <2> QED
    BY <1>1, <1>5, <1>7, <1>8, <2>1, <2>2, Rests
<1>9. MovedTo("held", c)
  <2>1. \A q \in Places : At(q, c) <=> q = "free"
    BY AtIs, OnlyPlace DEF Places
  <2> QED
    BY <1>1, <1>5, <1>7, <2>1, AtIs, AtIsNext DEF MovedTo, Places
<1>10. OnePlace'
  BY <1>8, <1>9, OnePlaceKept DEF Places
<1>11. Once'
  BY <1>1 DEF Once
<1>12. Fits(c)'
  <2>1. Received(c)'
    BY <1>2, <1>4 DEF Received
  <2>2. At("held", c)'
    BY <1>9 DEF MovedTo, Places
  <2> QED
    BY <1>10, <2>1, <2>2, FitsThereNext DEF PlaceDecides
<1>13. Contained'
  BY <1>8, <1>12 DEF Contained
<1> QED
  BY <1>6, <1>10, <1>11, <1>13

\* Main frees the message it holds.
LEMMA DropKeeps ==
  ASSUME SInv, held \in Cells, held' = NULL, Heap({held}, Nothing), Done(held),
         UNCHANGED <<queue, txn, timers, leaked>>
  PROVE  SInv'
<1> USE DEF SInv
<1>1. held' = NULL /\ NULL \notin Cells /\ UNCHANGED <<queue, txn, waitAck, delTimer, leaked>>
  BY Constants DEF timers
<1>2. PICK x0 \in Cells : x0 = held
  OBVIOUS
<1>3. /\ x0 \in allocated /\ x0 \notin leaked \cup waitAck \cup delTimer
      /\ \A u \in Workers : ~InQueue(u, x0) /\ ~HasMessage(u, x0) /\ ~HasAck(u, x0)
  <2>1. \A q \in Places : At(q, x0) <=> q = "held"
    BY <1>2, AtIs, OnlyPlace DEF Places
  <2> QED
    BY <2>1, AtIs DEF Places
<1>4. Heap({x0}, Nothing) /\ Done(x0)
  BY <1>2
<1>5. /\ allocated' = allocated \ {x0}
      /\ cell' \in [Cells -> Contents]
      /\ \A x \in Cells : x \notin {x0} => cell'[x] = cell[x]
  BY <1>4, FreeIs
<1>6. TypeOK'
  <2>1. DOMAIN backlog' = CallIds /\ \A id \in CallIds : backlog'[id] \in Seq(Cells)
    BY <1>4, DoneTyped
  <2>2. \A u \in Workers : queue'[u] \in Seq(Cells) /\ Len(queue'[u]) <= QueueCapacity
    BY <1>1 DEF TypeOK
  <2> QED
    BY <1>1, <1>5, <2>1, <2>2 DEF TypeOK
<1>7. Once'
  BY <1>1 DEF Once
<1>8. ASSUME NEW u \in Workers, NEW x \in Cells
      PROVE  /\ InQueue(u, x)' <=> InQueue(u, x)
             /\ HasMessage(u, x)' <=> HasMessage(u, x)
             /\ HasAck(u, x)' <=> HasAck(u, x)
  BY <1>1, QueueSame, TxnSame
<1>9. ASSUME NEW x \in Cells, x # x0 PROVE Unmoved(x) /\ Fits(x)'
  <2>1. Fits(x) /\ held # x /\ held' # x
    BY <1>1, <1>2, <1>9 DEF Contained
  <2>2. cell'[x] = cell[x] /\ (x \in allocated' <=> x \in allocated)
    BY <1>5, <1>9
  <2> QED
    BY <1>1, <1>8, <2>1, <2>2, Rests
<1>10. MovedTo("free", x0)
  <2>1. x0 \notin allocated' /\ held' # x0
    BY <1>1, <1>5
  <2> QED
    BY <1>1, <1>3, <1>8, <2>1, AtIsNext DEF MovedTo, Places
<1>11. OnePlace'
  BY <1>9, <1>10, OnePlaceKept DEF Places
<1>12. Fits(x0)'
  BY <1>10, <1>11, FitsThereNext DEF PlaceDecides, MovedTo, Places
<1> QED
  BY <1>6, <1>7, <1>9, <1>11, <1>12 DEF Contained

LEMMA DiscardKeeps ==
  ASSUME SInv, Discard
  PROVE  SInv'
<1>1. held \in Cells
  BY DEF SInv, TypeOK, Discard
<1> QED
  BY <1>1, DropKeeps DEF Discard

\* What main holds is a request when it has a Call-ID.
LEMMA HeldRequest ==
  ASSUME SInv, held # NULL, HasCallId(cell[held].message)
  PROVE  held \in Cells /\ \E m \in Requests : cell[held] = Sip(m) /\ HasCallId(m)
<1>1. held \in Cells
  BY DEF SInv, TypeOK
<1>2. PICK m \in Requests \cup {NULL} : cell[held] = Sip(m)
  BY <1>1 DEF SInv, Contained, Fits, Received
<1>3. HasCallId(m)
  BY <1>2, ContentKinds
<1> QED
  BY <1>1, <1>2, <1>3 DEF HasCallId

\* The message main holds is stored where no thread looks for it.
LEMMA AstrayKeeps ==
  ASSUME SInv, held # NULL, Misdirected(cell[held].message), held' = NULL, Done(held),
         leaked' = leaked \cup {held}, UNCHANGED <<allocated, cell, queue, txn, timers>>
  PROVE  SInv'
<1> USE DEF SInv
<1>1. /\ held' = NULL /\ NULL \notin Cells
      /\ UNCHANGED <<allocated, cell, queue, txn, waitAck, delTimer>>
  BY Constants DEF timers
<1>2. PICK x0 \in Cells : x0 = held
  BY DEF TypeOK
<1>3. /\ x0 \in allocated /\ x0 \notin leaked \cup waitAck \cup delTimer
      /\ \A u \in Workers : ~InQueue(u, x0) /\ ~HasMessage(u, x0) /\ ~HasAck(u, x0)
  <2>1. \A q \in Places : At(q, x0) <=> q = "held"
    BY <1>2, AtIs, OnlyPlace DEF Places
  <2> QED
    BY <2>1, AtIs DEF Places
<1>4. leaked' = leaked \cup {x0}
  BY <1>2
<1>5. Astray(x0)'
  <2>1. PICK m \in Requests : cell[held] = Sip(m) /\ HasCallId(m)
    BY HeldRequest DEF Misdirected
  <2>2. Misdirected(m)
    BY <2>1, ContentKinds
  <2> QED
    BY <1>1, <1>2, <2>1, <2>2, SameContent DEF Astray
<1>6. TypeOK'
  <2>1. DOMAIN backlog' = CallIds /\ \A id \in CallIds : backlog'[id] \in Seq(Cells)
    BY DoneTyped
  <2>2. \A u \in Workers : queue'[u] \in Seq(Cells) /\ Len(queue'[u]) <= QueueCapacity
    BY <1>1 DEF TypeOK
  <2> QED
    BY <1>1, <1>4, <2>1, <2>2 DEF TypeOK
<1>7. Once'
  BY <1>1 DEF Once
<1>8. ASSUME NEW u \in Workers, NEW x \in Cells
      PROVE  /\ InQueue(u, x)' <=> InQueue(u, x)
             /\ HasMessage(u, x)' <=> HasMessage(u, x)
             /\ HasAck(u, x)' <=> HasAck(u, x)
  BY <1>1, QueueSame, TxnSame
<1>9. ASSUME NEW x \in Cells, x # x0 PROVE Unmoved(x) /\ Fits(x)'
  <2>1. Fits(x) /\ held # x /\ held' # x
    BY <1>1, <1>2, <1>9 DEF Contained
  <2>2. x \in leaked' <=> x \in leaked
    BY <1>4, <1>9
  <2> QED
    BY <1>1, <1>8, <2>1, <2>2, Rests
<1>10. MovedTo("leaked", x0)
  <2>1. x0 \in leaked' /\ held' # x0
    BY <1>1, <1>4
  <2> QED
    BY <1>1, <1>3, <1>8, <2>1, AtIsNext DEF MovedTo, Places
<1>11. OnePlace'
  BY <1>9, <1>10, OnePlaceKept DEF Places
<1>12. Fits(x0)'
  BY <1>5, <1>10, <1>11, FitsThereNext DEF PlaceDecides, MovedTo, Places
<1> QED
  BY <1>6, <1>7, <1>9, <1>11, <1>12 DEF Contained

LEMMA MisdirectKeeps ==
  ASSUME SInv, Misdirect
  PROVE  SInv'
<1>1. /\ held # NULL /\ Misdirected(cell[held].message) /\ held' = NULL /\ Done(held)
      /\ UNCHANGED <<queue, txn, timers>>
  BY DEF Misdirect
<1>2. held \in Cells
  BY <1>1 DEF SInv, TypeOK
<1>3. CASE Heap({held}, Nothing) /\ UNCHANGED leaked
  BY <1>1, <1>2, <1>3, DropKeeps
<1>4. CASE leaked' = leaked \cup {held} /\ UNCHANGED <<allocated, cell>>
  BY <1>1, <1>4, AstrayKeeps
<1> QED
  BY <1>3, <1>4 DEF Misdirect

LEMMA DispatchKeeps ==
  ASSUME SInv, Dispatch
  PROVE  SInv'
<1> USE DEF SInv
<1> DEFINE c == held
<1>1. c \in Cells /\ held' = NULL /\ NULL \notin Cells
  BY Constants DEF Dispatch, TypeOK
<1>2. UNCHANGED <<txn, waitAck, delTimer, leaked>>
  BY DEF Dispatch, timers
<1>3. PICK x0 \in Cells : x0 = c
  BY <1>1
<1>4. \A q \in Places : At(q, x0) <=> q = "held"
  BY <1>3, AtIs, OnlyPlace DEF Places
<1>5. PICK m \in Requests : cell[x0] = Sip(m) /\ HasCallId(m)
  BY <1>3, HeldRequest DEF Dispatch
<1>6. PICK w \in Workers : w = Select(cell[held].message.call_id)
  BY DEF Dispatch
<1>7. SipFor(w, x0)
  BY <1>3, <1>5, <1>6, ContentKinds DEF SipFor, HasCallId
<1>8. /\ x0 \in allocated /\ x0 \notin leaked \cup waitAck \cup delTimer
      /\ \A u \in Workers : ~InQueue(u, x0) /\ ~HasMessage(u, x0) /\ ~HasAck(u, x0)
  BY <1>4, AtIs DEF Places
<1>9. CASE /\ Len(queue[w]) < QueueCapacity
           /\ queue' = [queue EXCEPT ![w] = Append(@, held)]
           /\ UNCHANGED <<allocated, cell, backlog>>
  <2>1. QueueTyped /\ QueueOnce /\ queue' = [queue EXCEPT ![w] = Append(queue[w], x0)]
    BY <1>3, <1>9, TypeFacts DEF Once, QueueOnce
  <2>2. /\ QueueTyped' /\ QueueOnce'
        /\ \A u \in Workers : \A x : InQueue(u, x)' <=> InQueue(u, x) \/ (u = w /\ x = x0)
    BY <1>8, <1>9, <2>1, QueuePut
  <2>3. TypeOK'
    BY <1>1, <1>2, <1>9, <2>2 DEF TypeOK, QueueTyped
  <2>4. Once'
    BY <1>2, <2>2 DEF Once, QueueOnce
  <2>5. ASSUME NEW x \in Cells, x # x0 PROVE Unmoved(x) /\ Fits(x)'
    <3>1. Fits(x) /\ held # x /\ held' # x
      BY <1>1, <1>3, <2>5 DEF Contained
    <3>2. \A u \in Workers : /\ InQueue(u, x)' <=> InQueue(u, x)
                             /\ HasMessage(u, x)' <=> HasMessage(u, x)
                             /\ HasAck(u, x)' <=> HasAck(u, x)
      BY <1>2, <2>2, <2>5, TxnSame
    <3> QED
      BY <1>2, <1>9, <3>1, <3>2, Rests
  <2>6. MovedTo("queue", x0)
    <3>1. \A u \in Workers : ~HasMessage(u, x0)' /\ ~HasAck(u, x0)'
      BY <1>2, <1>8, TxnSame
    <3>2. InQueue(w, x0)' /\ held' # x0
      BY <1>1, <2>2
    <3> QED
      BY <1>2, <1>8, <1>9, <3>1, <3>2, AtIsNext DEF MovedTo, Places
  <2>7. OnePlace'
    BY <2>5, <2>6, OnePlaceKept DEF Places
  <2>8. Fits(x0)'
    <3>1. SipFor(w, x0)' <=> SipFor(w, x0)
      BY <1>9, SameContent
    <3>2. \A u \in Workers : InQueue(u, x0)' => SipFor(u, x0)'
      BY <1>7, <1>8, <2>2, <3>1
    <3>3. At("queue", x0)'
      BY <2>6 DEF MovedTo, Places
    <3> QED
      BY <2>7, <3>2, <3>3, FitsThereNext DEF PlaceDecides
  <2> QED
    BY <2>3, <2>4, <2>5, <2>7, <2>8 DEF Contained
<1>10. CASE Heap({held}, Nothing) /\ Done(held) /\ UNCHANGED queue
  BY <1>1, <1>2, <1>10, DropKeeps DEF timers
<1> QED
  BY <1>6, <1>9, <1>10 DEF Dispatch

-----------------------------------------------------------------------------
\* The timer thread

LEMMA WaitAckTimeoutKeeps ==
  ASSUME SInv, NEW e \in Cells, WaitAckTimeout(e)
  PROVE  SInv'
<1> USE DEF SInv
<1>1. e \in waitAck /\ waitAck' = waitAck \ {e}
  BY DEF WaitAckTimeout
<1>2. UNCHANGED <<allocated, cell, held, queue, txn, backlog>>
  BY DEF WaitAckTimeout, threads
<1>3. \/ delTimer' = delTimer \cup {e} /\ leaked' = leaked
      \/ delTimer' = delTimer /\ leaked' = leaked \cup {e}
  BY DEF WaitAckTimeout
<1>4. \A q \in Places : At(q, e) <=> q = "waitAck"
  BY <1>1, AtIs, OnlyPlace DEF Places
<1>5. /\ e \in allocated /\ e \notin leaked \cup delTimer /\ held # e
      /\ \A u \in Workers : ~InQueue(u, e) /\ ~HasMessage(u, e) /\ ~HasAck(u, e)
  BY <1>4, AtIs DEF Places
<1>6. ASSUME NEW u \in Workers, NEW x \in Cells
      PROVE  /\ InQueue(u, x)' <=> InQueue(u, x)
             /\ HasMessage(u, x)' <=> HasMessage(u, x)
             /\ HasAck(u, x)' <=> HasAck(u, x)
  BY <1>2, QueueSame, TxnSame
<1>7. TypeOK'
  <2>1. \A u \in Workers : queue'[u] \in Seq(Cells) /\ Len(queue'[u]) <= QueueCapacity
    BY <1>2 DEF TypeOK
  <2>2. \A id \in CallIds : backlog'[id] \in Seq(Cells)
    BY <1>2 DEF TypeOK
  <2> QED
    BY <1>1, <1>2, <1>3, <2>1, <2>2 DEF TypeOK
<1>8. Once'
  BY <1>2 DEF Once
<1>9. ASSUME NEW x \in Cells, x # e PROVE Unmoved(x) /\ Fits(x)'
  <2>1. Fits(x)
    BY DEF Contained
  <2>2. /\ x \in leaked' <=> x \in leaked
        /\ x \in waitAck' <=> x \in waitAck
        /\ x \in delTimer' <=> x \in delTimer
    BY <1>1, <1>3, <1>9
  <2> QED
    BY <1>2, <1>6, <2>1, <2>2, Rests
<1>10. MovedTo("delTimer", e) \/ MovedTo("leaked", e)
  <2>1. CASE delTimer' = delTimer \cup {e} /\ leaked' = leaked
    BY <1>1, <1>2, <1>5, <1>6, <2>1, AtIsNext DEF MovedTo, Places
  <2>2. CASE delTimer' = delTimer /\ leaked' = leaked \cup {e}
    BY <1>1, <1>2, <1>5, <1>6, <2>2, AtIsNext DEF MovedTo, Places
  <2> QED
    BY <1>3, <2>1, <2>2
<1>11. OnePlace'
  BY <1>9, <1>10, OnePlaceKept DEF Places
<1>12. Fits(e)'
  <2>1. PICK w \in Workers : EventFor(w, e)
    BY <1>1 DEF Contained, Fits
  <2>2. EventFor(w, e)'
    BY <1>2, <2>1, SameContent
  <2>3. At("delTimer", e)' \/ At("leaked", e)'
    BY <1>10 DEF MovedTo, Places
  <2> QED
    BY <1>11, <2>2, <2>3, FitsThereNext DEF PlaceDecides
<1> QED
  BY <1>7, <1>8, <1>9, <1>11, <1>12 DEF Contained

LEMMA DeleteTimeoutKeeps ==
  ASSUME SInv, NEW e \in Cells, DeleteTimeout(e)
  PROVE  SInv'
<1> USE DEF SInv
<1>1. e \in delTimer /\ delTimer' = delTimer \ {e}
  BY DEF DeleteTimeout
<1>2. UNCHANGED <<allocated, cell, held, txn, waitAck, backlog>>
  BY DEF DeleteTimeout
<1>3. PICK w \in Workers : EventFor(w, e)
  BY <1>1 DEF Contained, Fits
<1>4. cell[e].queue = w
  BY <1>3, ContentKinds DEF EventFor
<1>5. \A q \in Places : At(q, e) <=> q = "delTimer"
  BY <1>1, AtIs, OnlyPlace DEF Places
<1>6. /\ e \in allocated /\ e \notin leaked \cup waitAck /\ held # e
      /\ \A u \in Workers : ~InQueue(u, e) /\ ~HasMessage(u, e) /\ ~HasAck(u, e)
  BY <1>5, AtIs DEF Places
<1>7. ASSUME NEW u \in Workers, NEW x \in Cells
      PROVE  /\ HasMessage(u, x)' <=> HasMessage(u, x)
             /\ HasAck(u, x)' <=> HasAck(u, x)
  BY <1>2, TxnSame
<1>8. Fits(e) /\ EventFor(w, e)'
  BY <1>2, <1>3, SameContent DEF Contained
<1>9. \A id \in CallIds : backlog'[id] \in Seq(Cells)
  BY <1>2 DEF TypeOK
<1>10. CASE Len(queue[w]) < QueueCapacity
  <2>1. queue' = [queue EXCEPT ![w] = Append(queue[w], e)] /\ leaked' = leaked
    BY <1>4, <1>10 DEF DeleteTimeout
  <2>2. QueueTyped /\ QueueOnce
    BY TypeFacts DEF Once, QueueOnce
  <2>3. /\ QueueTyped' /\ QueueOnce'
        /\ \A u \in Workers : \A x : InQueue(u, x)' <=> InQueue(u, x) \/ (u = w /\ x = e)
    BY <1>6, <1>10, <2>1, <2>2, QueuePut
  <2>4. TypeOK'
    BY <1>1, <1>2, <1>9, <2>1, <2>3 DEF TypeOK, QueueTyped
  <2>5. Once'
    BY <1>2, <2>3 DEF Once, QueueOnce
  <2>6. ASSUME NEW x \in Cells, x # e PROVE Unmoved(x) /\ Fits(x)'
    <3>1. Fits(x) /\ (x \in delTimer' <=> x \in delTimer)
      BY <1>1, <2>6 DEF Contained
    <3>2. \A u \in Workers : InQueue(u, x)' <=> InQueue(u, x)
      BY <2>3, <2>6
    <3> QED
      BY <1>2, <1>7, <2>1, <3>1, <3>2, Rests
  <2>7. MovedTo("queue", e)
    <3>1. InQueue(w, e)'
      BY <2>3
    <3> QED
      BY <1>1, <1>2, <1>6, <1>7, <2>1, <3>1, AtIsNext DEF MovedTo, Places
  <2>8. OnePlace'
    BY <2>6, <2>7, OnePlaceKept DEF Places
  <2>9. Fits(e)'
    <3>1. \A u \in Workers : InQueue(u, e)' => EventFor(u, e)'
      BY <1>6, <1>8, <2>3
    <3>2. At("queue", e)'
      BY <2>7 DEF MovedTo, Places
    <3> QED
      BY <2>8, <3>1, <3>2, FitsThereNext DEF PlaceDecides
  <2> QED
    BY <2>4, <2>5, <2>6, <2>8, <2>9 DEF Contained
<1>11. CASE ~(Len(queue[w]) < QueueCapacity)
  <2>1. queue' = queue /\ leaked' = leaked \cup {e}
    BY <1>4, <1>11 DEF DeleteTimeout
  <2>2. \A u \in Workers : queue'[u] \in Seq(Cells) /\ Len(queue'[u]) <= QueueCapacity
    BY <2>1 DEF TypeOK
  <2>3. TypeOK'
    BY <1>1, <1>2, <1>9, <2>1, <2>2 DEF TypeOK
  <2>4. Once'
    BY <1>2, <2>1 DEF Once
  <2>5. \A u \in Workers : \A x \in Cells : InQueue(u, x)' <=> InQueue(u, x)
    BY <2>1, QueueSame
  <2>6. ASSUME NEW x \in Cells, x # e PROVE Unmoved(x) /\ Fits(x)'
    <3>1. Fits(x) /\ (x \in delTimer' <=> x \in delTimer) /\ (x \in leaked' <=> x \in leaked)
      BY <1>1, <2>1, <2>6 DEF Contained
    <3> QED
      BY <1>2, <1>7, <2>5, <3>1, Rests
  <2>7. MovedTo("leaked", e)
    BY <1>1, <1>2, <1>6, <1>7, <2>1, <2>5, AtIsNext DEF MovedTo, Places
  <2>8. OnePlace'
    BY <2>6, <2>7, OnePlaceKept DEF Places
  <2>9. Fits(e)'
    BY <1>8, <2>7, <2>8, FitsThereNext DEF PlaceDecides, MovedTo, Places
  <2> QED
    BY <2>3, <2>4, <2>6, <2>8, <2>9 DEF Contained
<1> QED
  BY <1>10, <1>11

-----------------------------------------------------------------------------
\* A worker

LEMMA DequeueIs ==
  ASSUME SInv, NEW w \in Workers, NEW c, Dequeue(w, c)
  PROVE  /\ c \in Cells /\ c \in allocated
         /\ \A q \in Places : At(q, c) <=> q = "queue"
         /\ SipFor(w, c) \/ EventFor(w, c)
         /\ QueueTyped' /\ QueueOnce' /\ held' = held
         /\ \A v \in Workers : \A x : InQueue(v, x)' <=> InQueue(v, x) /\ x # c
         /\ DOMAIN backlog' = CallIds
         /\ \A id \in CallIds : backlog'[id] \in Seq(Cells)
<1> USE DEF SInv
<1>1. /\ queue[w] # <<>> /\ c = Head(queue[w]) /\ Done(c) /\ held' = held
      /\ queue' = [queue EXCEPT ![w] = Tail(queue[w])]
  BY DEF Dequeue
<1>2. QueueTyped /\ QueueOnce
  BY TypeFacts DEF Once, QueueOnce
<1>3. /\ c \in Cells /\ QueueTyped' /\ QueueOnce' /\ InQueue(w, c)
      /\ \A v \in Workers : \A x : InQueue(v, x)' <=> InQueue(v, x) /\ x # c
  BY <1>1, <1>2, QueueTake, ZenonT(30)
<1>4. \A q \in Places : At(q, c) <=> q = "queue"
  BY <1>3, AtIs, OnlyPlace DEF Places
<1>5. c \in allocated
  BY <1>4, AtIs DEF Places
<1>6. SipFor(w, c) \/ EventFor(w, c)
  BY <1>3 DEF Contained, Fits
<1> QED
  BY <1>1, <1>3, <1>4, <1>5, <1>6, DoneTyped

\* A packet that is taken and freed, the records left as they were
LEMMA FreeTaken ==
  ASSUME SInv, NEW w \in Workers, NEW c, Dequeue(w, c), Heap({c}, Nothing),
         UNCHANGED <<txn, timers, leaked>>
  PROVE  SInv'
<1> USE DEF SInv
<1>1. /\ c \in Cells
      /\ \A q \in Places : At(q, c) <=> q = "queue"
      /\ QueueTyped' /\ QueueOnce' /\ held' = held
      /\ \A v \in Workers : \A x : InQueue(v, x)' <=> InQueue(v, x) /\ x # c
      /\ DOMAIN backlog' = CallIds
      /\ \A id \in CallIds : backlog'[id] \in Seq(Cells)
  BY DequeueIs
<1>2. UNCHANGED <<txn, waitAck, delTimer, leaked>>
  BY DEF timers
<1>3. /\ allocated' = allocated \ {c}
      /\ cell' \in [Cells -> Contents]
      /\ \A x \in Cells : x \notin {c} => cell'[x] = cell[x]
  BY <1>1, FreeIs
<1>4. /\ c \notin leaked \cup waitAck \cup delTimer /\ held # c
      /\ \A u \in Workers : ~HasMessage(u, c) /\ ~HasAck(u, c)
  BY <1>1, AtIs DEF Places
<1>5. TypeOK'
  BY <1>1, <1>2, <1>3 DEF TypeOK, QueueTyped
<1>6. Once'
  BY <1>1, <1>2 DEF Once, QueueOnce
<1>7. ASSUME NEW u \in Workers, NEW x \in Cells
      PROVE  /\ HasMessage(u, x)' <=> HasMessage(u, x)
             /\ HasAck(u, x)' <=> HasAck(u, x)
  BY <1>2, TxnSame
<1>8. ASSUME NEW x \in Cells, x # c PROVE Unmoved(x) /\ Fits(x)'
  <2>1. Fits(x) /\ cell'[x] = cell[x] /\ (x \in allocated' <=> x \in allocated)
    BY <1>3, <1>8 DEF Contained
  <2>2. \A u \in Workers : InQueue(u, x)' <=> InQueue(u, x)
    BY <1>1, <1>8
  <2> QED
    BY <1>1, <1>2, <1>7, <2>1, <2>2, Rests
<1>9. MovedTo("free", c)
  <2>1. c \notin allocated' /\ \A u \in Workers : ~InQueue(u, c)'
    BY <1>1, <1>3
  <2> QED
    BY <1>1, <1>2, <1>4, <1>7, <2>1, AtIsNext DEF MovedTo, Places
<1>10. OnePlace'
  BY <1>8, <1>9, OnePlaceKept DEF Places
<1>11. Fits(c)'
  BY <1>1, <1>9, <1>10, FitsThereNext DEF PlaceDecides, MovedTo, Places
<1> QED
  BY <1>5, <1>6, <1>8, <1>10, <1>11 DEF Contained

LEMMA FreeingKeeps ==
  ASSUME SInv, NEW w \in Workers, NEW c \in Cells,
         Reject(w, c) \/ Refuse(w, c) \/ FreeKnown(w, c) \/ DropStaleEvent(w, c)
  PROVE  SInv'
<1>1. Dequeue(w, c) /\ Heap({c}, Nothing) /\ UNCHANGED <<txn, timers, leaked>>
  BY DEF Reject, Refuse, FreeKnown, DropStaleEvent
<1> QED
  BY <1>1, FreeTaken

\* What Enter does: the new events are W (armed, waiting for an ACK), D (armed, delete) and
\* F (forgotten).  An event may be in a cell the step has freed before.
Entered(w, before, freed, lost, W, D, F) ==
  /\ W \cap D = {} /\ W \cap F = {} /\ D \cap F = {}
  /\ \A x \in W \cup D \cup F : x \in Cells /\ x \notin allocated \ before /\ EventFor(w, x)'
  /\ allocated' = (allocated \ freed) \cup (W \cup D \cup F)
  /\ cell' \in [Cells -> Contents]
  /\ \A x \in Cells : x \notin freed /\ x \notin W \cup D \cup F => cell'[x] = cell[x]
  /\ waitAck' = waitAck \cup W
  /\ delTimer' = delTimer \cup D
  /\ leaked' = (leaked \cup F) \cup lost

LEMMA EnterIs ==
  ASSUME TypeOK, NEW w \in Workers, NEW B \in SUBSET Branches,
         NEW state \in {"IDLE", "COMPLETED", "TERMINATED"}, state = "IDLE" => B = {},
         NEW before \in SUBSET Cells, NEW after \in SUBSET Cells, NEW lost,
         Enter(w, B, state, before, after, lost)
  PROVE  \E W, D, F : Entered(w, before, before \cup after, lost, W, D, F)
<1> DEFINE taken == allocated \ before
           freed == before \cup after
<1>1. PICK L \in SUBSET B, G \in SUBSET B :
        \E event \in [B \ L -> Cells \ taken] :
         LET events == {event[b] : b \in B \ L}
             armed == {event[b] : b \in B \ (L \cup G)}
         IN
         /\ FirstFree(events, taken) /\ Cardinality(events) = Cardinality(B \ L)
         /\ Heap(freed, [c \in events |-> Delete(w, CHOOSE b \in B \ L : event[b] = c)])
         /\ waitAck' = waitAck \cup IF state = "COMPLETED" THEN armed ELSE {}
         /\ delTimer' = delTimer \cup IF state = "TERMINATED" THEN armed ELSE {}
         /\ leaked' = leaked \cup (events \ armed) \cup lost
  BY DEF Enter
<1> DEFINE A == B \ L
<1>2. PICK event \in [A -> Cells \ taken] :
         /\ Heap(freed, [c \in {event[b] : b \in A} |-> Delete(w, CHOOSE b \in A : event[b] = c)])
         /\ waitAck' = waitAck \cup
              IF state = "COMPLETED" THEN {event[b] : b \in B \ (L \cup G)} ELSE {}
         /\ delTimer' = delTimer \cup
              IF state = "TERMINATED" THEN {event[b] : b \in B \ (L \cup G)} ELSE {}
         /\ leaked' = leaked \cup ({event[b] : b \in A} \ {event[b] : b \in B \ (L \cup G)}) \cup lost
  BY <1>1
<1> DEFINE events == {event[b] : b \in A}
           armed == {event[b] : b \in B \ (L \cup G)}
           W == IF state = "COMPLETED" THEN armed ELSE {}
           D == IF state = "TERMINATED" THEN armed ELSE {}
           F == events \ armed
<1>3. PICK new : new = [c \in events |-> Delete(w, CHOOSE b \in A : event[b] = c)]
  OBVIOUS
<1>4. armed \subseteq events /\ events \subseteq Cells \ taken
  OBVIOUS
<1>5. DOMAIN new = events /\ \A x \in events : \E b \in Branches : new[x] = Delete(w, b)
  <2>1. ASSUME NEW x \in events PROVE \E b \in Branches : new[x] = Delete(w, b)
    <3>1. \E b \in A : event[b] = x
      OBVIOUS
    <3>2. (CHOOSE b \in A : event[b] = x) \in Branches
      BY <3>1
    <3> QED
      BY <1>3, <3>2
  <2> QED
    BY <1>3, <2>1
<1>6. Heap(freed, new) /\ waitAck' = waitAck \cup W /\ delTimer' = delTimer \cup D
        /\ leaked' = (leaked \cup F) \cup lost
  BY <1>2, <1>3
<1>7. state = "IDLE" => armed = {} /\ events = {}
  OBVIOUS
<1>a. freed \in SUBSET Cells
  OBVIOUS
<1> HIDE DEF armed, events, A, freed
<1>8. W \cup D \cup F = events
  BY <1>4, <1>7
<1>9. \A x \in DOMAIN new : new[x] \in Contents
  BY <1>5 DEF Contents
<1>10. /\ allocated' = (allocated \ freed) \cup DOMAIN new
       /\ cell' \in [Cells -> Contents]
       /\ \A x \in DOMAIN new : cell'[x] = new[x]
       /\ \A x \in Cells : x \notin freed /\ x \notin DOMAIN new => cell'[x] = cell[x]
  BY <1>4, <1>5, <1>6, <1>9, <1>a, HeapIs
<1>11. \A x \in events : EventFor(w, x)'
  BY <1>5, <1>10 DEF EventFor
<1>12. W \cap D = {} /\ W \cap F = {} /\ D \cap F = {}
  OBVIOUS
<1>13. \A x \in W \cup D \cup F : x \in Cells /\ x \notin taken /\ EventFor(w, x)'
  BY <1>4, <1>8, <1>11
<1>14. Entered(w, before, freed, lost, W, D, F)
  <2> HIDE DEF W, D, F
  <2> QED
    BY <1>5, <1>6, <1>8, <1>10, <1>12, <1>13 DEF Entered
<1> QED
  BY <1>14 DEF freed

\* Nobody has a pointer to a free cell.
LEMMA FreeIsNowhere ==
  ASSUME OnePlace, NEW x \in Cells, x \notin allocated
  PROVE  /\ x \notin leaked \cup waitAck \cup delTimer /\ held # x
         /\ \A v \in Workers : ~InQueue(v, x) /\ ~HasMessage(v, x) /\ ~HasAck(v, x)
<1>1. \A q \in Places : At(q, x) <=> q = "free"
  BY AtIs, OnlyPlace DEF Places
<1> QED
  BY <1>1, AtIs DEF Places

\* Where the new events are
LEMMA EnteredPlaces ==
  ASSUME NEW w, NEW before, NEW freed, NEW lost, NEW W, NEW D, NEW F,
         Entered(w, before, freed, lost, W, D, F), NEW x \in W \cup D \cup F,
         x \notin leaked \cup waitAck \cup delTimer \cup lost, held' # x,
         \A v \in Workers : ~InQueue(v, x)' /\ ~HasMessage(v, x)' /\ ~HasAck(v, x)'
  PROVE  MovedTo("waitAck", x) \/ MovedTo("delTimer", x) \/ MovedTo("leaked", x)
<1>4. x \in allocated'
  BY DEF Entered
<1>5. (x \in waitAck' <=> x \in W) /\ (x \in delTimer' <=> x \in D) /\ (x \in leaked' <=> x \in F)
  BY DEF Entered
<1>6. CASE x \in W
  <2>1. x \notin D /\ x \notin F
    BY <1>6 DEF Entered
  <2> QED
    BY <1>4, <1>5, <1>6, <2>1, AtIsNext DEF MovedTo, Places
<1>7. CASE x \in D
  <2>1. x \notin W /\ x \notin F
    BY <1>7 DEF Entered
  <2> QED
    BY <1>4, <1>5, <1>7, <2>1, AtIsNext DEF MovedTo, Places
<1>8. CASE x \in F
  <2>1. x \notin W /\ x \notin D
    BY <1>8 DEF Entered
  <2> QED
    BY <1>4, <1>5, <1>8, <2>1, AtIsNext DEF MovedTo, Places
<1> QED
  BY <1>6, <1>7, <1>8

LEMMA EnteredFit ==
  ASSUME OnePlace', NEW w \in Workers, NEW x \in Cells, EventFor(w, x)',
         MovedTo("waitAck", x) \/ MovedTo("delTimer", x) \/ MovedTo("leaked", x)
  PROVE  Fits(x)'
BY FitsThereNext DEF PlaceDecides, MovedTo, Places

TxnRecord ==
  [state : {"NONE", "IDLE", "COMPLETED", "TERMINATED"},
   message : Cells \cup {NULL}, ack_message : Cells \cup {NULL}]

\* The cells a worker's step is not about
LEMMA OthersRest ==
  ASSUME SInv, NEW w \in Workers, NEW c, Dequeue(w, c),
         NEW before, NEW freed, NEW lost, NEW W, NEW D, NEW F,
         Entered(w, before, freed, lost, W, D, F),
         NEW x \in Cells, x # c, x \notin freed, x \notin lost, x \notin W \cup D \cup F,
         \A v \in Workers : /\ HasMessage(v, x)' <=> HasMessage(v, x)
                            /\ HasAck(v, x)' <=> HasAck(v, x)
  PROVE  Unmoved(x) /\ Fits(x)'
<1>1. Fits(x)
  BY DEF SInv, Contained
<1>2. held' = held /\ \A v \in Workers : InQueue(v, x)' <=> InQueue(v, x)
  BY DequeueIs
<1>3. /\ cell'[x] = cell[x]
      /\ x \in allocated' <=> x \in allocated
      /\ x \in leaked' <=> x \in leaked
      /\ x \in waitAck' <=> x \in waitAck
      /\ x \in delTimer' <=> x \in delTimer
  BY DEF Entered
<1> QED
  BY <1>1, <1>2, <1>3, Rests

LEMMA EnteredTyped ==
  ASSUME SInv, NEW w \in Workers, NEW c, Dequeue(w, c),
         NEW before, NEW freed \in SUBSET Cells, NEW lost \in SUBSET Cells, NEW W, NEW D, NEW F,
         Entered(w, before, freed, lost, W, D, F),
         txn' \in [Workers -> [Branches -> TxnRecord]]
  PROVE  TypeOK'
<1>1. TypeOK /\ QueueTyped' /\ held' = held /\ DOMAIN backlog' = CallIds
        /\ \A id \in CallIds : backlog'[id] \in Seq(Cells)
  BY DequeueIs DEF SInv
<1>2. W \cup D \cup F \subseteq Cells
  BY DEF Entered
<1>3. /\ allocated' \subseteq Cells /\ waitAck' \subseteq Cells /\ delTimer' \subseteq Cells
      /\ leaked' \subseteq Cells /\ cell' \in [Cells -> Contents]
  BY <1>1, <1>2 DEF Entered, TypeOK
<1> QED
  BY <1>1, <1>3 DEF TypeOK, QueueTyped, TxnRecord

LEMMA ServeKeeps ==
  ASSUME SInv, NEW w \in Workers, NEW c \in Cells, Serve(w, c)
  PROVE  SInv'
<1> DEFINE b == cell[c].message.branch
<1>1. PICK state \in {"IDLE", "COMPLETED", "TERMINATED"} :
        /\ txn' = [txn EXCEPT ![w][b] = [NoTxn EXCEPT !.state = state, !.message = c]]
        /\ Enter(w, IF state = "IDLE" THEN {} ELSE {b}, state, {}, {}, {})
  BY DEF Serve, Outcomes
<1>2. Dequeue(w, c) /\ cell[c].type = "INCOMING_SIP" /\ txn[w][b] = NoTxn
  BY DEF Serve
<1>3. /\ c \in allocated /\ held' = held
      /\ \A q \in Places : At(q, c) <=> q = "queue"
      /\ QueueOnce'
      /\ \A v \in Workers : \A x : InQueue(v, x)' <=> InQueue(v, x) /\ x # c
      /\ SipFor(w, c) \/ EventFor(w, c)
  BY <1>2, DequeueIs
<1>4. SipFor(w, c)
  BY <1>2, <1>3, ContentKinds DEF EventFor
<1>5. b \in Branches
  BY <1>4, Constants, ContentKinds DEF SipFor
<1> HIDE DEF b
<1>6. PICK W, D, F : Entered(w, {}, {}, {}, W, D, F)
  <2>1. PICK B \in SUBSET Branches : B = IF state = "IDLE" THEN {} ELSE {b}
    BY <1>5
  <2>2. Enter(w, B, state, {}, {}, {}) /\ (state = "IDLE" => B = {})
    BY <1>1, <2>1
  <2>3. TypeOK /\ {} \in SUBSET Cells
    BY DEF SInv
  <2>4. \E W, D, F : Entered(w, {}, {} \cup {}, {}, W, D, F)
    BY <2>2, <2>3, EnterIs
  <2>5. {} \cup {} = {}
    OBVIOUS
  <2> QED
    BY <2>4, <2>5
<1>7. /\ NULL \notin Cells /\ NoTxn.message = NULL /\ NoTxn.ack_message = NULL
      /\ NoTxn \in TxnRecord
  BY Constants DEF NoTxn, TxnRecord
<1>8. txn \in [Workers -> [Branches -> TxnRecord]]
  BY DEF SInv, TypeOK, TxnRecord
<1>9. PICK r : r = [NoTxn EXCEPT !.state = state, !.message = c]
  OBVIOUS
<1>a. r \in TxnRecord /\ r.message = c /\ r.ack_message = NULL
  BY <1>7, <1>9 DEF TxnRecord
<1>10. /\ txn' \in [Workers -> [Branches -> TxnRecord]]
       /\ txn'[w][b].message = c /\ txn'[w][b].ack_message = NULL
       /\ \A v \in Workers, a \in Branches : v # w \/ a # b => txn'[v][a] = txn[v][a]
  BY <1>1, <1>5, <1>8, <1>9, <1>a
<1>11. TypeOK'
  BY <1>2, <1>6, <1>10, EnteredTyped
<1>12. /\ c \notin leaked \cup waitAck \cup delTimer /\ held # c
       /\ \A v \in Workers : ~HasMessage(v, c) /\ ~HasAck(v, c)
  BY <1>3, AtIs DEF Places
<1>13. Once'
  <2>1. \A v, u \in Workers, a, d \in Branches :
          txn'[v][a].message # NULL /\ txn'[v][a].message = txn'[u][d].message => v = u /\ a = d
    BY <1>5, <1>10, <1>12 DEF SInv, Once, HasMessage
  <2>2. \A v, u \in Workers, a, d \in Branches :
          txn'[v][a].ack_message # NULL /\ txn'[v][a].ack_message = txn'[u][d].ack_message
            => v = u /\ a = d
    BY <1>5, <1>10, <1>12 DEF SInv, Once
  <2> QED
    BY <1>3, <2>1, <2>2 DEF Once, QueueOnce
<1>14. ASSUME NEW v \in Workers, NEW x \in Cells
       PROVE  /\ HasMessage(v, x)' <=> HasMessage(v, x) \/ (v = w /\ x = c)
              /\ HasAck(v, x)' <=> HasAck(v, x)
  BY <1>2, <1>5, <1>7, <1>10 DEF b, HasMessage, HasAck
<1>15. ASSUME NEW x \in Cells, x # c, x \notin W \cup D \cup F
       PROVE  Unmoved(x) /\ Fits(x)'
  BY <1>2, <1>6, <1>14, <1>15, OthersRest
<1>16. W \cup D \cup F \subseteq Cells \ {c}
  BY <1>3, <1>6 DEF Entered
<1>17. MovedTo("message", c)
  <2>1. c \in allocated' /\ c \notin leaked' \cup waitAck' \cup delTimer' /\ held' # c
    BY <1>3, <1>6, <1>12, <1>16 DEF Entered
  <2>2. HasMessage(w, c)'
    BY <1>14
  <2>3. \A v \in Workers : ~InQueue(v, c)' /\ ~HasAck(v, c)'
    BY <1>3, <1>12, <1>14
  <2> QED
    BY <2>1, <2>2, <2>3, AtIsNext DEF MovedTo, Places
<1>18. ASSUME NEW x \in W \cup D \cup F
       PROVE  MovedTo("waitAck", x) \/ MovedTo("delTimer", x) \/ MovedTo("leaked", x)
  <2>1. x \in Cells /\ x # c /\ x \notin allocated
    BY <1>3, <1>6 DEF Entered
  <2>2. /\ x \notin leaked \cup waitAck \cup delTimer \cup {} /\ held' # x
        /\ \A v \in Workers : ~InQueue(v, x)' /\ ~HasMessage(v, x)' /\ ~HasAck(v, x)'
    BY <1>3, <1>14, <2>1, FreeIsNowhere DEF SInv
  <2> QED
    BY <1>6, <2>2, EnteredPlaces
<1>19. OnePlace'
  BY <1>15, <1>17, <1>18, OnePlaceKept DEF SInv, Places
<1>20. ASSUME NEW x \in W \cup D \cup F PROVE Fits(x)'
  <2>1. EventFor(w, x)' /\ x \in Cells
    BY <1>6 DEF Entered
  <2> QED
    BY <1>18, <1>19, <2>1, EnteredFit
<1>21. Fits(c)'
  <2>1. cell'[c] = cell[c]
    BY <1>6, <1>16 DEF Entered
  <2>2. SipFor(w, c)'
    BY <1>4, <2>1, SameContent
  <2>3. \A v \in Workers : HasMessage(v, c)' => SipFor(v, c)'
    BY <1>12, <1>14, <2>2
  <2> QED
    BY <1>17, <1>19, <2>3, FitsThereNext DEF PlaceDecides, MovedTo, Places
<1>22. Contained'
  BY <1>15, <1>20, <1>21 DEF Contained
<1> QED
  BY <1>11, <1>13, <1>19, <1>22 DEF SInv

LEMMA TakeAckKeeps ==
  ASSUME SInv, NEW w \in Workers, NEW c \in Cells, TakeAck(w, c)
  PROVE  SInv'
<1> DEFINE b == cell[c].message.branch
           lost == {txn[w][b].ack_message} \ {NULL}
<1>1. /\ txn' = [txn EXCEPT ![w][b].ack_message = c, ![w][b].state = "TERMINATED"]
      /\ Enter(w, IF txn[w][b].state = "TERMINATED" THEN {} ELSE {b}, "TERMINATED", {}, {}, lost)
  BY DEF TakeAck
<1>2. Dequeue(w, c) /\ cell[c].type = "INCOMING_SIP" /\ cell[c].message.method = "ACK"
  BY DEF TakeAck, Known, AckFor
<1>3. /\ c \in allocated /\ held' = held
      /\ \A q \in Places : At(q, c) <=> q = "queue"
      /\ QueueOnce'
      /\ \A v \in Workers : \A x : InQueue(v, x)' <=> InQueue(v, x) /\ x # c
      /\ SipFor(w, c) \/ EventFor(w, c)
  BY <1>2, DequeueIs
<1>4. SipFor(w, c) /\ AckIn(c)
  BY <1>2, <1>3, ContentKinds DEF SipFor, EventFor, AckIn
<1>5. b \in Branches
  BY <1>4, Constants, ContentKinds DEF SipFor
<1> HIDE DEF b
<1>6. txn \in [Workers -> [Branches -> TxnRecord]]
  BY DEF SInv, TypeOK, TxnRecord
<1>7. lost \in SUBSET Cells /\ \A x \in lost : txn[w][b].ack_message = x
  BY <1>5, <1>6 DEF TxnRecord
<1>8. PICK W, D, F : Entered(w, {}, {}, lost, W, D, F)
  <2> HIDE DEF lost
  <2>1. PICK B \in SUBSET Branches : B = IF txn[w][b].state = "TERMINATED" THEN {} ELSE {b}
    BY <1>5
  <2>2. Enter(w, B, "TERMINATED", {}, {}, lost)
    BY <1>1, <2>1
  <2>3. TypeOK /\ {} \in SUBSET Cells
    BY DEF SInv
  <2>4. \E W, D, F : Entered(w, {}, {} \cup {}, lost, W, D, F)
    BY <2>2, <2>3, EnterIs
  <2>5. {} \cup {} = {}
    OBVIOUS
  <2> QED
    BY <2>4, <2>5
<1>9. NULL \notin Cells
  BY Constants
<1>10. /\ txn' \in [Workers -> [Branches -> TxnRecord]]
       /\ txn'[w][b].message = txn[w][b].message /\ txn'[w][b].ack_message = c
       /\ \A v \in Workers, a \in Branches : v # w \/ a # b => txn'[v][a] = txn[v][a]
  <2>1. PICK r : r = [txn[w][b] EXCEPT !.ack_message = c, !.state = "TERMINATED"]
    OBVIOUS
  <2>2. txn[w][b] \in TxnRecord
    BY <1>5, <1>6
  <2>3. r \in TxnRecord /\ r.message = txn[w][b].message /\ r.ack_message = c
    BY <2>1, <2>2 DEF TxnRecord
  <2>4. txn' = [txn EXCEPT ![w] = [txn[w] EXCEPT ![b] = r]]
    BY <1>1, <1>5, <1>6, <2>1
  <2> QED
    BY <1>5, <1>6, <2>3, <2>4
<1>11. TypeOK'
  BY <1>2, <1>7, <1>8, <1>10, EnteredTyped
<1>12. /\ c \notin leaked \cup waitAck \cup delTimer /\ held # c
       /\ \A v \in Workers : ~HasMessage(v, c) /\ ~HasAck(v, c)
  BY <1>3, AtIs DEF Places
<1>13. Once'
  <2>1. \A v, u \in Workers, a, d \in Branches :
          txn'[v][a].message # NULL /\ txn'[v][a].message = txn'[u][d].message => v = u /\ a = d
    BY <1>5, <1>10 DEF SInv, Once
  <2>2. \A v, u \in Workers, a, d \in Branches :
          txn'[v][a].ack_message # NULL /\ txn'[v][a].ack_message = txn'[u][d].ack_message
            => v = u /\ a = d
    BY <1>5, <1>10, <1>12 DEF SInv, Once, HasAck
  <2> QED
    BY <1>3, <2>1, <2>2 DEF Once, QueueOnce
<1>14. ASSUME NEW v \in Workers, NEW x \in Cells
       PROVE  /\ HasMessage(v, x)' <=> HasMessage(v, x)
              /\ HasAck(v, x)' <=> (HasAck(v, x) /\ x \notin lost) \/ (v = w /\ x = c)
  <2>1. HasMessage(v, x)' <=> HasMessage(v, x)
    BY <1>5, <1>10 DEF HasMessage
  <2>2. HasAck(v, x) /\ x \notin lost => HasAck(v, x)'
    BY <1>5, <1>9, <1>10 DEF HasAck
  <2>3. v = w /\ x = c => HasAck(v, x)'
    BY <1>5, <1>10 DEF HasAck
  <2>4. HasAck(v, x)' => (HasAck(v, x) /\ x \notin lost) \/ (v = w /\ x = c)
    BY <1>5, <1>7, <1>9, <1>10 DEF HasAck, SInv, Once
  <2> QED
    BY <2>1, <2>2, <2>3, <2>4
<1>15. \A x \in lost : HasAck(w, x)
  BY <1>5, <1>7 DEF HasAck
<1>16. \A x \in lost : \A q \in Places : At(q, x) <=> q = "ack"
  BY <1>7, <1>15, AtIs, OnlyPlace DEF SInv, Places
<1>17. /\ c \notin lost /\ lost \subseteq allocated
       /\ \A x \in lost : /\ x \notin waitAck \cup delTimer /\ held # x
                          /\ \A v \in Workers : ~InQueue(v, x) /\ ~HasMessage(v, x)
  BY <1>3, <1>16, AtIs DEF Places
<1> HIDE DEF lost
<1>18. W \cup D \cup F \subseteq (Cells \ {c}) \ lost
  BY <1>3, <1>8, <1>17 DEF Entered
<1>19. ASSUME NEW x \in Cells, x # c, x \notin lost, x \notin W \cup D \cup F
       PROVE  Unmoved(x) /\ Fits(x)'
  BY <1>2, <1>8, <1>14, <1>19, OthersRest
<1>20. MovedTo("ack", c)
  <2>1. c \in allocated' /\ c \notin leaked' \cup waitAck' \cup delTimer' /\ held' # c
    BY <1>3, <1>8, <1>12, <1>17, <1>18 DEF Entered
  <2>2. HasAck(w, c)'
    BY <1>14
  <2>3. \A v \in Workers : ~InQueue(v, c)' /\ ~HasMessage(v, c)'
    BY <1>3, <1>12, <1>14
  <2> QED
    BY <2>1, <2>2, <2>3, AtIsNext DEF MovedTo, Places
<1>21. ASSUME NEW x \in lost PROVE MovedTo("leaked", x)
  <2>1. x \in allocated' /\ x \in leaked' /\ x \notin waitAck' \cup delTimer' /\ held' # x
    BY <1>3, <1>8, <1>17, <1>18 DEF Entered
  <2>2. \A v \in Workers : ~InQueue(v, x)' /\ ~HasMessage(v, x)' /\ ~HasAck(v, x)'
    BY <1>3, <1>7, <1>14, <1>17
  <2> QED
    BY <2>1, <2>2, AtIsNext DEF MovedTo, Places
<1>22. ASSUME NEW x \in W \cup D \cup F
       PROVE  MovedTo("waitAck", x) \/ MovedTo("delTimer", x) \/ MovedTo("leaked", x)
  <2>1. x \in Cells /\ x # c /\ x \notin allocated /\ x \notin lost
    BY <1>8, <1>18 DEF Entered
  <2>2. /\ x \notin leaked \cup waitAck \cup delTimer \cup lost /\ held' # x
        /\ \A v \in Workers : ~InQueue(v, x)' /\ ~HasMessage(v, x)' /\ ~HasAck(v, x)'
    BY <1>3, <1>14, <2>1, FreeIsNowhere DEF SInv
  <2> QED
    BY <1>8, <2>2, EnteredPlaces
<1>23. OnePlace'
  BY <1>19, <1>20, <1>21, <1>22, OnePlaceKept DEF SInv, Places
<1>24. ASSUME NEW x \in W \cup D \cup F PROVE Fits(x)'
  <2>1. EventFor(w, x)' /\ x \in Cells
    BY <1>8 DEF Entered
  <2> QED
    BY <1>22, <1>23, <2>1, EnteredFit
<1>25. ASSUME NEW x \in lost PROVE Fits(x)'
  <2>1. x \in Cells /\ cell'[x] = cell[x]
    BY <1>7, <1>8, <1>18 DEF Entered
  <2>2. AckIn(x)
    BY <1>15, <2>1 DEF SInv, Contained, Fits
  <2>3. AckIn(x)'
    BY <2>1, <2>2, SameContent
  <2> QED
    BY <1>21, <1>23, <2>1, <2>3, FitsThereNext DEF PlaceDecides, MovedTo, Places
<1>26. Fits(c)'
  <2>1. cell'[c] = cell[c]
    BY <1>8, <1>18 DEF Entered
  <2>2. SipFor(w, c)' /\ AckIn(c)'
    BY <1>4, <2>1, SameContent
  <2>3. \A v \in Workers : HasAck(v, c)' => SipFor(v, c)'
    BY <1>12, <1>14, <2>2
  <2> QED
    BY <1>20, <1>23, <2>2, <2>3, FitsThereNext DEF PlaceDecides, MovedTo, Places
<1>27. Contained'
  BY <1>19, <1>24, <1>25, <1>26 DEF Contained
<1> QED
  BY <1>11, <1>13, <1>23, <1>27 DEF SInv

LEMMA DeleteTransactionKeeps ==
  ASSUME SInv, NEW w \in Workers, NEW c \in Cells, DeleteTransaction(w, c)
  PROVE  SInv'
<1> DEFINE b == cell[c].branch
           messages == {txn[w][b].message, txn[w][b].ack_message} \ {NULL}
           freed == messages \cup {c}
<1>1. PICK B \in SUBSET (Branches \ {b}) :
        /\ txn' = [txn EXCEPT ![w] = [x \in Branches |->
             IF x = b THEN NoTxn
             ELSE IF x \in B THEN [txn[w][x] EXCEPT !.state = "TERMINATED"]
             ELSE txn[w][x]]]
        /\ Enter(w, B, "TERMINATED", messages, {c}, {})
  BY DEF DeleteTransaction, Endable
<1>2. Dequeue(w, c) /\ cell[c].type = "DELETE_TRANSACTION"
  BY DEF DeleteTransaction
<1>3. /\ c \in allocated /\ held' = held
      /\ \A q \in Places : At(q, c) <=> q = "queue"
      /\ QueueOnce'
      /\ \A v \in Workers : \A x : InQueue(v, x)' <=> InQueue(v, x) /\ x # c
      /\ SipFor(w, c) \/ EventFor(w, c)
  BY <1>2, DequeueIs
<1>4. EventFor(w, c)
  BY <1>2, <1>3, ContentKinds DEF SipFor
<1>5. b \in Branches
  BY <1>4, ContentKinds DEF EventFor
<1> HIDE DEF b
<1>6. txn \in [Workers -> [Branches -> TxnRecord]]
  BY DEF SInv, TypeOK, TxnRecord
<1>7. /\ freed \in SUBSET Cells /\ messages \in SUBSET Cells /\ c \in freed
      /\ \A x \in freed : x = c \/ txn[w][b].message = x \/ txn[w][b].ack_message = x
  BY <1>5, <1>6, Constants DEF TxnRecord
<1>8. PICK W, D, F : Entered(w, messages, freed, {}, W, D, F)
  <2> HIDE DEF messages
  <2>1. B \in SUBSET Branches /\ TypeOK /\ {c} \in SUBSET Cells
    BY DEF SInv
  <2> QED
    BY <1>1, <1>7, <2>1, EnterIs
<1>9. NULL \notin Cells
  BY Constants
<1>10. /\ txn' \in [Workers -> [Branches -> TxnRecord]]
       /\ txn'[w][b].message = NULL /\ txn'[w][b].ack_message = NULL
       /\ \A v \in Workers, a \in Branches : v # w \/ a # b =>
            /\ txn'[v][a].message = txn[v][a].message
            /\ txn'[v][a].ack_message = txn[v][a].ack_message
  <2>1. NoTxn \in TxnRecord /\ NoTxn.message = NULL /\ NoTxn.ack_message = NULL
    BY DEF NoTxn, TxnRecord
  <2>2. ASSUME NEW r \in TxnRecord
        PROVE  /\ [r EXCEPT !.state = "TERMINATED"] \in TxnRecord
               /\ [r EXCEPT !.state = "TERMINATED"].message = r.message
               /\ [r EXCEPT !.state = "TERMINATED"].ack_message = r.ack_message
    BY DEF TxnRecord
  <2>3. PICK row : row = [x \in Branches |->
             IF x = b THEN NoTxn
             ELSE IF x \in B THEN [txn[w][x] EXCEPT !.state = "TERMINATED"]
             ELSE txn[w][x]]
    OBVIOUS
  <2>4. ASSUME NEW x \in Branches
        PROVE  /\ row[x] \in TxnRecord
               /\ x = b => row[x] = NoTxn
               /\ x # b => row[x].message = txn[w][x].message
                             /\ row[x].ack_message = txn[w][x].ack_message
    <3>1. txn[w][x] \in TxnRecord
      BY <1>6
    <3> QED
      BY <2>1, <2>2, <2>3, <3>1
  <2>5. row \in [Branches -> TxnRecord]
    BY <2>3, <2>4
  <2>6. txn' = [txn EXCEPT ![w] = row]
    BY <1>1, <2>3
  <2>7. txn' \in [Workers -> [Branches -> TxnRecord]] /\ txn'[w] = row
          /\ \A v \in Workers : v # w => txn'[v] = txn[v]
    BY <1>6, <2>5, <2>6
  <2> QED
    BY <1>5, <2>1, <2>4, <2>7
<1>11. TypeOK'
  BY <1>2, <1>7, <1>8, <1>10, EnteredTyped
<1>12. Once'
  <2>1. \A v, u \in Workers, a, d \in Branches :
          txn'[v][a].message # NULL /\ txn'[v][a].message = txn'[u][d].message => v = u /\ a = d
    BY <1>5, <1>10, SMTT(20) DEF SInv, Once
  <2>2. \A v, u \in Workers, a, d \in Branches :
          txn'[v][a].ack_message # NULL /\ txn'[v][a].ack_message = txn'[u][d].ack_message
            => v = u /\ a = d
    BY <1>5, <1>10, SMTT(20) DEF SInv, Once
  <2> QED
    BY <1>3, <2>1, <2>2 DEF Once, QueueOnce
<1>13. \A v \in Workers : ~HasMessage(v, c) /\ ~HasAck(v, c)
  BY <1>3, AtIs DEF Places
<1>14. \A x \in freed : \A v \in Workers : ~HasMessage(v, x)' /\ ~HasAck(v, x)'
  <2>1. ASSUME NEW x \in freed, NEW v \in Workers PROVE ~HasMessage(v, x)' /\ ~HasAck(v, x)'
    <3>0. x \in Cells
      BY <1>7
    <3>1. CASE x = c
      <4>1. \A a \in Branches : txn[v][a].message # x /\ txn[v][a].ack_message # x
        BY <1>13, <3>1 DEF HasMessage, HasAck
      <4>2. \A a \in Branches : txn'[v][a].message # x /\ txn'[v][a].ack_message # x
        BY <1>5, <1>9, <1>10, <3>0, <4>1
      <4> QED
        BY <4>2 DEF HasMessage, HasAck
    <3>2. CASE txn[w][b].message = x
      <4>1. ~HasAck(v, x)
        <5>1. HasMessage(w, x)
          BY <1>5, <3>2 DEF HasMessage
        <5>2. \A q \in Places : At(q, x) <=> q = "message"
          BY <3>0, <5>1, AtIs, OnlyPlace DEF SInv, Places
        <5> QED
          BY <5>2, AtIs DEF Places
      <4>2. ~HasAck(v, x)'
        BY <1>5, <1>9, <1>10, <3>0, <4>1 DEF HasAck
      <4>3. ~HasMessage(v, x)'
        BY <1>5, <1>9, <1>10, <3>0, <3>2 DEF HasMessage, SInv, Once
      <4> QED
        BY <4>2, <4>3
    <3>3. CASE txn[w][b].ack_message = x
      <4>1. ~HasMessage(v, x)
        <5>1. HasAck(w, x)
          BY <1>5, <3>3 DEF HasAck
        <5>2. \A q \in Places : At(q, x) <=> q = "ack"
          BY <3>0, <5>1, AtIs, OnlyPlace DEF SInv, Places
        <5> QED
          BY <5>2, AtIs DEF Places
      <4>2. ~HasMessage(v, x)'
        BY <1>5, <1>9, <1>10, <3>0, <4>1 DEF HasMessage
      <4>3. ~HasAck(v, x)'
        BY <1>5, <1>9, <1>10, <3>0, <3>3 DEF HasAck, SInv, Once
      <4> QED
        BY <4>2, <4>3
    <3> QED
      BY <1>7, <3>1, <3>2, <3>3
  <2> QED
    BY <2>1
<1>15. ASSUME NEW v \in Workers, NEW x \in Cells, x \notin freed
       PROVE  /\ HasMessage(v, x)' <=> HasMessage(v, x)
              /\ HasAck(v, x)' <=> HasAck(v, x)
  <2>1. txn[w][b].message # x /\ txn[w][b].ack_message # x
    BY <1>9, <1>15
  <2>2. HasMessage(v, x)' <=> HasMessage(v, x)
    BY <1>5, <1>9, <1>10, <2>1 DEF HasMessage
  <2>3. HasAck(v, x)' <=> HasAck(v, x)
    BY <1>5, <1>9, <1>10, <2>1 DEF HasAck
  <2> QED
    BY <2>2, <2>3
<1>16. ASSUME NEW x \in freed
       PROVE  /\ x \in Cells /\ x \in allocated /\ x \notin leaked \cup waitAck \cup delTimer
              /\ held # x /\ \A v \in Workers : InQueue(v, x) => x = c
  <2>1. x \in Cells
    BY <1>7
  <2>2. x # c => HasMessage(w, x) \/ HasAck(w, x)
    BY <1>5, <1>7 DEF HasMessage, HasAck
  <2>3. PICK p \in {"queue", "message", "ack"} : At(p, x) /\ (x # c => p # "queue")
    BY <1>3, <2>2, AtIs DEF Places
  <2>4. \A q \in Places : At(q, x) <=> q = p
    BY <2>1, <2>3, OnlyPlace DEF SInv, Places
  <2> QED
    BY <2>1, <2>3, <2>4, AtIs DEF Places
<1>17. ASSUME NEW x \in W \cup D \cup F
       PROVE  x \in Cells /\ x # c /\ (x \in allocated => x \in freed)
  <2>1. x \in Cells /\ (x \in allocated => x \in messages)
    BY <1>8 DEF Entered
  <2>2. x \in messages => HasMessage(w, x) \/ HasAck(w, x)
    BY <1>5 DEF HasMessage, HasAck
  <2>3. x # c
    BY <1>3, <1>13, <2>1, <2>2
  <2> QED
    BY <2>1, <2>3
<1> HIDE DEF freed, messages
<1>18. ASSUME NEW x \in Cells, x \notin freed, x \notin W \cup D \cup F
       PROVE  Unmoved(x) /\ Fits(x)'
  BY <1>2, <1>7, <1>8, <1>15, <1>18, OthersRest
<1>19. ASSUME NEW x \in freed, x \notin W \cup D \cup F PROVE MovedTo("free", x)
  <2>1. x \notin allocated' /\ x \notin leaked' \cup waitAck' \cup delTimer' /\ held' # x
    BY <1>3, <1>8, <1>16, <1>19 DEF Entered
  <2>2. \A v \in Workers : ~InQueue(v, x)' /\ ~HasMessage(v, x)' /\ ~HasAck(v, x)'
    BY <1>3, <1>14, <1>16
  <2> QED
    BY <2>1, <2>2, AtIsNext DEF MovedTo, Places
<1>20. ASSUME NEW x \in W \cup D \cup F
       PROVE  MovedTo("waitAck", x) \/ MovedTo("delTimer", x) \/ MovedTo("leaked", x)
  <2> DEFINE Nowhere ==
        /\ x \notin leaked \cup waitAck \cup delTimer \cup {} /\ held' # x
        /\ \A v \in Workers : ~InQueue(v, x)' /\ ~HasMessage(v, x)' /\ ~HasAck(v, x)'
  <2>1. ASSUME x \in freed PROVE Nowhere
    <3>1. x # c
      BY <1>17
    <3>2. x \notin leaked \cup waitAck \cup delTimer /\ held' # x
            /\ \A v \in Workers : ~InQueue(v, x)'
      BY <1>3, <1>16, <2>1, <3>1
    <3> QED
      BY <1>14, <2>1, <3>2
  <2>2. ASSUME x \notin freed PROVE Nowhere
    <3>1. x \in Cells /\ x # c /\ x \notin allocated
      BY <1>17, <2>2
    <3>2. /\ x \notin leaked \cup waitAck \cup delTimer /\ held # x
          /\ \A v \in Workers : ~InQueue(v, x) /\ ~HasMessage(v, x) /\ ~HasAck(v, x)
      BY <3>1, FreeIsNowhere DEF SInv
    <3> QED
      BY <1>3, <1>15, <2>2, <3>1, <3>2
  <2> QED
    BY <1>8, <2>1, <2>2, EnteredPlaces
<1>21. OnePlace'
  BY <1>18, <1>19, <1>20, OnePlaceKept DEF SInv, Places
<1>22. ASSUME NEW x \in W \cup D \cup F PROVE Fits(x)'
  <2>1. EventFor(w, x)' /\ x \in Cells
    BY <1>8 DEF Entered
  <2> QED
    BY <1>20, <1>21, <2>1, EnteredFit
<1>23. ASSUME NEW x \in freed, x \notin W \cup D \cup F PROVE Fits(x)'
  BY <1>7, <1>19, <1>21, <1>23, FitsThereNext DEF PlaceDecides, MovedTo, Places
<1>24. Contained'
  BY <1>18, <1>22, <1>23 DEF Contained
<1> QED
  BY <1>11, <1>12, <1>21, <1>24 DEF SInv

-----------------------------------------------------------------------------
\* The theorems

LEMMA NextKeeps ==
  ASSUME SInv, [Next]_vars
  PROVE  SInv'
<1>1. CASE \E m \in Requests \cup {NULL} : Receive(m)
  BY <1>1, ReceiveKeeps
<1>2. CASE ReceiveNothing \/ UNCHANGED vars
  <2>1. UNCHANGED <<allocated, cell, held, queue, txn, waitAck, delTimer, leaked, backlog>>
    BY <1>2 DEF ReceiveNothing, vars, threads, timers
  <2>2. TypeOK'
    <3>1. \A w \in Workers : queue'[w] \in Seq(Cells) /\ Len(queue'[w]) <= QueueCapacity
      BY <2>1 DEF SInv, TypeOK
    <3>2. \A id \in CallIds : backlog'[id] \in Seq(Cells)
      BY <2>1 DEF SInv, TypeOK
    <3> QED
      BY <2>1, <3>1, <3>2 DEF SInv, TypeOK
  <2>3. ASSUME NEW x \in Cells PROVE Unmoved(x) /\ Fits(x)'
    <3>1. \A w \in Workers : /\ InQueue(w, x)' <=> InQueue(w, x)
                             /\ HasMessage(w, x)' <=> HasMessage(w, x)
                             /\ HasAck(w, x)' <=> HasAck(w, x)
      BY <2>1, QueueSame, TxnSame
    <3>2. Fits(x)
      BY DEF SInv, Contained
    <3> QED
      BY <2>1, <3>1, <3>2, Rests
  <2>4. OnePlace'
    BY <2>3, OnePlaceKept DEF SInv
  <2>5. Once'
    BY <2>1 DEF SInv, Once
  <2> QED
    BY <2>2, <2>3, <2>4, <2>5 DEF SInv, Contained
<1>3. CASE Dispatch
  BY <1>3, DispatchKeeps
<1>6. CASE Discard \/ Misdirect
  BY <1>6, DiscardKeeps, MisdirectKeeps
<1>4. CASE \E w \in Workers : Worker(w)
  <2>1. PICK w \in Workers, c \in Cells : Packet(w, c)
    BY <1>4 DEF Worker
  <2>2. CASE Reject(w, c) \/ Refuse(w, c) \/ FreeKnown(w, c) \/ DropStaleEvent(w, c)
    BY <2>2, FreeingKeeps
  <2>3. CASE Serve(w, c)
    BY <2>3, ServeKeeps
  <2>4. CASE TakeAck(w, c)
    BY <2>4, TakeAckKeeps
  <2>5. CASE DeleteTransaction(w, c)
    BY <2>5, DeleteTransactionKeeps
  <2> QED
    BY <2>1, <2>2, <2>3, <2>4, <2>5 DEF Packet
<1>5. CASE \E e \in Cells : Timeout(e)
  BY <1>5, WaitAckTimeoutKeeps, DeleteTimeoutKeeps DEF Timeout
<1> QED
  BY <1>1, <1>2, <1>3, <1>4, <1>5, <1>6 DEF Next

LEMMA InvariantHolds == Spec => []SInv
<1>1. Init => SInv
  BY InitKeeps
<1>2. SInv /\ [Next]_vars => SInv'
  BY NextKeeps
<1> QED
  BY <1>1, <1>2, PTL DEF Spec

\* The heap, the queues, the transactions and the timers stay within their types; in
\* particular enqueue_message keeps each queue within its capacity.
THEOREM ServerTypeCorrect == Spec => []TypeOK
<1>1. SInv => TypeOK
  BY DEF SInv
<1> QED
  BY <1>1, InvariantHolds, PTL

\* Messages of one call are only ever with the one worker its Call-ID selects, so the
\* workers need no lock for their records.
THEOREM CallsHaveOneWorker == Spec => []OwnCallsOnly
<1>1. ASSUME SInv PROVE OwnCallsOnly
  <2>1. ASSUME NEW w \in Workers, NEW c \in Messages(w)
        PROVE  Select(cell[c].message.call_id) = w
    <3>1. \/ \E i \in DOMAIN queue[w] : c = queue[w][i] /\ cell[c].type = "INCOMING_SIP"
          \/ \E b \in Branches : c # NULL /\ (c = txn[w][b].message \/ c = txn[w][b].ack_message)
      BY <2>1 DEF Messages
    <3>2. c \in Cells
      BY <1>1, <3>1, TypeFacts DEF SInv, QueueTyped
    <3>3. SipFor(w, c)
      <4>1. CASE \E i \in DOMAIN queue[w] : c = queue[w][i] /\ cell[c].type = "INCOMING_SIP"
        BY <1>1, <3>2, <4>1, ContentKinds DEF SInv, Contained, Fits, InQueue, EventFor
      <4>2. CASE \E b \in Branches : c = txn[w][b].message \/ c = txn[w][b].ack_message
        BY <1>1, <3>2, <4>2 DEF SInv, Contained, Fits, HasMessage, HasAck
      <4> QED
        BY <3>1, <4>1, <4>2
    <3> QED
      BY <3>3, ContentKinds DEF SipFor
  <2> QED
    BY <2>1 DEF OwnCallsOnly
<1> QED
  BY <1>1, InvariantHolds, PTL

LEMMA CountsOne ==
  ASSUME NEW S, NEW c
  PROVE  Cardinality(S \cap {c}) = IF c \in S THEN 1 ELSE 0
<1>1. CASE c \in S
  <2>1. S \cap {c} = {c}
    BY <1>1
  <2> QED
    BY <1>1, <2>1, FS_Singleton
<1>2. CASE c \notin S
  <2>1. S \cap {c} = {}
    BY <1>2
  <2> QED
    BY <1>2, <2>1, FS_EmptySet
<1> QED
  BY <1>1, <1>2

LEMMA OwnersCount ==
  ASSUME SInv, NEW c \in Cells
  PROVE  Owners(c) = IF c \in allocated \ leaked THEN 1 ELSE 0
<1> DEFINE inQueues == {p \in Workers \X (1 .. QueueCapacity) :
                          p[2] <= Len(queue[p[1]]) /\ queue[p[1]][p[2]] = c}
           messages == {p \in Workers \X Branches : txn[p[1]][p[2]].message = c}
           acks == {p \in Workers \X Branches : txn[p[1]][p[2]].ack_message = c}
           Queued == \E w \in Workers : InQueue(w, c)
           IsMessage == \E w \in Workers : HasMessage(w, c)
           IsAck == \E w \in Workers : HasAck(w, c)
           Count(P) == IF P THEN 1 ELSE 0
<1>1. NULL \notin Cells /\ QueueCapacity \in Nat
  BY Constants
<1>2. Cardinality({held} \cap {c}) = IF held = c THEN 1 ELSE 0
  BY CountsOne
<1>3. Cardinality(waitAck \cap {c}) = IF c \in waitAck THEN 1 ELSE 0
  BY CountsOne
<1>4. Cardinality(delTimer \cap {c}) = IF c \in delTimer THEN 1 ELSE 0
  BY CountsOne
<1>5. Cardinality(inQueues) = IF Queued THEN 1 ELSE 0
  <2>1. CASE Queued
    <3>0. PICK w \in Workers : InQueue(w, c)
      BY <2>1
    <3>1. PICK i \in DOMAIN queue[w] : queue[w][i] = c
      BY <3>0 DEF InQueue
    <3>2. /\ queue[w] \in Seq(Cells) /\ Len(queue[w]) <= QueueCapacity
          /\ i \in 1 .. Len(queue[w]) /\ i \in 1 .. QueueCapacity
      BY <1>1, <3>1, TypeFacts DEF SInv, QueueTyped
    <3>3. <<w, i>> \in inQueues
      BY <3>1, <3>2
    <3>4. ASSUME NEW v \in Workers, NEW j \in 1 .. QueueCapacity,
                 j <= Len(queue[v]), queue[v][j] = c
          PROVE  v = w /\ j = i
      <4>1. queue[v] \in Seq(Cells) /\ j \in 1 .. Len(queue[v])
        BY <1>1, <3>4, TypeFacts DEF SInv, QueueTyped
      <4>2. j \in DOMAIN queue[v]
        BY <4>1
      <4> QED
        BY <3>1, <3>4, <4>2 DEF SInv, Once
    <3>5. \A p \in inQueues : p = <<w, i>>
      BY <3>4
    <3>6. inQueues = {<<w, i>>}
      BY <3>3, <3>5
    <3> QED
      BY <2>1, <3>6, FS_Singleton
  <2>2. CASE ~Queued
    <3>1. ASSUME NEW v \in Workers, NEW j \in 1 .. QueueCapacity,
                 j <= Len(queue[v]), queue[v][j] = c
          PROVE  FALSE
      <4>1. queue[v] \in Seq(Cells) /\ j \in 1 .. Len(queue[v])
        BY <1>1, <3>1, TypeFacts DEF SInv, QueueTyped
      <4>2. j \in DOMAIN queue[v]
        BY <4>1
      <4> QED
        BY <2>2, <3>1, <4>2 DEF InQueue
    <3>2. inQueues = {}
      BY <3>1
    <3> QED
      BY <2>2, <3>2, FS_EmptySet
  <2> QED
    BY <2>1, <2>2
<1>6. Cardinality(messages) = IF IsMessage THEN 1 ELSE 0
  <2>1. CASE IsMessage
    <3>1. PICK w \in Workers, b \in Branches : txn[w][b].message = c
      BY <2>1 DEF HasMessage
    <3>2. <<w, b>> \in messages
      BY <3>1
    <3>3. \A p \in messages : p = <<w, b>>
      BY <1>1, <3>1 DEF SInv, Once
    <3>4. messages = {<<w, b>>}
      BY <3>2, <3>3
    <3> QED
      BY <2>1, <3>4, FS_Singleton
  <2>2. CASE ~IsMessage
    <3>1. messages = {}
      BY <2>2 DEF HasMessage
    <3> QED
      BY <2>2, <3>1, FS_EmptySet
  <2> QED
    BY <2>1, <2>2
<1>7. Cardinality(acks) = IF IsAck THEN 1 ELSE 0
  <2>1. CASE IsAck
    <3>1. PICK w \in Workers, b \in Branches : txn[w][b].ack_message = c
      BY <2>1 DEF HasAck
    <3>2. <<w, b>> \in acks
      BY <3>1
    <3>3. \A p \in acks : p = <<w, b>>
      BY <1>1, <3>1 DEF SInv, Once
    <3>4. acks = {<<w, b>>}
      BY <3>2, <3>3
    <3> QED
      BY <2>1, <3>4, FS_Singleton
  <2>2. CASE ~IsAck
    <3>1. acks = {}
      BY <2>2 DEF HasAck
    <3> QED
      BY <2>2, <3>1, FS_EmptySet
  <2> QED
    BY <2>1, <2>2
<1>8. Owners(c) = Cardinality({held} \cap {c}) + Cardinality(waitAck \cap {c})
                    + Cardinality(delTimer \cap {c}) + Cardinality(inQueues)
                    + Cardinality(messages) + Cardinality(acks)
  BY DEF Owners
<1>9. PICK p \in Places :
        /\ (c \notin allocated) <=> p = "free"
        /\ (c \in leaked) <=> p = "leaked"
        /\ (held = c) <=> p = "held"
        /\ (c \in waitAck) <=> p = "waitAck"
        /\ (c \in delTimer) <=> p = "delTimer"
        /\ Queued <=> p = "queue"
        /\ IsMessage <=> p = "message"
        /\ IsAck <=> p = "ack"
  <2>1. PICK p \in Places : \A q \in Places : At(q, c) <=> q = p
    BY DEF SInv, OnePlace
  <2> QED
    BY <2>1, AtIs DEF Places
<1> HIDE DEF inQueues, messages, acks, Queued, IsMessage, IsAck
<1>10. Owners(c) = IF p \in {"free", "leaked"} THEN 0 ELSE 1
  BY <1>2, <1>3, <1>4, <1>5, <1>6, <1>7, <1>8, <1>9 DEF Places
<1> QED
  BY <1>9, <1>10

\* Every cell that is malloc'ed for a message or an event and not forgotten has exactly
\* one owner among main, the queues, the timers and the transactions, whichever way the
\* three kinds of threads interleave, and only an ACK, an event or a message whose
\* Call-ID selects no worker is ever forgotten.
THEOREM EveryCellHasOneOwner == Spec => []OneOwner
<1>1. ASSUME SInv PROVE OneOwner
  <2>1. \A c \in Cells : Owners(c) = IF c \in allocated \ leaked THEN 1 ELSE 0
    BY <1>1, OwnersCount
  <2>2. ASSUME NEW c \in leaked
        PROVE  /\ c \in allocated
               /\ cell[c].type = "INCOMING_SIP" =>
                    Misdirected(cell[c].message) \/ cell[c].message.method = "ACK"
    <3>1. c \in Cells
      BY <1>1 DEF SInv, TypeOK
    <3>2. \A q \in Places : At(q, c) <=> q = "leaked"
      BY <1>1, <3>1, AtIs, OnlyPlace DEF SInv, Places
    <3>3. AckIn(c) \/ Astray(c) \/ \E w \in Workers : EventFor(w, c)
      BY <1>1, <3>1, <3>2, AtIs DEF SInv, Contained, Fits, Places
    <3>4. Astray(c) => Misdirected(cell[c].message)
      BY ContentKinds DEF Astray
    <3> QED
      BY <3>2, <3>3, <3>4, AtIs, ContentKinds DEF Places, AckIn, EventFor
  <2> QED
    BY <2>1, <2>2 DEF OneOwner
<1> QED
  BY <1>1, InvariantHolds, PTL

-----------------------------------------------------------------------------
(***************************************************************************)
(* The messages of a call are served in the order they were received, for  *)
(* any number of workers, cells and calls.  Nothing in the code keeps that *)
(* order: it follows from main being the only thread that puts a call's    *)
(* messages into a queue, always into the same one, and from each queue    *)
(* having one worker.  The invariant ties the backlog of a call (history)  *)
(* to the cells that really wait: the one main holds and the ones in the   *)
(* queues.                                                                 *)
(***************************************************************************)

\* Cell x holds a message of call id.
HasId(x, id) == \E m \in Requests : cell[x] = Sip(m) /\ m.call_id = id

InBacklog(id, x) == \E i \in DOMAIN backlog[id] : backlog[id][i] = x

Waits(x) == held = x \/ \E w \in Workers : InQueue(w, x)

\* The backlog of a call lists its waiting messages ...
ListsWaiting ==
  \A id \in CallIds : \A x \in Cells : InBacklog(id, x) <=> HasId(x, id) /\ Waits(x)

\* ... each one once ...
ListsOnce ==
  \A id \in CallIds : \A i, j \in DOMAIN backlog[id] : backlog[id][i] = backlog[id][j] => i = j

\* ... the one main holds last ...
HeldLast ==
  \A id \in CallIds : \A i, j \in DOMAIN backlog[id] : backlog[id][i] = held => j <= i

\* ... and the others as they are in their queue.
QueueOrder ==
  \A id \in CallIds : \A i, j \in DOMAIN backlog[id] :
    \A w \in Workers : \A k, l \in DOMAIN queue[w] :
      queue[w][k] = backlog[id][i] /\ queue[w][l] = backlog[id][j] /\ i < j => k < l

BInv == ListsWaiting /\ ListsOnce /\ HeldLast /\ QueueOrder


-----------------------------------------------------------------------------
\* Sequences

LEMMA BacklogTyped ==
  ASSUME TypeOK, NEW id \in CallIds
  PROVE  /\ backlog[id] \in Seq(Cells) /\ Len(backlog[id]) \in Nat
         /\ DOMAIN backlog[id] = 1 .. Len(backlog[id])
         /\ \A i \in DOMAIN backlog[id] : backlog[id][i] \in Cells
<1>1. backlog[id] \in Seq(Cells)
  BY DEF TypeOK
<1> QED
  BY <1>1

LEMMA AppendIs ==
  ASSUME NEW s \in Seq(Cells), NEW c \in Cells
  PROVE  /\ DOMAIN Append(s, c) = 1 .. Len(s) + 1
         /\ \A i \in 1 .. Len(s) : Append(s, c)[i] = s[i]
         /\ Append(s, c)[Len(s) + 1] = c
         /\ Len(Append(s, c)) = Len(s) + 1
<1>1. /\ Append(s, c) \in Seq(Cells) /\ Len(Append(s, c)) = Len(s) + 1
      /\ \A i \in 1 .. Len(s) : Append(s, c)[i] = s[i]
      /\ Append(s, c)[Len(s) + 1] = c
  BY AppendProperties
<1>2. DOMAIN Append(s, c) = 1 .. Len(Append(s, c))
  BY <1>1, LenProperties
<1> QED
  BY <1>1, <1>2

\* Removing the first element
LEMMA RemoveAtFirst ==
  ASSUME NEW s \in Seq(Cells), s # <<>>
  PROVE  /\ RemoveAt(s, 1) = Tail(s)
         /\ DOMAIN Tail(s) = 1 .. Len(s) - 1
         /\ \A i \in 1 .. Len(s) - 1 : Tail(s)[i] = s[i + 1]
<1>1. Tail(s) \in Seq(Cells)
  BY HeadTailProperties
<1>2. DOMAIN Tail(s) = 1 .. Len(s) - 1
  OBVIOUS
<1>3. \A i \in 1 .. Len(s) - 1 : Tail(s)[i] = s[i + 1]
  OBVIOUS
<1>4. RemoveAt(s, 1) = Tail(s)
  <2>1. Tail(s) = SubSeq(s, 2, Len(s))
    BY TailIsSubSeq
  <2>2. SubSeq(s, 1, 0) = <<>>
    BY SubSeqEmpty
  <2>3. <<>> \o Tail(s) = Tail(s)
    BY <1>1, ConcatEmptySeq
  <2>4. RemoveAt(s, 1) = SubSeq(s, 1, 0) \o SubSeq(s, 2, Len(s))
    BY DEF RemoveAt
  <2> QED
    BY <2>1, <2>2, <2>3, <2>4
<1> QED
  BY <1>2, <1>3, <1>4

\* Removing the last element
LEMMA RemoveAtLast ==
  ASSUME NEW s \in Seq(Cells), Len(s) \in DOMAIN s
  PROVE  /\ RemoveAt(s, Len(s)) = Front(s)
         /\ DOMAIN Front(s) = 1 .. Len(s) - 1
         /\ \A i \in 1 .. Len(s) - 1 : Front(s)[i] = s[i]
<1>1. Len(s) \in Nat \ {0} /\ \A i \in 1 .. Len(s) - 1 : s[i] \in Cells
  OBVIOUS
<1> DEFINE n == Len(s)
<1>2. n \in Nat \ {0} /\ n - 1 \in Int /\ 1 \in Int /\ \A i \in 1 .. n - 1 : s[i] \in Cells
  BY <1>1
<1> HIDE DEF n
<1>3. /\ SubSeq(s, 1, n - 1) \in Seq(Cells)
      /\ Len(SubSeq(s, 1, n - 1)) = IF 1 <= n - 1 THEN n - 1 - 1 + 1 ELSE 0
      /\ \A i \in 1 .. n - 1 - 1 + 1 : SubSeq(s, 1, n - 1)[i] = s[1 + i - 1]
  BY <1>2, SubSeqProperties
<1>4. Front(s) = SubSeq(s, 1, n - 1)
  BY DEF Front, n
<1>5. Len(Front(s)) = n - 1 /\ Front(s) \in Seq(Cells)
  BY <1>2, <1>3, <1>4
<1>6. DOMAIN Front(s) = 1 .. Len(Front(s))
  BY <1>5, LenProperties
<1>7. \A i \in 1 .. n - 1 : Front(s)[i] = s[i]
  BY <1>2, <1>3, <1>4
<1>8. SubSeq(s, n + 1, n) = <<>>
  BY <1>2, SubSeqEmpty
<1>9. Front(s) \o <<>> = Front(s)
  BY <1>5, ConcatEmptySeq
<1>10. RemoveAt(s, n) = SubSeq(s, 1, n - 1) \o SubSeq(s, n + 1, n)
  BY DEF RemoveAt, n
<1>11. RemoveAt(s, n) = Front(s)
  BY <1>4, <1>8, <1>9, <1>10
<1> QED
  BY <1>5, <1>6, <1>7, <1>11 DEF n

\* Done takes c out of the backlog it is in.
LEMMA DoneIs ==
  ASSUME ListsOnce, NEW c, Done(c), NEW id \in CallIds
  PROVE  /\ ~InBacklog(id, c) => backlog'[id] = backlog[id]
         /\ \A i \in DOMAIN backlog[id] :
              backlog[id][i] = c => backlog'[id] = RemoveAt(backlog[id], i)
<1>1. CASE ~InBacklog(id, c)
  <2>1. ~ \E i \in DOMAIN backlog[id] : backlog[id][i] = c
    BY <1>1 DEF InBacklog
  <2>2. backlog'[id] = backlog[id]
    BY <2>1 DEF Done
  <2> QED
    BY <2>1, <2>2
<1>2. ASSUME NEW i \in DOMAIN backlog[id], backlog[id][i] = c
      PROVE  backlog'[id] = RemoveAt(backlog[id], i)
  <2> DEFINE k == CHOOSE j \in DOMAIN backlog[id] : backlog[id][j] = c
  <2>1. k \in DOMAIN backlog[id] /\ backlog[id][k] = c
    BY <1>2
  <2>2. k = i
    BY <1>2, <2>1 DEF ListsOnce
  <2>3. backlog'[id] = RemoveAt(backlog[id], k)
    BY <1>2 DEF Done
  <2> QED
    BY <2>2, <2>3
<1> QED
  BY <1>1, <1>2

\* A cell is for one call, as long as it holds what it does.
LEMMA OneId ==
  ASSUME NEW x, NEW id, NEW jd, HasId(x, id), HasId(x, jd)
  PROVE  id = jd
<1>1. PICK m \in Requests : cell[x] = Sip(m) /\ m.call_id = id
  BY DEF HasId
<1>2. PICK n \in Requests : cell[x] = Sip(n) /\ n.call_id = jd
  BY DEF HasId
<1>3. Sip(m).message = m /\ Sip(n).message = n
  BY ContentKinds
<1> QED
  BY <1>1, <1>2, <1>3

LEMMA SameId ==
  ASSUME NEW x, NEW id, cell'[x] = cell[x]
  PROVE  HasId(x, id)' <=> HasId(x, id)
BY DEF HasId

\* A message that waits in a queue waits in the one its call selects.
LEMMA QueueOfCall ==
  ASSUME SInv, NEW w \in Workers, NEW x \in Cells, InQueue(w, x), NEW id \in CallIds, HasId(x, id)
  PROVE  w = Select(id)
<1>1. SipFor(w, x)
  BY ContentKinds DEF SInv, Contained, Fits, HasId, EventFor
<1>2. PICK m \in Requests : cell[x] = Sip(m) /\ Select(m.call_id) = w
  BY <1>1 DEF SipFor
<1>3. HasId(x, m.call_id)
  BY <1>2 DEF HasId
<1> QED
  BY <1>2, <1>3, OneId

-----------------------------------------------------------------------------
\* The steps

LEMMA InitOrdered == Init => BInv
<1> SUFFICES ASSUME Init PROVE BInv
  OBVIOUS
<1>1. \A id \in CallIds : DOMAIN backlog[id] = {}
  BY DEF Init
<1>2. held = NULL /\ NULL \notin Cells /\ \A w \in Workers : DOMAIN queue[w] = {}
  BY Constants DEF Init
<1> QED
  BY <1>1, <1>2 DEF BInv, ListsWaiting, ListsOnce, HeldLast, QueueOrder, InBacklog, Waits, InQueue

\* Steps that touch neither the heap, the queues nor what main holds
LEMMA BystanderKeeps ==
  ASSUME BInv, UNCHANGED <<cell, held, queue, backlog>>
  PROVE  BInv'
<1>1. ListsWaiting'
  BY DEF BInv, ListsWaiting, InBacklog, HasId, Waits, InQueue
<1>2. ListsOnce' /\ HeldLast' /\ QueueOrder'
  BY DEF BInv, ListsOnce, HeldLast, QueueOrder
<1> QED
  BY <1>1, <1>2 DEF BInv

\* A message is received: it comes last in its backlog, and main holds it.
LEMMA ReceiveOrdered ==
  ASSUME SInv, BInv, NEW m \in Requests, HasCallId(m), Receive(m)
  PROVE  BInv' /\ \A id \in CallIds : Len(backlog[id]) <= Len(backlog'[id])
<1>1. PICK c \in Cells \ allocated :
        /\ Heap({}, Just(c, Sip(m))) /\ held' = c
        /\ backlog' = [id \in CallIds |->
             IF id = m.call_id THEN Append(backlog[id], c) ELSE backlog[id]]
  BY DEF Receive
<1>2. held = NULL /\ NULL \notin Cells /\ queue' = queue /\ m.call_id \in CallIds
  BY Constants DEF Receive, CallIds, HasCallId
<1>3. cell'[c] = Sip(m) /\ \A x \in Cells \ {c} : cell'[x] = cell[x]
  BY <1>1 DEF Heap, Just
<1>4. ~Waits(c) /\ \A w \in Workers : ~InQueue(w, c)
  <2>1. \A q \in Places : At(q, c) <=> q = "free"
    BY AtIs, OnlyPlace DEF Places, SInv
  <2> QED
    BY <2>1, AtIs DEF Places, Waits
<1>5. \A id \in CallIds : ~InBacklog(id, c)
  BY <1>4 DEF BInv, ListsWaiting
<1> DEFINE s == backlog[m.call_id]
           n == Len(s) + 1
<1>6. TypeOK /\ DOMAIN backlog = CallIds
  BY DEF SInv, TypeOK
<1>7. /\ s \in Seq(Cells) /\ Len(s) \in Nat /\ DOMAIN s = 1 .. Len(s)
      /\ backlog'[m.call_id] = Append(s, c)
      /\ \A id \in CallIds \ {m.call_id} : backlog'[id] = backlog[id]
  BY <1>1, <1>2, <1>6, BacklogTyped
<1> HIDE DEF s
<1>8. /\ DOMAIN backlog'[m.call_id] = 1 .. n
      /\ \A i \in 1 .. Len(s) : backlog'[m.call_id][i] = s[i]
      /\ backlog'[m.call_id][n] = c
      /\ Len(backlog'[m.call_id]) = n
  BY <1>7, AppendIs
<1>9. /\ n \in DOMAIN backlog'[m.call_id]
      /\ \A i \in DOMAIN s : i \in DOMAIN backlog'[m.call_id] /\ i < n
      /\ \A i \in DOMAIN backlog'[m.call_id] : i <= n
      /\ \A i \in DOMAIN backlog'[m.call_id] : i \in DOMAIN s \/ i = n
  BY <1>7, <1>8
<1>10. \A id \in CallIds : \A i \in DOMAIN backlog'[id] :
         \/ i \in DOMAIN backlog[id] /\ backlog'[id][i] = backlog[id][i] /\ backlog[id][i] # c
         \/ id = m.call_id /\ i = n /\ backlog'[id][i] = c
  BY <1>5, <1>7, <1>8, <1>9 DEF s, InBacklog
<1>11. ASSUME NEW id \in CallIds, NEW x \in Cells
       PROVE  InBacklog(id, x)' <=> InBacklog(id, x) \/ (id = m.call_id /\ x = c)
  <2>1. InBacklog(id, x)' => InBacklog(id, x) \/ (id = m.call_id /\ x = c)
    BY <1>10 DEF InBacklog
  <2>2. id = m.call_id /\ x = c => InBacklog(id, x)'
    BY <1>8, <1>9 DEF InBacklog
  <2>3. InBacklog(id, x) => InBacklog(id, x)'
    BY <1>7, <1>8, <1>9 DEF InBacklog, s
  <2> QED
    BY <2>1, <2>2, <2>3
<1>12. ListsWaiting'
  <2> SUFFICES ASSUME NEW id \in CallIds, NEW x \in Cells
               PROVE  InBacklog(id, x)' <=> HasId(x, id)' /\ Waits(x)'
    BY DEF ListsWaiting
  <2>1. CASE x = c
    <3>1. Waits(x)'
      BY <1>1, <2>1 DEF Waits
    <3>2. HasId(x, id)' <=> id = m.call_id
      BY <1>3, <2>1, ContentKinds DEF HasId
    <3> QED
      BY <1>5, <1>11, <2>1, <3>1, <3>2
  <2>2. CASE x # c
    <3>1. \A w \in Workers : InQueue(w, x)' <=> InQueue(w, x)
      BY <1>2, QueueSame
    <3>2. Waits(x)' <=> Waits(x)
      BY <1>1, <1>2, <2>2, <3>1 DEF Waits
    <3>3. HasId(x, id)' <=> HasId(x, id)
      BY <1>3, <2>2, SameId
    <3> QED
      BY <1>11, <2>2, <3>2, <3>3 DEF BInv, ListsWaiting
  <2> QED
    BY <2>1, <2>2
<1>13. ListsOnce'
  BY <1>10 DEF BInv, ListsOnce
<1>14. HeldLast'
  BY <1>1, <1>9, <1>10 DEF HeldLast
<1>15. QueueOrder'
  <2> SUFFICES ASSUME NEW id \in CallIds, NEW i \in DOMAIN backlog'[id], NEW j \in DOMAIN backlog'[id],
                      NEW w \in Workers, NEW k \in DOMAIN queue[w], NEW l \in DOMAIN queue[w],
                      queue[w][k] = backlog'[id][i], queue[w][l] = backlog'[id][j], i < j
               PROVE  k < l
    BY <1>2 DEF QueueOrder
  <2>1. backlog'[id][i] # c /\ backlog'[id][j] # c
    BY <1>4 DEF InQueue
  <2> QED
    BY <1>10, <2>1 DEF BInv, QueueOrder
<1>16. \A id \in CallIds : Len(backlog[id]) <= Len(backlog'[id])
  <2> TAKE id \in CallIds
  <2>1. Len(backlog[id]) \in Nat
    BY <1>6, BacklogTyped
  <2> QED
    BY <1>7, <1>8, <2>1 DEF s
<1> QED
  BY <1>12, <1>13, <1>14, <1>15, <1>16 DEF BInv

\* What comes without a Call-ID is in no backlog.
LEMMA ReceiveAnonymousOrdered ==
  ASSUME SInv, BInv, NEW m \in Requests \cup {NULL}, ~HasCallId(m), Receive(m)
  PROVE  BInv' /\ \A id \in CallIds : backlog'[id] = backlog[id]
<1>1. PICK c \in Cells \ allocated :
        /\ Heap({}, Just(c, Sip(m))) /\ held' = c
        /\ backlog' = [id \in CallIds |-> backlog[id]]
  BY DEF Receive
<1>2. held = NULL /\ NULL \notin Cells /\ queue' = queue
  BY Constants DEF Receive
<1>3. cell'[c] = Sip(m) /\ \A x \in Cells \ {c} : cell'[x] = cell[x]
  BY <1>1 DEF Heap, Just
<1>4. ~Waits(c)
  <2>1. \A q \in Places : At(q, c) <=> q = "free"
    BY AtIs, OnlyPlace DEF Places, SInv
  <2> QED
    BY <2>1, AtIs DEF Places, Waits
<1>5. \A id \in CallIds : backlog'[id] = backlog[id] /\ ~InBacklog(id, c)
  BY <1>1, <1>4 DEF BInv, ListsWaiting
<1>6. \A id \in CallIds : ~HasId(c, id)'
  <2> SUFFICES ASSUME NEW id \in CallIds, NEW n \in Requests, cell'[c] = Sip(n), n.call_id = id
               PROVE  FALSE
    BY DEF HasId
  <2>1. Sip(m).message = m /\ Sip(n).message = n
    BY ContentKinds
  <2>2. n = m
    BY <1>3, <2>1
  <2>3. n # NULL /\ id # NULL
    BY ServerAssumption DEF CallIds
  <2> QED
    BY <2>2, <2>3 DEF HasCallId
<1>7. ListsWaiting'
  <2> SUFFICES ASSUME NEW id \in CallIds, NEW x \in Cells
               PROVE  InBacklog(id, x)' <=> HasId(x, id)' /\ Waits(x)'
    BY DEF ListsWaiting
  <2>1. InBacklog(id, x)' <=> InBacklog(id, x)
    BY <1>5 DEF InBacklog
  <2>2. CASE x = c
    BY <1>5, <1>6, <2>1, <2>2
  <2>3. CASE x # c
    <3>1. \A w \in Workers : InQueue(w, x)' <=> InQueue(w, x)
      BY <1>2, QueueSame
    <3>2. Waits(x)' <=> Waits(x)
      BY <1>1, <1>2, <2>3, <3>1 DEF Waits
    <3>3. HasId(x, id)' <=> HasId(x, id)
      BY <1>3, <2>3, SameId
    <3> QED
      BY <2>1, <3>2, <3>3 DEF BInv, ListsWaiting
  <2> QED
    BY <2>2, <2>3
<1>8. ListsOnce' /\ QueueOrder'
  BY <1>2, <1>5 DEF BInv, ListsOnce, QueueOrder
<1>9. HeldLast'
  BY <1>1, <1>5 DEF HeldLast, InBacklog
<1> QED
  BY <1>5, <1>7, <1>8, <1>9 DEF BInv

\* A cell goes into a queue: if it is a message it is the one main held, the last of
\* its backlog, and now the last of its queue.
LEMMA PutOrdered ==
  ASSUME SInv, BInv, UNCHANGED <<cell, backlog>>,
         NEW w \in Workers, NEW c \in Cells, \A v \in Workers : ~InQueue(v, c),
         Len(queue[w]) < QueueCapacity,
         queue' = [queue EXCEPT ![w] = Append(queue[w], c)],
         \/ held = c /\ held' = NULL
         \/ held # c /\ held' = held /\ \A id \in CallIds : ~HasId(c, id)
  PROVE  BInv'
<1>1. NULL \notin Cells
  BY Constants
<1>2. QueueTyped /\ QueueOnce
  BY TypeFacts DEF SInv, Once, QueueOnce
<1>3. /\ \A v \in Workers : \A x : InQueue(v, x)' <=> InQueue(v, x) \/ (v = w /\ x = c)
      /\ \A v \in Workers : \A k \in DOMAIN queue'[v] :
           \/ v = w /\ queue'[v][k] = c /\ \A l \in DOMAIN queue[v] : l < k
           \/ k \in DOMAIN queue[v] /\ queue'[v][k] = queue[v][k]
      /\ QueueOnce'
  BY <1>2, QueuePut
<1>4. \A id \in CallIds : \A i \in DOMAIN backlog[id] : backlog[id][i] \in Cells
  BY BacklogTyped DEF SInv
<1>5. \A id \in CallIds : \A i \in DOMAIN backlog[id] : backlog[id][i] = c => held = c
  BY <1>4 DEF BInv, ListsWaiting, InBacklog
<1>6. ListsWaiting'
  <2> SUFFICES ASSUME NEW id \in CallIds, NEW x \in Cells
               PROVE  InBacklog(id, x)' <=> HasId(x, id)' /\ Waits(x)'
    BY DEF ListsWaiting
  <2>1. (InBacklog(id, x)' <=> InBacklog(id, x)) /\ (HasId(x, id)' <=> HasId(x, id))
    BY DEF InBacklog, HasId
  <2>2. CASE x # c
    <3>1. Waits(x)' <=> Waits(x)
      BY <1>1, <1>3, <2>2 DEF Waits
    <3> QED
      BY <2>1, <3>1 DEF BInv, ListsWaiting
  <2>3. CASE x = c
    <3>1. Waits(x)'
      BY <1>3, <2>3 DEF Waits
    <3>2. Waits(x) \/ ~HasId(x, id)
      BY <2>3 DEF Waits
    <3> QED
      BY <2>1, <3>1, <3>2 DEF BInv, ListsWaiting
  <2> QED
    BY <2>2, <2>3
<1>7. ListsOnce'
  BY DEF BInv, ListsOnce
<1>8. HeldLast'
  BY <1>1, <1>4 DEF BInv, HeldLast
<1>9. QueueOrder'
  <2> SUFFICES ASSUME NEW id \in CallIds, NEW i \in DOMAIN backlog[id], NEW j \in DOMAIN backlog[id],
                      NEW v \in Workers, NEW k \in DOMAIN queue'[v], NEW l \in DOMAIN queue'[v],
                      queue'[v][k] = backlog[id][i], queue'[v][l] = backlog[id][j], i < j
               PROVE  k < l
    BY DEF QueueOrder
  <2>1. /\ Len(backlog[id]) \in Nat /\ DOMAIN backlog[id] = 1 .. Len(backlog[id])
    BY BacklogTyped DEF SInv
  <2>2. i \in Nat /\ j \in Nat
    BY <2>1
  <2>3. CASE backlog[id][i] = c
    <3>1. j <= i
      BY <1>5, <2>3 DEF BInv, HeldLast
    <3> QED
      BY <2>2, <3>1
  <2>4. CASE backlog[id][i] # c /\ backlog[id][j] = c
    <3>1. k \in DOMAIN queue[v]
      BY <1>3, <2>4
    <3>2. ~InQueue(v, backlog[id][j])
      BY <2>4
    <3>3. \A n \in DOMAIN queue[v] : n < l
      BY <1>3, <3>2 DEF InQueue
    <3> QED
      BY <3>1, <3>3
  <2>5. CASE backlog[id][i] # c /\ backlog[id][j] # c
    <3>1. /\ k \in DOMAIN queue[v] /\ queue[v][k] = backlog[id][i]
          /\ l \in DOMAIN queue[v] /\ queue[v][l] = backlog[id][j]
      BY <1>3, <2>5
    <3> QED
      BY <3>1 DEF BInv, QueueOrder
  <2> QED
    BY <2>3, <2>4, <2>5
<1> QED
  BY <1>6, <1>7, <1>8, <1>9 DEF BInv

\* Main drops the message it holds, the last of its backlog.
LEMMA DropOrdered ==
  ASSUME SInv, BInv, held \in Cells, held' = NULL, queue' = queue, Done(held),
         \A x \in Cells : x # held => cell'[x] = cell[x]
  PROVE  BInv' /\ \A id \in CallIds : backlog'[id] \in {backlog[id], Front(backlog[id])}
<1>1. PICK c \in Cells : c = held
  OBVIOUS
<1>2. NULL \notin Cells
  BY Constants
<1>3. TypeOK /\ Done(c)
  BY <1>1 DEF SInv
<1>4. \A x \in Cells : x # c => cell'[x] = cell[x]
  BY <1>1
<1>5. ~ \E w \in Workers : InQueue(w, c)
  <2>1. \A q \in Places : At(q, c) <=> q = "held"
    BY <1>1, AtIs, OnlyPlace DEF Places, SInv
  <2> QED
    BY <2>1, AtIs DEF Places
<1>6. ASSUME NEW id \in CallIds
      PROVE  /\ backlog'[id] \in {backlog[id], Front(backlog[id])}
             /\ \A i \in DOMAIN backlog'[id] :
                  i \in DOMAIN backlog[id] /\ backlog'[id][i] = backlog[id][i] /\ backlog[id][i] # c
             /\ \A i \in DOMAIN backlog[id] :
                  backlog[id][i] # c => i \in DOMAIN backlog'[id]
  <2> DEFINE s == backlog[id]
  <2>1. /\ s \in Seq(Cells) /\ Len(s) \in Nat /\ DOMAIN s = 1 .. Len(s)
    BY <1>3, BacklogTyped
  <2>2. CASE ~InBacklog(id, c)
    <3>1. backlog'[id] = s
      BY <1>3, <2>2, DoneIs DEF BInv
    <3> QED
      BY <2>2, <3>1 DEF InBacklog
  <2>3. CASE InBacklog(id, c)
    <3>1. PICK n \in DOMAIN s : s[n] = c
      BY <2>3 DEF InBacklog
    <3>2. \A i \in DOMAIN s : i <= n
      BY <1>1, <3>1 DEF BInv, HeldLast
    <3>3. n = Len(s)
      <4>1. n \in 1 .. Len(s)
        BY <2>1, <3>1
      <4>2. Len(s) \in DOMAIN s
        BY <2>1, <4>1
      <4> HIDE DEF s
      <4>3. Len(s) <= n
        BY <3>2, <4>2
      <4> QED
        BY <2>1, <4>1, <4>3
    <3>4. backlog'[id] = RemoveAt(s, n)
      BY <1>3, <3>1, DoneIs DEF BInv
    <3>5. \A i \in DOMAIN s : i # n => s[i] # c
      BY <3>1 DEF BInv, ListsOnce
    <3> HIDE DEF s
    <3>6. /\ backlog'[id] = Front(s)
          /\ DOMAIN Front(s) = 1 .. Len(s) - 1
          /\ \A i \in 1 .. Len(s) - 1 : Front(s)[i] = s[i]
      BY <2>1, <3>1, <3>3, <3>4, RemoveAtLast
    <3>a. PICK len \in Nat : len = Len(s)
      BY <2>1
    <3>b. \A i \in 1 .. len - 1 : i \in 1 .. len /\ i # len
      OBVIOUS
    <3>7. \A i \in 1 .. Len(s) - 1 : i \in DOMAIN s /\ i # n
      BY <2>1, <3>3, <3>a, <3>b
    <3>8. ASSUME NEW i \in DOMAIN s, i # n PROVE i \in 1 .. Len(s) - 1
      <4>1. i \in 1 .. Len(s)
        BY <2>1
      <4> QED
        BY <2>1, <3>3, <3>8, <4>1
    <3>9. /\ \A i \in DOMAIN backlog'[id] : i \in DOMAIN s /\ backlog'[id][i] = s[i] /\ s[i] # c
          /\ \A i \in DOMAIN s : s[i] # c => i \in DOMAIN backlog'[id]
      BY <3>1, <3>5, <3>6, <3>7, <3>8
    <3> QED
      BY <3>6, <3>9 DEF s
  <2> QED
    BY <2>2, <2>3
<1>7. ListsWaiting'
  <2> SUFFICES ASSUME NEW id \in CallIds, NEW x \in Cells
               PROVE  InBacklog(id, x)' <=> HasId(x, id)' /\ Waits(x)'
    BY DEF ListsWaiting
  <2>1. InBacklog(id, x)' <=> InBacklog(id, x) /\ x # c
    BY <1>6 DEF InBacklog
  <2>2. \A w \in Workers : InQueue(w, x)' <=> InQueue(w, x)
    BY QueueSame
  <2>3. Waits(x)' <=> Waits(x) /\ x # c
    BY <1>1, <1>2, <1>5, <2>2 DEF Waits
  <2>4. x # c => (HasId(x, id)' <=> HasId(x, id))
    BY <1>4, SameId
  <2> QED
    BY <2>1, <2>3, <2>4 DEF BInv, ListsWaiting
<1>8. ListsOnce'
  BY <1>6 DEF BInv, ListsOnce
<1>9. HeldLast'
  <2>1. \A id \in CallIds : \A i \in DOMAIN backlog[id] : backlog[id][i] \in Cells
    BY <1>3, BacklogTyped
  <2> QED
    BY <1>2, <1>6, <2>1 DEF HeldLast
<1>10. QueueOrder'
  BY <1>6 DEF BInv, QueueOrder
<1> QED
  BY <1>6, <1>7, <1>8, <1>9, <1>10 DEF BInv

LEMMA FreeOrdered ==
  ASSUME SInv, BInv, held \in Cells, held' = NULL, queue' = queue, Done(held),
         Heap({held}, Nothing)
  PROVE  BInv' /\ \A id \in CallIds : backlog'[id] \in {backlog[id], Front(backlog[id])}
<1>1. PICK c \in Cells : c = held
  OBVIOUS
<1>2. \A x \in Cells : x \notin {c} => cell'[x] = cell[x]
  BY <1>1, FreeIs DEF SInv
<1> QED
  BY <1>1, <1>2, DropOrdered

\* A worker takes a packet: if it is a message it is the first of its backlog.
LEMMA DequeueOrdered ==
  ASSUME SInv, BInv, NEW w \in Workers, NEW c \in Cells, Dequeue(w, c),
         \A x \in Cells : Waits(x) /\ x # c => cell'[x] = cell[x]
  PROVE  BInv' /\ \A id \in CallIds : backlog'[id] \in {backlog[id], Tail(backlog[id])}
<1>1. /\ queue[w] # <<>> /\ c = Head(queue[w]) /\ Done(c) /\ held' = held
      /\ queue' = [queue EXCEPT ![w] = Tail(queue[w])]
  BY DEF Dequeue
<1>2. QueueTyped /\ QueueOnce /\ TypeOK
  BY TypeFacts DEF SInv, Once, QueueOnce
<1>3. /\ 1 \in DOMAIN queue[w] /\ c = queue[w][1] /\ InQueue(w, c)
      /\ \A v \in Workers : \A x : InQueue(v, x)' <=> InQueue(v, x) /\ x # c
      /\ \A v \in Workers : \A k \in DOMAIN queue'[v] : \E l \in DOMAIN queue[v] :
           queue'[v][k] = queue[v][l] /\ l = IF v = w THEN k + 1 ELSE k
  <2>1. \A v \in Workers : \A x : InQueue(v, x)' <=> InQueue(v, x) /\ x # c
    BY DequeueIs
  <2>2. 1 \in DOMAIN queue[w] /\ c = queue[w][1]
    BY <1>1, <1>2, QueueTake
  <2>3. \A v \in Workers : \A k \in DOMAIN queue'[v] : \E l \in DOMAIN queue[v] :
           queue'[v][k] = queue[v][l] /\ l = IF v = w THEN k + 1 ELSE k
    BY <1>1, <1>2, QueueTake
  <2>4. InQueue(w, c)
    BY <2>2 DEF InQueue
  <2> QED
    BY <2>1, <2>2, <2>3, <2>4
<1>4. held # c
  <2>1. \A q \in Places : At(q, c) <=> q = "queue"
    BY DequeueIs
  <2> QED
    BY <2>1, AtIs DEF Places
<1>5. ASSUME NEW id \in CallIds, NEW n \in DOMAIN backlog[id], backlog[id][n] = c PROVE n = 1
  <2> DEFINE s == backlog[id]
  <2>1. /\ Len(s) \in Nat /\ DOMAIN s = 1 .. Len(s) /\ \A i \in DOMAIN s : s[i] \in Cells
    BY <1>2, BacklogTyped
  <2> SUFFICES ASSUME n # 1 PROVE FALSE
    OBVIOUS
  <2>2. 1 \in DOMAIN s /\ 1 < n
    BY <1>5, <2>1
  <2>3. PICK y \in Cells : y = s[1]
    BY <2>1, <2>2
  <2>4. InBacklog(id, y) /\ InBacklog(id, c)
    BY <1>5, <2>2, <2>3 DEF InBacklog
  <2>5. HasId(y, id) /\ Waits(y) /\ HasId(c, id)
    BY <2>3, <2>4 DEF BInv, ListsWaiting
  <2>6. held # y
    <3>1. held = y => n <= 1
      BY <1>5, <2>2, <2>3 DEF BInv, HeldLast
    <3> QED
      BY <2>1, <2>2, <3>1
  <2>7. PICK v \in Workers : InQueue(v, y)
    BY <2>5, <2>6 DEF Waits
  <2>8. v = w
    BY <1>3, <2>5, <2>7, QueueOfCall
  <2>9. PICK k \in DOMAIN queue[w] : queue[w][k] = y
    BY <2>7, <2>8 DEF InQueue
  <2>10. k < 1
    BY <1>3, <1>5, <2>2, <2>3, <2>9 DEF BInv, QueueOrder
  <2>11. queue[w] \in Seq(Cells)
    BY <1>2 DEF QueueTyped
  <2> QED
    BY <2>9, <2>10, <2>11
\* d is how far the backlog of the call moves up.
<1>6. ASSUME NEW id \in CallIds
      PROVE  \E d \in {0, 1} :
               /\ backlog'[id] = IF d = 0 THEN backlog[id] ELSE Tail(backlog[id])
               /\ \A i \in DOMAIN backlog'[id] :
                    /\ i \in Nat /\ i + d \in DOMAIN backlog[id]
                    /\ backlog'[id][i] = backlog[id][i + d] /\ backlog[id][i + d] # c
               /\ \A i \in DOMAIN backlog[id] :
                    backlog[id][i] # c =>
                      i \in Nat /\ \E j \in DOMAIN backlog'[id] : i = j + d
  <2> DEFINE s == backlog[id]
  <2>1. /\ s \in Seq(Cells) /\ Len(s) \in Nat /\ DOMAIN s = 1 .. Len(s)
    BY <1>2, BacklogTyped
  <2>2. CASE ~InBacklog(id, c)
    <3>1. backlog'[id] = s
      BY <1>1, <2>2, DoneIs DEF BInv
    <3>2. \A i \in DOMAIN s : i \in Nat /\ i + 0 = i /\ s[i] # c
      BY <2>1, <2>2 DEF InBacklog
    <3> QED
      BY <3>1, <3>2
  <2>3. CASE InBacklog(id, c)
    <3>1. 1 \in DOMAIN s /\ s[1] = c
      BY <1>5, <2>3 DEF InBacklog
    <3>2. backlog'[id] = RemoveAt(s, 1)
      BY <1>1, <3>1, DoneIs DEF BInv
    <3>3. \A i \in DOMAIN s : i # 1 => s[i] # c
      BY <1>5
    <3>4. s # <<>>
      BY <3>1
    <3> HIDE DEF s
    <3>5. /\ backlog'[id] = Tail(s)
          /\ DOMAIN Tail(s) = 1 .. Len(s) - 1
          /\ \A i \in 1 .. Len(s) - 1 : Tail(s)[i] = s[i + 1]
      BY <2>1, <3>2, <3>4, RemoveAtFirst
    <3>6. \A i \in 1 .. Len(s) - 1 : i \in Nat /\ i + 1 \in DOMAIN s /\ i + 1 # 1
      BY <2>1
    <3>7. \A i \in DOMAIN s : i # 1 => i \in Nat /\ \E j \in 1 .. Len(s) - 1 : i = j + 1
      <4> SUFFICES ASSUME NEW i \in DOMAIN s, i # 1
                   PROVE  i \in Nat /\ i - 1 \in 1 .. Len(s) - 1 /\ i = (i - 1) + 1
        OBVIOUS
      <4> QED
        BY <2>1
    <3>8. \A i \in DOMAIN backlog'[id] :
            /\ i \in Nat /\ i + 1 \in DOMAIN s
            /\ backlog'[id][i] = s[i + 1] /\ s[i + 1] # c
      BY <3>3, <3>5, <3>6
    <3>9. \A i \in DOMAIN s : s[i] # c => i \in Nat /\ \E j \in DOMAIN backlog'[id] : i = j + 1
      BY <3>1, <3>5, <3>7
    <3> QED
      BY <3>5, <3>8, <3>9 DEF s
  <2> QED
    BY <2>2, <2>3
<1>7. ListsWaiting'
  <2> SUFFICES ASSUME NEW id \in CallIds, NEW x \in Cells
               PROVE  InBacklog(id, x)' <=> HasId(x, id)' /\ Waits(x)'
    BY DEF ListsWaiting
  <2>1. PICK d \in {0, 1} :
               /\ \A i \in DOMAIN backlog'[id] :
                    /\ i \in Nat /\ i + d \in DOMAIN backlog[id]
                    /\ backlog'[id][i] = backlog[id][i + d] /\ backlog[id][i + d] # c
               /\ \A i \in DOMAIN backlog[id] :
                    backlog[id][i] # c =>
                      i \in Nat /\ \E j \in DOMAIN backlog'[id] : i = j + d
    BY <1>6
  <2>2. InBacklog(id, x)' => InBacklog(id, x) /\ x # c
    BY <2>1 DEF InBacklog
  <2>3. InBacklog(id, x) /\ x # c => InBacklog(id, x)'
    <3> SUFFICES ASSUME NEW i \in DOMAIN backlog[id], backlog[id][i] = x, x # c
                 PROVE  \E j \in DOMAIN backlog'[id] : backlog'[id][j] = x
      BY DEF InBacklog
    <3>1. PICK j \in DOMAIN backlog'[id] : i = j + d
      BY <2>1
    <3> QED
      BY <2>1, <3>1
  <2>4. Waits(x)' <=> Waits(x) /\ x # c
    BY <1>1, <1>3, <1>4 DEF Waits
  <2>5. Waits(x) /\ x # c => (HasId(x, id)' <=> HasId(x, id))
    BY SameId
  <2> QED
    BY <2>2, <2>3, <2>4, <2>5 DEF BInv, ListsWaiting
<1>8. ASSUME NEW id \in CallIds, NEW i \in DOMAIN backlog'[id], NEW j \in DOMAIN backlog'[id]
      PROVE  /\ backlog'[id][i] = backlog'[id][j] => i = j
             /\ backlog'[id][i] = held' => j <= i
             /\ \A v \in Workers : \A k, l \in DOMAIN queue'[v] :
                  queue'[v][k] = backlog'[id][i] /\ queue'[v][l] = backlog'[id][j] /\ i < j => k < l
  <2>1. PICK d \in {0, 1} :
               \A n \in DOMAIN backlog'[id] :
                    /\ n \in Nat /\ n + d \in DOMAIN backlog[id]
                    /\ backlog'[id][n] = backlog[id][n + d] /\ backlog[id][n + d] # c
    BY <1>6
  <2>2. /\ i \in Nat /\ j \in Nat
        /\ i + d \in DOMAIN backlog[id] /\ backlog'[id][i] = backlog[id][i + d]
        /\ j + d \in DOMAIN backlog[id] /\ backlog'[id][j] = backlog[id][j + d]
    BY <2>1
  <2>3. backlog'[id][i] = backlog'[id][j] => i = j
    <3>1. backlog'[id][i] = backlog'[id][j] => i + d = j + d
      BY <2>2 DEF BInv, ListsOnce
    <3> QED
      BY <2>2, <3>1
  <2>4. backlog'[id][i] = held' => j <= i
    <3>1. backlog'[id][i] = held' => j + d <= i + d
      BY <1>1, <2>2 DEF BInv, HeldLast
    <3> QED
      BY <2>2, <3>1
  <2>5. ASSUME NEW v \in Workers, NEW k \in DOMAIN queue'[v], NEW l \in DOMAIN queue'[v],
               queue'[v][k] = backlog'[id][i], queue'[v][l] = backlog'[id][j], i < j
        PROVE  k < l
    <3>1. PICK m \in DOMAIN queue[v], n \in DOMAIN queue[v] :
            /\ queue'[v][k] = queue[v][m] /\ m = IF v = w THEN k + 1 ELSE k
            /\ queue'[v][l] = queue[v][n] /\ n = IF v = w THEN l + 1 ELSE l
      BY <1>3
    <3>2. i + d < j + d
      BY <2>2, <2>5
    <3>a. queue[v][m] = backlog[id][i + d] /\ queue[v][n] = backlog[id][j + d]
      BY <2>2, <2>5, <3>1
    <3>3. m < n
      BY <2>2, <3>2, <3>a DEF BInv, QueueOrder
    <3>4. k \in Nat /\ l \in Nat
      <4>1. QueueTyped'
        BY DequeueIs
      <4>2. DOMAIN queue'[v] = 1 .. Len(queue'[v])
        BY <4>1, LenProperties DEF QueueTyped
      <4> QED
        BY <4>2
    <3> QED
      BY <3>1, <3>3, <3>4
  <2> QED
    BY <2>3, <2>4, <2>5
<1>9. ListsOnce' /\ HeldLast' /\ QueueOrder'
  BY <1>8 DEF ListsOnce, HeldLast, QueueOrder
<1>10. \A id \in CallIds : backlog'[id] \in {backlog[id], Tail(backlog[id])}
  BY <1>6
<1> QED
  BY <1>7, <1>9, <1>10 DEF BInv

\* What a worker does to the heap does not touch a message or event that still waits.
LEMMA EnterSpares ==
  ASSUME NEW w, NEW B, NEW state, NEW before, NEW after, NEW lost,
         Enter(w, B, state, before, after, lost),
         NEW x \in Cells, x \in allocated, x \notin before \cup after
  PROVE  cell'[x] = cell[x]
<1> DEFINE taken == allocated \ before
<1>1. PICK L \in SUBSET B :
        \E event \in [B \ L -> Cells \ taken] :
          Heap(before \cup after, [c \in {event[b] : b \in B \ L} |->
                         Delete(w, CHOOSE b \in B \ L : event[b] = c)])
  BY DEF Enter
<1>2. PICK event \in [B \ L -> Cells \ taken] :
        Heap(before \cup after, [c \in {event[b] : b \in B \ L} |->
                       Delete(w, CHOOSE b \in B \ L : event[b] = c)])
  BY <1>1
<1>3. x \notin {event[b] : b \in B \ L}
  OBVIOUS
<1> QED
  BY <1>2, <1>3 DEF Heap

LEMMA PacketSpares ==
  ASSUME SInv, NEW w \in Workers, NEW c \in Cells, Packet(w, c), NEW x \in Cells, Waits(x), x # c
  PROVE  cell'[x] = cell[x]
<1>1. x \in allocated /\ ~HasMessage(w, x) /\ ~HasAck(w, x)
  <2>1. PICK p \in {"held", "queue"} : At(p, x)
    BY AtIs DEF Waits
  <2>2. \A q \in Places : At(q, x) <=> q = p
    BY <2>1, OnlyPlace DEF Places, SInv
  <2> QED
    BY <2>2, AtIs DEF Places
<1>2. CASE Heap({c}, Nothing)
  <2>1. \A y \in Cells : y \notin {c} => cell'[y] = cell[y]
    BY <1>2, FreeIs DEF SInv
  <2> QED
    BY <2>1
<1>3. CASE Serve(w, c)
  <2>1. \E B, state : Enter(w, B, state, {}, {}, {})
    BY <1>3 DEF Serve
  <2> QED
    BY <1>1, <2>1, EnterSpares
<1>4. CASE TakeAck(w, c)
  <2>1. \E B, lost : Enter(w, B, "TERMINATED", {}, {}, lost)
    BY <1>4 DEF TakeAck
  <2> QED
    BY <1>1, <2>1, EnterSpares
<1>5. CASE DeleteTransaction(w, c)
  <2> DEFINE b == cell[c].branch
             messages == {txn[w][b].message, txn[w][b].ack_message} \ {NULL}
  <2>1. \E B : Enter(w, B, "TERMINATED", messages, {c}, {})
    BY <1>5 DEF DeleteTransaction
  <2>2. b \in Branches
    <3>1. Dequeue(w, c) /\ cell[c].type = "DELETE_TRANSACTION"
      BY <1>5 DEF DeleteTransaction
    <3>2. SipFor(w, c) \/ EventFor(w, c)
      BY <3>1, DequeueIs
    <3> QED
      BY <3>1, <3>2, ContentKinds DEF SipFor, EventFor
  <2>3. x \notin messages \cup {c}
    BY <1>1, <2>2 DEF HasMessage, HasAck
  <2> HIDE DEF messages
  <2> QED
    BY <1>1, <2>1, <2>3, EnterSpares
<1> QED
  BY <1>2, <1>3, <1>4, <1>5 DEF Packet, Reject, Refuse, FreeKnown, DropStaleEvent

LEMMA DispatchOrdered ==
  ASSUME SInv, BInv, Dispatch
  PROVE  /\ BInv' /\ held # NULL /\ held' = NULL
         /\ \A id \in CallIds : backlog'[id] \in {backlog[id], Front(backlog[id])}
<1>1. held \in Cells /\ held # NULL /\ held' = NULL
  BY Constants DEF Dispatch, SInv, TypeOK
<1>2. PICK c \in Cells : c = held
  BY <1>1
<1>3. PICK w \in Workers : w = Select(cell[held].message.call_id)
  BY DEF Dispatch
<1>4. CASE /\ Len(queue[w]) < QueueCapacity
           /\ queue' = [queue EXCEPT ![w] = Append(@, held)]
           /\ UNCHANGED <<allocated, cell, backlog>>
  <2>1. \A v \in Workers : ~InQueue(v, c)
    <3>1. \A q \in Places : At(q, c) <=> q = "held"
      BY <1>2, AtIs, OnlyPlace DEF Places, SInv
    <3> QED
      BY <3>1, AtIs DEF Places
  <2>2. queue' = [queue EXCEPT ![w] = Append(queue[w], c)]
    BY <1>2, <1>4
  <2>3. BInv'
    BY <1>1, <1>2, <1>4, <2>1, <2>2, PutOrdered
  <2> QED
    BY <1>1, <1>4, <2>3
<1>5. CASE Heap({held}, Nothing) /\ Done(held) /\ UNCHANGED queue
  BY <1>1, <1>5, FreeOrdered
<1> QED
  BY <1>3, <1>4, <1>5 DEF Dispatch

LEMMA DiscardOrdered ==
  ASSUME SInv, BInv, Discard
  PROVE  /\ BInv' /\ held # NULL /\ held' = NULL
         /\ \A id \in CallIds : backlog'[id] \in {backlog[id], Front(backlog[id])}
BY FreeOrdered DEF Discard, SInv, TypeOK

LEMMA MisdirectOrdered ==
  ASSUME SInv, BInv, Misdirect
  PROVE  /\ BInv' /\ held # NULL /\ held' = NULL
         /\ \A id \in CallIds : backlog'[id] \in {backlog[id], Front(backlog[id])}
<1>1. held \in Cells /\ held # NULL /\ held' = NULL /\ queue' = queue /\ Done(held)
  BY DEF Misdirect, SInv, TypeOK
<1>2. CASE Heap({held}, Nothing)
  BY <1>1, <1>2, FreeOrdered
<1>3. CASE cell' = cell
  BY <1>1, <1>3, DropOrdered
<1> QED
  BY <1>2, <1>3 DEF Misdirect

LEMMA DeleteTimeoutOrdered ==
  ASSUME SInv, BInv, NEW e \in Cells, DeleteTimeout(e)
  PROVE  BInv' /\ backlog' = backlog
<1>1. e \in delTimer /\ UNCHANGED <<cell, held, backlog>>
  BY DEF DeleteTimeout
<1>2. PICK w \in Workers : EventFor(w, e)
  BY <1>1 DEF SInv, Contained, Fits
<1>3. cell[e].queue = w
  BY <1>2, ContentKinds DEF EventFor
<1>4. CASE Len(queue[w]) < QueueCapacity
  <2>1. queue' = [queue EXCEPT ![w] = Append(queue[w], e)]
    BY <1>3, <1>4 DEF DeleteTimeout
  <2>2. held # e /\ \A v \in Workers : ~InQueue(v, e)
    <3>1. \A q \in Places : At(q, e) <=> q = "delTimer"
      BY <1>1, AtIs, OnlyPlace DEF Places, SInv
    <3> QED
      BY <3>1, AtIs DEF Places
  <2>3. \A id \in CallIds : ~HasId(e, id)
    BY <1>2, ContentKinds DEF HasId, EventFor
  <2> QED
    BY <1>1, <1>4, <2>1, <2>2, <2>3, PutOrdered
<1>5. CASE ~(Len(queue[w]) < QueueCapacity)
  <2>1. queue' = queue
    BY <1>3, <1>5 DEF DeleteTimeout
  <2> QED
    BY <1>1, <2>1, BystanderKeeps
<1> QED
  BY <1>4, <1>5

-----------------------------------------------------------------------------
\* How each step changes the backlogs, and that it keeps the invariant

BacklogStep(id) ==
  \/ Len(backlog[id]) <= Len(backlog'[id])
  \/ backlog'[id] = Tail(backlog[id])
  \/ held # NULL /\ held' = NULL /\ backlog'[id] = Front(backlog[id])

LEMMA NextOrdered ==
  ASSUME SInv, BInv, [Next]_vars
  PROVE  BInv' /\ \A id \in CallIds : BacklogStep(id)
<1>0. ASSUME NEW id \in CallIds, backlog'[id] = backlog[id] PROVE BacklogStep(id)
  <2>1. Len(backlog[id]) \in Nat
    BY BacklogTyped DEF SInv
  <2> QED
    BY <1>0, <2>1 DEF BacklogStep
<1>1. CASE \E m \in Requests \cup {NULL} : Receive(m)
  <2>1. PICK m \in Requests \cup {NULL} : Receive(m)
    BY <1>1
  <2>2. CASE HasCallId(m)
    <3>1. m \in Requests
      BY <2>2 DEF HasCallId
    <3> QED
      BY <2>1, <2>2, <3>1, ReceiveOrdered DEF BacklogStep
  <2>3. CASE ~HasCallId(m)
    BY <1>0, <2>1, <2>3, ReceiveAnonymousOrdered
  <2> QED
    BY <2>2, <2>3
<1>2. CASE ReceiveNothing \/ UNCHANGED vars
  <2>1. UNCHANGED <<cell, held, queue, backlog>>
    BY <1>2 DEF ReceiveNothing, vars, threads
  <2> QED
    BY <1>0, <2>1, BystanderKeeps
<1>3. CASE Dispatch
  BY <1>0, <1>3, DispatchOrdered DEF BacklogStep
<1>6. CASE Discard \/ Misdirect
  BY <1>0, <1>6, DiscardOrdered, MisdirectOrdered DEF BacklogStep
<1>4. CASE \E w \in Workers : Worker(w)
  <2>1. PICK w \in Workers, c \in Cells : Packet(w, c)
    BY <1>4 DEF Worker
  <2>2. Dequeue(w, c)
    BY <2>1 DEF Packet, Reject, Refuse, Serve, FreeKnown, TakeAck, DropStaleEvent, DeleteTransaction
  <2>3. \A x \in Cells : Waits(x) /\ x # c => cell'[x] = cell[x]
    BY <2>1, PacketSpares
  <2>4. BInv' /\ \A id \in CallIds : backlog'[id] \in {backlog[id], Tail(backlog[id])}
    BY <2>2, <2>3, DequeueOrdered
  <2> QED
    BY <1>0, <2>4 DEF BacklogStep
<1>5. CASE \E e \in Cells : Timeout(e)
  <2>1. PICK e \in Cells : WaitAckTimeout(e) \/ DeleteTimeout(e)
    BY <1>5 DEF Timeout
  <2>2. CASE WaitAckTimeout(e)
    <3>1. UNCHANGED <<cell, held, queue, backlog>>
      BY <2>2 DEF WaitAckTimeout, threads
    <3> QED
      BY <1>0, <3>1, BystanderKeeps
  <2>3. CASE DeleteTimeout(e)
    BY <1>0, <2>3, DeleteTimeoutOrdered
  <2> QED
    BY <2>1, <2>2, <2>3
<1> QED
  BY <1>1, <1>2, <1>3, <1>4, <1>5, <1>6 DEF Next

LEMMA BacklogHolds == Spec => []BInv
<1>1. Init => BInv
  BY InitOrdered
<1>2. SInv /\ BInv /\ [Next]_vars => BInv'
  BY NextOrdered
<1> QED
  BY <1>1, <1>2, InvariantHolds, PTL DEF Spec

\* What leaves the backlog of a call is its oldest message, or the one that main has just
\* failed to enqueue: the messages of a call are served in the order they came.
THEOREM CallsServedInOrder == Spec => ServedInOrder
<1>1. SInv /\ BInv /\ [Next]_vars =>
        [ \A id \in CallIds :
            Len(backlog'[id]) < Len(backlog[id]) =>
              \/ backlog'[id] = Tail(backlog[id])
              \/ held # NULL /\ held' = NULL /\ backlog'[id] = Front(backlog[id]) ]_vars
  <2> SUFFICES ASSUME SInv, BInv, [Next]_vars, NEW id \in CallIds,
                      Len(backlog'[id]) < Len(backlog[id])
               PROVE  \/ backlog'[id] = Tail(backlog[id])
                      \/ held # NULL /\ held' = NULL /\ backlog'[id] = Front(backlog[id])
    OBVIOUS
  <2>1. BacklogStep(id)
    BY NextOrdered
  <2>2. Len(backlog[id]) \in Nat /\ Len(backlog'[id]) \in Nat
    <3>1. backlog[id] \in Seq(Cells)
      BY BacklogTyped DEF SInv
    <3>2. TypeOK'
      BY NextKeeps DEF SInv
    <3>3. backlog'[id] \in Seq(Cells)
      BY <3>2 DEF TypeOK
    <3> QED
      BY <3>1, <3>3
  <2> QED
    BY <2>1, <2>2 DEF BacklogStep
<1> QED
  BY <1>1, InvariantHolds, BacklogHolds, PTL DEF Spec, ServedInOrder
=============================================================================
