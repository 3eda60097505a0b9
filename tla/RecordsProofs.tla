--------------------------- MODULE RecordsProofs ---------------------------
(***************************************************************************)
(* Proofs about Records, for any number of records, names and slots.       *)
(*                                                                         *)
(* The lists are walked and deleted by recursive definitions.  What these  *)
(* compute is shown from a sequence that the list is (IsList), which need  *)
(* not be computed: the walk is the function that follows it (WalkIs), and *)
(* cleaning up one record after the other leaves the memory that dropping  *)
(* them at once would (CleanedUpIs).                                       *)
(***************************************************************************)
EXTENDS Records, SequenceTheorems, FiniteSetTheorems, WellFoundedInduction, TLAPS

-----------------------------------------------------------------------------
\* Induction over the natural numbers, for a set of them

LEMMA LeastNatural ==
  ASSUME NEW T, T \subseteq Nat, T # {}
  PROVE  \E n \in T : \A m \in T : n <= m
<1>1. IsWellFoundedOn(OpToRel(<, Nat), Nat)
  BY NatLessThanWellFounded, Zenon
<1>2. PICK n \in T : \A m \in T : <<m, n>> \notin OpToRel(<, Nat)
  BY <1>1, WFMin, Zenon
<1>3. \A m \in T : <<m, n>> \notin OpToRel(<, Nat) => ~(m < n)
  BY Zenon DEF OpToRel
<1>4. \A m \in T : ~(m < n)
  BY <1>2, <1>3
<1>5. \A m \in T : m \in Nat /\ n \in Nat
  OBVIOUS
<1> HIDE <1>1
<1> QED
  BY <1>4, <1>5

LEMMA SetInduction ==
  ASSUME NEW S, NEW k \in Nat, 0 \in S, \A n \in 0 .. k : n \in S /\ n < k => n + 1 \in S
  PROVE  \A n \in 0 .. k : n \in S
<1> SUFFICES ASSUME (0 .. k) \ S # {} PROVE FALSE
  OBVIOUS
<1>1. PICK n \in (0 .. k) \ S : \A m \in (0 .. k) \ S : n <= m
  <2> DEFINE T == (0 .. k) \ S
  <2>1. T \subseteq Nat /\ T # {}
    OBVIOUS
  <2> HIDE DEF T
  <2>2. \E n \in T : \A m \in T : n <= m
    BY <2>1, LeastNatural
  <2> QED
    BY <2>2 DEF T
<1>2. n - 1 \in 0 .. k /\ n - 1 < n
  BY <1>1
<1>3. n - 1 \in S
  BY <1>1, <1>2
<1> QED
  BY <1>1, <1>2, <1>3

-----------------------------------------------------------------------------
\* Kinds of records

LEMMA KindsApart ==
  /\ Txn \in Kinds /\ Dlg \in Kinds /\ Call \in Kinds
  /\ \A J, K \in Kinds : J # K => J \cap K = {}
  /\ \A K \in Kinds : K \subseteq Rec /\ K # {}
  /\ Txn # Dlg /\ Txn # Call /\ Dlg # Call
  /\ Txn \cap Dlg = {} /\ Txn \cap Call = {} /\ Dlg \cap Call = {}
<1>1. \A K \in Kinds : K # {}
  BY RecordsAssumption
<1>2. Txn \in Kinds /\ Dlg \in Kinds /\ Call \in Kinds
  BY DEF Kinds
<1>3. \A K \in Kinds : K \subseteq Rec
  BY DEF Kinds, Rec
<1>4. Txn # {} /\ Dlg # {} /\ Call # {}
  BY <1>1, <1>2
<1>5. Txn \cap Dlg = {} /\ Txn \cap Call = {} /\ Dlg \cap Call = {}
  BY RecordsAssumption
<1>6. \A J, K \in Kinds : J # K => J \cap K = {}
  BY <1>5 DEF Kinds
<1> QED
  BY <1>1, <1>2, <1>3, <1>4, <1>5, <1>6

LEMMA KindIs ==
  ASSUME NEW r \in Rec
  PROVE  /\ KindOf(r) \in Kinds /\ r \in KindOf(r)
         /\ \A K \in Kinds : r \in K => KindOf(r) = K
<1>1. \E K \in Kinds : r \in K
  BY DEF Rec, Kinds
<1>2. KindOf(r) \in Kinds /\ r \in KindOf(r)
  BY <1>1 DEF KindOf
<1> QED
  BY <1>2, KindsApart

\* What a record of each kind may belong to
Owners(r) == IF r \in Txn THEN Dlg ELSE IF r \in Dlg THEN Call ELSE {}

LEMMA OwnersAbove ==
  ASSUME NEW r \in Rec, NEW o \in Owners(r)
  PROVE  o \in Rec /\ r # o /\ r \notin Owners(o) /\ ((r \in Txn /\ o \in Dlg) \/ (r \in Dlg /\ o \in Call))
<1>1. Txn \cap Dlg = {} /\ Txn \cap Call = {} /\ Dlg \cap Call = {}
  BY KindsApart
<1>2. (r \in Txn /\ o \in Dlg) \/ (r \in Dlg /\ o \in Call)
  BY DEF Owners
<1>3. CASE r \in Txn /\ o \in Dlg
  BY <1>1, <1>3 DEF Owners, Rec
<1>4. CASE r \in Dlg /\ o \in Call
  BY <1>1, <1>4 DEF Owners, Rec
<1> QED
  BY <1>2, <1>3, <1>4

-----------------------------------------------------------------------------
\* The inductive invariant

Live == {r \in Rec : given[r] # <<>>}

Texts == {Cut(n) : n \in UNION {Names[K] : K \in Kinds}} \cup {<<>>}
Tables == UNION {[Slots(o) -> Rec \cup {NULL}] : o \in Rec}
Memories == [next : Rec \cup {NULL}, text : Texts, len : Nat, to_tag : ToTags \cup {NULL},
             up : Rec \cup {NULL}, slot : Tables]

MemTyped(m) ==
  /\ m \in [Rec -> Memories]
  /\ \A r \in Rec : /\ m[r].next \in KindOf(r) \cup {NULL}
                    /\ m[r].slot \in [Slots(r) -> Rec \cup {NULL}]

Typed ==
  /\ head \in [Kinds -> Rec \cup {NULL}]
  /\ \A K \in Kinds : head[K] \in K \cup {NULL}
  /\ MemTyped(mem)
  /\ given = [r \in Rec |-> given[r]]

\* The i-th record of s, NULL behind the last
Nth(s, i) == IF i \in DOMAIN s THEN s[i] ELSE NULL

\* List K is s: the live records of kind K, each once.
IsList(K, s) ==
  /\ \A i, j \in DOMAIN s : s[i] = s[j] => i = j
  /\ \A r \in K : r \in Live <=> \E i \in DOMAIN s : s[i] = r
  /\ head[K] = Nth(s, 1)
  /\ \A i \in DOMAIN s : mem[s[i]].next = Nth(s, i + 1)

Lists == \A K \in Kinds : \E s \in Seq(K) : IsList(K, s)

\* A record points at a live one of the kind above it; what a table has points back.
Above(m) == \A r \in Rec : m[r].up # NULL => m[r].up \in Owners(r)
Exact(m) ==
  \A o \in Rec : \A i \in Slots(o) : m[o].slot[i] # NULL =>
    /\ m[m[o].slot[i]].up = o
    /\ \A j \in Slots(o) : m[o].slot[i] = m[o].slot[j] => i = j

Links ==
  /\ Above(mem)
  /\ Exact(mem)
  /\ \A r \in Rec : mem[r].up # NULL => r \in Live /\ mem[r].up \in Live

\* A record has the name it was made for; the branch of a transaction, if it fits, is
\* its own.
Named ==
  /\ \A r \in Live :
       /\ given[r] \in Names[KindOf(r)]
       /\ mem[r].text = Cut(given[r])
       /\ mem[r].len = Len(given[r])
       /\ r \in Txn => mem[r].to_tag = NULL
  /\ \A t, u \in Txn \cap Live : given[t] = given[u] /\ Fits(given[t]) => t = u

RecInv == Typed /\ Lists /\ Links /\ Named

-----------------------------------------------------------------------------
\* The walk of a list

LEMMA NthTyped ==
  ASSUME NEW K, NEW s \in Seq(K), NEW i
  PROVE  Nth(s, i) \in K \cup {NULL}
BY DEF Nth

LEMMA ListLength ==
  ASSUME NEW K \in Kinds, NEW s \in Seq(K), IsList(K, s)
  PROVE  Len(s) <= Cardinality(K) /\ Cardinality(K) \in Nat /\ Len(s) \in Nat
<1>1. IsFiniteSet(K)
  BY RecordsAssumption, KindsApart, FS_Subset
<1>2. Len(s) \in Nat /\ s \in [1 .. Len(s) -> K]
  BY LenProperties
<1>3. Cardinality(K) \in Nat
  BY <1>1, FS_CardinalityType
<1>4. Cardinality(1 .. Len(s)) = Len(s) /\ IsFiniteSet(1 .. Len(s))
  BY <1>2, FS_Interval
<1>5. s \in Injection(1 .. Len(s), K)
  BY <1>2 DEF IsList, Injection, IsInjective
<1>6. Cardinality(1 .. Len(s)) <= Cardinality(K)
  BY <1>1, <1>4, <1>5, FS_Injection
<1> QED
  BY <1>2, <1>3, <1>4, <1>6

\* What the recursive definition of Walk says of a function w
IsWalk(K, w) ==
  w = [i \in 0 .. Cardinality(K) |->
         IF i = 0 THEN head[K]
         ELSE LET current == w[i - 1] IN IF current = NULL THEN NULL ELSE mem[current].next]

LEMMA WalkIs ==
  ASSUME NEW K \in Kinds, NEW s \in Seq(K), IsList(K, s)
  PROVE  Walk(K) = [i \in 0 .. Cardinality(K) |-> Nth(s, i + 1)]
<1> DEFINE N == Cardinality(K)
           v == [i \in 0 .. N |-> Nth(s, i + 1)]
<1>1. N \in Nat /\ Len(s) \in Nat /\ DOMAIN s = 1 .. Len(s)
  BY ListLength
<1>2. \A i \in DOMAIN s : s[i] \in K /\ s[i] # NULL
  BY KindsApart, RecordsAssumption
<1>3. \A i \in 0 .. N : i # 0 =>
        Nth(s, i + 1) = IF Nth(s, i) = NULL THEN NULL ELSE mem[Nth(s, i)].next
  <2> SUFFICES ASSUME NEW i \in 0 .. N, i # 0
               PROVE  Nth(s, i + 1) = IF Nth(s, i) = NULL THEN NULL ELSE mem[Nth(s, i)].next
    OBVIOUS
  <2>1. CASE i \in DOMAIN s
    BY <1>1, <1>2, <2>1 DEF Nth, IsList
  <2>2. CASE i \notin DOMAIN s
    BY <1>1, <2>2 DEF Nth
  <2> QED
    BY <2>1, <2>2
<1>4. Nth(s, 1) = head[K]
  BY DEF IsList
<1>5. IsWalk(K, v)
  <2>1. \A i \in 0 .. N : i # 0 => i - 1 \in 0 .. N /\ v[i - 1] = Nth(s, i)
    BY <1>1
  <2>2. \A i \in 0 .. N :
          Nth(s, i + 1) = IF i = 0 THEN head[K]
                          ELSE LET current == v[i - 1] IN
                               IF current = NULL THEN NULL ELSE mem[current].next
    BY <1>1, <1>3, <1>4, <2>1
  <2> QED
    BY <2>2 DEF IsWalk
<1>6. Walk(K) = CHOOSE w : IsWalk(K, w)
  BY DEF Walk, IsWalk
<1>7. IsWalk(K, Walk(K))
  BY <1>5, <1>6, Zenon
<1> DEFINE S == {i \in 0 .. N : Walk(K)[i] = v[i]}
<1>8. 0 \in S
  BY <1>1, <1>4, <1>7 DEF IsWalk
<1>9. \A i \in 0 .. N : i \in S /\ i < N => i + 1 \in S
  <2> SUFFICES ASSUME NEW i \in 0 .. N, i \in S, i < N PROVE i + 1 \in S
    OBVIOUS
  <2>1. i + 1 \in 0 .. N /\ i + 1 # 0 /\ (i + 1) - 1 = i
    BY <1>1
  <2>2. Walk(K)[i + 1] = IF Walk(K)[i] = NULL THEN NULL ELSE mem[Walk(K)[i]].next
    BY <1>7, <2>1 DEF IsWalk
  <2>3. Walk(K)[i] = Nth(s, i + 1)
    OBVIOUS
  <2>4. Walk(K)[i + 1] = Nth(s, (i + 1) + 1)
    BY <1>3, <2>1, <2>2, <2>3
  <2> QED
    BY <2>1, <2>4
<1>10. \A i \in 0 .. N : i \in S
  <2> HIDE DEF S
  <2> QED
    BY <1>1, <1>8, <1>9, SetInduction
<1> QED
  BY <1>7, <1>10 DEF IsWalk

LEMMA ReachedIs ==
  ASSUME NEW K \in Kinds, Lists
  PROVE  Reached(K) = K \cap Live
<1>1. PICK s \in Seq(K) : IsList(K, s)
  BY DEF Lists
<1>2. Walk(K) = [i \in 0 .. Cardinality(K) |-> Nth(s, i + 1)]
  BY <1>1, WalkIs
<1>3. Len(s) <= Cardinality(K) /\ Cardinality(K) \in Nat /\ Len(s) \in Nat /\ DOMAIN s = 1 .. Len(s)
  BY <1>1, ListLength
<1>4. \A i \in DOMAIN s : s[i] \in K /\ s[i] # NULL
  BY KindsApart, RecordsAssumption
<1>5. ASSUME NEW r \in Reached(K) PROVE r \in K \cap Live
  <2>1. PICK i \in 0 .. Cardinality(K) : r = Nth(s, i + 1) /\ r # NULL
    BY <1>2 DEF Reached
  <2>2. i + 1 \in DOMAIN s /\ r = s[i + 1]
    BY <2>1 DEF Nth
  <2> QED
    BY <1>1, <1>4, <2>2 DEF IsList
<1>6. ASSUME NEW r \in K \cap Live PROVE r \in Reached(K)
  <2>1. PICK j \in DOMAIN s : s[j] = r
    BY <1>1 DEF IsList
  <2>2. j - 1 \in 0 .. Cardinality(K) /\ (j - 1) + 1 = j
    BY <1>3
  <2>3. Walk(K)[j - 1] = r
    BY <1>2, <2>1, <2>2 DEF Nth
  <2> QED
    BY <1>4, <2>1, <2>2, <2>3 DEF Reached
<1> QED
  BY <1>5, <1>6

\* The named part of the invariant that the walk shows
LEMMA ListsAreWellFormed ==
  ASSUME Lists PROVE ListsWellFormed
<1> SUFFICES ASSUME NEW K \in Kinds
             PROVE  /\ Walk(K)[Cardinality(K)] = NULL
                    /\ \A i, j \in DOMAIN Walk(K) :
                         Walk(K)[i] = Walk(K)[j] => i = j \/ Walk(K)[i] = NULL
                    /\ Reached(K) = {r \in K : given[r] # <<>>}
  BY DEF ListsWellFormed
<1>1. PICK s \in Seq(K) : IsList(K, s)
  BY DEF Lists
<1>2. Walk(K) = [i \in 0 .. Cardinality(K) |-> Nth(s, i + 1)]
  BY <1>1, WalkIs
<1>3. Len(s) <= Cardinality(K) /\ Cardinality(K) \in Nat /\ Len(s) \in Nat /\ DOMAIN s = 1 .. Len(s)
  BY <1>1, ListLength
<1>4. Walk(K)[Cardinality(K)] = NULL
  BY <1>2, <1>3 DEF Nth
<1>5. ASSUME NEW i \in DOMAIN Walk(K), NEW j \in DOMAIN Walk(K), Walk(K)[i] = Walk(K)[j]
      PROVE  i = j \/ Walk(K)[i] = NULL
  <2>1. i \in Nat /\ j \in Nat /\ Nth(s, i + 1) = Nth(s, j + 1) /\ Walk(K)[i] = Nth(s, i + 1)
    BY <1>2, <1>3, <1>5
  <2>2. CASE i + 1 \in DOMAIN s /\ j + 1 \in DOMAIN s
    BY <1>1, <2>1, <2>2 DEF Nth, IsList
  <2>3. CASE i + 1 \notin DOMAIN s \/ j + 1 \notin DOMAIN s
    BY <2>1, <2>3 DEF Nth
  <2> QED
    BY <2>2, <2>3
<1>6. Reached(K) = {r \in K : given[r] # <<>>}
  BY ReachedIs, KindsApart DEF Live
<1> QED
  BY <1>4, <1>5, <1>6

-----------------------------------------------------------------------------
\* Deletion, one record after the other and all at once

Without(slot, R) == [i \in DOMAIN slot |-> IF slot[i] \in R THEN NULL ELSE slot[i]]

\* The memory m when the records R are gone
Kept(e, R) ==
  [next |-> e.next, text |-> e.text, len |-> e.len, to_tag |-> e.to_tag,
   up |-> IF e.up \in R THEN NULL ELSE e.up, slot |-> Without(e.slot, R)]
After(m, R) == [x \in Rec |-> IF x \in R THEN Zero(x) ELSE Kept(m[x], R)]

Listed(m, r) == \A x \in Rec : m[x].up = r => x \in Entries(m[r].slot)

LEMMA SlotsIn ==
  ASSUME NEW m, MemTyped(m), NEW r \in Rec
  PROVE  /\ m[r] \in Memories
         /\ DOMAIN m[r].slot = Slots(r)
         /\ \A i \in Slots(r) : m[r].slot[i] \in Rec \cup {NULL}
         /\ Entries(m[r].slot) = {m[r].slot[i] : i \in Slots(r)} \ {NULL}
<1>1. m[r].slot \in [Slots(r) -> Rec \cup {NULL}] /\ m[r] \in Memories
  BY DEF MemTyped
<1> QED
  BY <1>1 DEF Entries

LEMMA NullNoRecord == NULL \notin Rec /\ NULL \notin ToTags
BY RecordsAssumption

\* A record is in the table of what it points at, and of nothing else.
LEMMA EntriesAre ==
  ASSUME NEW m, MemTyped(m), Above(m), Exact(m), NEW r \in Rec, Listed(m, r)
  PROVE  Entries(m[r].slot) = {x \in Rec : m[x].up = r}
<1>1. \A i \in Slots(r) : m[r].slot[i] # NULL => m[r].slot[i] \in Rec /\ m[m[r].slot[i]].up = r
  BY SlotsIn DEF Exact
<1> QED
  BY <1>1, SlotsIn DEF Listed

LEMMA SlotsRange ==
  ASSUME NEW r PROVE \E n \in Nat : Slots(r) = 1 .. n
BY RecordsAssumption DEF Slots

LEMMA RemovedIs ==
  ASSUME NEW m, MemTyped(m), Exact(m), NEW r \in Rec, NEW o \in Rec
  PROVE  Removed(m[o].slot, r) = Without(m[o].slot, {r})
<1> DEFINE slot == m[o].slot
<1>1. PICK n \in Nat : Slots(o) = 1 .. n
  BY SlotsRange
<1>2. DOMAIN slot = 1 .. n
  BY <1>1, SlotsIn
<1>3. \A i \in 1 .. n : slot[i] = r => \A j \in 1 .. n : slot[j] = r => j = i
  BY <1>1, NullNoRecord DEF Exact
<1>4. \A i \in 1 .. n : (slot[i] = r /\ \A j \in 1 .. i - 1 : slot[j] # r) <=> slot[i] \in {r}
  BY <1>3
<1> HIDE DEF slot
<1>5. Removed(slot, r) = Without(slot, {r})
  BY <1>2, <1>4 DEF Removed, Without
<1> QED
  BY <1>5 DEF slot

\* Two memories of a record are the same if their fields are.
LEMMA SameMemory ==
  ASSUME NEW a \in Memories, NEW b \in Memories,
         a.next = b.next, a.text = b.text, a.len = b.len, a.to_tag = b.to_tag,
         a.up = b.up, a.slot = b.slot
  PROVE  a = b
BY DEF Memories

LEMMA ZeroTyped ==
  ASSUME NEW r \in Rec
  PROVE  /\ Zero(r) \in Memories
         /\ Zero(r).next = NULL /\ Zero(r).up = NULL
         /\ Zero(r).slot \in [Slots(r) -> Rec \cup {NULL}]
         /\ \A i \in Slots(r) : Zero(r).slot[i] = NULL
<1>1. [i \in Slots(r) |-> NULL] \in Tables
  BY DEF Tables
<1>2. <<>> \in Texts /\ 0 \in Nat
  BY DEF Texts
<1> QED
  BY <1>1, <1>2 DEF Zero, Memories

LEMMA KeptTyped ==
  ASSUME NEW m, MemTyped(m), NEW r \in Rec, NEW R
  PROVE  /\ Kept(m[r], R) \in Memories
         /\ Kept(m[r], R).next = m[r].next
         /\ Kept(m[r], R).slot \in [Slots(r) -> Rec \cup {NULL}]
<1>1. m[r] \in Memories /\ DOMAIN m[r].slot = Slots(r) /\ \A i \in Slots(r) : m[r].slot[i] \in Rec \cup {NULL}
  BY SlotsIn
<1>2. Without(m[r].slot, R) \in [Slots(r) -> Rec \cup {NULL}]
  BY <1>1 DEF Without
<1>3. Without(m[r].slot, R) \in Tables
  BY <1>2 DEF Tables
<1>4. (IF m[r].up \in R THEN NULL ELSE m[r].up) \in Rec \cup {NULL}
  BY <1>1 DEF Memories
<1> QED
  BY <1>1, <1>2, <1>3, <1>4 DEF Kept, Memories

LEMMA AfterTyped ==
  ASSUME NEW m, MemTyped(m), NEW R
  PROVE  MemTyped(After(m, R))
<1>1. ASSUME NEW x \in Rec
      PROVE  /\ After(m, R)[x] \in Memories
             /\ After(m, R)[x].next \in KindOf(x) \cup {NULL}
             /\ After(m, R)[x].slot \in [Slots(x) -> Rec \cup {NULL}]
  <2>1. After(m, R)[x] = IF x \in R THEN Zero(x) ELSE Kept(m[x], R)
    BY DEF After
  <2>2. m[x].next \in KindOf(x) \cup {NULL}
    BY DEF MemTyped
  <2> QED
    BY <2>1, <2>2, ZeroTyped, KeptTyped
<1>2. After(m, R) \in [Rec -> Memories]
  BY <1>1 DEF After
<1> QED
  BY <1>1, <1>2 DEF MemTyped

LEMMA KeptSame ==
  ASSUME NEW m, MemTyped(m), NEW x \in Rec, NEW R, NULL \notin R,
         m[x].up \notin R, \A i \in Slots(x) : m[x].slot[i] \notin R
  PROVE  Kept(m[x], R) = m[x]
<1>1. m[x] \in Memories /\ DOMAIN m[x].slot = Slots(x) /\ m[x].slot \in [Slots(x) -> Rec \cup {NULL}]
  BY SlotsIn DEF MemTyped
<1>2. Without(m[x].slot, R) = m[x].slot
  BY <1>1 DEF Without
<1>3. Kept(m[x], R) \in Memories
  BY KeptTyped
<1> QED
  BY <1>1, <1>2, <1>3, SameMemory DEF Kept

LEMMA CleanupIs ==
  ASSUME NEW m, MemTyped(m), Above(m), Exact(m), NEW r \in Rec, Listed(m, r)
  PROVE  Cleanup(m, r) = After(m, {r})
<1> USE NullNoRecord
<1>1. Entries(m[r].slot) = {x \in Rec : m[x].up = r}
  BY EntriesAre
<1>2. ASSUME NEW x \in Rec
      PROVE  (IF x = r THEN Zero(r)
              ELSE IF x \in Entries(m[r].slot) THEN [m[x] EXCEPT !.up = NULL]
              ELSE IF x = m[r].up THEN [m[x] EXCEPT !.slot = Removed(@, r)]
              ELSE m[x]) = IF x \in {r} THEN Zero(x) ELSE Kept(m[x], {r})
  <2>0. m[x] \in Memories /\ Kept(m[x], {r}) \in Memories
    BY SlotsIn, KeptTyped
  <2>1. \A i \in Slots(x) : m[x].slot[i] = r => m[r].up = x
    BY DEF Exact
  <2>2. m[x].up = r => r \in Owners(x)
    BY DEF Above
  <2>3. m[r].up = x => x \in Owners(r)
    BY DEF Above
  <2>4. ~(r \in Owners(x) /\ x \in Owners(r))
    BY OwnersAbove
  <2>5. CASE x = r
    BY <2>5
  <2>6. CASE x # r /\ x \in Entries(m[r].slot)
    <3>1. m[x].up = r /\ \A i \in Slots(x) : m[x].slot[i] # r
      BY <1>1, <2>1, <2>2, <2>3, <2>4, <2>6
    <3>2. Without(m[x].slot, {r}) = m[x].slot
      <4>1. DOMAIN m[x].slot = Slots(x) /\ m[x].slot \in [Slots(x) -> Rec \cup {NULL}]
        BY SlotsIn DEF MemTyped
      <4> QED
        BY <3>1, <4>1 DEF Without
    <3>3. [m[x] EXCEPT !.up = NULL] \in Memories
      BY <2>0 DEF Memories
    <3>4. [m[x] EXCEPT !.up = NULL] = Kept(m[x], {r})
      BY <2>0, <3>1, <3>2, <3>3, SameMemory DEF Kept, Memories
    <3> QED
      BY <2>6, <3>4
  <2>7. CASE x # r /\ x \notin Entries(m[r].slot) /\ x = m[r].up
    <3>1. m[x].up # r
      BY <1>1, <2>7
    <3>2. Removed(m[x].slot, r) = Without(m[x].slot, {r})
      BY RemovedIs
    <3>3. Without(m[x].slot, {r}) \in Tables
      BY <2>0 DEF Kept, Memories
    <3>4. [m[x] EXCEPT !.slot = Removed(@, r)] = [m[x] EXCEPT !.slot = Without(m[x].slot, {r})]
      BY <3>2
    <3>5. [m[x] EXCEPT !.slot = Without(m[x].slot, {r})] \in Memories
      BY <2>0, <3>3 DEF Memories
    <3>6. [m[x] EXCEPT !.slot = Without(m[x].slot, {r})] = Kept(m[x], {r})
      BY <2>0, <3>1, <3>5, SameMemory DEF Kept, Memories
    <3> QED
      BY <2>7, <3>4, <3>6
  <2>8. CASE x # r /\ x \notin Entries(m[r].slot) /\ x # m[r].up
    <3>1. m[x].up \notin {r} /\ \A i \in Slots(x) : m[x].slot[i] \notin {r}
      BY <1>1, <2>1, <2>8
    <3>2. Kept(m[x], {r}) = m[x]
      BY <3>1, KeptSame
    <3> QED
      BY <2>8, <3>2
  <2> QED
    BY <2>5, <2>6, <2>7, <2>8
<1> QED
  BY <1>2 DEF Cleanup, After

LEMMA AfterFields ==
  ASSUME NEW m, MemTyped(m), NEW R, NEW x \in Rec
  PROVE  /\ After(m, R)[x].up = IF x \in R \/ m[x].up \in R THEN NULL ELSE m[x].up
         /\ \A i \in Slots(x) :
              After(m, R)[x].slot[i] = IF x \in R \/ m[x].slot[i] \in R THEN NULL ELSE m[x].slot[i]
<1>1. After(m, R)[x] = IF x \in R THEN Zero(x) ELSE Kept(m[x], R)
  BY DEF After
<1>2. DOMAIN m[x].slot = Slots(x)
  BY SlotsIn
<1>3. Zero(x).up = NULL /\ \A i \in Slots(x) : Zero(x).slot[i] = NULL
  BY ZeroTyped
<1>4. /\ Kept(m[x], R).up = IF m[x].up \in R THEN NULL ELSE m[x].up
      /\ \A i \in Slots(x) :
           Kept(m[x], R).slot[i] = IF m[x].slot[i] \in R THEN NULL ELSE m[x].slot[i]
  BY <1>2 DEF Kept, Without
<1> QED
  BY <1>1, <1>3, <1>4

\* In memory a the records R of memory m are gone.
Gone(m, a, R) ==
  \A x \in Rec : /\ a[x].up = IF x \in R \/ m[x].up \in R THEN NULL ELSE m[x].up
                 /\ \A i \in Slots(x) :
                      a[x].slot[i] = IF x \in R \/ m[x].slot[i] \in R THEN NULL ELSE m[x].slot[i]

LEMMA GoneLinks ==
  ASSUME NEW m, MemTyped(m), Above(m), Exact(m), NEW R, NULL \notin R,
         NEW a, MemTyped(a), Gone(m, a, R)
  PROVE  /\ Above(a) /\ Exact(a)
         /\ \A r \in Rec \ R : Listed(m, r) => Listed(a, r)
<1>0. \A x \in Rec : /\ a[x].up = IF x \in R \/ m[x].up \in R THEN NULL ELSE m[x].up
                     /\ \A i \in Slots(x) :
                          a[x].slot[i] = IF x \in R \/ m[x].slot[i] \in R THEN NULL ELSE m[x].slot[i]
  BY DEF Gone
<1>1. MemTyped(a)
  OBVIOUS
<1>2. Above(a)
  BY <1>0 DEF Above
<1>3. Exact(a)
  <2> SUFFICES ASSUME NEW o \in Rec, NEW i \in Slots(o), a[o].slot[i] # NULL
               PROVE  /\ a[a[o].slot[i]].up = o
                      /\ \A j \in Slots(o) : a[o].slot[i] = a[o].slot[j] => i = j
    BY DEF Exact
  <2>1. o \notin R /\ m[o].slot[i] \notin R /\ a[o].slot[i] = m[o].slot[i] /\ m[o].slot[i] # NULL
    BY <1>0
  <2>2. m[m[o].slot[i]].up = o /\ m[o].slot[i] \in Rec
    BY <2>1, SlotsIn DEF Exact
  <2>3. a[a[o].slot[i]].up = o
    BY <1>0, <2>1, <2>2
  <2>4. ASSUME NEW j \in Slots(o), a[o].slot[i] = a[o].slot[j] PROVE i = j
    <3>1. m[o].slot[j] = m[o].slot[i]
      BY <1>0, <2>1, <2>4
    <3> QED
      BY <2>1, <3>1 DEF Exact
  <2> QED
    BY <2>3, <2>4
<1>4. ASSUME NEW r \in Rec \ R, Listed(m, r), NEW x \in Rec, a[x].up = r
      PROVE  x \in Entries(a[r].slot)
  <2>1. x \notin R /\ m[x].up = r
    BY <1>0, <1>4, NullNoRecord
  <2>2. PICK i \in Slots(r) : m[r].slot[i] = x
    <3>1. x \in Entries(m[r].slot)
      BY <1>4, <2>1 DEF Listed
    <3>2. Entries(m[r].slot) = {m[r].slot[i] : i \in Slots(r)} \ {NULL}
      BY SlotsIn, ZenonT(30)
    <3> QED
      BY <3>1, <3>2
  <2>3. a[r].slot[i] = x
    BY <1>0, <2>1, <2>2
  <2>4. Entries(a[r].slot) = {a[r].slot[j] : j \in Slots(r)} \ {NULL}
    BY <1>1, SlotsIn
  <2> QED
    BY <2>3, <2>4, NullNoRecord
<1>5. \A r \in Rec \ R : Listed(m, r) => Listed(a, r)
  BY <1>4 DEF Listed
<1> QED
  BY <1>2, <1>3, <1>5

LEMMA AfterLinks ==
  ASSUME NEW m, MemTyped(m), Above(m), Exact(m), NEW R, NULL \notin R
  PROVE  /\ Above(After(m, R)) /\ Exact(After(m, R))
         /\ \A r \in Rec \ R : Listed(m, r) => Listed(After(m, R), r)
<1>1. MemTyped(After(m, R))
  BY AfterTyped
<1>2. Gone(m, After(m, R), R)
  BY AfterFields DEF Gone
<1> QED
  BY <1>1, <1>2, GoneLinks

LEMMA AfterAfter ==
  ASSUME NEW m, MemTyped(m), NEW R, NEW r \in Rec, NULL \notin R
  PROVE  After(After(m, R), {r}) = After(m, R \cup {r})
<1>1. MemTyped(After(m, R)) /\ r # NULL
  BY AfterTyped, NullNoRecord
<1>2. ASSUME NEW x \in Rec
      PROVE  (IF x \in {r} THEN Zero(x) ELSE Kept(After(m, R)[x], {r}))
               = IF x \in R \cup {r} THEN Zero(x) ELSE Kept(m[x], R \cup {r})
  <2>1. CASE x = r
    BY <2>1
  <2>2. CASE x # r /\ x \in R
    <3>1. After(m, R)[x] = Zero(x)
      BY <2>2 DEF After
    <3>2. After(m, R)[x].up = NULL /\ \A i \in Slots(x) : After(m, R)[x].slot[i] = NULL
      BY <3>1, ZeroTyped
    <3>3. NULL \notin {r}
      BY <1>1
    <3>4. Kept(After(m, R)[x], {r}) = After(m, R)[x]
      BY <1>1, <3>2, <3>3, KeptSame
    <3> QED
      BY <2>2, <3>1, <3>4
  <2>3. CASE x # r /\ x \notin R
    <3> DEFINE k == Kept(m[x], R)
    <3>1. After(m, R)[x] = k
      BY <2>3 DEF After
    <3>2. Kept(k, {r}) \in Memories
      BY <1>1, <3>1, KeptTyped
    <3>3. Kept(m[x], R \cup {r}) \in Memories
      BY KeptTyped
    <3>4. DOMAIN m[x].slot = Slots(x)
      BY SlotsIn
    <3>5. Without(Without(m[x].slot, R), {r}) = Without(m[x].slot, R \cup {r})
      BY <1>1, <3>4 DEF Without
    <3>6. Kept(k, {r}) = Kept(m[x], R \cup {r})
      BY <1>1, <3>2, <3>3, <3>5, SameMemory DEF Kept
    <3> QED
      BY <2>3, <3>1, <3>6
  <2> QED
    BY <2>1, <2>2, <2>3
<1>3. After(After(m, R), {r}) =
        [x \in Rec |-> IF x \in {r} THEN Zero(x) ELSE Kept(After(m, R)[x], {r})]
  BY DEF After
<1>4. After(m, R \cup {r}) = [x \in Rec |-> IF x \in R \cup {r} THEN Zero(x) ELSE Kept(m[x], R \cup {r})]
  BY DEF After
<1> QED
  BY <1>2, <1>3, <1>4

LEMMA AfterNothing ==
  ASSUME NEW m, MemTyped(m)
  PROVE  After(m, {}) = m
<1>1. \A x \in Rec : Kept(m[x], {}) = m[x]
  BY KeptSame
<1> QED
  BY <1>1 DEF After, MemTyped

\* What the recursive definition of CleanedUp says of a function f
IsCleaning(K, f) ==
  f = [i \in 0 .. Cardinality(K) |->
         IF i = 0 THEN mem
         ELSE LET current == Walk(K)[i - 1] IN
              IF current = NULL THEN f[i - 1] ELSE Cleanup(f[i - 1], current)]

\* The first i records of s
First(s, i) == {s[j] : j \in {k \in DOMAIN s : k <= i}}

LEMMA CleanedUpIs ==
  ASSUME NEW K \in Kinds, Lists, MemTyped(mem), Above(mem), Exact(mem),
         \A r \in K \cap Live : Listed(mem, r)
  PROVE  CleanedUp(K)[Cardinality(K)] = After(mem, K \cap Live)
<1>0. PICK s \in Seq(K) : IsList(K, s)
  BY DEF Lists
<1> DEFINE N == Cardinality(K)
           v == [i \in 0 .. N |-> After(mem, First(s, i))]
<1>1. Len(s) <= N /\ N \in Nat /\ Len(s) \in Nat /\ DOMAIN s = 1 .. Len(s)
  BY <1>0, ListLength
<1>2. Walk(K) = [i \in 0 .. N |-> Nth(s, i + 1)]
  BY <1>0, WalkIs
<1>3. \A i \in DOMAIN s : s[i] \in K /\ s[i] \in Rec /\ s[i] # NULL /\ s[i] \in Live
  BY <1>0, KindsApart, NullNoRecord DEF IsList
<1>4. \A i \in 0 .. N : NULL \notin First(s, i)
  BY <1>3 DEF First
<1>5. ASSUME NEW i \in 0 .. N, i # 0, i \in DOMAIN s
      PROVE  After(mem, First(s, i)) = Cleanup(After(mem, First(s, i - 1)), Walk(K)[i - 1])
  <2>1. i - 1 \in 0 .. N /\ Walk(K)[i - 1] = s[i]
    BY <1>1, <1>2, <1>5 DEF Nth
  <2>2. PICK r \in K \cap Live : r = s[i]
    BY <1>3, <1>5
  <2>3. r \in Rec /\ r \notin First(s, i - 1)
    BY <1>0, <1>1, <1>3, <1>5, <2>2 DEF First, IsList
  <2>4. First(s, i) = First(s, i - 1) \cup {r}
    BY <1>1, <1>5, <2>2 DEF First
  <2> DEFINE R == First(s, i - 1)
             a == After(mem, R)
  <2>5. NULL \notin R
    BY <1>4, <2>1
  <2> HIDE DEF R
  <2>6. MemTyped(a) /\ Above(a) /\ Exact(a) /\ Listed(a, r)
    <3>1. r \in Rec \ R
      BY <2>3 DEF R
    <3>2. Listed(mem, r)
      OBVIOUS
    <3> QED
      BY <2>5, <3>1, <3>2, AfterTyped, AfterLinks
  <2>7. Cleanup(a, r) = After(a, {r})
    <3> HIDE DEF a
    <3> QED
      BY <2>3, <2>6, CleanupIs
  <2>8. After(a, {r}) = After(mem, R \cup {r})
    BY <2>3, <2>5, AfterAfter
  <2> QED
    BY <2>1, <2>2, <2>4, <2>7, <2>8 DEF R
<1>6. ASSUME NEW i \in 0 .. N, i # 0, i \notin DOMAIN s
      PROVE  First(s, i) = First(s, i - 1) /\ Walk(K)[i - 1] = NULL
  <2>1. Walk(K)[i - 1] = NULL
    BY <1>1, <1>2, <1>6 DEF Nth
  <2>2. {k \in DOMAIN s : k <= i} = {k \in DOMAIN s : k <= i - 1}
    BY <1>1, <1>6
  <2> QED
    BY <2>1, <2>2 DEF First
<1>7. First(s, 0) = {} /\ First(s, N) = K \cap Live
  <2>1. First(s, 0) = {}
    BY <1>1 DEF First
  <2>2. \A r \in K \cap Live : \E i \in DOMAIN s : s[i] = r
    BY <1>0 DEF IsList
  <2>3. First(s, N) = {s[j] : j \in DOMAIN s}
    BY <1>1 DEF First
  <2> QED
    BY <1>3, <2>1, <2>2, <2>3
<1>8. IsCleaning(K, v)
  <2>1. v[0] = mem
    <3>1. v[0] = After(mem, First(s, 0))
      BY <1>1
    <3>2. After(mem, {}) = mem
      BY AfterNothing
    <3> QED
      BY <1>7, <3>1, <3>2
  <2>2. \A i \in 0 .. N : i # 0 => v[i - 1] = After(mem, First(s, i - 1))
    BY <1>1
  <2>3. \A i \in 0 .. N :
          After(mem, First(s, i)) =
            IF i = 0 THEN mem
            ELSE LET current == Walk(K)[i - 1] IN
                 IF current = NULL THEN v[i - 1] ELSE Cleanup(v[i - 1], current)
    <3> SUFFICES ASSUME NEW i \in 0 .. N
                 PROVE  After(mem, First(s, i)) =
                          IF i = 0 THEN mem
                          ELSE IF Walk(K)[i - 1] = NULL THEN v[i - 1]
                          ELSE Cleanup(v[i - 1], Walk(K)[i - 1])
      OBVIOUS
    <3>1. CASE i = 0
      BY <2>1, <3>1
    <3>2. CASE i # 0 /\ i \in DOMAIN s
      <4>1. Walk(K)[i - 1] # NULL
        BY <1>1, <1>2, <1>3, <3>2 DEF Nth
      <4> QED
        BY <1>5, <2>2, <3>2, <4>1
    <3>3. CASE i # 0 /\ i \notin DOMAIN s
      BY <1>6, <2>2, <3>3
    <3> QED
      BY <3>1, <3>2, <3>3
  <2> HIDE DEF First, After
  <2> QED
    BY <2>3 DEF IsCleaning
<1> HIDE DEF v
<1>9. CleanedUp(K) = CHOOSE f : IsCleaning(K, f)
  BY DEF CleanedUp, IsCleaning
<1>10. IsCleaning(K, CleanedUp(K))
  BY <1>8, <1>9, Zenon
<1> DEFINE S == {i \in 0 .. N : CleanedUp(K)[i] = v[i]}
<1>11. 0 \in S
  BY <1>1, <1>8, <1>10 DEF IsCleaning
<1>12. \A i \in 0 .. N : i \in S /\ i < N => i + 1 \in S
  <2> SUFFICES ASSUME NEW i \in 0 .. N, i \in S, i < N PROVE i + 1 \in S
    OBVIOUS
  <2>1. i + 1 \in 0 .. N /\ i + 1 # 0 /\ (i + 1) - 1 = i
    BY <1>1
  <2>2. /\ CleanedUp(K)[i + 1] = IF Walk(K)[i] = NULL THEN CleanedUp(K)[i]
                                 ELSE Cleanup(CleanedUp(K)[i], Walk(K)[i])
        /\ v[i + 1] = IF Walk(K)[i] = NULL THEN v[i] ELSE Cleanup(v[i], Walk(K)[i])
    BY <1>8, <1>10, <2>1 DEF IsCleaning
  <2>3. CleanedUp(K)[i] = v[i]
    OBVIOUS
  <2> QED
    BY <2>1, <2>2, <2>3
<1>13. \A i \in 0 .. N : i \in S
  <2> HIDE DEF S
  <2> QED
    BY <1>1, <1>11, <1>12, SetInduction
<1>14. CleanedUp(K)[N] = v[N]
  BY <1>1, <1>13
<1> QED
  BY <1>1, <1>7, <1>14 DEF v

-----------------------------------------------------------------------------
\* Steps: what becomes of the lists

LEMMA ListKept ==
  ASSUME NEW J \in Kinds, Lists, head'[J] = head[J],
         \A x \in J : (x \in Live' <=> x \in Live) /\ (x \in Live => mem'[x].next = mem[x].next)
  PROVE  \E s \in Seq(J) : IsList(J, s)'
<1>1. PICK s \in Seq(J) : IsList(J, s)
  BY DEF Lists
<1>2. \A i \in DOMAIN s : s[i] \in J /\ s[i] \in Live
  BY <1>1 DEF IsList
<1>3. IsList(J, s)'
  BY <1>1, <1>2 DEF IsList
<1> QED
  BY <1>3

LEMMA ListGrows ==
  ASSUME NEW K \in Kinds, Lists, NEW r \in K, r \notin Live,
         head'[K] = r, mem'[r].next = head[K],
         \A x \in K : (x \in Live' <=> x = r \/ x \in Live) /\ (x \in Live => mem'[x].next = mem[x].next)
  PROVE  \E s \in Seq(K) : IsList(K, s)'
<1>1. PICK s \in Seq(K) : IsList(K, s)
  BY DEF Lists
<1>2. PICK n \in Nat : n = Len(s) /\ DOMAIN s = 1 .. n
  OBVIOUS
<1>3. \A i \in 1 .. n : s[i] \in K /\ s[i] \in Live /\ s[i] # r
  BY <1>1, <1>2 DEF IsList
<1> DEFINE q == [k \in 1 .. n + 1 |-> IF k = 1 THEN r ELSE s[k - 1]]
<1>4. q \in Seq(K)
  BY <1>2, <1>3
<1>5. DOMAIN q = 1 .. n + 1 /\ q[1] = r /\ \A k \in 1 .. n : k + 1 \in 1 .. n + 1 /\ q[k + 1] = s[k]
  BY <1>2
<1>6. \A k \in 1 .. n + 1 : k = 1 \/ (k - 1 \in 1 .. n /\ q[k] = s[k - 1])
  BY <1>2
<1> HIDE DEF q
<1>7. \A i, j \in DOMAIN q : q[i] = q[j] => i = j
  <2> SUFFICES ASSUME NEW i \in 1 .. n + 1, NEW j \in 1 .. n + 1, q[i] = q[j] PROVE i = j
    BY <1>5
  <2>0. \A k \in 1 .. n + 1 : k = 1 \/ q[k] # r
    BY <1>3, <1>6
  <2>1. CASE i = 1 \/ j = 1
    BY <1>5, <2>0, <2>1
  <2>2. CASE i # 1 /\ j # 1
    <3>1. \A k, l \in 1 .. n : s[k] = s[l] => k = l
      BY <1>1, <1>2 DEF IsList
    <3>2. i - 1 \in 1 .. n /\ q[i] = s[i - 1] /\ j - 1 \in 1 .. n /\ q[j] = s[j - 1]
      BY <1>6, <2>2
    <3>3. i - 1 = j - 1
      BY <3>1, <3>2
    <3> QED
      BY <3>3
  <2> QED
    BY <2>1, <2>2
<1>8. \A x \in K : x \in Live' <=> \E i \in DOMAIN q : q[i] = x
  <2>1. ASSUME NEW x \in K, x \in Live' PROVE \E i \in DOMAIN q : q[i] = x
    <3>1. CASE x = r
      BY <1>2, <1>5, <3>1
    <3>2. CASE x \in Live
      <4>1. PICK i \in 1 .. n : s[i] = x
        BY <1>1, <1>2, <3>2 DEF IsList
      <4> QED
        BY <1>5, <4>1
    <3> QED
      BY <2>1, <3>1, <3>2
  <2>2. ASSUME NEW x \in K, NEW i \in DOMAIN q, q[i] = x PROVE x \in Live'
    BY <1>3, <1>5, <1>6, <2>2
  <2> QED
    BY <2>1, <2>2
<1>9. \A k \in 1 .. n : Nth(q, k + 1) = Nth(s, k)
  BY <1>2, <1>5 DEF Nth
<1>10. Nth(q, (n + 1) + 1) = NULL /\ Nth(s, n + 1) = NULL
  BY <1>2, <1>5 DEF Nth
<1>11. \A i \in DOMAIN q : mem'[q[i]].next = Nth(q, i + 1)
  <2> SUFFICES ASSUME NEW i \in 1 .. n + 1 PROVE mem'[q[i]].next = Nth(q, i + 1)
    BY <1>5
  <2>0. Nth(q, i + 1) = Nth(s, i)
    BY <1>9, <1>10
  <2>1. CASE i = 1
    BY <1>1, <1>5, <2>0, <2>1 DEF IsList
  <2>2. CASE i # 1
    <3>1. i - 1 \in 1 .. n /\ q[i] = s[i - 1] /\ (i - 1) + 1 = i
      BY <1>6, <2>2
    <3>2. mem'[s[i - 1]].next = mem[s[i - 1]].next
      BY <1>3, <3>1
    <3>3. mem[s[i - 1]].next = Nth(s, (i - 1) + 1)
      BY <1>1, <1>2, <3>1 DEF IsList
    <3> QED
      BY <2>0, <3>1, <3>2, <3>3
  <2> QED
    BY <2>1, <2>2
<1>12. head'[K] = Nth(q, 1)
  BY <1>2, <1>5 DEF Nth
<1>13. IsList(K, q)'
  BY <1>7, <1>8, <1>11, <1>12 DEF IsList
<1> QED
  BY <1>4, <1>13

LEMMA ListEmptied ==
  ASSUME NEW K \in Kinds, head'[K] = NULL, \A x \in K : x \notin Live'
  PROVE  \E s \in Seq(K) : IsList(K, s)'
<1> DEFINE s == <<>>
<1>1. s \in Seq(K) /\ DOMAIN s = {}
  OBVIOUS
<1> HIDE DEF s
<1>2. IsList(K, s)'
  BY <1>1 DEF IsList, Nth
<1> QED
  BY <1>1, <1>2

LEMMA ListShrinks ==
  ASSUME NEW K \in Kinds, Lists, NEW r \in K, r \in Live,
         head'[K] = IF head[K] = r THEN mem[r].next ELSE head[K],
         \A x \in K : /\ x \in Live' <=> x \in Live /\ x # r
                      /\ x \in Live' => mem'[x].next = IF mem[x].next = r THEN mem[r].next ELSE mem[x].next
  PROVE  \E s \in Seq(K) : IsList(K, s)'
<1>1. PICK s \in Seq(K) : IsList(K, s)
  BY DEF Lists
<1>2. PICK n \in Nat : n = Len(s) /\ DOMAIN s = 1 .. n
  OBVIOUS
<1>3. \A k \in 1 .. n : s[k] \in K /\ s[k] \in Live /\ s[k] # NULL
  BY <1>1, <1>2, KindsApart, NullNoRecord DEF IsList
<1>4. PICK i \in 1 .. n : s[i] = r
  BY <1>1, <1>2 DEF IsList
<1>5. \A k \in 1 .. n : s[k] = r => k = i
  BY <1>1, <1>2, <1>4 DEF IsList
<1> DEFINE q == [k \in 1 .. n - 1 |-> IF k < i THEN s[k] ELSE s[k + 1]]
<1>6. q \in Seq(K)
  <2>1. \A k \in 1 .. n - 1 : q[k] \in K
    BY <1>3
  <2>2. n - 1 \in Nat
    BY <1>4
  <2> QED
    BY <2>1, <2>2
<1>7. /\ DOMAIN q = 1 .. n - 1
      /\ \A k \in 1 .. n - 1 : /\ k < i => q[k] = s[k] /\ k \in 1 .. n
                               /\ ~(k < i) => q[k] = s[k + 1] /\ k + 1 \in 1 .. n
  OBVIOUS
<1> HIDE DEF q
<1>8. \A a, b \in DOMAIN q : q[a] = q[b] => a = b
  <2> SUFFICES ASSUME NEW a \in 1 .. n - 1, NEW b \in 1 .. n - 1, q[a] = q[b] PROVE a = b
    BY <1>7
  <2>0. \A k, l \in 1 .. n : s[k] = s[l] => k = l
    BY <1>1, <1>2 DEF IsList
  <2>1. CASE a < i /\ b < i
    BY <1>7, <2>0, <2>1
  <2>2. CASE ~(a < i) /\ ~(b < i)
    <3>1. a + 1 = b + 1
      BY <1>7, <2>0, <2>2
    <3> QED
      BY <3>1
  <2>3. CASE a < i /\ ~(b < i)
    <3>1. a = b + 1
      BY <1>7, <2>0, <2>3
    <3> QED
      BY <2>3, <3>1
  <2>4. CASE ~(a < i) /\ b < i
    <3>1. a + 1 = b
      BY <1>7, <2>0, <2>4, SMTT(20)
    <3> QED
      BY <2>4, <3>1
  <2> QED
    BY <2>1, <2>2, <2>3, <2>4
<1>9. \A k \in 1 .. n - 1 : q[k] \in K /\ q[k] \in Live /\ q[k] # r
  <2> SUFFICES ASSUME NEW k \in 1 .. n - 1 PROVE q[k] \in K /\ q[k] \in Live /\ q[k] # r
    OBVIOUS
  <2>1. CASE k < i
    BY <1>3, <1>5, <1>7, <2>1
  <2>2. CASE ~(k < i)
    <3>1. q[k] = s[k + 1] /\ k + 1 \in 1 .. n /\ k + 1 # i
      BY <1>7, <2>2
    <3> QED
      BY <1>3, <1>5, <3>1
  <2> QED
    BY <2>1, <2>2
<1>10. \A x \in K : x \in Live' <=> \E k \in DOMAIN q : q[k] = x
  <2>1. ASSUME NEW x \in K, x \in Live' PROVE \E k \in DOMAIN q : q[k] = x
    <3>1. PICK k \in 1 .. n : s[k] = x /\ k # i
      BY <1>1, <1>2, <1>4, <2>1 DEF IsList
    <3>2. CASE k < i
      <4>1. k \in 1 .. n - 1 /\ q[k] = x
        BY <1>7, <3>1, <3>2
      <4> QED
        BY <1>7, <4>1
    <3>3. CASE ~(k < i)
      <4>1. k - 1 \in 1 .. n - 1 /\ ~(k - 1 < i) /\ (k - 1) + 1 = k
        BY <3>1, <3>3
      <4>2. q[k - 1] = s[(k - 1) + 1]
        BY <1>7, <4>1
      <4> QED
        BY <1>7, <3>1, <4>1, <4>2
    <3> QED
      BY <3>2, <3>3
  <2>2. ASSUME NEW x \in K, NEW k \in DOMAIN q, q[k] = x PROVE x \in Live'
    BY <1>7, <1>9, <2>2
  <2> QED
    BY <2>1, <2>2
<1>11. \A k \in 1 .. n : mem[s[k]].next = Nth(s, k + 1)
  BY <1>1, <1>2 DEF IsList
<1>12. \A k \in 1 .. n : k < i => Nth(q, k) = s[k]
  BY <1>7 DEF Nth
<1>13. \A k \in Nat : ~(k < i) => Nth(q, k) = Nth(s, k + 1)
  BY <1>2, <1>7 DEF Nth
<1>14. \A k \in 1 .. n : Nth(s, k + 1) = r => k + 1 = i
  BY <1>2, <1>4, <1>3, <1>5 DEF Nth
<1>15. mem[r].next = Nth(q, i)
  BY <1>4, <1>11, <1>13
<1>16. \A k \in DOMAIN q : mem'[q[k]].next = Nth(q, k + 1)
  <2> SUFFICES ASSUME NEW k \in 1 .. n - 1 PROVE mem'[q[k]].next = Nth(q, k + 1)
    BY <1>7
  <2>0. mem'[q[k]].next = IF mem[q[k]].next = r THEN mem[r].next ELSE mem[q[k]].next
    BY <1>9
  <2>1. CASE k + 1 < i
    <3>1. q[k] = s[k] /\ k \in 1 .. n /\ k + 1 \in 1 .. n
      BY <1>7, <2>1
    <3>2. mem[q[k]].next = s[k + 1] /\ s[k + 1] # r
      BY <1>2, <1>5, <1>11, <2>1, <3>1 DEF Nth
    <3> QED
      BY <1>12, <2>0, <2>1, <3>1, <3>2
  <2>2. CASE k + 1 = i
    <3>1. q[k] = s[k] /\ k \in 1 .. n
      BY <1>7, <2>2
    <3>2. mem[q[k]].next = r
      BY <1>2, <1>4, <1>11, <2>2, <3>1 DEF Nth
    <3> QED
      BY <1>15, <2>0, <2>2, <3>2
  <2>3. CASE ~(k < i)
    <3>1. q[k] = s[k + 1] /\ k + 1 \in 1 .. n /\ k + 1 # i
      BY <1>7, <2>3
    <3>2. mem[q[k]].next = Nth(s, (k + 1) + 1)
      BY <1>11, <3>1
    <3>3. Nth(s, (k + 1) + 1) # r
      <4>1. Nth(s, (k + 1) + 1) = r => (k + 1) + 1 = i
        BY <1>14, <3>1
      <4> QED
        BY <2>3, <4>1
    <3>4. Nth(q, k + 1) = Nth(s, (k + 1) + 1)
      BY <1>13, <2>3
    <3> QED
      BY <2>0, <3>2, <3>3, <3>4
  <2> QED
    BY <2>1, <2>2, <2>3
<1>17. head'[K] = Nth(q, 1)
  <2>0. head[K] = s[1] /\ 1 \in 1 .. n
    BY <1>1, <1>2, <1>4 DEF IsList, Nth
  <2>1. CASE i = 1
    BY <1>4, <1>15, <2>0, <2>1
  <2>2. CASE i # 1
    <3>1. s[1] # r /\ 1 < i
      BY <1>5, <2>0, <2>2
    <3> QED
      BY <1>12, <2>0, <3>1
  <2> QED
    BY <2>1, <2>2
<1>18. IsList(K, q)'
  BY <1>8, <1>10, <1>16, <1>17 DEF IsList
<1> QED
  BY <1>6, <1>18

-----------------------------------------------------------------------------
\* Steps that drop records

Drops(R) ==
  /\ R \subseteq Live
  /\ \A r \in R : Listed(mem, r)
  /\ given' = [x \in Rec |-> IF x \in R THEN <<>> ELSE given[x]]
  /\ MemTyped(mem')
  /\ Gone(mem, mem', R)
  /\ \A x \in Rec \ R : /\ mem'[x].text = mem[x].text /\ mem'[x].len = mem[x].len
                        /\ mem'[x].to_tag = mem[x].to_tag

LEMMA DropsLive ==
  ASSUME NEW R, Drops(R)
  PROVE  /\ \A x \in Rec : x \in Live' <=> x \in Live /\ x \notin R
         /\ \A x \in Rec \ R : given'[x] = given[x]
         /\ NULL \notin R
BY NullNoRecord DEF Drops, Live

LEMMA DropsKeepLinks ==
  ASSUME Typed, Links, NEW R, Drops(R)
  PROVE  Links'
<1>1. /\ MemTyped(mem) /\ Above(mem) /\ Exact(mem) /\ NULL \notin R
      /\ MemTyped(mem') /\ Gone(mem, mem', R)
  BY DropsLive DEF Typed, Links, Drops
<1>2. Above(mem') /\ Exact(mem')
  BY <1>1, GoneLinks
<1>3. \A r \in Rec : mem'[r].up # NULL =>
        r \notin R /\ mem[r].up # NULL /\ mem[r].up \notin R /\ mem'[r].up = mem[r].up
  BY <1>1 DEF Gone
<1>4. \A r \in Rec : mem'[r].up # NULL => r \in Live' /\ mem'[r].up \in Live'
  BY <1>3, DropsLive DEF Links, Live
<1> QED
  BY <1>2, <1>4 DEF Links, Above, Exact

LEMMA DropsKeepNamed ==
  ASSUME Named, NEW R, Drops(R)
  PROVE  Named'
<1>1. \A x \in Live' : x \in Rec /\ x \in Live /\ x \notin R
  BY DropsLive DEF Live
<1>2. \A x \in Rec \ R : given'[x] = given[x]
  BY DropsLive
<1>3. \A x \in Rec \ R : /\ mem'[x].text = mem[x].text /\ mem'[x].len = mem[x].len
                         /\ mem'[x].to_tag = mem[x].to_tag
  BY DEF Drops
<1> QED
  BY <1>1, <1>2, <1>3 DEF Named

LEMMA UnlinkedIs ==
  ASSUME Typed, NEW r \in Rec
  PROVE  /\ MemTyped(Unlinked(r))
         /\ \A x \in Rec :
              /\ Unlinked(r)[x].next = IF mem[x].next = r THEN mem[r].next ELSE mem[x].next
              /\ Unlinked(r)[x].text = mem[x].text
              /\ Unlinked(r)[x].len = mem[x].len
              /\ Unlinked(r)[x].to_tag = mem[x].to_tag
              /\ Unlinked(r)[x].up = mem[x].up
              /\ Unlinked(r)[x].slot = mem[x].slot
<1>1. \A x \in Rec : mem[x] \in Memories
  BY SlotsIn DEF Typed
<1>2. \A x \in Rec : mem[x].next \in KindOf(x) \cup {NULL}
  BY DEF Typed, MemTyped
<1>3. ASSUME NEW x \in Rec, mem[x].next = r PROVE mem[r].next \in KindOf(x) \cup {NULL}
  <2>1. KindOf(r) = KindOf(x)
    BY <1>2, <1>3, KindIs, NullNoRecord
  <2> QED
    BY <1>2, <2>1
<1>4. ASSUME NEW x \in Rec
      PROVE  /\ Unlinked(r)[x].next = IF mem[x].next = r THEN mem[r].next ELSE mem[x].next
             /\ Unlinked(r)[x].text = mem[x].text
             /\ Unlinked(r)[x].len = mem[x].len
             /\ Unlinked(r)[x].to_tag = mem[x].to_tag
             /\ Unlinked(r)[x].up = mem[x].up
             /\ Unlinked(r)[x].slot = mem[x].slot
             /\ Unlinked(r)[x] \in Memories
  <2>1. mem[r].next \in Rec \cup {NULL}
    BY <1>1 DEF Memories
  <2>2. CASE mem[x].next = r
    <3>1. Unlinked(r)[x] = [mem[x] EXCEPT !.next = mem[r].next]
      BY <2>2 DEF Unlinked
    <3> QED
      BY <1>1, <2>1, <2>2, <3>1 DEF Memories
  <2>3. CASE mem[x].next # r
    <3>1. Unlinked(r)[x] = mem[x]
      BY <2>3 DEF Unlinked
    <3> QED
      BY <1>1, <2>3, <3>1
  <2> QED
    BY <2>2, <2>3
<1>5. Unlinked(r) \in [Rec -> Memories]
  BY <1>4 DEF Unlinked
<1>6. \A x \in Rec : mem[x].slot \in [Slots(x) -> Rec \cup {NULL}]
  BY DEF Typed, MemTyped
<1>7. MemTyped(Unlinked(r))
  BY <1>2, <1>3, <1>4, <1>5, <1>6 DEF MemTyped
<1> QED
  BY <1>4, <1>7

LEMMA DeleteStep ==
  ASSUME RecInv, NEW K \in Kinds, NEW r, Delete(K, r)
  PROVE  Drops({r}) /\ Lists' /\ Typed' /\ r \in K
<1>1. r \in K /\ r \in Live /\ r \in Rec
  BY ReachedIs, KindsApart DEF Delete, RecInv
<1>2. Listed(mem, r)
  BY <1>1 DEF Delete, AllListed, Listed
<1> DEFINE u == Unlinked(r)
<1>3. /\ MemTyped(u)
      /\ \A x \in Rec :
              /\ u[x].next = IF mem[x].next = r THEN mem[r].next ELSE mem[x].next
              /\ u[x].text = mem[x].text
              /\ u[x].len = mem[x].len
              /\ u[x].to_tag = mem[x].to_tag
              /\ u[x].up = mem[x].up
              /\ u[x].slot = mem[x].slot
  BY <1>1, UnlinkedIs DEF RecInv
<1>4. mem' = Cleanup(u, r)
  BY DEF Delete
<1> HIDE DEF u
<1>5. Above(u) /\ Exact(u) /\ Listed(u, r)
  <2>1. Above(u)
    BY <1>3 DEF RecInv, Links, Above
  <2>2. Exact(u)
    <3>1. ASSUME NEW o \in Rec, NEW i \in Slots(o), u[o].slot[i] # NULL
          PROVE  /\ u[u[o].slot[i]].up = o
                 /\ \A j \in Slots(o) : u[o].slot[i] = u[o].slot[j] => i = j
      <4>1. u[o].slot = mem[o].slot /\ mem[o].slot[i] # NULL /\ mem[o].slot[i] \in Rec
        BY <1>3, <3>1, SlotsIn DEF RecInv, Typed
      <4> QED
        BY <1>3, <4>1 DEF RecInv, Links, Exact
    <3> QED
      BY <3>1 DEF Exact
  <2>3. Listed(u, r)
    BY <1>1, <1>2, <1>3 DEF Listed
  <2> QED
    BY <2>1, <2>2, <2>3
<1>6. mem' = After(u, {r})
  BY <1>1, <1>3, <1>4, <1>5, CleanupIs
<1>7. MemTyped(After(u, {r}))
  BY <1>3, AfterTyped
<1>8. ASSUME NEW x \in Rec
      PROVE  /\ After(u, {r})[x].up = IF x \in {r} \/ mem[x].up \in {r} THEN NULL ELSE mem[x].up
             /\ \A i \in Slots(x) : After(u, {r})[x].slot[i] =
                  IF x \in {r} \/ mem[x].slot[i] \in {r} THEN NULL ELSE mem[x].slot[i]
             /\ x # r => /\ After(u, {r})[x].next = u[x].next
                         /\ After(u, {r})[x].text = mem[x].text
                         /\ After(u, {r})[x].len = mem[x].len
                         /\ After(u, {r})[x].to_tag = mem[x].to_tag
  <2>1. /\ After(u, {r})[x].up = IF x \in {r} \/ mem[x].up \in {r} THEN NULL ELSE mem[x].up
        /\ \A i \in Slots(x) : After(u, {r})[x].slot[i] =
             IF x \in {r} \/ mem[x].slot[i] \in {r} THEN NULL ELSE mem[x].slot[i]
    BY <1>3, AfterFields
  <2>2. x # r => After(u, {r})[x] = Kept(u[x], {r})
    BY DEF After
  <2>3. x # r => /\ After(u, {r})[x].next = u[x].next
                 /\ After(u, {r})[x].text = mem[x].text
                 /\ After(u, {r})[x].len = mem[x].len
                 /\ After(u, {r})[x].to_tag = mem[x].to_tag
    BY <1>3, <2>2 DEF Kept
  <2> QED
    BY <2>1, <2>3
<1>9. MemTyped(mem') /\ Gone(mem, mem', {r})
  BY <1>6, <1>7, <1>8 DEF Gone
<1>10. given' = [x \in Rec |-> IF x \in {r} THEN <<>> ELSE given[x]]
  BY <1>1 DEF Delete, RecInv, Typed
<1>11. \A x \in Rec \ {r} : /\ mem'[x].text = mem[x].text /\ mem'[x].len = mem[x].len
                            /\ mem'[x].to_tag = mem[x].to_tag
                            /\ mem'[x].next = u[x].next
  BY <1>6, <1>8
<1>12. Drops({r})
  BY <1>1, <1>2, <1>9, <1>10, <1>11 DEF Drops
<1>13. head' = [head EXCEPT ![K] = IF head[K] = r THEN mem[r].next ELSE head[K]]
  BY DEF Delete
<1>14. Typed'
  <2>1. mem[r].next \in K \cup {NULL}
    BY <1>1, KindIs DEF RecInv, Typed, MemTyped
  <2>2. head' \in [Kinds -> Rec \cup {NULL}] /\ \A J \in Kinds : head'[J] \in J \cup {NULL}
    BY <1>13, <2>1, KindsApart DEF RecInv, Typed
  <2>3. given' = [x \in Rec |-> given'[x]]
    BY <1>10
  <2> QED
    BY <1>9, <2>2, <2>3 DEF Typed, MemTyped
<1>15. ASSUME NEW J \in Kinds PROVE \E s \in Seq(J) : IsList(J, s)'
  <2>1. \A x \in Rec : x \in Live' <=> x \in Live /\ x # r
    BY <1>12, DropsLive
  <2>2. CASE J = K
    <3>1. head'[K] = IF head[K] = r THEN mem[r].next ELSE head[K]
      BY <1>13 DEF RecInv, Typed
    <3>2. \A x \in K : /\ x \in Live' <=> x \in Live /\ x # r
                       /\ x \in Live' => mem'[x].next = IF mem[x].next = r THEN mem[r].next ELSE mem[x].next
      BY <1>3, <1>11, <2>1, KindsApart
    <3> QED
      BY <1>1, <2>2, <3>1, <3>2, ListShrinks DEF RecInv
  <2>3. CASE J # K
    <3>1. head'[J] = head[J]
      BY <1>13, <2>3 DEF RecInv, Typed
    <3>2. ASSUME NEW x \in J
          PROVE  (x \in Live' <=> x \in Live) /\ (x \in Live => mem'[x].next = mem[x].next)
      <4>1. x \in Rec /\ x # r /\ r \notin J /\ KindOf(x) = J
        BY <1>1, <2>3, KindsApart, KindIs
      <4>2. mem[x].next # r
        BY <1>1, <4>1, NullNoRecord DEF RecInv, Typed, MemTyped
      <4> QED
        BY <1>3, <1>11, <2>1, <4>1, <4>2
    <3> QED
      BY <3>1, <3>2, ListKept DEF RecInv
  <2> QED
    BY <2>2, <2>3
<1>16. Lists'
  BY <1>15 DEF Lists
<1> QED
  BY <1>1, <1>12, <1>14, <1>16

LEMMA DeleteAllStep ==
  ASSUME RecInv, NEW K \in Kinds, DeleteAll(K)
  PROVE  Drops(K \cap Live) /\ Lists' /\ Typed'
<1> DEFINE R == K \cap Live
<1>1. K \subseteq Rec /\ R \subseteq Rec /\ R \subseteq Live /\ NULL \notin R
  BY KindsApart, NullNoRecord
<1>2. \A r \in R : Listed(mem, r)
  BY ReachedIs DEF DeleteAll, AllListed, Listed, RecInv
<1>3. MemTyped(mem) /\ Above(mem) /\ Exact(mem)
  BY DEF RecInv, Typed, Links
<1>4. CleanedUp(K)[Cardinality(K)] = After(mem, R)
  BY <1>2, <1>3, CleanedUpIs DEF RecInv
<1>5. mem' = After(mem, R)
  BY <1>4 DEF DeleteAll
<1> HIDE DEF R
<1>6. MemTyped(After(mem, R)) /\ Gone(mem, After(mem, R), R)
  BY <1>3, AfterTyped, AfterFields DEF Gone
<1>7. MemTyped(mem') /\ Gone(mem, mem', R)
  BY <1>5, <1>6
<1>8. given' = [x \in Rec |-> IF x \in R THEN <<>> ELSE given[x]]
  <2>1. \A x \in Rec : (IF x \in K THEN <<>> ELSE given[x]) = IF x \in R THEN <<>> ELSE given[x]
    BY DEF R, Live
  <2> QED
    BY <2>1 DEF DeleteAll
<1>9. \A x \in Rec \ R : /\ mem'[x].text = mem[x].text /\ mem'[x].len = mem[x].len
                         /\ mem'[x].to_tag = mem[x].to_tag
                         /\ mem'[x].next = mem[x].next
  <2> TAKE x \in Rec \ R
  <2>1. mem'[x] = Kept(mem[x], R)
    BY <1>5 DEF After
  <2> DEFINE e == mem[x]
  <2>2. /\ Kept(e, R).text = e.text /\ Kept(e, R).len = e.len
        /\ Kept(e, R).to_tag = e.to_tag /\ Kept(e, R).next = e.next
    BY DEF Kept
  <2> QED
    BY <2>1, <2>2
<1>10. Drops(R)
  BY <1>1, <1>2, <1>7, <1>8, <1>9 DEF Drops
<1>11. head' = [head EXCEPT ![K] = NULL]
  BY DEF DeleteAll
<1>12. Typed'
  <2>1. head' \in [Kinds -> Rec \cup {NULL}] /\ \A J \in Kinds : head'[J] \in J \cup {NULL}
    BY <1>11 DEF RecInv, Typed
  <2>2. given' = [x \in Rec |-> given'[x]]
    BY <1>8
  <2> QED
    BY <1>7, <2>1, <2>2 DEF Typed, MemTyped
<1>13. ASSUME NEW J \in Kinds PROVE \E s \in Seq(J) : IsList(J, s)'
  <2>1. \A x \in Rec : x \in Live' <=> x \in Live /\ x \notin R
    BY <1>10, DropsLive
  <2>2. CASE J = K
    <3>1. head'[K] = NULL
      BY <1>11 DEF RecInv, Typed
    <3>2. \A x \in K : x \notin Live'
      BY <1>1, <2>1 DEF R
    <3> QED
      BY <2>2, <3>1, <3>2, ListEmptied
  <2>3. CASE J # K
    <3>1. head'[J] = head[J]
      BY <1>11, <2>3 DEF RecInv, Typed
    <3>2. ASSUME NEW x \in J
          PROVE  (x \in Live' <=> x \in Live) /\ (x \in Live => mem'[x].next = mem[x].next)
      <4>1. x \in Rec /\ x \notin R
        BY <2>3, KindsApart DEF R
      <4> QED
        BY <1>9, <2>1, <4>1
    <3> QED
      BY <3>1, <3>2, ListKept DEF RecInv
  <2> QED
    BY <2>2, <2>3
<1>14. Lists'
  BY <1>13 DEF Lists
<1> QED
  BY <1>10, <1>12, <1>14 DEF R

-----------------------------------------------------------------------------
\* Names

LEMMA NamesAre ==
  ASSUME NEW K \in Kinds, NEW n \in Names[K]
  PROVE  /\ n # <<>> /\ n \in Seq({n[i] : i \in DOMAIN n}) /\ Len(n) \in Nat
         /\ DOMAIN n = 1 .. Len(n)
         /\ Cut(n) \in Texts
BY RecordsAssumption DEF Texts

LEMMA CutIs ==
  ASSUME NEW K \in Kinds, NEW n \in Names[K]
  PROVE  /\ Len(Cut(n)) = IF Len(n) < MaxName THEN Len(n) ELSE MaxName
         /\ \A i \in 1 .. Len(Cut(n)) : Cut(n)[i] = n[i]
         /\ Cut(n) = [i \in 1 .. Len(Cut(n)) |-> Cut(n)[i]]
<1> DEFINE S == {n[i] : i \in DOMAIN n}
           k == IF Len(n) < MaxName THEN Len(n) ELSE MaxName
<1>1. n \in Seq(S) /\ Len(n) \in Nat /\ MaxName \in Nat
  BY NamesAre, RecordsAssumption
<1>2. k \in Nat /\ k <= Len(n)
  BY <1>1
<1>3. \A i \in 1 .. k : n[i] \in S
  BY <1>1, <1>2
<1>4. Cut(n) = SubSeq(n, 1, k)
  BY DEF Cut
<1> HIDE DEF S, k
<1>5. /\ SubSeq(n, 1, k) \in Seq(S)
      /\ Len(SubSeq(n, 1, k)) = IF 1 <= k THEN k - 1 + 1 ELSE 0
      /\ \A i \in 1 .. k - 1 + 1 : SubSeq(n, 1, k)[i] = n[1 + i - 1]
  BY <1>2, <1>3, SubSeqProperties
<1>6. Len(Cut(n)) = k
  BY <1>2, <1>4, <1>5
<1>7. \A i \in 1 .. k : Cut(n)[i] = n[i]
  BY <1>2, <1>4, <1>5
<1>8. Cut(n) = [i \in 1 .. Len(Cut(n)) |-> Cut(n)[i]]
  BY <1>4, <1>5
<1> QED
  BY <1>6, <1>7, <1>8 DEF k

\* A whole name is found only where it was stored whole.
LEMMA MatchesMessage ==
  ASSUME Named, NEW t \in Txn, t \in Live, NEW n \in Names[Txn]
  PROVE  Matches(t, InMessage(n, NULL)) <=> given[t] = n /\ Fits(n)
<1> DEFINE g == given[t]
<1>1. KindOf(t) = Txn /\ Txn \in Kinds
  BY KindIs, KindsApart DEF Rec
<1>2. g \in Names[Txn] /\ mem[t].text = Cut(g) /\ mem[t].len = Len(g) /\ mem[t].to_tag = NULL
  BY <1>1 DEF Named, Rec
<1>3. PICK k \in Nat : k = Len(g) /\ DOMAIN g = 1 .. k /\ g \in Seq({g[i] : i \in DOMAIN g}) /\ k # 0
  <2>1. g # <<>> /\ g \in Seq({g[i] : i \in DOMAIN g}) /\ Len(g) \in Nat /\ DOMAIN g = 1 .. Len(g)
    BY <1>1, <1>2, NamesAre
  <2> HIDE DEF g
  <2>2. Len(g) # 0
    BY <2>1
  <2> QED
    BY <2>1, <2>2
<1>4. PICK l \in Nat : l = Len(n) /\ DOMAIN n = 1 .. l /\ n \in Seq({n[i] : i \in DOMAIN n})
  BY <1>1, NamesAre
<1>5. PICK c \in Nat : c = Len(Cut(g)) /\ c = (IF k < MaxName THEN k ELSE MaxName)
  <2>1. Len(Cut(g)) = IF Len(g) < MaxName THEN Len(g) ELSE MaxName
    BY <1>1, <1>2, CutIs
  <2>2. MaxName \in Nat
    BY RecordsAssumption
  <2> QED
    BY <1>3, <2>1, <2>2
<1>6. \A i \in 1 .. c : Cut(g)[i] = g[i]
  BY <1>1, <1>2, <1>5, CutIs
<1>7. Matches(t, InMessage(n, NULL)) <=>
        /\ k = l
        /\ \A i \in 1 .. l : \/ i <= c /\ i <= l /\ Cut(g)[i] = n[i]
                             \/ i > c /\ i > l
  BY <1>2, <1>3, <1>4, <1>5 DEF Matches, InMessage
<1>8. MaxName \in Nat
  BY RecordsAssumption
<1> HIDE DEF g
<1>9. ASSUME g = n, Fits(n)
      PROVE  Matches(t, InMessage(n, NULL))
  <2>1. k = l /\ c = l
    BY <1>3, <1>4, <1>5, <1>8, <1>9 DEF Fits
  <2> QED
    BY <1>6, <1>7, <1>9, <2>1
<1>10. ASSUME Matches(t, InMessage(n, NULL))
       PROVE  g = n /\ Fits(n)
  <2>1. k = l /\ \A i \in 1 .. l : i <= c /\ Cut(g)[i] = n[i]
    BY <1>7, <1>10
  <2>2. l <= c
    <3>1. l \in 1 .. l
      BY <1>3, <1>4, <2>1
    <3> QED
      BY <2>1, <3>1
  <2>3. l <= MaxName
    BY <1>5, <1>8, <2>2
  <2>4. \A i \in 1 .. l : g[i] = n[i]
    BY <1>6, <2>1, <2>2
  <2>5. g = n
    BY <1>3, <1>4, <2>1, <2>4
  <2> QED
    BY <1>4, <2>3, <2>5 DEF Fits
<1> QED
  BY <1>9, <1>10 DEF g

\* The event of a transaction asks for its stored text and length.
LEMMA MatchesEvent ==
  ASSUME Named, NEW t \in Txn, t \in Live, NEW e \in Txn, e \in Live
  PROVE  Matches(e, InEvent(t)) <=> Cut(given[e]) = Cut(given[t]) /\ Len(given[e]) = Len(given[t])
<1> DEFINE g == given[t]
           h == given[e]
<1>1. KindOf(t) = Txn /\ KindOf(e) = Txn /\ Txn \in Kinds
  BY KindIs, KindsApart DEF Rec
<1>2. /\ g \in Names[Txn] /\ mem[t].text = Cut(g) /\ mem[t].len = Len(g) /\ mem[t].to_tag = NULL
      /\ h \in Names[Txn] /\ mem[e].text = Cut(h) /\ mem[e].len = Len(h) /\ mem[e].to_tag = NULL
  BY <1>1 DEF Named, Rec
<1>3. PICK k \in Nat : k = Len(g)
  BY <1>1, <1>2, NamesAre
<1>4. PICK l \in Nat : l = Len(h)
  BY <1>1, <1>2, NamesAre
<1>5. MaxName \in Nat
  BY RecordsAssumption
<1> HIDE DEF g, h
<1>6. PICK c \in Nat : /\ c = Len(Cut(g)) /\ c = (IF k < MaxName THEN k ELSE MaxName)
                       /\ Cut(g) = [i \in 1 .. c |-> Cut(g)[i]]
  BY <1>1, <1>2, <1>3, <1>5, CutIs
<1>7. PICK d \in Nat : /\ d = Len(Cut(h)) /\ d = (IF l < MaxName THEN l ELSE MaxName)
                       /\ Cut(h) = [i \in 1 .. d |-> Cut(h)[i]]
  BY <1>1, <1>2, <1>4, <1>5, CutIs
<1>8. Matches(e, InEvent(t)) <=>
        /\ l = k
        /\ \A i \in 1 .. k : \/ i <= d /\ i <= c /\ Cut(h)[i] = Cut(g)[i]
                             \/ i > d /\ i > c
  BY <1>2, <1>3, <1>4, <1>6, <1>7 DEF Matches, InEvent
<1>9. ASSUME Matches(e, InEvent(t)) PROVE l = k /\ Cut(h) = Cut(g)
  <2>1. l = k /\ d = c /\ c <= k
    BY <1>5, <1>6, <1>7, <1>8, <1>9
  <2>2. \A i \in 1 .. c : Cut(h)[i] = Cut(g)[i]
    BY <1>8, <1>9, <2>1
  <2> QED
    BY <1>6, <1>7, <2>1, <2>2
<1>10. ASSUME l = k, Cut(h) = Cut(g) PROVE Matches(e, InEvent(t))
  BY <1>6, <1>7, <1>8, <1>10
<1> QED
  BY <1>3, <1>4, <1>9, <1>10 DEF g, h

\* A search finds a live record that matches, if there is one.
LEMMA FindIs ==
  ASSUME NEW K \in Kinds, Lists, NEW n
  PROVE  /\ Find(K, n) = NULL => \A r \in K \cap Live : ~Matches(r, n)
         /\ Find(K, n) # NULL => Find(K, n) \in K \cap Live /\ Matches(Find(K, n), n)
<1> DEFINE w == Walk(K)
           hits == {i \in DOMAIN w : w[i] # NULL /\ Matches(w[i], n)}
<1>1. DOMAIN w = 0 .. Cardinality(K)
  <2>1. PICK s \in Seq(K) : IsList(K, s)
    BY DEF Lists
  <2>2. Walk(K) = [i \in 0 .. Cardinality(K) |-> Nth(s, i + 1)]
    BY <2>1, WalkIs
  <2> QED
    BY <2>2
<1>2. {w[i] : i \in DOMAIN w} \ {NULL} = K \cap Live
  BY <1>1, ReachedIs DEF Reached
<1>3. Find(K, n) = IF hits = {} THEN NULL ELSE w[CHOOSE i \in hits : \A j \in hits : i <= j]
  BY DEF Find
<1>4. hits \subseteq Nat
  BY <1>1
<1> HIDE DEF w
<1>5. CASE hits = {}
  <2>1. \A r \in K \cap Live : ~Matches(r, n)
    BY <1>2, <1>5
  <2> QED
    BY <1>3, <1>5, <2>1
<1>6. CASE hits # {}
  <2>1. \E i \in hits : \A j \in hits : i <= j
    <3> HIDE DEF hits
    <3> QED
      BY <1>4, <1>6, LeastNatural
  <2>2. PICK i \in hits : i = CHOOSE k \in hits : \A j \in hits : k <= j
    <3> HIDE DEF hits
    <3> QED
      BY <2>1
  <2>3. Find(K, n) = w[i]
    BY <1>3, <1>6, <2>2
  <2>4. i \in DOMAIN w /\ w[i] # NULL /\ Matches(w[i], n)
    BY <2>2
  <2>5. w[i] \in K \cap Live
    BY <1>2, <2>4
  <2> QED
    BY <2>3, <2>4, <2>5
<1> QED
  BY <1>5, <1>6

LEMMA NamesAreFound ==
  ASSUME RecInv PROVE NamesFound
<1>1. Lists /\ Named /\ Reached(Txn) = Txn \cap Live /\ Txn \in Kinds
  BY ReachedIs, KindsApart DEF RecInv
<1> SUFFICES ASSUME NEW t \in Txn \cap Live
             PROVE  /\ Find(Txn, InMessage(given[t], NULL)) = IF Fits(given[t]) THEN t ELSE NULL
                    /\ Find(Txn, InEvent(t)) # NULL
                    /\ Cut(given[Find(Txn, InEvent(t))]) = Cut(given[t])
                    /\ Len(given[Find(Txn, InEvent(t))]) = Len(given[t])
                    /\ Fits(given[t]) => Find(Txn, InEvent(t)) = t
  BY <1>1 DEF NamesFound
<1>2. \A u \in Txn \cap Live : u \in Rec /\ KindOf(u) = Txn /\ given[u] \in Names[Txn] /\ u # NULL
  BY <1>1, KindIs, KindsApart, NullNoRecord DEF Named
<1>3. PICK f : f = Find(Txn, InMessage(given[t], NULL))
  OBVIOUS
<1>4. f = IF Fits(given[t]) THEN t ELSE NULL
  <2>1. Matches(t, InMessage(given[t], NULL)) <=> Fits(given[t])
    BY <1>1, <1>2, MatchesMessage
  <2>2. CASE f = NULL
    BY <1>1, <1>2, <1>3, <2>1, <2>2, FindIs
  <2>3. CASE f # NULL
    <3>1. f \in Txn \cap Live /\ Matches(f, InMessage(given[t], NULL))
      BY <1>1, <1>3, <2>3, FindIs
    <3>2. given[f] = given[t] /\ Fits(given[t])
      BY <1>1, <1>2, <3>1, MatchesMessage
    <3>3. f = t
      BY <1>1, <3>1, <3>2 DEF Named
    <3> QED
      BY <3>2, <3>3
  <2> QED
    BY <2>2, <2>3
<1>5. PICK e : e = Find(Txn, InEvent(t))
  OBVIOUS
<1>6. e \in Txn \cap Live /\ Matches(e, InEvent(t))
  <2>1. Matches(t, InEvent(t))
    BY <1>1, MatchesEvent
  <2>2. e # NULL
    BY <1>1, <1>5, <2>1, FindIs
  <2> QED
    BY <1>1, <1>5, <2>2, FindIs
<1>7. Cut(given[e]) = Cut(given[t]) /\ Len(given[e]) = Len(given[t])
  BY <1>1, <1>6, MatchesEvent
<1>8. ASSUME Fits(given[t]) PROVE e = t
  <2> DEFINE g == given[t]
             h == given[e]
  <2>1. g \in Names[Txn] /\ h \in Names[Txn] /\ Cut(g) = Cut(h) /\ Len(h) = Len(g)
    BY <1>2, <1>6, <1>7
  <2>2. Len(g) \in Nat /\ MaxName \in Nat /\ Len(g) <= MaxName
    BY <1>1, <1>8, <2>1, NamesAre, RecordsAssumption DEF Fits
  <2> HIDE DEF g, h
  <2>3. Len(Cut(g)) = Len(g) /\ Len(Cut(h)) = Len(g)
    BY <1>1, <2>1, <2>2, CutIs
  <2>4. \A i \in 1 .. Len(g) : g[i] = h[i]
    BY <1>1, <2>1, <2>3, CutIs
  <2>5. /\ DOMAIN g = 1 .. Len(g) /\ g \in Seq({g[i] : i \in DOMAIN g})
        /\ DOMAIN h = 1 .. Len(g) /\ h \in Seq({h[i] : i \in DOMAIN h})
    BY <1>1, <2>1, NamesAre
  <2>6. g = h
    <3>1. g = [i \in 1 .. Len(g) |-> g[i]] /\ h = [i \in 1 .. Len(g) |-> h[i]]
      BY <2>5
    <3> QED
      BY <2>4, <3>1
  <2>7. given[e] = given[t] /\ Fits(given[e])
    BY <1>8, <2>6 DEF g, h
  <2> QED
    BY <1>1, <1>6, <2>7 DEF Named
<1> QED
  BY <1>2, <1>3, <1>4, <1>5, <1>6, <1>7, <1>8

-----------------------------------------------------------------------------
\* Steps that create or link records

LEMMA StoreIs ==
  ASSUME NEW K \in Kinds, NEW r \in K, NEW n \in Names[K], NEW tag \in ToTags \cup {NULL}, Typed
  PROVE  /\ Store(r, n, tag) \in Memories
         /\ Store(r, n, tag).next = head[K]
         /\ Store(r, n, tag).text = Cut(n)
         /\ Store(r, n, tag).len = Len(n)
         /\ Store(r, n, tag).to_tag = tag
         /\ Store(r, n, tag).up = NULL
         /\ Store(r, n, tag).slot = [i \in Slots(r) |-> NULL]
<1>1. r \in Rec /\ KindOf(r) = K
  BY KindsApart, KindIs
<1>2. head[K] \in Rec \cup {NULL} /\ Cut(n) \in Texts /\ Len(n) \in Nat
  BY NamesAre DEF Typed
<1>3. [i \in Slots(r) |-> NULL] \in Tables
  BY <1>1 DEF Tables
<1>4. PICK z \in Memories : /\ z = Zero(r) /\ z.up = NULL
                          /\ z.slot = [i \in Slots(r) |-> NULL]
  BY <1>1, ZeroTyped DEF Zero
<1>5. PICK h, t, l : h = head[K] /\ t = Cut(n) /\ l = Len(n)
  OBVIOUS
<1> DEFINE a == [z EXCEPT !.next = h]
           b == [a EXCEPT !.text = t]
           c == [b EXCEPT !.len = l]
           d == [c EXCEPT !.to_tag = tag]
<1>6. Store(r, n, tag) = d
  BY <1>1, <1>4, <1>5 DEF Store
<1>7. /\ a \in Memories /\ a.up = z.up /\ a.slot = z.slot /\ a.next = h
  BY <1>2, <1>5 DEF Memories
<1> HIDE DEF a
<1>8. /\ b \in Memories /\ b.up = a.up /\ b.slot = a.slot /\ b.next = a.next /\ b.text = t
  BY <1>2, <1>5, <1>7 DEF Memories
<1> HIDE DEF b
<1>9. /\ c \in Memories /\ c.up = b.up /\ c.slot = b.slot /\ c.next = b.next
      /\ c.text = b.text /\ c.len = l
  BY <1>2, <1>5, <1>8 DEF Memories
<1> HIDE DEF c
<1>10. /\ d \in Memories /\ d.up = c.up /\ d.slot = c.slot /\ d.next = c.next
       /\ d.text = c.text /\ d.len = c.len /\ d.to_tag = tag
  BY <1>9 DEF Memories
<1> HIDE DEF d
<1> QED
  BY <1>4, <1>5, <1>6, <1>7, <1>8, <1>9, <1>10

LEMMA NotLive ==
  ASSUME Typed, Links, NEW r \in Rec, r \notin Live
  PROVE  /\ mem[r].up = NULL
         /\ \A i \in Slots(r) : mem[r].slot[i] = NULL
         /\ \A x \in Rec : mem[x].up # r /\ \A i \in Slots(x) : mem[x].slot[i] # r
<1>1. \A x \in Rec : mem[x].up # NULL => x \in Live /\ mem[x].up \in Live
  BY DEF Links
<1>2. \A x \in Rec : \A i \in Slots(x) : mem[x].slot[i] # NULL =>
        mem[x].slot[i] \in Rec /\ mem[mem[x].slot[i]].up = x
  BY SlotsIn DEF Links, Exact, Typed
<1> QED
  BY <1>1, <1>2, NullNoRecord

LEMMA CreateStep ==
  ASSUME RecInv, NEW K \in Kinds, NEW n \in Names[K], NEW tag \in ToTags \cup {NULL},
         Create(K, n, tag),
         K = Txn => tag = NULL /\ Find(Txn, InMessage(n, NULL)) = NULL
  PROVE  /\ RecInv'
         /\ \E r \in K \ Live :
              /\ \A x \in Rec : x \in Live' <=> x = r \/ x \in Live
              /\ \A x \in Rec : /\ mem'[x].up = mem[x].up
                                /\ \A i \in Slots(x) : mem'[x].slot[i] = mem[x].slot[i]
<1>0. Typed /\ Lists /\ Links /\ Named
  BY DEF RecInv
<1>1. PICK r \in K \ Live : /\ mem' = [mem EXCEPT ![r] = Store(r, n, tag)]
                            /\ head' = [head EXCEPT ![K] = r]
                            /\ given' = [given EXCEPT ![r] = n]
  BY <1>0, ReachedIs DEF Create
<1>2. r \in Rec /\ KindOf(r) = K /\ r # NULL
  BY KindsApart, KindIs, NullNoRecord
<1>3. n # <<>>
  BY NamesAre
<1>4. /\ mem \in [Rec -> Memories] /\ head \in [Kinds -> Rec \cup {NULL}]
      /\ given = [x \in Rec |-> given[x]]
  BY <1>0 DEF Typed, MemTyped
<1>5. \A x \in Rec : mem'[x] = IF x = r THEN Store(r, n, tag) ELSE mem[x]
  BY <1>1, <1>4
<1>6. \A x \in Rec : given'[x] = IF x = r THEN n ELSE given[x]
  BY <1>1, <1>4
<1>7. \A x \in Rec : x \in Live' <=> x = r \/ x \in Live
  BY <1>3, <1>6 DEF Live
<1>8. /\ mem'[r].next = head[K]
      /\ mem'[r].text = Cut(n)
      /\ mem'[r].len = Len(n)
      /\ mem'[r].to_tag = tag
      /\ mem'[r].up = NULL
      /\ mem'[r].slot = [i \in Slots(r) |-> NULL]
      /\ mem'[r] \in Memories
  BY <1>0, <1>2, <1>5, StoreIs
<1>9. /\ mem[r].up = NULL
      /\ \A i \in Slots(r) : mem[r].slot[i] = NULL
      /\ \A x \in Rec : mem[x].up # r /\ \A i \in Slots(x) : mem[x].slot[i] # r
  BY <1>0, <1>2, NotLive
<1>10. \A x \in Rec : /\ mem'[x].up = mem[x].up
                      /\ \A i \in Slots(x) : mem'[x].slot[i] = mem[x].slot[i]
  BY <1>5, <1>8, <1>9
<1>11. Typed'
  <2>1. mem' \in [Rec -> Memories]
    BY <1>1, <1>4, <1>5, <1>8
  <2>2. \A x \in Rec : /\ mem'[x].next \in KindOf(x) \cup {NULL}
                       /\ mem'[x].slot \in [Slots(x) -> Rec \cup {NULL}]
    BY <1>0, <1>2, <1>5, <1>8 DEF Typed, MemTyped
  <2>3. head' \in [Kinds -> Rec \cup {NULL}] /\ \A J \in Kinds : head'[J] \in J \cup {NULL}
    BY <1>0, <1>1, <1>2, <1>4 DEF Typed
  <2>4. given' = [x \in Rec |-> given'[x]]
    BY <1>1, <1>4
  <2> QED
    BY <2>1, <2>2, <2>3, <2>4 DEF Typed, MemTyped
<1>12. Lists'
  <2> SUFFICES ASSUME NEW J \in Kinds PROVE \E s \in Seq(J) : IsList(J, s)'
    BY DEF Lists
  <2>1. CASE J = K
    <3>1. head'[K] = r /\ mem'[r].next = head[K]
      BY <1>1, <1>4, <1>8
    <3>2. \A x \in K : (x \in Live' <=> x = r \/ x \in Live) /\ (x \in Live => mem'[x].next = mem[x].next)
      BY <1>5, <1>7, KindsApart
    <3> QED
      BY <1>0, <1>1, <2>1, <3>1, <3>2, ListGrows
  <2>2. CASE J # K
    <3>1. head'[J] = head[J]
      BY <1>1, <1>4, <2>2
    <3>2. \A x \in J : (x \in Live' <=> x \in Live) /\ (x \in Live => mem'[x].next = mem[x].next)
      <4>1. \A x \in J : x \in Rec /\ x # r
        BY <1>1, <2>2, KindsApart
      <4> QED
        BY <1>5, <1>7, <4>1
    <3> QED
      BY <1>0, <3>1, <3>2, ListKept
  <2> QED
    BY <2>1, <2>2
<1>13. Links'
  <2>1. Above(mem)'
    BY <1>0, <1>10 DEF Links, Above
  <2>2. Exact(mem)'
    <3> SUFFICES ASSUME NEW o \in Rec, NEW i \in Slots(o), mem'[o].slot[i] # NULL
                 PROVE  /\ mem'[mem'[o].slot[i]].up = o
                        /\ \A j \in Slots(o) : mem'[o].slot[i] = mem'[o].slot[j] => i = j
      BY DEF Exact
    <3>1. mem'[o].slot[i] = mem[o].slot[i] /\ mem[o].slot[i] \in Rec
      BY <1>0, <1>10, SlotsIn DEF Typed
    <3>2. /\ mem[mem[o].slot[i]].up = o
          /\ \A j \in Slots(o) : mem[o].slot[i] = mem[o].slot[j] => i = j
      BY <1>0, <3>1 DEF Links, Exact
    <3> QED
      BY <1>10, <3>1, <3>2
  <2>3. \A x \in Rec : mem'[x].up # NULL => x \in Live' /\ mem'[x].up \in Live'
    <3>1. \A x \in Live : x \in Live'
      BY <1>7 DEF Live
    <3> QED
      BY <1>0, <1>10, <3>1 DEF Links
  <2> QED
    BY <2>1, <2>2, <2>3 DEF Links
<1>14. Named'
  <2>1. ASSUME NEW x \in Live'
        PROVE  /\ given'[x] \in Names[KindOf(x)]
               /\ mem'[x].text = Cut(given'[x])
               /\ mem'[x].len = Len(given'[x])
               /\ x \in Txn => mem'[x].to_tag = NULL
    <3>1. x \in Rec
      BY DEF Live
    <3>2. CASE x = r
      <4>1. r \in Txn => tag = NULL
        BY KindsApart, KindIs, <1>2
      <4> QED
        BY <1>2, <1>6, <1>8, <3>2, <4>1
    <3>3. CASE x # r
      BY <1>0, <1>5, <1>6, <1>7, <3>1, <3>3 DEF Named
    <3> QED
      BY <3>2, <3>3
  <2>2. ASSUME NEW t \in Txn, t \in Live, K = Txn, Fits(n)
        PROVE  given[t] # n
    <3>1. ~Matches(t, InMessage(n, NULL))
      BY <1>0, <2>2, FindIs
    <3> QED
      BY <1>0, <2>2, <3>1, MatchesMessage
  <2>3. ASSUME NEW t \in Txn, NEW u \in Txn, t \in Live', u \in Live',
               given'[t] = given'[u], Fits(given'[t])
        PROVE  t = u
    <3>1. t \in Rec /\ u \in Rec /\ (r \in Txn => K = Txn)
      BY <1>2, KindsApart, KindIs
    <3>2. CASE t = r /\ u # r
      BY <1>6, <1>7, <2>2, <2>3, <3>1, <3>2
    <3>3. CASE t # r /\ u = r
      BY <1>6, <1>7, <2>2, <2>3, <3>1, <3>3
    <3>4. CASE t # r /\ u # r
      BY <1>0, <1>6, <1>7, <2>3, <3>1, <3>4 DEF Named
    <3> QED
      BY <3>2, <3>3, <3>4
  <2> QED
    BY <2>1, <2>3 DEF Named
<1> QED
  BY <1>7, <1>10, <1>11, <1>12, <1>13, <1>14 DEF RecInv

\* The slot that add_*_to_* takes
FirstFree(slot, i) == slot[i] = NULL /\ \A j \in 1 .. i - 1 : slot[j] # NULL

LEMMA FirstFreeOnce ==
  ASSUME NEW slot, NEW n \in Nat, NEW i \in 1 .. n, NEW j \in 1 .. n,
         FirstFree(slot, i), FirstFree(slot, j)
  PROVE  i = j
<1>1. ~(i < j) /\ ~(j < i)
  BY DEF FirstFree
<1> QED
  BY <1>1

LEMMA SetOwnerStep ==
  ASSUME RecInv, NEW r \in Rec, NEW o \in Owners(r), SetOwner(r, o)
  PROVE  /\ RecInv'
         /\ r \in Live /\ o \in Live /\ r # o /\ o \in Rec
         /\ UNCHANGED given
         /\ \A x \in Rec : mem'[x].up = IF x = r THEN o ELSE mem[x].up
         /\ \A x \in Rec \ {o} : mem'[x].slot = mem[x].slot
         /\ mem'[o].slot = Added(mem[o].slot, r)
<1>0. Typed /\ Lists /\ Links /\ Named
  BY DEF RecInv
<1>1. o \in Rec /\ r # o /\ r # NULL /\ o # NULL
  BY OwnersAbove, NullNoRecord
<1>2. r \in Live /\ o \in Live
  BY <1>0, <1>1, ReachedIs, KindIs DEF SetOwner
<1>3. mem[r].up \in {NULL, o} /\ UNCHANGED <<head, given>>
  BY DEF SetOwner
<1> DEFINE slot == mem[o].slot
           added == Added(slot, r)
           m == [mem EXCEPT ![r].up = o]
<1>4. mem' = [m EXCEPT ![o].slot = added]
  <2>1. mem' = [mem EXCEPT ![r].up = o, ![o].slot = Added(@, r)]
    BY DEF SetOwner
  <2>2. m[o] = mem[o]
    BY <1>0, <1>1 DEF Typed, MemTyped
  <2> QED
    BY <2>1, <2>2
<1>5. mem \in [Rec -> Memories]
  BY <1>0 DEF Typed, MemTyped
<1>6. m \in [Rec -> Memories] /\ m[r] = [mem[r] EXCEPT !.up = o] /\ \A x \in Rec \ {r} : m[x] = mem[x]
  BY <1>1, <1>5 DEF Memories
<1>7. PICK n \in Nat : Slots(o) = 1 .. n
  BY SlotsRange
<1>8. slot \in [Slots(o) -> Rec \cup {NULL}]
  BY <1>0, <1>1 DEF Typed, MemTyped
<1>9. /\ added \in [Slots(o) -> Rec \cup {NULL}]
      /\ \A i \in Slots(o) :
           added[i] = IF r \notin Entries(slot) /\ FirstFree(slot, i) THEN r ELSE slot[i]
  <2> HIDE DEF slot
  <2> QED
    BY <1>8 DEF Added, FirstFree
<1>10. added \in Tables
  BY <1>1, <1>9 DEF Tables
<1> HIDE DEF m, added
<1>11. /\ mem' \in [Rec -> Memories] /\ mem'[o] = [m[o] EXCEPT !.slot = added]
       /\ \A x \in Rec \ {o} : mem'[x] = m[x]
  BY <1>1, <1>4, <1>6, <1>10 DEF Memories
<1>12. \A x \in Rec :
         /\ mem'[x].next = mem[x].next /\ mem'[x].text = mem[x].text
         /\ mem'[x].len = mem[x].len /\ mem'[x].to_tag = mem[x].to_tag
         /\ mem'[x].up = IF x = r THEN o ELSE mem[x].up
         /\ mem'[x].slot = IF x = o THEN added ELSE mem[x].slot
  <2>1. mem[r] \in Memories /\ m[o] \in Memories
    BY <1>1, <1>5, <1>6
  <2>2. /\ m[r].next = mem[r].next /\ m[r].text = mem[r].text /\ m[r].len = mem[r].len
        /\ m[r].to_tag = mem[r].to_tag /\ m[r].up = o /\ m[r].slot = mem[r].slot
    BY <1>6, <2>1 DEF Memories
  <2>3. /\ mem'[o].next = m[o].next /\ mem'[o].text = m[o].text /\ mem'[o].len = m[o].len
        /\ mem'[o].to_tag = m[o].to_tag /\ mem'[o].up = m[o].up /\ mem'[o].slot = added
    BY <1>11, <2>1 DEF Memories
  <2> TAKE x \in Rec
  <2>4. CASE x = r
    <3>1. mem'[x] = m[r] /\ x # o
      BY <1>1, <1>11, <2>4
    <3> QED
      BY <2>2, <2>4, <3>1
  <2>5. CASE x = o
    <3>1. m[o] = mem[o] /\ x # r
      BY <1>1, <1>6, <2>5
    <3> QED
      BY <2>3, <2>5, <3>1
  <2>6. CASE x # r /\ x # o
    <3>1. mem'[x] = mem[x]
      BY <1>6, <1>11, <2>6
    <3> QED
      BY <2>6, <3>1
  <2> QED
    BY <2>4, <2>5, <2>6
<1>13. \A x \in Rec : x \in Live' <=> x \in Live
  BY <1>3 DEF Live
<1>14. Typed'
  <2>1. \A x \in Rec : mem[x].next \in KindOf(x) \cup {NULL} /\ mem[x].slot \in [Slots(x) -> Rec \cup {NULL}]
    BY <1>0 DEF Typed, MemTyped
  <2>2. \A x \in Rec : mem'[x].next \in KindOf(x) \cup {NULL} /\ mem'[x].slot \in [Slots(x) -> Rec \cup {NULL}]
    BY <1>9, <1>12, <2>1
  <2> QED
    BY <1>0, <1>3, <1>11, <2>2 DEF Typed, MemTyped
<1>15. Lists'
  <2> SUFFICES ASSUME NEW J \in Kinds PROVE \E s \in Seq(J) : IsList(J, s)'
    BY DEF Lists
  <2>1. \A x \in J : (x \in Live' <=> x \in Live) /\ (x \in Live => mem'[x].next = mem[x].next)
    BY <1>12, <1>13, KindsApart
  <2> QED
    BY <1>0, <1>3, <2>1, ListKept
<1>16. \A x \in Rec : \A i \in Slots(x) : mem[x].slot[i] # NULL =>
         mem[x].slot[i] \in Rec /\ mem[mem[x].slot[i]].up = x
  BY <1>0, SlotsIn DEF Links, Exact, Typed
<1>17. Links'
  <2>1. Above(mem)'
    BY <1>0, <1>12 DEF Links, Above
  <2>2. Exact(mem)'
    <3>1. ASSUME NEW i \in Slots(o), mem'[o].slot[i] # NULL
          PROVE  /\ mem'[mem'[o].slot[i]].up = o
                 /\ \A j \in Slots(o) : mem'[o].slot[i] = mem'[o].slot[j] => i = j
      <4>0. \A j \in Slots(o) : mem'[o].slot[j] = IF r \notin Entries(slot) /\ FirstFree(slot, j) THEN r ELSE slot[j]
        BY <1>1, <1>9, <1>12
      <4>1. \A j \in Slots(o) : slot[j] = r => r \in Entries(slot)
        <5> HIDE DEF slot
        <5> QED
          BY <1>1, <1>8 DEF Entries
      <4>2. CASE r \notin Entries(slot) /\ FirstFree(slot, i)
        <5>1. mem'[o].slot[i] = r /\ mem'[r].up = o
          BY <1>12, <4>0, <4>2
        <5>2. ASSUME NEW j \in Slots(o), mem'[o].slot[j] = r PROVE i = j
          <6>1. FirstFree(slot, j)
            BY <4>0, <4>1, <4>2, <5>2
          <6> HIDE DEF slot
          <6> QED
            BY <1>7, <4>2, <6>1, FirstFreeOnce
        <5> QED
          BY <5>1, <5>2
      <4>3. CASE ~(r \notin Entries(slot) /\ FirstFree(slot, i))
        <5>1. mem'[o].slot[i] = slot[i] /\ slot[i] # NULL
          BY <3>1, <4>0, <4>3
        <5>2. slot[i] \in Rec /\ mem[slot[i]].up = o
          BY <1>1, <1>16, <5>1
        <5>3. mem'[slot[i]].up = o
          BY <1>12, <5>2
        <5>4. ASSUME NEW j \in Slots(o), mem'[o].slot[j] = slot[i] PROVE i = j
          <6>1. CASE r \notin Entries(slot) /\ FirstFree(slot, j)
            BY <4>0, <4>1, <5>4, <6>1
          <6>2. CASE ~(r \notin Entries(slot) /\ FirstFree(slot, j))
            <7>1. slot[j] = slot[i]
              BY <4>0, <5>4, <6>2
            <7> QED
              BY <1>0, <1>1, <5>1, <7>1 DEF Links, Exact
          <6> QED
            BY <6>1, <6>2
        <5> QED
          BY <5>1, <5>3, <5>4
      <4> QED
        BY <4>2, <4>3
    <3>2. ASSUME NEW x \in Rec, x # o, NEW i \in Slots(x), mem'[x].slot[i] # NULL
          PROVE  /\ mem'[mem'[x].slot[i]].up = x
                 /\ \A j \in Slots(x) : mem'[x].slot[i] = mem'[x].slot[j] => i = j
      <4>1. mem'[x].slot = mem[x].slot /\ x # NULL
        BY <1>12, <3>2, NullNoRecord
      <4>2. mem[x].slot[i] \in Rec /\ mem[mem[x].slot[i]].up = x
        BY <1>16, <3>2, <4>1
      <4>3. mem[x].slot[i] # r
        BY <1>3, <3>2, <4>1, <4>2
      <4>4. \A j \in Slots(x) : mem[x].slot[i] = mem[x].slot[j] => i = j
        BY <1>0, <3>2, <4>1 DEF Links, Exact
      <4> QED
        BY <1>12, <4>1, <4>2, <4>3, <4>4
    <3> QED
      BY <3>1, <3>2 DEF Exact
  <2>3. \A x \in Rec : mem'[x].up # NULL => x \in Live' /\ mem'[x].up \in Live'
    <3>1. \A x \in Live : x \in Live'
      BY <1>13 DEF Live
    <3> QED
      BY <1>0, <1>2, <1>12, <3>1 DEF Links
  <2> QED
    BY <2>1, <2>2, <2>3 DEF Links
<1>18. Named'
  <2>1. \A x \in Live' : x \in Rec /\ x \in Live
    BY <1>13 DEF Live
  <2> QED
    BY <1>0, <1>3, <1>12, <2>1 DEF Named
<1> QED
  BY <1>1, <1>2, <1>3, <1>12, <1>14, <1>15, <1>17, <1>18 DEF RecInv, added

-----------------------------------------------------------------------------
\* The invariant

LEMMA InitInv == Init => RecInv
<1> SUFFICES ASSUME Init PROVE RecInv
  OBVIOUS
<1>1. /\ head = [K \in Kinds |-> NULL]
      /\ mem = [r \in Rec |-> Zero(r)]
      /\ given = [r \in Rec |-> <<>>]
  BY DEF Init
<1>2. Live = {}
  BY <1>1 DEF Live
<1>3. \A r \in Rec : /\ mem[r] \in Memories /\ mem[r].next = NULL /\ mem[r].up = NULL
                     /\ mem[r].slot \in [Slots(r) -> Rec \cup {NULL}]
                     /\ \A i \in Slots(r) : mem[r].slot[i] = NULL
  BY <1>1, ZeroTyped
<1>4. Typed
  <2>1. mem \in [Rec -> Memories]
    BY <1>1, <1>3
  <2> QED
    BY <1>1, <1>3, <2>1 DEF Typed, MemTyped
<1>5. Lists
  <2> SUFFICES ASSUME NEW K \in Kinds PROVE \E s \in Seq(K) : IsList(K, s)
    BY DEF Lists
  <2> DEFINE s == <<>>
  <2>1. s \in Seq(K) /\ DOMAIN s = {}
    OBVIOUS
  <2> HIDE DEF s
  <2>2. IsList(K, s)
    BY <1>1, <1>2, <2>1 DEF IsList, Nth
  <2> QED
    BY <2>1, <2>2
<1>6. Links
  BY <1>3 DEF Links, Above, Exact
<1>7. Named
  BY <1>2 DEF Named
<1> QED
  BY <1>4, <1>5, <1>6, <1>7 DEF RecInv

LEMMA DropsInv ==
  ASSUME RecInv, NEW R, Drops(R), Lists', Typed'
  PROVE  RecInv'
BY DropsKeepLinks, DropsKeepNamed DEF RecInv

\* What a step does, as the set view sees it
Creates == \E r \in Rec \ Live :
  /\ \A x \in Rec : x \in Live' <=> x = r \/ x \in Live
  /\ \A x \in Rec : /\ mem'[x].up = mem[x].up
                    /\ \A i \in Slots(x) : mem'[x].slot[i] = mem[x].slot[i]

Joins == \E r \in Rec : \E o \in Owners(r) :
  /\ r \in Live /\ o \in Live /\ r # o /\ o \in Rec
  /\ UNCHANGED given
  /\ \A x \in Rec : mem'[x].up = IF x = r THEN o ELSE mem[x].up
  /\ \A x \in Rec \ {o} : mem'[x].slot = mem[x].slot
  /\ mem'[o].slot = Added(mem[o].slot, r)

DropsSome == \E K \in Kinds : \E R \in SUBSET (K \cap Live) : Drops(R)

LEMMA DeleteInv ==
  ASSUME RecInv, NEW K \in Kinds, NEW r, Delete(K, r)
  PROVE  RecInv' /\ DropsSome
<1>1. Drops({r}) /\ Lists' /\ Typed' /\ r \in K
  BY DeleteStep
<1>2. {r} \in SUBSET (K \cap Live)
  BY <1>1 DEF Drops
<1> QED
  BY <1>1, <1>2, DropsInv DEF DropsSome

LEMMA DeleteByIdInv ==
  ASSUME RecInv, NEW K \in Kinds, NEW n, DeleteById(K, n)
  PROVE  RecInv' /\ DropsSome
<1>1. PICK r : r = Find(K, n)
  OBVIOUS
<1>2. Delete(K, r)
  BY <1>1 DEF DeleteById
<1> QED
  BY <1>2, DeleteInv

LEMMA DeleteAllInv ==
  ASSUME RecInv, NEW K \in Kinds, DeleteAll(K)
  PROVE  RecInv' /\ DropsSome
<1>1. Drops(K \cap Live) /\ Lists' /\ Typed'
  BY DeleteAllStep
<1> QED
  BY <1>1, DropsInv DEF DropsSome

LEMMA CreateInv ==
  ASSUME RecInv, NEW K \in Kinds, NEW n \in Names[K], NEW tag \in ToTags \cup {NULL},
         Create(K, n, tag),
         K = Txn => tag = NULL /\ Find(Txn, InMessage(n, NULL)) = NULL
  PROVE  RecInv' /\ Creates
<1>1. K \subseteq Rec
  BY KindsApart
<1> QED
  BY <1>1, CreateStep DEF Creates

LEMMA SetOwnerInv ==
  ASSUME RecInv, NEW r \in Rec, NEW o \in Owners(r), SetOwner(r, o)
  PROVE  RecInv' /\ Joins
BY SetOwnerStep DEF Joins

LEMMA UnchangedInv ==
  ASSUME RecInv, UNCHANGED vars PROVE RecInv'
<1>1. head' = head /\ mem' = mem /\ given' = given
  BY DEF vars
<1>2. Live' = Live
  BY <1>1 DEF Live
<1>3. Typed'
  BY <1>1 DEF RecInv, Typed, MemTyped
<1>4. Lists'
  <2> SUFFICES ASSUME NEW K \in Kinds PROVE \E s \in Seq(K) : IsList(K, s)'
    BY DEF Lists
  <2>1. head'[K] = head[K]
    BY <1>1
  <2>2. \A x \in K : (x \in Live' <=> x \in Live) /\ (x \in Live => mem'[x].next = mem[x].next)
    BY <1>1, <1>2
  <2> QED
    BY <2>1, <2>2, ListKept DEF RecInv
<1>5. Links'
  BY <1>1, <1>2 DEF RecInv, Links, Above, Exact
<1>6. Named'
  BY <1>1, <1>2 DEF RecInv, Named
<1> QED
  BY <1>3, <1>4, <1>5, <1>6 DEF RecInv

LEMMA NextStep ==
  ASSUME RecInv, Next
  PROVE  RecInv' /\ (Creates \/ Joins \/ DropsSome)
<1>0. Txn \in Kinds /\ Dlg \in Kinds /\ Call \in Kinds /\ Txn # Dlg /\ Txn # Call
  BY KindsApart
<1>1. ASSUME NEW n \in Names[Txn], create_new_transaction(n)
      PROVE  RecInv' /\ Creates
  BY <1>0, <1>1, CreateInv DEF create_new_transaction
<1>2. ASSUME NEW n \in Names[Txn], delete_transaction_by_id(n)
      PROVE  RecInv' /\ DropsSome
  BY <1>0, <1>2, DeleteByIdInv DEF delete_transaction_by_id
<1>3. ASSUME NEW n \in Names[Dlg], NEW tag \in ToTags, create_new_dialog(n, tag)
      PROVE  RecInv' /\ Creates
  BY <1>0, <1>3, CreateInv DEF create_new_dialog
<1>4. ASSUME NEW n \in Names[Dlg], NEW tag \in ToTags, delete_dialog_by_id(n, tag)
      PROVE  RecInv' /\ DropsSome
  BY <1>0, <1>4, DeleteByIdInv DEF delete_dialog_by_id
<1>5. ASSUME NEW n \in Names[Call], create_new_call(n)
      PROVE  RecInv' /\ Creates
  BY <1>0, <1>5, CreateInv DEF create_new_call
<1>6. ASSUME NEW n \in Names[Call], delete_call_by_id(n)
      PROVE  RecInv' /\ DropsSome
  BY <1>0, <1>6, DeleteByIdInv DEF delete_call_by_id
<1>7. ASSUME NEW t \in Txn, NEW d \in Dlg, set_transaction_dialog(t, d)
      PROVE  RecInv' /\ Joins
  <2>1. t \in Rec /\ d \in Owners(t)
    BY DEF Owners, Rec
  <2> QED
    BY <1>7, <2>1, SetOwnerInv DEF set_transaction_dialog
<1>8. ASSUME NEW d \in Dlg, NEW c \in Call, set_dialog_call(d, c)
      PROVE  RecInv' /\ Joins
  <2>1. d \in Rec /\ c \in Owners(d)
    BY KindsApart DEF Owners, Rec
  <2> QED
    BY <1>8, <2>1, SetOwnerInv DEF set_dialog_call
<1>9. ASSUME NEW t \in Txn, delete_transaction_by_pointer(t) PROVE RecInv' /\ DropsSome
  BY <1>0, <1>9, DeleteInv DEF delete_transaction_by_pointer
<1>10. ASSUME NEW t \in Txn, DeleteByEvent(t) PROVE RecInv' /\ DropsSome
  BY <1>0, <1>10, DeleteByIdInv DEF DeleteByEvent
<1>11. ASSUME NEW d \in Dlg, delete_dialog_by_pointer(d) PROVE RecInv' /\ DropsSome
  BY <1>0, <1>11, DeleteInv DEF delete_dialog_by_pointer
<1>12. ASSUME NEW c \in Call, delete_call_by_pointer(c) PROVE RecInv' /\ DropsSome
  BY <1>0, <1>12, DeleteInv DEF delete_call_by_pointer
<1>13. ASSUME delete_all_transactions \/ delete_all_dialogs \/ delete_all_calls
       PROVE  RecInv' /\ DropsSome
  BY <1>0, <1>13, DeleteAllInv DEF delete_all_transactions, delete_all_dialogs, delete_all_calls
<1> QED
  BY <1>1, <1>2, <1>3, <1>4, <1>5, <1>6, <1>7, <1>8, <1>9, <1>10, <1>11, <1>12, <1>13 DEF Next

LEMMA RecordsInv == Spec => []RecInv
<1>1. RecInv /\ [Next]_vars => RecInv'
  BY NextStep, UnchangedInv
<1> QED
  BY InitInv, <1>1, PTL DEF Spec

\* For any number of records, names, slots and array lengths: a memory has its fields, a
\* list starts with one of its records, and a text fits its array.
THEOREM RecordsTypeCorrect == Spec => []TypeOK
<1>1. RecInv => TypeOK
  <2> SUFFICES ASSUME RecInv PROVE TypeOK
    OBVIOUS
  <2>1. \A x \in Texts : Len(x) <= MaxName
    <3>1. MaxName \in Nat
      BY RecordsAssumption
    <3>2. ASSUME NEW K \in Kinds, NEW n \in Names[K] PROVE Len(Cut(n)) <= MaxName
      BY <3>1, CutIs, NamesAre
    <3>3. Len(<<>>) <= MaxName
      BY <3>1
    <3> QED
      BY <3>2, <3>3 DEF Texts
  <2>2. ASSUME NEW r \in Rec
        PROVE  /\ DOMAIN mem[r] = {"next", "text", "len", "to_tag", "up", "slot"}
               /\ mem[r].next \in KindOf(r) \cup {NULL}
               /\ Len(mem[r].text) <= MaxName /\ mem[r].len \in Nat
               /\ mem[r].to_tag \in ToTags \cup {NULL}
               /\ mem[r].up \in Rec \cup {NULL}
               /\ mem[r].slot \in [Slots(r) -> Rec \cup {NULL}]
    <3>1. mem[r] \in Memories
      BY DEF RecInv, Typed, MemTyped
    <3>2. DOMAIN mem[r] = {"next", "text", "len", "to_tag", "up", "slot"}
      BY <3>1 DEF Memories
    <3>3. /\ mem[r].text \in Texts /\ mem[r].len \in Nat
          /\ mem[r].to_tag \in ToTags \cup {NULL} /\ mem[r].up \in Rec \cup {NULL}
      BY <3>1 DEF Memories
    <3>4. mem[r].next \in KindOf(r) \cup {NULL} /\ mem[r].slot \in [Slots(r) -> Rec \cup {NULL}]
      BY DEF RecInv, Typed, MemTyped
    <3> QED
      BY <2>1, <3>2, <3>3, <3>4
  <2>3. DOMAIN mem = Rec /\ DOMAIN given = Rec /\ head \in [Kinds -> Rec \cup {NULL}]
    BY DEF RecInv, Typed, MemTyped
  <2> QED
    BY <2>2, <2>3 DEF TypeOK
<1> QED
  BY RecordsInv, <1>1, PTL

\* Whatever records are created and deleted at the head, in the middle or at the end,
\* a list stays a list: it ends, and comes to every live record once.
THEOREM ListsStayLists == Spec => []ListsWellFormed
<1>1. RecInv => ListsWellFormed
  BY ListsAreWellFormed DEF RecInv
<1> QED
  BY RecordsInv, <1>1, PTL

\* A table has a record at most once, and only records that point back at it.
THEOREM TablesStayExact == Spec => []TablesExact
<1>1. RecInv => TablesExact
  <2> SUFFICES ASSUME RecInv, NEW o \in Rec, NEW i \in DOMAIN mem[o].slot,
                      NEW j \in DOMAIN mem[o].slot, mem[o].slot[i] # NULL
               PROVE  /\ mem[mem[o].slot[i]].up = o
                      /\ mem[o].slot[i] = mem[o].slot[j] => i = j
    BY DEF TablesExact
  <2>1. DOMAIN mem[o].slot = Slots(o)
    BY SlotsIn DEF RecInv, Typed
  <2> QED
    BY <2>1 DEF RecInv, Links, Exact
<1> QED
  BY RecordsInv, <1>1, PTL

\* A request finds the transaction of its branch if the branch fits the array and none
\* otherwise, and the delete event of a transaction finds one with its stored name.
THEOREM RecordsFoundByName == Spec => []NamesFound
<1>1. RecInv => NamesFound
  BY NamesAreFound
<1> QED
  BY RecordsInv, <1>1, PTL

-----------------------------------------------------------------------------
\* The set view

GraphRecords == UNION {Reached(K) : K \in Kinds}

GraphIsLive == GraphRecords = Live

LEMMA GraphRecordsAre == RecInv => GraphIsLive
<1> SUFFICES ASSUME RecInv PROVE GraphRecords = Live
  BY DEF GraphIsLive
<1>1. \A K \in Kinds : Reached(K) = K \cap Live
  BY ReachedIs DEF RecInv
<1>2. \A r \in Live : KindOf(r) \in Kinds /\ r \in KindOf(r)
  BY KindIs DEF Live
<1> QED
  BY <1>1, <1>2 DEF GraphRecords

LEMMA GraphRecordsNext == RecInv' => GraphRecords' = Live'
<1>1. RecInv' => GraphIsLive'
  BY GraphRecordsAre, PTL
<1> QED
  BY <1>1 DEF GraphIsLive

\* The records that the table of o has
In(o) == {mem[o].slot[i] : i \in Slots(o)} \ {NULL}

LEMMA EntriesIn ==
  ASSUME MemTyped(mem), NEW o \in Rec
  PROVE  Entries(mem[o].slot) = In(o)
BY SlotsIn DEF In

LEMMA EntriesFinite ==
  ASSUME RecInv, NEW o \in Rec
  PROVE  /\ IsFiniteSet(In(o)) /\ Cardinality(In(o)) \in Nat
         /\ \A n \in Nat : Slots(o) = 1 .. n =>
              /\ Cardinality(In(o)) <= n
              /\ Cardinality(In(o)) = n <=> \A i \in Slots(o) : mem[o].slot[i] # NULL
<1>1. PICK n \in Nat : Slots(o) = 1 .. n
  BY SlotsRange
<1> DEFINE used == {i \in 1 .. n : mem[o].slot[i] # NULL}
           f == [i \in used |-> mem[o].slot[i]]
<1>2. IsFiniteSet(1 .. n) /\ Cardinality(1 .. n) = n
  BY FS_Interval
<1>3. used \subseteq 1 .. n
  OBVIOUS
<1>4. IsFiniteSet(used) /\ Cardinality(used) <= n /\ (Cardinality(used) = n <=> used = 1 .. n)
  BY <1>2, <1>3, FS_Subset, FS_CardinalityType
<1>5. \A i, j \in used : mem[o].slot[i] = mem[o].slot[j] => i = j
  BY <1>1 DEF RecInv, Links, Exact
<1>6. f \in Bijection(used, In(o))
  <2>1. \A i \in used : f[i] \in In(o)
    BY <1>1 DEF In
  <2>2. \A y \in In(o) : \E i \in used : f[i] = y
    BY <1>1 DEF In
  <2> QED
    BY <1>5, <2>1, <2>2 DEF Bijection, Injection, Surjection, IsInjective
<1>7. IsFiniteSet(In(o)) /\ Cardinality(In(o)) = Cardinality(used)
  BY <1>4, <1>6, FS_Bijection DEF ExistsBijection
<1>8. Cardinality(used) \in Nat
  BY <1>4, FS_CardinalityType
<1>9. used = 1 .. n <=> \A i \in Slots(o) : mem[o].slot[i] # NULL
  BY <1>1
<1>10. \A k \in Nat : Slots(o) = 1 .. k => k = n
  <2> SUFFICES ASSUME NEW k \in Nat, 1 .. k = 1 .. n PROVE k = n
    BY <1>1
  <2>1. Cardinality(1 .. k) = k
    BY FS_Interval
  <2> QED
    BY <1>2, <2>1
<1> QED
  BY <1>4, <1>7, <1>8, <1>9, <1>10

GraphOwner == [r \in Rec |-> mem[r].up]
GraphMembers == [r \in Rec |-> Entries(mem[r].slot)]

LEMMA GraphMembersAre ==
  ASSUME MemTyped(mem)
  PROVE  GraphMembers = [r \in Rec |-> In(r)]
BY EntriesIn DEF GraphMembers

MembersIn == GraphMembers = [r \in Rec |-> In(r)]

LEMMA GraphMembersNow == RecInv => MembersIn
BY GraphMembersAre DEF RecInv, Typed, MembersIn

LEMMA GraphMembersNext == RecInv' => GraphMembers' = [r \in Rec |-> In(r)']
<1>1. RecInv' => MembersIn'
  BY GraphMembersNow, PTL
<1> QED
  BY <1>1 DEF MembersIn

LEMMA GraphCardinality == \A S : Graph!Cardinality(S) = Cardinality(S)
BY DEF Graph!Cardinality, Cardinality

LEMMA CreatesGraph ==
  ASSUME RecInv, RecInv', Creates
  PROVE  \E r \in Rec : Graph!Create(r)
<1>1. PICK r \in Rec \ Live :
        /\ \A x \in Rec : x \in Live' <=> x = r \/ x \in Live
        /\ \A x \in Rec : /\ mem'[x].up = mem[x].up
                          /\ \A i \in Slots(x) : mem'[x].slot[i] = mem[x].slot[i]
  BY DEF Creates
<1>2. GraphRecords = Live /\ GraphRecords' = Live'
  BY GraphRecordsAre, GraphRecordsNext DEF GraphIsLive
<1>3. Live' = Live \cup {r}
  <2>1. Live \subseteq Rec /\ Live' \subseteq Rec
    BY DEF Live
  <2> QED
    BY <1>1, <2>1
<1>4. GraphOwner' = GraphOwner
  BY <1>1 DEF GraphOwner
<1>5. GraphMembers' = GraphMembers
  <2>1. \A x \in Rec : In(x)' = In(x)
    BY <1>1 DEF In
  <2> QED
    BY <2>1, GraphMembersNow, GraphMembersNext DEF MembersIn
<1>6. /\ r \notin GraphRecords
      /\ GraphRecords' = GraphRecords \cup {r}
      /\ GraphOwner' = GraphOwner /\ GraphMembers' = GraphMembers
  BY <1>1, <1>2, <1>3, <1>4, <1>5
<1> QED
  BY <1>1, <1>6 DEF Graph!Create, GraphRecords, GraphOwner, GraphMembers

LEMMA JoinsGraph ==
  ASSUME RecInv, RecInv', Joins
  PROVE  \E r, o \in Rec : Graph!Join(r, o)
<1>1. PICK r \in Rec : \E o \in Owners(r) :
        /\ r \in Live /\ o \in Live /\ r # o /\ o \in Rec
        /\ UNCHANGED given
        /\ \A x \in Rec : mem'[x].up = IF x = r THEN o ELSE mem[x].up
        /\ \A x \in Rec \ {o} : mem'[x].slot = mem[x].slot
        /\ mem'[o].slot = Added(mem[o].slot, r)
  BY DEF Joins
<1>2. PICK o \in Owners(r) :
        /\ r \in Live /\ o \in Live /\ r # o /\ o \in Rec
        /\ UNCHANGED given
        /\ \A x \in Rec : mem'[x].up = IF x = r THEN o ELSE mem[x].up
        /\ \A x \in Rec \ {o} : mem'[x].slot = mem[x].slot
        /\ mem'[o].slot = Added(mem[o].slot, r)
  BY <1>1
<1>3. GraphRecords = Live /\ GraphRecords' = Live' /\ Live' = Live
  BY <1>2, GraphRecordsAre, GraphRecordsNext DEF GraphIsLive, Live
<1>4. GraphOwner' = [GraphOwner EXCEPT ![r] = o]
  BY <1>2 DEF GraphOwner
<1>5. Graph!MayOwn(r, o)
  BY OwnersAbove DEF Graph!MayOwn
<1> DEFINE room == Graph!Room(o)
<1>6. room \in Nat /\ Slots(o) = 1 .. room
  <2>1. TxnRoom \in Nat /\ DlgRoom \in Nat
    BY RecordsAssumption
  <2>2. o \in Dlg \/ o \in Call
    BY OwnersAbove
  <2>3. Slots(o) = 1 .. (IF o \in Dlg THEN TxnRoom ELSE DlgRoom)
    BY <2>2 DEF Slots
  <2>4. room = IF o \in Dlg THEN TxnRoom ELSE DlgRoom
    BY DEF Graph!Room
  <2> QED
    BY <2>1, <2>3, <2>4
<1> HIDE DEF room
<1>7. /\ Cardinality(In(o)) \in Nat /\ Cardinality(In(o)) <= room
      /\ Cardinality(In(o)) = room <=> \A i \in Slots(o) : mem[o].slot[i] # NULL
  BY <1>2, <1>6, EntriesFinite
<1>8. In(o)' = IF Cardinality(In(o)) < room THEN In(o) \cup {r} ELSE In(o)
  <2>1. DOMAIN mem[o].slot = Slots(o) /\ Entries(mem[o].slot) = In(o)
    BY <1>2, EntriesIn, SlotsIn DEF RecInv, Typed
  <2> DEFINE slot == mem[o].slot
             added == mem'[o].slot
  <2>2. \A i \in Slots(o) :
          added[i] = IF r \notin In(o) /\ FirstFree(slot, i) THEN r ELSE slot[i]
    <3>1. added = [i \in Slots(o) |-> IF r \notin In(o) /\ slot[i] = NULL /\ \A j \in 1 .. i - 1 : slot[j] # NULL
                                      THEN r ELSE slot[i]]
      BY <1>2, <2>1 DEF Added
    <3> QED
      BY <3>1 DEF FirstFree
  <2>3. In(o) = {slot[i] : i \in Slots(o)} \ {NULL} /\ In(o)' = {added[i] : i \in Slots(o)} \ {NULL}
    BY DEF In
  <2>4. r # NULL
    BY NullNoRecord
  <2> HIDE DEF slot, added
  <2>5. CASE r \in In(o)
    BY <2>2, <2>3, <2>5
  <2>6. CASE r \notin In(o) /\ Cardinality(In(o)) = room
    <3>1. \A i \in Slots(o) : slot[i] # NULL
      BY <1>7, <2>6 DEF slot
    <3>2. \A i \in Slots(o) : added[i] = slot[i]
      BY <2>2, <3>1 DEF FirstFree
    <3>3. ~(Cardinality(In(o)) < room)
      BY <1>6, <2>6
    <3> QED
      BY <2>3, <3>2, <3>3
  <2>7. CASE r \notin In(o) /\ Cardinality(In(o)) # room
    <3>1. Cardinality(In(o)) < room
      BY <1>6, <1>7, <2>7
    <3> DEFINE free == {i \in 1 .. room : slot[i] = NULL}
    <3>2. free # {} /\ free \subseteq Nat
      BY <1>6, <1>7, <2>7 DEF slot
    <3>3. PICK i \in free : \A j \in free : i <= j
      <4> HIDE DEF free
      <4> QED
        BY <3>2, LeastNatural
    <3>4. i \in Slots(o) /\ FirstFree(slot, i)
      BY <1>6, <3>3 DEF FirstFree
    <3>5. added[i] = r
      BY <2>2, <2>7, <3>4
    <3>6. \A j \in Slots(o) : added[j] = r \/ added[j] = slot[j]
      BY <2>2
    <3>7. \A j \in Slots(o) : slot[j] # NULL => added[j] = slot[j]
      BY <2>2 DEF FirstFree
    <3>8. In(o)' = In(o) \cup {r}
      BY <2>3, <2>4, <3>4, <3>5, <3>6, <3>7
    <3> QED
      BY <3>1, <3>8
  <2> QED
    BY <2>5, <2>6, <2>7
<1>9. \A x \in Rec \ {o} : In(x)' = In(x)
  BY <1>2 DEF In
<1>10. GraphMembers' = [GraphMembers EXCEPT ![o] =
         IF Cardinality(@) < room THEN @ \cup {r} ELSE @]
  <2>1. GraphMembers = [x \in Rec |-> In(x)] /\ GraphMembers' = [x \in Rec |-> In(x)']
    BY GraphMembersNow, GraphMembersNext DEF MembersIn
  <2> QED
    BY <1>2, <1>8, <1>9, <2>1
<1>11. /\ {r, o} \subseteq GraphRecords /\ UNCHANGED GraphRecords
  BY <1>2, <1>3
<1>12. Graph!Join(r, o) <=>
         /\ {r, o} \subseteq GraphRecords
         /\ Graph!MayOwn(r, o)
         /\ GraphOwner' = [GraphOwner EXCEPT ![r] = o]
         /\ GraphMembers' = [GraphMembers EXCEPT ![o] =
              IF Cardinality(@) < Graph!Room(o) THEN @ \cup {r} ELSE @]
         /\ UNCHANGED GraphRecords
  BY GraphCardinality DEF Graph!Join, GraphRecords, GraphOwner, GraphMembers
<1>13. Graph!Join(r, o)
  BY <1>4, <1>5, <1>10, <1>11, <1>12 DEF room
<1> QED
  BY <1>2, <1>13

LEMMA DropsGraph ==
  ASSUME RecInv, RecInv', DropsSome
  PROVE  \E K \in {Txn, Dlg, Call} : \E R \in SUBSET (GraphRecords \cap K) : Graph!Drop(R)
<1>1. PICK K \in Kinds : \E R \in SUBSET (K \cap Live) : Drops(R)
  BY DEF DropsSome
<1>2. PICK R \in SUBSET (K \cap Live) : Drops(R)
  BY <1>1
<1>3. GraphRecords = Live /\ GraphRecords' = Live'
  BY GraphRecordsAre, GraphRecordsNext DEF GraphIsLive
<1>4. R \subseteq Rec /\ NULL \notin R
  BY <1>2, DropsLive DEF Live
<1>5. MemTyped(mem) /\ Above(mem) /\ Exact(mem)
  BY DEF RecInv, Typed, Links
<1>6. \A x \in Rec : /\ mem'[x].up = IF x \in R \/ mem[x].up \in R THEN NULL ELSE mem[x].up
                     /\ \A i \in Slots(x) :
                          mem'[x].slot[i] = IF x \in R \/ mem[x].slot[i] \in R THEN NULL ELSE mem[x].slot[i]
  BY <1>2 DEF Drops, Gone
<1>7. \A o \in R : In(o) = {x \in Rec : mem[x].up = o}
  <2> TAKE o \in R
  <2>1. o \in Rec /\ Listed(mem, o)
    BY <1>2, <1>4 DEF Drops
  <2> QED
    BY <1>5, <2>1, EntriesAre, EntriesIn
<1>8. GraphRecords' = GraphRecords \ R
  <2>1. \A x \in Rec : x \in Live' <=> x \in Live /\ x \notin R
    BY <1>2, DropsLive
  <2>2. Live \subseteq Rec /\ Live' \subseteq Rec
    BY DEF Live
  <2> QED
    BY <1>3, <2>1, <2>2
<1>9. GraphMembers = [x \in Rec |-> In(x)] /\ GraphMembers' = [x \in Rec |-> In(x)']
  BY GraphMembersNow, GraphMembersNext DEF MembersIn
<1>10. GraphOwner' = [x \in Rec |->
         IF x \in R \/ \E o \in R : x \in GraphMembers[o] THEN NULL ELSE GraphOwner[x]]
  <2>1. ASSUME NEW x \in Rec
        PROVE  mem'[x].up = IF x \in R \/ \E o \in R : x \in GraphMembers[o] THEN NULL ELSE mem[x].up
    <3>1. (\E o \in R : x \in GraphMembers[o]) <=> mem[x].up \in R
      BY <1>4, <1>7, <1>9
    <3> QED
      BY <1>6, <3>1
  <2> QED
    BY <2>1 DEF GraphOwner
<1>11. \A x \in Rec : \A i \in Slots(x) : mem[x].slot[i] # NULL =>
         mem[x].slot[i] \in Rec /\ mem[mem[x].slot[i]].up = x
  BY <1>5, SlotsIn DEF Exact
<1>12. GraphMembers' = [o \in Rec |->
         IF o \in R THEN {} ELSE GraphMembers[o] \ {x \in R : GraphOwner[x] = o}]
  <2>1. ASSUME NEW o \in Rec
        PROVE  In(o)' = IF o \in R THEN {} ELSE In(o) \ {x \in R : GraphOwner[x] = o}
    <3>1. CASE o \in R
      BY <1>6, <3>1 DEF In
    <3>2. CASE o \notin R
      <4>1. In(o)' = In(o) \ R
        BY <1>4, <1>6, <3>2 DEF In
      <4>2. \A x \in In(o) : x \in Rec /\ GraphOwner[x] = o
        BY <1>11 DEF In, GraphOwner
      <4> QED
        BY <3>2, <4>1, <4>2
    <3> QED
      BY <3>1, <3>2
  <2> QED
    BY <1>9, <2>1
<1>13. Graph!Rec = Rec
  BY DEF Graph!Rec, Rec
<1>14. Graph!Drop(R) <=>
         /\ GraphRecords' = GraphRecords \ R
         /\ GraphOwner' = [x \in Graph!Rec |->
              IF x \in R \/ \E o \in R : x \in GraphMembers[o] THEN NULL ELSE GraphOwner[x]]
         /\ GraphMembers' = [o \in Graph!Rec |->
              IF o \in R THEN {} ELSE GraphMembers[o] \ {x \in R : GraphOwner[x] = o}]
  BY DEF Graph!Drop, GraphRecords, GraphOwner, GraphMembers
<1>15. Graph!Drop(R)
  BY <1>8, <1>10, <1>12, <1>13, <1>14
<1>16. K \in {Txn, Dlg, Call} /\ R \in SUBSET (GraphRecords \cap K)
  BY <1>2, <1>3 DEF Kinds
<1> QED
  BY <1>15, <1>16

\* The lists, pointers and tables implement RecordGraph, on which SipWorker builds: a
\* function of sip_utils.c adds one record, links two, or drops records of one kind with
\* every link to them, and changes nothing else.
THEOREM RecordsImplementGraph == Spec => ImplementsGraph
<1>1. Init => Graph!Init
  <2> SUFFICES ASSUME Init PROVE Graph!Init
    OBVIOUS
  <2>1. RecInv
    BY InitInv
  <2>2. GraphRecords = {}
    BY <2>1, GraphRecordsAre DEF GraphIsLive, Live, Init
  <2>3. \A r \in Rec : mem[r].up = NULL /\ Entries(mem[r].slot) = {}
    <3> TAKE r \in Rec
    <3>1. mem[r] = Zero(r)
      BY DEF Init
    <3>2. mem[r].up = NULL /\ In(r) = {}
      BY <3>1, ZeroTyped DEF In
    <3> QED
      BY <2>1, <3>2, EntriesIn DEF RecInv, Typed
  <2>4. Graph!Rec = Rec
    BY DEF Graph!Rec, Rec
  <2>5. GraphOwner = [r \in Rec |-> NULL] /\ GraphMembers = [o \in Rec |-> {}]
    BY <2>3 DEF GraphOwner, GraphMembers
  <2>6. Graph!Init <=>
          /\ GraphRecords = {}
          /\ GraphOwner = [r \in Graph!Rec |-> NULL]
          /\ GraphMembers = [o \in Graph!Rec |-> {}]
    BY DEF Graph!Init, GraphRecords, GraphOwner, GraphMembers
  <2> QED
    BY <2>2, <2>4, <2>5, <2>6
<1>2. RecInv /\ RecInv' /\ [Next]_vars => [Graph!Next]_(Graph!vars)
  <2> SUFFICES ASSUME RecInv, RecInv', [Next]_vars PROVE [Graph!Next]_(Graph!vars)
    OBVIOUS
  <2>1. CASE UNCHANGED vars
    <3>1. head' = head /\ mem' = mem /\ given' = given
      BY <2>1 DEF vars
    <3>2. GraphRecords' = GraphRecords
      BY <3>1, GraphRecordsAre, GraphRecordsNext DEF GraphIsLive, Live
    <3> QED
      BY <3>1, <3>2 DEF Graph!vars, GraphRecords
  <2>2. CASE Next
    <3>1. Creates \/ Joins \/ DropsSome
      BY <2>2, NextStep
    <3>2. CASE Creates
      <4>1. PICK r \in Rec : Graph!Create(r)
        BY <3>2, CreatesGraph
      <4>2. r \in Graph!Rec
        BY DEF Graph!Rec, Rec
      <4> QED
        BY <4>1, <4>2 DEF Graph!Next
    <3>3. CASE Joins
      <4>1. PICK r, o \in Rec : Graph!Join(r, o)
        BY <3>3, JoinsGraph
      <4>2. r \in Graph!Rec /\ o \in Graph!Rec
        BY DEF Graph!Rec, Rec
      <4> QED
        BY <4>1, <4>2 DEF Graph!Next
    <3>4. CASE DropsSome
      BY <3>4, DropsGraph DEF Graph!Next, GraphRecords
    <3> QED
      BY <3>1, <3>2, <3>3, <3>4
  <2> QED
    BY <2>1, <2>2
<1> QED
  BY RecordsInv, <1>1, <1>2, PTL DEF Spec, ImplementsGraph, Graph!Spec
=============================================================================
