------------------------------ MODULE Records ------------------------------
(***************************************************************************)
(* The data structures of sip_utils.c: three linked lists (transactions,   *)
(* dialogs, calls) whose records are found by name or by pointer, and the  *)
(* tables of slots of a dialog and of a call.  The three kinds have the    *)
(* same code but for the fields; what a record contains here is what that  *)
(* code reads: its name, its place in the list, its owner, its table.      *)
(*                                                                         *)
(* A name (branch, from tag, Call-ID) is a sequence of characters, kept in *)
(* an array of MaxName characters and a NUL, next to its full length.  A   *)
(* function is one step: only the worker that owns the lists calls them.   *)
(***************************************************************************)
EXTENDS Integers, Sequences, FiniteSets

CONSTANTS
  Txn, Dlg, Call,     \* the heap: addresses of the three kinds of records
  Names,              \* Names[K]: the names records of kind K are given
  ToTags,             \* tags create_to_tag may draw
  MaxName,            \* SIP_BRANCH_MAX_LENGTH and its like
  TxnRoom, DlgRoom,   \* MAX_TXNS_PER_DIALOG, MAX_DIALOGS_PER_CALL
  NULL

Rec == Txn \cup Dlg \cup Call
Kinds == {Txn, Dlg, Call}
KindOf(r) == CHOOSE K \in Kinds : r \in K
Slots(o) == 1 .. IF o \in Dlg THEN TxnRoom ELSE IF o \in Call THEN DlgRoom ELSE 0

ASSUME RecordsAssumption ==
  /\ IsFiniteSet(Rec)
  /\ Txn \cap Dlg = {} /\ Txn \cap Call = {} /\ Dlg \cap Call = {}
  /\ \A K \in Kinds : K # {} /\ \A n \in Names[K] : n # <<>> /\ n \in Seq({n[i] : i \in DOMAIN n})
  /\ {MaxName, TxnRoom, DlgRoom} \subseteq Nat \ {0}
  /\ NULL \notin Rec \cup ToTags

VARIABLES
  head,    \* head[K]: worker->transactions, ->dialogs, ->calls
  mem,     \* the memory at each address; freed memory is zero
  given    \* history: the whole name a live record was created for, or <<>>

vars == <<head, mem, given>>

Zero(r) == [next |-> NULL, text |-> <<>>, len |-> 0, to_tag |-> NULL,
            up |-> NULL, slot |-> [i \in Slots(r) |-> NULL]]

Init ==
  /\ head = [K \in Kinds |-> NULL]
  /\ mem = [r \in Rec |-> Zero(r)]
  /\ given = [r \in Rec |-> <<>>]

-----------------------------------------------------------------------------
\* Lists

\* The walk "current = current->next" from the head of list K
Walk(K) ==
  LET w[i \in 0 .. Cardinality(K)] ==
        IF i = 0 THEN head[K]
        ELSE LET current == w[i - 1] IN IF current = NULL THEN NULL ELSE mem[current].next
  IN w

Reached(K) == {Walk(K)[i] : i \in 0 .. Cardinality(K)} \ {NULL}

\* The lengths, then strncmp over n.len characters: a text ends with NUL
Matches(r, n) ==
  /\ mem[r].len = n.len
  /\ mem[r].to_tag = n.to_tag
  /\ \A i \in 1 .. n.len :
       \/ i <= Len(mem[r].text) /\ i <= Len(n.text) /\ mem[r].text[i] = n.text[i]
       \/ i > Len(mem[r].text) /\ i > Len(n.text)

\* find_*_by_id: the first match, or NULL
Find(K, n) ==
  LET w == Walk(K)
      hits == {i \in DOMAIN w : w[i] # NULL /\ Matches(w[i], n)}
  IN IF hits = {} THEN NULL ELSE w[CHOOSE i \in hits : \A j \in hits : i <= j]

\* What a message asks for, and what the delete event of record r asks for: its
\* branch was copied from the record
InMessage(n, tag) == [text |-> n, len |-> Len(n), to_tag |-> tag]
InEvent(r) == [text |-> mem[r].text, len |-> mem[r].len, to_tag |-> NULL]

\* (mutation) without room for the NUL
CutWithoutNul(n) == SubSeq(n, 1, IF Len(n) <= MaxName THEN Len(n) ELSE MaxName + 1)

\* snprintf into an array of MaxName characters and a NUL
Cut(n) == SubSeq(n, 1, IF Len(n) < MaxName THEN Len(n) ELSE MaxName)

\* (mutation) the length of what fits
StoreCutLength(r, n, tag) ==
  [Zero(r) EXCEPT !.next = head[KindOf(r)], !.text = Cut(n), !.len = Len(Cut(n)),
                  !.to_tag = tag]

\* The text is cut, the length is not
Store(r, n, tag) ==
  [Zero(r) EXCEPT !.next = head[KindOf(r)], !.text = Cut(n), !.len = Len(n), !.to_tag = tag]

Create(K, n, tag) ==
  \E r \in K \ Reached(K) :
    /\ mem' = [mem EXCEPT ![r] = Store(r, n, tag)]
    /\ head' = [head EXCEPT ![K] = r]
    /\ given' = [given EXCEPT ![r] = n]

\* process_sip_request looks for the branch first
create_new_transaction(n) ==
  /\ Find(Txn, InMessage(n, NULL)) = NULL
  /\ Create(Txn, n, NULL)

create_new_dialog(n, tag) == Create(Dlg, n, tag)

create_new_call(n) == Create(Call, n, NULL)

-----------------------------------------------------------------------------
\* Tables

Entries(slot) == {slot[i] : i \in DOMAIN slot} \ {NULL}

\* (mutation) the first free slot, without the look at the others
AddedFirstFree(slot, r) ==
  [i \in DOMAIN slot |->
     IF slot[i] = NULL /\ \A j \in 1 .. i - 1 : slot[j] # NULL THEN r ELSE slot[i]]

\* The first free slot, unless another one has the record
Added(slot, r) ==
  [i \in DOMAIN slot |->
     IF r \notin Entries(slot) /\ slot[i] = NULL /\ \A j \in 1 .. i - 1 : slot[j] # NULL
     THEN r ELSE slot[i]]

\* (mutation) the search ends at the first free slot
RemovedUntilHole(slot, r) ==
  [i \in DOMAIN slot |->
     IF slot[i] = r /\ \A j \in 1 .. i - 1 : slot[j] \notin {NULL, r} THEN NULL ELSE slot[i]]

\* The first slot that has the record is emptied
Removed(slot, r) ==
  [i \in DOMAIN slot |->
     IF slot[i] = r /\ \A j \in 1 .. i - 1 : slot[j] # r THEN NULL ELSE slot[i]]

\* set_transaction_dialog and set_dialog_call: the pointer is stored even when the
\* table is full
SetOwner(r, o) ==
  /\ r \in Reached(KindOf(r)) /\ o \in Reached(KindOf(o))
  /\ mem[r].up \in {NULL, o}
  /\ mem' = [mem EXCEPT ![r].up = o, ![o].slot = Added(@, r)]
  /\ UNCHANGED <<head, given>>

set_transaction_dialog(t, d) == SetOwner(t, d)
set_dialog_call(d, c) == SetOwner(d, c)

-----------------------------------------------------------------------------
\* Deletion

\* cleanup_*: what r lists is detached from it, r from the table of its owner, and
\* r is freed.  m is the memory before.
Cleanup(m, r) ==
  [x \in Rec |->
     IF x = r THEN Zero(r)
     ELSE IF x \in Entries(m[r].slot) THEN [m[x] EXCEPT !.up = NULL]
     ELSE IF x = m[r].up THEN [m[x] EXCEPT !.slot = Removed(@, r)]
     ELSE m[x]]

\* (mutation) without the case of a record that is not the first
UnlinkedAtHead(r) == mem

\* previous->next = current->next
Unlinked(r) ==
  [x \in Rec |-> IF mem[x].next = r THEN [mem[x] EXCEPT !.next = mem[r].next] ELSE mem[x]]

\* A record that still points at r although the table of r was full when it joined
\* would dangle; SipWorker has that case
AllListed(r) == \A x \in Rec : mem[x].up = r => x \in Entries(mem[r].slot)

Delete(K, r) ==
  /\ r \in Reached(K)
  /\ AllListed(r)
  /\ head' = [head EXCEPT ![K] = IF @ = r THEN mem[r].next ELSE @]
  /\ mem' = Cleanup(Unlinked(r), r)
  /\ given' = [given EXCEPT ![r] = <<>>]

delete_transaction_by_pointer(t) == Delete(Txn, t)
delete_dialog_by_pointer(d) == Delete(Dlg, d)
delete_call_by_pointer(c) == Delete(Call, c)

\* (the delete_*_by_id do the same to the record they find)
DeleteById(K, n) == Find(K, n) # NULL /\ Delete(K, Find(K, n))

delete_transaction_by_id(n) == DeleteById(Txn, InMessage(n, NULL))
delete_dialog_by_id(n, tag) == DeleteById(Dlg, InMessage(n, tag))
delete_call_by_id(n) == DeleteById(Call, InMessage(n, NULL))

\* delete_transaction of sip_server.c serves the event of t, or of a transaction
\* with the same stored name that is gone
DeleteByEvent(t) == t \in Reached(Txn) /\ DeleteById(Txn, InEvent(t))

\* The memory after the first i records of list K have been cleaned up
CleanedUp(K) ==
  LET m[i \in 0 .. Cardinality(K)] ==
        IF i = 0 THEN mem
        ELSE LET current == Walk(K)[i - 1] IN
             IF current = NULL THEN m[i - 1] ELSE Cleanup(m[i - 1], current)
  IN m

\* One after the other from the head
DeleteAll(K) ==
  /\ \A r \in Reached(K) : AllListed(r)
  /\ mem' = CleanedUp(K)[Cardinality(K)]
  /\ head' = [head EXCEPT ![K] = NULL]
  /\ given' = [r \in Rec |-> IF r \in K THEN <<>> ELSE given[r]]

delete_all_transactions == DeleteAll(Txn)
delete_all_dialogs == DeleteAll(Dlg)
delete_all_calls == DeleteAll(Call)

-----------------------------------------------------------------------------
Next ==
  \/ \E n \in Names[Txn] : create_new_transaction(n) \/ delete_transaction_by_id(n)
  \/ \E n \in Names[Dlg], tag \in ToTags :
       create_new_dialog(n, tag) \/ delete_dialog_by_id(n, tag)
  \/ \E n \in Names[Call] : create_new_call(n) \/ delete_call_by_id(n)
  \/ \E t \in Txn, d \in Dlg : set_transaction_dialog(t, d)
  \/ \E d \in Dlg, c \in Call : set_dialog_call(d, c)
  \/ \E t \in Txn : delete_transaction_by_pointer(t) \/ DeleteByEvent(t)
  \/ \E d \in Dlg : delete_dialog_by_pointer(d)
  \/ \E c \in Call : delete_call_by_pointer(c)
  \/ delete_all_transactions \/ delete_all_dialogs \/ delete_all_calls

Spec == Init /\ [][Next]_vars

-----------------------------------------------------------------------------
\* Memory keeps its fields, pointers are NULL or addresses, texts fit their arrays.
TypeOK ==
  /\ head \in [Kinds -> Rec \cup {NULL}]
  /\ DOMAIN mem = Rec
  /\ \A r \in Rec :
       /\ DOMAIN mem[r] = {"next", "text", "len", "to_tag", "up", "slot"}
       /\ mem[r].next \in KindOf(r) \cup {NULL}
       /\ Len(mem[r].text) <= MaxName /\ mem[r].len \in Nat
       /\ mem[r].to_tag \in ToTags \cup {NULL}
       /\ mem[r].up \in Rec \cup {NULL}
       /\ mem[r].slot \in [Slots(r) -> Rec \cup {NULL}]
  /\ DOMAIN given = Rec

\* Whatever records are created and deleted at the head, in the middle or at the end,
\* a list ends with NULL, comes to every record that was created and not deleted
\* exactly once, and to no freed memory.
ListsWellFormed ==
  \A K \in Kinds :
    LET w == Walk(K) IN
    /\ w[Cardinality(K)] = NULL
    /\ \A i, j \in DOMAIN w : w[i] = w[j] => i = j \/ w[i] = NULL
    /\ Reached(K) = {r \in K : given[r] # <<>>}

\* A table never has a record twice, and only records that point back at it: what
\* cleanup_* takes out with one pass, or finds in any slot, is all there is.
TablesExact ==
  \A o \in Rec : \A i, j \in DOMAIN mem[o].slot :
    mem[o].slot[i] # NULL =>
      /\ mem[mem[o].slot[i]].up = o
      /\ mem[o].slot[i] = mem[o].slot[j] => i = j

Fits(n) == Len(n) <= MaxName

\* A request finds the transaction of its branch if the branch fits the array, and
\* none if it was cut; the delete event of a transaction finds a transaction with
\* the same stored name, which is that one if the branch fits.
NamesFound ==
  \A t \in Reached(Txn) :
    LET n == given[t]
        e == Find(Txn, InEvent(t))
    IN
    /\ Find(Txn, InMessage(n, NULL)) = IF Fits(n) THEN t ELSE NULL
    /\ e # NULL /\ Cut(given[e]) = Cut(n) /\ Len(given[e]) = Len(n)
    /\ Fits(n) => e = t

\* Seen as sets of records that know their owner and their members, the lists and the
\* tables behave as SipWorker assumes: a step adds a record, links two, or drops
\* records together with every link to them, and changes nothing else.
Graph == INSTANCE RecordGraph WITH
  records <- UNION {Reached(K) : K \in Kinds},
  owner <- [r \in Rec |-> mem[r].up],
  members <- [r \in Rec |-> Entries(mem[r].slot)]
ImplementsGraph == Graph!Spec
=============================================================================
