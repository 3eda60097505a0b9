---------------------------- MODULE RecordGraph ----------------------------
(***************************************************************************)
(* The records of a worker as SipWorker sees them: a set of transactions,  *)
(* dialogs and calls, the pointer from a transaction to its dialog and     *)
(* from a dialog to its call (owner), and the set of the records that the  *)
(* table of a dialog or a call lists (members).  Nothing depends on the    *)
(* order of a list or the slot of a table.                                 *)
(***************************************************************************)
EXTENDS Integers, FiniteSets

CONSTANTS Txn, Dlg, Call, TxnRoom, DlgRoom, NULL

Rec == Txn \cup Dlg \cup Call
Room(o) == IF o \in Dlg THEN TxnRoom ELSE DlgRoom
MayOwn(r, o) == (r \in Txn /\ o \in Dlg) \/ (r \in Dlg /\ o \in Call)

VARIABLES records, owner, members

vars == <<records, owner, members>>

Init ==
  /\ records = {}
  /\ owner = [r \in Rec |-> NULL]
  /\ members = [o \in Rec |-> {}]

Create(r) ==
  /\ r \notin records
  /\ records' = records \cup {r}
  /\ UNCHANGED <<owner, members>>

\* A full table lists no more
Join(r, o) ==
  /\ {r, o} \subseteq records
  /\ MayOwn(r, o)
  /\ owner' = [owner EXCEPT ![r] = o]
  /\ members' = [members EXCEPT ![o] =
       IF Cardinality(@) < Room(o) THEN @ \cup {r} ELSE @]
  /\ UNCHANGED records

\* The records R go: from the sets, from the tables of their owners, and from the
\* records they list
Drop(R) ==
  /\ records' = records \ R
  /\ owner' = [r \in Rec |->
       IF r \in R \/ \E o \in R : r \in members[o] THEN NULL ELSE owner[r]]
  /\ members' = [o \in Rec |->
       IF o \in R THEN {} ELSE members[o] \ {r \in R : owner[r] = o}]

Next ==
  \/ \E r \in Rec : Create(r)
  \/ \E r, o \in Rec : Join(r, o)
  \/ \E K \in {Txn, Dlg, Call} : \E R \in SUBSET (records \cap K) : Drop(R)

Spec == Init /\ [][Next]_vars
=============================================================================
