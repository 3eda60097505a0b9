---------------------------- MODULE BoundedFifo ----------------------------
(***************************************************************************)
(* What message_queue.c promises its callers: a FIFO of at most Bound      *)
(* packets.  An enqueue either accepts its packet at the tail or, and only *)
(* when the FIFO is full, refuses it and leaves the packet to the caller   *)
(* (main.c frees it, the timer callback of sip_utils.c ignores the         *)
(* answer).  The worker takes packets from the head, one at a time.        *)
(***************************************************************************)
EXTENDS Naturals, Sequences

CONSTANTS
  Producers,   \* threads that enqueue
  Packets,     \* what is enqueued
  Bound,       \* number of packets the FIFO holds
  NULL         \* no packet

VARIABLES
  fifo,        \* the accepted packets that no dequeue has returned, oldest first
  offer,       \* offer[p]: the packet of p's enqueue call, NULL outside a call
  answer,      \* answer[p]: what p's last enqueue call returned (1 accepted)
  hand         \* the packet the worker is processing, NULL when it has none

vars == <<fifo, offer, answer, hand>>

Init ==
  /\ fifo = <<>>
  /\ offer = [p \in Producers |-> NULL]
  /\ answer = [p \in Producers |-> 1]
  /\ hand = NULL

Offer(p, m) ==
  /\ offer[p] = NULL
  /\ offer' = [offer EXCEPT ![p] = m]
  /\ UNCHANGED <<fifo, answer, hand>>

Accept(p) ==
  /\ offer[p] # NULL
  /\ Len(fifo) < Bound
  /\ fifo' = Append(fifo, offer[p])
  /\ offer' = [offer EXCEPT ![p] = NULL]
  /\ answer' = [answer EXCEPT ![p] = 1]
  /\ UNCHANGED hand

Refuse(p) ==
  /\ offer[p] # NULL
  /\ Len(fifo) = Bound
  /\ offer' = [offer EXCEPT ![p] = NULL]
  /\ answer' = [answer EXCEPT ![p] = 0]
  /\ UNCHANGED <<fifo, hand>>

Take ==
  /\ hand = NULL
  /\ fifo # <<>>
  /\ hand' = Head(fifo)
  /\ fifo' = Tail(fifo)
  /\ UNCHANGED <<offer, answer>>

Finish ==
  /\ hand # NULL
  /\ hand' = NULL
  /\ UNCHANGED <<fifo, offer, answer>>

Next ==
  \/ \E p \in Producers : \/ \E m \in Packets : Offer(p, m)
                          \/ Accept(p)
                          \/ Refuse(p)
  \/ Take
  \/ Finish

Spec == Init /\ [][Next]_vars
=============================================================================
