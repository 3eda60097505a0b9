--------------------------- MODULE OneShotTimers ---------------------------
(***************************************************************************)
(* What timer_manager.h promises the transaction code: an accepted timer   *)
(* waits, its callback runs once, and callbacks run one at a time on the   *)
(* timer thread, where they may add timers themselves.  A call that is     *)
(* refused (-1) leaves no timer behind.                                    *)
(***************************************************************************)
EXTENDS Integers

CONSTANTS
  Threads,     \* threads that add timers, the timer thread among them
  Events,      \* the callbacks with their user_data
  NULL

VARIABLES
  waiting,     \* accepted events whose callback has not started
  running,     \* the event the timer thread serves, NULL when there is none
  offer,       \* offer[t]: the event of t's timer_one_shot_add, NULL outside a call
  answer       \* answer[t]: what t's last call returned

vars == <<waiting, running, offer, answer>>

Init ==
  /\ waiting = {}
  /\ running = NULL
  /\ offer = [t \in Threads |-> NULL]
  /\ answer = [t \in Threads |-> 0]

Offer(t, e) ==
  /\ offer[t] = NULL
  /\ offer' = [offer EXCEPT ![t] = e]
  /\ UNCHANGED <<waiting, running, answer>>

Accept(t) ==
  /\ offer[t] # NULL
  /\ offer[t] \notin waiting
  /\ waiting' = waiting \cup {offer[t]}
  /\ offer' = [offer EXCEPT ![t] = NULL]
  /\ answer' = [answer EXCEPT ![t] = 0]
  /\ UNCHANGED running

Refuse(t) ==
  /\ offer[t] # NULL
  /\ offer' = [offer EXCEPT ![t] = NULL]
  /\ answer' = [answer EXCEPT ![t] = -1]
  /\ UNCHANGED <<waiting, running>>

Fire(e) ==
  /\ running = NULL
  /\ e \in waiting
  /\ running' = e
  /\ waiting' = waiting \ {e}
  /\ UNCHANGED <<offer, answer>>

Done ==
  /\ running # NULL
  /\ running' = NULL
  /\ UNCHANGED <<waiting, offer, answer>>

Next ==
  \/ \E t \in Threads : \/ \E e \in Events : Offer(t, e)
                        \/ Accept(t)
                        \/ Refuse(t)
  \/ \E e \in Events : Fire(e)
  \/ Done

Spec == Init /\ [][Next]_vars
=============================================================================
