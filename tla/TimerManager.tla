---------------------------- MODULE TimerManager ----------------------------
(***************************************************************************)
(* timer_manager.c: one-shot timers, each a timerfd in one epoll set, and  *)
(* the thread that runs their callbacks.  Any thread adds timers: workers, *)
(* and the timer thread itself when transaction_wait_ack_timeout re-arms.  *)
(* Nothing but the kernel orders an adder against the timer thread.        *)
(*                                                                         *)
(* The kernel is part of the model as the code sees it: descriptors are    *)
(* small numbers, the lowest free one is handed out, closing one takes it  *)
(* out of the epoll set, and epoll_wait reports ready descriptors in turn. *)
(***************************************************************************)
EXTENDS Integers, Sequences, FiniteSets, SequencesExt

CONSTANTS
  Adders,       \* threads that call timer_one_shot_add
  TimerThread,  \* the thread that runs timer_thread_func
  TimerAddr,    \* the heap: addresses of timer_s
  NFds,         \* model bound: descriptors the process may have open
  MaxEvents,    \* room in the events array of timer_thread_func
  Events,       \* a callback with its user_data
  Roots,        \* the events that Adders add
  Rearm,        \* Rearm[e]: the event the callback of e adds, or NULL
  Faults,       \* which calls may fail: "malloc", "create", "settime", "ctl"
  NULL

Threads == Adders \cup {TimerThread}
Fds == 0 .. NFds - 1

ASSUME TimerAssumption ==
  /\ TimerThread \notin Adders
  /\ NULL \notin Threads \cup TimerAddr \cup Events
  /\ NFds \in Nat \ {0}
  /\ MaxEvents \in Nat \ {0}
  /\ Roots \subseteq Events
  /\ Rearm \in [Events -> Events \cup {NULL}]

\* transaction_wait_ack_timeout hands its user_data on to transaction_delete_timeout,
\* which adds nothing.  User data is told apart by the malloc it comes from: that of
\* a re-armed event belongs to one event and was not allocated for a root.
ASSUME RearmAssumption ==
  \A e \in Events : Rearm[e] # NULL =>
    /\ Rearm[e] \notin Roots
    /\ Rearm[Rearm[e]] = NULL
    /\ \A f \in Events : Rearm[f] = Rearm[e] => f = e

VARIABLES
  epfd,              \* the static epfd
  file,              \* file[f]: what descriptor f is
  interest,          \* interest[f]: data.ptr of f's entry in the epoll set, or NULL
  ready,             \* descriptors of the epoll set that became readable, in turn
  allocated, timer,  \* timers that are malloc'ed, and the memory at TimerAddr
  pc, offer, answer, \* per thread: its step, and its timer_one_shot_add call
  mine,              \* mine[t]: the timer_s t's call has allocated
  batch              \* the rest of events[] the timer thread still has to serve

kernel == <<file, interest, ready>>
heap == <<allocated, timer>>
calls == <<pc, offer, answer, mine>>
vars == <<epfd, kernel, heap, calls, batch>>

Freed == [tfd |-> -1, data |-> NULL]

-----------------------------------------------------------------------------
\* timer_one_shot_init, whose result main ignores

InitWith(e, f, thread) ==
  /\ epfd = e
  /\ file = [fd \in Fds |-> IF fd = 0 THEN f ELSE "free"]
  /\ interest = [fd \in Fds |-> NULL]
  /\ ready = <<>>
  /\ allocated = {}
  /\ timer = [a \in TimerAddr |-> Freed]
  /\ pc = [t \in Threads |-> IF t = TimerThread THEN thread ELSE "idle"]
  /\ offer = [t \in Threads |-> NULL]
  /\ answer = [t \in Threads |-> 0]
  /\ mine = [t \in Threads |-> NULL]
  /\ batch = <<>>

Started == InitWith(0, "epoll", "wait")

NoEpoll == InitWith(-1, "free", "absent")

\* (mutation) without the close(epfd)
NoThreadKeepsEpoll == InitWith(0, "epoll", "absent")

\* pthread_create failed: epfd is closed and keeps its number
NoThread == InitWith(0, "free", "absent")

Init == Started \/ NoEpoll \/ NoThread

-----------------------------------------------------------------------------
\* The kernel

\* The epoll set's list of ready descriptors, which holds each of them once
Unlisted(fd) ==
  IF \E i \in DOMAIN ready : ready[i] = fd
    THEN RemoveAt(ready, CHOOSE i \in DOMAIN ready : ready[i] = fd)
    ELSE ready

\* close: the descriptor leaves the epoll set by itself
CloseFd(fd) ==
  /\ file' = [file EXCEPT ![fd] = "free"]
  /\ interest' = [interest EXCEPT ![fd] = NULL]
  /\ ready' = Unlisted(fd)

\* EPOLL_CTL_DEL
Unwatch(fd) ==
  /\ interest' = [interest EXCEPT ![fd] = NULL]
  /\ ready' = Unlisted(fd)
  /\ UNCHANGED file

\* An armed timer expires
Expire(fd) ==
  /\ file[fd] = "armed"
  /\ file' = [file EXCEPT ![fd] = "expired"]
  /\ ready' = IF interest[fd] # NULL THEN Append(ready, fd) ELSE ready
  /\ UNCHANGED <<epfd, interest, heap, calls, batch>>

-----------------------------------------------------------------------------
\* timer_one_shot_add

Goto(t, label) == pc' = [pc EXCEPT ![t] = label]

\* Where thread t goes on after its call
After(t) == IF t = TimerThread THEN "del" ELSE "idle"

Return(t, result) ==
  /\ Goto(t, After(t))
  /\ offer' = [offer EXCEPT ![t] = NULL]
  /\ answer' = [answer EXCEPT ![t] = result]
  /\ mine' = [mine EXCEPT ![t] = NULL]

Free(a) ==
  /\ allocated' = allocated \ {a}
  /\ timer' = [timer EXCEPT ![a] = Freed]

\* user_data is malloc'ed by the caller: no two timers share it until the callback
\* has passed it on
Spent(a) == pc[TimerThread] \in {"del", "close", "free"} /\ a = Head(batch)
InUse(e) ==
  \/ \E a \in allocated : timer[a].data = e /\ ~Spent(a)
  \/ \E t \in Threads : offer[t] = e

AddCall(t, e) ==
  /\ pc[t] = "idle"
  /\ ~InUse(e)
  /\ Rearm[e] # NULL => ~InUse(Rearm[e])
  /\ Goto(t, "malloc")
  /\ offer' = [offer EXCEPT ![t] = e]
  /\ UNCHANGED <<epfd, kernel, heap, answer, mine, batch>>

\* The early returns: no epoll set, no memory
AddRefused(t) ==
  /\ pc[t] = "malloc"
  /\ epfd < 0 \/ "malloc" \in Faults \/ allocated = TimerAddr
  /\ Return(t, -1)
  /\ UNCHANGED <<epfd, kernel, heap, batch>>

AddMalloc(t) ==
  /\ pc[t] = "malloc"
  /\ epfd >= 0
  /\ \E a \in TimerAddr \ allocated :
       /\ allocated' = allocated \cup {a}
       /\ timer' = [timer EXCEPT ![a] = [tfd |-> -1, data |-> offer[t]]]
       /\ mine' = [mine EXCEPT ![t] = a]
  /\ Goto(t, "create")
  /\ UNCHANGED <<epfd, kernel, offer, answer, batch>>

FreeFds == {fd \in Fds : file[fd] = "free"}

AddCreate(t) ==
  /\ pc[t] = "create"
  /\ \E fd \in FreeFds :
       /\ \A g \in FreeFds : fd <= g
       /\ file' = [file EXCEPT ![fd] = "disarmed"]
       /\ timer' = [timer EXCEPT ![mine[t]].tfd = fd]
  /\ Goto(t, "settime")
  /\ UNCHANGED <<epfd, interest, ready, allocated, offer, answer, mine, batch>>

\* Out of descriptors, or another error
AddCreateFails(t) ==
  /\ pc[t] = "create"
  /\ FreeFds = {} \/ "create" \in Faults
  /\ Free(mine[t])
  /\ Return(t, -1)
  /\ UNCHANGED <<epfd, kernel, batch>>

\* (mutation) it_value 0, what 0 milliseconds would give: never expires
AddSettimeZero(t) ==
  /\ pc[t] = "settime"
  /\ Goto(t, "ctl")
  /\ UNCHANGED <<epfd, kernel, heap, offer, answer, mine, batch>>

\* From here on the timer may expire
AddSettime(t) ==
  /\ pc[t] = "settime"
  /\ file' = [file EXCEPT ![timer[mine[t]].tfd] = "armed"]
  /\ Goto(t, "ctl")
  /\ UNCHANGED <<epfd, interest, ready, heap, offer, answer, mine, batch>>

\* timerfd_settime or epoll_ctl fails: close and free.  epoll_ctl also fails when
\* epfd is a stale number, even if that number has been given to a timerfd.
AddAbandon(t) ==
  /\ \/ pc[t] = "settime" /\ "settime" \in Faults
     \/ pc[t] = "ctl" /\ ("ctl" \in Faults \/ file[epfd] # "epoll")
  /\ CloseFd(timer[mine[t]].tfd)
  /\ Free(mine[t])
  /\ Return(t, -1)
  /\ UNCHANGED <<epfd, batch>>

\* EPOLL_CTL_ADD: an expired timer is ready at once
AddWatch(t) ==
  /\ pc[t] = "ctl"
  /\ file[epfd] = "epoll"
  /\ LET fd == timer[mine[t]].tfd IN
     /\ interest' = [interest EXCEPT ![fd] = mine[t]]
     /\ ready' = IF file[fd] = "expired" THEN Append(ready, fd) ELSE ready
  /\ Return(t, 0)
  /\ UNCHANGED <<epfd, file, heap, batch>>

Add(t) ==
  \/ AddRefused(t) \/ AddMalloc(t)
  \/ AddCreate(t) \/ AddCreateFails(t)
  \/ AddSettime(t) \/ AddAbandon(t) \/ AddWatch(t)

-----------------------------------------------------------------------------
\* timer_thread_func

\* A second has passed, or epoll_wait was interrupted: back to the loop
EpollTimeout ==
  /\ pc[TimerThread] = "wait"
  /\ UNCHANGED vars

\* (mutation) a maxevents larger than the array
EpollWaitTooMany ==
  /\ pc[TimerThread] = "wait"
  /\ ready # <<>>
  /\ batch' = [i \in 1 .. Len(ready) |-> interest[ready[i]]]
  /\ Goto(TimerThread, "read")
  /\ UNCHANGED <<epfd, file, interest, ready, heap, offer, answer, mine>>

\* Level-triggered: what is reported goes to the end of the line
EpollWait ==
  /\ pc[TimerThread] = "wait"
  /\ ready # <<>>
  /\ LET n == IF Len(ready) < MaxEvents THEN Len(ready) ELSE MaxEvents IN
     /\ batch' = [i \in 1 .. n |-> interest[ready[i]]]
     /\ ready' = SubSeq(ready, n + 1, Len(ready)) \o SubSeq(ready, 1, n)
  /\ Goto(TimerThread, "read")
  /\ UNCHANGED <<epfd, file, interest, heap, offer, answer, mine>>

\* The timer whose event is being served
t0 == Head(batch)
fd0 == timer[t0].tfd

\* read: a descriptor without expirations is no longer readable
ReadTimer ==
  /\ pc[TimerThread] = "read"
  /\ file' = [file EXCEPT ![fd0] = "disarmed"]
  /\ ready' = Unlisted(fd0)
  /\ Goto(TimerThread, "callback")
  /\ UNCHANGED <<epfd, interest, heap, offer, answer, mine, batch>>

\* The callback is called ...
Callback ==
  /\ pc[TimerThread] = "callback"
  /\ Goto(TimerThread, IF Rearm[timer[t0].data] = NULL THEN "del" ELSE "rearm")
  /\ UNCHANGED <<epfd, kernel, heap, offer, answer, mine, batch>>

\* ... and transaction_wait_ack_timeout adds the next timer from inside it
CallbackAdd ==
  /\ pc[TimerThread] = "rearm"
  /\ Goto(TimerThread, "malloc")
  /\ offer' = [offer EXCEPT ![TimerThread] = Rearm[timer[t0].data]]
  /\ UNCHANGED <<epfd, kernel, heap, answer, mine, batch>>

NextEvent ==
  /\ batch' = Tail(batch)
  /\ Goto(TimerThread, IF Len(batch) = 1 THEN "wait" ELSE "read")

\* (mutation) close before EPOLL_CTL_DEL: the number may have a new owner
ReleaseClosingFirst ==
  \/ /\ pc[TimerThread] = "del"
     /\ CloseFd(fd0)
     /\ Goto(TimerThread, "close")
     /\ UNCHANGED <<epfd, heap, offer, answer, mine, batch>>
  \/ /\ pc[TimerThread] = "close"
     /\ Unwatch(fd0)
     /\ Goto(TimerThread, "free")
     /\ UNCHANGED <<epfd, heap, offer, answer, mine, batch>>
  \/ /\ pc[TimerThread] = "free"
     /\ Free(t0)
     /\ NextEvent
     /\ UNCHANGED <<epfd, kernel, offer, answer, mine>>

\* EPOLL_CTL_DEL, close, free: in this order
Release ==
  \/ /\ pc[TimerThread] = "del"
     /\ Unwatch(fd0)
     /\ Goto(TimerThread, "close")
     /\ UNCHANGED <<epfd, heap, offer, answer, mine, batch>>
  \/ /\ pc[TimerThread] = "close"
     /\ CloseFd(fd0)
     /\ Goto(TimerThread, "free")
     /\ UNCHANGED <<epfd, heap, offer, answer, mine, batch>>
  \/ /\ pc[TimerThread] = "free"
     /\ Free(t0)
     /\ NextEvent
     /\ UNCHANGED <<epfd, kernel, offer, answer, mine>>

Serve == EpollWait \/ ReadTimer \/ Callback \/ CallbackAdd \/ Release

Next ==
  \/ \E t \in Adders, e \in Roots : AddCall(t, e)
  \/ \E t \in Threads : Add(t)
  \/ Serve
  \/ EpollTimeout
  \/ \E fd \in Fds : Expire(fd)

Spec == Init /\ [][Next]_vars

\* A call goes on, the timer thread goes on, and five seconds pass in the end;
\* no thread has to add a timer.
Fairness ==
  /\ \A t \in Threads : WF_vars(Add(t))
  /\ WF_vars(Serve)
  /\ \A fd \in Fds : WF_vars(Expire(fd))

FairSpec == Spec /\ Fairness

-----------------------------------------------------------------------------
AddSteps == {"malloc", "create", "settime", "ctl"}
ServeSteps == {"read", "callback", "rearm", "del", "close", "free"}

\* Descriptors, timers and calls keep their types.
TypeOK ==
  /\ epfd \in Fds \cup {-1}
  /\ file \in [Fds -> {"free", "epoll", "disarmed", "armed", "expired"}]
  /\ interest \in [Fds -> TimerAddr \cup {NULL}]
  /\ ready \in Seq(Fds)
  /\ allocated \subseteq TimerAddr
  /\ timer \in [TimerAddr -> [tfd : Fds \cup {-1}, data : Events \cup {NULL}]]
  /\ pc \in [Threads -> AddSteps \cup ServeSteps \cup {"idle", "wait", "absent"}]
  /\ offer \in [Threads -> Events \cup {NULL}]
  /\ answer \in [Threads -> {0, -1}]
  /\ mine \in [Threads -> TimerAddr \cup {NULL}]
  /\ batch \in Seq(TimerAddr) /\ Len(batch) <= MaxEvents

\* The timer thread has taken its current timer out of the epoll set
Unwatched == pc[TimerThread] \in {"close", "free"}

\* Who will free timer a: a call that has not handed it over, the epoll set with
\* the events still to be served from it, or the thread that is releasing it
InCall(a) == {t \in Threads : mine[t] = a}
Watched(a) == {fd \in Fds : interest[fd] = a}
Releasing(a) == Unwatched /\ t0 = a

\* A timer is never used after free and never leaked, and neither is its
\* descriptor, although adders and the timer thread share both number spaces and
\* take no lock: whatever epoll_wait reported or may report is an allocated timer
\* under its own descriptor, every allocated timer has exactly one owner, and
\* every timer descriptor that is open belongs to one of them.
TimersOwned ==
  /\ \A a \in allocated :
       \/ InCall(a) # {} /\ Watched(a) = {} /\ ~Releasing(a)
       \/ InCall(a) = {} /\ Watched(a) = {timer[a].tfd} /\ ~Releasing(a)
       \/ InCall(a) = {} /\ Watched(a) = {} /\ Releasing(a)
  /\ \A fd \in Fds :
       /\ interest[fd] # NULL => interest[fd] \in allocated
       /\ file[fd] \in {"disarmed", "armed", "expired"} =>
            \E a \in allocated : timer[a].tfd = fd
  /\ \A i \in DOMAIN batch :
       /\ batch[i] \in allocated
       /\ \A j \in DOMAIN batch : batch[i] = batch[j] => i = j
       /\ i > 1 => Watched(batch[i]) # {}

\* main goes on when timer_one_shot_init has failed, and epfd may then be the number
\* of some other descriptor, a timerfd for instance: still no call tells its caller
\* that the timer is set, as no thread would ever serve it.
NoThreadNoTimer ==
  pc[TimerThread] = "absent" => \A fd \in Fds : interest[fd] = NULL

\* The callback of the current timer was called and has not been released yet
Called == pc[TimerThread] \in AddSteps \cup {"rearm", "del"}

\* The accepted timers whose callback was not called, and their events
Waiting == {a \in allocated : Watched(a) # {} /\ ~(Called /\ a = t0)}

\* timer_manager.c implements OneShotTimers: an add takes effect when epoll_ctl
\* does, a timer fires when its callback is called, exactly once.
Timers == INSTANCE OneShotTimers WITH
  waiting <- {timer[a].data : a \in Waiting},
  running <- IF Called THEN timer[t0].data ELSE NULL
ImplementsTimers == Timers!Spec

\* A timer that was accepted fires in the end, whether it expired before or after
\* epoll_ctl, and however many others are ready.
AcceptedFires ==
  \A e \in Events :
    (\E a \in Waiting : timer[a].data = e)
      ~> (pc[TimerThread] = "callback" /\ timer[t0].data = e)
=============================================================================
