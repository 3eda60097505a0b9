------------------------- MODULE TimerManagerProofs -------------------------
(***************************************************************************)
(* Proofs about TimerManager, for every number of threads, descriptors and *)
(* timers.                                                                 *)
(*                                                                         *)
(* The first part: when timer_one_shot_init has failed there is no timer   *)
(* thread, and main goes on: every later timer_one_shot_add must then say  *)
(* no.                                                                     *)
(*                                                                         *)
(* The second part: every timer_s and every timerfd has one owner at a     *)
(* time, although adders and the timer thread share both number spaces and *)
(* take no lock.  TimersOwned is not inductive: a descriptor number says   *)
(* whose timer it is only together with the step its owner has reached.    *)
(* OInv adds what each step knows: which thread holds which timer, that a  *)
(* descriptor number belongs to one timer from timerfd_create to close     *)
(* (and not after it, when the number may already be another timer's), and *)
(* that what is ready, or reported and not yet served, is in the epoll set *)
(* under the number its timer_s says.                                      *)
(***************************************************************************)
EXTENDS TimerManager, SequenceTheorems, TLAPS

-----------------------------------------------------------------------------
\* After a failed start

Files == {"free", "epoll", "disarmed", "armed", "expired"}

\* The part of the types that the argument reads
Typed ==
  /\ epfd \in Fds \cup {-1}
  /\ file \in [Fds -> Files]
  /\ DOMAIN interest = Fds
  /\ DOMAIN pc = Threads

\* Without a timer thread there is no epoll set either, and nothing makes one: this
\* is what refuses the timers, whether epfd is -1 or the number of another file.
NoThreadNoEpoll ==
  pc[TimerThread] = "absent" =>
    /\ \A fd \in Fds : file[fd] # "epoll"
    /\ NoThreadNoTimer

\* A call that gets past the test of epfd has a descriptor number, be it a stale one
NumberTested == \A t \in Threads : pc[t] \in {"create", "settime", "ctl"} => epfd \in Fds

TInv == Typed /\ NoThreadNoEpoll /\ NumberTested

\* A started server has its thread; a failed start leaves no epoll set behind.
LEMMA InitTInv == Init => TInv
<1> SUFFICES ASSUME NEW e \in {0, -1}, NEW f \in {"free", "epoll"},
                    NEW thread \in {"wait", "absent"}, InitWith(e, f, thread),
                    thread = "absent" => f = "free"
             PROVE  TInv
  BY DEF Init, Started, NoEpoll, NoThread
<1>1. 0 \in Fds
  BY TimerAssumption DEF Fds
<1>2. Typed
  BY <1>1 DEF InitWith, Typed, Files
<1>3. pc[TimerThread] = thread
  BY DEF InitWith, Threads
<1>4. NoThreadNoEpoll
  BY <1>3 DEF InitWith, NoThreadNoEpoll, NoThreadNoTimer
<1>5. NumberTested
  BY DEF InitWith, NumberTested
<1> QED
  BY <1>2, <1>4, <1>5 DEF TInv

\* A step that opens no epoll set, watches nothing new and does not end the timer
\* thread keeps the invariant.
LEMMA Quiet ==
  ASSUME TInv, epfd' = epfd, NumberTested',
         file' \in [Fds -> Files],
         DOMAIN interest' = Fds,
         DOMAIN pc' = Threads,
         pc'[TimerThread] = "absent" => pc[TimerThread] = "absent",
         \A fd \in Fds : file'[fd] = "epoll" => file[fd] = "epoll",
         \A fd \in Fds : interest'[fd] # NULL => interest[fd] # NULL
  PROVE  TInv'
<1>1. Typed'
  BY DEF TInv, Typed
<1>2. NoThreadNoEpoll'
  BY DEF TInv, NoThreadNoEpoll, NoThreadNoTimer
<1> QED
  BY <1>1, <1>2 DEF TInv

\* A step of thread t to a label other than "absent"; a label behind the test of epfd
\* is reached only with a descriptor number.
LEMMA GotoKeeps ==
  ASSUME TInv, NEW t \in Threads, NEW label, label # "absent", Goto(t, label),
         epfd' = epfd, label \in {"create", "settime", "ctl"} => epfd \in Fds
  PROVE  /\ DOMAIN pc' = Threads
         /\ pc'[TimerThread] = "absent" => pc[TimerThread] = "absent"
         /\ NumberTested'
<1>1. DOMAIN pc' = Threads /\ \A u \in Threads : pc'[u] = IF u = t THEN label ELSE pc[u]
  BY DEF TInv, Typed, Goto
<1>2. TimerThread \in Threads
  BY DEF Threads
<1> QED
  BY <1>1, <1>2 DEF TInv, NumberTested

\* Where a call goes on, "del" or "idle".
LEMMA AfterLabel == \A t \in Threads : After(t) \notin {"absent", "create", "settime", "ctl"}
  BY DEF After

LEMMA ReturnKeeps ==
  ASSUME TInv, NEW t \in Threads, NEW result, Return(t, result), epfd' = epfd
  PROVE  /\ DOMAIN pc' = Threads
         /\ pc'[TimerThread] = "absent" => pc[TimerThread] = "absent"
         /\ NumberTested'
<1>1. Goto(t, After(t))
  BY DEF Return
<1> QED
  BY <1>1, AfterLabel, GotoKeeps

\* close and EPOLL_CTL_DEL only take away.
LEMMA CloseTakesAway ==
  ASSUME TInv, NEW fd, CloseFd(fd) \/ Unwatch(fd)
  PROVE  /\ file' \in [Fds -> Files] /\ DOMAIN interest' = Fds
         /\ \A g \in Fds : file'[g] = "epoll" => file[g] = "epoll"
         /\ \A g \in Fds : interest'[g] # NULL => interest[g] # NULL
<1>1. CASE CloseFd(fd)
  BY <1>1 DEF TInv, Typed, CloseFd, Files
<1>2. CASE Unwatch(fd)
  BY <1>2 DEF TInv, Typed, Unwatch
<1> QED
  BY <1>1, <1>2

\* A descriptor becomes a timerfd in one of its states: no epoll set comes into being.
LEMMA TimerFileKeeps ==
  ASSUME TInv, NEW fd, NEW f \in {"disarmed", "armed", "expired"},
         file' = [file EXCEPT ![fd] = f]
  PROVE  file' \in [Fds -> Files] /\ \A g \in Fds : file'[g] = "epoll" => file[g] = "epoll"
  BY DEF TInv, Typed, Files

\* Every step of timer_one_shot_add.  Only AddWatch enters something into the epoll
\* set, and it needs one: epoll_ctl fails on any other file.
LEMMA AddKeeps ==
  ASSUME TInv, NEW t \in Threads, Add(t)
  PROVE  TInv'
<1>0. pc[t] \in {"create", "settime", "ctl"} => epfd \in Fds
  BY DEF TInv, NumberTested
<1>1. CASE AddRefused(t)
  <2>1. epfd' = epfd /\ file' = file /\ interest' = interest /\ Return(t, -1)
    BY <1>1 DEF AddRefused, kernel
  <2> QED
    BY <2>1, ReturnKeeps, Quiet DEF TInv, Typed
<1>2. CASE AddMalloc(t)
  <2>1. epfd' = epfd /\ file' = file /\ interest' = interest /\ Goto(t, "create")
    BY <1>2 DEF AddMalloc, kernel
  <2>2. epfd \in Fds
    BY <1>2 DEF AddMalloc, TInv, Typed
  <2> QED
    BY <2>1, <2>2, GotoKeeps, Quiet DEF TInv, Typed
<1>3. CASE AddCreate(t)
  <2>1. epfd' = epfd /\ interest' = interest /\ Goto(t, "settime") /\ epfd \in Fds
    BY <1>0, <1>3 DEF AddCreate
  <2>2. PICK fd \in Fds : file' = [file EXCEPT ![fd] = "disarmed"]
    BY <1>3 DEF AddCreate, FreeFds
  <2> QED
    BY <2>1, <2>2, TimerFileKeeps, GotoKeeps, Quiet DEF TInv, Typed
<1>4. CASE AddCreateFails(t)
  <2>1. epfd' = epfd /\ file' = file /\ interest' = interest /\ Return(t, -1)
    BY <1>4 DEF AddCreateFails, kernel
  <2> QED
    BY <2>1, ReturnKeeps, Quiet DEF TInv, Typed
<1>5. CASE AddSettime(t)
  <2>1. epfd' = epfd /\ interest' = interest /\ Goto(t, "ctl") /\ epfd \in Fds
    BY <1>0, <1>5 DEF AddSettime
  <2>2. file' = [file EXCEPT ![timer[mine[t]].tfd] = "armed"]
    BY <1>5 DEF AddSettime
  <2> QED
    BY <2>1, <2>2, TimerFileKeeps, GotoKeeps, Quiet DEF TInv, Typed
<1>6. CASE AddAbandon(t)
  <2>1. epfd' = epfd /\ CloseFd(timer[mine[t]].tfd) /\ Return(t, -1)
    BY <1>6 DEF AddAbandon
  <2> QED
    BY <2>1, CloseTakesAway, ReturnKeeps, Quiet
<1>7. CASE AddWatch(t)
  <2>1. epfd' = epfd /\ file' = file /\ Return(t, 0) /\ file[epfd] = "epoll" /\ epfd \in Fds
    BY <1>0, <1>7 DEF AddWatch
  <2>2. DOMAIN interest' = Fds
    BY <1>7 DEF AddWatch, TInv, Typed
  <2>3. pc[TimerThread] # "absent"
    BY <2>1 DEF TInv, NoThreadNoEpoll
  <2>4. pc'[TimerThread] # "absent" /\ DOMAIN pc' = Threads /\ NumberTested'
    BY <2>1, <2>3, ReturnKeeps
  <2> QED
    BY <2>1, <2>2, <2>4 DEF TInv, Typed, NoThreadNoEpoll
<1> QED
  BY <1>1, <1>2, <1>3, <1>4, <1>5, <1>6, <1>7 DEF Add

\* Every step of timer_thread_func: it watches nothing and goes from label to label.
LEMMA ServeKeeps ==
  ASSUME TInv, Serve
  PROVE  TInv'
<1> DEFINE Kept == /\ file' \in [Fds -> Files] /\ DOMAIN interest' = Fds
                   /\ \A g \in Fds : file'[g] = "epoll" => file[g] = "epoll"
                   /\ \A g \in Fds : interest'[g] # NULL => interest[g] # NULL
           Labels == {"read", "callback", "rearm", "del", "malloc", "close", "free", "wait"}
<1>0. TimerThread \in Threads /\ (file' = file /\ interest' = interest => Kept)
  BY DEF Threads, TInv, Typed
<1>1. epfd' = epfd /\ Kept /\ \E label \in Labels : Goto(TimerThread, label)
  <2>1. CASE EpollWait
    BY <2>1, <1>0 DEF EpollWait
  <2>2. CASE ReadTimer
    <3>1. file' = [file EXCEPT ![fd0] = "disarmed"] /\ interest' = interest
      BY <2>2 DEF ReadTimer
    <3> QED
      BY <2>2, <3>1, TimerFileKeeps DEF ReadTimer, TInv, Typed
  <2>3. CASE Callback
    BY <2>3, <1>0 DEF Callback, kernel
  <2>4. CASE CallbackAdd
    BY <2>4, <1>0 DEF CallbackAdd, kernel
  <2>5. CASE Release
    <3>1. epfd' = epfd /\ \E label \in Labels : Goto(TimerThread, label)
      BY <2>5 DEF Release, NextEvent
    <3>2. CloseFd(fd0) \/ Unwatch(fd0) \/ (file' = file /\ interest' = interest)
      BY <2>5 DEF Release, kernel
    <3> QED
      BY <1>0, <3>1, <3>2, CloseTakesAway
  <2> QED
    BY <2>1, <2>2, <2>3, <2>4, <2>5 DEF Serve
<1>2. PICK label \in Labels : Goto(TimerThread, label)
  BY <1>1
<1>3. label # "absent" /\ label \notin {"create", "settime", "ctl"}
  OBVIOUS
<1> QED
  BY <1>0, <1>1, <1>2, <1>3, GotoKeeps, Quiet

\* A step of the server, or a stutter, keeps TInv.
LEMMA StepTInv == TInv /\ [Next]_vars => TInv'
<1> SUFFICES ASSUME TInv, [Next]_vars PROVE TInv'
  OBVIOUS
<1>1. CASE UNCHANGED vars
  <2>1. epfd' = epfd /\ file' = file /\ interest' = interest /\ pc' = pc
    BY <1>1 DEF vars, kernel, calls
  <2> QED
    BY <2>1 DEF TInv, Typed, NoThreadNoEpoll, NoThreadNoTimer, NumberTested
<1>2. CASE \E t \in Adders, e \in Roots : AddCall(t, e)
  <2>1. PICK t \in Adders : Goto(t, "malloc") /\ epfd' = epfd /\ file' = file /\ interest' = interest
    BY <1>2 DEF AddCall, kernel
  <2> QED
    BY <2>1, GotoKeeps, Quiet DEF TInv, Typed, Threads
<1>3. CASE \E t \in Threads : Add(t)
  BY <1>3, AddKeeps
<1>4. CASE Serve
  BY <1>4, ServeKeeps
<1>5. CASE EpollTimeout
  BY <1>5, <1>1 DEF EpollTimeout
<1>6. CASE \E fd \in Fds : Expire(fd)
  <2>1. PICK fd \in Fds : file' = [file EXCEPT ![fd] = "expired"]
    BY <1>6 DEF Expire
  <2>2. epfd' = epfd /\ interest' = interest /\ pc' = pc
    BY <1>6 DEF Expire, calls
  <2> QED
    BY <2>1, <2>2, TimerFileKeeps, Quiet DEF TInv, Typed, NumberTested
<1> QED
  BY <1>1, <1>2, <1>3, <1>4, <1>5, <1>6 DEF Next

\* timer_one_shot_add accepts nothing when timer_one_shot_init has failed, not even
\* when epfd is by now the number of a timerfd.
THEOREM FailedStartRefuses == Spec => []NoThreadNoTimer
<1>1. TInv => NoThreadNoTimer
  BY DEF TInv, NoThreadNoEpoll, NoThreadNoTimer
<1> QED
  BY <1>1, InitTInv, StepTInv, PTL DEF Spec

-----------------------------------------------------------------------------
\* Who owns a timer

TimerFiles == {"disarmed", "armed", "expired"}

\* The steps of timer_one_shot_add between malloc and the return
Holding == {"create", "settime", "ctl"}

\* The timer whose descriptor is closed and whose timer_s is not freed yet: the
\* number it remembers may be another timer's by now.
Gone(a) == pc[TimerThread] = "free" /\ a = t0

\* The labels each thread can be at, and what it holds there
Labels ==
  /\ \A t \in Adders : pc[t] \in AddSteps \cup {"idle"}
  /\ pc[TimerThread] \in AddSteps \cup ServeSteps \cup {"wait", "absent"}
  /\ \A t \in Threads : offer[t] # NULL <=> pc[t] \in AddSteps
  /\ \A t \in Threads : mine[t] # NULL <=> pc[t] \in Holding

\* A timer that timer_one_shot_add is still setting up is that call's alone, and
\* nothing watches its descriptor.
CallTimers ==
  \A t \in Threads : mine[t] # NULL =>
    /\ mine[t] \in allocated
    /\ \A u \in Threads : mine[u] = mine[t] => u = t
    /\ timer[mine[t]].data = offer[t]
    /\ pc[t] = "create" <=> timer[mine[t]].tfd = -1
    /\ pc[t] # "create" => interest[timer[mine[t]].tfd] = NULL

\* A descriptor number belongs to one timer from timerfd_create to close.
Descriptors ==
  /\ \A a \in allocated : timer[a].tfd # -1 /\ ~Gone(a) => file[timer[a].tfd] \in TimerFiles
  /\ \A a, b \in allocated :
       timer[a].tfd # -1 /\ timer[a].tfd = timer[b].tfd /\ ~Gone(a) /\ ~Gone(b) => a = b
  /\ \A fd \in Fds : file[fd] \in TimerFiles =>
       \E a \in allocated : timer[a].tfd = fd /\ ~Gone(a)

\* The epoll set holds live timers under their own descriptors, and a timer that is
\* in no call is there until it is released.
Watches ==
  /\ \A fd \in Fds : interest[fd] # NULL =>
       /\ interest[fd] \in allocated
       /\ timer[interest[fd]].tfd = fd
       /\ ~Releasing(interest[fd])
  /\ \A a \in allocated : (\A t \in Threads : mine[t] # a) /\ ~Releasing(a) =>
       timer[a].tfd # -1 /\ interest[timer[a].tfd] = a

\* What epoll_wait has reported and is not served yet
Reported ==
  /\ batch = <<>> <=> pc[TimerThread] \in {"wait", "absent"}
  /\ \A i \in DOMAIN batch :
       /\ batch[i] \in allocated
       /\ \A t \in Threads : mine[t] # batch[i]
       /\ timer[batch[i]].tfd # -1
       /\ i > 1 \/ ~Unwatched => interest[timer[batch[i]].tfd] = batch[i]
       /\ \A j \in DOMAIN batch : batch[i] = batch[j] => i = j

\* What epoll_wait will report
Readable ==
  \A i \in DOMAIN ready :
    /\ interest[ready[i]] # NULL
    /\ file[ready[i]] = "expired"
    /\ \A j \in DOMAIN ready : ready[i] = ready[j] => i = j

\* Every timer has an event, and a callback that adds a timer has one to add.
HasEvent ==
  /\ \A a \in allocated : timer[a].data # NULL
  /\ pc[TimerThread] \in AddSteps \cup {"rearm"} => Rearm[timer[t0].data] # NULL

OInv ==
  /\ TypeOK
  /\ Labels
  /\ CallTimers
  /\ Descriptors
  /\ Watches
  /\ Reported
  /\ Readable
  /\ HasEvent

-----------------------------------------------------------------------------
\* The ready list: what is taken from it keeps its other members, each once.

LEMMA RemoveAtIs ==
  ASSUME NEW S, NEW s \in Seq(S), NEW i \in 1 .. Len(s)
  PROVE  /\ RemoveAt(s, i) \in Seq(S)
         /\ Len(RemoveAt(s, i)) = Len(s) - 1
         /\ \A k \in 1 .. Len(s) - 1 : RemoveAt(s, i)[k] = IF k < i THEN s[k] ELSE s[k + 1]
<1> DEFINE p == SubSeq(s, 1, i - 1)
           q == SubSeq(s, i + 1, Len(s))
<1>0. Len(s) \in Nat /\ i \in Int /\ \A k \in 1 .. Len(s) : s[k] \in S
  OBVIOUS
<1>1. p \in Seq(S) /\ Len(p) = i - 1 /\ \A k \in 1 .. i - 1 : p[k] = s[k]
  <2>1. \A k \in 1 .. i - 1 : s[k] \in S
    BY <1>0
  <2>2. /\ p \in Seq(S)
        /\ Len(p) = IF 1 <= i - 1 THEN (i - 1) - 1 + 1 ELSE 0
        /\ \A k \in 1 .. (i - 1) - 1 + 1 : p[k] = s[1 + k - 1]
    BY <1>0, <2>1, SubSeqProperties
  <2> QED
    BY <1>0, <2>2
<1>2. q \in Seq(S) /\ Len(q) = Len(s) - i /\ \A k \in 1 .. Len(s) - i : q[k] = s[k + i]
  <2>1. \A k \in i + 1 .. Len(s) : s[k] \in S
    BY <1>0
  <2>2. /\ q \in Seq(S)
        /\ Len(q) = IF i + 1 <= Len(s) THEN Len(s) - (i + 1) + 1 ELSE 0
        /\ \A k \in 1 .. Len(s) - (i + 1) + 1 : q[k] = s[(i + 1) + k - 1]
    BY <1>0, <2>1, SubSeqProperties
  <2> QED
    BY <1>0, <2>2
<1>3. RemoveAt(s, i) = p \o q
  BY DEF RemoveAt
<1> HIDE DEF p, q
<1>4. /\ p \o q \in Seq(S) /\ Len(p \o q) = Len(p) + Len(q)
      /\ \A k \in 1 .. Len(p) + Len(q) :
           (p \o q)[k] = IF k <= Len(p) THEN p[k] ELSE q[k - Len(p)]
  BY <1>1, <1>2, ConcatProperties
<1>5. \A k \in 1 .. Len(s) - 1 : (p \o q)[k] = IF k < i THEN s[k] ELSE s[k + 1]
  <2> TAKE k \in 1 .. Len(s) - 1
  <2>1. CASE k < i
    BY <1>0, <1>1, <1>2, <1>4, <2>1
  <2>2. CASE ~(k < i)
    <3>1. (p \o q)[k] = q[k - (i - 1)] /\ k - (i - 1) \in 1 .. Len(s) - i
      BY <1>0, <1>1, <1>2, <1>4, <2>2
    <3>2. q[k - (i - 1)] = s[(k - (i - 1)) + i] /\ (k - (i - 1)) + i = k + 1
      BY <1>0, <1>2, <3>1
    <3> QED
      BY <2>2, <3>1, <3>2
  <2> QED
    BY <2>1, <2>2
<1>6. Len(p \o q) = Len(s) - 1
  BY <1>0, <1>1, <1>2, <1>4
<1> QED
  BY <1>3, <1>4, <1>5, <1>6

\* r has members of s, each once if s has each once.
Thins(r, s) ==
  /\ DOMAIN r = 1 .. Len(r)
  /\ \A i \in DOMAIN r : \E k \in DOMAIN s : r[i] = s[k]
  /\ (\A i, j \in DOMAIN s : s[i] = s[j] => i = j)
       => \A i, j \in DOMAIN r : r[i] = r[j] => i = j

LEMMA UnlistedIs ==
  ASSUME ready \in Seq(Fds), NEW fd,
         \A i, j \in DOMAIN ready : ready[i] = ready[j] => i = j
  PROVE  /\ Unlisted(fd) \in Seq(Fds)
         /\ Thins(Unlisted(fd), ready)
         /\ \A i \in DOMAIN Unlisted(fd) : Unlisted(fd)[i] # fd
<1>1. CASE ~\E i \in DOMAIN ready : ready[i] = fd
  <2>1. Unlisted(fd) = ready
    BY <1>1 DEF Unlisted
  <2> QED
    BY <1>1, <2>1 DEF Thins
<1>2. CASE \E i \in DOMAIN ready : ready[i] = fd
  <2> DEFINE n == CHOOSE i \in DOMAIN ready : ready[i] = fd
  <2>1. n \in 1 .. Len(ready) /\ ready[n] = fd
    BY <1>2
  <2>2. Unlisted(fd) = RemoveAt(ready, n)
    BY <1>2 DEF Unlisted
  <2> HIDE DEF n
  <2> DEFINE r == RemoveAt(ready, n)
  <2>3. /\ r \in Seq(Fds) /\ Len(r) = Len(ready) - 1
        /\ \A k \in 1 .. Len(ready) - 1 : r[k] = IF k < n THEN ready[k] ELSE ready[k + 1]
    BY <2>1, RemoveAtIs
  <2> HIDE DEF r
  <2>4. DOMAIN r = 1 .. Len(ready) - 1 /\ Len(ready) \in Nat /\ DOMAIN ready = 1 .. Len(ready)
    BY <2>3
  <2>5. \A k \in DOMAIN r : \E m \in DOMAIN ready :
          r[k] = ready[m] /\ m # n /\ m = IF k < n THEN k ELSE k + 1
    BY <2>1, <2>3, <2>4
  <2>6. \A k \in DOMAIN r : r[k] # fd
    BY <2>1, <2>4, <2>5
  <2>7. \A i, j \in DOMAIN r : r[i] = r[j] => i = j
    BY <2>1, <2>4, <2>5
  <2> QED
    BY <2>2, <2>3, <2>4, <2>5, <2>6, <2>7 DEF r, Thins
<1> QED
  BY <1>1, <1>2
\* epoll_wait reports the first n and puts them at the end.
LEMMA RotatedIs ==
  ASSUME NEW S, NEW s \in Seq(S), NEW n \in 0 .. Len(s)
  PROVE  LET r == SubSeq(s, n + 1, Len(s)) \o SubSeq(s, 1, n)
         IN  r \in Seq(S) /\ Thins(r, s)
<1> DEFINE p == SubSeq(s, n + 1, Len(s))
           q == SubSeq(s, 1, n)
           r == p \o q
<1>0. Len(s) \in Nat /\ n \in Int /\ \A k \in 1 .. Len(s) : s[k] \in S
  OBVIOUS
<1>1. p \in Seq(S) /\ Len(p) = Len(s) - n /\ \A k \in 1 .. Len(s) - n : p[k] = s[k + n]
  <2>1. \A k \in n + 1 .. Len(s) : s[k] \in S
    BY <1>0
  <2>2. /\ p \in Seq(S)
        /\ Len(p) = IF n + 1 <= Len(s) THEN Len(s) - (n + 1) + 1 ELSE 0
        /\ \A k \in 1 .. Len(s) - (n + 1) + 1 : p[k] = s[(n + 1) + k - 1]
    BY <1>0, <2>1, SubSeqProperties
  <2> QED
    BY <1>0, <2>2
<1>2. q \in Seq(S) /\ Len(q) = n /\ \A k \in 1 .. n : q[k] = s[k]
  <2>1. \A k \in 1 .. n : s[k] \in S
    BY <1>0
  <2>2. /\ q \in Seq(S)
        /\ Len(q) = IF 1 <= n THEN n - 1 + 1 ELSE 0
        /\ \A k \in 1 .. n - 1 + 1 : q[k] = s[1 + k - 1]
    BY <1>0, <2>1, SubSeqProperties
  <2> QED
    BY <1>0, <2>2
<1> HIDE DEF p, q
<1>3. /\ r \in Seq(S) /\ Len(r) = Len(p) + Len(q)
      /\ \A k \in 1 .. Len(p) + Len(q) : r[k] = IF k <= Len(p) THEN p[k] ELSE q[k - Len(p)]
  BY <1>1, <1>2, ConcatProperties
<1> HIDE DEF r
<1>4. Len(r) = Len(s) /\ DOMAIN r = 1 .. Len(s) /\ DOMAIN s = 1 .. Len(s)
  BY <1>0, <1>1, <1>2, <1>3
<1>5. \A k \in DOMAIN r : \E m \in DOMAIN s :
        r[k] = s[m] /\ m = IF k <= Len(s) - n THEN k + n ELSE k - (Len(s) - n)
  <2> TAKE k \in DOMAIN r
  <2>1. CASE k <= Len(s) - n
    <3>1. k \in 1 .. Len(p) + Len(q) /\ k <= Len(p) /\ k \in 1 .. Len(s) - n
      BY <1>0, <1>1, <1>2, <1>4, <2>1
    <3>2. r[k] = p[k]
      BY <1>3, <3>1
    <3>3. r[k] = s[k + n] /\ k + n \in DOMAIN s
      BY <1>0, <1>1, <1>4, <3>1, <3>2
    <3> QED
      BY <2>1, <3>3
  <2>2. CASE ~(k <= Len(s) - n)
    <3>1. r[k] = q[k - (Len(s) - n)] /\ k - (Len(s) - n) \in 1 .. n
      BY <1>0, <1>1, <1>2, <1>3, <1>4, <2>2
    <3>2. r[k] = s[k - (Len(s) - n)] /\ k - (Len(s) - n) \in DOMAIN s
      BY <1>0, <1>2, <1>4, <3>1
    <3> QED
      BY <2>2, <3>2
  <2> QED
    BY <2>1, <2>2
<1>6. (\A i, j \in DOMAIN s : s[i] = s[j] => i = j)
        => \A i, j \in DOMAIN r : r[i] = r[j] => i = j
  <2> SUFFICES ASSUME \A i, j \in DOMAIN s : s[i] = s[j] => i = j,
                      NEW i \in DOMAIN r, NEW j \in DOMAIN r, r[i] = r[j]
               PROVE  i = j
    OBVIOUS
  <2> DEFINE At(k) == IF k <= Len(s) - n THEN k + n ELSE k - (Len(s) - n)
  <2>1. At(i) \in DOMAIN s /\ At(j) \in DOMAIN s /\ r[i] = s[At(i)] /\ r[j] = s[At(j)]
    BY <1>5
  <2>2. At(i) = At(j)
    BY <2>1
  <2>3. i \in 1 .. Len(s) /\ j \in 1 .. Len(s)
    BY <1>4
  <2> QED
    BY <1>0, <2>2, <2>3
<1>7. Thins(r, s)
  BY <1>4, <1>5, <1>6 DEF Thins
<1> QED
  BY <1>3, <1>7 DEF r, p, q

LEMMA ReadableKeeps ==
  ASSUME Readable, Thins(ready', ready),
         \A i \in DOMAIN ready' :
           interest[ready'[i]] # NULL /\ file[ready'[i]] = "expired"
             => interest'[ready'[i]] # NULL /\ file'[ready'[i]] = "expired"
  PROVE  Readable'
BY DEF Readable, Thins

-----------------------------------------------------------------------------
\* What every step below reads in the invariant

LEMMA ThreadFacts ==
  /\ TimerThread \in Threads
  /\ \A t \in Adders : t \in Threads /\ t # TimerThread
  /\ \A t \in Threads : t = TimerThread \/ t \in Adders
  /\ NULL \notin TimerAddr /\ NULL \notin Events /\ -1 \notin Fds
BY TimerAssumption DEF Threads, Fds

LEMMA CurrentTimer ==
  ASSUME OInv, pc[TimerThread] \notin {"wait", "absent"}
  PROVE  /\ Len(batch) \in Nat \ {0} /\ DOMAIN batch = 1 .. Len(batch)
         /\ 1 \in DOMAIN batch /\ t0 = batch[1]
         /\ t0 \in allocated /\ t0 \in TimerAddr /\ fd0 \in Fds
         /\ \A t \in Threads : mine[t] # t0
<1>1. batch \in Seq(TimerAddr) /\ batch # <<>>
  BY DEF OInv, TypeOK, Reported
<1>2. Len(batch) \in Nat \ {0} /\ DOMAIN batch = 1 .. Len(batch) /\ t0 = batch[1]
  BY <1>1 DEF t0
<1>3. 1 \in DOMAIN batch
  BY <1>2
<1>4. batch[1] \in allocated /\ timer[batch[1]].tfd # -1 /\ \A t \in Threads : mine[t] # batch[1]
  BY <1>3 DEF OInv, Reported
<1>5. t0 \in TimerAddr
  BY <1>2, <1>4 DEF OInv, TypeOK
<1>6. timer[t0].tfd \in Fds
  BY <1>2, <1>4, <1>5 DEF OInv, TypeOK
<1> QED
  BY <1>2, <1>3, <1>4, <1>5, <1>6 DEF fd0

\* The timer a call is setting up
LEMMA CallTimer ==
  ASSUME OInv, NEW t \in Threads, pc[t] \in Holding
  PROVE  /\ mine[t] \in allocated /\ mine[t] \in TimerAddr /\ mine[t] # NULL
         /\ \A u \in Threads : mine[u] = mine[t] => u = t
         /\ ~Releasing(mine[t]) /\ ~Gone(mine[t])
         /\ \A i \in DOMAIN batch : batch[i] # mine[t]
         /\ \A fd \in Fds : interest[fd] # mine[t]
         /\ pc[t] = "create" <=> timer[mine[t]].tfd = -1
         /\ pc[t] # "create" => timer[mine[t]].tfd \in Fds /\ file[timer[mine[t]].tfd] \in TimerFiles
                                /\ interest[timer[mine[t]].tfd] = NULL
<1>1. mine[t] # NULL
  BY DEF OInv, Labels
<1>2. /\ mine[t] \in allocated
      /\ \A u \in Threads : mine[u] = mine[t] => u = t
      /\ pc[t] = "create" <=> timer[mine[t]].tfd = -1
      /\ pc[t] # "create" => interest[timer[mine[t]].tfd] = NULL
  BY <1>1 DEF OInv, CallTimers
<1>3. mine[t] \in TimerAddr
  BY <1>2 DEF OInv, TypeOK
<1>4. timer[mine[t]].tfd \in Fds \cup {-1}
  BY <1>3 DEF OInv, TypeOK
<1>5. \A i \in DOMAIN batch : batch[i] # mine[t]
  BY DEF OInv, Reported
<1>6. ~Releasing(mine[t]) /\ ~Gone(mine[t])
  BY CurrentTimer DEF Releasing, Unwatched, Gone
<1>7. \A fd \in Fds : interest[fd] # mine[t]
  <2> SUFFICES ASSUME NEW fd \in Fds, interest[fd] = mine[t] PROVE FALSE
    OBVIOUS
  <2>1. timer[mine[t]].tfd = fd
    BY <1>1 DEF OInv, Watches
  <2> QED
    BY <1>1, <1>2, <2>1, ThreadFacts
<1>8. pc[t] # "create" => file[timer[mine[t]].tfd] \in TimerFiles
  BY <1>2, <1>6 DEF OInv, Descriptors
<1> QED
  BY <1>1, <1>2, <1>3, <1>4, <1>5, <1>6, <1>7, <1>8
-----------------------------------------------------------------------------
\* The initial states

LEMMA InitOInv == Init => OInv
<1> SUFFICES ASSUME NEW e \in {0, -1}, NEW f \in {"free", "epoll"},
                    NEW thread \in {"wait", "absent"}, InitWith(e, f, thread)
             PROVE  OInv
  BY DEF Init, Started, NoEpoll, NoThread
<1>1. 0 \in Fds
  BY TimerAssumption DEF Fds
<1>2. TypeOK
  <2>1. ready \in Seq(Fds) /\ batch \in Seq(TimerAddr) /\ Len(batch) <= MaxEvents
    BY TimerAssumption DEF InitWith
  <2>2. timer \in [TimerAddr -> [tfd : Fds \cup {-1}, data : Events \cup {NULL}]]
    BY DEF InitWith, Freed
  <2> QED
    BY <1>1, <2>1, <2>2 DEF InitWith, TypeOK
<1>3. Labels
  BY ThreadFacts DEF InitWith, Labels, AddSteps, ServeSteps, Holding
<1>4. CallTimers /\ Descriptors /\ Watches
  BY DEF InitWith, CallTimers, Descriptors, Watches, TimerFiles
<1>5. Reported /\ Readable /\ HasEvent
  BY ThreadFacts DEF InitWith, Reported, Readable, HasEvent, AddSteps
<1> QED
  BY <1>2, <1>3, <1>4, <1>5 DEF OInv

-----------------------------------------------------------------------------
\* Steps that move no timer from owner to owner

\* Where a thread's step to another label and a return leave the labels
LEMMA LabelsGoto ==
  ASSUME OInv, NEW t \in Threads, NEW label, Goto(t, label),
         t \in Adders => label \in AddSteps \cup {"idle"},
         t = TimerThread => label \in AddSteps \cup ServeSteps \cup {"wait", "absent"},
         offer' \in [Threads -> Events \cup {NULL}],
         mine' \in [Threads -> TimerAddr \cup {NULL}],
         \A u \in Threads : u # t => offer'[u] = offer[u] /\ mine'[u] = mine[u],
         offer'[t] # NULL <=> label \in AddSteps,
         mine'[t] # NULL <=> label \in Holding
  PROVE  /\ Labels'
         /\ pc' \in [Threads -> AddSteps \cup ServeSteps \cup {"idle", "wait", "absent"}]
         /\ pc'[t] = label
         /\ \A u \in Threads : u # t => pc'[u] = pc[u]
<1>1. pc \in [Threads -> AddSteps \cup ServeSteps \cup {"idle", "wait", "absent"}]
  BY DEF OInv, TypeOK
<1>2. pc'[t] = label /\ (\A u \in Threads : u # t => pc'[u] = pc[u]) /\ DOMAIN pc' = Threads
  BY <1>1 DEF Goto
<1>3. label \in AddSteps \cup ServeSteps \cup {"idle", "wait", "absent"}
  BY ThreadFacts
<1>4. pc' \in [Threads -> AddSteps \cup ServeSteps \cup {"idle", "wait", "absent"}]
  BY <1>1, <1>3 DEF Goto
<1>5. Labels'
  BY <1>2, ThreadFacts DEF OInv, Labels
<1> QED
  BY <1>2, <1>4, <1>5

\* A step that leaves timers, epoll entries and the batch where they are, and turns
\* no descriptor into a timerfd or back.
LEMMA NothingMoves ==
  ASSUME OInv, TypeOK', Labels', Readable',
         UNCHANGED <<interest, allocated, timer, mine, batch>>,
         \A fd \in Fds : file'[fd] \in TimerFiles <=> file[fd] \in TimerFiles,
         \A t \in Threads : mine[t] # NULL =>
           /\ offer'[t] = offer[t]
           /\ pc'[t] = "create" <=> pc[t] = "create",
         \/ pc'[TimerThread] = pc[TimerThread]
         \/ {pc[TimerThread], pc'[TimerThread]} \cap {"wait", "absent", "close", "free"} = {},
         pc'[TimerThread] \in AddSteps \cup {"rearm"} =>
           \/ pc[TimerThread] \in AddSteps \cup {"rearm"}
           \/ Rearm[timer[t0].data] # NULL
  PROVE  OInv'
<1>1. /\ Unwatched' <=> Unwatched
      /\ \A a : Gone(a)' <=> Gone(a)
      /\ \A a : Releasing(a)' <=> Releasing(a)
      /\ pc'[TimerThread] \in {"wait", "absent"} <=> pc[TimerThread] \in {"wait", "absent"}
  BY DEF Unwatched, Gone, Releasing, t0
<1>2. CallTimers'
  BY DEF OInv, CallTimers
<1>3. Descriptors'
  BY <1>1 DEF OInv, Descriptors, TypeOK
<1>4. Watches'
  BY <1>1 DEF OInv, Watches
<1>5. Reported'
  BY <1>1 DEF OInv, Reported
<1>6. HasEvent'
  BY DEF OInv, HasEvent, t0
<1> QED
  BY <1>2, <1>3, <1>4, <1>5, <1>6 DEF OInv
LEMMA ReturnLabels ==
  ASSUME OInv, NEW t \in Threads, NEW result \in {0, -1}, Return(t, result)
  PROVE  /\ Labels'
         /\ pc' \in [Threads -> AddSteps \cup ServeSteps \cup {"idle", "wait", "absent"}]
         /\ offer' \in [Threads -> Events \cup {NULL}]
         /\ answer' \in [Threads -> {0, -1}]
         /\ mine' \in [Threads -> TimerAddr \cup {NULL}]
         /\ pc'[t] = After(t) /\ offer'[t] = NULL /\ mine'[t] = NULL
         /\ \A u \in Threads : u # t => pc'[u] = pc[u] /\ offer'[u] = offer[u] /\ mine'[u] = mine[u]
<1>1. /\ offer \in [Threads -> Events \cup {NULL}]
      /\ answer \in [Threads -> {0, -1}]
      /\ mine \in [Threads -> TimerAddr \cup {NULL}]
  BY DEF OInv, TypeOK
<1>2. offer' \in [Threads -> Events \cup {NULL}] /\ offer'[t] = NULL
        /\ \A u \in Threads : u # t => offer'[u] = offer[u]
  BY <1>1 DEF Return
<1>3. mine' \in [Threads -> TimerAddr \cup {NULL}] /\ mine'[t] = NULL
        /\ \A u \in Threads : u # t => mine'[u] = mine[u]
  BY <1>1 DEF Return
<1>4. answer' \in [Threads -> {0, -1}]
  BY <1>1 DEF Return
<1>5. Goto(t, After(t)) /\ (t = TimerThread => After(t) = "del") /\ (t \in Adders => After(t) = "idle")
  BY ThreadFacts DEF Return, After
<1>6. /\ t \in Adders => After(t) \in AddSteps \cup {"idle"}
      /\ t = TimerThread => After(t) \in AddSteps \cup ServeSteps \cup {"wait", "absent"}
      /\ After(t) \notin AddSteps /\ After(t) \notin Holding
  BY <1>5, ThreadFacts DEF AddSteps, ServeSteps, Holding
<1>7. /\ offer'[t] # NULL <=> After(t) \in AddSteps
      /\ mine'[t] # NULL <=> After(t) \in Holding
  BY <1>2, <1>3, <1>6
<1>8. /\ Labels'
      /\ pc' \in [Threads -> AddSteps \cup ServeSteps \cup {"idle", "wait", "absent"}]
      /\ pc'[t] = After(t)
      /\ \A u \in Threads : u # t => pc'[u] = pc[u]
  BY <1>2, <1>3, <1>5, <1>6, <1>7, LabelsGoto
<1> QED
  BY <1>2, <1>3, <1>4, <1>8

LEMMA AddCallOwned ==
  ASSUME OInv, NEW t \in Adders, NEW e \in Roots, AddCall(t, e)
  PROVE  OInv'
<1>1. /\ t \in Threads /\ t # TimerThread /\ e \in Events /\ e # NULL
      /\ pc[t] = "idle" /\ mine[t] = NULL
  BY ThreadFacts, TimerAssumption DEF AddCall, OInv, Labels, Holding
<1>2. UNCHANGED <<epfd, file, interest, ready, allocated, timer, answer, mine, batch>>
  BY DEF AddCall, kernel, heap
<1>3. /\ offer' \in [Threads -> Events \cup {NULL}] /\ offer'[t] = e
      /\ \A u \in Threads : u # t => offer'[u] = offer[u]
  BY <1>1 DEF AddCall, OInv, TypeOK
<1>4. Goto(t, "malloc") /\ "malloc" \in AddSteps /\ "malloc" \notin Holding
  BY DEF AddCall, AddSteps, Holding
<1>5. mine' \in [Threads -> TimerAddr \cup {NULL}]
  BY <1>2 DEF OInv, TypeOK
<1>6. /\ Labels'
      /\ pc' \in [Threads -> AddSteps \cup ServeSteps \cup {"idle", "wait", "absent"}]
      /\ \A u \in Threads : u # t => pc'[u] = pc[u]
  BY <1>1, <1>2, <1>3, <1>4, <1>5, LabelsGoto
<1>7. TypeOK'
  BY <1>2, <1>3, <1>6 DEF OInv, TypeOK
<1>8. Readable'
  BY <1>2 DEF OInv, Readable
<1>9. pc'[TimerThread] = pc[TimerThread]
  BY <1>1, <1>6, ThreadFacts
<1> QED
  BY <1>1, <1>2, <1>3, <1>6, <1>7, <1>8, <1>9, NothingMoves

LEMMA AddRefusedOwned ==
  ASSUME OInv, NEW t \in Threads, AddRefused(t)
  PROVE  OInv'
<1>1. pc[t] = "malloc" /\ mine[t] = NULL
  BY DEF AddRefused, OInv, Labels, Holding
<1>2. UNCHANGED <<epfd, file, interest, ready, allocated, timer, batch>> /\ Return(t, -1)
  BY DEF AddRefused, kernel, heap
<1>3. /\ Labels'
      /\ pc' \in [Threads -> AddSteps \cup ServeSteps \cup {"idle", "wait", "absent"}]
      /\ offer' \in [Threads -> Events \cup {NULL}]
      /\ answer' \in [Threads -> {0, -1}]
      /\ mine' \in [Threads -> TimerAddr \cup {NULL}]
      /\ pc'[t] = After(t) /\ mine'[t] = NULL
      /\ \A u \in Threads : u # t => pc'[u] = pc[u] /\ offer'[u] = offer[u] /\ mine'[u] = mine[u]
  BY <1>2, ReturnLabels
<1>4. mine' = mine
  BY <1>1, <1>3 DEF OInv, TypeOK
<1>5. TypeOK'
  BY <1>2, <1>3 DEF OInv, TypeOK
<1>6. Readable'
  BY <1>2 DEF OInv, Readable
<1>7. \/ pc'[TimerThread] = pc[TimerThread]
      \/ {pc[TimerThread], pc'[TimerThread]} \cap {"wait", "absent", "close", "free"} = {}
  BY <1>1, <1>3, ThreadFacts DEF After
<1>8. pc'[TimerThread] \in AddSteps => pc[TimerThread] \in AddSteps
  BY <1>1, <1>3, ThreadFacts DEF After, AddSteps
<1>9. pc'[TimerThread] = "rearm" => pc[TimerThread] = "rearm"
  BY <1>1, <1>3, ThreadFacts DEF After
<1> QED
  BY <1>1, <1>2, <1>3, <1>4, <1>5, <1>6, <1>7, <1>8, <1>9, NothingMoves
\* What becomes of the ready list and the descriptors' states when nothing else does
LEMMA FileTyped ==
  ASSUME OInv, NEW fd \in Fds, NEW f \in Files, file' = [file EXCEPT ![fd] = f]
  PROVE  /\ file' \in [Fds -> Files] /\ file'[fd] = f
         /\ \A g \in Fds : g # fd => file'[g] = file[g]
BY DEF OInv, TypeOK, Files

LEMMA ReadyThins ==
  ASSUME OInv
  PROVE  Thins(ready, ready) /\ \A i \in DOMAIN ready : ready[i] \in Fds
BY DEF OInv, TypeOK, Thins

LEMMA AddSettimeOwned ==
  ASSUME OInv, NEW t \in Threads, AddSettime(t)
  PROVE  OInv'
<1> DEFINE fd == timer[mine[t]].tfd
<1>1. pc[t] = "settime" /\ pc[t] \in Holding /\ "ctl" \in Holding /\ "ctl" \in AddSteps
  BY DEF AddSettime, Holding, AddSteps
<1>2. fd \in Fds /\ file[fd] \in TimerFiles /\ interest[fd] = NULL
  BY <1>1, CallTimer
<1>3. UNCHANGED <<epfd, interest, ready, allocated, timer, offer, answer, mine, batch>>
  BY DEF AddSettime, heap
<1>4. file' = [file EXCEPT ![fd] = "armed"] /\ "armed" \in Files
  BY DEF AddSettime, Files
<1> HIDE DEF fd
<1>5. /\ file' \in [Fds -> Files] /\ file'[fd] = "armed"
      /\ \A g \in Fds : g # fd => file'[g] = file[g]
  BY <1>2, <1>4, FileTyped
<1>6. Goto(t, "ctl") /\ offer[t] # NULL /\ mine[t] # NULL
  BY <1>1 DEF AddSettime, OInv, Labels, AddSteps
<1>7. offer' \in [Threads -> Events \cup {NULL}] /\ mine' \in [Threads -> TimerAddr \cup {NULL}]
  BY <1>3 DEF OInv, TypeOK
<1>8. /\ Labels'
      /\ pc' \in [Threads -> AddSteps \cup ServeSteps \cup {"idle", "wait", "absent"}]
      /\ pc'[t] = "ctl"
      /\ \A u \in Threads : u # t => pc'[u] = pc[u]
  BY <1>1, <1>3, <1>6, <1>7, LabelsGoto
<1>9. TypeOK'
  BY <1>3, <1>5, <1>8 DEF OInv, TypeOK, Files
<1>10. Readable'
  <2>1. \A g \in Fds : interest[g] # NULL /\ file[g] = "expired"
                         => interest'[g] # NULL /\ file'[g] = "expired"
    BY <1>2, <1>3, <1>5
  <2> QED
    BY <1>3, <2>1, ReadyThins, ReadableKeeps DEF OInv
<1>11. \A g \in Fds : file'[g] \in TimerFiles <=> file[g] \in TimerFiles
  BY <1>2, <1>5 DEF TimerFiles
<1>12. \/ pc'[TimerThread] = pc[TimerThread]
       \/ {pc[TimerThread], pc'[TimerThread]} \cap {"wait", "absent", "close", "free"} = {}
  BY <1>1, <1>8, ThreadFacts
<1>13. \A u \in Threads : pc'[u] = "create" <=> pc[u] = "create"
  BY <1>1, <1>8
<1>14. pc'[TimerThread] \in AddSteps \cup {"rearm"} => pc[TimerThread] \in AddSteps \cup {"rearm"}
  BY <1>1, <1>8, ThreadFacts DEF AddSteps
<1> QED
  BY <1>3, <1>8, <1>9, <1>10, <1>11, <1>12, <1>13, <1>14, NothingMoves

LEMMA ExpireOwned ==
  ASSUME OInv, NEW fd \in Fds, Expire(fd)
  PROVE  OInv'
<1>1. file[fd] = "armed" /\ file' = [file EXCEPT ![fd] = "expired"] /\ "expired" \in Files
  BY DEF Expire, Files
<1>2. UNCHANGED <<epfd, interest, allocated, timer, pc, offer, answer, mine, batch>>
  BY DEF Expire, heap, calls
<1>3. /\ file' \in [Fds -> Files] /\ file'[fd] = "expired"
      /\ \A g \in Fds : g # fd => file'[g] = file[g]
  BY <1>1, FileTyped
<1>4. Labels'
  BY <1>2 DEF OInv, Labels
<1>5. ready \in Seq(Fds) /\ Readable
  BY DEF OInv, TypeOK
<1>6. ready' \in Seq(Fds) /\ Readable'
  <2>1. CASE interest[fd] = NULL
    <3>1. ready' = ready
      BY <2>1 DEF Expire
    <3>2. \A g \in Fds : interest[g] # NULL /\ file[g] = "expired"
                          => interest'[g] # NULL /\ file'[g] = "expired"
      BY <1>2, <1>3
    <3> QED
      BY <1>5, <3>1, <3>2, ReadyThins, ReadableKeeps
  <2>2. CASE interest[fd] # NULL
    <3>1. ready' = Append(ready, fd)
      BY <2>2 DEF Expire
    <3>2. /\ ready' \in Seq(Fds) /\ Len(ready') = Len(ready) + 1
          /\ \A i \in 1 .. Len(ready) : ready'[i] = ready[i]
          /\ ready'[Len(ready) + 1] = fd
      BY <1>5, <3>1, AppendProperties
    <3>3. \A i \in 1 .. Len(ready) : ready[i] # fd /\ ready[i] \in Fds
                                     /\ interest[ready[i]] # NULL /\ file[ready[i]] = "expired"
      BY <1>1, <1>5 DEF Readable
    <3>4. \A i \in DOMAIN ready' : interest'[ready'[i]] # NULL /\ file'[ready'[i]] = "expired"
      <4> TAKE i \in DOMAIN ready'
      <4>1. i \in 1 .. Len(ready) \/ i = Len(ready) + 1
        BY <1>5, <3>2
      <4>2. CASE i \in 1 .. Len(ready)
        BY <1>2, <1>3, <3>2, <3>3, <4>2
      <4>3. CASE i = Len(ready) + 1
        BY <1>2, <1>3, <2>2, <3>2, <4>3
      <4> QED
        BY <4>1, <4>2, <4>3
    <3>5. \A i, j \in DOMAIN ready' : ready'[i] = ready'[j] => i = j
      BY <1>5, <3>2, <3>3 DEF Readable
    <3> QED
      BY <3>2, <3>4, <3>5 DEF Readable
  <2> QED
    BY <2>1, <2>2
<1>7. TypeOK'
  BY <1>2, <1>3, <1>6 DEF OInv, TypeOK, Files
<1>8. \A g \in Fds : file'[g] \in TimerFiles <=> file[g] \in TimerFiles
  BY <1>1, <1>3 DEF TimerFiles
<1> QED
  BY <1>2, <1>4, <1>6, <1>7, <1>8, NothingMoves

LEMMA ReadTimerOwned ==
  ASSUME OInv, ReadTimer
  PROVE  OInv'
<1>1. /\ t0 \in allocated /\ fd0 \in Fds /\ pc[TimerThread] = "read"
      /\ "callback" \in ServeSteps /\ "callback" \notin AddSteps /\ "callback" \notin Holding
  BY CurrentTimer DEF ReadTimer, ServeSteps, AddSteps, Holding
<1>2. file[fd0] \in TimerFiles
  BY <1>1, ThreadFacts DEF OInv, Descriptors, Gone, fd0
<1>3. UNCHANGED <<epfd, interest, allocated, timer, offer, answer, mine, batch>>
  BY DEF ReadTimer, heap
<1>4. file' = [file EXCEPT ![fd0] = "disarmed"] /\ "disarmed" \in Files
  BY DEF ReadTimer, Files
<1>5. /\ file' \in [Fds -> Files] /\ file'[fd0] = "disarmed"
      /\ \A g \in Fds : g # fd0 => file'[g] = file[g]
  BY <1>1, <1>4, FileTyped
<1>6. Goto(TimerThread, "callback") /\ offer[TimerThread] = NULL /\ mine[TimerThread] = NULL
  BY <1>1, ThreadFacts DEF ReadTimer, OInv, Labels, AddSteps, Holding
<1>7. offer' \in [Threads -> Events \cup {NULL}] /\ mine' \in [Threads -> TimerAddr \cup {NULL}]
  BY <1>3 DEF OInv, TypeOK
<1>8. /\ Labels'
      /\ pc' \in [Threads -> AddSteps \cup ServeSteps \cup {"idle", "wait", "absent"}]
      /\ pc'[TimerThread] = "callback"
      /\ \A u \in Threads : u # TimerThread => pc'[u] = pc[u]
  BY <1>1, <1>3, <1>6, <1>7, ThreadFacts, LabelsGoto
<1>9. /\ ready' \in Seq(Fds) /\ Thins(ready', ready)
      /\ \A i \in DOMAIN ready' : ready'[i] # fd0
  <2>1. ready' = Unlisted(fd0)
    BY DEF ReadTimer
  <2>2. ready \in Seq(Fds) /\ \A i, j \in DOMAIN ready : ready[i] = ready[j] => i = j
    BY DEF OInv, TypeOK, Readable
  <2> QED
    BY <2>1, <2>2, UnlistedIs
<1>10. Readable'
  <2>1. \A i \in DOMAIN ready' : ready'[i] \in Fds
    BY <1>9
  <2>2. \A g \in Fds : g # fd0 => file'[g] = file[g] /\ interest'[g] = interest[g]
    BY <1>3, <1>5
  <2> QED
    BY <1>9, <2>1, <2>2, ReadableKeeps DEF OInv
<1>11. TypeOK'
  BY <1>3, <1>5, <1>8, <1>9 DEF OInv, TypeOK, Files
<1>12. \A g \in Fds : file'[g] \in TimerFiles <=> file[g] \in TimerFiles
  BY <1>2, <1>5 DEF TimerFiles
<1>13. {pc[TimerThread], pc'[TimerThread]} \cap {"wait", "absent", "close", "free"} = {}
  BY <1>1, <1>8
<1>14. \A u \in Threads : pc'[u] = "create" <=> pc[u] = "create"
  BY <1>1, <1>8
<1>15. pc'[TimerThread] \notin AddSteps \cup {"rearm"}
  BY <1>8 DEF AddSteps
<1> QED
  BY <1>3, <1>8, <1>10, <1>11, <1>12, <1>13, <1>14, <1>15, NothingMoves
LEMMA CallbackOwned ==
  ASSUME OInv, Callback
  PROVE  OInv'
<1> DEFINE label == IF Rearm[timer[t0].data] = NULL THEN "del" ELSE "rearm"
<1>1. /\ pc[TimerThread] = "callback" /\ Goto(TimerThread, label)
      /\ UNCHANGED <<epfd, file, interest, ready, allocated, timer, offer, answer, mine, batch>>
  BY DEF Callback, kernel, heap
<1>2. label \in ServeSteps /\ label \notin AddSteps /\ label \notin Holding /\ label \in {"del", "rearm"}
  BY DEF ServeSteps, AddSteps, Holding
<1> HIDE DEF label
<1>3. offer[TimerThread] = NULL /\ mine[TimerThread] = NULL
  BY <1>1, ThreadFacts DEF OInv, Labels, AddSteps, Holding
<1>4. offer' \in [Threads -> Events \cup {NULL}] /\ mine' \in [Threads -> TimerAddr \cup {NULL}]
  BY <1>1 DEF OInv, TypeOK
<1>5. /\ Labels'
      /\ pc' \in [Threads -> AddSteps \cup ServeSteps \cup {"idle", "wait", "absent"}]
      /\ pc'[TimerThread] = label
      /\ \A u \in Threads : u # TimerThread => pc'[u] = pc[u]
  BY <1>1, <1>2, <1>3, <1>4, ThreadFacts, LabelsGoto
<1>6. TypeOK'
  BY <1>1, <1>5 DEF OInv, TypeOK
<1>7. Readable'
  BY <1>1 DEF OInv, Readable
<1>8. {pc[TimerThread], pc'[TimerThread]} \cap {"wait", "absent", "close", "free"} = {}
  BY <1>1, <1>2, <1>5
<1>9. \A u \in Threads : pc'[u] = "create" <=> pc[u] = "create"
  BY <1>1, <1>2, <1>5
<1>10. pc'[TimerThread] \in AddSteps \cup {"rearm"} => Rearm[timer[t0].data] # NULL
  BY <1>2, <1>5 DEF label, AddSteps
<1> QED
  BY <1>1, <1>5, <1>6, <1>7, <1>8, <1>9, <1>10, NothingMoves

LEMMA CallbackAddOwned ==
  ASSUME OInv, CallbackAdd
  PROVE  OInv'
<1>0. Rearm[timer[t0].data] \in Events
  <2>1. t0 \in allocated /\ t0 \in TimerAddr
    BY CurrentTimer DEF CallbackAdd
  <2>2. timer[t0].data \in Events
    BY <2>1 DEF OInv, TypeOK, HasEvent
  <2>3. Rearm[timer[t0].data] # NULL
    BY DEF CallbackAdd, OInv, HasEvent
  <2> QED
    BY <2>2, <2>3, TimerAssumption
<1>1. /\ pc[TimerThread] = "rearm" /\ Goto(TimerThread, "malloc")
      /\ UNCHANGED <<epfd, file, interest, ready, allocated, timer, answer, mine, batch>>
  BY DEF CallbackAdd, kernel, heap
<1>2. "malloc" \in AddSteps /\ "malloc" \notin Holding
  BY DEF AddSteps, Holding
<1>3. mine[TimerThread] = NULL
  BY <1>1, ThreadFacts DEF OInv, Labels, Holding
<1>4. /\ offer' \in [Threads -> Events \cup {NULL}] /\ offer'[TimerThread] # NULL
      /\ \A u \in Threads : u # TimerThread => offer'[u] = offer[u]
  BY <1>0, ThreadFacts DEF CallbackAdd, OInv, TypeOK
<1>5. mine' \in [Threads -> TimerAddr \cup {NULL}]
  BY <1>1 DEF OInv, TypeOK
<1>6. /\ Labels'
      /\ pc' \in [Threads -> AddSteps \cup ServeSteps \cup {"idle", "wait", "absent"}]
      /\ pc'[TimerThread] = "malloc"
      /\ \A u \in Threads : u # TimerThread => pc'[u] = pc[u]
  BY <1>1, <1>2, <1>3, <1>4, <1>5, ThreadFacts, LabelsGoto
<1>7. TypeOK'
  BY <1>1, <1>4, <1>6 DEF OInv, TypeOK
<1>8. Readable'
  BY <1>1 DEF OInv, Readable
<1>9. {pc[TimerThread], pc'[TimerThread]} \cap {"wait", "absent", "close", "free"} = {}
  BY <1>1, <1>6
<1> QED
  BY <1>1, <1>3, <1>4, <1>6, <1>7, <1>8, <1>9, NothingMoves
-----------------------------------------------------------------------------
\* Steps in which a timer or a descriptor gets an owner, changes or loses it

\* The timer thread's own call is not one of its serving steps.
LEMMA Elsewhere ==
  ASSUME OInv, NEW t \in Threads, pc[t] \in AddSteps,
         pc'[t] \in AddSteps \cup {After(t)}, \A u \in Threads : u # t => pc'[u] = pc[u],
         batch' = batch
  PROVE  /\ Unwatched' <=> Unwatched
         /\ \A a : Gone(a)' <=> Gone(a)
         /\ \A a : Releasing(a)' <=> Releasing(a)
         /\ pc'[TimerThread] \in {"wait", "absent"} <=> pc[TimerThread] \in {"wait", "absent"}
         /\ pc'[TimerThread] \in AddSteps \cup {"rearm"} => pc[TimerThread] \in AddSteps \cup {"rearm"}
         /\ t0' = t0
<1>1. CASE t = TimerThread
  <2>1. pc[TimerThread] \notin {"wait", "absent", "close", "free"}
    BY <1>1 DEF AddSteps
  <2>2. pc'[TimerThread] \notin {"wait", "absent", "close", "free"}
    BY <1>1 DEF AddSteps, After
  <2> QED
    BY <1>1, <2>1, <2>2 DEF Unwatched, Gone, Releasing, t0
<1>2. CASE t # TimerThread
  BY <1>2, ThreadFacts DEF Unwatched, Gone, Releasing, t0
<1> QED
  BY <1>1, <1>2

LEMMA AddMallocOwned ==
  ASSUME OInv, NEW t \in Threads, AddMalloc(t)
  PROVE  OInv'
<1> PICK a \in TimerAddr \ allocated :
       /\ allocated' = allocated \cup {a}
       /\ timer' = [timer EXCEPT ![a] = [tfd |-> -1, data |-> offer[t]]]
       /\ mine' = [mine EXCEPT ![t] = a]
  BY DEF AddMalloc
<1>1. /\ pc[t] = "malloc" /\ Goto(t, "create")
      /\ UNCHANGED <<epfd, file, interest, ready, offer, answer, batch>>
  BY DEF AddMalloc, kernel
<1>2. "malloc" \in AddSteps /\ "create" \in AddSteps /\ "create" \in Holding /\ "malloc" \notin Holding
  BY DEF AddSteps, Holding
<1>3. mine[t] = NULL /\ offer[t] \in Events /\ a # NULL
  BY <1>1, <1>2, ThreadFacts DEF OInv, Labels, TypeOK
<1>4. /\ mine' \in [Threads -> TimerAddr \cup {NULL}] /\ mine'[t] = a
      /\ \A u \in Threads : u # t => mine'[u] = mine[u]
  BY DEF OInv, TypeOK
<1>5. /\ timer' \in [TimerAddr -> [tfd : Fds \cup {-1}, data : Events \cup {NULL}]]
      /\ timer'[a] = [tfd |-> -1, data |-> offer[t]]
      /\ \A b \in TimerAddr : b # a => timer'[b] = timer[b]
  BY <1>3 DEF OInv, TypeOK
<1>6. offer' \in [Threads -> Events \cup {NULL}]
  BY <1>1 DEF OInv, TypeOK
<1>7. /\ Labels'
      /\ pc' \in [Threads -> AddSteps \cup ServeSteps \cup {"idle", "wait", "absent"}]
      /\ pc'[t] = "create"
      /\ \A u \in Threads : u # t => pc'[u] = pc[u]
  BY <1>1, <1>2, <1>3, <1>4, <1>6, ThreadFacts, LabelsGoto
<1>8. /\ Unwatched' <=> Unwatched
      /\ \A b : Gone(b)' <=> Gone(b)
      /\ \A b : Releasing(b)' <=> Releasing(b)
      /\ pc'[TimerThread] \in {"wait", "absent"} <=> pc[TimerThread] \in {"wait", "absent"}
      /\ pc'[TimerThread] \in AddSteps \cup {"rearm"} => pc[TimerThread] \in AddSteps \cup {"rearm"}
      /\ t0' = t0
  BY <1>1, <1>2, <1>7, Elsewhere
<1>9. allocated \subseteq TimerAddr /\ a \notin allocated /\ a \in allocated'
  BY DEF OInv, TypeOK
<1>10. TypeOK'
  BY <1>1, <1>4, <1>5, <1>7 DEF OInv, TypeOK
<1>11. CallTimers'
  <2> SUFFICES ASSUME NEW u \in Threads, mine'[u] # NULL
               PROVE  /\ mine'[u] \in allocated'
                      /\ \A v \in Threads : mine'[v] = mine'[u] => v = u
                      /\ timer'[mine'[u]].data = offer'[u]
                      /\ pc'[u] = "create" <=> timer'[mine'[u]].tfd = -1
                      /\ pc'[u] # "create" => interest'[timer'[mine'[u]].tfd] = NULL
    BY DEF CallTimers
  <2>1. \A v \in Threads : mine[v] # NULL => mine[v] \in allocated /\ mine[v] # a
    BY <1>9 DEF OInv, CallTimers
  <2>2. CASE u = t
    BY <1>1, <1>3, <1>4, <1>5, <1>7, <1>9, <2>1, <2>2
  <2>3. CASE u # t
    <3>1. mine'[u] = mine[u] /\ mine[u] \in allocated /\ mine[u] # a /\ timer'[mine[u]] = timer[mine[u]]
      BY <1>4, <1>5, <1>9, <2>1, <2>3
    <3> QED
      BY <1>1, <1>4, <1>7, <2>3, <3>1 DEF OInv, CallTimers
  <2> QED
    BY <2>2, <2>3
<1>12. \A b \in allocated : b # a /\ timer'[b] = timer[b] /\ b \in allocated'
  BY <1>5, <1>9
<1>13. Descriptors'
  BY <1>1, <1>5, <1>8, <1>9, <1>12 DEF OInv, Descriptors
<1>14. Watches'
  <2>1. \A b \in allocated : (\A u \in Threads : mine'[u] # b) => \A u \in Threads : mine[u] # b
    BY <1>3, <1>4, <1>9, ThreadFacts
  <2> QED
    BY <1>1, <1>4, <1>8, <1>9, <1>12, <2>1 DEF OInv, Watches
<1>15. Reported'
  BY <1>1, <1>4, <1>8, <1>9, <1>12 DEF OInv, Reported
<1>16. Readable'
  BY <1>1 DEF OInv, Readable
<1>17. HasEvent'
  <2>1. \A b \in allocated' : timer'[b].data # NULL
    BY <1>3, <1>5, <1>12, ThreadFacts DEF OInv, HasEvent
  <2>2. pc[TimerThread] \in AddSteps \cup {"rearm"} => t0 \in allocated
    BY CurrentTimer DEF AddSteps
  <2> QED
    BY <1>8, <1>12, <2>1, <2>2 DEF OInv, HasEvent
<1> QED
  BY <1>7, <1>10, <1>11, <1>13, <1>14, <1>15, <1>16, <1>17 DEF OInv
\* A descriptor that is free is in no timer and not in the epoll set.
LEMMA FreeFd ==
  ASSUME OInv, NEW fd \in Fds, file[fd] = "free"
  PROVE  /\ \A a \in allocated : timer[a].tfd = fd => Gone(a)
         /\ interest[fd] = NULL
         /\ \A i \in DOMAIN ready : ready[i] # fd
<1>0. file[fd] \notin TimerFiles
  BY DEF TimerFiles
<1>1. \A a \in allocated : timer[a].tfd = fd => Gone(a)
  BY <1>0, ThreadFacts DEF OInv, Descriptors
<1>2. interest[fd] = NULL
  <2> SUFFICES ASSUME interest[fd] # NULL PROVE FALSE
    OBVIOUS
  <2>1. interest[fd] \in allocated /\ timer[interest[fd]].tfd = fd /\ ~Releasing(interest[fd])
    BY DEF OInv, Watches
  <2> QED
    BY <1>1, <2>1 DEF Gone, Releasing, Unwatched
<1>3. \A i \in DOMAIN ready : ready[i] # fd
  BY DEF OInv, Readable
<1> QED
  BY <1>1, <1>2, <1>3

LEMMA AddCreateOwned ==
  ASSUME OInv, NEW t \in Threads, AddCreate(t)
  PROVE  OInv'
<1> DEFINE m == mine[t]
<1> PICK fd \in Fds : /\ file[fd] = "free"
                      /\ file' = [file EXCEPT ![fd] = "disarmed"]
                      /\ timer' = [timer EXCEPT ![m].tfd = fd]
  BY DEF AddCreate, FreeFds
<1>1. /\ pc[t] = "create" /\ Goto(t, "settime")
      /\ UNCHANGED <<epfd, interest, ready, allocated, offer, answer, mine, batch>>
  BY DEF AddCreate
<1>2. /\ {"create", "settime"} \subseteq AddSteps
      /\ {"create", "settime"} \subseteq Holding
      /\ "disarmed" \in Files /\ "disarmed" \in TimerFiles
  BY DEF AddSteps, Holding, Files, TimerFiles
<1>3. /\ m \in allocated /\ m \in TimerAddr /\ m # NULL
      /\ \A u \in Threads : mine[u] = m => u = t
      /\ ~Releasing(m) /\ ~Gone(m)
      /\ \A i \in DOMAIN batch : batch[i] # m
      /\ \A g \in Fds : interest[g] # m
      /\ timer[m].tfd = -1
  BY <1>1, <1>2, CallTimer
<1>4. /\ \A a \in allocated : timer[a].tfd = fd => Gone(a)
      /\ interest[fd] = NULL
      /\ \A i \in DOMAIN ready : ready[i] # fd
  BY FreeFd
<1>5. /\ file' \in [Fds -> Files] /\ file'[fd] = "disarmed"
      /\ \A g \in Fds : g # fd => file'[g] = file[g]
  BY <1>2, FileTyped
<1> HIDE DEF m
<1>6. /\ timer' \in [TimerAddr -> [tfd : Fds \cup {-1}, data : Events \cup {NULL}]]
      /\ timer'[m].tfd = fd /\ timer'[m].data = timer[m].data
      /\ \A b \in TimerAddr : b # m => timer'[b] = timer[b]
  BY <1>3 DEF OInv, TypeOK
<1>7. offer' \in [Threads -> Events \cup {NULL}] /\ mine' \in [Threads -> TimerAddr \cup {NULL}]
  BY <1>1 DEF OInv, TypeOK
<1>8. offer'[t] # NULL /\ mine'[t] # NULL
  BY <1>1, <1>2 DEF OInv, Labels
<1>9. /\ Labels'
      /\ pc' \in [Threads -> AddSteps \cup ServeSteps \cup {"idle", "wait", "absent"}]
      /\ pc'[t] = "settime"
      /\ \A u \in Threads : u # t => pc'[u] = pc[u]
  BY <1>1, <1>2, <1>7, <1>8, LabelsGoto
<1>10. /\ Unwatched' <=> Unwatched
       /\ \A b : Gone(b)' <=> Gone(b)
       /\ \A b : Releasing(b)' <=> Releasing(b)
       /\ pc'[TimerThread] \in {"wait", "absent"} <=> pc[TimerThread] \in {"wait", "absent"}
       /\ pc'[TimerThread] \in AddSteps \cup {"rearm"} => pc[TimerThread] \in AddSteps \cup {"rearm"}
       /\ t0' = t0
  BY <1>1, <1>2, <1>9, Elsewhere
<1>11. allocated \subseteq TimerAddr /\ fd # -1
  BY ThreadFacts DEF OInv, TypeOK
<1>12. TypeOK'
  BY <1>1, <1>5, <1>6, <1>9 DEF OInv, TypeOK, Files
<1>13. \A b \in allocated : b # m => timer'[b] = timer[b]
  BY <1>6, <1>11
<1>14. CallTimers'
  <2> SUFFICES ASSUME NEW u \in Threads, mine'[u] # NULL
               PROVE  /\ mine'[u] \in allocated'
                      /\ \A v \in Threads : mine'[v] = mine'[u] => v = u
                      /\ timer'[mine'[u]].data = offer'[u]
                      /\ pc'[u] = "create" <=> timer'[mine'[u]].tfd = -1
                      /\ pc'[u] # "create" => interest'[timer'[mine'[u]].tfd] = NULL
    BY DEF CallTimers
  <2>1. CASE u = t
    BY <1>1, <1>3, <1>4, <1>6, <1>9, <1>11, <2>1 DEF m, OInv, CallTimers
  <2>2. CASE u # t
    <3>1. mine[u] # m /\ mine[u] \in allocated
      BY <1>1, <1>3, <2>2 DEF OInv, CallTimers
    <3> QED
      BY <1>1, <1>9, <1>13, <2>2, <3>1 DEF OInv, CallTimers
  <2> QED
    BY <2>1, <2>2
<1>15. Descriptors'
  <2>1. \A a \in allocated : timer'[a].tfd # -1 /\ ~Gone(a) => file'[timer'[a].tfd] \in TimerFiles
    <3> TAKE a \in allocated
    <3>1. CASE a = m
      BY <1>2, <1>5, <1>6, <3>1
    <3>2. CASE a # m
      BY <1>2, <1>4, <1>5, <1>11, <1>13, <3>2 DEF OInv, TypeOK, Descriptors
    <3> QED
      BY <3>1, <3>2
  <2>2. \A a, b \in allocated :
          timer'[a].tfd # -1 /\ timer'[a].tfd = timer'[b].tfd /\ ~Gone(a) /\ ~Gone(b) => a = b
    BY <1>4, <1>6, <1>13 DEF OInv, Descriptors
  <2>3. \A g \in Fds : file'[g] \in TimerFiles => \E a \in allocated : timer'[a].tfd = g /\ ~Gone(a)
    <3> SUFFICES ASSUME NEW g \in Fds, file'[g] \in TimerFiles
                 PROVE  \E a \in allocated : timer'[a].tfd = g /\ ~Gone(a)
      OBVIOUS
    <3>1. CASE g = fd
      BY <1>3, <1>6, <3>1
    <3>2. CASE g # fd
      <4>1. PICK a \in allocated : timer[a].tfd = g /\ ~Gone(a)
        BY <1>5, <3>2 DEF OInv, Descriptors
      <4>2. a # m
        BY <1>3, <4>1, ThreadFacts
      <4> QED
        BY <1>13, <4>1, <4>2
    <3> QED
      BY <3>1, <3>2
  <2> QED
    BY <1>1, <1>10, <2>1, <2>2, <2>3 DEF Descriptors
<1>16. Watches'
  BY <1>1, <1>3, <1>10, <1>13 DEF m, OInv, Watches
<1>17. Reported'
  BY <1>1, <1>3, <1>10, <1>13 DEF OInv, Reported
<1>18. Readable'
  <2>1. \A i \in DOMAIN ready : ready[i] \in Fds /\ ready[i] # fd
    BY <1>4, ReadyThins
  <2> QED
    BY <1>1, <1>5, <2>1 DEF OInv, Readable
<1>19. HasEvent'
  <2>1. \A b \in allocated' : timer'[b].data = timer[b].data
    BY <1>1, <1>6, <1>13
  <2>2. pc[TimerThread] \in AddSteps \cup {"rearm"} => t0 \in allocated
    BY CurrentTimer DEF AddSteps
  <2> QED
    BY <1>1, <1>10, <2>1, <2>2 DEF OInv, HasEvent
<1> QED
  BY <1>9, <1>12, <1>14, <1>15, <1>16, <1>17, <1>18, <1>19 DEF OInv
\* close takes a descriptor from the epoll set and from the ready list.
LEMMA CloseIs ==
  ASSUME OInv, NEW fd \in Fds, CloseFd(fd)
  PROVE  /\ file' \in [Fds -> Files] /\ file'[fd] = "free"
         /\ interest' \in [Fds -> TimerAddr \cup {NULL}] /\ interest'[fd] = NULL
         /\ \A g \in Fds : g # fd => file'[g] = file[g] /\ interest'[g] = interest[g]
         /\ ready' \in Seq(Fds) /\ Readable'
<1>1. file' = [file EXCEPT ![fd] = "free"] /\ "free" \in Files
  BY DEF CloseFd, Files
<1>2. file' \in [Fds -> Files] /\ file'[fd] = "free" /\ \A g \in Fds : g # fd => file'[g] = file[g]
  BY <1>1, FileTyped
<1>3. /\ interest' \in [Fds -> TimerAddr \cup {NULL}] /\ interest'[fd] = NULL
      /\ \A g \in Fds : g # fd => interest'[g] = interest[g]
  BY DEF CloseFd, OInv, TypeOK
<1>4. /\ ready' \in Seq(Fds) /\ Thins(ready', ready)
      /\ \A i \in DOMAIN ready' : ready'[i] # fd
  <2>1. ready' = Unlisted(fd)
    BY DEF CloseFd
  <2>2. ready \in Seq(Fds) /\ \A i, j \in DOMAIN ready : ready[i] = ready[j] => i = j
    BY DEF OInv, TypeOK, Readable
  <2> QED
    BY <2>1, <2>2, UnlistedIs
<1>5. Readable'
  <2>1. \A i \in DOMAIN ready' : ready'[i] \in Fds
    BY <1>4
  <2> QED
    BY <1>2, <1>3, <1>4, <2>1, ReadableKeeps DEF OInv
<1> QED
  BY <1>2, <1>3, <1>4, <1>5

\* A call that gives up frees its timer, with the descriptor if it has one.
LEMMA CallEnds ==
  ASSUME OInv, NEW t \in Threads, pc[t] \in Holding, Free(mine[t]), Return(t, -1),
         epfd' = epfd, batch' = batch,
         \/ pc[t] = "create" /\ UNCHANGED kernel
         \/ pc[t] # "create" /\ CloseFd(timer[mine[t]].tfd)
  PROVE  OInv'
<1> DEFINE m == mine[t]
           fd == timer[m].tfd
<1>1. /\ m \in allocated /\ m \in TimerAddr /\ m # NULL
      /\ \A u \in Threads : mine[u] = m => u = t
      /\ ~Releasing(m) /\ ~Gone(m)
      /\ \A i \in DOMAIN batch : batch[i] # m
      /\ \A g \in Fds : interest[g] # m
      /\ pc[t] = "create" <=> fd = -1
      /\ pc[t] # "create" => fd \in Fds /\ file[fd] \in TimerFiles /\ interest[fd] = NULL
  BY CallTimer
<1>2. /\ allocated' = allocated \ {m} /\ timer' = [timer EXCEPT ![m] = Freed]
  BY DEF Free
<1> HIDE DEF m
<1>3. /\ timer' \in [TimerAddr -> [tfd : Fds \cup {-1}, data : Events \cup {NULL}]]
      /\ \A b \in TimerAddr : b # m => timer'[b] = timer[b]
  BY <1>1, <1>2 DEF OInv, TypeOK, Freed
<1>4. /\ allocated \subseteq TimerAddr
      /\ \A b \in allocated' : b \in allocated /\ b # m /\ timer'[b] = timer[b]
  BY <1>2, <1>3 DEF OInv, TypeOK
<1>5. /\ Labels'
      /\ pc' \in [Threads -> AddSteps \cup ServeSteps \cup {"idle", "wait", "absent"}]
      /\ offer' \in [Threads -> Events \cup {NULL}]
      /\ answer' \in [Threads -> {0, -1}]
      /\ mine' \in [Threads -> TimerAddr \cup {NULL}]
      /\ pc'[t] = After(t) /\ offer'[t] = NULL /\ mine'[t] = NULL
      /\ \A u \in Threads : u # t => pc'[u] = pc[u] /\ offer'[u] = offer[u] /\ mine'[u] = mine[u]
  BY ReturnLabels
<1>6. /\ Unwatched' <=> Unwatched
      /\ \A b : Gone(b)' <=> Gone(b)
      /\ \A b : Releasing(b)' <=> Releasing(b)
      /\ pc'[TimerThread] \in {"wait", "absent"} <=> pc[TimerThread] \in {"wait", "absent"}
      /\ pc'[TimerThread] \in AddSteps \cup {"rearm"} => pc[TimerThread] \in AddSteps \cup {"rearm"}
      /\ t0' = t0
  <2>1. pc[t] \in AddSteps
    BY DEF Holding, AddSteps
  <2> QED
    BY <1>5, <2>1, Elsewhere
<1>7. /\ file' \in [Fds -> Files] /\ interest' = interest
      /\ \A g \in Fds : g # fd => file'[g] = file[g]
      /\ fd \in Fds => file'[fd] = "free"
      /\ ready' \in Seq(Fds) /\ Readable'
  <2>1. CASE pc[t] = "create"
    <3>1. UNCHANGED <<file, interest, ready>> /\ fd = -1
      BY <1>1, <2>1 DEF kernel
    <3>2. file \in [Fds -> Files] /\ ready \in Seq(Fds) /\ Readable
      BY DEF OInv, TypeOK, Files
    <3> QED
      BY <3>1, <3>2, ThreadFacts DEF Readable
  <2>2. CASE pc[t] # "create"
    <3>1. CloseFd(fd) /\ fd \in Fds /\ interest[fd] = NULL
      BY <1>1, <2>2 DEF m
    <3> HIDE DEF fd
    <3>2. /\ file' \in [Fds -> Files] /\ file'[fd] = "free"
          /\ interest' \in [Fds -> TimerAddr \cup {NULL}] /\ interest'[fd] = NULL
          /\ \A g \in Fds : g # fd => file'[g] = file[g] /\ interest'[g] = interest[g]
          /\ ready' \in Seq(Fds) /\ Readable'
      BY <3>1, CloseIs
    <3>3. interest' = interest
      BY <3>1, <3>2 DEF OInv, TypeOK
    <3> QED
      BY <3>2, <3>3
  <2> QED
    BY <2>1, <2>2
<1>8. TypeOK'
  <2>1. allocated' \subseteq TimerAddr
    BY <1>4
  <2> QED
    BY <1>3, <1>5, <1>7, <2>1 DEF OInv, TypeOK, Files
<1>9. CallTimers'
  <2> SUFFICES ASSUME NEW u \in Threads, mine'[u] # NULL
               PROVE  /\ mine'[u] \in allocated'
                      /\ \A v \in Threads : mine'[v] = mine'[u] => v = u
                      /\ timer'[mine'[u]].data = offer'[u]
                      /\ pc'[u] = "create" <=> timer'[mine'[u]].tfd = -1
                      /\ pc'[u] # "create" => interest'[timer'[mine'[u]].tfd] = NULL
    BY DEF CallTimers
  <2>1. u # t /\ mine'[u] = mine[u] /\ mine[u] # m /\ mine[u] \in allocated
    BY <1>1, <1>5 DEF OInv, CallTimers
  <2>2. mine[u] \in allocated' /\ timer'[mine[u]] = timer[mine[u]]
    BY <1>2, <1>4, <2>1
  <2> QED
    BY <1>5, <1>7, <2>1, <2>2 DEF OInv, CallTimers
<1>10. Descriptors'
  <2>1. \A a \in allocated' : timer[a].tfd # -1 /\ ~Gone(a) => timer[a].tfd # fd
    BY <1>1, <1>4 DEF OInv, Descriptors
  <2>2. \A a \in allocated' : timer'[a].tfd # -1 /\ ~Gone(a) => file'[timer'[a].tfd] \in TimerFiles
    BY <1>4, <1>7, <2>1 DEF OInv, TypeOK, Descriptors
  <2>3. \A a, b \in allocated' :
          timer'[a].tfd # -1 /\ timer'[a].tfd = timer'[b].tfd /\ ~Gone(a) /\ ~Gone(b) => a = b
    BY <1>4 DEF OInv, Descriptors
  <2>4. \A g \in Fds : file'[g] \in TimerFiles => \E a \in allocated' : timer'[a].tfd = g /\ ~Gone(a)
    <3> SUFFICES ASSUME NEW g \in Fds, file'[g] \in TimerFiles
                 PROVE  \E a \in allocated' : timer'[a].tfd = g /\ ~Gone(a)
      OBVIOUS
    <3>1. g # fd
      BY <1>7 DEF TimerFiles
    <3>2. PICK a \in allocated : timer[a].tfd = g /\ ~Gone(a)
      BY <1>7, <3>1 DEF OInv, Descriptors
    <3>3. a \in allocated' /\ timer'[a] = timer[a]
      BY <1>2, <1>4, <3>1, <3>2
    <3> QED
      BY <3>2, <3>3
  <2> QED
    BY <1>6, <2>2, <2>3, <2>4 DEF Descriptors
<1>11. Watches'
  <2>1. \A g \in Fds : interest'[g] # NULL =>
          interest'[g] \in allocated' /\ timer'[interest'[g]].tfd = g /\ ~Releasing(interest'[g])
    BY <1>1, <1>2, <1>4, <1>7 DEF OInv, Watches
  <2>2. \A a \in allocated' : (\A u \in Threads : mine'[u] # a) => \A u \in Threads : mine[u] # a
    BY <1>4, <1>5 DEF m
  <2>3. \A a \in allocated' : (\A u \in Threads : mine'[u] # a) /\ ~Releasing(a) =>
          timer'[a].tfd # -1 /\ interest'[timer'[a].tfd] = a
    BY <1>4, <1>7, <2>2 DEF OInv, Watches
  <2> QED
    BY <1>6, <2>1, <2>3 DEF Watches
<1>12. Reported'
  <2>1. \A i \in DOMAIN batch : batch[i] \in allocated /\ batch[i] # m
    BY <1>1 DEF OInv, Reported
  <2>2. \A i \in DOMAIN batch : batch[i] \in allocated' /\ timer'[batch[i]] = timer[batch[i]]
    BY <1>2, <1>4, <2>1
  <2>3. \A i \in DOMAIN batch, u \in Threads : mine'[u] # batch[i]
    BY <1>5, <2>1, ThreadFacts DEF OInv, Reported, TypeOK
  <2> QED
    BY <1>6, <1>7, <2>2, <2>3 DEF OInv, Reported
<1>13. HasEvent'
  <2>1. \A b \in allocated' : timer'[b].data # NULL
    BY <1>4 DEF OInv, HasEvent
  <2>2. pc[TimerThread] \in AddSteps \cup {"rearm"} => t0 \in allocated /\ t0 # m
    BY <1>1, CurrentTimer DEF AddSteps
  <2>3. pc[TimerThread] \in AddSteps \cup {"rearm"} => timer'[t0] = timer[t0]
    BY <1>2, <1>4, <2>2
  <2> QED
    BY <1>6, <2>1, <2>3 DEF OInv, HasEvent
<1> QED
  BY <1>5, <1>7, <1>8, <1>9, <1>10, <1>11, <1>12, <1>13 DEF OInv

LEMMA AddGivesUpOwned ==
  ASSUME OInv, NEW t \in Threads, AddCreateFails(t) \/ AddAbandon(t)
  PROVE  OInv'
<1>1. CASE AddCreateFails(t)
  BY <1>1, CallEnds DEF AddCreateFails, Holding
<1>2. CASE AddAbandon(t)
  BY <1>2, CallEnds DEF AddAbandon, Holding
<1> QED
  BY <1>1, <1>2
LEMMA AddWatchOwned ==
  ASSUME OInv, NEW t \in Threads, AddWatch(t)
  PROVE  OInv'
<1> DEFINE m == mine[t]
           fd == timer[m].tfd
<1>1. /\ pc[t] = "ctl" /\ pc[t] \in Holding /\ pc[t] \in AddSteps /\ Return(t, 0)
      /\ UNCHANGED <<epfd, file, allocated, timer, batch>>
      /\ interest' = [interest EXCEPT ![fd] = m]
      /\ ready' = IF file[fd] = "expired" THEN Append(ready, fd) ELSE ready
  BY DEF AddWatch, Holding, AddSteps, heap
<1>2. /\ m \in allocated /\ m \in TimerAddr /\ m # NULL
      /\ \A u \in Threads : mine[u] = m => u = t
      /\ ~Releasing(m) /\ ~Gone(m)
      /\ \A i \in DOMAIN batch : batch[i] # m
      /\ \A g \in Fds : interest[g] # m
      /\ fd \in Fds /\ file[fd] \in TimerFiles /\ interest[fd] = NULL
  BY <1>1, CallTimer
<1> HIDE DEF m
<1>3. /\ interest' \in [Fds -> TimerAddr \cup {NULL}] /\ interest'[fd] = m
      /\ \A g \in Fds : g # fd => interest'[g] = interest[g]
  BY <1>1, <1>2 DEF OInv, TypeOK
<1>4. /\ Labels'
      /\ pc' \in [Threads -> AddSteps \cup ServeSteps \cup {"idle", "wait", "absent"}]
      /\ offer' \in [Threads -> Events \cup {NULL}]
      /\ answer' \in [Threads -> {0, -1}]
      /\ mine' \in [Threads -> TimerAddr \cup {NULL}]
      /\ pc'[t] = After(t) /\ offer'[t] = NULL /\ mine'[t] = NULL
      /\ \A u \in Threads : u # t => pc'[u] = pc[u] /\ offer'[u] = offer[u] /\ mine'[u] = mine[u]
  BY <1>1, ReturnLabels
<1>5. /\ Unwatched' <=> Unwatched
      /\ \A b : Gone(b)' <=> Gone(b)
      /\ \A b : Releasing(b)' <=> Releasing(b)
      /\ pc'[TimerThread] \in {"wait", "absent"} <=> pc[TimerThread] \in {"wait", "absent"}
      /\ pc'[TimerThread] \in AddSteps \cup {"rearm"} => pc[TimerThread] \in AddSteps \cup {"rearm"}
      /\ t0' = t0
  BY <1>1, <1>4, Elsewhere
<1>6. allocated \subseteq TimerAddr /\ ready \in Seq(Fds) /\ Readable
  BY DEF OInv, TypeOK
<1>7. ready' \in Seq(Fds) /\ Readable'
  <2>1. \A i \in DOMAIN ready : ready[i] \in Fds /\ ready[i] # fd
    BY <1>2, <1>6 DEF Readable
  <2>2. CASE file[fd] # "expired"
    BY <1>1, <1>3, <1>6, <2>1, <2>2 DEF Readable
  <2>3. CASE file[fd] = "expired"
    <3>1. ready' = Append(ready, fd)
      BY <1>1, <2>3
    <3> HIDE DEF fd
    <3>2. /\ ready' \in Seq(Fds) /\ Len(ready') = Len(ready) + 1
          /\ \A i \in 1 .. Len(ready) : ready'[i] = ready[i]
          /\ ready'[Len(ready) + 1] = fd
      BY <1>2, <1>6, <3>1, AppendProperties
    <3>3. \A i \in DOMAIN ready' : i \in DOMAIN ready \/ i = Len(ready) + 1
      BY <1>6, <3>2
    <3>4. \A i \in DOMAIN ready : ready'[i] = ready[i]
      BY <1>6, <3>2
    <3>5. \A i \in DOMAIN ready : interest'[ready[i]] # NULL /\ file'[ready[i]] = "expired"
      BY <1>1, <1>3, <1>6, <2>1 DEF Readable
    <3>6. interest'[fd] # NULL /\ file'[fd] = "expired"
      BY <1>1, <1>2, <1>3, <2>3
    <3>7. \A i \in DOMAIN ready' : interest'[ready'[i]] # NULL /\ file'[ready'[i]] = "expired"
      BY <3>2, <3>3, <3>4, <3>5, <3>6
    <3>8. \A i, j \in DOMAIN ready' : ready'[i] = ready'[j] => i = j
      BY <1>6, <2>1, <3>2, <3>3, <3>4 DEF Readable
    <3> QED
      BY <3>2, <3>7, <3>8 DEF Readable
  <2> QED
    BY <2>2, <2>3
<1>8. TypeOK'
  BY <1>1, <1>3, <1>4, <1>7 DEF OInv, TypeOK
<1>9. CallTimers'
  <2> SUFFICES ASSUME NEW u \in Threads, mine'[u] # NULL
               PROVE  /\ mine'[u] \in allocated'
                      /\ \A v \in Threads : mine'[v] = mine'[u] => v = u
                      /\ timer'[mine'[u]].data = offer'[u]
                      /\ pc'[u] = "create" <=> timer'[mine'[u]].tfd = -1
                      /\ pc'[u] # "create" => interest'[timer'[mine'[u]].tfd] = NULL
    BY DEF CallTimers
  <2>1. u # t /\ mine'[u] = mine[u] /\ mine[u] # m /\ mine[u] \in allocated
    BY <1>2, <1>4 DEF OInv, CallTimers
  <2>2. timer[mine[u]].tfd # -1 => timer[mine[u]].tfd # fd /\ timer[mine[u]].tfd \in Fds
    <3>1. ~Gone(mine[u])
      BY <2>1, CallTimer DEF OInv, Labels
    <3> QED
      BY <1>2, <1>6, <2>1, <3>1 DEF OInv, Descriptors, TypeOK
  <2>3. /\ \A v \in Threads : mine[v] = mine[u] => v = u
        /\ timer[mine[u]].data = offer[u]
        /\ pc[u] = "create" <=> timer[mine[u]].tfd = -1
        /\ pc[u] # "create" => interest[timer[mine[u]].tfd] = NULL
    BY <2>1, <1>4 DEF OInv, CallTimers
  <2> QED
    BY <1>1, <1>3, <1>4, <2>1, <2>2, <2>3
<1>10. Descriptors'
  BY <1>1, <1>5 DEF OInv, Descriptors
<1>11. Watches'
  <2>1. \A g \in Fds : interest'[g] # NULL =>
          interest'[g] \in allocated /\ timer[interest'[g]].tfd = g /\ ~Releasing(interest'[g])
    BY <1>2, <1>3 DEF OInv, Watches
  <2>2. \A a \in allocated : a # m /\ (\A u \in Threads : mine'[u] # a) => \A u \in Threads : mine[u] # a
    BY <1>4 DEF m
  <2>3. \A a \in allocated : (\A u \in Threads : mine'[u] # a) /\ ~Releasing(a) =>
          timer[a].tfd # -1 /\ interest'[timer[a].tfd] = a
    <3> SUFFICES ASSUME NEW a \in allocated, \A u \in Threads : mine'[u] # a, ~Releasing(a)
                 PROVE  timer[a].tfd # -1 /\ interest'[timer[a].tfd] = a
      OBVIOUS
    <3>1. CASE a = m
      BY <1>2, <1>3, <3>1, ThreadFacts
    <3>2. CASE a # m
      <4>1. timer[a].tfd # -1 /\ interest[timer[a].tfd] = a
        BY <2>2, <3>2 DEF OInv, Watches
      <4>2. timer[a].tfd \in Fds /\ a # NULL
        BY <1>6, <4>1, ThreadFacts DEF OInv, TypeOK
      <4> QED
        BY <1>2, <1>3, <4>1, <4>2
    <3> QED
      BY <3>1, <3>2
  <2> QED
    BY <1>1, <1>5, <2>1, <2>3 DEF Watches
<1>12. Reported'
  <2>1. \A i \in DOMAIN batch, u \in Threads : mine'[u] # batch[i]
    BY <1>4, <1>6, ThreadFacts DEF OInv, Reported, TypeOK
  <2>2. \A i \in DOMAIN batch : batch[i] # NULL /\ timer[batch[i]].tfd \in Fds
    BY <1>6, ThreadFacts DEF OInv, Reported, TypeOK
  <2>3. \A i \in DOMAIN batch : interest[timer[batch[i]].tfd] = batch[i]
                                 => interest'[timer[batch[i]].tfd] = batch[i]
    BY <1>2, <1>3, <2>2
  <2> QED
    BY <1>1, <1>5, <2>1, <2>3 DEF OInv, Reported
<1>13. HasEvent'
  BY <1>1, <1>5 DEF OInv, HasEvent
<1> QED
  BY <1>4, <1>7, <1>8, <1>9, <1>10, <1>11, <1>12, <1>13 DEF OInv
\* A step of the timer thread from one of its own labels to another
LEMMA ServeGoto ==
  ASSUME OInv, NEW label \in ServeSteps \cup {"wait"}, Goto(TimerThread, label),
         pc[TimerThread] \in ServeSteps \cup {"wait"}, UNCHANGED <<offer, mine>>
  PROVE  /\ Labels'
         /\ pc' \in [Threads -> AddSteps \cup ServeSteps \cup {"idle", "wait", "absent"}]
         /\ pc'[TimerThread] = label
         /\ \A u \in Threads : u # TimerThread => pc'[u] = pc[u]
         /\ label \notin AddSteps \cup Holding
         /\ mine[TimerThread] = NULL /\ offer[TimerThread] = NULL
<1>1. label \notin AddSteps \cup Holding /\ pc[TimerThread] \notin AddSteps \cup Holding
  BY DEF AddSteps, Holding, ServeSteps
<1>2. offer[TimerThread] = NULL /\ mine[TimerThread] = NULL
  BY <1>1, ThreadFacts DEF OInv, Labels
<1>3. offer' \in [Threads -> Events \cup {NULL}] /\ mine' \in [Threads -> TimerAddr \cup {NULL}]
  BY DEF OInv, TypeOK
<1> QED
  BY <1>1, <1>2, <1>3, ThreadFacts, LabelsGoto

LEMMA EpollWaitOwned ==
  ASSUME OInv, EpollWait
  PROVE  OInv'
<1> DEFINE n == IF Len(ready) < MaxEvents THEN Len(ready) ELSE MaxEvents
           b == [i \in 1 .. n |-> interest[ready[i]]]
           r == SubSeq(ready, n + 1, Len(ready)) \o SubSeq(ready, 1, n)
<1>1. /\ pc[TimerThread] = "wait" /\ ready # <<>> /\ Goto(TimerThread, "read")
      /\ UNCHANGED <<epfd, file, interest, allocated, timer, offer, answer, mine>>
      /\ batch' = b /\ ready' = r
  BY DEF EpollWait, heap
<1>2. ready \in Seq(Fds) /\ Len(ready) \in Nat \ {0} /\ DOMAIN ready = 1 .. Len(ready) /\ Readable
  BY <1>1 DEF OInv, TypeOK
<1>3. n \in 0 .. Len(ready) /\ n \in Nat \ {0} /\ n <= MaxEvents /\ n <= Len(ready)
  BY <1>2, TimerAssumption
<1>4. r \in Seq(Fds) /\ Thins(r, ready)
  BY <1>2, <1>3, RotatedIs
<1>5. \A i \in 1 .. n : /\ i \in DOMAIN ready /\ ready[i] \in Fds
                        /\ b[i] = interest[ready[i]] /\ b[i] # NULL /\ b[i] \in TimerAddr
                        /\ b[i] \in allocated /\ timer[b[i]].tfd = ready[i]
  <2> SUFFICES ASSUME NEW i \in 1 .. n
               PROVE  /\ i \in DOMAIN ready /\ ready[i] \in Fds
                      /\ interest[ready[i]] # NULL /\ interest[ready[i]] \in TimerAddr
                      /\ interest[ready[i]] \in allocated /\ timer[interest[ready[i]]].tfd = ready[i]
    OBVIOUS
  <2>1. i \in DOMAIN ready
    BY <1>2, <1>3
  <2>2. ready[i] \in Fds /\ interest[ready[i]] # NULL
    BY <1>2, <2>1 DEF Readable
  <2> QED
    BY <2>1, <2>2 DEF OInv, TypeOK, Watches
<1>6. DOMAIN b = 1 .. n /\ Len(b) = n /\ b \in Seq(TimerAddr)
  <2>1. b \in [1 .. n -> TimerAddr]
    BY <1>5
  <2> QED
    BY <1>3, <2>1
<1> HIDE DEF b, r, n
<1>7. /\ Labels'
      /\ pc' \in [Threads -> AddSteps \cup ServeSteps \cup {"idle", "wait", "absent"}]
      /\ pc'[TimerThread] = "read"
      /\ \A u \in Threads : u # TimerThread => pc'[u] = pc[u]
  <2>1. "read" \in ServeSteps
    BY DEF ServeSteps
  <2> QED
    BY <1>1, <2>1, ServeGoto
<1>8. TypeOK'
  BY <1>1, <1>3, <1>4, <1>6, <1>7 DEF OInv, TypeOK
<1>9. /\ ~Unwatched /\ ~Unwatched' /\ \A a : ~Gone(a) /\ ~Gone(a)' /\ ~Releasing(a) /\ ~Releasing(a)'
      /\ \A u \in Threads : pc'[u] = "create" <=> pc[u] = "create"
  BY <1>1, <1>7 DEF Unwatched, Gone, Releasing
<1>10. CallTimers'
  BY <1>1, <1>9 DEF OInv, CallTimers
<1>11. Descriptors'
  BY <1>1, <1>9 DEF OInv, Descriptors
<1>12. Watches'
  BY <1>1, <1>9 DEF OInv, Watches
<1>13. Reported'
  <2>1. b # <<>>
    BY <1>3, <1>6
  <2>2. \A i \in 1 .. n, j \in 1 .. n : b[i] = b[j] => i = j
    BY <1>2, <1>5 DEF Readable
  <2>3. \A i \in 1 .. n, u \in Threads : mine[u] # b[i]
    <3> SUFFICES ASSUME NEW i \in 1 .. n, NEW u \in Threads, mine[u] = b[i] PROVE FALSE
      OBVIOUS
    <3>1. pc[u] \in Holding
      BY <1>5 DEF OInv, Labels
    <3>2. \A g \in Fds : interest[g] # mine[u]
      BY <3>1, CallTimer
    <3> QED
      BY <1>5, <3>2
  <2>4. \A i \in 1 .. n : timer[b[i]].tfd # -1 /\ interest[timer[b[i]].tfd] = b[i]
    BY <1>5, ThreadFacts
  <2> QED
    BY <1>1, <1>5, <1>6, <1>7, <2>1, <2>2, <2>3, <2>4 DEF Reported
<1>14. Readable'
  <2>1. Thins(ready', ready)
    BY <1>1, <1>4
  <2> QED
    BY <1>1, <1>2, <2>1, ReadableKeeps
<1>15. HasEvent'
  BY <1>1, <1>7 DEF OInv, HasEvent, AddSteps
<1> QED
  BY <1>7, <1>8, <1>10, <1>11, <1>12, <1>13, <1>14, <1>15 DEF OInv

\* EPOLL_CTL_DEL: the timer leaves the epoll set while its descriptor is still its own.
LEMMA ReleaseDelOwned ==
  ASSUME OInv, pc[TimerThread] = "del", Unwatch(fd0), Goto(TimerThread, "close"),
         UNCHANGED <<epfd, heap, offer, answer, mine, batch>>
  PROVE  OInv'
<1>1. /\ Len(batch) \in Nat \ {0} /\ DOMAIN batch = 1 .. Len(batch)
      /\ 1 \in DOMAIN batch /\ t0 = batch[1]
      /\ t0 \in allocated /\ t0 \in TimerAddr /\ fd0 \in Fds
      /\ \A t \in Threads : mine[t] # t0
  BY CurrentTimer
<1>2. UNCHANGED <<epfd, file, allocated, timer, offer, answer, mine, batch>> /\ t0' = t0
  BY DEF heap, Unwatch, t0
<1>3. /\ interest' \in [Fds -> TimerAddr \cup {NULL}] /\ interest'[fd0] = NULL
      /\ \A g \in Fds : g # fd0 => interest'[g] = interest[g]
  BY <1>1 DEF Unwatch, OInv, TypeOK
<1>4. /\ ready' \in Seq(Fds) /\ Thins(ready', ready)
      /\ \A i \in DOMAIN ready' : ready'[i] # fd0
  <2>1. ready' = Unlisted(fd0)
    BY DEF Unwatch
  <2>2. ready \in Seq(Fds) /\ \A i, j \in DOMAIN ready : ready[i] = ready[j] => i = j
    BY DEF OInv, TypeOK, Readable
  <2> QED
    BY <2>1, <2>2, UnlistedIs
<1>5. /\ Labels'
      /\ pc' \in [Threads -> AddSteps \cup ServeSteps \cup {"idle", "wait", "absent"}]
      /\ pc'[TimerThread] = "close"
      /\ \A u \in Threads : u # TimerThread => pc'[u] = pc[u]
  <2>1. "close" \in ServeSteps /\ "del" \in ServeSteps
    BY DEF ServeSteps
  <2> QED
    BY <1>2, <2>1, ServeGoto
<1>6. TypeOK'
  BY <1>2, <1>3, <1>4, <1>5 DEF OInv, TypeOK
<1>7. /\ ~Unwatched /\ Unwatched'
      /\ \A a : ~Gone(a) /\ ~Gone(a)' /\ ~Releasing(a) /\ (Releasing(a)' <=> a = t0)
      /\ \A u \in Threads : pc'[u] = "create" <=> pc[u] = "create"
  BY <1>2, <1>5 DEF Unwatched, Gone, Releasing
<1>8. allocated \subseteq TimerAddr /\ interest[fd0] = t0
  BY <1>1, <1>7 DEF OInv, TypeOK, Reported, fd0
<1>9. \A a \in allocated : a # t0 /\ timer[a].tfd # -1 => timer[a].tfd \in Fds /\ timer[a].tfd # fd0
  BY <1>1, <1>7, <1>8, ThreadFacts, ZenonT(30) DEF OInv, Descriptors, TypeOK, fd0
<1>10. CallTimers'
  <2>1. \A u \in Threads : mine[u] # NULL /\ pc[u] # "create" =>
          timer[mine[u]].tfd \in Fds /\ interest[timer[mine[u]].tfd] = NULL
    BY CallTimer DEF OInv, Labels
  <2>2. \A u \in Threads : mine[u] # NULL /\ pc[u] # "create" =>
          interest'[timer[mine[u]].tfd] = NULL
    BY <1>3, <2>1
  <2> QED
    BY <1>2, <1>7, <2>2 DEF OInv, CallTimers
<1>11. Descriptors'
  BY <1>2, <1>7 DEF OInv, Descriptors
<1>12. Watches'
  <2>1. \A g \in Fds : interest'[g] # NULL =>
          interest'[g] \in allocated /\ timer[interest'[g]].tfd = g /\ interest'[g] # t0
    BY <1>1, <1>3 DEF OInv, Watches, fd0
  <2>2. \A a \in allocated : (\A u \in Threads : mine[u] # a) /\ a # t0 =>
          timer[a].tfd # -1 /\ interest'[timer[a].tfd] = a
    BY <1>3, <1>7, <1>9 DEF OInv, Watches
  <2> QED
    BY <1>2, <1>7, <2>1, <2>2 DEF Watches
<1>13. Reported'
  <2>1. \A i \in DOMAIN batch : i > 1 => batch[i] # t0 /\ batch[i] \in allocated
    BY <1>1 DEF OInv, Reported
  <2>2. \A i \in DOMAIN batch : i > 1 => interest'[timer[batch[i]].tfd] = batch[i]
    BY <1>3, <1>7, <1>9, <2>1 DEF OInv, Reported
  <2> QED
    BY <1>1, <1>2, <1>5, <1>7, <2>2 DEF OInv, Reported
<1>14. Readable'
  <2>1. \A i \in DOMAIN ready' : ready'[i] \in Fds
    BY <1>4
  <2> QED
    BY <1>2, <1>3, <1>4, <2>1, ReadableKeeps DEF OInv
<1>15. HasEvent'
  BY <1>2, <1>5 DEF OInv, HasEvent, AddSteps
<1> QED
  BY <1>5, <1>6, <1>10, <1>11, <1>12, <1>13, <1>14, <1>15 DEF OInv
\* close: the number goes back, and with it what t0 remembers of it counts no more.
LEMMA ReleaseCloseOwned ==
  ASSUME OInv, pc[TimerThread] = "close", CloseFd(fd0), Goto(TimerThread, "free"),
         UNCHANGED <<epfd, heap, offer, answer, mine, batch>>
  PROVE  OInv'
<1>1. /\ Len(batch) \in Nat \ {0} /\ DOMAIN batch = 1 .. Len(batch)
      /\ 1 \in DOMAIN batch /\ t0 = batch[1]
      /\ t0 \in allocated /\ t0 \in TimerAddr /\ fd0 \in Fds
      /\ \A t \in Threads : mine[t] # t0
  BY CurrentTimer
<1>2. UNCHANGED <<epfd, allocated, timer, offer, answer, mine, batch>> /\ t0' = t0
  BY DEF heap, t0
<1>3. /\ file' \in [Fds -> Files] /\ file'[fd0] = "free"
      /\ interest' \in [Fds -> TimerAddr \cup {NULL}] /\ interest'[fd0] = NULL
      /\ \A g \in Fds : g # fd0 => file'[g] = file[g] /\ interest'[g] = interest[g]
      /\ ready' \in Seq(Fds) /\ Readable'
  BY <1>1, CloseIs
<1>4. /\ Labels'
      /\ pc' \in [Threads -> AddSteps \cup ServeSteps \cup {"idle", "wait", "absent"}]
      /\ pc'[TimerThread] = "free"
      /\ \A u \in Threads : u # TimerThread => pc'[u] = pc[u]
  <2>1. "close" \in ServeSteps /\ "free" \in ServeSteps
    BY DEF ServeSteps
  <2> QED
    BY <1>2, <2>1, ServeGoto
<1>5. TypeOK'
  BY <1>2, <1>3, <1>4 DEF OInv, TypeOK, Files
<1>6. /\ Unwatched /\ Unwatched'
      /\ \A a : ~Gone(a) /\ (Gone(a)' <=> a = t0)
      /\ \A a : Releasing(a) <=> a = t0
      /\ \A a : Releasing(a)' <=> a = t0
      /\ \A u \in Threads : pc'[u] = "create" <=> pc[u] = "create"
  BY <1>2, <1>4 DEF Unwatched, Gone, Releasing
<1>7. interest' = interest
  <2>1. interest[fd0] = NULL
    <3> SUFFICES ASSUME interest[fd0] # NULL PROVE FALSE
      OBVIOUS
    <3>1. interest[fd0] \in allocated /\ timer[interest[fd0]].tfd = fd0 /\ interest[fd0] # t0
      BY <1>1, <1>6 DEF OInv, Watches
    <3> QED
      BY <1>1, <1>6, <3>1, ThreadFacts DEF OInv, Descriptors, fd0
  <2> QED
    BY <1>3, <2>1 DEF OInv, TypeOK
<1>8. CallTimers'
  BY <1>2, <1>6, <1>7 DEF OInv, CallTimers
<1>9. Descriptors'
  <2>1. \A a \in allocated : a # t0 /\ timer[a].tfd # -1 =>
          timer[a].tfd \in Fds /\ timer[a].tfd # fd0 /\ file[timer[a].tfd] \in TimerFiles
    BY <1>1, <1>6, ThreadFacts DEF OInv, Descriptors, TypeOK, fd0
  <2>2. \A a \in allocated : timer[a].tfd # -1 /\ a # t0 => file'[timer[a].tfd] \in TimerFiles
    BY <1>3, <2>1
  <2>3. \A a, b \in allocated :
          timer[a].tfd # -1 /\ timer[a].tfd = timer[b].tfd /\ a # t0 /\ b # t0 => a = b
    BY <1>6 DEF OInv, Descriptors
  <2>4. \A g \in Fds : file'[g] \in TimerFiles => \E a \in allocated : timer[a].tfd = g /\ a # t0
    <3> SUFFICES ASSUME NEW g \in Fds, file'[g] \in TimerFiles
                 PROVE  \E a \in allocated : timer[a].tfd = g /\ a # t0
      OBVIOUS
    <3>1. g # fd0
      BY <1>3 DEF TimerFiles
    <3>2. PICK a \in allocated : timer[a].tfd = g
      BY <1>3, <3>1 DEF OInv, Descriptors
    <3> QED
      BY <3>1, <3>2 DEF fd0
  <2> QED
    BY <1>2, <1>6, <2>2, <2>3, <2>4 DEF Descriptors
<1>10. Watches'
  BY <1>2, <1>6, <1>7 DEF OInv, Watches
<1>11. Reported'
  BY <1>2, <1>4, <1>6, <1>7 DEF OInv, Reported
<1>12. HasEvent'
  BY <1>2, <1>4 DEF OInv, HasEvent, AddSteps
<1> QED
  BY <1>3, <1>4, <1>5, <1>8, <1>9, <1>10, <1>11, <1>12 DEF OInv

\* free: nothing but the batch knows the timer any more, and NextEvent forgets it.
LEMMA ReleaseFreeOwned ==
  ASSUME OInv, pc[TimerThread] = "free", Free(t0), NextEvent,
         UNCHANGED <<epfd, kernel, offer, answer, mine>>
  PROVE  OInv'
<1> DEFINE label == IF Len(batch) = 1 THEN "wait" ELSE "read"
<1>1. /\ Len(batch) \in Nat \ {0} /\ DOMAIN batch = 1 .. Len(batch)
      /\ 1 \in DOMAIN batch /\ t0 = batch[1]
      /\ t0 \in allocated /\ t0 \in TimerAddr
      /\ \A t \in Threads : mine[t] # t0
  BY CurrentTimer
<1>2. /\ UNCHANGED <<epfd, file, interest, ready, offer, answer, mine>>
      /\ batch' = Tail(batch) /\ Goto(TimerThread, label)
      /\ allocated' = allocated \ {t0} /\ timer' = [timer EXCEPT ![t0] = Freed]
  BY DEF kernel, NextEvent, Free
<1>3. /\ batch' \in Seq(TimerAddr) /\ Len(batch') = Len(batch) - 1
      /\ DOMAIN batch' = 1 .. Len(batch) - 1
      /\ \A i \in 1 .. Len(batch) - 1 : batch'[i] = batch[i + 1] /\ i + 1 \in DOMAIN batch /\ i + 1 > 1
  <2>1. batch \in Seq(TimerAddr) /\ batch # <<>>
    BY <1>1 DEF OInv, TypeOK
  <2>2. /\ batch' \in Seq(TimerAddr) /\ Len(batch') = Len(batch) - 1
        /\ \A i \in 1 .. Len(batch') : batch'[i] = batch[i + 1]
    BY <1>2, <2>1, HeadTailProperties
  <2> QED
    BY <1>1, <2>2
<1>4. label \in ServeSteps \cup {"wait"} /\ pc[TimerThread] \in ServeSteps \cup {"wait"}
      /\ label \notin {"close", "free", "absent"}
  BY DEF ServeSteps
<1>5. /\ Labels'
      /\ pc' \in [Threads -> AddSteps \cup ServeSteps \cup {"idle", "wait", "absent"}]
      /\ pc'[TimerThread] = label
      /\ \A u \in Threads : u # TimerThread => pc'[u] = pc[u]
  <2> HIDE DEF label
  <2> QED
    BY <1>2, <1>4, ServeGoto
<1>6. /\ timer' \in [TimerAddr -> [tfd : Fds \cup {-1}, data : Events \cup {NULL}]]
      /\ allocated' \subseteq TimerAddr
      /\ \A b \in allocated' : b \in allocated /\ b # t0 /\ timer'[b] = timer[b]
  BY <1>1, <1>2 DEF OInv, TypeOK, Freed
<1>7. TypeOK'
  BY TimerAssumption, <1>1, <1>2, <1>3, <1>5, <1>6 DEF OInv, TypeOK
<1>8. /\ Unwatched /\ ~Unwatched'
      /\ \A a : ~Gone(a)' /\ ~Releasing(a)'
      /\ \A a : (Gone(a) <=> a = t0) /\ (Releasing(a) <=> a = t0)
      /\ \A u \in Threads : pc'[u] = "create" <=> pc[u] = "create"
  BY <1>4, <1>5 DEF Unwatched, Gone, Releasing
<1>9. CallTimers'
  <2>1. \A u \in Threads : mine[u] # NULL => mine[u] \in allocated' /\ timer'[mine[u]] = timer[mine[u]]
    BY <1>1, <1>2, <1>6 DEF OInv, CallTimers
  <2> QED
    BY <1>2, <1>8, <2>1 DEF OInv, CallTimers
<1>10. Descriptors'
  <2>1. \A g \in Fds : file[g] \in TimerFiles => \E a \in allocated' : timer'[a].tfd = g
    <3> SUFFICES ASSUME NEW g \in Fds, file[g] \in TimerFiles
                 PROVE  \E a \in allocated' : timer'[a].tfd = g
      OBVIOUS
    <3>1. PICK a \in allocated : timer[a].tfd = g /\ a # t0
      BY <1>8 DEF OInv, Descriptors
    <3>2. a \in allocated' /\ timer'[a] = timer[a]
      BY <1>2, <1>6, <3>1
    <3> QED
      BY <3>1, <3>2
  <2>2. \A a \in allocated' : timer'[a].tfd # -1 => file[timer'[a].tfd] \in TimerFiles
    BY <1>6, <1>8 DEF OInv, Descriptors
  <2>3. \A a, b \in allocated' : timer'[a].tfd # -1 /\ timer'[a].tfd = timer'[b].tfd => a = b
    BY <1>6, <1>8 DEF OInv, Descriptors
  <2> QED
    BY <1>2, <1>8, <2>1, <2>2, <2>3 DEF Descriptors
<1>11. Watches'
  <2>1. \A g \in Fds : interest[g] # NULL => interest[g] \in allocated' /\ timer'[interest[g]].tfd = g
    BY <1>2, <1>6, <1>8 DEF OInv, Watches
  <2>2. \A a \in allocated' : (\A u \in Threads : mine[u] # a) =>
          timer'[a].tfd # -1 /\ interest[timer'[a].tfd] = a
    BY <1>6, <1>8 DEF OInv, Watches
  <2> QED
    BY <1>2, <1>8, <2>1, <2>2 DEF Watches
<1>12. Reported'
  <2>1. \A i \in DOMAIN batch : i > 1 =>
          /\ batch[i] \in allocated' /\ timer'[batch[i]] = timer[batch[i]]
          /\ \A u \in Threads : mine[u] # batch[i]
          /\ timer[batch[i]].tfd # -1 /\ interest[timer[batch[i]].tfd] = batch[i]
          /\ \A j \in DOMAIN batch : batch[i] = batch[j] => i = j
    BY <1>1, <1>2, <1>6 DEF OInv, Reported
  <2>2. \A i \in DOMAIN batch' :
          /\ batch'[i] \in allocated'
          /\ \A u \in Threads : mine'[u] # batch'[i]
          /\ timer'[batch'[i]].tfd # -1 /\ interest'[timer'[batch'[i]].tfd] = batch'[i]
    BY <1>2, <1>3, <2>1
  <2>3. \A i, j \in DOMAIN batch' : batch'[i] = batch'[j] => i = j
    BY <1>1, <1>3, <2>1
  <2>4. batch' = <<>> <=> pc'[TimerThread] \in {"wait", "absent"}
    BY <1>1, <1>3, <1>5
  <2> QED
    BY <2>2, <2>3, <2>4 DEF Reported
<1>13. Readable'
  BY <1>2 DEF OInv, Readable
<1>14. HasEvent'
  BY <1>5, <1>6 DEF OInv, HasEvent, AddSteps
<1> QED
  BY <1>5, <1>7, <1>9, <1>10, <1>11, <1>12, <1>13, <1>14 DEF OInv

-----------------------------------------------------------------------------
\* Every step, and what it gives

LEMMA StepOInv == OInv /\ [Next]_vars => OInv'
<1> SUFFICES ASSUME OInv, [Next]_vars PROVE OInv'
  OBVIOUS
<1>1. CASE UNCHANGED vars
  <2>1. UNCHANGED <<epfd, file, interest, ready, allocated, timer, pc, offer, answer, mine, batch>>
    BY <1>1 DEF vars, kernel, heap, calls
  <2>2. Readable' /\ TypeOK' /\ Labels'
    BY <2>1 DEF OInv, Readable, TypeOK, Labels
  <2> QED
    BY <2>1, <2>2, NothingMoves
<1>2. CASE \E t \in Adders, e \in Roots : AddCall(t, e)
  BY <1>2, AddCallOwned
<1>3. ASSUME NEW t \in Threads, Add(t) PROVE OInv'
  BY <1>3, AddRefusedOwned, AddMallocOwned, AddCreateOwned, AddSettimeOwned,
     AddGivesUpOwned, AddWatchOwned DEF Add
<1>4. CASE Release
  <2>1. CASE pc[TimerThread] = "del"
    BY <1>4, <2>1, ReleaseDelOwned DEF Release
  <2>2. CASE pc[TimerThread] = "close"
    BY <1>4, <2>2, ReleaseCloseOwned DEF Release
  <2>3. CASE pc[TimerThread] = "free"
    BY <1>4, <2>3, ReleaseFreeOwned DEF Release
  <2> QED
    BY <1>4, <2>1, <2>2, <2>3 DEF Release
<1>5. CASE Serve
  BY <1>4, <1>5, EpollWaitOwned, ReadTimerOwned, CallbackOwned, CallbackAddOwned DEF Serve
<1>6. CASE EpollTimeout
  BY <1>1, <1>6 DEF EpollTimeout
<1>7. CASE \E fd \in Fds : Expire(fd)
  BY <1>7, ExpireOwned
<1> QED
  BY <1>1, <1>2, <1>3, <1>5, <1>6, <1>7 DEF Next

\* The memory of timers and calls stays what its types say, and epoll_wait never
\* reports more than timer_thread_func has room for.
THEOREM TimersTypeCorrect == Spec => []TypeOK
<1>1. OInv => TypeOK
  BY DEF OInv
<1> QED
  BY <1>1, InitOInv, StepOInv, PTL DEF Spec

\* No timer is used after free and none is leaked, nor is its descriptor: between a
\* call, the epoll set with the reported events, and the release, it has one owner.
THEOREM TimersHaveOneOwner == Spec => []TimersOwned
<1>1. ASSUME OInv PROVE TimersOwned
  <2>1. ASSUME NEW a \in allocated
        PROVE  \/ InCall(a) # {} /\ Watched(a) = {} /\ ~Releasing(a)
               \/ InCall(a) = {} /\ Watched(a) = {timer[a].tfd} /\ ~Releasing(a)
               \/ InCall(a) = {} /\ Watched(a) = {} /\ Releasing(a)
    <3>0. a \in TimerAddr /\ a # NULL /\ timer[a].tfd \in Fds \cup {-1}
      BY <1>1, ThreadFacts DEF OInv, TypeOK
    <3>1. CASE \E t \in Threads : mine[t] = a
      <4>1. PICK t \in Threads : mine[t] = a
        BY <3>1
      <4>2. pc[t] \in Holding
        BY <1>1, <3>0, <4>1 DEF OInv, Labels
      <4> QED
        BY <1>1, <4>1, <4>2, CallTimer DEF InCall, Watched
    <3>2. CASE ~(\E t \in Threads : mine[t] = a) /\ Releasing(a)
      <4>1. \A fd \in Fds : interest[fd] # a
        BY <1>1, <3>0, <3>2 DEF OInv, Watches
      <4> QED
        BY <3>2, <4>1 DEF InCall, Watched
    <3>3. CASE ~(\E t \in Threads : mine[t] = a) /\ ~Releasing(a)
      <4>1. timer[a].tfd \in Fds /\ interest[timer[a].tfd] = a
        BY <1>1, <3>0, <3>3 DEF OInv, Watches
      <4>2. \A fd \in Fds : interest[fd] = a => fd = timer[a].tfd
        BY <1>1, <3>0 DEF OInv, Watches
      <4> QED
        BY <3>3, <4>1, <4>2 DEF InCall, Watched
    <3> QED
      BY <3>1, <3>2, <3>3
  <2>2. \A fd \in Fds : /\ interest[fd] # NULL => interest[fd] \in allocated
                        /\ file[fd] \in {"disarmed", "armed", "expired"} =>
                             \E a \in allocated : timer[a].tfd = fd
    BY <1>1 DEF OInv, Watches, Descriptors, TimerFiles
  <2>3. ASSUME NEW i \in DOMAIN batch
        PROVE  /\ batch[i] \in allocated
               /\ \A j \in DOMAIN batch : batch[i] = batch[j] => i = j
               /\ i > 1 => Watched(batch[i]) # {}
    <3>1. /\ batch[i] \in allocated
          /\ \A j \in DOMAIN batch : batch[i] = batch[j] => i = j
          /\ timer[batch[i]].tfd # -1
          /\ i > 1 => interest[timer[batch[i]].tfd] = batch[i]
      BY <1>1 DEF OInv, Reported
    <3>2. timer[batch[i]].tfd \in Fds
      BY <1>1, <3>1 DEF OInv, TypeOK
    <3> QED
      BY <3>1, <3>2 DEF Watched
  <2> QED
    BY <2>1, <2>2, <2>3 DEF TimersOwned
<1> QED
  BY <1>1, InitOInv, StepOInv, PTL DEF Spec
=============================================================================
