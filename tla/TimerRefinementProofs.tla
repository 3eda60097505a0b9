----------------------- MODULE TimerRefinementProofs -----------------------
(***************************************************************************)
(* timer_manager.c implements OneShotTimers.  Besides who owns a timer     *)
(* (OInv) this takes what its user data is: the abstract timers are events *)
(* and not addresses, so no two timers may wait with the same event, not   *)
(* even when a callback adds its next timer while the old one still exists.*)
(***************************************************************************)
EXTENDS TimerManagerProofs

\* A user_data is with one timer or one call until its callback has passed it on,
\* and what a callback will re-arm with is with nobody before that callback's call.
UserData ==
  /\ \A a, b \in allocated :
       timer[a].data = timer[b].data /\ ~Spent(a) /\ ~Spent(b) => a = b
  /\ \A a \in allocated, t \in Threads :
       offer[t] = timer[a].data /\ ~Spent(a) => mine[t] = a
  /\ \A t, u \in Threads : offer[t] # NULL /\ offer[t] = offer[u] => t = u
  /\ \A a \in allocated, e \in Events : Rearm[timer[a].data] = e /\ InUse(e) =>
       Spent(a) \/ (pc[TimerThread] \in AddSteps /\ a = t0)
  /\ \A t \in Threads, e \in Events :
       offer[t] # NULL /\ Rearm[offer[t]] = e => ~InUse(e)

RInv == OInv /\ UserData

LEMMA InitUserData == Init => UserData
BY DEF Init, Started, NoEpoll, NoThread, InitWith, UserData

\* A step that offers no new event and gives none to a timer
LEMMA NothingOffered ==
  ASSUME UserData, allocated' \subseteq allocated,
         \A a \in allocated' : timer'[a].data = timer[a].data /\ (Spent(a) => Spent(a)'),
         \A t \in Threads : offer'[t] = NULL \/ (offer'[t] = offer[t] /\ mine'[t] = mine[t]),
         \A a \in allocated' : timer'[a].data # NULL,
         \A a \in allocated' : pc[TimerThread] \in AddSteps /\ a = t0
           => Spent(a)' \/ (pc'[TimerThread] \in AddSteps /\ a = t0')
  PROVE  UserData'
<1>1. \A e : e # NULL /\ InUse(e)' => InUse(e)
  BY DEF InUse
<1>2. \A a, b \in allocated' :
        timer'[a].data = timer'[b].data /\ ~Spent(a)' /\ ~Spent(b)' => a = b
  BY DEF UserData
<1>3. \A a \in allocated', t \in Threads : offer'[t] = timer'[a].data /\ ~Spent(a)' => mine'[t] = a
  BY DEF UserData
<1>4. \A t, u \in Threads : offer'[t] # NULL /\ offer'[t] = offer'[u] => t = u
  BY DEF UserData
<1>5. \A a \in allocated', e \in Events : Rearm[timer'[a].data] = e /\ InUse(e)' =>
        Spent(a)' \/ (pc'[TimerThread] \in AddSteps /\ a = t0')
  BY <1>1, ThreadFacts DEF UserData
<1>6. \A t \in Threads, e \in Events : offer'[t] # NULL /\ Rearm[offer'[t]] = e => ~InUse(e)'
  BY <1>1, ThreadFacts DEF UserData
<1> QED
  BY <1>2, <1>3, <1>4, <1>5, <1>6 DEF UserData

LEMMA AddCallUserData ==
  ASSUME RInv, NEW t \in Adders, NEW e \in Roots, AddCall(t, e)
  PROVE  UserData'
<1>1. t \in Threads /\ t # TimerThread /\ e \in Events /\ e # NULL
  BY ThreadFacts, TimerAssumption
<1>2. /\ ~InUse(e) /\ (Rearm[e] # NULL => ~InUse(Rearm[e]))
      /\ UNCHANGED <<allocated, timer, mine, batch>>
  BY DEF AddCall, heap
<1>3. offer'[t] = e /\ \A u \in Threads : u # t => offer'[u] = offer[u]
  BY <1>1 DEF AddCall, RInv, OInv, TypeOK
<1>4. pc'[TimerThread] = pc[TimerThread]
  BY <1>1, ThreadFacts DEF AddCall, Goto, RInv, OInv, TypeOK
<1>5. \A a : Spent(a)' <=> Spent(a)
  BY <1>2, <1>4 DEF Spent
<1>6. \A x : InUse(x)' => InUse(x) \/ x = e
  BY <1>2, <1>3, <1>5 DEF InUse
<1>7. (\A a \in allocated : timer[a].data = e => Spent(a)) /\ \A u \in Threads : offer[u] # e
  BY <1>2 DEF InUse
<1>8. \A a \in allocated : timer[a].data \in Events /\ Rearm[timer[a].data] # e
  <2> TAKE a \in allocated
  <2>1. timer[a].data \in Events
    BY DEF RInv, OInv, TypeOK, HasEvent
  <2> QED
    BY <1>1, <2>1, RearmAssumption
<1>9. \A u \in Threads : offer'[u] # NULL => Rearm[offer'[u]] # e
  <2> TAKE u \in Threads
  <2>1. offer'[u] # NULL => offer'[u] \in Events
    BY <1>1, <1>3 DEF RInv, OInv, TypeOK
  <2> QED
    BY <1>1, <2>1, RearmAssumption
<1> USE DEF RInv, UserData
<1>10. \A a, b \in allocated :
         timer'[a].data = timer'[b].data /\ ~Spent(a)' /\ ~Spent(b)' => a = b
  BY <1>2, <1>5
<1>11. \A a \in allocated, u \in Threads : offer'[u] = timer'[a].data /\ ~Spent(a)' => mine'[u] = a
  BY <1>2, <1>3, <1>5, <1>7
<1>12. \A u, v \in Threads : offer'[u] # NULL /\ offer'[u] = offer'[v] => u = v
  BY <1>3, <1>7
<1>13. \A a \in allocated, x \in Events : Rearm[timer'[a].data] = x /\ InUse(x)' =>
         Spent(a)' \/ (pc'[TimerThread] \in AddSteps /\ a = t0')
  BY <1>2, <1>4, <1>5, <1>6, <1>8 DEF t0
<1>14. \A u \in Threads, x \in Events : offer'[u] # NULL /\ Rearm[offer'[u]] = x => ~InUse(x)'
  <2> SUFFICES ASSUME NEW u \in Threads, NEW x \in Events, offer'[u] # NULL, Rearm[offer'[u]] = x
               PROVE  ~InUse(x)
    BY <1>6, <1>9
  <2>1. CASE u = t
    BY <1>2, <1>3, <2>1, ThreadFacts
  <2>2. CASE u # t
    BY <1>3, <2>2
  <2> QED
    BY <2>1, <2>2
<1> QED
  BY <1>2, <1>10, <1>11, <1>12, <1>13, <1>14

\* The callback's own event is the one whose user data it passes on.
LEMMA CallbackAddUserData ==
  ASSUME RInv, CallbackAdd
  PROVE  UserData'
<1> DEFINE e == Rearm[timer[t0].data]
<1>1. /\ pc[TimerThread] = "rearm" /\ Goto(TimerThread, "malloc")
      /\ UNCHANGED <<allocated, timer, mine, batch>>
  BY DEF CallbackAdd, heap
<1>2. t0 \in allocated /\ t0 \in TimerAddr /\ (\A u \in Threads : mine[u] # t0) /\ ~Spent(t0)
  BY <1>1, CurrentTimer DEF RInv, Spent
<1>3. timer[t0].data \in Events /\ e \in Events
  <2>1. timer[t0].data \in Events /\ e # NULL
    BY <1>1, <1>2 DEF RInv, OInv, TypeOK, HasEvent
  <2> QED
    BY <2>1, TimerAssumption
<1>4. Rearm[e] = NULL /\ \A f \in Events : Rearm[f] = e => f = timer[t0].data
  BY <1>3, RearmAssumption, ThreadFacts
<1>5. ~InUse(e)
  BY <1>1, <1>2, <1>3 DEF RInv, UserData, AddSteps
<1>6. offer'[TimerThread] = e /\ \A u \in Threads : u # TimerThread => offer'[u] = offer[u]
  BY ThreadFacts DEF CallbackAdd, RInv, OInv, TypeOK
<1> HIDE DEF e
<1>7. pc'[TimerThread] = "malloc" /\ "malloc" \in AddSteps /\ t0' = t0
  BY <1>1, ThreadFacts DEF Goto, RInv, OInv, TypeOK, AddSteps, t0
<1>8. \A a : ~Spent(a)' /\ ~Spent(a)
  BY <1>1, <1>7 DEF Spent
<1>9. \A x : InUse(x)' => InUse(x) \/ x = e
  BY <1>1, <1>6, <1>8 DEF InUse
<1>10. (\A a \in allocated : timer[a].data # e) /\ \A u \in Threads : offer[u] # e
  BY <1>5, <1>8 DEF InUse
<1> USE DEF RInv, UserData
<1>11. \A a, b \in allocated : timer'[a].data = timer'[b].data => a = b
  BY <1>1, <1>8
<1>12. \A a \in allocated, u \in Threads : offer'[u] = timer'[a].data => mine'[u] = a
  BY <1>1, <1>6, <1>8, <1>10
<1>13. \A u, v \in Threads : offer'[u] # NULL /\ offer'[u] = offer'[v] => u = v
  BY <1>6, <1>10
<1>14. \A a \in allocated, x \in Events : Rearm[timer'[a].data] = x /\ InUse(x)' =>
         pc'[TimerThread] \in AddSteps /\ a = t0'
  <2> SUFFICES ASSUME NEW a \in allocated, NEW x \in Events, Rearm[timer[a].data] = x, InUse(x)'
               PROVE  a = t0
    BY <1>1, <1>7
  <2>1. timer[a].data \in Events
    BY DEF OInv, TypeOK, HasEvent
  <2>2. CASE x = e
    BY <1>2, <1>4, <1>8, <2>1, <2>2
  <2>3. CASE x # e
    BY <1>1, <1>8, <1>9, <2>3 DEF AddSteps
  <2> QED
    BY <2>2, <2>3
<1>15. \A u \in Threads, x \in Events : offer'[u] # NULL /\ Rearm[offer'[u]] = x => ~InUse(x)'
  <2> SUFFICES ASSUME NEW u \in Threads, NEW x \in Events, offer'[u] # NULL, Rearm[offer'[u]] = x,
                      InUse(x)'
               PROVE  FALSE
    OBVIOUS
  <2>1. u # TimerThread /\ offer'[u] = offer[u] /\ offer[u] \in Events
    BY <1>4, <1>6, ThreadFacts DEF OInv, TypeOK
  <2>2. x = e
    BY <1>9, <2>1
  <2>3. offer[u] = timer[t0].data
    BY <1>4, <2>1, <2>2
  <2> QED
    BY <1>2, <2>3
<1> QED
  BY <1>1, <1>8, <1>11, <1>12, <1>13, <1>14, <1>15

\* malloc: the event goes from the call to its timer.
LEMMA AddMallocUserData ==
  ASSUME RInv, NEW t \in Threads, AddMalloc(t)
  PROVE  UserData'
<1> PICK a \in TimerAddr \ allocated :
       /\ allocated' = allocated \cup {a}
       /\ timer' = [timer EXCEPT ![a] = [tfd |-> -1, data |-> offer[t]]]
       /\ mine' = [mine EXCEPT ![t] = a]
  BY DEF AddMalloc
<1>1. pc[t] = "malloc" /\ Goto(t, "create") /\ UNCHANGED <<offer, batch>>
  BY DEF AddMalloc
<1>2. mine[t] = NULL /\ offer[t] \in Events /\ offer[t] # NULL
  BY <1>1, ThreadFacts DEF RInv, OInv, Labels, TypeOK, AddSteps, Holding
<1>3. mine'[t] = a /\ \A u \in Threads : u # t => mine'[u] = mine[u]
  BY DEF RInv, OInv, TypeOK
<1>4. /\ timer'[a].data = offer[t] /\ a \notin allocated
      /\ \A b \in allocated : b # a /\ b # NULL /\ timer'[b] = timer[b]
  BY ThreadFacts DEF RInv, OInv, TypeOK
<1>5. pc'[t] = "create" /\ \A u \in Threads : u # t => pc'[u] = pc[u]
  BY <1>1 DEF Goto, RInv, OInv, TypeOK
<1>6. /\ \A b : Spent(b)' <=> Spent(b)
      /\ pc'[TimerThread] \in AddSteps <=> pc[TimerThread] \in AddSteps
      /\ t0' = t0
  BY <1>1, <1>5, ThreadFacts DEF Spent, AddSteps, t0
<1>7. \A x : InUse(x)' => InUse(x)
  BY <1>1, <1>4, <1>6 DEF InUse
<1> USE DEF RInv, UserData
<1>8. \A b \in allocated : timer[b].data = offer[t] => Spent(b)
  BY <1>2, <1>4
<1>9. \A b, c \in allocated' :
         timer'[b].data = timer'[c].data /\ ~Spent(b)' /\ ~Spent(c)' => b = c
  BY <1>4, <1>6, <1>8
<1>10. \A b \in allocated', u \in Threads : offer'[u] = timer'[b].data /\ ~Spent(b)' => mine'[u] = b
  BY <1>1, <1>2, <1>3, <1>4, <1>6, <1>8
<1>11. \A b \in allocated', x \in Events : Rearm[timer'[b].data] = x /\ InUse(x)' =>
         Spent(b)' \/ (pc'[TimerThread] \in AddSteps /\ b = t0')
  BY <1>2, <1>4, <1>6, <1>7
<1> QED
  BY <1>1, <1>7, <1>9, <1>10, <1>11

LEMMA ReturnUserData ==
  ASSUME RInv, OInv', NEW t \in Threads, pc[t] \in AddSteps, NEW result \in {0, -1},
         Return(t, result), batch' = batch, allocated' \subseteq allocated,
         \A a \in allocated' : timer'[a] = timer[a]
  PROVE  UserData'
<1>1. /\ pc'[t] = After(t) /\ offer'[t] = NULL
      /\ \A u \in Threads : u # t => pc'[u] = pc[u] /\ offer'[u] = offer[u] /\ mine'[u] = mine[u]
  BY ReturnLabels DEF RInv
<1>2. \A a : Spent(a) => Spent(a)'
  BY <1>1, ThreadFacts DEF Spent, AddSteps, After
<1>3. \A a : pc[TimerThread] \in AddSteps /\ a = t0 =>
               Spent(a)' \/ (pc'[TimerThread] \in AddSteps /\ a = t0')
  BY <1>1, ThreadFacts DEF Spent, After, t0
<1>4. \A a \in allocated' : timer'[a].data # NULL
  BY DEF OInv, HasEvent
<1> QED
  BY <1>1, <1>2, <1>3, <1>4, NothingOffered DEF RInv

LEMMA QuietUserData ==
  ASSUME RInv, OInv', UNCHANGED <<offer, mine>>, allocated' \subseteq allocated,
         \A a \in allocated' : timer'[a].data = timer[a].data /\ (Spent(a) => Spent(a)'),
         pc[TimerThread] \in AddSteps => pc'[TimerThread] \in AddSteps /\ batch' = batch
  PROVE  UserData'
<1>1. \A a : pc[TimerThread] \in AddSteps /\ a = t0 => pc'[TimerThread] \in AddSteps /\ a = t0'
  BY DEF t0
<1>2. \A a \in allocated' : timer'[a].data # NULL
  BY DEF OInv, HasEvent
<1> QED
  BY <1>1, <1>2, NothingOffered DEF RInv

LEMMA AddUserData ==
  ASSUME RInv, OInv', NEW t \in Threads, Add(t)
  PROVE  UserData'
<1>0. pc \in [Threads -> AddSteps \cup ServeSteps \cup {"idle", "wait", "absent"}]
  BY DEF RInv, OInv, TypeOK
<1>1. CASE AddRefused(t)
  BY <1>1, ReturnUserData DEF AddRefused, AddSteps, heap
<1>2. CASE AddMalloc(t)
  BY <1>2, AddMallocUserData
<1>3. CASE AddCreate(t) \/ AddSettime(t)
  <2>1. pc[t] \in {"create", "settime"} /\ \E label \in {"settime", "ctl"} : Goto(t, label)
    BY <1>3 DEF AddCreate, AddSettime
  <2>2. UNCHANGED <<offer, mine, batch, allocated>>
    BY <1>3 DEF AddCreate, AddSettime, heap
  <2>3. \A a \in allocated : timer'[a].data = timer[a].data
    <3>1. CASE AddSettime(t)
      BY <3>1 DEF AddSettime, heap
    <3>2. CASE AddCreate(t)
      <4>1. PICK fd \in Fds : timer' = [timer EXCEPT ![mine[t]].tfd = fd]
        BY <3>2 DEF AddCreate, FreeFds
      <4> QED
        BY <4>1 DEF RInv, OInv, TypeOK
    <3> QED
      BY <1>3, <3>1, <3>2
  <2>4. /\ \A a : Spent(a) => Spent(a)'
        /\ pc[TimerThread] \in AddSteps => pc'[TimerThread] \in AddSteps
    BY <1>0, <2>1, <2>2, ThreadFacts DEF Goto, Spent, AddSteps
  <2> QED
    BY <2>2, <2>3, <2>4, QuietUserData
<1>4. CASE AddCreateFails(t) \/ AddAbandon(t)
  <2>1. pc[t] \in AddSteps /\ Free(mine[t]) /\ Return(t, -1) /\ batch' = batch
    BY <1>4 DEF AddCreateFails, AddAbandon, AddSteps
  <2>2. allocated' \subseteq allocated /\ \A a \in allocated' : timer'[a] = timer[a]
    BY <2>1 DEF Free, RInv, OInv, TypeOK
  <2> QED
    BY <2>1, <2>2, ReturnUserData
<1>5. CASE AddWatch(t)
  BY <1>5, ReturnUserData DEF AddWatch, AddSteps, heap
<1> QED
  BY <1>1, <1>2, <1>3, <1>4, <1>5 DEF Add

LEMMA ServeUserData ==
  ASSUME RInv, OInv', Serve
  PROVE  UserData'
<1>0. pc \in [Threads -> AddSteps \cup ServeSteps \cup {"idle", "wait", "absent"}]
  BY DEF RInv, OInv, TypeOK
<1>1. CASE EpollWait \/ ReadTimer \/ Callback
  <2>1. pc[TimerThread] \in {"wait", "read", "callback"} /\ UNCHANGED <<offer, mine, allocated, timer>>
    BY <1>1 DEF EpollWait, ReadTimer, Callback, heap
  <2> QED
    BY <2>1, QuietUserData DEF Spent, AddSteps
<1>2. CASE CallbackAdd
  BY <1>2, CallbackAddUserData
<1>3. CASE Release
  <2>1. pc[TimerThread] \in {"del", "close", "free"} /\ UNCHANGED <<offer, mine>>
    BY <1>3 DEF Release
  <2>2. CASE pc[TimerThread] \in {"del", "close"}
    <3>1. UNCHANGED <<allocated, timer, batch>> /\ pc'[TimerThread] \in {"close", "free"}
      BY <1>0, <1>3, <2>2, ThreadFacts DEF Release, heap, Goto
    <3> QED
      BY <2>1, <3>1, QuietUserData DEF Spent, AddSteps
  <2>3. CASE pc[TimerThread] = "free"
    <3>1. allocated' = allocated \ {t0} /\ timer' = [timer EXCEPT ![t0] = Freed]
      BY <1>3, <2>3 DEF Release, Free
    <3>2. \A a \in allocated' : timer'[a] = timer[a] /\ ~Spent(a)
      BY <3>1 DEF RInv, OInv, TypeOK, Spent, t0
    <3> QED
      BY <2>1, <2>3, <3>1, <3>2, QuietUserData DEF AddSteps
  <2> QED
    BY <2>1, <2>2, <2>3
<1> QED
  BY <1>1, <1>2, <1>3 DEF Serve

LEMMA StepRInv == RInv /\ [Next]_vars => RInv'
<1> SUFFICES ASSUME RInv, [Next]_vars PROVE RInv'
  OBVIOUS
<1>1. OInv'
  BY StepOInv DEF RInv
<1>2. CASE UNCHANGED <<allocated, timer, pc, offer, mine, batch>>
  <2>1. \A a : Spent(a) => Spent(a)'
    BY <1>2 DEF Spent
  <2> QED
    BY <1>1, <1>2, <2>1, QuietUserData DEF RInv
<1>3. CASE \E t \in Adders, e \in Roots : AddCall(t, e)
  BY <1>1, <1>3, AddCallUserData DEF RInv
<1>4. CASE \E t \in Threads : Add(t)
  BY <1>1, <1>4, AddUserData DEF RInv
<1>5. CASE Serve
  BY <1>1, <1>5, ServeUserData DEF RInv
<1>6. CASE EpollTimeout \/ \E fd \in Fds : Expire(fd)
  BY <1>2, <1>6 DEF EpollTimeout, Expire, vars, heap, calls
<1>7. CASE UNCHANGED vars
  BY <1>2, <1>7 DEF vars, heap, calls
<1> QED
  BY <1>1, <1>2, <1>3, <1>4, <1>5, <1>6, <1>7 DEF Next, RInv

-----------------------------------------------------------------------------
\* What the abstract timers are

\* The timer thread has called back for t0, or is already releasing it.
InHand == Called \/ Unwatched

\* The abstract waiting set, told by owners instead of descriptors: every timer that
\* no call holds and the timer thread has not in hand.
Unclaimed ==
  {a \in allocated : (\A t \in Threads : mine[t] # a) /\ ~(InHand /\ a = t0)}

LEMMA WaitingIs == OInv => Waiting = Unclaimed
<1> SUFFICES ASSUME OInv PROVE Waiting = Unclaimed
  OBVIOUS
<1>1. ASSUME NEW a \in allocated
      PROVE  Watched(a) # {} <=> (\A t \in Threads : mine[t] # a) /\ ~Releasing(a)
  <2>1. a \in TimerAddr /\ a # NULL /\ timer[a].tfd \in Fds \cup {-1}
    BY ThreadFacts DEF OInv, TypeOK
  <2>2. ASSUME NEW t \in Threads, mine[t] = a
        PROVE  Watched(a) = {}
    BY <2>1, <2>2, CallTimer DEF OInv, Labels, Watched
  <2>3. Releasing(a) => Watched(a) = {}
    BY <2>1 DEF OInv, Watches, Watched
  <2>4. (\A t \in Threads : mine[t] # a) /\ ~Releasing(a) => timer[a].tfd \in Watched(a)
    BY <2>1 DEF OInv, Watches, Watched
  <2> QED
    BY <2>2, <2>3, <2>4
<1> QED
  BY <1>1 DEF Waiting, Unclaimed, InHand, Releasing

\* The timer whose callback was called has an event.
CalledHasEvent ==
  InHand => t0 \in allocated /\ t0 \in TimerAddr /\ timer[t0].data \in Events
            /\ timer[t0].data # NULL

LEMMA RunningIs == OInv => CalledHasEvent
<1> SUFFICES ASSUME OInv, InHand PROVE t0 \in allocated /\ t0 \in TimerAddr /\ timer[t0].data # NULL
  BY DEF CalledHasEvent, OInv, TypeOK
<1>1. pc[TimerThread] \notin {"wait", "absent"}
  BY DEF InHand, Called, Unwatched, AddSteps
<1> QED
  BY <1>1, CurrentTimer DEF OInv, HasEvent

LEMMA InitTimers == Init => Timers!Init
<1> SUFFICES ASSUME Init PROVE Timers!Init
  OBVIOUS
<1>1. /\ allocated = {} /\ pc[TimerThread] \in {"wait", "absent"}
      /\ offer = [t \in Threads |-> NULL] /\ answer = [t \in Threads |-> 0]
  BY ThreadFacts DEF Init, Started, NoEpoll, NoThread, InitWith
<1>2. Waiting = {} /\ ~Called
  BY <1>1 DEF Waiting, Called, AddSteps
<1> QED
  BY <1>1, <1>2 DEF Timers!Init

\* A step that moves no timer between a call, the waiting ones and the timer thread's
\* hand is no step of the abstract timers but its part on offers and answers.
LEMMA SameTimers ==
  ASSUME OInv, OInv', InHand' <=> InHand, Called' <=> Called, InHand => t0' = t0,
         \A a : a \in allocated /\ (\A t \in Threads : mine[t] # a) /\ ~(InHand /\ a = t0) <=>
                a \in allocated' /\ (\A t \in Threads : mine'[t] # a) /\ ~(InHand /\ a = t0),
         \A a \in allocated : timer'[a].data = timer[a].data \/ a \notin allocated'
  PROVE  /\ {timer[a].data : a \in Waiting}' = {timer[a].data : a \in Waiting}
         /\ (IF Called THEN timer[t0].data ELSE NULL)' = IF Called THEN timer[t0].data ELSE NULL
<1>1. Waiting = Unclaimed /\ CalledHasEvent
  BY WaitingIs, RunningIs
<1>2. (Waiting = Unclaimed)' /\ CalledHasEvent'
  BY WaitingIs, RunningIs, PTL
<1>3. Unclaimed' = Unclaimed
  BY DEF Unclaimed
<1>4. \A a \in Unclaimed : timer'[a].data = timer[a].data
  BY <1>3 DEF Unclaimed
<1>5. Called => timer'[t0].data = timer[t0].data
  BY <1>1, <1>2 DEF CalledHasEvent, InHand
<1> QED
  BY <1>1, <1>2, <1>3, <1>4, <1>5 DEF InHand

\* What a step of thread t to another label does to the abstract timer thread
LEMMA HandKeeps ==
  ASSUME OInv, NEW t \in Threads, NEW label, Goto(t, label), batch' = batch,
         \/ t # TimerThread
         \/ pc[t] \in AddSteps \cup {"rearm"} /\ label \in AddSteps \cup {"rearm", "del"}
  PROVE  (InHand' <=> InHand) /\ (Called' <=> Called) /\ t0' = t0
<1>1. pc'[t] = label /\ \A u \in Threads : u # t => pc'[u] = pc[u]
  BY DEF Goto, OInv, TypeOK
<1> QED
  BY <1>1, ThreadFacts DEF InHand, Called, Unwatched, t0

LEMMA AddImplements ==
  ASSUME RInv, RInv', NEW t \in Threads, Add(t)
  PROVE  Timers!Accept(t) \/ Timers!Refuse(t) \/ UNCHANGED Timers!vars
<1> USE DEF RInv
<1>0. OInv /\ OInv'
  OBVIOUS
<1>a. pc[t] \in AddSteps /\ offer[t] # NULL /\ batch' = batch
  <2>1. pc[t] \in AddSteps /\ batch' = batch
    BY DEF Add, AddRefused, AddMalloc, AddCreate, AddCreateFails, AddSettime, AddAbandon,
           AddWatch, AddSteps, heap
  <2> QED
    BY <2>1 DEF OInv, Labels
<1>1. CASE AddRefused(t) \/ AddCreateFails(t) \/ AddAbandon(t)
  <2>1. Return(t, -1) /\ ((allocated' = allocated /\ timer' = timer /\ mine[t] = NULL)
                          \/ (Free(mine[t]) /\ mine[t] # NULL))
    BY <1>1 DEF AddRefused, AddCreateFails, AddAbandon, OInv, Labels, Holding, heap
  <2>2. Goto(t, After(t)) /\ (t = TimerThread => After(t) = "del")
    BY <2>1 DEF Return, After
  <2>3. (InHand' <=> InHand) /\ (Called' <=> Called) /\ t0' = t0
    BY <1>0, <1>a, <2>2, HandKeeps
  <2>4. mine'[t] = NULL /\ \A u \in Threads : u # t => mine'[u] = mine[u]
    BY <1>0, <2>1, ReturnLabels
  <2>5. CASE allocated' = allocated /\ timer' = timer /\ mine[t] = NULL
    <3>1. \A a \in allocated : a # NULL
      BY ThreadFacts DEF OInv, TypeOK
    <3>2. \A a : a \in allocated /\ (\A u \in Threads : mine[u] # a) <=>
                 a \in allocated' /\ (\A u \in Threads : mine'[u] # a)
      BY <2>4, <2>5, <3>1
    <3>3. /\ {timer[a].data : a \in Waiting}' = {timer[a].data : a \in Waiting}
          /\ (IF Called THEN timer[t0].data ELSE NULL)' = IF Called THEN timer[t0].data ELSE NULL
      BY <1>0, <2>3, <2>5, <3>2, SameTimers
    <3> QED
      BY <1>a, <2>1, <3>3 DEF Return, Timers!Refuse
  <2>6. CASE Free(mine[t]) /\ mine[t] # NULL
    <3>1. /\ allocated' = allocated \ {mine[t]}
          /\ \A a \in allocated : a # mine[t] => timer'[a] = timer[a]
      BY <2>6 DEF Free, OInv, TypeOK
    <3>2. \A a \in allocated : a # NULL
      BY ThreadFacts DEF OInv, TypeOK
    <3>3. \A a : a \in allocated /\ (\A u \in Threads : mine[u] # a) <=>
                 a \in allocated' /\ (\A u \in Threads : mine'[u] # a)
      BY <2>4, <3>1, <3>2
    <3>4. \A a \in allocated : timer'[a].data = timer[a].data \/ a \notin allocated'
      BY <3>1
    <3>5. /\ {timer[a].data : a \in Waiting}' = {timer[a].data : a \in Waiting}
          /\ (IF Called THEN timer[t0].data ELSE NULL)' = IF Called THEN timer[t0].data ELSE NULL
      BY <1>0, <2>3, <3>3, <3>4, SameTimers
    <3> QED
      BY <1>a, <2>1, <3>5 DEF Return, Timers!Refuse
  <2> QED
    BY <2>1, <2>5, <2>6
<1>2. CASE AddMalloc(t)
  <2> PICK a \in TimerAddr \ allocated :
         /\ allocated' = allocated \cup {a}
         /\ timer' = [timer EXCEPT ![a] = [tfd |-> -1, data |-> offer[t]]]
         /\ mine' = [mine EXCEPT ![t] = a]
    BY <1>2 DEF AddMalloc
  <2>1. pc[t] = "malloc" /\ Goto(t, "create") /\ UNCHANGED <<offer, answer>>
    BY <1>2 DEF AddMalloc
  <2>2. mine[t] = NULL /\ mine'[t] = a /\ \A u \in Threads : u # t => mine'[u] = mine[u]
    BY <2>1, ZenonT(30) DEF OInv, Labels, TypeOK, Holding
  <2>3. \A b \in allocated : b # a /\ b # NULL /\ timer'[b] = timer[b]
    BY ThreadFacts DEF OInv, TypeOK
  <2>4. (InHand' <=> InHand) /\ (Called' <=> Called) /\ t0' = t0
    BY <1>0, <1>a, <2>1, HandKeeps DEF AddSteps
  <2>5. \A b : b \in allocated /\ (\A u \in Threads : mine[u] # b) <=>
               b \in allocated' /\ (\A u \in Threads : mine'[u] # b)
    BY <2>2, <2>3
  <2>6. /\ {timer[b].data : b \in Waiting}' = {timer[b].data : b \in Waiting}
        /\ (IF Called THEN timer[t0].data ELSE NULL)' = IF Called THEN timer[t0].data ELSE NULL
    BY <1>0, <2>3, <2>4, <2>5, SameTimers
  <2> QED
    BY <2>1, <2>6 DEF Timers!vars
<1>3. CASE AddCreate(t) \/ AddSettime(t)
  <2>1. UNCHANGED <<allocated, offer, answer, mine>> /\ \E label \in {"settime", "ctl"} : Goto(t, label)
    BY <1>3 DEF AddCreate, AddSettime, heap
  <2>2. \A a \in allocated : timer'[a].data = timer[a].data
    <3>1. CASE AddSettime(t)
      BY <3>1 DEF AddSettime, heap
    <3>2. CASE AddCreate(t)
      <4>1. PICK fd \in Fds : timer' = [timer EXCEPT ![mine[t]].tfd = fd]
        BY <3>2 DEF AddCreate, FreeFds
      <4> QED
        BY <4>1 DEF OInv, TypeOK
    <3> QED
      BY <1>3, <3>1, <3>2
  <2>3. (InHand' <=> InHand) /\ (Called' <=> Called) /\ t0' = t0
    <3>1. {"settime", "ctl"} \subseteq AddSteps
      BY DEF AddSteps
    <3> QED
      BY <1>0, <1>a, <2>1, <3>1, HandKeeps
  <2>4. /\ {timer[a].data : a \in Waiting}' = {timer[a].data : a \in Waiting}
        /\ (IF Called THEN timer[t0].data ELSE NULL)' = IF Called THEN timer[t0].data ELSE NULL
    BY <1>0, <2>1, <2>2, <2>3, SameTimers
  <2> QED
    BY <2>1, <2>4 DEF Timers!vars
<1>4. CASE AddWatch(t)
  <2> DEFINE m == mine[t]
  <2>1. pc[t] = "ctl" /\ Return(t, 0) /\ UNCHANGED <<allocated, timer>>
    BY <1>4 DEF AddWatch, heap
  <2>2. /\ m \in allocated /\ (\A u \in Threads : mine[u] = m => u = t)
        /\ timer[m].data = offer[t] /\ \A i \in DOMAIN batch : batch[i] # m
    <3>1. pc[t] \in Holding
      BY <2>1 DEF Holding
    <3> QED
      BY <1>0, <3>1, CallTimer DEF OInv, CallTimers, Labels
  <2>3. Goto(t, After(t)) /\ (t = TimerThread => After(t) = "del")
    BY <2>1 DEF Return, After
  <2>4. (InHand' <=> InHand) /\ (Called' <=> Called) /\ t0' = t0
    BY <1>0, <1>a, <2>3, HandKeeps
  <2>5. mine'[t] = NULL /\ \A u \in Threads : u # t => mine'[u] = mine[u]
    BY <1>0, <2>1, ReturnLabels
  <2>6. Waiting = Unclaimed /\ CalledHasEvent /\ (Waiting = Unclaimed)'
    BY WaitingIs, RunningIs, PTL
  <2>7. InHand => t0 # m
    <3>1. InHand => pc[TimerThread] \notin {"wait", "absent"}
      BY DEF InHand, Called, Unwatched, AddSteps
    <3> QED
      BY <1>0, <2>2, <3>1, CurrentTimer
  <2>8. Unclaimed' = Unclaimed \cup {m}
    <3>1. \A a \in allocated : a # NULL
      BY ThreadFacts DEF OInv, TypeOK
    <3>2. \A a \in allocated : (\A u \in Threads : mine'[u] # a) <=>
                               (\A u \in Threads : mine[u] # a) \/ a = m
      BY <2>2, <2>5, <3>1
    <3> QED
      BY <2>1, <2>2, <2>4, <2>7, <3>2 DEF Unclaimed
  <2>9. {timer[a].data : a \in Waiting}' = {timer[a].data : a \in Waiting} \cup {offer[t]}
    BY <2>1, <2>2, <2>6, <2>8
  <2>10. offer[t] \notin {timer[a].data : a \in Waiting}
    <3> SUFFICES ASSUME NEW a \in Unclaimed, timer[a].data = offer[t] PROVE FALSE
      BY <2>6
    <3>1. a \in allocated /\ mine[t] # a
      BY DEF Unclaimed
    <3>2. ~Spent(a)
      BY DEF Unclaimed, Spent, InHand, Called, Unwatched, t0
    <3> QED
      BY <3>1, <3>2 DEF UserData
  <2>11. (IF Called THEN timer[t0].data ELSE NULL)' = IF Called THEN timer[t0].data ELSE NULL
    BY <2>1, <2>4
  <2> QED
    BY <1>a, <2>1, <2>9, <2>10, <2>11 DEF Return, Timers!Accept
<1> QED
  BY <1>1, <1>2, <1>3, <1>4 DEF Add

LEMMA ServeImplements ==
  ASSUME RInv, RInv', Serve
  PROVE  \/ Timers!Done
         \/ \E e \in Events : Timers!Fire(e) \/ Timers!Offer(TimerThread, e)
         \/ UNCHANGED Timers!vars
<1> USE DEF RInv
<1>0. OInv /\ OInv' /\ pc \in [Threads -> AddSteps \cup ServeSteps \cup {"idle", "wait", "absent"}]
  BY DEF OInv, TypeOK
<1>1. CASE EpollWait \/ ReadTimer
  <2>1. /\ pc[TimerThread] \in {"wait", "read"} /\ pc'[TimerThread] \in {"read", "callback"}
        /\ UNCHANGED <<allocated, timer, offer, answer, mine>>
    BY <1>0, <1>1, ThreadFacts DEF EpollWait, ReadTimer, Goto, heap
  <2>2. ~InHand /\ ~InHand' /\ ~Called /\ ~Called'
    BY <2>1 DEF InHand, Called, Unwatched, AddSteps
  <2>3. /\ {timer[a].data : a \in Waiting}' = {timer[a].data : a \in Waiting}
        /\ (IF Called THEN timer[t0].data ELSE NULL)' = IF Called THEN timer[t0].data ELSE NULL
    BY <1>0, <2>1, <2>2, SameTimers
  <2> QED
    BY <2>1, <2>3 DEF Timers!vars
<1>2. CASE Callback
  <2> DEFINE e == timer[t0].data
  <2>1. /\ pc[TimerThread] = "callback" /\ pc'[TimerThread] \in {"del", "rearm"}
        /\ UNCHANGED <<allocated, timer, offer, answer, mine, batch>>
    BY <1>0, <1>2, ThreadFacts DEF Callback, Goto, kernel, heap
  <2>2. ~InHand /\ InHand' /\ ~Called /\ Called' /\ t0' = t0
    BY <2>1 DEF InHand, Called, Unwatched, AddSteps, t0
  <2>3. Waiting = Unclaimed /\ (Waiting = Unclaimed)' /\ CalledHasEvent'
    BY WaitingIs, RunningIs, PTL
  <2>4. t0 \in allocated /\ (\A u \in Threads : mine[u] # t0) /\ e \in Events
    <3>1. t0 \in allocated /\ \A u \in Threads : mine[u] # t0
      BY <1>0, <2>1, CurrentTimer
    <3> QED
      BY <2>1, <2>2, <2>3, <3>1 DEF CalledHasEvent
  <2>5. t0 \in Unclaimed /\ Unclaimed' = Unclaimed \ {t0}
    BY <2>1, <2>2, <2>4 DEF Unclaimed
  <2>6. \A a \in Unclaimed : timer[a].data = e => a = t0
    <3> SUFFICES ASSUME NEW a \in Unclaimed, timer[a].data = e PROVE a = t0
      OBVIOUS
    <3>1. a \in allocated /\ ~Spent(a) /\ ~Spent(t0)
      BY <2>1 DEF Unclaimed, Spent
    <3> QED
      BY <2>4, <3>1 DEF UserData
  <2>7. {timer[a].data : a \in Waiting}' = {timer[a].data : a \in Waiting} \ {e}
    BY <2>1, <2>3, <2>5, <2>6
  <2>8. e \in {timer[a].data : a \in Waiting}
    BY <2>3, <2>5
  <2>9. /\ (IF Called THEN timer[t0].data ELSE NULL)' = e
        /\ (IF Called THEN timer[t0].data ELSE NULL) = NULL
    BY <2>1, <2>2
  <2>10. PICK x \in Events : x = e
    BY <2>4
  <2>11. Timers!Fire(x)
    BY <2>1, <2>7, <2>8, <2>9, <2>10 DEF Timers!Fire
  <2> QED
    BY <2>11
<1>3. CASE CallbackAdd
  <2> DEFINE e == Rearm[timer[t0].data]
  <2>1. /\ pc[TimerThread] = "rearm" /\ Goto(TimerThread, "malloc")
        /\ UNCHANGED <<allocated, timer, answer, mine, batch>>
        /\ offer' = [offer EXCEPT ![TimerThread] = e]
    BY <1>3 DEF CallbackAdd, kernel, heap
  <2>2. (InHand' <=> InHand) /\ (Called' <=> Called) /\ t0' = t0
    BY <1>0, <2>1, ThreadFacts, HandKeeps DEF AddSteps
  <2>3. /\ {timer[a].data : a \in Waiting}' = {timer[a].data : a \in Waiting}
        /\ (IF Called THEN timer[t0].data ELSE NULL)' = IF Called THEN timer[t0].data ELSE NULL
    BY <1>0, <2>1, <2>2, SameTimers
  <2>4. offer[TimerThread] = NULL
    BY <2>1, ThreadFacts DEF OInv, Labels, AddSteps
  <2>5. e \in Events
    <3>1. CalledHasEvent /\ InHand
      BY <2>1, RunningIs DEF InHand, Called
    <3>2. timer[t0].data \in Events /\ e # NULL
      BY <2>1, <3>1 DEF CalledHasEvent, OInv, HasEvent
    <3> QED
      BY <3>2, TimerAssumption
  <2>6. Timers!Offer(TimerThread, e)
    BY <2>1, <2>3, <2>4 DEF Timers!Offer
  <2> QED
    BY <2>5, <2>6
<1>4. CASE Release
  <2>1. UNCHANGED <<offer, answer, mine>>
    BY <1>4 DEF Release
  <2>2. CASE pc[TimerThread] \in {"del", "close"}
    <3>1. UNCHANGED <<allocated, timer, batch>> /\ pc'[TimerThread] \in {"close", "free"}
      BY <1>0, <1>4, <2>2, ThreadFacts DEF Release, heap, Goto
    <3>2. InHand /\ InHand' /\ t0' = t0 /\ ~Called'
      BY <2>2, <3>1 DEF InHand, Called, Unwatched, AddSteps, t0
    <3>3. CASE pc[TimerThread] = "close"
      <4>1. ~Called
        BY <3>3 DEF Called, AddSteps
      <4>2. /\ {timer[a].data : a \in Waiting}' = {timer[a].data : a \in Waiting}
            /\ (IF Called THEN timer[t0].data ELSE NULL)' = IF Called THEN timer[t0].data ELSE NULL
        BY <1>0, <2>1, <3>1, <3>2, <4>1, SameTimers
      <4> QED
        BY <2>1, <4>2 DEF Timers!vars
    <3>4. CASE pc[TimerThread] = "del"
      <4>1. Called
        BY <3>4 DEF Called
      <4>2. Waiting = Unclaimed /\ CalledHasEvent /\ (Waiting = Unclaimed)'
        BY WaitingIs, RunningIs, PTL
      <4>3. Unclaimed' = Unclaimed
        BY <2>1, <3>1, <3>2 DEF Unclaimed
      <4>4. {timer[a].data : a \in Waiting}' = {timer[a].data : a \in Waiting}
        BY <3>1, <4>2, <4>3
      <4>5. /\ (IF Called THEN timer[t0].data ELSE NULL) # NULL
            /\ (IF Called THEN timer[t0].data ELSE NULL)' = NULL
        BY <3>2, <4>1, <4>2 DEF CalledHasEvent
      <4> QED
        BY <2>1, <4>4, <4>5 DEF Timers!Done
    <3> QED
      BY <2>2, <3>3, <3>4
  <2>3. CASE pc[TimerThread] = "free"
    <3>1. /\ allocated' = allocated \ {t0} /\ timer' = [timer EXCEPT ![t0] = Freed]
          /\ pc'[TimerThread] \in {"wait", "read"}
      BY <1>0, <1>4, <2>3, ThreadFacts DEF Release, Free, NextEvent, Goto
    <3>2. InHand /\ ~InHand' /\ ~Called /\ ~Called'
      BY <2>3, <3>1 DEF InHand, Called, Unwatched, AddSteps
    <3>3. Waiting = Unclaimed /\ (Waiting = Unclaimed)'
      BY WaitingIs, PTL
    <3>4. Unclaimed' = Unclaimed /\ \A a \in Unclaimed : timer'[a] = timer[a]
      BY <2>1, <3>1, <3>2 DEF Unclaimed, OInv, TypeOK
    <3>5. {timer[a].data : a \in Waiting}' = {timer[a].data : a \in Waiting}
      BY <3>3, <3>4
    <3> QED
      BY <2>1, <3>2, <3>5 DEF Timers!vars
  <2> QED
    BY <1>4, <2>2, <2>3 DEF Release
<1> QED
  BY <1>1, <1>2, <1>3, <1>4 DEF Serve

LEMMA StepTimers == RInv /\ RInv' /\ [Next]_vars => [Timers!Next]_Timers!vars
<1> SUFFICES ASSUME RInv, RInv', [Next]_vars PROVE [Timers!Next]_Timers!vars
  OBVIOUS
<1> USE DEF RInv
<1>0. OInv /\ OInv'
  OBVIOUS
<1>1. ASSUME UNCHANGED <<allocated, timer, pc, offer, answer, mine, batch>>
      PROVE  UNCHANGED Timers!vars
  <2>1. (InHand' <=> InHand) /\ (Called' <=> Called) /\ t0' = t0
    BY <1>1 DEF InHand, Called, Unwatched, t0
  <2>2. /\ {timer[a].data : a \in Waiting}' = {timer[a].data : a \in Waiting}
        /\ (IF Called THEN timer[t0].data ELSE NULL)' = IF Called THEN timer[t0].data ELSE NULL
    BY <1>0, <1>1, <2>1, SameTimers
  <2> QED
    BY <1>1, <2>2 DEF Timers!vars
<1>2. ASSUME NEW t \in Adders, NEW e \in Roots, AddCall(t, e)
      PROVE  Timers!Next
  <2>1. /\ pc[t] = "idle" /\ Goto(t, "malloc") /\ offer' = [offer EXCEPT ![t] = e]
        /\ UNCHANGED <<allocated, timer, answer, mine, batch>>
    BY <1>2 DEF AddCall, heap
  <2>2. t \in Threads /\ t # TimerThread /\ e \in Events /\ offer[t] = NULL
    BY <2>1, ThreadFacts, TimerAssumption DEF OInv, Labels, AddSteps
  <2>3. (InHand' <=> InHand) /\ (Called' <=> Called) /\ t0' = t0
    BY <1>0, <2>1, <2>2, HandKeeps
  <2>4. /\ {timer[a].data : a \in Waiting}' = {timer[a].data : a \in Waiting}
        /\ (IF Called THEN timer[t0].data ELSE NULL)' = IF Called THEN timer[t0].data ELSE NULL
    BY <1>0, <2>1, <2>3, SameTimers
  <2>5. Timers!Offer(t, e)
    BY <2>1, <2>2, <2>4 DEF Timers!Offer
  <2> QED
    BY <2>2, <2>5 DEF Timers!Next
<1>3. ASSUME NEW t \in Threads, Add(t) PROVE [Timers!Next]_Timers!vars
  BY <1>3, AddImplements DEF Timers!Next
<1>4. CASE Serve
  BY <1>4, ServeImplements, ThreadFacts DEF Timers!Next
<1>5. CASE EpollTimeout \/ \E fd \in Fds : Expire(fd)
  BY <1>1, <1>5 DEF EpollTimeout, Expire, vars, heap, calls
<1>6. CASE UNCHANGED vars
  BY <1>1, <1>6 DEF vars, heap, calls
<1> QED
  BY <1>2, <1>3, <1>4, <1>5, <1>6 DEF Next

\* timer_manager.c keeps the promise of its header: an accepted timer waits, fires once
\* by a callback on the timer thread, one callback at a time; a refused one leaves no
\* trace.
THEOREM ImplementsOneShotTimers == Spec => ImplementsTimers
<1>1. Init => RInv
  BY InitOInv, InitUserData DEF RInv
<1> QED
  BY <1>1, InitTimers, StepRInv, StepTimers, PTL DEF Spec, ImplementsTimers, Timers!Spec
=============================================================================
