# Formal verification of the mock UAS SIP server

TLA+ specifications of the server in `src/`, TLC configurations that check them
on small instances, and TLAPS proofs of the properties that matter most.

## 1. The system

The server is one process: a main thread that receives datagrams, seven worker
threads that handle the calls, and a timer thread.

| Part | Files | State | Operations |
|------|-------|-------|------------|
| dispatcher | `main.c`, `utils.c` | the socket, `worker_threads[7]` | `handle_new_message`: receive, hash the Call-ID, enqueue for one worker, drop when that queue is full |
| message queue | `message_queue.c` | ring of pointers, `size`, `front`, `rear`, mutex, condition variable | `enqueue_message`, `dequeue_message` |
| worker | `sip_server.c` | the lists of its transactions, dialogs and calls | `process_sip_messages`: parse, `process_sip_request` (INVITE, ACK, BYE, other), `delete_transaction` |
| records | `sip_utils.c` | `sip_transaction_t`, `sip_dialog_t`, `sip_call_t` and the pointers between them | create, find, link, set state, delete |
| parser | `sip_message.c` | the fields of `sip_message_t` | `parse_message`, `get_*` |
| timers | `timer_manager.c` | `epfd`, one timerfd and one `timer_s` per armed timer | `timer_one_shot_init`, `timer_one_shot_add`, the timer thread |
| unused | `network_utils.c`, shutdown code | | never called |

What makes each part correct: the queue is a bounded FIFO, and no thread sleeps
through a packet; a worker leaves no record behind and no pointer to a freed one,
and takes no state or final response back; the lists and tables of the records
stay lists and tables, and a record is found by its name; the parser takes every
field from where it stands; an accepted timer fires once; the messages of a call
meet one worker, in order, and every buffer is freed once.

How they interact. The main thread enqueues a `sip_message_t` for the worker its
Call-ID selects. That worker is the only thread that touches its records, so
they need no lock. When `set_transaction_state` puts a transaction into
COMPLETED or TERMINATED it allocates a delete event and arms a timer. The timer
thread's callback either arms the next timer (`transaction_wait_ack_timeout`) or
puts the event into the worker's queue (`transaction_delete_timeout`), where it
takes its turn among the requests. `delete_transaction` then frees the
transaction, and with it the dialog and the call that are TERMINATED.

What is hard here:

- threads meet in the queue only: a lost wakeup, a half-done ring operation or a
  mutex that is not released would stop or corrupt a worker;
- the record of a transaction is freed by an event that travels for 5 to 10
  seconds through a timer and a bounded queue, while requests, retransmissions
  and other events on the same branch arrive; an event can be lost, come twice,
  or come for a transaction that is no longer the one that sent it;
- three kinds of records point at each other through fixed-size tables and are
  freed one after another;
- every `sendto`, `malloc` and timer call can fail in the middle of an INVITE;
- workers add timers while the timer thread serves and frees others, without a lock:
  addresses and descriptor numbers are reused at once;
- a message buffer passes through two threads, an event through three, and
  the place that frees it depends on the path it took;
- the parser works with pointers into a buffer and lengths of type `size_t`.

`PROJECT.json` lists the hazards one by one, with the source line and the
properties that cover each.

## 2. The modules

| Module | Models | Role |
|--------|--------|------|
| `BoundedFifo` | what the callers of the queue rely on | abstract specification |
| `MessageQueue` | `message_queue.c` | detailed specification, implements `BoundedFifo` |
| `MCMessageQueue` | | instance for TLC |
| `MessageQueueProofs` | | theorems about `MessageQueue` |
| `SipWorker` | `sip_server.c`, `sip_utils.c`, the producers of one worker | detailed specification of a worker, its timers and its environment |
| `MCSipWorker` | | instances for TLC |
| `SipWorkerProofs`, `SipWorkerStateProofs` | | theorems about `SipWorker`: types and pointers, states and orphans |
| `RecordGraph` | the records as `SipWorker` sees them: sets and links | abstract specification |
| `Records` | the lists, tables and names of `sip_utils.c` | detailed specification, implements `RecordGraph` |
| `MCRecords` | | instance for TLC |
| `RecordsProofs` | | theorems about `Records`: lists, tables, names, and that it implements `RecordGraph` |
| `OneShotTimers` | what `timer_manager.h` promises | abstract specification |
| `TimerManager` | `timer_manager.c` and the kernel calls it makes | detailed specification, implements `OneShotTimers` |
| `MCTimerManager` | | instance for TLC |
| `TimerManagerProofs`, `TimerRefinementProofs` | | theorems about `TimerManager`: ownership, and that it implements `OneShotTimers` |
| `SipMessage` | `sip_message.c`, the Call-ID lookup of `main.c` | the parser, one step per mandatory part |
| `MCSipMessage` | | the datagrams TLC parses |
| `SipMessageProofs` | | theorems about `SipMessage`, for any set of datagrams |
| `Server` | `main.c`, `utils.c` and the life of every message and event | composition of main, workers and timers |
| `MCServer` | | instance for TLC |
| `ServerProofs` | | theorems about `Server`: owners and workers, order of service, the hash |

How they fit together. `MessageQueue` justifies the sequence that `SipWorker` and
`Server` use as a queue, `Records` the sets and links of `SipWorker`,
`TimerManager` the sets of armed timers, which may fire in any order, and
`Server` the assumption of `SipWorker` that the worker is alone with its records and
gets the requests of a call in order.

### MessageQueue

The variables are the fields of `message_queue_t`, with `mutex` holding the owner,
and for each thread the step of its call (`pc`). An action is what a thread does
between two points at which another thread could interfere: taking the mutex
(`EnqueueLock`, `DequeueLock`), the first and the second half of a critical
section (`EnqueueStore` and `EnqueuePublish`, `DequeueRead` and
`DequeuePublish`), the early return on a full queue (`EnqueueFull`), waiting
(`DequeueEmpty`, the test that finds nothing, and `DequeueWait`, which gives the mutex
up) and a wakeup without a signal, which POSIX allows (`SpuriousWakeup`). Splitting the critical sections is what makes a missing or
misplaced lock visible. `BoundedFifo` is the contract: accept at the tail,
refuse only when full, take from the head. `ImplementsFifo` maps the ring to the
sequence `Pending` of the packets from `front` on.

### SipWorker

The three lists are the sets `transactions`, `dialogs`, `calls` of addresses;
`txn`, `dlg`, `call` are the memory at those addresses. Freed memory is the zero
record and its address can be allocated again, so a pointer that survives its
record is visible in the state. The pointer tables of dialogs and calls are
sets. `queue` is the FIFO that `MessageQueue` implements. `waitAck` and
`delTimer` count the armed timers of a branch.

One packet is one action, except for INVITE and BYE, which are cut where the
code sends a response: `InviteTrying`, `InviteDialog`, `InviteCall`,
`InviteRinging`, `InviteOk` and `Bye`, `ByeHangup`. Timers and the main thread
take steps in between; the worker takes no other packet until it is back in
`dequeue`. Each of these steps has the failing alternative of the code
(`FailInvite`, `FailDialog`).

| Action | Code |
|--------|------|
| `Receive` | `handle_new_message`, `enqueue_message` |
| `WaitAckTimeout`, `DeleteTimeout` | the two timer callbacks of `sip_utils.c` |
| `DropUnparsable`, `DropRequest`, `NewTransaction`, `Retransmission`, `AckForInvite`, `DropMismatch` | the branches of `process_sip_request` up to the method switch |
| `ReInvite`, `Invite*` | `process_invite_request` |
| `Ack`, `Bye`, `ByeHangup`, `Unsupported` | the other handlers |
| `NoTransaction`, `DeleteTransaction` (`KeepDialog`, `DeleteDialog`, `DanglingDialog`) | `delete_transaction` |

Two history variables name known losses, so that the properties can be exact
about everything else: `lost` holds the transactions that have lost a delete
event (full queue, no memory, no timer), `unlisted` those that were left out of
a full dialog table. `DanglingDialog` is the read of a freed dialog
(`sip_server.c:585`) that an unlisted transaction leads to: the freed memory may
read as anything, so its outcomes are a choice.

### Records and RecordGraph

`head` and `next` are the three linked lists, `slot` is the pointer table of a dialog or a
call, `up` the pointer back. The three kinds of records have the same code in
`sip_utils.c`, so an operator takes the kind: `Find` stands for the `find_*_by_id`,
`Delete` for the `delete_*_by_pointer`, `Cleanup` for the `cleanup_*`, `Added`
and `Removed` for `add_*_to_*` and `remove_*_from_*`. A name is kept as the code keeps it:
the text cut by `snprintf`, the length not. `given` is a history variable, the
whole name a record was made for. A function is one step, because only the owner of
the lists calls them. `AllListed` keeps a record that was left out of a full table from
dangling when its owner is deleted: that case is in `SipWorker`.

### TimerManager and OneShotTimers

Every system call is a step, so a thread can come between any two. The kernel is
modelled from what the code relies on: `file` says what each descriptor number is,
the lowest free one is handed out, `close` takes it out of the epoll set, `interest`
is the pointer stored with it, `ready` the order in which `epoll_wait` reports. The timer
thread is the thread of `Serve` and, from inside `transaction_wait_ack_timeout`, a caller of
`Add` as well. `Init` has the three outcomes of `timer_one_shot_init`; `main` goes on
after each. In the abstract specification a timer is waiting from `epoll_ctl` until its callback
is called.

### SipMessage

The buffer is a sequence of characters in which a header name, `tag=` or `branch=`
is one character followed by fillers (`Encoded`), so that every offset and length is that of the
code; sizes are taken modulo `SizeRange`. A line ends with `CR` and `LF`; a `CR` alone, at which the
parameters end too, may stand anywhere. `Header` is `get_header_value`, which takes the first
line that begins with the name; `Parameter` is the `strchr` search of `get_from_tag`,
`get_to_tag` and `get_branch_param`. Each action sets what `parse_message` sets
before its next test. `WellFormed` says what a request is without using these
operators, `Complete` what its headers are.

### Server

A heap of cells; a cell holds a received message or a delete event. `held` is the buffer
in `handle_new_message`, `txn[w][b]` the state of a transaction with its
`message` and `ack_message`. A packet is served in one step, which is
sound for this module's questions: what a worker does in between is seen by no other
thread, and the timers it arms can only fire later than they could in the code.
Which state a handler ends in is a choice (`Outcomes`), and so is whether `malloc` or
`timer_one_shot_add` fails. The tables of the dialogs are in `SipWorker`; here a deletion that frees
the dialog ends any set of the transactions that are not TERMINATED (`Endable`), as `cleanup_dialog` does, and each
gets a delete event, a COMPLETED one its second. A message for which `recvfrom` returned
nothing or an error and one without a Call-ID are cells too (`Discard` frees them). A Call-ID with bytes above 127
may have a negative sum, since `string_to_int_hash` adds signed chars, and a negative remainder is
the index of no worker: `Misdirect` is what becomes of the message, which main
frees (the memory read as a full queue) or loses. What `enqueue_message` writes to that memory, or
that it crashes there, is not modelled. `leaked` names the cells the code forgets, `backlog` the order in which the messages of
each call were received.

## 3. The runs

Passing runs:

| Run | Instance | What it shows |
|-----|----------|---------------|
| `queue` | main and timer thread, three packets, three slots; 216,656 states | the mutex protects the ring (`MutualExclusion`), nobody sleeps through a packet (`NoLostWakeup`), `front`, `rear` and `size` agree across wrap-arounds (`RingAligned`), the queue implements `BoundedFifo`, an accepted packet is delivered (`AcceptedIsDelivered`), and `enqueue_message` returns whether the queue is full or not (`EnqueueReturns`) |
| `worker_faults` | two branches, two transactions, two dialogs, one call, eight kinds of requests, every call may fail, queue of one; 864,103 states | the pointers between the records stay consistent, no finished transaction, TERMINATED dialog or call is left without something that frees it, no record goes back to an earlier state, a final response is not taken back |
| `worker_overflow` | three branches, two dialogs and two calls, a dialog table of one entry; 147,587 states | the same when dialog tables overflow and freed dialogs are read through the pointer that is left |
| `worker_live` | one call, failing sends, queue of one; 60,669 states | under fairness every finished transaction and every TERMINATED dialog is freed, unless its event was lost |
| `timers` | a worker and the timer thread as adders, three timers, four descriptors, two events per `epoll_wait`, every call may fail, three kinds of start; 370,184 states | a timer and its descriptor have one owner at every step (`TimersOwned`), nothing is accepted without a timer thread (`NoThreadNoTimer`), `OneShotTimers` is implemented, and an accepted timer fires |
| `records` | three transactions, two dialogs, a call, tables of two, names of up to two characters in arrays of one; 19,234 states | lists and tables stay exact (`ListsWellFormed`, `TablesExact`), which record a request and a delete event find (`NamesFound`), and `RecordGraph` is implemented |
| `parser` | 1,684 datagrams; 12,622 states | a well-formed request is accepted with its own values (`WellFormedIsParsed`), an accepted message has the six headers that `parse_message` tests (`AcceptedIsComplete`), and a header that has a parameter keeps it (`ParameterPlace`) |
| `server` | main, two workers, two branches, queues of two, four cells, six requests of two calls, one without and one with a misdirecting Call-ID, failing `recvfrom`, `malloc` and timers; 196,884 states | each message and event has one owner (`OneOwner`) and its memory comes back (`CellsReturned`), calls keep to one worker (`OwnCallsOnly`) and to their order (`ServedInOrder`) |

TLC evaluates the assumptions of the modules in each of them. The proof modules
prove the safety properties of these runs for all instances (section 4).

Bounds. Three packets and two producers over three slots fill the ring, wrap it
and refuse a packet; a requested capacity below 1, which the queue raises to 1, is
left to the proofs, which hold for every capacity. For the
worker, two branches are enough for an INVITE and a request in its dialog, three
for two such requests; two transactions of one dialog exercise detaching one
when the other's deletion frees the dialog, two dialogs with one To tag make
lookups ambiguous. `MaxPending` bounds the events and requests of one branch that
may be on their way; 2 lets a stale delete event meet the next transaction of
its branch. `QueueCapacity` 1 makes the full queue frequent. `MaxTxnsPerDialog`
1 stands for 32: the 33rd transaction of the code is the second one here.
Symmetry is used on the addresses, in safety runs only.

`timers`: with three timers more can be ready than `epoll_wait` reports (2 stands for 32), two
descriptors are closed while a third is added, and the second adder is the callback.
Four descriptors are the epoll set and three timers; `timerfd_create` fails by choice.
`records`: three records have a middle one, two slots a hole before an entry. A
third dialog would repeat what the transactions show, the code being the same. Two names that
are cut to the same text and one that fits are all the cases of `Matches`.
`parser`: each of `From`, `To`, `Via` has six or seven forms (one parameter, two, an empty
one, one with a `CR` in it, a short one, none, no value) in three orders, with and without a body that holds a
`;` after the last line end; the other headers are missing, empty, blank, doubled, or come after
one that starts with their name, one at a time.
`server`: a call has an INVITE, an ACK (the same datagram may come again) and a later request on
another branch; a second call has a request for the other worker. A queue of two
fills with three cells, and the fourth is the one a message is received into. Four cells are also what a COMPLETED
transaction with both its events under way needs when its dialog is freed by the deletion of another one: two messages
and the event of each, and the second event goes where `delete_transaction` has just freed the other message
(`Enter` lets an event reuse what the step freed before it).
When the heap is full `malloc` fails, which main and the workers survive. `FirstFree` hands
out the first free cells, since their numbers mean nothing.

Fairness. `MessageQueue`: a thread in a call goes on, and one that finds the
mutex free again and again gets it (strong fairness on the two lock actions),
since the critical sections are a few assignments and the mutex wakes its
waiters; no fairness for entering `enqueue_message` and for spurious wakeups.
`SipWorker`: the worker loop goes on (the socket is non-blocking, every call
returns) and armed timers expire; nothing obliges the peer to send.
`TimerManager`: a call that was begun and the timer thread go on, an armed timer
expires; no thread has to add one. `Server`: main finishes what it has received, unless
its Call-ID selects no worker (the memory main uses then may make it stop), a worker with
a packet takes it, armed timers expire. `RecordGraph`, `Records` and `SipMessage` state
safety only.

What the passing runs do not say: `NoOrphanTransaction`, `FinishedIsFreed` and
`HungUpIsForgotten` excuse the transactions in `lost`, `NoDanglingPointer` those
in `unlisted`. That the code can lose them is a fact about the code
(`sip_utils.c:763`, `sip_utils.c:478`). `NoOrphanCall` excuses FAILED calls, which the code never removes: `delete_transaction`
deletes TERMINATED calls only (`sip_server.c:591`). In the same way `OneOwner` lets an ACK be
forgotten that a second ACK overwrites (`sip_server.c:487`) and an event that a queue or the
timers refuse, `CellsReturned` excuses these and the messages of a
transaction whose event is lost or that is IDLE, and `NamesFound` says that a name longer than
its array is not found (`sip_utils.c:609`). `OneOwner` and `CellsReturned` also excuse a message that `Misdirect` lost.
`ParameterPlace` speaks of the headers that have a parameter, `AcceptedIsComplete` of lines that
begin with the name of a header. What a header without its parameter gets is the subject of `parser_parameter` below. A
line with a longer name that begins with that of a header (`Topic` for `To`), or a line of the body, is taken for the
header (`sip_message.c:46`), in the code as in the model; `WellFormed` excludes such requests, so no property speaks of them.

### Disagreements with the documentation

Four runs end in a violation.

- `worker_retransmission`: a retransmitted ACK is answered with a made-up 500, and a failed
  resend overwrites a stored 200 (`sip_server.c:498-501`), where the flowchart says "Return latest
  response".
- `worker_dangling`: a transaction that does not fit into the table of its dialog keeps a pointer to
  the dialog when that is freed.
- `parser_response`: no response is parsed, because `get_message_method` has no method for it
  (`sip_message.c:558`), where the flowchart (`README.md:17-25` of the repository) gives parsed responses a path of their own.
- `parser_parameter`: `get_from_tag`, `get_to_tag` and `get_branch_param` are documented to return
  NULL when the parameter is not found, and return what follows the next `;` of the buffer
  (`sip_message.c:349`).

## 4. The proofs

TLAPS checks eight proof modules, to the last leaf. Their only assumptions are those of the modules they are about:

- `QueueAssumption`: the producers are not the worker, and `NULL` is neither a thread nor a packet;
- `WorkerAssumption`: `NULL` is no address, name or request, requests are well formed, capacity
  and table size are positive;
- `TimerAssumption`: the timer thread is not an adder, there is a descriptor, `NULL` is no thread,
  address or event;
- `RearmAssumption`: the user data with which a callback adds its next timer was given to no
  other one (`set_transaction_state` allocates it for one transaction, and
  `transaction_wait_ack_timeout` hands it on once);
- `RecordsAssumption`: the heap is finite and has room for each of the three kinds, which do not overlap;
  names are nonempty sequences, array length and table sizes are positive, `NULL` is no address or tag;
- `ServerAssumption`: positive numbers of workers, cells and queue places, well-formed requests,
  whose Call-IDs, if they have one, are sequences of signed characters;
- `MessageAssumption`: a datagram is a finite sequence of characters in which the words the parser looks
  for are whole (`Encoded`, the form the model gives them), and shorter than half the range of `size_t`,
  as every buffer of the program is (`main.c` receives into a fixed array).

| Theorem | States |
|---------|--------|
| `MessageQueueProofs!TypeCorrect` | `size` and the indices stay in range |
| `MessageQueueProofs!MutexHeld` | `MutualExclusion` |
| `MessageQueueProofs!WakeupNotLost` | `NoLostWakeup` |
| `MessageQueueProofs!RingConsistent` | `RingAligned` |
| `MessageQueueProofs!QueueIsFifo` | `ImplementsFifo`: the queue implements `BoundedFifo` |
| `SipWorkerProofs!WorkerTypeCorrect` | `TypeOK` of the worker |
| `SipWorkerProofs!PointersConsistent` | `NoDanglingPointer` |
| `SipWorkerStateProofs!NoTransactionOrphaned` | `NoOrphanTransaction` |
| `SipWorkerStateProofs!NoDialogOrphaned` | `NoOrphanDialog` |
| `SipWorkerStateProofs!NoCallOrphaned` | `NoOrphanCall` |
| `SipWorkerStateProofs!RecordsAdvance` | `StatesAdvance` |
| `SipWorkerStateProofs!FinalResponseStays` | `FinalResponseKept` |
| `TimerManagerProofs!FailedStartRefuses` | `NoThreadNoTimer` |
| `TimerManagerProofs!TimersTypeCorrect` | `TypeOK` of the timers |
| `TimerManagerProofs!TimersHaveOneOwner` | `TimersOwned` |
| `TimerRefinementProofs!ImplementsOneShotTimers` | `ImplementsTimers`: the timers implement `OneShotTimers` |
| `RecordsProofs!RecordsTypeCorrect` | `TypeOK` of the records |
| `RecordsProofs!ListsStayLists` | `ListsWellFormed` |
| `RecordsProofs!TablesStayExact` | `TablesExact` |
| `RecordsProofs!RecordsFoundByName` | `NamesFound` |
| `RecordsProofs!RecordsImplementGraph` | `ImplementsGraph`: lists and tables implement `RecordGraph` |
| `ServerProofs!ServerTypeCorrect` | `TypeOK` of the server |
| `ServerProofs!CallsHaveOneWorker` | `OwnCallsOnly` |
| `ServerProofs!AsciiSelectsWorker` | a Call-ID of ASCII characters selects a worker |
| `ServerProofs!EveryCellHasOneOwner` | `OneOwner` |
| `ServerProofs!CallsServedInOrder` | `ServedInOrder` |
| `SipMessageProofs!MInvInvariant` | `MInv`: what each step of the parser has stored and tested |
| `SipMessageProofs!MessageTypeCorrect` | `TypeOK` of the parser |
| `SipMessageProofs!MessagesComplete` | `AcceptedIsComplete` |
| `SipMessageProofs!ParametersPlaced` | `ParameterPlace` |
| `SipMessageProofs!WellFormedParsed` | `WellFormedIsParsed` |

The queue. `QInv` (`TypeOK`, `MutualExclusion`, `NoLostWakeup`) is inductive as
it stands. `RingAligned` is not: while a producer has stored a packet and not
yet counted it, `rear` has moved and `size` has not. `RInv` adds what such a
producer knows, that `rear` is the slot behind the pending ones and holds its
packet. The arithmetic is done once, in the lemmas on `Wrap`, which replaces
`% capacity` by a case split. The refinement follows: `PendingSeq` describes the
mapped sequence slot by slot, and `FifoStep` shows for each action that it
appends, takes the head, or leaves the sequence alone.

The worker. Neither `TypeOK` nor `NoDanglingPointer` is inductive: a handler in
the middle of an INVITE writes through `cur`, `cur->dialog` and the call of that
dialog, and is safe only because of what the steps before it did. `HandlerInv`
says that, step by step, and `PInv` is the conjunction of the three. The proof
has two halves. The lemmas named `...Type` show that every action keeps `TypeOK`.
Those named `...Links` show that it keeps the pointers: most steps do
not touch them (`LinksKept`), the ones that add one do so on both ends
(`AttachLinks`, `InviteDialogLinks`, `InviteCallLinks`), and the deletions remove
every pointer at what they free (`KeepDialogLinks`, `DeleteDialogLinks`,
`DanglingDialogLinks`). The last is the delicate case: a dialog that was freed is
read through an unlisted transaction and takes an unrelated TERMINATED call with
it; `DeleteCallLinks` shows that even then the dialogs that remain agree with the
calls that remain, since no dialog is in the table of two calls.

The states of the worker's records. The orphan properties look at the worker between two
packets, and say nothing of what a handler has changed so far; `WInv` adds that. `HandlerStates`
and `HandlerDialog` give the states of the records a handler is about to write; `CallsFit`
says that a call and its dialog change state together, except in the step or two a handler needs for both;
`DialogsServed` that every dialog is being set up, is in a call, or is ended and still pointed at by a finished transaction.
`BranchesUnique` is what makes a branch name its transaction: without it, the delete event of
one transaction could take another. `FinishedReaped` and `UnfinishedListed` extend
`NoOrphanTransaction` to the transaction that is served. The steps fall into three kinds: those that touch
transactions only (`TStep`), those of a handler (`HStep`), and the deletions, where the proof
follows what is freed through the pointers of `PInv`. `StatesAdvance` and `FinalResponseKept`
are read off the same steps, since a handler knows what state it starts from.

The timers. `NoThreadNoTimer` is not inductive: an add that is already past its test of `epfd`
could still enter its timer. `TInv` says why it cannot: without a thread no descriptor
is an epoll set (`NoThreadNoEpoll`), no step makes one (`Quiet`), and a call behind the test
has a descriptor number (`NumberTested`), so that `epoll_ctl` fails on whatever file has that
number now. `TimersOwned` needs more: a descriptor number says whose timer it is only together
with the step its owner is at. `OInv` has a conjunct for each holder of a number: the call that sets the
timer up (`CallTimers`), the timer itself from `timerfd_create` to `close` (`Descriptors`;
between `close` and `free` the number may already be another timer's), the epoll set (`Watches`), the events
reported and not served (`Reported`) and those to be reported (`Readable`). The
refinement adds who has which user data (`UserData`), because the abstract timers are events and
not addresses: it must not happen that two timers wait with one event, even
while a callback adds its next timer and the old `timer_s` still exists. The abstract accept is the step
in which `epoll_ctl` succeeds, the abstract callback is `Callback`; everything else stutters.

The records. `RecInv` says of each list that some sequence of its addresses describes it
(`IsList`: head, `next` pointers, every live record once), of the links that a pointer
has a live record of the right kind at its end and a table has what points back (`Links`), and of the names that a record keeps
what it was made for and that a branch which fits is unique (`Named`). What the walk of a list visits is a recursive definition;
`WalkIs` gives its value from the sequence, and `CleanedUpIs` does the same for the deletion of a whole list,
both by induction over the naturals in the form of sets (`LeastNatural`, `SetInduction`). A deletion
by pointer, by name, by event and of a whole list is then the same: it drops a set of records,
clears every link to them and changes nothing else (`Drops`). Taking a record out of the middle
or putting one in front is a fact about sequences. The refinement reads the three kinds of step
(`Creates`, `Joins`, `DropsSome`) as those of `RecordGraph`; that a table has room exactly when it lists fewer
records than it has slots is the counting in `JoinsGraph`.

The server. `OneOwner` counts the pointers at a cell; a step changes several counts at once, so the
invariant `SInv` says instead that a cell is at one of eight places (`OnePlace`: free, leaked,
held by main, in one of the two sets of timers, in a queue, a transaction's `message` or
`ack_message`), that a place which is a list or a table holds it once (`Once`), and that what is there belongs
there (`Contained`: a queue has only messages whose Call-ID selects its worker, or
events of that worker's transactions). `OwnCallsOnly` is a part of it, and `OneOwner` follows by counting:
`EveryCellHasOneOwner` turns "at one place, once" into sums of cardinalities. For the order,
`BInv` relates the history `backlog` to where the cells of a call really are: it lists the cells that wait
(`ListsWaiting`, `ListsOnce`), the one main holds last (`HeldLast`), the others as they stand in
their queue (`QueueOrder`). The head of a queue is then the head of its call's backlog.
These hold for Call-IDs of any bytes: a message whose Call-ID selects no worker is in no queue and no table, and
leaves the backlog with `Misdirect` (`Astray`). That an ASCII Call-ID selects a worker
(`AsciiSelectsWorker`) rests on `HashIsNatural`: the loop of `string_to_int_hash` is a recursive function, which
`SumExists` shows to exist with natural values when the characters are, by induction over the positions of the
Call-ID.

The parser. None of its properties is inductive, since each speaks of an accepted message and says nothing about
how it was accepted. `MInv` adds what has been stored and tested when a step is reached (`Passed`),
that an error ends the parsing, and that a well-formed request has not been refused so far. There is one lemma
for each action (`GetFromMInv` and so on), and the work is in what the operators return on any buffer. `FirstIs`
gets the least position from the well-foundedness of the naturals; from it follow `StrchrIs`, `LineEndIs` and
`BehindIs`, which say what a search finds or that there is nothing to be found, and
from these `HeaderIs` and `ParameterIs`. A length is a difference of two positions; `SizeIs` says that it is
kept if it is not negative and wraps otherwise. `ParameterFound` shows that it does not wrap for
a parameter that is in its header: the header itself ends at a `CR`, so the search finds one no later than there. For the well-formed request, `WellFormedHeader` and `WellFormedParameter` follow the
search through the one line that begins with the name, whatever lines stand before and behind it.

Only model-checked: the liveness properties (`AcceptedIsDelivered`, `EnqueueReturns`, `FinishedIsFreed`,
`HungUpIsForgotten`, `AcceptedFires`, `CellsReturned`). They rest on fairness and on `ENABLED`, which are beyond
the prover. Every other property of a passing run is the statement of a theorem above.

## 5. What is not modelled, and the plan

Left out on purpose: the text of responses (only their codes matter to the state; that
`snprintf` may cut one while its length is not, `sip_server.c:101`, is listed as a hazard), the
numbers in the first line and in CSeq, the setup of the socket, logging, the build,
`network_utils.c` (never called), and `destroy_message_queue` and
`timer_one_shot_shutdown` (never reached: main does not leave its loop).
`process_sip_response` has no action: no response is parsed (`parser_response`), so none gets there.

What could follow, most important first:

1. The length of a response (`sip_server.c:101`): a model of `snprintf` that keeps lengths, so that the
   hazard has a property.
2. One specification in which the worker of `Server` is `SipWorker` itself, with a refinement proof
   in place of the argument in section 2.
