# A TLA+ model of event_server

`event_server` is a C++ network library: an event loop in the style of Envoy's
dispatcher on top of libevent (`event/`), threads and thread pools
(`thread/`), TCP servers in the style of muduo (`network/`), and utilities
(`common/`). This directory holds TLA+ modules that model its core, the TLC
configurations that check them on small instances, and proofs for TLAPS.
`PROJECT.json` lists, for every definition, the lines it translates.

    tlc -workers 4 -config dispatcher_safety.cfg MCDispatcher.tla
    tlapm DispatcherProofs.tla

## Inventory

| component | state | operations | who it talks to | hard part | what makes it correct |
|---|---|---|---|---|---|
| `Dispatcher` (event/) | `post_callbacks_` under `post_lock_`, `to_delete_1_`, `to_delete_2_`, `current_to_delete_`, `deferred_deleting_` | `post`, `exit`, `run`, `deferredDelete`, `clearDeferredDeleteList` | `LibeventScheduler`, its two `SchedulableCallback`s, user callbacks and destructors that call back | posts from other threads, re-entrance | nothing posted or deferred is lost, FIFO, exactly once, a vector is never changed while it is walked |
| `LibeventScheduler`, `SchedulableCallback` | the event base, one event each | `run(RunType)`, `loopExit`, `scheduleCallbackCurrentIteration`, `...NextIteration`, `cancel`, `enabled` | libevent | test and activation are two calls; `exit()` before or during `run()` | no lost wake-up; `run` returns exactly when it should |
| `FileEvent` | `injected_activation_events_`, `enabled_events_`, the fd event, the activation callback | `activate`, `setEnabled`, the two libevent callbacks | `Dispatcher` | an activation already on the work list when it is cancelled | armed exactly while events are injected |
| `ThreadPool`, `Thread`, `CountDownLatch`, `Condition` | `queue_`, `running_`, two condition variables, worker threads | `start`, `run`, `take`, `stop` | user tasks | notify-one wake-ups, overtaking, tasks that submit tasks, stop | bound of the queue, no sleeping worker beside a waiting task, stop terminates |
| `EventLoopThread(Pool)`, `WorkerImpl` | `loop_`, three promises, `once_`, `loopIndex_` | constructor, `run`, `wait`, destructor, `getNextLoop` | `Dispatcher` | the handshake; member order; `loop_` read without its lock | the loop flushes its first callback before `run` returns; round robin |
| `TcpServer`, `TcpConnection` | `connections_`, `state_`, buffers, the read event | `newConnection`, `removeConnection`, `connectEstablished`, `handleRead`, `handleClose`, `send`, ... | `Acceptor`, `EventLoopThreadPool`, `Dispatcher::post`, `Buffer` | accepting thread against io threads | a connection is removed once, after it was inserted |
| `Acceptor` | listening socket, spare descriptor | `listen`, `handleRead` | sockets, `TcpServer` | out of descriptors | a spare descriptor is always held |
| `Connector` | `state_`, `connect_`, `retryDelayMs_` | `start`, `stop`, `connect`, `handleWrite`, `handleError`, `retry` | sockets | answers after `stop`, back-off | the state machine of its header |
| `Buffer` | `buffer_`, `readerIndex_`, `writerIndex_` | `append`, `retrieve`, `prepend`, `makeSpace`, `shrink`, `readFd`, ... | `TcpConnection` | grow or move, boundary at `kCheapPrepend` | a byte queue |
| `Date`, `TimeZone`, `Timestamp` | values, transition tables | conversions | none | calendar arithmetic, skipped and repeated hours | inverse conversions |
| sockets, addresses, `StringPiece`, atomics, libevent globals, time source | none of their own | wrappers over system calls and value types | | | |

How they interact: a `TcpServer` runs the accepting loop and hands a connection
to the next loop of an `EventLoopThreadPool` with `Dispatcher::post`; every
loop is a `Dispatcher` that runs in an `EventLoopThread`; a connection reads
when its `FileEvent` fires. So everything rests on the promises of
`Dispatcher`, and the model starts there.

## Plan

The groups are in the order of their importance. Every invariant, action property
and refinement of theirs is proved; the seventh is what TLAPS does not reach.

1. `EventBase`, `TaskQueue`, `Dispatcher`: the event loop core, with
   refinement to two FIFO queues. Proofs in `DispatcherProofs`, over the lemmas
   on sequences and numbers in `DataLemmas`.
2. `ThreadPool` with `Thread` and its start latch: lost wake-ups, stop, tasks
   that submit tasks, threads that do not start, tasks that throw; it refines
   `TaskQueue` too. Proofs in `ThreadPoolProofs`.
3. `Buffer`, which refines the abstract `ByteQueue`. Proofs in `BufferProofs`.
4. `FileEvent` with its activation callback. Proofs in `FileEventProofs`.
5. `EventLoopThread`: the promises by which a pool of loops starts and stops;
   `TcpServer`, which extends it with the accepting thread, the connections and
   the kernel's side of the sockets. Proofs of both in `TcpServerProofs`.
6. `TimeZone`: dates, broken-down time, zone files, local time, timestamps,
   beside a reference clock. Proofs of the calendar in `TimeZoneProofs`, of zone
   files and local times in `LocalTimeProofs`.
7. Not proved: liveness; "Left to TLC" below says what.

Recursion in modules with proofs is written as functions or folds.

## What is modelled

### EventBase
libevent itself is not in the repository. `EventBase` states what
`schedulable_cb_impl.cc` and `libevent_scheduler.cc` use of it: the queue of
active events, `event_active` (at the end of the queue, not twice),
`evtimer_pending`, `event_base_loopexit` (a new one-shot event each call), and
the order "take the event off the queue, then run it". libevent is configured
for threads (`Libevent::Global::initialize` calls `evthread_use_pthreads`), so
each of these calls takes the lock of the base and is one step, and
`event_active` wakes a sleeping poll.

### Dispatcher
One thread `Loop` calls `run()`; `Posters` are other threads. State and code:

| variable | code |
|---|---|
| `post_callbacks_`, `to_delete`, `current_to_delete_`, `deferred_deleting_` | the members of these names |
| `callbacks`, `posting` | the local list of `runPostCallbacks` and how far it is |
| `clearing` | the activations of `clearDeferredDeleteList` in progress: vector, index, number of objects, and whether a destructor is running |
| `phase`, `inFd` | where `run()` and libevent's loop are; whether a file event's callback runs |
| `step`, `target` | per thread, the position inside `scheduleCallbackCurrentIteration` |
| `active`, `gotterm` | the event base |

`ran`, `destroyed`, `runs`, `exits`, `returns` are histories and counters.

User code is nondeterministic: wherever the code calls a callback or a
destructor, or before and after `run()`, the loop thread may `post`,
`deferredDelete`, `clearDeferredDeleteList`, `exit`, in any order and number.
A destructor that runs inside a clear that runs inside a callback is a state of
the model. `DeferredTaskUtil` needs nothing more: its task runs in a destructor.

Atomicity follows the locks. `post` is the locked part, then `enabled()`
(`CheckEnabled`), then `event_active()` (`Activate`); the loop takes the event
off the queue (`ProcessPostCb`) and then the list under `post_lock_`
(`TakePosts`). What only the loop thread sees is cut where user code can run.

The callers are restricted as the code expects and as its own callers behave:
a callback object and an object are handed over once, only the loop thread defers
deletions (the assertions that say so are commented out), `run` is not called
from inside a callback.

### ThreadPool
`start`, `run`, `take`, `runInThread` and `stop`, with the start and the join
of the `Thread`s. State and code:

| variable | code |
|---|---|
| `queue_`, `running_` | the members of these names |
| `notEmpty_`, `notFull_` | the threads asleep in `wait()` of the condition of that name |
| `worker` | per worker where it is: not created; not created because `pthread_create` failed; created and its start latch not yet counted down; in `threadInitCallback_`; at the test of `running_`; on its way into `take()`; in the wait there; in a task; left by an exception; done; exited; joined |
| `call` | per caller of `run()`, the task it waits with for a slot |
| `owner` | how far the thread is that calls `start()`, `stop()` and the destructor, or that the process ended |

`given` and `taken` are histories. The callers of `run()` are `Clients` and,
since a task may submit tasks to its own pool, the `Workers` that are inside one.

Atomicity. A critical section of `mutex_` is one step. `Condition::wait` ends
it: the thread is asleep, then woken (by `notify`, by `notifyAll`, or for no
reason: `SpuriousWakeup`), and goes on in another step once it has the mutex
again, so any other thread may overtake it between. `notify` wakes any one
sleeper. The test of `running_` in `runInThread` is made without the mutex and
is a step of its own (`TestRunning`); the member is a plain `bool`, read again
in every round because `take()` between two reads locks the mutex.

Faults. `pthread_create` may fail for any worker: the pool goes on with the
others and `join()` of that one fails its assertion. A task or
`threadInitCallback_` may throw: a `std::exception` ends the process in
`runInThread`, anything else unwinds the worker and ends the process from
`Thread`. When the process ends (`owner = "aborted"`), nothing happens more.

The callers are restricted as the class expects: a task is given once, `run()`
is not called while `start()` adds to `threads_` (it reads that vector without
a lock), `stop()` is called once and not by a task.

### Buffer and ByteQueue
A buffer is a record of `buffer_`, `readerIndex_`, `writerIndex_`; each member
function is an operator on such a record, so that `append`, `shrink` and
`readFd` are compositions, as in the code, and each public function is an
action of the one buffer `buf`. The condition a function asserts of its caller
is the guard of its action. The sizes `kCheapPrepend`, `kInitialSize`,
`sizeof extrabuf` and the number of values of a byte are constants; the four
integer types are one family of functions with the width as a parameter.
`ByteQueue` says what callers may expect: bytes in order, taken and withdrawn
at the ends, and room in front for a header. `IsByteQueue` is the refinement
and, beside it, that every call does to the queue what its name says.

### FileEvent
Several file events on one loop. `alive` are those that exist;
`enabled_events_` and `injected_activation_events_` are the members; `timer`
and `due` are where the activation callback's timer is in libevent; `fired` is
what the descriptor's event is active with. `running` is the callback that
runs: inside it, and inside the callback of something else, user code makes and
destroys file events and calls `activate` and `setEnabled` on any of them. The
poll is external: it reports level triggered events while they last and edges
once, then the timers that are due, which is the order
`libevent_scheduler.h` documents. `evtimer_pending` and `event_active` of one
thread are one step here; `Dispatcher` cuts between them, where threads compete.

### EventLoopThread
The owner (`maker`) constructs the threads of the pool one after the other (a
constructor returns when its thread has made its loop), starts them (`run()`
returns when the loop has run its first callback), perhaps ends and joins them
through the pool, and destroys them.
The state of a thread is how far `threadFunc` is. `loop_`, `granted`, `looping`
are the pointer and the values of the promises `promiseForRun_` and
`promiseForLoop_`; that `promiseForLoopPointer_` has its value is that the
thread has come to "waits". The dispatcher inside is what `Dispatcher`
establishes: `posts` run in order, and `exit()` makes `run()` return when they
are done.

### TcpServer
Extends `EventLoopThread` with `TcpServer`, `Acceptor`, `TcpConnection`, the
socket calls they make, and clients that connect, send, finish and reset.

| variable | code |
|---|---|
| `main`, `conn` | where the main thread is; the local `conn` of `newConnection` |
| `started_`, `connections_`, `loopIndex_`, `idleFd_`, `acceptSocket_`, `accept_event_` | the members of these names |
| `ioLoop`, `state_`, `registered` | a connection's `dispatcher_`, `state_`, and whether `readEventPtr_` is in the base |
| `got`, `retrieved` | what was read into `inputBuffer_`, what was retrieved from it |
| `tx` | what was written to the socket |
| `peer`, `backlog`, `sent`, `soError`, `maxFds`, `sock` | the kernel's side |

The constructor makes the `Acceptor` first, with its socket and `bind`, and then the
pool with its threads: that is the order in which `TcpServer.h:93-94` declares the
members, whatever the order of the initialisers in `TcpServer.cc:30-31`.

A handler is one step except where another thread can see it half done:
`newConnection` posts `connectEstablished`, and then inserts into
`connections_`, which takes its time; `removeConnection` looks up and erases,
on an io thread. Nothing guards the map, so two threads in it at once are
undefined behaviour. The variable `fault` records the first thing that ended
the program ("table race", "null connection", "null loop", "unconstructed",
"destroyed alive", "not bound"), after which no step is taken. The properties
say what holds as long as no fault struck; that the map's faults do strike is
the finding of `server_remove`, and the others are described below.

Faults of the environment: `socket`, `bind`, `listen` and `setsockopt` may
fail, the process may be out of descriptors, a connection may be reset before
or after it is accepted, reads and writes may be short, a write may be refused.
Of the values `accept` may leave in `errno`, `Acceptor::handleRead` tells only
`EMFILE` from the rest, and the kernel only whether the connection is lost
(`ECONNABORTED`, which stands for `EPROTO` and `EPERM` too: `AcceptAborted`) or
still in the backlog (`EINTR`, which stands for `EAGAIN` and for those that
`SocketsOps.cc` calls unexpected: `AcceptFails`).

### TimeZone
Pure functions beside a clock. `Date`, `DateTime` and `Timestamp` are numbers
and records; division is C's, towards zero. A zone file is a function from
offsets to fields of a width, so that a read at a wrong offset gives garbage;
`Written` lays out a zone as RFC 8536 says, in version 1 or in version 2 with
its two blocks and the TZ string behind them, and `readTimeZoneFile` reads it as the
code does. A read that meets the end of the file throws (`Read` is then `EndOfFile`), as
`readBytes`, `readInt64`, `readInt32` and `readUInt8` do, and the file is refused
by that read; nothing else looks at the length. `IsZoneFile` says
which zones those are, and `DataOf` what a `TimeZone` of one holds.

What the local time of an instant ought to be (`OffsetAt`) does not copy the code.
It is the zone's standard time (`StandardType`) before the first transition, the offset of
the last transition within the table, and after it the moves that the TZ string announces
(`rule`). The code falls short of that at both ends and says so in FIXMEs (see below);
`LocalTimeShown` and `LocalTimeResolved` claim what holds
within the table (`InTable`). There they also name what the code does at the
edges: at the first and the last transition it does not look at the other side,
so it resolves a repeated hour to the later instant whatever `postTransition` asks, and
reads an hour that the first transition skips with the offset before it. The clock
(`utc`, `weekday`) counts seconds and carries; it uses none of the code's
arithmetic, and runs forwards and backwards from the epoch. `CalendarKept` has
three parts: `DatesFollowClock`, `TextsSortAsTimes`, `TimestampsFollowClock`.

## What is checked

| run | question | bounds |
|---|---|---|
| `dispatcher_safety` | `PostArmed`, `DeleteArmed`, `ClearedVectorFrozen`, `ClearDiscipline`, `ReturnsPaidByExits`, and the refinements `PostsFIFO`, `DeletesFIFO` | 2 posters and the loop, 3 callbacks, 3 objects, 1 file event, 2 runs, 2 exits; symmetric in posters, callbacks, objects |
| `dispatcher_liveness` | `PostRuns`, `DeleteRuns`, `ExitStops` | 2 posters, 2 callbacks, 2 objects, 1 file event, 2 runs, 1 exit |
| `dispatcher_block` | `BlockReturnsDrained`, `BlockTerminates` with `RunType::Block` and no file event | as above |
| `threadpool_safety` | `QueueBounded`, `WorkersWoken`, `CallersWoken`, `StoppedWakesAll`, and the refinement `TasksFIFO` | 2 workers, 3 clients, 6 tasks, queue bound 2; symmetric in all three |
| `threadpool_liveness` | `TaskRuns`, `StopReleases` | 2 workers, 2 clients, 4 tasks, queue bound 1 |
| `buffer` | `SpaceIsMade`, `LineEndsFound`, `IntegersInNetworkOrder`, `NoNeedlessGrowth`, and the refinement `IsByteQueue` | bytes of 3 values, 2 of them CR and LF; `kCheapPrepend` 2, `kInitialSize` 1, `extrabuf` 2, a vector of at most 6; integers of 1 and 2 bytes |
| `fileevent` | `InjectedArmed`, `EventsDelivered` | an edge triggered file event for reading and writing with a mask that changes once, a level triggered one for reading |
| `server` | `LiveHandlers`, `DescriptorsHeld`, `NothingLost`, `RoundRobin`, `ServerStarts`, `ClientsServed`, `ServerStops` | 2 io loops, 2 clients, 2 bytes in all, 2 or 3 descriptors |
| `server_remove` | finding: `removeConnection` is not thread safe | 2 io loops, 2 clients |
| `timezone` | `CalendarKept`, `LoadedAsWritten`, `LocalTimeShown`, `LocalTimeResolved` | days of 8 seconds; the years 1898 to 2101; 6 zones and one fixed offset; files cut at every byte |
| `dispatcher_clear_order` | finding: posted callbacks run while objects wait to be destroyed | 1 of each |
| `dispatcher_nonblock` | finding: `NonBlock` blocks | 1 of each |

The bounds. The race of `post` needs a thread that found the list empty, one
that did not, and the loop that takes the list between: two posters and two
callbacks; the third callback lets the next group be posted to while one runs.
Three objects fill the vector being cleared, the other vector, and leave one
for a destructor to defer. Two runs and two exits show what one `run()` leaves
to the next. With one file event the poll can return for a reason other than
the dispatcher's own. `MaxRuns` and `MaxExits` bound `run()` and `exit()`.

In the pool a lost wake-up needs two sleepers of which one is notified and a
third thread that overtakes it: two workers and three clients over a queue of
two. Six tasks with a bound of two, and four with a bound of one, let
every worker be inside a task that waits for a slot of the full queue
(`SelfBlocked`), the pool's own deadlock.
`TaskRuns` excepts that state, in which no task is taken until `stop()`;
`StopReleases` does not: `stop()` resolves it. Both except a process that ended.

In the buffer, the vector of six holds the reserve twice over, data and free
room: every choice of `makeSpace` occurs with `readerIndex_` below, at and above
`kCheapPrepend`, and `readFd` fills the vector, `extrabuf`, or both. Three byte
values are enough for a line end, half a line end, and a byte that is neither;
integers of two bytes have an order and a sign.

`EventsDelivered` needs an event that is injected and ready at once, a mask
that changes between report and callback, and a second file event that shares
the iteration. `MaxEnables` bounds `setEnabled`, which would otherwise change
masks for ever.

The server's races need one connection that is being inserted while another,
on either loop, is removed: two loops, two clients. With two descriptors the
second client finds only the spare one; with three both are served. Two bytes
allow a short write of one client or traffic of both (`MaxBytes`).

A zone's day of eight seconds makes an offset of one to three seconds an hour or
more of a day; the zones have skipped and repeated hours, at the first and last
transition and between, a TZ string that goes on behind the table, daylight time as
the first type, and a shift across midnight. The clock of the fixed zone
runs over the ends of the centuries 1900, 2000 and 2100; those of zone files run
`Span` seconds off the epoch, past their transitions, and every clock stays in
`MinYear` to `MaxYear`. With two microseconds to a
second both remainders occur.

Deadlock is checked for `buffer` and `fileevent`. It is not for the others: a
loop with nothing to do sleeps in the poll, the workers of an idle pool sleep on
`notEmpty_`, a server that is gone or met a fault does nothing more, and the
clock stops at its bounds.

Fairness (`Fairness` in `Dispatcher`): a thread inside
`scheduleCallbackCurrentIteration` finishes the call, the loop thread keeps
running (user code returns: `LoopProgress`), and it calls `run()` once. Nothing
makes a file event ready, nobody has to post or exit. The threads are ordinary
pthreads that hold no lock while they wait, so weak fairness is what the
scheduler gives. In the pool a thread that is not asleep goes on: a worker
(tasks return, unless they wait in `run()`), a caller that was woken, and
`stop()` at its joins. Weak fairness of a woken thread assumes that it gets the mutex in
the end; with finitely many tasks nobody can hold it off for ever anyway. No
thread has to call `run()` or `stop()`, and no signal comes by itself.
In `FileEvent` the loop runs and callbacks return; descriptors need not become
ready and user code need not call anything. In `TcpServer` the main thread and
each io thread run (`MainStep`, `LoopThread`), and a loop serves the event of
each connection that stays ready (`ConnectionStep`): libevent polls all
descriptors and empties its queue before it polls again. Clients need not do
anything, nobody has to end the server, and short reads and writes may be short
each time. `Buffer` and `TimeZone` are sequential and have no fairness.

`ServerStarts` assumes that the main thread and the threads of the pool run, and
nothing of the order in which they do. `accept` may fail with the connection left
in the backlog, but not for ever: libevent reports the listening socket as long as
somebody waits there, so the call is made again and again.

Findings:

* `Dispatcher.cpp:98-101`: a comment says that the deferred delete list is
  cleared before posted callbacks run; the call is commented out.
* `Dispatcher.h:38-40` against `libevent_scheduler.cc:39-45`: `RunType::NonBlock`
  falls through to `Block`; with a file event registered, `run` sleeps.
* `TcpServer.h:79` says that `removeConnection` is thread safe. It runs on an io
  thread, while `newConnection` on the main thread posts the connection to the
  io loop before it inserts it into the unguarded map: the two race on the map,
  or the removal comes first and dereferences a null pointer.

Other disagreements and faults, which have no run of their own:

* `Dispatcher.h:30-34` says that `run()` in blocking mode "will not return until exit()
  is called". It returns when no event is left, as line 37 of the same header says
  ("Runs the event-loop until there are no pending events"). The code follows line 37,
  and `BlockTerminates` checks that; it contradicts lines 30-34.
* `TimeZone.cc:334` (and `:365`): before the first transition the code shows the first
  type of the file, which "should be first non dst time zone" by its own FIXME: in a zone
  whose first type is daylight time it shows daylight time. (RFC 8536, section 3.2,
  asks for type 0 there; the FIXME, not the code, departs from it.)
* `TimeZone.cc:350` (and `:376`): after the last transition the code shows the offset of
  that transition for ever, where its FIXME says "use TZ-env". The TZ string is
  read at line 232 and dropped, though `TimeZone.h:39` calls the class one for 1970~2100.
* `TimeZone.cc:363-377`: at the first and the last transition the way back ignores
  `postTransition`, as said under TimeZone above.
* `EventLoopThread.cc:18` starts the thread by the initialiser of a member that is
  declared before the promises, `once_` and the name (`EventLoopThread.h:60-67`): a thread
  that is scheduled at once uses them before they are constructed. In the model this
  is the fault "unconstructed", which TLC reaches; the server's properties except it by
  name, so no property covers it.
* `~TcpServer` drops connections that their io threads may be serving ("destroyed
  alive"), since the call that would hand them over is commented out.
* After a short write the whole of `inputBuffer_` is sent again with the next input, so
  the client gets bytes twice (`NothingLost` says only that none is missing and each
  has its turn).
* `Buffer.h:257` requires `sizeof(int32_t)` bytes of `readInt64`, which asserts eight.
* A failed `listen()` leaves the server running without an accept event.

Each property has a mutant: an operator whose comment begins "A slip", placed
before the definition it would replace, under which TLC finds the property
violated.

## What is proved

For all values of the constants that satisfy `DispatcherAssumption` (the loop
thread is not a poster, the null pointer is not an object, finitely many file
events distinct from the dispatcher's own events, a `RunType`, bounds in `Nat`):

| theorem | statement |
|---|---|
| `TypeCorrect` | `Spec => []TypeOK` |
| `ClearIsSafe` | `Spec => []ClearedVectorFrozen` |
| `ClearsFollowDiscipline` | `Spec => []ClearDiscipline` |
| `PostNeverStranded` | `Spec => []PostArmed` |
| `DeleteNeverForgotten` | `Spec => []DeleteArmed` |
| `PostsAreFIFO` | `Spec => PostsFIFO` (the dispatcher implements `TaskQueue`) |
| `DeletesAreFIFO` | `Spec => DeletesFIFO` |
| `NoUnpaidReturn` | `Spec => []ReturnsPaidByExits` |
| `NothingLeftBehind` | `Spec => BlockReturnsDrained` |

The dispatcher's argument. `ClearedVectorFrozen` alone is not inductive: it says nothing of
when a second clear may begin nor of what the other vector holds.
`ClearDiscipline` adds that `deferred_deleting_` tells whether a clear is in
progress, that at most one is, that the vector neither cleared nor current is
empty (so the swap hands out a fresh one) and that the current vector holds live
objects. `Safe` is `TypeOK`, `ClearDiscipline`, and that a callback being run
is at the front of the local list; `NextSafe` shows it inductive, one lemma for
each group of actions. `PostArmed` and `DeleteArmed` are then inductive relative to
`Safe`: the argument is that an event once active stays in the queue until the
loop takes it, and the step that takes it is the step that answers for the list
(`ArmedKept`). The refinements need one more fact, `GroupDone`: the local list
is empty whenever `runPostCallbacks` is about to overwrite it.
`ReturnsPaidByExits` is not inductive, because an `exit()` is on its way for a
while before it ends a run. `ExitsOwed` counts: the returns, the exit events
still in the active queue, and a `gotterm` the loop has yet to look at are at
most the calls of `exit()`. A run that starts clears `gotterm` and so only forgets
one. `NothingLeftBehind` combines `PostArmed` and `DeleteArmed`: when the loop
finds nothing active, only a call in progress can answer for a list, and `Where`
says that the loop thread, being between callbacks, is in none, and that nobody
else schedules the deferred delete.

`DataLemmas` holds what the proofs share: what appending, taking and counting do
to a queue, and induction without an operator as a parameter. A set
of natural numbers that is not empty has a least one (`LeastNumber`), so a set that
holds 0 and with each number the next holds all up to its bound (`UpTo`); a statement
about numbers is proved of the set of those it holds for. `Iterated` gives a recursive
function its defining equation, and with it sums along a sequence their order.

For all values of the constants that satisfy `ThreadPoolAssumption` (finitely
many workers and clients, disjoint; a bound in `Nat`):

| theorem | statement |
|---|---|
| `PoolTypeCorrect` | `Spec => []TypeOK` |
| `PoolIsBounded` | `Spec => []QueueBounded` |
| `NobodyLeftAsleep` | `Spec => []StoppedWakesAll` |
| `NoWorkerOversleeps` | `Spec => []WorkersWoken` |
| `NoCallerOversleeps` | `Spec => []CallersWoken` |
| `TasksAreFIFO` | `Spec => TasksFIFO` (the pool implements `TaskQueue`) |

The pool's argument. `TypeOK` carries more than types: who sleeps on `notEmpty_` is a
worker in the wait of `take()`, who sleeps on `notFull_` has a task to push.
`QueueBounded` is inductive relative to it. `WorkersWoken` counts: a push adds a
task and, while a worker sleeps, a woken worker; a worker that takes removes
one of each, or, if it was not one of the woken, only the task; one
that falls asleep found the queue empty; `stop()` leaves no sleeper, and
`StoppedWakesAll` says none comes after it. `CallersWoken` is the same count
of free slots and woken callers: a woken caller goes back to sleep only when
the queue is full, and then there is no free slot to answer for. The refinement needs `Handed`: a
task that waits in a `call` is in nobody else's, nor in the queue, nor taken,
so that a task is queued at most once.

For all values of the constants that satisfy `FileAssumption`:

| theorem | statement |
|---|---|
| `ActivationArmed` | `Spec => []InjectedArmed` |

With the types of the variables, `InjectedArmed` is inductive: each function
changes the injected events and the timer together, and what the poll moves
from `timer` to `due` stays enabled.

For all values of the constants that satisfy `BufferAssumption` and `Powers`
(`Base^0` is 1 and each power is the base times the one before, which is what
`^` means, but the provers have no theory of it; TLC evaluates it):

| theorem | statement |
|---|---|
| `IndicesOrdered` | `Spec => []TypeOK` |
| `SpaceAlwaysMade` | `Spec => []SpaceIsMade` |
| `BufferIsByteQueue` | `Spec => IsByteQueue` (the buffer implements `ByteQueue`, call by call) |
| `GrowsOnlyWhenFull` | `Spec => NoNeedlessGrowth` |
| `LineEndsAreFound` | `Spec => []LineEndsFound` |
| `IntegersTravelWhole` | `Spec => []IntegersInNetworkOrder` |

The invariant is that `buf` is a record whose vector holds bytes, with
`0 <= readerIndex_ <= writerIndex_ <= size` and `kCheapPrepend <= size`; one lemma per
operator shows that it makes a buffer of a buffer, and `makeSpace` also that it
leaves the room asked for, the same content, and that in the moving branch the
assertion `kCheapPrepend < readerIndex_` follows from the two tests before it.
For the refinement each operator gets a lemma that says what it does to the content
(the bytes between the indices) and to the room in front; `append`, `shrink` and
`readFd` are compositions of those lemmas, as they are of the functions. The
room in front shrinks only by `prepend`, or to `kCheapPrepend` by the moving
branch, which is only taken when there is more. The searches give the least
offset of a match, and a match never reaches beyond `writerIndex_`.

For `IntegersInNetworkOrder`, the weighed sum of the bytes of a word is taken one byte at a
time. The bytes up to the `i`-th weigh less than the `i`-th power of the base
(`WeighedBounds`) and those above are a multiple of it (`WeighedAbove`), so dividing
by a power cuts the number between two bytes and gives the digit there
(`WeighedDigit`). So the value read has the bytes that were written, both ways, and
its sign follows from the upper half of the range alone (`PeekedInt`).

For all values of the constants that satisfy `LoopsAssumption` (`Loops` is a
sequence, not empty, that names each thread once) and `ServerAssumption` (finitely many
clients, that are not `Nobody` nor the pool's callback; bounds in `Nat`; a limit of at
least one descriptor):

| theorem | statement |
|---|---|
| `ServerTypeCorrect` | `Spec => []TypeOK` |
| `HandlersFindTheirConnection` | `Spec => []LiveHandlers` |
| `NoDescriptorLost` | `Spec => []DescriptorsHeld` |
| `NoNullLoop` | `Spec => [](fault # "null loop")` |
| `BytesReachTheClient` | `Spec => []NothingLost` |
| `LoopsAreDealtEvenly` | `Spec => []RoundRobin` |

The server's argument. `LiveHandlers` and `DescriptorsHeld` speak of a connection
that is in its loop; why they hold is settled long before, by how it came there.
`IInv` follows a connection from the backlog, where a client stands once and has no socket
(`BacklogInv`), through the `post` of `newConnection` and the list of one loop,
where it waits once, open and not registered (`PostsInv`), to the loop and the
map (`ConnInv`): what is open is registered, posted or about to be posted, and
what is registered is in the map or is the connection `newConnection` has in its
hands. `ConnInv` also says that of the connections of one loop at most one
is disconnected, the one being removed. `PoolInv` and `MainInv` tie this to the
pool: loops exist from the end of construction, are told to exit only
by the owner that comes back from the main loop, and their lists are empty
before and after. `FdInv` leaves room for the spare descriptor. All of it is
under `Unbroken`: once one of the recorded faults struck, `IInv` says nothing and
no step follows. `NoNullLoop` is what `getLoop()` without its lock comes to, given that loops
outlive the main loop.

`NothingLost` needs no part of that. `BytesInv` orders what was retrieved, read
and sent, and `WrittenTo` says of the bytes written that each number up to the last one
retrieved stands there, behind a copy of each one before it; a write, short or not,
appends a run that starts at the first byte not retrieved. For `RoundRobin`,
`Dealt` counts: every loop has had `q` connections, and those before the place
`loopIndex_` is at have had one more.

For all values of the constants that satisfy `TimeZoneAssumption` (units of time that
two digits show, years that four show), `PowersOfTen` (the four powers
`Printed` uses; TLC evaluates them) and `ZoneAssumption`:

| theorem | statement |
|---|---|
| `CalendarIsKept` | `Spec => []CalendarKept` |
| `FilesLoadWhole` | `Spec => []LoadedAsWritten` |
| `LocalTimesAreShown` | `Spec => []LocalTimeShown` |
| `LocalTimesAreResolved` | `Spec => []LocalTimeResolved` |

`ZoneAssumption` says three things. The zone files are ones the code accepts
(`IsZoneFile`): at least one type, no leap seconds and no partial indicators in the block it reads
(`readDataBlock` refuses others), and transitions that are further apart than any two
offsets of the zone differ: the code searches the transitions by their local
times, and has no other guarantee that these are in order. An offset is at most two
days (RFC 8536 gives -25 to 26 hours). And the clock stays clear of the year 0, so that a
local time has a year that `getJulianDayNumber` counts from. `IsZoneFile` asks nothing of
the number of types or transitions, nor of any count of the block that is skipped, nor of
what the TZ string says. `LocalTimesAreShown` and `LocalTimesAreResolved` hold within the
table of transitions (`InTable`), and say nothing of the instants outside it, where the
code does not show the offset in force.

The calendar's argument. `ClockInv` says that the clock shows a date that exists,
that `now` is what `fromUtcTime` counts for it, and that `weekday` is the Julian
day's. It is inductive because a second later (`LaterClock`) the Julian day is
the same or the next, over the ends of months and leap years
(`NextDayOfMonth`, `FirstOfMonth`, `NewYear`), and likewise a second earlier. From
it the rest follows in every state. `JulianRoundTrip`: `getYearMonthDay` gives back the date
of `getJulianDayNumber`, for all dates from year 0 on, by way of the
century, the year counted from March and the month that the divisions find. `RoundDown`: C's
division with the carry of `BreakTime` is division that rounds down. The ISO texts
are compared part by part: numbers printed in fields of one width sort as
numbers (`TwoDigitsSort`, `FourDigitsSort`, the latter also with blanks for leading
zeros), and so do texts joined of them (`JoinedSort`).

Files. `Written` puts a field where the widths before it add up to, so fields
follow one another without gaps and no two share an offset (`OffsetsAdd`,
`OffsetsRise`), and a read at a field's offset and of its width gives it back
(`FieldRead`). `BlockLaidOut` and `BlockOffsets` say where each section of a data
block lies, for any numbers of types and transitions, and `BlockReads` that these
are the places `readDataBlock` computes from the counts. A read that lies before the end
of the file gives what stands there, and one that does not gives `EndOfFile`
(`ReadOrEnd`). `BlockLoaded` puts that together: a block is read as `DataOf` says when the
file goes on to the end of the abbreviations (`InsideBlock`: all reads lie before that),
and otherwise one of its reads meets the end, or the ones before it refuse the
block. A version 1 file is one block; in a
version 2 file the counts of the first block lead to the second
(`SecondVersionLoaded`), whatever they are.

Local time. `ShownAround` and `ShiftShows` carry `ClockInv` to a clock moved by up
to two days: moved by `n` it shows `now + n`. Transitions cut time into segments with
one offset each; every instant lies in one (`SegmentExists`), which `upper_bound`
finds and a count of the transitions passed agrees with (`UpperBound`,
`OffsetInForce`). Within the table that count is `OffsetAt`: the moves of the TZ string are
not due yet (`MovesOfZone`), and the first type is the standard one (`StandardIsFirst`,
`WithinTable`). `LocalTimeShown` follows.
Back again, the local times of the transitions are in order too (`LocalsRise`), and a local
time can be shown in two segments only if they are neighbours (`NotTwoApart`,
`TwiceOnly`). `Searched` says which segment the code picks, case by case as it
compares; `ResolvedAs` and `SkippedAs` compare that with the instants at which the
local time is shown.

Left to TLC:

* liveness, which TLAPS does not reach: `PostRuns`, `DeleteRuns`, `ExitStops`,
  `BlockTerminates`, `TaskRuns`, `StopReleases`, `EventsDelivered`, `ServerStarts`,
  `ClientsServed`, `ServerStops`.

## What is not modelled

Of the dispatcher: `createTimer` (it dereferences `scheduler_`, which the
constructor leaves null), and so `Timer`; the clock that the prepare
callback of `Dispatcher.cpp:29-30` caches before each poll and that nothing modelled reads, the
empty `deleteInDispatcherThread` and `runThreadLocalDelete`, `printRegistEvent`,
and the destructor. A callback that posts itself without end keeps libevent in
one iteration for ever; the model posts each callback once and does not show it.

Of the pool: a negative bound (converted to a huge one), `run()` during
`start()`, `stop()` called by a task. Of `Thread`, destruction without `join`, names
and thread ids; of the condition, `waitForSeconds`, which the pool does not use.

Of `EventLoopThread(Pool)`: a pool that is destroyed without having been started,
or that has no threads (`getNextLoop` is then null), and `WorkerImpl`, which
nothing uses.

Of the server: `shutdown`, `forceClose`, `handleWrite`, `connectDestroyed` and
the high-water mark. No code of the repository reaches them: the lines that
would register a write event, and those that would hand a connection to its loop,
are commented out. Addresses, names and logging are left out.

`Connector`: nothing constructs one, and the lines that would register its
handlers and arm its retry timer are commented out. `start()` and `stop()` only
set `connect_`; `restart()` connects, enters `kConnecting` and forgets the
descriptor, and no event can follow. A model of the header's state machine would
not be of this code.

Of `TimeZone`: zone files of versions after 2, which the code reads by their first
block, and differences of timestamps in fractions of a second (doubles).

Of `Buffer`: `internalCapacity`, and `swap` other than in `shrink`.

Value types and mixins, the process-wide initialisation of libevent, the
time source, example programs, build files and vendored packages have
no behaviour of their own to check.
