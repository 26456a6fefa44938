# A verification development for musketeer

Musketeer is a C++17 network server skeleton: one event loop per thread, an
acceptor and a connector in every worker thread, pooled TCP connections with
read and write callbacks, timers on a timerfd, and task queues that carry work
from one thread to another. This directory holds TLA+ modules that model its
core, TLC configurations that check them on small instances, and theorems that
TLAPS checks for every instance. Paths below are relative to `src/`.

    tlc -config MCEventCycle.cfg EventCycle.tla      # check an instance
    tlapm EventCycleProofs.tla                       # check the proofs

## 1. The system

`main` starts the `Manager`, which starts one `Logger` thread and one
`NetWorker` per core. Each of these has a `CycleThread` that runs an
`EventCycle`: epoll_wait, then the callbacks of the channels with events, one
after the other. Everything a worker owns is touched by its own thread only;
the single way in from other threads is `TaskQueue::SendTask`.

| Part | State | Operations | Talks to | What is hard | What makes it correct |
|---|---|---|---|---|---|
| Task queue (`base/TaskQueue`) | a deque under a mutex, an eventfd | SendTask, handleRead | any thread; its EventCycle | push and wake-up are two steps, popped by count | no wake-up lost or doubled, order per sender, each task at most once |
| Event cycle (`event/*`, `base/WeakCallback.h`) | allChannelsMap, each Channel's Status and events, the epoll set, the batch | Register, Update, Disable, Remove, Loop, Stop | all owners of descriptors | callbacks that close channels whose events wait in the same batch; descriptors that are reused; raw pointers in epoll | epoll, map and channels agree; a channel is closed before its last reference goes; nothing leaks |
| Timer queue (`base/TimerQueue`, `base/Timer`) | a pool of Timers, an ordered set, one timerfd | NewTimer, Reset, Update, Add, Cancel, return, handleRead | Connector, TcpConnection | callbacks in the middle of the walk; a periodic timerfd; rounding; two clocks | a timer calls once, not early, at the next tick once it is due, never after Cancel |
| Connector (`net/Connector`) | ongoingConnections, the finalised flags | Connect, handleWrite, handleError, retry, finalise | pool, EventCycle, users | error and write event in one batch; who keeps a ConnectState alive; a limit tested long before it counts | every attempt is answered exactly once, the limit holds |
| Connection pool (`net/TcpConnectionCreator`) | groups of connections | Add, Remove, Select, GetConnNumber | Connector, Listener, TcpConnection | connections closed from anywhere | holds just the open connections, each in its group |
| TCP connection (`net/TcpConnection`) | status, channel, two callbacks, two timers, buffers | SetReadCallback, Send, Retain, Close, four handlers | its channel, its creator, its user | user callbacks between the handlers of a batch; stale events; partial writes | each request is answered once; events are asked for just as long as somebody waits |
| Listener (`net/Listener`) | a listening socket, the pool | Listen, handleAccept, handleKeepalivedRead, RetainTcpConnection | TcpConnection, users | accept that fails or is over the limit; descriptors that run out; groups nobody knows; retained connections come back at any time | connections, pool and descriptors agree; no peer waits for ever; retained connections are watched |
| Buffers (`base/Buffer`, ReadFd, WriteFd, WritevFd) | a vector and two indexes; a chain of them | Append, Retrive, Mark..., GetWriteBuffer | TcpConnection, users | growing, reuse from the front, writes that stop inside a buffer | a stream of bytes, in order, nothing lost |
| Network worker, cycle thread (`net/NetWorker`, `base/CycleThread`) | the parts above, a thread's id | StartThread, ConnectUpstream, Stop | Manager, users | start-up order, an id that is set when the thread already runs | connects run on the worker's thread, in the order of the calls |
| Socket, InetAddr | a descriptor, an address | system calls | all of net/ | errno classes | - |
| Logger (`base/Logger`) | a TaskQueue, a file, a flag | StartThread, Log | all threads | lines during start-up; its own thread logs too | no line of a worker is lost, the lines of a thread keep their order |
| Manager, main | the workers | InitThreads | Logger, NetWorkers | the first threads run while the others are started | nothing is used before it is ready |
| File, TcpServer | stubs | - | - | - | - |

## 2. The modules

| Module | Models | Kind |
|---|---|---|
| `TaskDelivery` | what a task queue promises | abstract specification |
| `TaskQueue` | base/TaskQueue | detailed, implements TaskDelivery |
| `DataLemmas` | - | lemmas on numbers, queues and histories, pools, buffers and chains of them; theorems about Buffer and BufferChain |
| `TaskQueueProofs` | - | theorems about TaskQueue |
| `EventCycle` | EventCycle, Channel, EpollPoller, and the channel-related half of Listener, Connector and TcpConnection | state machine |
| `EventCycleProofs` | - | theorems about EventCycle |
| `TimerQueue` | TimerQueue, Timer | state machine |
| `TimerQueueProofs` | - | theorems about TimerQueue |
| `ConnectionPool` | TcpConnectionCreator | operators on a pool |
| `Connector` | Connector and ConnectState over a ConnectionPool | state machine |
| `ConnectorProofs` | - | theorems about Connector |
| `Listener` | Listener's accepting side and Socket::Accept over a ConnectionPool | state machine |
| `ListenerProofs` | - | theorems about Listener |
| `Threads` | Manager's start-up, Logger, CycleThread, NetWorker::ConnectUpstream | state machine over queues as TaskDelivery specifies them |
| `ThreadsProofs` | - | theorems about Threads |
| `TcpConnection` | TcpConnection and the Listener's side of it | state machine |
| `TcpConnectionProofs` | - | theorems about TcpConnection and ConnectionBuffers, two views of one class |
| `Buffer` | Buffer | operators on a buffer |
| `BufferChain` | GetWriteBuffer, WriteFd, WritevFd | operators on a chain of buffers |
| `ByteStream` | what buffers promise | abstract specification |
| `ConnectionBuffers` | the write chain and read buffer of a connection, with ReadFd | detailed, implements ByteStream twice |

Three conventions are shared. Operations of an object that are called inside
larger handlers are functions from the object's state to its next state, so
that one action is one whole handler. An assertion of the code that fails sets
a flag (`cycle.asserted`, `broken`, `pool.asserted`, `failed`, `overflowed`)
after which nothing happens any more, as the process aborts (the build does not
define NDEBUG). Definitions marked *mutant* in a comment are not part of the
model: each is a plausible mistake in one definition, and substituting it makes
the property it was written for fail.

**TaskQueue.** `Push` is SendTask up to the unlock, `Notify` its eventfd_write;
`Poll`, `ReadEventfd`, `Pop`, `TaskReturns`, `DrainEnds` are the owner's thread
in epoll_wait and in handleRead. Tasks may be empty functions (the code allows
nullptr), and a running task may send further ones to its own queue. `ran` and
`emptyPops` are history.

**EventCycle.** `cycle` is one record: the channels (Status, events, callbacks,
owner, role), allChannelsMap, the open descriptors, and what epoll holds for
each (pointer and mask). Above it are the loop (`pc`, the batch, `revents`, the
channel it has locked, the tests of ProcessEvents still `todo`) and the actions
of the owners that run in callbacks: Accept, Connect with its three outcomes,
the enabling and disabling a TcpConnection does, Close, and the release of the
last owner's reference. `Alive` is the reference count of a Channel: its owner,
the map, the shared_ptr that Loop holds. The kernel drops a registration with
the descriptor and hands descriptors out again at once.

**TimerQueue.** There are two clocks. Timers expire by Now(), which is the
system_clock (`base/Utilities.h:113-116`): `now`, which `StepClock` sets forward or
back. The timerfd counts CLOCK_MONOTONIC (`base/TimerQueue.cpp:73`), which nobody can
set: it knows how much it has `left`. `Tick` lets both go on, at any time, whatever
the loop is doing, so that the loop may be as late as it likes. Time is counted in
fractions of a millisecond as Now() is finer than the timerfd's setting, which is
rounded down.

Each operation of Timer is an action of its own, in any order and inside callbacks:
`Reset`, `Update` (of a timer that is set too), `UpdateAgain` (what ConnectState::trace
does), `Add`, `Cancel`, `Release`. The one thing asked of a user is to Reset a Timer
before it updates or adds it, as `base/Timer.h:21` does. handleRead is four actions
because callbacks run in the middle of its walk: `HandleRead` (read, and compute
the place to stop), `ProcessTimedout`, `CallbackReturns`, `EraseExpired`. AddTimer reads
Now() up to three times, which the model does once.

What a user may count on is kept in history variables, which nothing else depends on:
`owed` is the instant at which a timer's user is promised a call, from AddTimer until the
call, a Cancel, an Update or the return to the pool; `missed` counts the expirations
of the timerfd since that instant has come; `unexpired` is what the present walk has
found unexpired. `stray` are the entries that their users have lost, because the Timer was
given back or updated while it was set, or because the walk has added it again
though it was not set, or behind itself (which takes a system clock that was set back).
A stray entry calls whoever has the Timer by then, and the properties set it apart.

**Connector.** `ongoingConnections` maps descriptors to attempts, `fd` says which
descriptor an attempt (later its connection) has open; the lowest free one is given
out, so that a callback which closes a connection and connects again gets the same
number. `finalised` and `answers` follow each attempt. An event is
taken in turn, error before write, with the user's callback (`pc = "user"`)
between them, in which the user connects, closes, retains or selects. A
ConnectState that `retry` leaves to its timer is in no map and is gone when
Connect returns; so handleTimedout is unreachable and not modelled.

**Listener.** `backlog` is the kernel's queue of peers, `free` and `taken` the
descriptors left and those in the hands of others. handleAccept is one action with
three outcomes (`PeerIsGone`, `Refuse`, `Establish`); an accept that fails for want of
descriptors changes nothing. The group of a connection is chosen at each accept, as
the address is not filled in. A connection's identity, its address in memory, is used
again after `Destroy`.

**Threads.** `starting` and `step` are main's place in InitThreads, whose steps are
the sequence `StartSteps`: for the Logger open the file, Init, create the thread, set
its id, set `inited`; for a NetWorker Init, listen, create, set the id. `running` are
the threads that exist, `known` those whose threadId is set: a thread in between
takes itself for a stranger. Any running thread, and main, may log at any time;
users on the workers' threads call ConnectUpstream. The queues are those that
TaskDelivery specifies and TaskQueue implements.

**TcpConnection.** A record per connection; `revents` is the batch, so that other
callbacks run between epoll_wait and a connection's turn. User callbacks are the
last thing a handler does, which makes a callback a turn of the user. `owed` and
`twice` are history: which requests are unanswered, and which were answered
without being owed. `full` says that readBuf has no room: a read may fill it, the user takes
bytes out, and SetReadCallback asserts that it has ("we assume caller will read all the data
before the next call", `net/TcpConnection.h:115`). Timeouts are left out: readTimer and writeTimer are updated
but never added, their handlers cannot run.

**ConnectionBuffers.** Bytes are numbered as they are appended (or arrive), so
that loss, reordering and foreign bytes show; ByteStream knows how many were put in, and
lets just these into its queue. `Buffer` keeps both capacity and the vector's
size(), as resize() knows only the latter. `BufferChain` says which buffer an append
gets, how large a new one is, and what each buffer gives up of what a write took. Send
and handleWrite are `SendBytes` and `WriteMore`, both of them `WriteBytes`; handleRead
is `ReadBytes`. (`Send`, `HandleWrite` and the like are names of TcpConnection, and the
proofs take both modules.)

## 3. What is checked

| Run | Instance | Shows |
|---|---|---|
| `task_queue` | 2 senders and the owner, 2 tasks each | types, wake-ups match tasks, order per sender, refinement of TaskDelivery with liveness |
| `event_cycle` | 3 channels, 2 descriptors | epoll's pointers are valid, Set means watched, epoll_ctl never fails, a channel that goes has been closed, only failed connects lead to aborts, Stop ends the loop |
| `event_cycle_leak` | the same | finding 1 |
| `timer_queue` | 2 timers, 1 ms, half-millisecond ticks, one step of the system clock, a loop that may be late, every use of Timer | calls are owed, none is left out by a tick once it is due, entries are current |
| `timer_queue_rearm` | 2 timers, 2 or 3 ms, clocks in step | finding 2 |
| `connector` | 3 attempts, 2 addresses, limit 2 | answered at most once, and in the end; groups plus attempts within the limit; the pool holds what is open; descriptors used again lead to the right attempt |
| `connector_retry` | the same | finding 3 |
| `listener` | 3 peers, 2 groups, limit 2, 2 descriptors | connections, pool and descriptors agree; no peer waits for ever while descriptors come back |
| `tcp_connection` | 2 connections | events asked for = answers owed, twice only when closed, retained are watched, the channel's assertions, Sends end |
| `tcp_connection_stale` | the same | finding 4 |
| `connection_buffers` | 3 buffers of 2 bytes, 8 bytes, appends of up to 5 | both directions implement ByteStream |
| `threads` | the logger and 2 workers, 2 lines, 3 calls | start-up is safe; workers lose no line; the logger's thread writes its own; order of lines and calls; nothing waits for ever |

**Bounds.** Task queue: the races are between a push, its late write and a drain
that a third thread's task triggers; two senders with two tasks give all of them.
Event cycle: two descriptors and three channels are the least with which a
descriptor is reused while another channel is active in the same batch. Timers:
two timers and two entries give an entry next to the one the walk stands on, to be
cancelled or stopped at, and a repeated timer next to its old entry; half milliseconds give
points that differ by less than the timerfd's period and an interval that is rounded
down (to 0 as well); with the last instant after one and a half periods there are an expired
and an unexpired entry at a tick and, if the system clock is set back, a second tick, the
first one read or not, as the bound of two unread expirations lets them pile up; one step of the system clock, forward or
back, comes before, between or in walks, and is enough to add an entry behind the walk.
Connector: with a limit of two, a third
attempt is refused, or not, depending on what closed before. Listener: two
descriptors run out before three peers are served, and with two groups the limit is
reached while one of them is free again. Threads: two lines in all give two of one
thread, one before and one after a step of main, and one of each of two threads; three
calls give one through the queue between two of the worker's own; the second worker is
the one that starts while the first runs. TcpConnection: a
callback acts on one other connection at a time. Buffers: appends of five bytes
to buffers of two grow them once and twice, and three buffers let a write stop
in the first, in the middle and in the last.

**Fairness.** Always on the loop and never on users or peers, except where a
property says what a peer does. `TaskQueue`: the owner's loop, and a thread between
its unlock and its eventfd_write goes on. `EventCycle`: the loop, whose epoll_wait
has a timeout, and callbacks return since they make no blocking call; weak
fairness suffices as the loop is one sequential process. `Connector`: callbacks
return, events are processed, and a connect() under way ends (the kernel gives
up); strong fairness for that, because other events come in between. `Listener`:
callbacks return, and an accept that could succeed, because there is a descriptor, does
so again and again; PeersAreServed itself asks that descriptors come back, which users
have to see to. `Threads`: main goes on with its start-up, and the two loops run what
was sent to them, which TaskQueue guarantees. `TcpConnection`:
the same (some channel of the batch is dispatched, again and again), and for SendsEnd a
peer that reads: the socket becomes writable again and again and some write takes the rest.

CHECK_DEADLOCK is FALSE everywhere: a program in which an assertion has failed
has stopped, bounded models stop when everything was sent, connected or timed,
and after Stop the loop has ended.

## 4. What is proved

TLAPS checks the theorems for every value of the constants, from the named
assumptions of the modules (a worker is not a sender, NoChannel is not a channel,
and the like). Only the Connector and the Listener, which count connections, assume
that their sets are finite.

**TaskQueue** (`TaskQueueProofs`). The type invariant; and the heart of it,
`CountInv`: the units in the eventfd, the rounds handleRead has still to make, and
the senders that have not written yet are together as many as the queued tasks,
and no rounds are left when handleRead is not running. WakeupsMatchTasks alone is
not inductive: eventfd_read overwrites num, so a step could lose rounds that were
left over. CountInv gives WakeupsMatchTasks, NeverPopsEmpty and NoLostWakeup. `SenderOrder` follows from an invariant over queue and history: the
tasks of a sender in `ran` followed by those in `queue` are numbered one after
another. The safety half of the refinement of TaskDelivery is proved step by step;
its liveness half is TLC's.

**EventCycle** (`EventCycleProofs`). None of the properties is inductive. The
invariant `Inv` has four parts: `Sound(cycle)`, everything that relates Status,
events, allChannelsMap, epoll and open descriptors of every channel (which is a
property of the record, so that each operation gets a lemma of its own: what it
does to a sound record, and what it leaves alone); `LoopTypes`, the types of the loop's variables; `ActiveSound` (the channel whose
callback runs has an owner); and `ConnectsSound`, about the sockets that connect: one
under way is owned, not closed and Set in epoll until finalise, and one that failed
is owned only while its own callback runs. A
handler that makes several operations is a chain of those lemmas. From `Inv` follow
TypeOK, EpollPointersValid, SetMeansWatched, EpollCtlSucceeds,
ClosedBeforeDestroyed and DescriptorsHaveOneOwner. A second invariant, `Faultless`, says what holds as
long as no connect has failed: no assertion has, and the map's entries belong to
owners; with Inv it is inductive, and gives OnlyFailuresAbort and OnlyFailuresLeak.

**Threads** (`ThreadsProofs`). `MainsPlace` says, in terms of main's place in
`StartSteps`, which queues are ready, which threads run and are known, and whether
the logger is inited; with it, StartUpIsSafe, WorkersLoseNoLine and LoggerWritesItsOwn
are inductive. The order of lines and of calls
needs `OrderInv`: what a thread has logged or called for is in the history followed by
the queue, each number once and ascending (`Numbered`); and what waits in the logger's
queue was sent by threads that knew their id, while a call of Upstream itself that
waits in its own queue was made before it did (`Late`, `Waiting`). That is why only
those may be overtaken.

**TcpConnection** (`TcpConnectionProofs`). Of each connection's record: while it is
not closed, the events it waits for are the requests it owes, and nothing was answered
twice; and a retained one waits for reading with the keepalive callback
(`Sound`). This survives stale events only because of `PendingIsAwaited`: what is still
to be tested of the connection whose turn it is are events it waits for, unless it was
closed; a handler that answers one kind of request leaves the others as they were
(`Keeps`), so that the tests still to come keep their ground.

**Listener** (`ListenerProofs`). ConnectionsAccountedFor needs that the peers in the
backlog wait, each there once (`BacklogWaits`), so that a connection that is made was
not open, and that each group's members are just the open connections of that group
(`Houses`, which AddHouses and RemoveHouses of `DataLemmas` show Add and Remove
preserve). With NumFds the sum of what is free, taken and open, no counter leaves its
range.

**Connector** (`ConnectorProofs`). The properties themselves are nearly inductive
together; what they need beside each other is that an attempt not yet asked for
has no descriptor and no answer, that ongoing attempts were asked for, and that only
finalise makes a connection. That a Connect finds a descriptor at all, and the lowest
one is not in ongoingConnections, is the lemma NewFdIsFree: by counting, as one attempt
at least has none open. The assertions of the pool follow from `Houses` again.

**TimerQueue** (`TimerQueueProofs`), in three layers, each an invariant that extends the
one before. None assumes anything of the users, of the loop or of the clocks; what is
asked of the constants is that the pool has a Timer, that a millisecond has a unit, and that
durations and steps are numbers, the former not 0.

- `WalkInv`: TypeOK, and `WalkSound`: as long as nothing has broken, the walk of
  handleRead stands on an entry of the set and before the one it stops at. Of the
  timerfd, the action property that it is set once: armed, it stays armed with the
  period it has, which is finding 2 seen from the other side.
- `CallInv`: of each timer (`TimerKept`), an entry that is no stray is that of a timer
  held, set, at its present point, with a callback; whoever is owed a call has such an
  entry, ahead of the walk if there is one (`Ahead`); and the other way round, an entry
  ahead of the walk is owed. What the walk has found unexpired lies where it stops or
  behind (`StopIsUnexpired`). From this follow EntriesAreCurrent and CallsAreOwed,
  neither of which is inductive.
- `LateInv`: while anything waits the timerfd is armed, and it expires within its period,
  unless that is 0 (`TimerfdSound`); the expirations since the instant of a promised call
  are unread ones, but for the one that has been read by a walk which will come to the entry
  (`CallComes`). This is TimersAreNotLate.

After something has broken (an assertion has failed, an empty function was called, a callback
has cancelled the entry the walk stands on or stops at) nothing happens any more and nothing
is claimed. Section 5 says which uses lead there. That
`First` and `UpperBound` find the least of a set of entries needs a smallest element
twice, of points and of timers (`SmallestOf`).

**Buffers** (`DataLemmas`, and the last part of `TcpConnectionProofs`). `BufferSound` is
the invariant of one buffer: availEnd within the capacity, and a size() between half
the capacity and all of it. The lower bound is what keeps resize() from doing harm:
growing by a multiple of what is left makes enough room only when what was taken lies
within size() (`GrownIsSound`). So AppendLosesNothing: an append that fits loses nothing. Of a chain, what it holds is
FlattenSeq, which is a recursive LET; `Gathers` describes it buffer by buffer
(`ContentIsGathered`; the induction is a smallest counterexample), and with it
WriteTakesFromFront: wherever a write ends, the buffers' shares make up the rest.
Appending needs an invariant over the chain, `FilledInOrder`: no buffer is in use
behind one that has room. GetWriteBuffer returns the first with room, so what is
appended goes last (AppendGoesLast). While a Send is under way this does not hold, and
is not needed, since nothing is appended; when it ends all buffers are empty, and it holds again.
`BuffersInv` puts this together; from it BuffersTypeOK, and the refinement of
ByteStream in both directions, SendsInOrder and ReceivesInOrder, for every
InitSize, number of buffers and length of appends. An append that does not fit
ends the behaviour: the theorems say nothing about what the process does after it.

Model-checked only: liveness (StopEnds, StartedIsAnswered, SendsEnd, PeersAreServed,
NothingWaitsForever, the liveness of TaskDelivery), which needs ENABLED. The
violations of section 5 are TLC's as well. Every invariant and every safety property
that a passing run checks is stated by a theorem.

## 5. Findings

1. A failed connect leaves its Channel in allChannelsMap after its descriptor is
   closed; the next channel on that descriptor aborts the process
   (`event/EventCycle.cpp:62`).
2. AddTimer compares a new timer with the set into which it has inserted it: the
   timerfd is never brought forward (`base/TimerQueue.cpp:50`).
3. A connect() that could be retried is not, and its user is never told
   (`net/Connector.cpp:195`).
4. An error event for a connection that another callback has closed meets
   `assert(Valid())` (`net/TcpConnection.cpp:242`).

Further disagreements, seen while modelling and not given a run:

- A repeated timer may be put back in front of the place where the walk stops and is
  called again before its time, and again, as long as it repeats
  (`base/TimerQueue.cpp:157`; "check those expired timers", line 144). CallsAreOwed
  speaks of entries that were there when the walk began, and would fail without that. The
  program's only repeated timer, that of ConnectState::retry, does not get so far.
- The two clocks: with the system clock set back a timer waits for longer than it was
  asked to, with the system clock set forward it is called at the next tick, before its
  duration is over. If the step falls between the first timer's Update and its Add, it goes
  into the timerfd's period for good.
- A Send of nothing is never answered, and the loop spins
  (`net/TcpConnection.cpp:233`), where `net/TcpConnection.h:124` says
  "writeFinishedCallback will be called immediately if writeBuf is empty". The
  property EmptySendIsAnswered of TcpConnection fails.
- "pool connecions number" (`net/TcpConnectionCreator.h:34`) is the number of groups,
  and groups are never erased. A Listener that has seen as many groups as its limit
  closes every later connection for ever, be there none open; as long as accept()
  leaves the same rubbish in the address there is but one group, and no limit at all.
- Socket::Accept tells ConnectionsRunout apart (`net/Socket.cpp:101-106`), but
  handleAccept only logs it: the level-triggered event comes back at once, and the
  loop spins until a descriptor is free.
- ConnectState::finalise makes a TcpConnection of its channel, whose Init replaces the
  very callback that is running (`net/TcpConnection.cpp:15-17`): the functor is
  destroyed while it is on the stack, and nothing of it may be used afterwards, which
  WeakCallback happens to respect.
- `net/Connector.cpp:212` counts "ongoing and in-pool connections"; GetConnNumber
  counts groups, which are never erased. Connections to a known address pass any
  limit; closed connections to many addresses block it for ever.
- SelectTcpConnection (called by nobody) takes the first connection of a group:
  one in use fails its assertion, an empty group dereferences end(). The model
  keeps this apart as `pool.selectFailed`.
- `Timer::set` "true if this Timer is now in TimerQueue" (`base/Timer.h:85`) stays
  true after the timer has fired; adding it again fails an assertion.
- `assert(times == 1)` (`base/TimerQueue.cpp:141`) fails when the loop is later
  than the timerfd's period.
- A timer returned to the pool while set leaves its entry behind: the next walk
  calls an empty function or its next owner's. The
  program does so itself: ConnectState::retry adds a timer (`net/Connector.cpp:54-60`)
  that goes back to the pool when Connect returns (`base/TimerQueue.cpp:164-166` clears
  the callback only), so that a connect() that should be tried again ends the process
  at a later tick with bad_function_call, unless the Timer has a new owner by then.
- A timer that is updated while it is set keeps its entry at the old point, where Cancel
  does not find it (ConnectState::trace does so after a retry); one whose callback cancels
  it, or cancels the entry at which the walk stops, leaves handleRead with an iterator
  that was erased (`base/TimerQueue.cpp:149`).
- A first timer of 1 ms may be set for 0 ms, which disarms the timerfd for ever.
- Timeouts of reading and writing (`base/Utilities.h:55-60`) never come: no
  connection adds its timers.
- Buffer::Append (`base/Buffer.cpp:41-62`) grows to a multiple of the room that is
  left, counted from the start of the buffer: an append to a half full buffer may
  not fit and is copied past the end; with no room left it divides by zero. An
  append that does fit loses nothing, although resize() overwrites what lies
  beyond size(): SendsInOrder covers that.
- A user that appends while a Send is under way may be given the first buffer,
  empty again, in front of unsent data.
- handleKeepalivedRead's second assertion fails on an ignorable error of read().

## 6. Not modelled

The stubs are empty. Manager::CheckAndSet and the constructors run before there is a
second thread and are initial states; log levels and the wording of lines are left out.
Of sockets and addresses only what callers tell apart. The growth of the array
for epoll_wait and of the timer pool, failing eventfd and timerfd calls, and the
teardown after main's sleep are left out, and so are timeouts of connections and
of connects, whose code cannot be reached. That threadId is read
without synchronisation is undefined behaviour; `Threads` lets the reader find the old
or the new value, which is what a word-sized load gives. Main's
teardown destroys the Manager while detached threads still use it, and a TcpConnection
that is destroyed unclosed calls shared_from_this in its destructor: no states to model.

## 7. Plan

What is left is proof, of weaker forms of what is only model-checked, where no
ENABLED is needed:

1. Steps of progress: that in EventCycle, Connector and TcpConnection each turn of a
   batch makes it smaller, so that a loop iteration ends if callbacks return.
2. Refinement between the components that are composed by assumption: that a Connector's
   or a Listener's pool, seen by group, is what TcpConnection's creator is told.
