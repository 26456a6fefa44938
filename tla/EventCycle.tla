----------------------------- MODULE EventCycle -----------------------------
(***************************************************************************)
(* event/{EventCycle,Channel}.{h,cpp} and event/poller/EpollPoller.cpp:    *)
(* one thread's event loop, the Channels it dispatches to, and the code    *)
(* that creates and closes them from inside the callbacks of the loop.     *)
(*                                                                         *)
(* A Channel belongs to an owner (a TcpConnection, a ConnectState, the     *)
(* Listener, a TaskQueue or TimerQueue) and, from Register to Close, to    *)
(* the EventCycle as well, whose allChannelsMap holds a shared_ptr to it.  *)
(* epoll knows it by a raw pointer; a batch of events in flight knows it   *)
(* by a weak_ptr. A callback may close any channel, including one whose    *)
(* events are waiting in the same batch, and may have the kernel reuse its *)
(* descriptor at once for a new one.                                       *)
(*                                                                         *)
(* The operations of EventCycle, Channel and EpollPoller are functions     *)
(* from the state of the cycle to its next state, so that an action can be *)
(* the whole of a handler that makes several of them.                      *)
(***************************************************************************)
EXTENDS FiniteSets, Sequences

CONSTANTS
  Channels,           \* every Channel object the program will ever construct
  Fds,                \* the descriptors the kernel may hand out
  NoChannel,          \* nullptr
  NoFd                \* the descriptor of a Channel that does not exist yet

ASSUME NoChannelAssumption == NoChannel \notin Channels
ASSUME NoFdAssumption == NoFd \notin Fds

IO == {"read", "write"}             \* CREVENT, CWEVENT
Events == IO \cup {"error"}         \* and CEEVENT, reported without being asked for
Status == {"New", "Set", "Removed"}
Roles == {"watcher", "connect", "connected", "failed"}

Unwatched == [ptr |-> NoChannel, mask |-> {}]

VARIABLES
  cycle,              \* the channels, allChannelsMap and the epoll instance, see Cycle
  stop,               \* EventCycle::stop, set by another thread
  pc,                 \* where the loop is
  currentChannels,    \* the batch of weak pointers still to be dispatched
  revents,            \* Channel::revents
  active,             \* the channel Loop has locked and is processing
  todo                \* what ProcessEvents has still to test, in order

vars == <<cycle, stop, pc, currentChannels, revents, active, todo>>

Cycle == [
  born : SUBSET Channels,           \* constructed so far
  owned : SUBSET Channels,          \* the owner still holds its shared_ptr
  role : [Channels -> Roles],
  fd : [Channels -> Fds \cup {NoFd}],
  status : [Channels -> Status],
  events : [Channels -> SUBSET IO],
  callbacks : [Channels -> SUBSET Events],
  closed : SUBSET Channels,
  map : [Fds -> Channels \cup {NoChannel}],
  open : SUBSET Fds,                \* descriptors open in the kernel
  epoll : [Fds -> [ptr : Channels \cup {NoChannel}, mask : SUBSET IO]],
  asserted : BOOLEAN,               \* an assert() has failed: the process aborts
  ctlFailed : BOOLEAN]              \* an epoll_ctl has returned an error

PC == {"setup", "top", "polling", "dispatching", "processing", "callback", "exited"}

TypeOK ==
  /\ cycle \in Cycle
  /\ stop \in BOOLEAN
  /\ pc \in PC
  /\ currentChannels \in SUBSET Channels
  /\ revents \in [Channels -> SUBSET Events]
  /\ active \in Channels \cup {NoChannel}
  /\ todo \in Seq(Events)

Init ==
  /\ cycle = [born |-> {}, owned |-> {},
              role |-> [c \in Channels |-> "watcher"],
              fd |-> [c \in Channels |-> NoFd],
              status |-> [c \in Channels |-> "New"],
              events |-> [c \in Channels |-> {}],
              callbacks |-> [c \in Channels |-> {}],
              closed |-> {},
              map |-> [f \in Fds |-> NoChannel],
              open |-> {},
              epoll |-> [f \in Fds |-> Unwatched],
              asserted |-> FALSE, ctlFailed |-> FALSE]
  /\ stop = FALSE
  /\ pc = "setup"
  /\ currentChannels = {}
  /\ revents = [c \in Channels |-> {}]
  /\ active = NoChannel
  /\ todo = <<>>

-----------------------------------------------------------------------------
(* Operations on the cycle r. An assert() that fails is remembered, what   *)
(* the operation would do after it does not matter any more.               *)

Require(r, condition) == [r EXCEPT !.asserted = @ \/ ~condition]

(* EpollPoller::updateEpoll, and what epoll_ctl makes of it: a descriptor  *)
(* has to be open, unregistered for ADD and registered for MOD and DEL. An *)
(* error is only logged.                                                   *)
UpdateEpoll(r, opt, c) ==
  LET f == r.fd[c]
      works == f \in r.open /\ (opt = "ADD" <=> r.epoll[f] = Unwatched)
  IN  IF ~works THEN [r EXCEPT !.ctlFailed = TRUE]
      ELSE [r EXCEPT !.epoll[f] = IF opt = "DEL" THEN Unwatched
                                  ELSE [ptr |-> c, mask |-> r.events[c]]]

(* EpollPoller::UpdateChannel                                              *)
PollerUpdateChannel(r, c) ==
  IF r.status[c] = "Set"
    THEN UpdateEpoll(Require(r, r.events[c] # {}), "MOD", c)
    ELSE UpdateEpoll([r EXCEPT !.status[c] = "Set"], "ADD", c)

(* Mutant of PollerRemoveChannel: Status stays "Set".                      *)
RemoveAndStaySet(r, c) ==
  UpdateEpoll(Require(r, r.status[c] = "Set" /\ r.events[c] = {}), "DEL", c)

(* EpollPoller::RemoveChannel                                              *)
PollerRemoveChannel(r, c) ==
  [UpdateEpoll(Require(r, r.status[c] = "Set" /\ r.events[c] = {}), "DEL", c)
     EXCEPT !.status[c] = "Removed"]

(* EventCycle::RegisterChannel                                             *)
RegisterChannel(r, c) ==
  [Require(r, r.status[c] = "New" /\ r.map[r.fd[c]] = NoChannel)
     EXCEPT !.status[c] = "Removed", !.map[r.fd[c]] = c]

(* EventCycle::UpdateChannel                                               *)
UpdateChannel(r, c) ==
  IF r.status[c] = "New"
    THEN PollerUpdateChannel([Require(r, r.map[r.fd[c]] = NoChannel)
                                EXCEPT !.map[r.fd[c]] = c], c)
    ELSE PollerUpdateChannel(r, c)

(* Mutant of DisableChannel: it erases the map's entry as well.            *)
DisableAndForget(r, c) ==
  [PollerRemoveChannel(Require(r, r.status[c] = "Set"), c)
     EXCEPT !.map[r.fd[c]] = NoChannel]

(* EventCycle::DisableChannel                                              *)
DisableChannel(r, c) == PollerRemoveChannel(Require(r, r.status[c] = "Set"), c)

(* Mutant of RemoveChannel: the map entry is left.                         *)
RemoveFromEpollOnly(r, c) ==
  LET q == IF r.status[c] = "Set" THEN PollerRemoveChannel(r, c)
                                  ELSE Require(r, r.status[c] # "New")
  IN  [q EXCEPT !.status[c] = "New"]

(* EventCycle::RemoveChannel                                               *)
RemoveChannel(r, c) ==
  LET q == IF r.status[c] = "Set" THEN PollerRemoveChannel(r, c)
                                  ELSE Require(r, r.status[c] # "New")
  IN  [q EXCEPT !.status[c] = "New", !.map[r.fd[c]] = NoChannel]

(* Channel::EnableReading, EnableWriting                                   *)
Enable(r, c, kind) ==
  UpdateChannel([Require(r, kind \in r.callbacks[c]) EXCEPT !.events[c] = @ \cup {kind}], c)

(* Mutant of Disable: only a channel without events tells epoll.           *)
DisableQuietly(r, c, kind) ==
  LET q == [r EXCEPT !.events[c] = @ \ {kind}]
  IN  IF q.events[c] = {} THEN DisableChannel(q, c) ELSE q

(* Channel::DisableReading, DisableWriting: update() takes a channel that  *)
(* has no events left out of epoll.                                        *)
Disable(r, c, kind) ==
  LET q == [r EXCEPT !.events[c] = @ \ {kind}]
  IN  IF q.events[c] = {} THEN DisableChannel(q, c) ELSE UpdateChannel(q, c)

(* Channel::DisableAll                                                     *)
DisableAll(r, c) == DisableChannel([r EXCEPT !.events[c] = {}], c)

(* Channel::Close                                                          *)
ChannelClose(r, c) ==
  [RemoveChannel([r EXCEPT !.events[c] = {}], c) EXCEPT !.closed = @ \cup {c}]

SetCallbacks(r, c, kinds) == [r EXCEPT !.callbacks[c] = kinds]

(* Mutant of Construct: the lines that the constructor of Channel has      *)
(* commented out, asking for CEEVENT.                                      *)
ConstructWithError(r, c, f, role) ==
  [r EXCEPT !.born = @ \cup {c}, !.owned = @ \cup {c}, !.open = @ \cup {f},
            !.fd[c] = f, !.role[c] = role, !.events[c] = {"error"}]

(* socket() or accept(), and the Channel for it                            *)
Construct(r, c, f, role) ==
  [r EXCEPT !.born = @ \cup {c}, !.owned = @ \cup {c}, !.open = @ \cup {f},
            !.fd[c] = f, !.role[c] = role]

(* close(): the kernel drops the registration along with the descriptor    *)
CloseFd(r, c) ==
  [r EXCEPT !.open = @ \ {r.fd[c]}, !.epoll[r.fd[c]] = Unwatched]

Drop(r, c) == [r EXCEPT !.owned = @ \ {c}]

-----------------------------------------------------------------------------
(* The owners. They run on the loop's thread: before the loop starts, or   *)
(* inside a callback.                                                      *)

Running == ~cycle.asserted

(* The callback of a ConnectState does nothing before finalise.            *)
InCallback == Running /\ pc = "callback" /\ cycle.role[active] # "connect"

Fresh(c, f) == c \notin cycle.born /\ f \notin cycle.open
IsConnection(c) == c \in cycle.owned \ cycle.closed /\ cycle.role[c] = "connected"

(* TaskQueue::Init, TimerQueue::Init, Listener::Listen                     *)
Watch(c, f) ==
  /\ Running /\ pc = "setup" /\ Fresh(c, f)
  /\ LET registered == RegisterChannel(Construct(cycle, c, f, "watcher"), c)
     IN  cycle' = Enable(SetCallbacks(registered, c, {"read"}), c, "read")
  /\ UNCHANGED <<stop, pc, currentChannels, revents, active, todo>>

(* Listener::handleAccept, TcpConnection::Init                             *)
Accept(c, f) ==
  /\ InCallback /\ cycle.role[active] = "watcher" /\ Fresh(c, f)
  /\ LET registered == RegisterChannel(Construct(cycle, c, f, "connected"), c)
     IN  cycle' = SetCallbacks(registered, c, Events)
  /\ UNCHANGED <<stop, pc, currentChannels, revents, active, todo>>

(* Connector::Connect: connect() has started, ConnectState::trace waits    *)
(* for the socket to become writable.                                      *)
Connect(c, f) ==
  /\ InCallback /\ Fresh(c, f)
  /\ LET registered == RegisterChannel(Construct(cycle, c, f, "connect"), c)
     IN  cycle' = Enable(SetCallbacks(registered, c, {"write", "error"}), c, "write")
  /\ UNCHANGED <<stop, pc, currentChannels, revents, active, todo>>

(* Connector::Connect: connect() failed but may be retried. The ConnectState*)
(* has registered its Channel, ConnectState::retry stores it nowhere, and  *)
(* it is destroyed together with its socket when Connect returns.          *)
ConnectRefused(c, f) ==
  /\ InCallback /\ Fresh(c, f)
  /\ LET registered == RegisterChannel(Construct(cycle, c, f, "failed"), c)
     IN  cycle' = CloseFd(Drop(registered, c), c)
  /\ UNCHANGED <<stop, pc, currentChannels, revents, active, todo>>

(* ConnectState::finalise without an error, from the write callback, which *)
(* is the last one tested: DisableAll, and the socket and the Channel move *)
(* into a new TcpConnection, whose Init finds the Channel registered and   *)
(* replaces its callbacks.                                                 *)
ConnectSucceeds ==
  /\ Running /\ pc = "callback" /\ cycle.role[active] = "connect" /\ todo = <<>>
  /\ cycle' = [SetCallbacks(DisableAll(cycle, active), active, Events)
                 EXCEPT !.role[active] = "connected"]
  /\ UNCHANGED <<stop, pc, currentChannels, revents, active, todo>>

(* ConnectState::finalise with an error: DisableAll, and the ConnectState  *)
(* leaves ongoingConnections; the callback that is running holds the last  *)
(* reference to it, see Return.                                            *)
ConnectFails ==
  /\ Running /\ pc = "callback" /\ cycle.role[active] = "connect"
  /\ cycle' = [DisableAll(cycle, active) EXCEPT !.role[active] = "failed"]
  /\ UNCHANGED <<stop, pc, currentChannels, revents, active, todo>>

(* TcpConnection::SetReadCallback and Send, for any connection the user's  *)
(* callback has at hand                                                    *)
EnableIO(c, kind) ==
  /\ InCallback /\ IsConnection(c)
  /\ kind \notin cycle.events[c]
  /\ cycle' = Enable(cycle, c, kind)
  /\ UNCHANGED <<stop, pc, currentChannels, revents, active, todo>>

(* TcpConnection::handleRead and handleWrite when they are done            *)
DisableIO(c, kind) ==
  /\ InCallback /\ IsConnection(c)
  /\ kind \in cycle.events[c]
  /\ cycle' = Disable(cycle, c, kind)
  /\ UNCHANGED <<stop, pc, currentChannels, revents, active, todo>>

(* Mutant of CloseConnection: the descriptor first.                        *)
CloseFdFirst(c) ==
  /\ InCallback /\ IsConnection(c)
  /\ cycle' = ChannelClose(CloseFd(cycle, c), c)
  /\ UNCHANGED <<stop, pc, currentChannels, revents, active, todo>>

(* TcpConnection::Close, of any connection                                 *)
CloseConnection(c) ==
  /\ InCallback /\ IsConnection(c)
  /\ cycle' = CloseFd(ChannelClose(cycle, c), c)
  /\ UNCHANGED <<stop, pc, currentChannels, revents, active, todo>>

(* The last user of a closed TcpConnection lets go of it. The WeakCallback *)
(* of a handler that is running holds it too.                              *)
Release(c) ==
  /\ Running /\ c \in cycle.owned \cap cycle.closed
  /\ pc = "callback" => active # c
  /\ cycle' = Drop(cycle, c)
  /\ UNCHANGED <<stop, pc, currentChannels, revents, active, todo>>

-----------------------------------------------------------------------------
(* EventCycle::Loop                                                        *)

Start ==
  /\ Running /\ pc = "setup"
  /\ pc' = "top"
  /\ UNCHANGED <<cycle, stop, currentChannels, revents, active, todo>>

(* while(!stop)                                                            *)
TopOfLoop ==
  /\ Running /\ pc = "top"
  /\ pc' = IF stop THEN "exited" ELSE "polling"
  /\ UNCHANGED <<cycle, stop, currentChannels, revents, active, todo>>

(* epoll_wait: for some of the registered descriptors the kernel reports   *)
(* some of the events asked for, or an error; after loopTimeout it reports *)
(* nothing. fillCurrentChannels hands the events to the channels.          *)
Reports(f) ==
  LET c == cycle.epoll[f].ptr
  IN  IF c = NoChannel THEN {{}} ELSE SUBSET (cycle.epoll[f].mask \cup {"error"})

(* Mutant of Poll: epoll_wait without a timeout.                           *)
PollForEver ==
  /\ Running /\ pc = "polling"
  /\ \E reported \in [Fds -> SUBSET Events] :
       /\ \A f \in Fds : reported[f] \in Reports(f)
       /\ \E f \in Fds : reported[f] # {}
       /\ currentChannels' = {cycle.epoll[f].ptr : f \in {g \in Fds : reported[g] # {}}}
       /\ revents' = [c \in Channels |->
            UNION {reported[f] : f \in {g \in Fds : cycle.epoll[g].ptr = c}}]
  /\ pc' = "dispatching"
  /\ UNCHANGED <<cycle, stop, active, todo>>

Poll ==
  /\ Running /\ pc = "polling"
  /\ \E reported \in [Fds -> SUBSET Events] :
       /\ \A f \in Fds : reported[f] \in Reports(f)
       /\ currentChannels' = {cycle.epoll[f].ptr : f \in {g \in Fds : reported[g] # {}}}
       /\ revents' = [c \in Channels |->
            UNION {reported[f] : f \in {g \in Fds : cycle.epoll[g].ptr = c}}]
  /\ pc' = "dispatching"
  /\ UNCHANGED <<cycle, stop, active, todo>>

(* A Channel is destroyed with the last shared_ptr to it.                  *)
Alive(c) ==
  \/ c \in cycle.owned
  \/ c = active
  \/ \E f \in Fds : cycle.map[f] = c

(* Loop takes the next weak pointer of the batch and locks it, if it can.  *)
Lock(c) ==
  /\ Running /\ pc = "dispatching" /\ c \in currentChannels
  /\ currentChannels' = currentChannels \ {c}
  /\ IF Alive(c)
       THEN active' = c /\ todo' = <<"error", "read", "write">> /\ pc' = "processing"
       ELSE UNCHANGED <<active, todo, pc>>
  /\ UNCHANGED <<cycle, stop, revents>>

EndOfBatch ==
  /\ Running /\ pc = "dispatching" /\ currentChannels = {}
  /\ pc' = "top"
  /\ UNCHANGED <<cycle, stop, currentChannels, revents, active, todo>>

(* ProcessEvents: one if, tested when its turn comes. The callbacks of     *)
(* ConnectStates and TcpConnections are WeakCallbacks and do nothing once  *)
(* their object is gone.                                                   *)
ProcessEvents ==
  /\ Running /\ pc = "processing" /\ todo # <<>>
  /\ todo' = Tail(todo)
  /\ pc' = IF Head(todo) \in cycle.callbacks[active] \cap revents[active] /\ active \in cycle.owned
             THEN "callback" ELSE "processing"
  /\ UNCHANGED <<cycle, stop, currentChannels, revents, active>>

(* The callback returns; a ConnectState that has failed is destroyed, with *)
(* its socket, and gives up its Channel.                                   *)
Return ==
  /\ InCallback
  /\ cycle' = IF cycle.role[active] = "failed" THEN CloseFd(Drop(cycle, active), active)
                                               ELSE cycle
  /\ pc' = "processing"
  /\ UNCHANGED <<stop, currentChannels, revents, active, todo>>

(* ProcessEvents is over and Loop lets go of the Channel.                  *)
Unlock ==
  /\ Running /\ pc = "processing" /\ todo = <<>>
  /\ active' = NoChannel
  /\ pc' = "dispatching"
  /\ UNCHANGED <<cycle, stop, currentChannels, revents, todo>>

(* EventCycle::Stop, from another thread                                   *)
Stop ==
  /\ Running /\ ~stop
  /\ stop' = TRUE
  /\ UNCHANGED <<cycle, pc, currentChannels, revents, active, todo>>

Finalise == ConnectSucceeds \/ ConnectFails

Owner ==
  \/ \E c \in Channels, f \in Fds : Watch(c, f)
  \/ \E c \in Channels, f \in Fds : Accept(c, f)
  \/ \E c \in Channels, f \in Fds : Connect(c, f)
  \/ \E c \in Channels, f \in Fds : ConnectRefused(c, f)
  \/ \E c \in Channels, kind \in IO : EnableIO(c, kind)
  \/ \E c \in Channels, kind \in IO : DisableIO(c, kind)
  \/ \E c \in Channels : CloseConnection(c)
  \/ \E c \in Channels : Release(c)

Loop ==
  \/ TopOfLoop
  \/ Poll
  \/ \E c \in Channels : Lock(c)
  \/ EndOfBatch
  \/ ProcessEvents
  \/ Return
  \/ Unlock

Next == Owner \/ Finalise \/ Start \/ Loop \/ Stop

SafeSpec == Init /\ [][Next]_vars

(* The loop's thread runs, every callback returns (they only use           *)
(* non-blocking calls), and epoll_wait comes back after loopTimeout at the *)
(* latest. Nobody has to call Stop or to open a connection.                *)
Spec == SafeSpec /\ WF_vars(Start) /\ WF_vars(Loop \/ Finalise)

-----------------------------------------------------------------------------
(* "this pointer SHOULD and MUST be valid" (EpollPoller.cpp:98): the raw   *)
(* pointer that epoll_wait gives back is that of a Channel which exists,   *)
(* has that very descriptor, is "Set", and wants just what epoll watches,  *)
(* whatever enables, disables, closes and reuses of descriptors came       *)
(* before.                                                                 *)
EpollPointersValid ==
  \A f \in Fds :
    LET c == cycle.epoll[f].ptr
    IN  c # NoChannel =>
          /\ Alive(c) /\ c \notin cycle.closed
          /\ cycle.fd[c] = f /\ f \in cycle.open
          /\ cycle.status[c] = "Set" /\ cycle.epoll[f].mask = cycle.events[c]

(* ChannelStatus "Set means this channel is currently in epoll"            *)
(* (Channel.h:29): no channel waits for events that epoll does not watch.  *)
SetMeansWatched ==
  \A c \in cycle.born :
    cycle.status[c] = "Set" => cycle.epoll[cycle.fd[c]].ptr = c /\ cycle.events[c] # {}

(* epoll_ctl is never refused: updateEpoll would only log it, and the loop *)
(* would go on with a channel it believes to be watched.                   *)
EpollCtlSucceeds == ~cycle.ctlFailed

(* A Channel whose last reference goes, its owner's, the map's or the one  *)
(* that Loop has locked, has been closed before: ~Channel (Channel.h:47-52)*)
(* would call Close on a Channel that is out of the map already. The events*)
(* of a batch may belong to a Channel that a callback of the same batch has*)
(* closed and released.                                                    *)
ClosedBeforeDestroyed ==
  Running => \A c \in cycle.born : Alive(c) \/ c \in cycle.closed

(* A connection that could not be made                                     *)
Failed(c) == c \in cycle.born /\ cycle.role[c] = "failed"

(* None of the assertions of EventCycle, Channel and EpollPoller fails, as *)
(* long as no outgoing connection has: every other order of operations is  *)
(* safe.                                                                   *)
OnlyFailuresAbort == cycle.asserted => \E c \in Channels : Failed(c)

(* The map keeps no Channel whose owner is gone, except those of failed    *)
(* connections: nobody will ever close them.                               *)
OnlyFailuresLeak ==
  \A f \in Fds : LET c == cycle.map[f]
                 IN  c # NoChannel /\ ~cycle.asserted => c \in cycle.owned \/ Failed(c)

(* "assert(allChannelsMap.find(channel->Getfd()) == allChannelsMap.end())" *)
(* (EventCycle.cpp:62), and every other assertion                          *)
NoAssertionFails == ~cycle.asserted

(* A descriptor that is open is in the hands of exactly one owner that     *)
(* will close it.                                                          *)
DescriptorsHaveOneOwner ==
  \A f \in cycle.open :
    \E c \in cycle.owned \ cycle.closed :
      /\ cycle.fd[c] = f
      /\ \A d \in cycle.owned \ cycle.closed : cycle.fd[d] = f => d = c

(* After Stop the loop comes to its end: no event is needed to wake it, as *)
(* epoll_wait has a timeout. (An assertion that fails ends it too.)        *)
StopEnds == stop ~> (pc = "exited" \/ cycle.asserted)
=============================================================================
