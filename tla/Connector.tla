----------------------------- MODULE Connector ------------------------------
(***************************************************************************)
(* net/Connector.{h,cpp}: outgoing connections, from Connect to the user's *)
(* callback, and the pool they live in afterwards.                         *)
(*                                                                         *)
(* Everything runs on the thread of one event loop: the loop dispatches    *)
(* the events of the sockets that are being connected; a ConnectState      *)
(* answers its user from inside such an event; and the user's callback may *)
(* call Connect again, close and retain connections.                       *)
(*                                                                         *)
(* ongoingConnections finds a ConnectState by its descriptor. It lives as  *)
(* long as it is there, and until the handler that takes it out returns;   *)
(* then its socket is closed, if no TcpConnection has got it. The kernel   *)
(* gives out the lowest descriptor that is free, so that descriptors are   *)
(* used again at once. (That a failed attempt also leaves its Channel      *)
(* behind, and what becomes of that, is in EventCycle.)                    *)
(*                                                                         *)
(* A ConnectState's timer is only ever added by retry, whose ConnectState  *)
(* is in no map and is gone before the timer can expire: handleTimedout    *)
(* never runs, and no attempt times out.                                   *)
(***************************************************************************)
EXTENDS ConnectionPool, Sequences, FiniteSetsExt

CONSTANTS
  Attempts,           \* the calls of Connect, and the connections they lead to
  Groups,             \* the remote addresses
  Nobody,
  Limit               \* connectionLimit

ASSUME NobodyAssumption == Nobody \notin Attempts
ASSUME LimitAssumption == Limit \in Nat
ASSUME AttemptsAssumption == IsFiniteSet(Attempts) /\ IsFiniteSet(Groups)

VARIABLES
  asked,              \* the attempts whose Connect has been called
  group,              \* the remote address each is called with
  fd,                 \* the descriptor each has open, or NoFd
  ongoingConnections, \* from descriptors to attempts, Nobody where there is none
  asserted,           \* an assert() of Check or finalise has failed
  finalised,          \* the ConnectStates that have finalised their work
  answers,            \* history: how often an attempt's callback was called
  conns,              \* the TcpConnections
  pool,               \* the connections of TcpConnectionCreator
  pc,                 \* "idle": between events; "events": in ProcessEvents;
                      \* "user": in a user's callback or task
  current,            \* whose events ProcessEvents is dispatching
  todo                \* those it has still to test, with the error of the socket

mapVars == <<fd, ongoingConnections, asserted>>
loopVars == <<pc, current, todo>>
vars == <<asked, group, mapVars, finalised, answers, conns, pool, loopVars>>

(* As many descriptors as the attempts can have open at a time             *)
NoFd == 0
Fds == 1 .. Cardinality(Attempts)

(* The ConnectStates in ongoingConnections                                 *)
ongoing == {a \in Attempts : \E f \in Fds : ongoingConnections[f] = a}

ConnType == [status : {"none", "Established", "Closed"}, active : BOOLEAN]

TypeOK ==
  /\ asked \subseteq Attempts
  /\ group \in [Attempts -> Groups]
  /\ fd \in [Attempts -> Fds \cup {NoFd}]
  /\ ongoingConnections \in [Fds -> Attempts \cup {Nobody}]
  /\ asserted \in BOOLEAN
  /\ finalised \subseteq asked
  /\ answers \in [Attempts -> Nat]
  /\ conns \in [Attempts -> ConnType]
  /\ pool \in PoolType(Attempts, Groups)
  /\ pc \in {"idle", "events", "user"}
  /\ current \in Attempts \cup {Nobody}
  /\ todo \in Seq({"error", "write"} \X BOOLEAN)

Init ==
  /\ asked = {}
  /\ group \in [Attempts -> Groups]
  /\ fd = [a \in Attempts |-> NoFd]
  /\ ongoingConnections = [f \in Fds |-> Nobody]
  /\ asserted = FALSE
  /\ finalised = {}
  /\ answers = [a \in Attempts |-> 0]
  /\ conns = [a \in Attempts |-> [status |-> "none", active |-> FALSE]]
  /\ pool = EmptyPool(Groups)
  /\ pc = "idle" /\ current = Nobody /\ todo = <<>>

-----------------------------------------------------------------------------
Works == ~asserted /\ ~pool.asserted /\ ~pool.selectFailed

IsOpen(c) == conns[c].status = "Established"

(* The test of Connect. The mutant forgets the connection about to be made.*)
WithinLimitSoFar == GetConnNumber(pool) + Cardinality(ongoing) <= Limit
WithinLimit == GetConnNumber(pool) + Cardinality(ongoing) + 1 <= Limit

(* socket(2): the lowest descriptor that is free                           *)
NewFd == Min({f \in Fds : \A a \in Attempts : fd[a] # f})

(* Connect, called by a user: no socket, over the limit, or an error that  *)
(* is for good: the callback gets nullptr at once. Otherwise there is a    *)
(* ConnectState, which waits for the socket to become writable ...         *)
ConnectFails(a) ==
  /\ Works /\ pc = "user" /\ a \notin asked
  /\ asked' = asked \cup {a}
  /\ answers' = [answers EXCEPT ![a] = @ + 1]
  /\ UNCHANGED <<group, mapVars, finalised, conns, pool, loopVars>>

ConnectStarts(a) ==
  /\ Works /\ pc = "user" /\ a \notin asked
  /\ WithinLimit
  /\ asked' = asked \cup {a}
  /\ fd' = [fd EXCEPT ![a] = NewFd]
  /\ ongoingConnections' = [ongoingConnections EXCEPT ![NewFd] = IF @ = Nobody THEN a ELSE @]
  /\ asserted' = (ongoingConnections[NewFd] # Nobody)
  /\ UNCHANGED <<group, finalised, answers, conns, pool, loopVars>>

(* ... or should try again later, but nobody keeps it: retry adds a timer  *)
(* with a weak pointer to the ConnectState, and it is destroyed, callback  *)
(* and all, when Connect returns. (The timer is destroyed as well, with    *)
(* its entry left in the TimerQueue: the tick that finds it there, if it   *)
(* comes, calls an empty function.)                                        *)
ConnectRetries(a) ==
  /\ Works /\ pc = "user" /\ a \notin asked
  /\ WithinLimit
  /\ asked' = asked \cup {a}
  /\ UNCHANGED <<group, mapVars, finalised, answers, conns, pool, loopVars>>

-----------------------------------------------------------------------------
(* The kernel: an attempt ends with the socket writable, an error, or both;*)
(* err is SO_ERROR > 0. The loop reports it until somebody disables it.    *)
Reports ==
  {<<<<"write", err>>>> : err \in BOOLEAN}
    \cup {<<<<"error", TRUE>>>>, <<<<"error", TRUE>>, <<"write", TRUE>>>>}

Dispatch(a) ==
  /\ Works /\ pc = "idle" /\ a \in ongoing
  /\ pc' = "events" /\ current' = a
  /\ todo' \in Reports
  /\ UNCHANGED <<asked, group, mapVars, finalised, answers, conns, pool>>

(* ConnectState::finalise: success makes a TcpConnection, which gets the   *)
(* socket, and puts it into the pool; the ConnectState leaves              *)
(* ongoingConnections; then the user is called. The mutants call the user  *)
(* first thing after an error, and forget the map.                         *)
Creates(a, err) ==
  /\ conns' = IF err THEN conns
              ELSE [conns EXCEPT ![a] = [status |-> "Established", active |-> TRUE]]
  /\ pool' = IF err THEN pool ELSE AddTcpConnection(pool, a, group[a])
  /\ answers' = [answers EXCEPT ![a] = @ + 1]
  /\ UNCHANGED <<fd, asserted>>

Erased(a) == [ongoingConnections EXCEPT ![fd[a]] = Nobody]

FinaliseEarly(a, err) ==
  /\ Creates(a, err)
  /\ finalised' = IF err THEN finalised ELSE finalised \cup {a}
  /\ ongoingConnections' = IF err THEN ongoingConnections ELSE Erased(a)

FinaliseOnly(a, err) ==
  /\ Creates(a, err)
  /\ finalised' = finalised \cup {a}
  /\ UNCHANGED ongoingConnections

Finalise(a, err) ==
  /\ Creates(a, err)
  /\ finalised' = finalised \cup {a}
  /\ ongoingConnections' = Erased(a)

Reported(event) == Works /\ pc = "events" /\ todo # <<>> /\ Head(todo)[1] = event

(* Whether the WeakCallback finds the ConnectState, and it has not         *)
(* finalised its work.                                                     *)
Responds(a) == a \in ongoing /\ a \notin finalised

HandleError ==
  /\ Reported("error") /\ Responds(current)
  /\ Finalise(current, TRUE)
  /\ todo' = Tail(todo) /\ pc' = "user"
  /\ UNCHANGED <<asked, group, current>>

(* handleWrite. The mutant does nothing about an error.                    *)
HandleWriteIfGood ==
  /\ Reported("write") /\ Responds(current) /\ ~Head(todo)[2]
  /\ Finalise(current, FALSE)
  /\ todo' = Tail(todo) /\ pc' = "user"
  /\ UNCHANGED <<asked, group, current>>

HandleWrite ==
  /\ Reported("write") /\ Responds(current)
  /\ Finalise(current, Head(todo)[2])
  /\ todo' = Tail(todo) /\ pc' = "user"
  /\ UNCHANGED <<asked, group, current>>

(* An event for a ConnectState that is gone                                *)
SkipEvent ==
  /\ Works /\ pc = "events" /\ todo # <<>> /\ ~Responds(current)
  /\ todo' = Tail(todo)
  /\ UNCHANGED <<asked, group, mapVars, finalised, answers, conns, pool, pc, current>>

EventsDone ==
  /\ Works /\ pc = "events" /\ todo = <<>>
  /\ pc' = "idle" /\ current' = Nobody
  /\ UNCHANGED <<asked, group, mapVars, finalised, answers, conns, pool, todo>>

-----------------------------------------------------------------------------
(* The users: a task of another thread that ConnectUpstream has sent, or   *)
(* the callback that finalise has just called.                             *)
RunTask ==
  /\ Works /\ pc = "idle" /\ asked # Attempts
  /\ pc' = "user"
  /\ UNCHANGED <<asked, group, mapVars, finalised, answers, conns, pool, current, todo>>

(* A handler that returns holds the last reference to a ConnectState that  *)
(* has finalised: if that failed, ~Socket closes the descriptor.           *)
IsDestroyed(a) == a \in finalised /\ a \notin ongoing /\ conns[a].status = "none"

UserReturns ==
  /\ Works /\ pc = "user"
  /\ pc' = IF current = Nobody THEN "idle" ELSE "events"
  /\ fd' = [a \in Attempts |-> IF a = current /\ IsDestroyed(a) THEN NoFd ELSE fd[a]]
  /\ UNCHANGED <<asked, group, ongoingConnections, asserted, finalised, answers, conns, pool, current, todo>>

(* TcpConnection::Close as far as the socket and the pool are concerned    *)
Close(c) ==
  /\ fd' = [fd EXCEPT ![c] = NoFd]
  /\ pool' = RemoveTcpConnection(pool, c, group[c])
  /\ conns' = [conns EXCEPT ![c].status = "Closed", ![c].active = FALSE]

(* A user closes any connection; the loop closes one that has failed, or a *)
(* retained one from which something is read, in handleKeepalivedRead.     *)
CloseConnection(c) ==
  /\ Works /\ pc \in {"user", "idle"} /\ IsOpen(c)
  /\ Close(c)
  /\ UNCHANGED <<asked, group, ongoingConnections, asserted, finalised, answers, loopVars>>

(* TcpConnection::Retain, Connector::RetainTcpConnection                   *)
Retain(c) ==
  /\ Works /\ pc = "user" /\ IsOpen(c) /\ conns[c].active
  /\ conns' = [conns EXCEPT ![c].active = FALSE]
  /\ UNCHANGED <<asked, group, mapVars, finalised, answers, pool, loopVars>>

SelectTcpConnection(g) ==
  /\ Works /\ pc = "user" /\ g \in pool.groups
  /\ \/ /\ pool.members[g] = {}
        /\ pool' = Selected(pool, g, FALSE)
        /\ UNCHANGED conns
     \/ \E c \in pool.members[g] :
          /\ pool' = Selected(pool, g, conns[c].active)
          /\ conns' = [conns EXCEPT ![c].active = TRUE]
  /\ UNCHANGED <<asked, group, mapVars, finalised, answers, loopVars>>

-----------------------------------------------------------------------------
User ==
  \/ RunTask \/ UserReturns
  \/ \E a \in Attempts : ConnectFails(a) \/ ConnectStarts(a) \/ ConnectRetries(a)
  \/ \E c \in Attempts : CloseConnection(c) \/ Retain(c)
  \/ \E g \in Groups : SelectTcpConnection(g)

ProcessEvents == HandleError \/ HandleWrite \/ SkipEvent \/ EventsDone

Next == User \/ ProcessEvents \/ \E a \in Attempts : Dispatch(a)

SafeSpec == Init /\ [][Next]_vars

(* Callbacks return, ProcessEvents goes on, and a connect() that has       *)
(* started ends some day: the kernel gives up sending SYNs. The loop is    *)
(* busy with others in between, but epoll_wait reports every socket that   *)
(* is ready sooner or later.                                               *)
Fairness ==
  /\ WF_vars(UserReturns)
  /\ WF_vars(ProcessEvents)
  /\ \A a \in Attempts : SF_vars(Dispatch(a))

Spec == SafeSpec /\ Fairness

-----------------------------------------------------------------------------
(* A user's callback is called once at most, even if an error and a write  *)
(* event arrive in the same batch and the user does what it likes between  *)
(* them; while an attempt is in ongoingConnections, it is not called.      *)
AnsweredOnce ==
  /\ \A a \in Attempts : answers[a] <= 1
  /\ \A a \in ongoing : answers[a] = 0

(* A ConnectState is found by a descriptor that is its own and still open, *)
(* although descriptors are used again by the next Connect, maybe in the   *)
(* very callback that has closed them, and finalise erases by descriptor   *)
(* when the socket has been moved away: no entry is another's, none is     *)
(* left behind, and Check never finds its place taken.                     *)
TracedByDescriptor ==
  /\ ~asserted
  /\ \A f \in Fds : LET a == ongoingConnections[f]
                     IN  a # Nobody => fd[a] = f /\ a \notin finalised
  /\ \A a, b \in Attempts : fd[a] = fd[b] /\ fd[a] # NoFd => a = b

(* What the test of Connect does guarantee at all times, however           *)
(* connections are opened and closed in between: the groups and the        *)
(* attempts under way are within the limit.                                *)
GroupsWithinLimit == GetConnNumber(pool) + Cardinality(ongoing) <= Limit

(* A connection is in the pool, in its own group and counted, from the     *)
(* moment it is made until it is closed.                                   *)
PoolHoldsOpenConnections ==
  /\ \A c \in Attempts : IsOpen(c) <=> c \in InPool(pool)
  /\ \A g \in Groups : \A c \in pool.members[g] : group[c] = g
  /\ pool.connectionsNumber = Cardinality(InPool(pool))

(* The assertions of AddTcpConnection and RemoveTcpConnection hold, however *)
(* connections are made, closed, retained and selected by callbacks.       *)
PoolAssertionsHold == ~pool.asserted

(* Every attempt whose connect() has started is answered (unless the       *)
(* assertion of SelectTcpConnection ends the process).                     *)
StartedIsAnswered ==
  \A a \in Attempts : a \in ongoing ~> answers[a] = 1 \/ pool.selectFailed

(* "callback() will always be called to inform the result"                 *)
(* (net/NetWorker.h:53)                                                    *)
AlwaysAnswered == \A a \in Attempts : a \in asked ~> answers[a] = 1
=============================================================================
