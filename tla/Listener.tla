------------------------------ MODULE Listener ------------------------------
(***************************************************************************)
(* net/Listener.{h,cpp} with Socket::Accept (net/Socket.cpp): peers wait   *)
(* in the backlog of the listening socket until handleAccept takes them,   *)
(* one at a time. Their connections are in the pool until they are closed. *)
(* All connections of the process share its descriptors.                   *)
(*                                                                         *)
(* epoll reports the listening socket as long as a peer waits. Socket      *)
(* Accept tells errors apart (IgnorableError, ConnectionsRunout,           *)
(* AcceptError), but handleAccept returns for all of them alike: when the  *)
(* descriptors have run out the loop reports the same peer again at once.  *)
(*                                                                         *)
(* accept4 is called with an address of length 0, and so writes none: the  *)
(* group of an accepted connection is whatever was on the stack, but stays *)
(* what it was as long as the connection lives. A connection's Index is    *)
(* its address in memory, which another may get when it is gone.           *)
(*                                                                         *)
(* What happens on a connection between accept and Close is in             *)
(* TcpConnection.                                                          *)
(***************************************************************************)
EXTENDS ConnectionPool, Sequences

CONSTANTS
  Connections,        \* peers, and the TcpConnections they lead to
  Groups,             \* remote addresses
  Limit,              \* connectionLimit
  NumFds              \* the descriptors there are for connections and others

ASSUME LimitAssumption == Limit \in Nat
ASSUME NumFdsAssumption == NumFds \in Nat
ASSUME FiniteAssumption == IsFiniteSet(Connections) /\ IsFiniteSet(Groups)

VARIABLES
  listening,          \* Listen has been called
  backlog,            \* the peers in the queue of the listening socket
  status,             \* of each TcpConnection
  group,              \* its GroupIndex
  pool,               \* the connections of TcpConnectionCreator
  free,               \* the number of free descriptors
  taken,              \* the number of those that others hold
  pc                  \* "loop": between two events; "user": in a callback

vars == <<listening, backlog, status, group, pool, free, taken, pc>>

TypeOK ==
  /\ listening \in BOOLEAN
  /\ backlog \in Seq(Connections)
  /\ status \in [Connections -> {"none", "waiting", "Established", "Closed"}]
  /\ group \in [Connections -> Groups]
  /\ pool \in PoolType(Connections, Groups)
  /\ free \in 0 .. NumFds
  /\ taken \in 0 .. NumFds
  /\ pc \in {"loop", "user"}

Init ==
  /\ listening = FALSE /\ backlog = <<>>
  /\ status = [c \in Connections |-> "none"]
  /\ group \in [Connections -> Groups]
  /\ pool = EmptyPool(Groups)
  /\ free = NumFds /\ taken = 0
  /\ pc = "loop"

Works == ~pool.asserted

Open == {c \in Connections : status[c] = "Established"}

-----------------------------------------------------------------------------
(* Listen, before the worker's thread is started                           *)
Listen ==
  /\ ~listening
  /\ listening' = TRUE
  /\ UNCHANGED <<backlog, status, group, pool, free, taken, pc>>

(* A peer connects: the kernel does without the process.                   *)
PeerConnects(c) ==
  /\ Works /\ listening /\ status[c] = "none"
  /\ status' = [status EXCEPT ![c] = "waiting"]
  /\ backlog' = Append(backlog, c)
  /\ UNCHANGED <<listening, group, pool, free, taken, pc>>

(* handleAccept: accept4 takes the first peer, which becomes c's, from the *)
(* backlog ...                                                             *)
Accepts(c) ==
  /\ Works /\ pc = "loop" /\ backlog # <<>> /\ c = Head(backlog)
  /\ backlog' = Tail(backlog)

(* ... and fails, as the peer has given up (ECONNABORTED, EPROTO, EPERM),  *)
PeerIsGone(c) ==
  /\ Accepts(c)
  /\ status' = [status EXCEPT ![c] = "none"]
  /\ UNCHANGED <<listening, group, pool, free, taken, pc>>

(* ... or finds the limit reached: ~Socket closes the descriptor that was  *)
(* accepted just now. The mutants do not, and look at the limit before     *)
(* they accept.                                                            *)
WithinLimit == GetConnNumber(pool) + 1 <= Limit

RefuseWithoutClose(c) ==
  /\ Accepts(c) /\ free > 0 /\ ~WithinLimit
  /\ status' = [status EXCEPT ![c] = "none"]
  /\ free' = free - 1
  /\ UNCHANGED <<listening, group, pool, taken, pc>>

RefuseWithoutAccept(c) ==
  /\ Accepts(c) /\ free > 0 /\ ~WithinLimit /\ FALSE
  /\ UNCHANGED <<listening, status, group, pool, free, taken, pc>>

Refuse(c) ==
  /\ Accepts(c) /\ free > 0 /\ ~WithinLimit
  /\ status' = [status EXCEPT ![c] = "none"]
  /\ UNCHANGED <<listening, group, pool, free, taken, pc>>

(* ... or makes a TcpConnection, puts it into the pool and hands it over   *)
(* to the user.                                                            *)
Establish(c) ==
  /\ Accepts(c) /\ free > 0 /\ WithinLimit
  /\ \E g \in Groups :
       /\ group' = [group EXCEPT ![c] = g]
       /\ pool' = AddTcpConnection(pool, c, g)
  /\ status' = [status EXCEPT ![c] = "Established"]
  /\ free' = free - 1
  /\ pc' = "user"
  /\ UNCHANGED <<listening, taken>>

(* EMFILE, ENFILE, EINTR, ENOMEM, ... change nothing, and the peer waits.  *)
handleAccept(c) == PeerIsGone(c) \/ Refuse(c) \/ Establish(c)

-----------------------------------------------------------------------------
(* Another event's callback: of a connection, a timer, a task, or of       *)
(* handleKeepalivedRead for a retained connection                          *)
CallUser ==
  /\ Works /\ pc = "loop"
  /\ pc' = "user"
  /\ UNCHANGED <<listening, backlog, status, group, pool, free, taken>>

UserReturns ==
  /\ Works /\ pc = "user"
  /\ pc' = "loop"
  /\ UNCHANGED <<listening, backlog, status, group, pool, free, taken>>

(* TcpConnection::Close, by a user, or by a handler that has met an error. *)
(* It asks for the status first; the mutant does not.                      *)
NeedsClosingAgain(c) == status[c] \in {"Established", "Closed"}
NeedsClosing(c) == status[c] = "Established"

Close(c) ==
  /\ Works /\ NeedsClosing(c)
  /\ status' = [status EXCEPT ![c] = "Closed"]
  /\ pool' = RemoveTcpConnection(pool, c, group[c])
  /\ free' = free + 1
  /\ UNCHANGED <<listening, backlog, group, taken, pc>>

(* The last reference to a closed connection goes, and its memory may be   *)
(* that of the next.                                                       *)
Destroy(c) ==
  /\ Works /\ status[c] = "Closed"
  /\ status' = [status EXCEPT ![c] = "none"]
  /\ UNCHANGED <<listening, backlog, group, pool, free, taken, pc>>

(* The Connector, files and other threads take descriptors and give them   *)
(* back.                                                                   *)
OthersOpen ==
  /\ Works /\ free > 0
  /\ free' = free - 1 /\ taken' = taken + 1
  /\ UNCHANGED <<listening, backlog, status, group, pool, pc>>

OthersClose ==
  /\ Works /\ taken > 0
  /\ free' = free + 1 /\ taken' = taken - 1
  /\ UNCHANGED <<listening, backlog, status, group, pool, pc>>

Next ==
  \/ Listen \/ CallUser \/ UserReturns \/ OthersOpen \/ OthersClose
  \/ \E c \in Connections :
       PeerConnects(c) \/ handleAccept(c) \/ Close(c) \/ Destroy(c)

SafeSpec == Init /\ [][Next]_vars

(* Callbacks return, and epoll_wait reports the listening socket again and *)
(* again. Other errors of accept4 than the want of descriptors do not last;*)
(* that a peer gives up is not relied on.                                  *)
Fairness ==
  /\ WF_vars(UserReturns)
  /\ SF_vars(\E c \in Connections : Refuse(c) \/ Establish(c))

Spec == SafeSpec /\ Fairness

-----------------------------------------------------------------------------
(* The three that have to agree on the connections that are open, whatever *)
(* peers come and go, are refused for the limit or for want of             *)
(* descriptors, and whatever memory is used again: the TcpConnections      *)
(* themselves, the pool (each in the group it will be looked for by        *)
(* Close), and the process' descriptors, none of which is lost.            *)
ConnectionsAccountedFor ==
  /\ InPool(pool) = Open
  /\ \A g \in Groups : \A c \in pool.members[g] : group[c] = g
  /\ pool.connectionsNumber = Cardinality(Open)
  /\ free + taken + Cardinality(Open) = NumFds

(* As long as there is a descriptor again and again when the loop comes to *)
(* its listening socket, no peer waits in the backlog for ever, limit or   *)
(* no limit: those over it are not left to wait.                           *)
PeersAreServed ==
  []<>(free > 0 /\ pc = "loop") =>
    \A c \in Connections : status[c] = "waiting" ~> status[c] # "waiting"
=============================================================================
