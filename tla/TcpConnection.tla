--------------------------- MODULE TcpConnection ----------------------------
(***************************************************************************)
(* net/TcpConnection.{h,cpp}, and the Listener (net/Listener.cpp) as the   *)
(* creator that accepts connections and watches the retained ones.         *)
(*                                                                         *)
(* A user asks a connection to read (SetReadCallback) or to write (Send)   *)
(* and is called back once the event loop reports the event; it may ask    *)
(* again from inside the callback, and close or retain any connection.     *)
(* epoll_wait takes down the events of all connections at once; by the     *)
(* time a connection's turn comes, callbacks of others may have changed    *)
(* it, and its own error and read handlers run before its write handler.   *)
(*                                                                         *)
(* Every handler ends with the user's callback and does nothing after it,  *)
(* so that a callback is a turn of the user that begins when the handler   *)
(* ends; a request that is answered at once prolongs the turn.             *)
(*                                                                         *)
(* readTimer and writeTimer are reset and updated but never added to their *)
(* TimerQueue: the handlers of timeouts never run, and are left out. What  *)
(* the buffers hold is in ConnectionBuffers; here there is something to    *)
(* send or not, and room for what is to be read or not. What Channels and  *)
(* epoll do is in EventCycle: a connection that waits for events is in     *)
(* epoll with just these events.                                           *)
(*                                                                         *)
(* An operation on a connection is a function from its record to the next. *)
(***************************************************************************)
EXTENDS FiniteSets

CONSTANTS Connections, Nobody

ASSUME NobodyAssumption == Nobody \notin Connections

VARIABLES
  conn,               \* the TcpConnections, see ConnectionType
  pc,                 \* "loop": between two channels; "events": in ProcessEvents;
                      \* "user": in a user's callback
  revents,            \* of the batch that is still to be dispatched
  current,            \* the connection whose events are being dispatched
  todo                \* those that ProcessEvents has still to test

vars == <<conn, pc, revents, current, todo>>

IO == {"read", "write"}
Events == IO \cup {"error"}

(* owed: the requests that were not yet answered; twice: those that were   *)
(* answered when they were not owed (both are history). failed: the        *)
(* assertion that a step has met, if any.                                  *)
ConnectionType == [
  status : {"none", "Established", "PeerClosed", "Closed"},
  active : BOOLEAN,
  events : SUBSET IO,                                  \* of its channel
  readAvailableCallback : {"none", "user", "keepalive"},
  full : BOOLEAN,                                      \* no room is left in readBuf
  unsent : BOOLEAN,                                    \* data in writeBufChain
  owed : SUBSET IO,
  twice : SUBSET IO,
  failed : {"no", "GetError", "handleKeepalivedRead", "Channel", "SetReadCallback"}]

TypeOK ==
  /\ conn \in [Connections -> ConnectionType]
  /\ pc \in {"loop", "events", "user"}
  /\ revents \in [Connections -> SUBSET Events]
  /\ current \in Connections \cup {Nobody}
  /\ todo \subseteq Events

NoConnection ==
  [status |-> "none", active |-> FALSE, events |-> {}, readAvailableCallback |-> "none",
   full |-> FALSE, unsent |-> FALSE, owed |-> {}, twice |-> {}, failed |-> "no"]

Init ==
  /\ conn = [c \in Connections |-> NoConnection]
  /\ pc = "loop"
  /\ revents = [c \in Connections |-> {}]
  /\ current = Nobody /\ todo = {}

-----------------------------------------------------------------------------
Close(r) ==
  IF r.status = "Closed" THEN r
  ELSE [r EXCEPT !.status = "Closed", !.active = FALSE, !.events = {}, !.unsent = FALSE]

(* EnableReading, EnableWriting. The mutant asks for CEEVENT as well, as    *)
(* lines do that are commented out in the constructor of Channel.          *)
EnableWithError(r, kind) == [r EXCEPT !.events = @ \cup {kind, "error"}]

Enable(r, kind) == [r EXCEPT !.events = @ \cup {kind}]

(* DisableReading, DisableWriting. A channel that is left with no events   *)
(* has to be "Set", which it is when it had some.                          *)
Disable(r, kind) ==
  [r EXCEPT !.events = @ \ {kind},
            !.failed = IF r.events = {} THEN "Channel" ELSE @]

DisableIfSet(r, kind) == IF kind \in r.events THEN Disable(r, kind) ELSE r

(* A callback is called; if the request is not owed any more, once more.   *)
Answer(r, kind) ==
  [r EXCEPT !.owed = @ \ {kind}, !.twice = IF kind \in r.owed THEN @ ELSE @ \cup {kind}]

(* Listener::handleKeepalivedRead, up to its call of the user              *)
HandleKeepalivedRead(r, good) ==
  IF r.active \/ (~good /\ r.status = "Established") THEN [r EXCEPT !.failed = "handleKeepalivedRead"]
  ELSE IF good THEN [r EXCEPT !.active = TRUE]
  ELSE Close(r)

(* readAvailableCallback is called, with NoError or an error.              *)
AnswerRead(r, good) ==
  IF r.readAvailableCallback = "keepalive" THEN HandleKeepalivedRead(Answer(r, "read"), good)
                                           ELSE Answer(r, "read")

(* SetReadCallback, by the user or by the Listener for itself. "we assume  *)
(* caller will read all the data before the next call of SetReadCallback()"*)
(* (TcpConnection.h:115): it asserts that there is room again.             *)
SetReadCallback(r, callback) ==
  LET q == [r EXCEPT !.readAvailableCallback = callback, !.owed = @ \cup {"read"}]
  IN  IF r.full THEN [r EXCEPT !.failed = "SetReadCallback"]
      ELSE IF r.status # "Established" THEN AnswerRead(q, FALSE)
      ELSE Enable(q, "read")

(* Retain, Listener::RetainTcpConnection. The mutant leaves it to the user *)
(* to look at the connection.                                              *)
RetainUnwatched(r) == [r EXCEPT !.active = FALSE]
Retain(r) == SetReadCallback([r EXCEPT !.active = FALSE], "keepalive")

(* handleRead, ReadFd having read something and left room in readBuf,      *)
(* something that fills it, nothing for now (an ignorable error), the end, *)
(* or an error.                                                            *)
AfterRead(r, outcome) ==
  IF outcome = "end" THEN [r EXCEPT !.status = "PeerClosed"]
                     ELSE [r EXCEPT !.full = (outcome = "fill")]

(* Mutants of HandleRead: it keeps on reading after an ignorable error, or *)
(* disables what Close has disabled.                                       *)
KeepReading(r, outcome) ==
  IF r.status # "Established" THEN AnswerRead(DisableIfSet(r, "read"), FALSE)
  ELSE IF outcome = "error" THEN AnswerRead(Close(r), FALSE)
  ELSE IF outcome = "ignorable" THEN AnswerRead(r, FALSE)
  ELSE AnswerRead(Disable(AfterRead(r, outcome), "read"), outcome \in {"data", "fill"})

DisableAnyway(r, outcome) ==
  AnswerRead(Disable(AfterRead(r, outcome), "read"),
             r.status = "Established" /\ outcome \in {"data", "fill"})

HandleRead(r, outcome) ==
  IF r.status # "Established" THEN AnswerRead(DisableIfSet(r, "read"), FALSE)
  ELSE IF outcome = "error" THEN AnswerRead(Close(r), FALSE)
  ELSE AnswerRead(Disable(AfterRead(r, outcome), "read"), outcome \in {"data", "fill"})

ReadOutcomes == {"data", "fill", "ignorable", "end", "error"}
ReadCallsUser(r, q) == r.readAvailableCallback = "user" \/ q.active

(* handleWrite, the kernel having taken all, less than all, or refused. Of *)
(* nothing it takes nothing, and that is not all.                          *)
Sends(r, outcome) == r.status = "Established" /\ outcome = "all" /\ r.unsent
Waits(r, outcome) ==
  r.status = "Established" /\ (outcome = "less" \/ (outcome = "all" /\ ~r.unsent))

(* The mutant writes once and does not wait for the event.                 *)
WriteOnce(r, outcome) ==
  IF r.status # "Established" THEN Answer(DisableIfSet(r, "write"), "write")
  ELSE IF Sends(r, outcome)
    THEN Answer(DisableIfSet([r EXCEPT !.unsent = FALSE], "write"), "write")
  ELSE IF Waits(r, outcome) THEN r
  ELSE Answer(Close(r), "write")

HandleWrite(r, outcome) ==
  IF r.status # "Established" THEN Answer(DisableIfSet(r, "write"), "write")
  ELSE IF Sends(r, outcome)
    THEN Answer(DisableIfSet([r EXCEPT !.unsent = FALSE], "write"), "write")
  ELSE IF Waits(r, outcome) THEN Enable(r, "write")
  ELSE Answer(Close(r), "write")

WriteOutcomes(r) == {"all", "less"} \cup (IF r.unsent THEN {"error"} ELSE {})

(* Send. The mutant waits for the event even if all was sent at once.      *)
SendLater(r, outcome) ==
  LET q == HandleWrite([r EXCEPT !.owed = @ \cup {"write"}], outcome)
  IN  IF q.status = "Established" THEN Enable(q, "write") ELSE q

Send(r, outcome) == HandleWrite([r EXCEPT !.owed = @ \cup {"write"}], outcome)

(* handleError: getsockopt needs a socket that is still open.              *)
HandleError(r) ==
  IF r.status = "Closed" THEN [r EXCEPT !.failed = "GetError"] ELSE Close(r)

-----------------------------------------------------------------------------
Running == \A c \in Connections : conn[c].failed = "no"

(* The user runs in callbacks of connections, and between two channels in  *)
(* those of others (timers, tasks). It asks for one thing of a kind at a   *)
(* time: Set...Callback and Send assert that.                              *)
UserRuns == Running /\ pc \in {"loop", "user"}
Exists(c) == conn[c].status # "none"

(* A user does not touch what it has retained, but may not know that a     *)
(* connection is closed: requests are answered at once then.               *)
InHands(c) == conn[c].active \/ conn[c].status = "Closed"

Becomes(c, r) == conn' = [conn EXCEPT ![c] = r]
StaysInTurn == UNCHANGED <<pc, revents, current, todo>>

(* Listener::handleAccept, a callback of another channel                   *)
Accept(c) ==
  /\ Running /\ pc = "loop" /\ ~Exists(c)
  /\ Becomes(c, [NoConnection EXCEPT !.status = "Established", !.active = TRUE])
  /\ pc' = "user"
  /\ UNCHANGED <<revents, current, todo>>

UserReads(c) ==
  /\ UserRuns /\ InHands(c) /\ "read" \notin conn[c].events
  /\ Becomes(c, SetReadCallback(conn[c], "user"))
  /\ StaysInTurn

(* GetReadBuffer and Retrive or MarkProcessed                              *)
UserTakes(c) ==
  /\ UserRuns /\ InHands(c) /\ conn[c].full
  /\ Becomes(c, [conn[c] EXCEPT !.full = FALSE])
  /\ StaysInTurn

(* GetWriteBuffer and Append                                               *)
UserWrites(c) ==
  /\ UserRuns /\ conn[c].active /\ ~conn[c].unsent /\ "write" \notin conn[c].events
  /\ Becomes(c, [conn[c] EXCEPT !.unsent = TRUE])
  /\ StaysInTurn

UserSends(c) ==
  /\ UserRuns /\ InHands(c) /\ "write" \notin conn[c].events
  /\ \E outcome \in WriteOutcomes(conn[c]) : Becomes(c, Send(conn[c], outcome))
  /\ StaysInTurn

UserRetains(c) ==
  /\ UserRuns /\ InHands(c) /\ "read" \notin conn[c].events
  /\ Becomes(c, Retain(conn[c]))
  /\ StaysInTurn

UserCloses(c) ==
  /\ UserRuns /\ Exists(c)
  /\ conn[c].status # "Closed"
  /\ Becomes(c, Close(conn[c]))
  /\ StaysInTurn

(* The last shared_ptr to a closed connection goes: its channel is gone    *)
(* from the batch. A handler that is running holds another.                *)
Release(c) ==
  /\ UserRuns /\ conn[c].status = "Closed" /\ current # c
  /\ Becomes(c, NoConnection)
  /\ revents' = [revents EXCEPT ![c] = {}]
  /\ UNCHANGED <<pc, current, todo>>

UserReturns ==
  /\ Running /\ pc = "user"
  /\ pc' = IF current = Nobody THEN "loop" ELSE "events"
  /\ UNCHANGED <<conn, revents, current, todo>>

-----------------------------------------------------------------------------
currentChannels == {c \in Connections : revents[c] # {}}

(* epoll_wait: some of the events asked for, or an error                   *)
Reportable(c) ==
  IF conn[c].events = {} THEN {{}} ELSE SUBSET (conn[c].events \cup {"error"})

Poll ==
  /\ Running /\ pc = "loop" /\ currentChannels = {}
  /\ revents' \in [Connections -> SUBSET Events]
  /\ \A c \in Connections : revents'[c] \in Reportable(c)
  /\ UNCHANGED <<conn, pc, current, todo>>

Dispatch(c) ==
  /\ Running /\ pc = "loop" /\ c \in currentChannels
  /\ current' = c
  /\ todo' = revents[c]
  /\ pc' = "events"
  /\ revents' = [revents EXCEPT ![c] = {}]
  /\ UNCHANGED conn

(* ProcessEvents tests for an error, for reading, for writing.             *)
Earlier == [error |-> {}, read |-> {"error"}, write |-> {"error", "read"}]

Turn(kind) ==
  /\ Running /\ pc = "events"
  /\ kind \in todo /\ todo \cap Earlier[kind] = {}
  /\ todo' = todo \ {kind}
  /\ UNCHANGED <<revents, current>>

ErrorEvent ==
  /\ Turn("error")
  /\ Becomes(current, HandleError(conn[current]))
  /\ UNCHANGED pc

ReadEvent(outcome) ==
  /\ Turn("read")
  /\ Becomes(current, HandleRead(conn[current], outcome))
  /\ pc' = IF ReadCallsUser(conn[current], conn'[current]) THEN "user" ELSE pc

WriteEvent(outcome) ==
  /\ Turn("write") /\ outcome \in WriteOutcomes(conn[current])
  /\ Becomes(current, HandleWrite(conn[current], outcome))
  /\ pc' = IF Waits(conn[current], outcome) THEN pc ELSE "user"

EventsDone ==
  /\ Running /\ pc = "events" /\ todo = {}
  /\ pc' = "loop" /\ current' = Nobody
  /\ UNCHANGED <<conn, revents, todo>>

User ==
  \/ \E c \in Connections : Accept(c) \/ UserReads(c) \/ UserWrites(c) \/ UserSends(c)
  \/ \E c \in Connections : UserTakes(c) \/ UserRetains(c) \/ UserCloses(c) \/ Release(c)
  \/ UserReturns

ProcessEvents ==
  \/ ErrorEvent
  \/ \E outcome \in ReadOutcomes : ReadEvent(outcome)
  \/ \E outcome \in {"all", "less", "error"} : WriteEvent(outcome)
  \/ EventsDone

Next == User \/ Poll \/ (\E c \in Connections : Dispatch(c)) \/ ProcessEvents

SafeSpec == Init /\ [][Next]_vars

(* The loop goes on and callbacks return. A peer that keeps its side open  *)
(* reads: the socket becomes writable again and again, and some write to   *)
(* it takes all that is left.                                              *)
Fairness ==
  /\ WF_vars(UserReturns) /\ WF_vars(ProcessEvents)
  /\ SF_vars(\E c \in Connections : Dispatch(c))
  /\ \A c \in Connections :
       /\ SF_vars(Poll /\ "write" \in revents'[c])
       /\ SF_vars(WriteEvent("all") /\ current = c)

Spec == SafeSpec /\ Fairness

-----------------------------------------------------------------------------
(* A connection waits for an event exactly if somebody waits to be called: *)
(* with one of them missing the user hangs, or the loop calls back for     *)
(* something nobody has asked for. (Only Close forgets requests.)          *)
WaitingMeansWatched ==
  \A c \in Connections : conn[c].status # "Closed" => conn[c].events = conn[c].owed

(* A request is answered once. Only on a closed connection, where Send     *)
(* answers at once, can the write event of a batch that is still being     *)
(* dispatched answer it again.                                             *)
TwiceOnlyWhenClosed ==
  \A c \in Connections : conn[c].twice # {} => conn[c].status = "Closed"

(* Retain "should set read callback to monitor its status all the time"    *)
(* (TcpConnection.h:110): no open connection is idle and unwatched, but one *)
(* whose reading ended in handleKeepalivedRead's assertion.                *)
RetainedAreMonitored ==
  \A c \in Connections :
    conn[c].status \in {"Established", "PeerClosed"} /\ ~conn[c].active /\ conn[c].failed = "no" =>
      "read" \in conn[c].events /\ conn[c].readAvailableCallback = "keepalive"

(* DisableReading and DisableWriting find the channel in epoll, in any     *)
(* order of events, closes and stale events.                               *)
ChannelAssertionsHold == \A c \in Connections : conn[c].failed # "Channel"

(* A Send of something is answered in the end, unless the connection stops *)
(* being Established (or an assertion fails, of this connection or of      *)
(* another).                                                               *)
SendsEnd ==
  \A c \in Connections :
    ("write" \in conn[c].owed /\ conn[c].unsent)
      ~> ("write" \notin conn[c].owed \/ conn[c].status # "Established" \/ ~Running)

(* "assert(Valid())" of Socket::GetError (Socket.cpp:70), in handleError   *)
SocketIsValid == \A c \in Connections : conn[c].failed # "GetError"

(* "writeFinishedCallback will be called immediately if writeBuf is empty" *)
(* (TcpConnection.h:124)                                                   *)
EmptySendIsAnswered ==
  \A c \in Connections :
    ("write" \in conn[c].owed /\ ~conn[c].unsent)
      ~> ("write" \notin conn[c].owed \/ conn[c].status # "Established" \/ ~Running)
=============================================================================
