-------------------------- MODULE EventCycleProofs --------------------------
(***************************************************************************)
(* What the event cycle guarantees for any number of channels and          *)
(* descriptors.                                                            *)
(***************************************************************************)
EXTENDS EventCycle, TLAPS

(* The inductive invariant. Every operation of an owner leads from a sound *)
(* cycle to a sound cycle; in the middle of one the cycle may be unsound.  *)

(* What has been constructed has a descriptor, nothing else has a history. *)
BornSound(r) ==
  /\ r.owned \subseteq r.born /\ r.closed \subseteq r.born
  /\ \A c \in Channels : r.status[c] # "New" => c \in r.born
  /\ \A c \in r.born : r.fd[c] \in Fds

(* Status tells the truth: "New" is a closed channel, "Set" one that epoll *)
(* watches for an owner, and only such a one has events.                   *)
StatusSound(r) ==
  /\ \A c \in r.born : r.status[c] = "New" <=> c \in r.closed
  /\ \A c \in Channels :
       /\ r.status[c] = "Set" =>
            c \in r.owned /\ r.epoll[r.fd[c]].ptr = c /\ r.events[c] # {}
       /\ r.status[c] # "Set" => r.events[c] = {}

(* What epoll knows of a descriptor is what its channel wants.             *)
EpollSound(r) ==
  \A f \in Fds :
    /\ r.epoll[f].ptr = NoChannel => r.epoll[f].mask = {}
    /\ r.epoll[f].ptr # NoChannel =>
         /\ r.fd[r.epoll[f].ptr] = f
         /\ r.status[r.epoll[f].ptr] = "Set"
         /\ r.epoll[f].mask = r.events[r.epoll[f].ptr]

(* An open descriptor has one owner.                                       *)
OwnersSound(r) ==
  /\ \A c \in r.owned \ r.closed :
       /\ r.fd[c] \in r.open
       /\ \A d \in r.owned \ r.closed : r.fd[c] = r.fd[d] => c = d
  /\ \A f \in r.open : \E c \in r.owned \ r.closed : r.fd[c] = f

(* allChannelsMap holds the channels that are not closed, the abandoned    *)
(* ones included.                                                          *)
MapSound(r) ==
  ~r.asserted =>
    /\ \A c \in r.born \ r.closed : r.map[r.fd[c]] = c
    /\ \A f \in Fds : r.map[f] # NoChannel => r.map[f] \in r.born \ r.closed /\ r.fd[r.map[f]] = f

Sound(r) ==
  /\ r \in Cycle
  /\ BornSound(r) /\ StatusSound(r) /\ EpollSound(r) /\ OwnersSound(r) /\ MapSound(r)
  /\ ~r.ctlFailed

-----------------------------------------------------------------------------
(* The operations keep the type of the cycle.                              *)
LEMMA OperationTypes ==
  ASSUME NEW r \in Cycle, NEW c \in Channels
  PROVE  /\ \A condition \in BOOLEAN : Require(r, condition) \in Cycle
         /\ \A opt \in {"ADD", "MOD", "DEL"} : UpdateEpoll(r, opt, c) \in Cycle
         /\ \A f \in Fds, role \in Roles : Construct(r, c, f, role) \in Cycle
         /\ \A kinds \in SUBSET Events : SetCallbacks(r, c, kinds) \in Cycle
         /\ CloseFd(r, c) \in Cycle
         /\ Drop(r, c) \in Cycle
<1> USE DEF Cycle
<1>1. \A condition \in BOOLEAN : Require(r, condition) \in Cycle
  BY DEF Require
<1>2. \A opt \in {"ADD", "MOD", "DEL"} : UpdateEpoll(r, opt, c) \in Cycle
  BY DEF UpdateEpoll, Unwatched
<1>3. \A f \in Fds, role \in Roles : Construct(r, c, f, role) \in Cycle
  BY DEF Construct
<1>4. \A kinds \in SUBSET Events : SetCallbacks(r, c, kinds) \in Cycle
  BY DEF SetCallbacks
<1>5. CloseFd(r, c) \in Cycle
  BY DEF CloseFd, Unwatched
<1>6. Drop(r, c) \in Cycle
  BY DEF Drop
<1>7. QED
  BY <1>1, <1>2, <1>3, <1>4, <1>5, <1>6

(* What an operation on channel c leaves alone                             *)
SameOwners(q, r) ==
  /\ q.born = r.born /\ q.owned = r.owned /\ q.closed = r.closed /\ q.open = r.open
  /\ q.role = r.role /\ q.fd = r.fd /\ q.callbacks = r.callbacks /\ q.map = r.map

(* updateEpoll when epoll_ctl accepts it                                   *)
LEMMA EpollAdd ==
  ASSUME NEW r \in Cycle, NEW c \in Channels,
         r.fd[c] \in Fds, r.fd[c] \in r.open, r.epoll[r.fd[c]] = Unwatched,
         NEW q, q = UpdateEpoll(r, "ADD", c)
  PROVE  /\ q \in Cycle /\ SameOwners(q, r)
         /\ q.status = r.status /\ q.events = r.events
         /\ q.epoll = [r.epoll EXCEPT ![r.fd[c]] = [ptr |-> c, mask |-> r.events[c]]]
         /\ q.ctlFailed = r.ctlFailed /\ q.asserted = r.asserted
<1> DEFINE entry == [ptr |-> c, mask |-> r.events[c]]
<1>1. q \in Cycle
  BY OperationTypes
<1>2. q = [r EXCEPT !.epoll[r.fd[c]] = entry]
  BY DEF UpdateEpoll
<1> HIDE DEF entry
<1>3. SameOwners(q, r)
  BY <1>2 DEF SameOwners, Cycle
<1>4. q.status = r.status /\ q.events = r.events
  BY <1>2 DEF Cycle
<1>5. q.epoll = [r.epoll EXCEPT ![r.fd[c]] = entry]
  BY <1>2 DEF Cycle
<1>6. q.ctlFailed = r.ctlFailed /\ q.asserted = r.asserted
  BY <1>2 DEF Cycle
<1>7. QED
  BY <1>1, <1>3, <1>4, <1>5, <1>6 DEF entry

LEMMA EpollMod ==
  ASSUME NEW r \in Cycle, NEW c \in Channels,
         r.fd[c] \in Fds, r.fd[c] \in r.open, r.epoll[r.fd[c]] # Unwatched,
         NEW q, q = UpdateEpoll(r, "MOD", c)
  PROVE  /\ q \in Cycle /\ SameOwners(q, r)
         /\ q.status = r.status /\ q.events = r.events
         /\ q.epoll = [r.epoll EXCEPT ![r.fd[c]] = [ptr |-> c, mask |-> r.events[c]]]
         /\ q.ctlFailed = r.ctlFailed /\ q.asserted = r.asserted
<1> DEFINE entry == [ptr |-> c, mask |-> r.events[c]]
<1>1. q \in Cycle
  BY OperationTypes
<1>2. q = [r EXCEPT !.epoll[r.fd[c]] = entry]
  BY DEF UpdateEpoll
<1> HIDE DEF entry
<1>3. SameOwners(q, r)
  BY <1>2 DEF SameOwners, Cycle
<1>4. q.status = r.status /\ q.events = r.events
  BY <1>2 DEF Cycle
<1>5. q.epoll = [r.epoll EXCEPT ![r.fd[c]] = entry]
  BY <1>2 DEF Cycle
<1>6. q.ctlFailed = r.ctlFailed /\ q.asserted = r.asserted
  BY <1>2 DEF Cycle
<1>7. QED
  BY <1>1, <1>3, <1>4, <1>5, <1>6 DEF entry

LEMMA EpollDel ==
  ASSUME NEW r \in Cycle, NEW c \in Channels,
         r.fd[c] \in Fds, r.fd[c] \in r.open, r.epoll[r.fd[c]] # Unwatched,
         NEW q, q = UpdateEpoll(r, "DEL", c)
  PROVE  /\ q \in Cycle /\ SameOwners(q, r)
         /\ q.status = r.status /\ q.events = r.events
         /\ q.epoll = [r.epoll EXCEPT ![r.fd[c]] = Unwatched]
         /\ q.ctlFailed = r.ctlFailed /\ q.asserted = r.asserted
<1> DEFINE entry == Unwatched
<1>1. q \in Cycle
  BY OperationTypes
<1>2. q = [r EXCEPT !.epoll[r.fd[c]] = entry]
  BY DEF UpdateEpoll
<1> HIDE DEF entry
<1>3. SameOwners(q, r)
  BY <1>2 DEF SameOwners, Cycle
<1>4. q.status = r.status /\ q.events = r.events
  BY <1>2 DEF Cycle
<1>5. q.epoll = [r.epoll EXCEPT ![r.fd[c]] = entry]
  BY <1>2 DEF Cycle
<1>6. q.ctlFailed = r.ctlFailed /\ q.asserted = r.asserted
  BY <1>2 DEF Cycle
<1>7. QED
  BY <1>1, <1>3, <1>4, <1>5, <1>6 DEF entry

(* An assertion that holds changes nothing, and one that fails only that.  *)
LEMMA Asserting ==
  ASSUME NEW r \in Cycle, NEW condition \in BOOLEAN, NEW q, q = Require(r, condition)
  PROVE  /\ condition => q = r
         /\ q \in Cycle /\ SameOwners(q, r)
         /\ q.status = r.status /\ q.events = r.events /\ q.epoll = r.epoll
         /\ q.ctlFailed = r.ctlFailed /\ q.asserted = (r.asserted \/ ~condition)
<1>1. condition => Require(r, condition) = r
  BY DEF Require, Cycle
<1>2. q \in Cycle
  BY DEF Require, Cycle
<1>3. SameOwners(q, r)
  BY DEF Require, Cycle, SameOwners
<1>4. /\ q.status = r.status /\ q.events = r.events /\ q.epoll = r.epoll
      /\ q.ctlFailed = r.ctlFailed /\ q.asserted = (r.asserted \/ ~condition)
  BY DEF Require, Cycle
<1>5. QED
  BY <1>1, <1>2, <1>3, <1>4

WithEvents(r, c, some) == [r EXCEPT !.events[c] = some]
WithStatus(r, c, st) == [r EXCEPT !.status[c] = st]

LEMMA ChangingEvents ==
  ASSUME NEW r \in Cycle, NEW c \in Channels, NEW some \in SUBSET IO,
         NEW p, p = WithEvents(r, c, some)
  PROVE  /\ p \in Cycle /\ SameOwners(p, r)
         /\ p.status = r.status /\ p.events = [r.events EXCEPT ![c] = some] /\ p.events[c] = some
         /\ p.epoll = r.epoll /\ p.ctlFailed = r.ctlFailed /\ p.asserted = r.asserted
<1> USE DEF WithEvents
<1>1. p \in Cycle
  BY DEF Cycle
<1>2. SameOwners(p, r)
  BY DEF SameOwners, Cycle
<1>3. /\ p.status = r.status /\ p.events = [r.events EXCEPT ![c] = some] /\ p.events[c] = some
      /\ p.epoll = r.epoll /\ p.ctlFailed = r.ctlFailed /\ p.asserted = r.asserted
  BY DEF Cycle
<1>4. QED
  BY <1>1, <1>2, <1>3

LEMMA ChangingStatus ==
  ASSUME NEW r \in Cycle, NEW c \in Channels, NEW st \in Status,
         NEW p, p = WithStatus(r, c, st)
  PROVE  /\ p \in Cycle /\ SameOwners(p, r)
         /\ p.status = [r.status EXCEPT ![c] = st] /\ p.events = r.events
         /\ p.epoll = r.epoll /\ p.ctlFailed = r.ctlFailed /\ p.asserted = r.asserted
<1> USE DEF WithStatus
<1>1. p \in Cycle
  BY DEF Cycle
<1>2. SameOwners(p, r)
  BY DEF SameOwners, Cycle
<1>3. /\ p.status = [r.status EXCEPT ![c] = st] /\ p.events = r.events
      /\ p.epoll = r.epoll /\ p.ctlFailed = r.ctlFailed /\ p.asserted = r.asserted
  BY DEF Cycle
<1>4. QED
  BY <1>1, <1>2, <1>3

(* What update() has to make of it when the events of c become some: a     *)
(* channel that wants none leaves epoll.                                   *)
Changed(q, r, c, some) ==
  /\ SameOwners(q, r)
  /\ q.status = [r.status EXCEPT ![c] = IF some = {} THEN "Removed" ELSE "Set"]
  /\ q.events = [r.events EXCEPT ![c] = some]
  /\ q.epoll = [r.epoll EXCEPT ![r.fd[c]] =
                  IF some = {} THEN Unwatched ELSE [ptr |-> c, mask |-> some]]
  /\ q.ctlFailed = r.ctlFailed

(* Of an owner's channel: it is in epoll if and only if it is Set.         *)
LEMMA OwnersChannel ==
  ASSUME NEW r, Sound(r), NEW c \in r.owned \ r.closed
  PROVE  /\ r \in Cycle /\ c \in Channels /\ c \in r.born
         /\ r.fd[c] \in Fds /\ r.fd[c] \in r.open
         /\ r.status[c] \in {"Set", "Removed"}
         /\ r.status[c] = "Set" => r.epoll[r.fd[c]] # Unwatched
         /\ r.status[c] = "Removed" => r.epoll[r.fd[c]] = Unwatched
<1> DEFINE f == r.fd[c]
           d == r.epoll[f].ptr
<1>1. r \in Cycle /\ c \in Channels /\ c \in r.born /\ f \in Fds /\ f \in r.open
  BY DEF Sound, BornSound, OwnersSound, Cycle
<1>2. r.status[c] \in {"Set", "Removed"}
  BY <1>1 DEF Sound, StatusSound, Cycle, Status
<1>3. r.status[c] = "Set" => r.epoll[f] # Unwatched
  BY <1>1, NoChannelAssumption DEF Sound, StatusSound, Unwatched
<1>4. ASSUME r.status[c] = "Removed"
      PROVE  r.epoll[f] = Unwatched
  <2>1. ASSUME d # NoChannel
        PROVE  FALSE
    <3>1. d \in Channels /\ r.fd[d] = f /\ r.status[d] = "Set"
      BY <1>1, <2>1 DEF Sound, EpollSound, Cycle
    <3>2. d \in r.owned \ r.closed
      BY <1>1, <3>1 DEF Sound, StatusSound, BornSound
    <3>3. QED
      BY <1>4, <3>1, <3>2 DEF Sound, OwnersSound
  <2>2. r.epoll[f].mask = {}
    BY <1>1, <2>1 DEF Sound, EpollSound
  <2>3. QED
    BY <1>1, <2>1, <2>2 DEF Unwatched, Cycle
<1>5. QED
  BY <1>1, <1>2, <1>3, <1>4

(* update() with some events: ADD or MOD                                   *)
LEMMA Updating ==
  ASSUME NEW r, Sound(r), NEW c \in r.owned \ r.closed, NEW some \in SUBSET IO, some # {},
         NEW q, q = UpdateChannel([r EXCEPT !.events[c] = some], c)
  PROVE  q \in Cycle /\ Changed(q, r, c, some) /\ q.asserted = r.asserted
<1> DEFINE p == WithEvents(r, c, some)
           s == WithStatus(p, c, "Set")
<1>1. r \in Cycle /\ c \in Channels
  BY OwnersChannel
<1>2. /\ r.fd[c] \in Fds /\ r.fd[c] \in r.open /\ r.status[c] \in {"Set", "Removed"}
      /\ r.status[c] = "Set" => r.epoll[r.fd[c]] # Unwatched
      /\ r.status[c] = "Removed" => r.epoll[r.fd[c]] = Unwatched
  BY OwnersChannel
<1>3. q = UpdateChannel(p, c)
  BY DEF WithEvents
<1> HIDE DEF p
<1>4. p \in Cycle /\ SameOwners(p, r)
  BY <1>1, ChangingEvents DEF p
<1>5. /\ p.status = r.status /\ p.events = [r.events EXCEPT ![c] = some]
      /\ p.epoll = r.epoll /\ p.ctlFailed = r.ctlFailed /\ p.asserted = r.asserted
  BY <1>1, ChangingEvents DEF p
<1>6. p.events[c] = some /\ p.status[c] = r.status[c]
  BY <1>1, <1>5 DEF Cycle
<1>7. p.fd[c] \in Fds /\ p.fd[c] \in p.open /\ p.epoll[p.fd[c]] = r.epoll[r.fd[c]]
  BY <1>2, <1>4, <1>5 DEF SameOwners
<1>8. q = PollerUpdateChannel(p, c)
  BY <1>2, <1>3, <1>6 DEF UpdateChannel
<1>9. CASE r.status[c] = "Set"
  <2>1. Require(p, p.events[c] # {}) = p
    BY <1>4, <1>6, Asserting
  <2>2. q = UpdateEpoll(p, "MOD", c)
    BY <1>6, <1>8, <1>9, <2>1 DEF PollerUpdateChannel
  <2>3. p.epoll[p.fd[c]] # Unwatched
    BY <1>2, <1>7, <1>9
  <2>4. /\ q \in Cycle /\ SameOwners(q, p)
        /\ q.status = p.status /\ q.events = p.events
        /\ q.epoll = [p.epoll EXCEPT ![p.fd[c]] = [ptr |-> c, mask |-> p.events[c]]]
        /\ q.ctlFailed = p.ctlFailed /\ q.asserted = p.asserted
    BY <1>1, <1>4, <1>7, <2>2, <2>3, EpollMod
  <2>5. r.status = [r.status EXCEPT ![c] = "Set"]
    BY <1>1, <1>9 DEF Cycle
  <2>6. QED
    BY <1>4, <1>5, <1>6, <2>4, <2>5 DEF SameOwners, Changed
<1>10. CASE r.status[c] = "Removed"
  <2>1. "Set" \in Status
    BY DEF Status
  <2>2. q = UpdateEpoll(s, "ADD", c)
    BY <1>6, <1>8, <1>10 DEF PollerUpdateChannel, WithStatus
  <2> HIDE DEF s
  <2>3. s \in Cycle /\ SameOwners(s, p)
    BY <1>1, <1>4, <2>1, ChangingStatus DEF s
  <2>4. /\ s.status = [p.status EXCEPT ![c] = "Set"] /\ s.events = p.events
        /\ s.epoll = p.epoll /\ s.ctlFailed = p.ctlFailed /\ s.asserted = p.asserted
    BY <1>1, <1>4, <2>1, ChangingStatus DEF s
  <2>5. s.fd[c] \in Fds /\ s.fd[c] \in s.open /\ s.epoll[s.fd[c]] = Unwatched
    BY <1>2, <1>7, <1>10, <2>3, <2>4 DEF SameOwners
  <2>6. /\ q \in Cycle /\ SameOwners(q, s)
        /\ q.status = s.status /\ q.events = s.events
        /\ q.epoll = [s.epoll EXCEPT ![s.fd[c]] = [ptr |-> c, mask |-> s.events[c]]]
        /\ q.ctlFailed = s.ctlFailed /\ q.asserted = s.asserted
    BY <1>1, <2>2, <2>3, <2>5, EpollAdd
  <2>7. QED
    BY <1>4, <1>5, <1>6, <2>3, <2>4, <2>6 DEF SameOwners, Changed
<1>11. QED
  BY <1>2, <1>9, <1>10

(* EpollPoller::RemoveChannel, of a channel that is Set: DEL               *)
LEMMA LeavingEpoll ==
  ASSUME NEW p \in Cycle, NEW c \in Channels, p.status[c] = "Set", p.events[c] = {},
         p.fd[c] \in Fds, p.fd[c] \in p.open, p.epoll[p.fd[c]] # Unwatched,
         NEW q, q = PollerRemoveChannel(p, c)
  PROVE  /\ q \in Cycle /\ SameOwners(q, p) /\ q.status = [p.status EXCEPT ![c] = "Removed"]
         /\ q.events = p.events /\ q.epoll = [p.epoll EXCEPT ![p.fd[c]] = Unwatched]
         /\ q.ctlFailed = p.ctlFailed /\ q.asserted = p.asserted
<1> DEFINE s == UpdateEpoll(p, "DEL", c)
<1>1. Require(p, p.status[c] = "Set" /\ p.events[c] = {}) = p
  BY Asserting
<1>2. q = WithStatus(s, c, "Removed")
  BY <1>1 DEF PollerRemoveChannel, WithStatus
<1> HIDE DEF s
<1>3. s \in Cycle /\ SameOwners(s, p)
  BY EpollDel DEF s
<1>4. /\ s.status = p.status /\ s.events = p.events
      /\ s.epoll = [p.epoll EXCEPT ![p.fd[c]] = Unwatched]
      /\ s.ctlFailed = p.ctlFailed /\ s.asserted = p.asserted
  BY EpollDel DEF s
<1>5. "Removed" \in Status
  BY DEF Status
<1>6. /\ q \in Cycle /\ SameOwners(q, s) /\ q.status = [s.status EXCEPT ![c] = "Removed"]
      /\ q.events = s.events /\ q.epoll = s.epoll
      /\ q.ctlFailed = s.ctlFailed /\ q.asserted = s.asserted
  BY <1>2, <1>3, <1>5, ChangingStatus
<1>7. QED
  BY <1>3, <1>4, <1>6 DEF SameOwners

(* disable(), of a channel that is Set                                     *)
LEMMA Emptying ==
  ASSUME NEW r, Sound(r), NEW c \in r.owned \ r.closed, r.status[c] = "Set",
         NEW q, q = DisableChannel([r EXCEPT !.events[c] = {}], c)
  PROVE  q \in Cycle /\ Changed(q, r, c, {}) /\ q.asserted = r.asserted
<1>0. PICK none \in SUBSET IO : none = {}
  OBVIOUS
<1> DEFINE p == WithEvents(r, c, none)
<1>1. r \in Cycle /\ c \in Channels
  BY OwnersChannel
<1>2. r.fd[c] \in Fds /\ r.fd[c] \in r.open /\ r.epoll[r.fd[c]] # Unwatched
  BY OwnersChannel
<1>3. q = DisableChannel(p, c)
  BY <1>0 DEF WithEvents
<1> HIDE DEF p
<1>4. p \in Cycle /\ SameOwners(p, r)
  BY <1>1, ChangingEvents DEF p
<1>5. /\ p.status = r.status /\ p.events = [r.events EXCEPT ![c] = none]
      /\ p.epoll = r.epoll /\ p.ctlFailed = r.ctlFailed /\ p.asserted = r.asserted
  BY <1>1, ChangingEvents DEF p
<1>6. p.events[c] = {} /\ p.status[c] = "Set"
  BY <1>0, <1>1, <1>5 DEF Cycle
<1>7. p.fd[c] \in Fds /\ p.fd[c] \in p.open /\ p.epoll[p.fd[c]] # Unwatched
  BY <1>2, <1>4, <1>5 DEF SameOwners
<1>8. Require(p, p.status[c] = "Set") = p
  BY <1>4, <1>6, Asserting
<1>9. q = PollerRemoveChannel(p, c)
  BY <1>3, <1>8 DEF DisableChannel
<1>10. /\ q \in Cycle /\ SameOwners(q, p) /\ q.status = [p.status EXCEPT ![c] = "Removed"]
       /\ q.events = p.events /\ q.epoll = [p.epoll EXCEPT ![p.fd[c]] = Unwatched]
       /\ q.ctlFailed = p.ctlFailed /\ q.asserted = p.asserted
  BY <1>1, <1>4, <1>6, <1>7, <1>9, LeavingEpoll
<1>11. QED
  BY <1>0, <1>4, <1>5, <1>10 DEF SameOwners, Changed

(* Whatever update() has made of it, the cycle is sound again.             *)
LEMMA ChangedSound ==
  ASSUME NEW r, Sound(r), NEW c \in r.owned \ r.closed, NEW some \in SUBSET IO,
         NEW q \in Cycle, Changed(q, r, c, some), r.asserted => q.asserted
  PROVE  Sound(q)
<1> DEFINE f == r.fd[c]
<1>1. /\ r \in Cycle /\ c \in Channels /\ c \in r.born /\ f \in Fds
  BY OwnersChannel
<1>2. /\ q.born = r.born /\ q.owned = r.owned /\ q.closed = r.closed /\ q.open = r.open
      /\ q.fd = r.fd /\ q.map = r.map /\ q.ctlFailed = r.ctlFailed
  BY DEF Changed, SameOwners
<1>3. /\ q.status[c] = IF some = {} THEN "Removed" ELSE "Set"
      /\ q.events[c] = some
      /\ \A d \in Channels \ {c} : q.status[d] = r.status[d] /\ q.events[d] = r.events[d]
  BY <1>1 DEF Changed, Cycle
<1>4. /\ q.epoll[f] = IF some = {} THEN Unwatched ELSE [ptr |-> c, mask |-> some]
      /\ \A g \in Fds \ {f} : q.epoll[g] = r.epoll[g]
  BY <1>1 DEF Changed, Cycle
<1>5. BornSound(q)
  BY <1>1, <1>2, <1>3 DEF Sound, BornSound
<1>6. StatusSound(q)
  <2>1. \A d \in q.born : q.status[d] = "New" <=> d \in q.closed
    BY <1>1, <1>2, <1>3 DEF Sound, StatusSound, Cycle
  <2>2. ASSUME NEW d \in Channels, d # c, q.status[d] = "Set"
        PROVE  d \in q.owned /\ q.epoll[q.fd[d]].ptr = d /\ q.events[d] # {}
    <3>1. d \in r.owned \ r.closed /\ r.epoll[r.fd[d]].ptr = d /\ r.events[d] # {}
      BY <1>1, <1>2, <1>3, <2>2 DEF Sound, StatusSound, BornSound
    <3>2. r.fd[d] \in Fds /\ r.fd[d] # f
      BY <2>2, <3>1 DEF Sound, OwnersSound, BornSound
    <3>3. QED
      BY <1>2, <1>3, <1>4, <2>2, <3>1, <3>2
  <2>3. ASSUME q.status[c] = "Set"
        PROVE  c \in q.owned /\ q.epoll[q.fd[c]].ptr = c /\ q.events[c] # {}
    BY <1>1, <1>2, <1>3, <1>4, <2>3
  <2>4. \A d \in Channels : q.status[d] # "Set" => q.events[d] = {}
    BY <1>1, <1>3 DEF Sound, StatusSound
  <2>5. QED
    BY <2>1, <2>2, <2>3, <2>4 DEF StatusSound
<1>7. EpollSound(q)
  <2>1. ASSUME NEW g \in Fds, g # f
        PROVE  /\ q.epoll[g].ptr = NoChannel => q.epoll[g].mask = {}
               /\ q.epoll[g].ptr # NoChannel =>
                    /\ q.fd[q.epoll[g].ptr] = g /\ q.status[q.epoll[g].ptr] = "Set"
                    /\ q.epoll[g].mask = q.events[q.epoll[g].ptr]
    <3>1. r.epoll[g].ptr # NoChannel => r.epoll[g].ptr \in Channels \ {c}
      BY <1>1, <2>1 DEF Sound, EpollSound, Cycle
    <3>2. QED
      BY <1>2, <1>3, <1>4, <2>1, <3>1 DEF Sound, EpollSound
  <2>2. /\ q.epoll[f].ptr = NoChannel => q.epoll[f].mask = {}
        /\ q.epoll[f].ptr # NoChannel =>
             /\ q.fd[q.epoll[f].ptr] = f /\ q.status[q.epoll[f].ptr] = "Set"
             /\ q.epoll[f].mask = q.events[q.epoll[f].ptr]
    BY <1>1, <1>2, <1>3, <1>4, NoChannelAssumption DEF Unwatched
  <2>3. QED
    BY <2>1, <2>2 DEF EpollSound
<1>8. OwnersSound(q) /\ MapSound(q)
  BY <1>2 DEF Sound, OwnersSound, MapSound
<1>9. QED
  BY <1>2, <1>5, <1>6, <1>7, <1>8 DEF Sound

-----------------------------------------------------------------------------
(* A channel constructed for a descriptor that was not open is registered. *)
LEMMA Opening ==
  ASSUME NEW r, Sound(r), NEW c \in Channels, NEW f \in Fds, NEW role \in Roles,
         c \notin r.born, f \notin r.open,
         NEW q, q = RegisterChannel(Construct(r, c, f, role), c)
  PROVE  /\ Sound(q)
         /\ q.born = r.born \cup {c} /\ q.owned = r.owned \cup {c}
         /\ q.closed = r.closed
         /\ q.role = [r.role EXCEPT ![c] = role]
         /\ q.status = [r.status EXCEPT ![c] = "Removed"]
         /\ q.events = r.events /\ q.callbacks = r.callbacks
         /\ q.asserted = (r.asserted \/ r.map[f] # NoChannel)
<1> DEFINE p == Construct(r, c, f, role)
<1>0. /\ r \in Cycle /\ r.status[c] = "New" /\ c \notin r.owned /\ c \notin r.closed
      /\ r.events[c] = {}
  BY DEF Sound, BornSound, StatusSound
<1>1. r \in Cycle /\ r.status[c] = "New"
  BY DEF Sound, BornSound
<1>2. /\ p \in Cycle
      /\ p.born = r.born \cup {c} /\ p.owned = r.owned \cup {c}
      /\ p.closed = r.closed /\ p.open = r.open \cup {f}
      /\ p.role = [r.role EXCEPT ![c] = role] /\ p.fd = [r.fd EXCEPT ![c] = f]
      /\ p.status = r.status /\ p.events = r.events /\ p.callbacks = r.callbacks
      /\ p.map = r.map /\ p.epoll = r.epoll
      /\ p.ctlFailed = r.ctlFailed /\ p.asserted = r.asserted
  <2>1. p \in Cycle
    BY <1>1, OperationTypes
  <2>2. /\ p.born = r.born \cup {c} /\ p.owned = r.owned \cup {c}
        /\ p.closed = r.closed /\ p.open = r.open \cup {f}
    BY <1>1 DEF Construct, Cycle
  <2>3. p.role = [r.role EXCEPT ![c] = role] /\ p.fd = [r.fd EXCEPT ![c] = f]
    BY <1>1 DEF Construct, Cycle
  <2>4. p.status = r.status /\ p.events = r.events /\ p.callbacks = r.callbacks
    BY <1>1 DEF Construct, Cycle
  <2>5. /\ p.map = r.map /\ p.epoll = r.epoll
        /\ p.ctlFailed = r.ctlFailed /\ p.asserted = r.asserted
    BY <1>1 DEF Construct, Cycle
  <2>6. QED
    BY <2>1, <2>2, <2>3, <2>4, <2>5
<1>3. p.fd[c] = f /\ q = RegisterChannel(p, c)
  BY <1>1, <1>2 DEF Cycle
<1> HIDE DEF p
<1>4. q \in Cycle
  <2>1. RegisterChannel(p, c) \in Cycle
    BY <1>1, <1>2, <1>3 DEF RegisterChannel, Require, Cycle, Status
  <2>2. QED
    BY <1>3, <2>1
<1>5. /\ q.born = p.born /\ q.owned = p.owned /\ q.closed = p.closed /\ q.open = p.open
      /\ q.role = p.role /\ q.fd = p.fd /\ q.events = p.events
      /\ q.callbacks = p.callbacks /\ q.epoll = p.epoll /\ q.ctlFailed = p.ctlFailed
  BY <1>2, <1>3 DEF RegisterChannel, Require, Cycle
<1>6. /\ q.status = [p.status EXCEPT ![c] = "Removed"]
      /\ q.map = [p.map EXCEPT ![f] = c]
  BY <1>2, <1>3 DEF RegisterChannel, Require, Cycle
<1>7. q.asserted = (r.asserted \/ r.map[f] # NoChannel)
  BY <1>1, <1>2, <1>3 DEF RegisterChannel, Require, Cycle
<1>8. /\ q \in Cycle
      /\ q.born = r.born \cup {c} /\ q.owned = r.owned \cup {c}
      /\ q.closed = r.closed /\ q.open = r.open \cup {f}
      /\ q.events = r.events /\ q.epoll = r.epoll /\ q.ctlFailed = r.ctlFailed
      /\ q.asserted = (r.asserted \/ r.map[f] # NoChannel)
  BY <1>2, <1>4, <1>5, <1>7
<1>9. /\ q.fd[c] = f /\ q.status[c] = "Removed" /\ q.map[f] = c
      /\ \A d \in Channels \ {c} : q.fd[d] = r.fd[d] /\ q.status[d] = r.status[d]
      /\ \A g \in Fds \ {f} : q.map[g] = r.map[g]
  BY <1>1, <1>2, <1>3, <1>5, <1>6 DEF Cycle
<1>10. BornSound(q)
  BY <1>0, <1>8, <1>9 DEF Sound, BornSound, Cycle
<1>11. StatusSound(q)
  <2>1. \A d \in q.born : q.status[d] = "New" <=> d \in q.closed
    BY <1>0, <1>8, <1>9 DEF Sound, StatusSound, Cycle
  <2>2. ASSUME NEW d \in Channels
        PROVE  /\ q.status[d] = "Set" => d \in q.owned /\ q.epoll[q.fd[d]].ptr = d /\ q.events[d] # {}
               /\ q.status[d] # "Set" => q.events[d] = {}
    BY <1>0, <1>8, <1>9 DEF Sound, StatusSound
  <2>3. QED
    BY <2>1, <2>2 DEF StatusSound
<1>12. EpollSound(q)
  <2>1. ASSUME NEW g \in Fds, r.epoll[g].ptr # NoChannel
        PROVE  r.epoll[g].ptr \in Channels \ {c}
    BY <1>0, <2>1 DEF Sound, EpollSound, Cycle
  <2>2. QED
    BY <1>8, <1>9, <2>1 DEF Sound, EpollSound
<1>13. OwnersSound(q)
  <2>1. \A d \in r.owned \ r.closed : d \in Channels \ {c} /\ r.fd[d] \in r.open /\ r.fd[d] # f
    BY <1>0 DEF Sound, OwnersSound, Cycle
  <2>2. q.owned \ q.closed = (r.owned \ r.closed) \cup {c}
    BY <1>0, <1>8
  <2>3. \A d \in q.owned \ q.closed : q.fd[d] \in q.open
    BY <1>8, <1>9, <2>1, <2>2
  <2>4. \A d, e \in q.owned \ q.closed : q.fd[d] = q.fd[e] => d = e
    BY <1>9, <2>1, <2>2 DEF Sound, OwnersSound
  <2>5. \A g \in q.open : \E d \in q.owned \ q.closed : q.fd[d] = g
    BY <1>8, <1>9, <2>1, <2>2 DEF Sound, OwnersSound
  <2>6. QED
    BY <2>3, <2>4, <2>5 DEF OwnersSound
<1>14. MapSound(q)
  <2> SUFFICES ASSUME ~q.asserted
               PROVE  /\ \A d \in q.born \ q.closed : q.map[q.fd[d]] = d
                      /\ \A g \in Fds : q.map[g] # NoChannel =>
                           q.map[g] \in q.born \ q.closed /\ q.fd[q.map[g]] = g
    BY DEF MapSound
  <2>1. ~r.asserted /\ r.map[f] = NoChannel
    BY <1>8
  <2>2. \A d \in r.born \ r.closed :
          d \in Channels \ {c} /\ r.fd[d] \in Fds \ {f} /\ r.map[r.fd[d]] = d
    BY <1>0, <2>1, NoChannelAssumption DEF Sound, BornSound, MapSound, Cycle
  <2>3. \A d \in q.born \ q.closed : q.map[q.fd[d]] = d
    BY <1>0, <1>8, <1>9, <2>2
  <2>4. ASSUME NEW g \in Fds, q.map[g] # NoChannel
        PROVE  q.map[g] \in q.born \ q.closed /\ q.fd[q.map[g]] = g
    <3>1. CASE g = f
      BY <1>0, <1>8, <1>9, <3>1
    <3>2. CASE g # f
      BY <1>0, <1>8, <1>9, <2>1, <2>2, <2>4, <3>2 DEF Sound, MapSound
    <3>3. QED
      BY <3>1, <3>2
  <2>5. QED
    BY <2>3, <2>4
<1>15. QED
  BY <1>2, <1>5, <1>6, <1>8, <1>10, <1>11, <1>12, <1>13, <1>14 DEF Sound

(* SetCallbacks and Require touch nothing that soundness is about.         *)
LEMMA CallbacksSound ==
  ASSUME NEW r, Sound(r), NEW c \in Channels, NEW kinds \in SUBSET Events,
         NEW q, q = SetCallbacks(r, c, kinds)
  PROVE  /\ Sound(q)
         /\ q.born = r.born /\ q.owned = r.owned /\ q.closed = r.closed
         /\ q.role = r.role /\ q.status = r.status /\ q.events = r.events
         /\ q.callbacks = [r.callbacks EXCEPT ![c] = kinds] /\ q.asserted = r.asserted
<1>1. r \in Cycle
  BY DEF Sound
<1>2. q \in Cycle
  BY <1>1, OperationTypes
<1>3. /\ q.born = r.born /\ q.owned = r.owned /\ q.closed = r.closed /\ q.open = r.open
      /\ q.fd = r.fd /\ q.map = r.map
  BY <1>1 DEF SetCallbacks, Cycle
<1>4. /\ q.role = r.role /\ q.status = r.status /\ q.events = r.events
      /\ q.epoll = r.epoll /\ q.ctlFailed = r.ctlFailed
  BY <1>1 DEF SetCallbacks, Cycle
<1>5. q.callbacks = [r.callbacks EXCEPT ![c] = kinds] /\ q.asserted = r.asserted
  BY <1>1 DEF SetCallbacks, Cycle
<1>6. Sound(q)
  BY <1>2, <1>3, <1>4, <1>5
  DEF Sound, BornSound, StatusSound, EpollSound, OwnersSound, MapSound
<1>7. QED
  BY <1>3, <1>4, <1>5, <1>6

(* Abort leaves the rest as it was.                                        *)
LEMMA AssertingSound ==
  ASSUME NEW r, Sound(r), NEW c \in Channels, NEW kind \in IO,
         NEW q, q = Require(r, kind \in r.callbacks[c])
  PROVE  /\ Sound(q) /\ SameOwners(q, r)
         /\ q.status = r.status /\ q.events = r.events
         /\ q.asserted <=> (r.asserted \/ kind \notin r.callbacks[c])
<1>1. r \in Cycle
  BY DEF Sound
<1>2. q \in Cycle
  BY <1>1 DEF Require, Cycle
<1>3. SameOwners(q, r)
  BY <1>1 DEF Require, Cycle, SameOwners
<1>4. /\ q.status = r.status /\ q.events = r.events /\ q.epoll = r.epoll
      /\ q.ctlFailed = r.ctlFailed
  BY <1>1 DEF Require, Cycle
<1>5. q.asserted <=> (r.asserted \/ kind \notin r.callbacks[c])
  BY <1>1 DEF Require, Cycle
<1>6. ~q.asserted => ~r.asserted
  BY <1>5
<1>7. BornSound(q) /\ StatusSound(q) /\ EpollSound(q) /\ OwnersSound(q) /\ ~q.ctlFailed
  <2>1. BornSound(q)
    BY <1>3, <1>4 DEF Sound, BornSound, SameOwners
  <2>2. StatusSound(q)
    BY <1>3, <1>4 DEF Sound, StatusSound, SameOwners
  <2>3. EpollSound(q)
    BY <1>3, <1>4 DEF Sound, EpollSound, SameOwners
  <2>4. OwnersSound(q)
    BY <1>3 DEF Sound, OwnersSound, SameOwners
  <2>5. ~q.ctlFailed
    BY <1>4 DEF Sound
  <2>6. QED
    BY <2>1, <2>2, <2>3, <2>4, <2>5
<1>8. MapSound(q)
  BY <1>3, <1>6 DEF Sound, MapSound, SameOwners
<1>9. QED
  BY <1>2, <1>3, <1>4, <1>5, <1>7, <1>8 DEF Sound

-----------------------------------------------------------------------------
(* The calls that owners make, each on a channel of its own                *)

LEMMA Enabling ==
  ASSUME NEW r, Sound(r), NEW c \in r.owned \ r.closed, NEW kind \in IO,
         NEW q, q = Enable(r, c, kind)
  PROVE  /\ Sound(q) /\ SameOwners(q, r)
         /\ q.status[c] = "Set"
         /\ \A d \in Channels \ {c} : q.status[d] = r.status[d]
         /\ q.asserted <=> (r.asserted \/ kind \notin r.callbacks[c])
<1> DEFINE s == Require(r, kind \in r.callbacks[c])
           some == r.events[c] \cup {kind}
<1>1. r \in Cycle /\ c \in Channels
  BY OwnersChannel
<1>2. /\ Sound(s) /\ SameOwners(s, r) /\ s.status = r.status /\ s.events = r.events
      /\ s.asserted <=> (r.asserted \/ kind \notin r.callbacks[c])
  BY <1>1, AssertingSound
<1>3. some \in SUBSET IO /\ some # {}
  BY <1>1 DEF Cycle
<1>4. q = UpdateChannel([s EXCEPT !.events[c] = some], c)
  <2>1. q = UpdateChannel([s EXCEPT !.events[c] = s.events[c] \cup {kind}], c)
    BY DEF Enable
  <2>2. QED
    BY <1>2, <2>1
<1> HIDE DEF s, some
<1>5. c \in s.owned \ s.closed
  BY <1>2 DEF SameOwners
<1>6. q \in Cycle /\ Changed(q, s, c, some) /\ q.asserted = s.asserted
  BY <1>2, <1>3, <1>4, <1>5, Updating
<1>7. Sound(q)
  BY <1>2, <1>3, <1>5, <1>6, ChangedSound
<1>8. s.status \in [Channels -> Status]
  BY <1>2 DEF Sound, Cycle
<1>9. /\ q.status[c] = "Set"
      /\ \A d \in Channels \ {c} : q.status[d] = r.status[d]
  BY <1>1, <1>2, <1>3, <1>6, <1>8 DEF Changed
<1>10. SameOwners(q, r)
  BY <1>2, <1>6 DEF Changed, SameOwners
<1>11. QED
  BY <1>2, <1>6, <1>7, <1>9, <1>10

LEMMA Disabling ==
  ASSUME NEW r, Sound(r), NEW c \in r.owned \ r.closed, NEW kind \in r.events[c],
         NEW q, q = Disable(r, c, kind)
  PROVE  /\ Sound(q) /\ SameOwners(q, r)
         /\ q.status[c] \in {"Set", "Removed"}
         /\ \A d \in Channels \ {c} : q.status[d] = r.status[d]
         /\ q.asserted = r.asserted
<1> DEFINE some == r.events[c] \ {kind}
           p == [r EXCEPT !.events[c] = some]
<1>1. r \in Cycle /\ c \in Channels
  BY OwnersChannel
<1>2. some \in SUBSET IO
  BY <1>1 DEF Cycle
<1>3. r.status[c] = "Set"
  BY <1>1 DEF Sound, StatusSound
<1>4. p.events[c] = some
  BY <1>1 DEF Cycle
<1>5. q = IF some = {} THEN DisableChannel(p, c) ELSE UpdateChannel(p, c)
  BY <1>4 DEF Disable
<1> HIDE DEF some
<1>6. q \in Cycle /\ Changed(q, r, c, some) /\ q.asserted = r.asserted
  <2>1. CASE some = {}
    BY <1>3, <1>5, <2>1, Emptying
  <2>2. CASE some # {}
    BY <1>2, <1>5, <2>2, Updating
  <2>3. QED
    BY <2>1, <2>2
<1>7. Sound(q)
  BY <1>2, <1>6, ChangedSound
<1>8. r.status \in [Channels -> Status]
  BY <1>1 DEF Cycle
<1>9. /\ q.status[c] \in {"Set", "Removed"}
      /\ \A d \in Channels \ {c} : q.status[d] = r.status[d]
  BY <1>1, <1>6, <1>8 DEF Changed
<1>10. QED
  BY <1>6, <1>7, <1>9 DEF Changed

LEMMA DisablingAll ==
  ASSUME NEW r, Sound(r), NEW c \in r.owned \ r.closed, r.status[c] = "Set",
         NEW q, q = DisableAll(r, c)
  PROVE  /\ Sound(q) /\ SameOwners(q, r)
         /\ q.status[c] = "Removed"
         /\ \A d \in Channels \ {c} : q.status[d] = r.status[d]
         /\ q.asserted = r.asserted
<1>1. r \in Cycle /\ c \in Channels
  BY OwnersChannel
<1>2. q \in Cycle /\ Changed(q, r, c, {}) /\ q.asserted = r.asserted
  BY Emptying DEF DisableAll
<1>3. Sound(q)
  BY <1>2, ChangedSound
<1>4. r.status \in [Channels -> Status]
  BY <1>1 DEF Cycle
<1>5. /\ q.status[c] = "Removed"
      /\ \A d \in Channels \ {c} : q.status[d] = r.status[d]
  BY <1>1, <1>2, <1>4 DEF Changed
<1>6. QED
  BY <1>2, <1>3, <1>5 DEF Changed

(* The descriptor of c is free for another channel. Neither closing c nor  *)
(* giving it up touches a channel that has another descriptor.             *)
OthersKept(q, r, c) ==
  /\ q.born = r.born /\ q.role = r.role /\ q.fd = r.fd /\ q.callbacks = r.callbacks
  /\ q.open = r.open \ {r.fd[c]}
  /\ q.epoll = [r.epoll EXCEPT ![r.fd[c]] = Unwatched]
  /\ \A d \in Channels \ {c} : q.status[d] = r.status[d] /\ q.events[d] = r.events[d]
  /\ q.events[c] = {} /\ q.status[c] # "Set"
  /\ q.ctlFailed = r.ctlFailed /\ q.asserted = r.asserted
  /\ q.owned \ q.closed = (r.owned \ r.closed) \ {c}

LEMMA OthersKeptSound ==
  ASSUME NEW r, Sound(r), NEW c \in r.owned \ r.closed,
         NEW q \in Cycle, OthersKept(q, r, c)
  PROVE  /\ EpollSound(q) /\ OwnersSound(q)
         /\ \A d \in Channels :
              /\ q.status[d] = "Set" =>
                   d \in r.owned \ {c} /\ q.epoll[q.fd[d]].ptr = d /\ q.events[d] # {}
              /\ q.status[d] # "Set" => q.events[d] = {}
<1> DEFINE f == r.fd[c]
<1>1. r \in Cycle /\ c \in Channels /\ f \in Fds
  BY OwnersChannel
<1>2. q.fd = r.fd /\ q.open = r.open \ {f} /\ q.owned \ q.closed = (r.owned \ r.closed) \ {c}
  BY DEF OthersKept
<1>3. q.epoll[f] = Unwatched /\ \A g \in Fds \ {f} : q.epoll[g] = r.epoll[g]
  BY <1>1 DEF OthersKept, Cycle
<1>4. /\ \A d \in Channels \ {c} : q.status[d] = r.status[d] /\ q.events[d] = r.events[d]
      /\ q.events[c] = {} /\ q.status[c] # "Set"
  BY DEF OthersKept
<1>5. EpollSound(q)
  <2>1. ASSUME NEW g \in Fds, g # f
        PROVE  /\ q.epoll[g].ptr = NoChannel => q.epoll[g].mask = {}
               /\ q.epoll[g].ptr # NoChannel =>
                    /\ q.fd[q.epoll[g].ptr] = g /\ q.status[q.epoll[g].ptr] = "Set"
                    /\ q.epoll[g].mask = q.events[q.epoll[g].ptr]
    <3>1. r.epoll[g].ptr # NoChannel => r.epoll[g].ptr \in Channels \ {c}
      BY <1>1, <2>1 DEF Sound, EpollSound, Cycle
    <3>2. QED
      BY <1>2, <1>3, <1>4, <2>1, <3>1 DEF Sound, EpollSound
  <2>2. q.epoll[f].ptr = NoChannel /\ q.epoll[f].mask = {}
    BY <1>3 DEF Unwatched
  <2>3. QED
    BY <2>1, <2>2 DEF EpollSound
<1>6. OwnersSound(q)
  <2>1. \A d \in (r.owned \ r.closed) \ {c} : r.fd[d] \in r.open /\ r.fd[d] # f
    BY DEF Sound, OwnersSound
  <2>2. ASSUME NEW g \in r.open \ {f}
        PROVE  \E d \in (r.owned \ r.closed) \ {c} : r.fd[d] = g
    <3>1. PICK d \in r.owned \ r.closed : r.fd[d] = g
      BY DEF Sound, OwnersSound
    <3>2. QED
      BY <3>1
  <2>3. \A d, e \in r.owned \ r.closed : r.fd[d] = r.fd[e] => d = e
    BY DEF Sound, OwnersSound
  <2>4. QED
    BY <1>2, <2>1, <2>2, <2>3 DEF OwnersSound
<1>7. ASSUME NEW d \in Channels, q.status[d] = "Set"
      PROVE  d \in r.owned \ {c} /\ q.epoll[q.fd[d]].ptr = d /\ q.events[d] # {}
  <2>1. d # c /\ r.status[d] = "Set" /\ q.events[d] = r.events[d]
    BY <1>4, <1>7
  <2>2. d \in r.owned \ r.closed /\ r.epoll[r.fd[d]].ptr = d /\ r.events[d] # {}
    BY <1>1, <2>1 DEF Sound, StatusSound, BornSound
  <2>3. r.fd[d] \in Fds /\ r.fd[d] # f
    BY <2>1, <2>2 DEF Sound, OwnersSound, BornSound
  <2>4. QED
    BY <1>2, <1>3, <2>1, <2>2, <2>3
<1>8. \A d \in Channels : q.status[d] # "Set" => q.events[d] = {}
  BY <1>4 DEF Sound, StatusSound
<1>9. QED
  BY <1>5, <1>6, <1>7, <1>8

(* Drop and close(): an owner goes without closing its channel.            *)
LEMMA Abandoning ==
  ASSUME NEW r, Sound(r), NEW c \in r.owned \ r.closed, r.status[c] = "Removed",
         NEW q, q = CloseFd(Drop(r, c), c)
  PROVE  /\ Sound(q)
         /\ q.born = r.born /\ q.closed = r.closed /\ q.role = r.role
         /\ q.callbacks = r.callbacks /\ q.asserted = r.asserted
         /\ q.owned = r.owned \ {c} /\ q.status = r.status
         /\ q.events = r.events
<1> DEFINE p == Drop(r, c)
<1>1. r \in Cycle /\ c \in Channels /\ c \in r.born /\ r.fd[c] \in Fds
  BY OwnersChannel
<1>2. /\ p \in Cycle /\ p.owned = r.owned \ {c}
      /\ p.born = r.born /\ p.closed = r.closed /\ p.open = r.open
      /\ p.role = r.role /\ p.fd = r.fd /\ p.callbacks = r.callbacks
      /\ p.map = r.map
  <2>1. p \in Cycle
    BY <1>1, OperationTypes
  <2>2. QED
    BY <1>1, <2>1 DEF Drop, Cycle
<1>3. /\ p.status = r.status /\ p.events = r.events /\ p.epoll = r.epoll
      /\ p.ctlFailed = r.ctlFailed /\ p.asserted = r.asserted
  BY <1>1 DEF Drop, Cycle
<1> HIDE DEF p
<1>4. /\ q \in Cycle /\ q.owned = p.owned
      /\ q.born = p.born /\ q.closed = p.closed
      /\ q.role = p.role /\ q.fd = p.fd /\ q.callbacks = p.callbacks
      /\ q.map = p.map
  <2>1. q = CloseFd(p, c)
    BY DEF p
  <2>2. q \in Cycle
    BY <1>1, <1>2, <2>1, OperationTypes
  <2>3. QED
    BY <1>2, <2>1, <2>2 DEF CloseFd, Cycle
<1>5. q.open = p.open \ {p.fd[c]} /\ q.epoll = [p.epoll EXCEPT ![p.fd[c]] = Unwatched]
  <2>1. q = CloseFd(p, c)
    BY DEF p
  <2>2. QED
    BY <1>2, <2>1 DEF CloseFd, Cycle
<1>6. /\ q.status = p.status /\ q.events = p.events
      /\ q.ctlFailed = p.ctlFailed /\ q.asserted = p.asserted
  <2>1. q = CloseFd(p, c)
    BY DEF p
  <2>2. QED
    BY <1>2, <2>1 DEF CloseFd, Cycle
<1>7. r.events[c] = {}
  BY <1>1 DEF Sound, StatusSound
<1>8. OthersKept(q, r, c)
  BY <1>2, <1>3, <1>4, <1>5, <1>6, <1>7 DEF OthersKept
<1>9. /\ EpollSound(q) /\ OwnersSound(q)
      /\ \A d \in Channels :
           /\ q.status[d] = "Set" =>
                d \in r.owned \ {c} /\ q.epoll[q.fd[d]].ptr = d /\ q.events[d] # {}
           /\ q.status[d] # "Set" => q.events[d] = {}
  BY <1>4, <1>8, OthersKeptSound
<1>10. BornSound(q)
  BY <1>2, <1>3, <1>4, <1>6 DEF Sound, BornSound
<1>11. StatusSound(q)
  <2>1. \A d \in q.born : q.status[d] = "New" <=> d \in q.closed
    BY <1>2, <1>3, <1>4, <1>6 DEF Sound, StatusSound
  <2>2. QED
    BY <1>2, <1>4, <1>9, <2>1 DEF StatusSound
<1>12. MapSound(q)
  BY <1>2, <1>3, <1>4, <1>6 DEF Sound, MapSound
<1>13. ~q.ctlFailed
  BY <1>3, <1>6 DEF Sound
<1>14. Sound(q)
  BY <1>4, <1>9, <1>10, <1>11, <1>12, <1>13 DEF Sound
<1>15. QED
  BY <1>2, <1>3, <1>4, <1>6, <1>14

(* The last reference to a closed channel goes.                            *)
LEMMA Dropping ==
  ASSUME NEW r, Sound(r), NEW c \in r.owned \cap r.closed, NEW q, q = Drop(r, c)
  PROVE  /\ Sound(q)
         /\ q.born = r.born /\ q.closed = r.closed /\ q.role = r.role
         /\ q.callbacks = r.callbacks /\ q.asserted = r.asserted
         /\ q.owned = r.owned \ {c} /\ q.status = r.status /\ q.events = r.events
         /\ r.status[c] = "New"
<1>1. r \in Cycle /\ c \in Channels /\ c \in r.born /\ r.status[c] = "New"
  BY DEF Sound, BornSound, StatusSound, Cycle
<1>2. q \in Cycle
  BY <1>1, OperationTypes
<1>3. /\ q.owned = r.owned \ {c}
      /\ q.born = r.born /\ q.closed = r.closed /\ q.open = r.open
      /\ q.role = r.role /\ q.fd = r.fd /\ q.callbacks = r.callbacks
      /\ q.map = r.map
  BY <1>1 DEF Drop, Cycle
<1>4. /\ q.status = r.status /\ q.events = r.events /\ q.epoll = r.epoll
      /\ q.ctlFailed = r.ctlFailed /\ q.asserted = r.asserted
  BY <1>1 DEF Drop, Cycle
<1>5. BornSound(q)
  BY <1>3, <1>4 DEF Sound, BornSound
<1>6. StatusSound(q)
  BY <1>1, <1>3, <1>4 DEF Sound, StatusSound
<1>7. EpollSound(q)
  BY <1>3, <1>4 DEF Sound, EpollSound
<1>8. OwnersSound(q)
  <2>1. q.owned \ q.closed = r.owned \ r.closed
    BY <1>3
  <2>2. QED
    BY <1>3, <2>1 DEF Sound, OwnersSound
<1>9. MapSound(q)
  BY <1>3, <1>4 DEF Sound, MapSound
<1>10. Sound(q)
  BY <1>2, <1>4, <1>5, <1>6, <1>7, <1>8, <1>9 DEF Sound
<1>11. QED
  BY <1>1, <1>3, <1>4, <1>10

(* The rest of RemoveChannel, Channel::Close and close(), once epoll has   *)
(* forgotten the channel                                                   *)
Unmapped(r, c) == [r EXCEPT !.status[c] = "New", !.map[r.fd[c]] = NoChannel]
MarkedClosed(r, c) == [r EXCEPT !.closed = @ \cup {c}]

LEMMA Unmapping ==
  ASSUME NEW r \in Cycle, NEW c \in Channels, r.fd[c] \in Fds,
         NEW q, q = Unmapped(r, c)
  PROVE  /\ q \in Cycle
         /\ q.born = r.born /\ q.owned = r.owned /\ q.closed = r.closed /\ q.open = r.open
         /\ q.role = r.role /\ q.fd = r.fd /\ q.callbacks = r.callbacks
         /\ q.map = [r.map EXCEPT ![r.fd[c]] = NoChannel]
         /\ q.status = [r.status EXCEPT ![c] = "New"]
         /\ q.events = r.events /\ q.epoll = r.epoll
         /\ q.ctlFailed = r.ctlFailed /\ q.asserted = r.asserted
<1>1. q \in Cycle
  BY DEF Unmapped, Cycle, Status
<1>2. /\ q.born = r.born /\ q.owned = r.owned /\ q.closed = r.closed /\ q.open = r.open
      /\ q.role = r.role /\ q.fd = r.fd /\ q.callbacks = r.callbacks
  BY DEF Unmapped, Cycle
<1>3. /\ q.map = [r.map EXCEPT ![r.fd[c]] = NoChannel]
      /\ q.status = [r.status EXCEPT ![c] = "New"]
  BY DEF Unmapped, Cycle
<1>4. /\ q.events = r.events /\ q.epoll = r.epoll
      /\ q.ctlFailed = r.ctlFailed /\ q.asserted = r.asserted
  BY DEF Unmapped, Cycle
<1>5. QED
  BY <1>1, <1>2, <1>3, <1>4

LEMMA Marking ==
  ASSUME NEW r \in Cycle, NEW c \in Channels, r.fd[c] \in Fds,
         NEW p, p = MarkedClosed(r, c), NEW q, q = CloseFd(p, c)
  PROVE  /\ q \in Cycle
         /\ q.born = r.born /\ q.owned = r.owned /\ q.closed = r.closed \cup {c}
         /\ q.role = r.role /\ q.fd = r.fd /\ q.callbacks = r.callbacks /\ q.map = r.map
         /\ q.open = r.open \ {r.fd[c]}
         /\ q.epoll = [r.epoll EXCEPT ![r.fd[c]] = Unwatched]
         /\ q.status = r.status /\ q.events = r.events
         /\ q.ctlFailed = r.ctlFailed /\ q.asserted = r.asserted
<1>1. p \in Cycle
  BY DEF MarkedClosed, Cycle
<1>2. q \in Cycle
  BY <1>1, OperationTypes
<1>3. /\ p.born = r.born /\ p.owned = r.owned /\ p.closed = r.closed \cup {c}
      /\ p.role = r.role /\ p.fd = r.fd /\ p.callbacks = r.callbacks /\ p.map = r.map
      /\ p.open = r.open
  BY DEF MarkedClosed, Cycle
<1>4. /\ p.status = r.status /\ p.events = r.events /\ p.epoll = r.epoll
      /\ p.ctlFailed = r.ctlFailed /\ p.asserted = r.asserted
  BY DEF MarkedClosed, Cycle
<1>5. /\ q.born = p.born /\ q.owned = p.owned /\ q.closed = p.closed
      /\ q.role = p.role /\ q.fd = p.fd /\ q.callbacks = p.callbacks /\ q.map = p.map
  BY <1>1 DEF CloseFd, Cycle
<1>6. q.open = p.open \ {p.fd[c]} /\ q.epoll = [p.epoll EXCEPT ![p.fd[c]] = Unwatched]
  BY <1>1 DEF CloseFd, Cycle
<1>7. /\ q.status = p.status /\ q.events = p.events
      /\ q.ctlFailed = p.ctlFailed /\ q.asserted = p.asserted
  BY <1>1 DEF CloseFd, Cycle
<1>8. QED
  BY <1>2, <1>3, <1>4, <1>5, <1>6, <1>7

(* Channel::Close, and close()                                             *)
LEMMA Closing ==
  ASSUME NEW r, Sound(r), NEW c \in r.owned \ r.closed,
         NEW q, q = CloseFd(ChannelClose(r, c), c)
  PROVE  /\ Sound(q)
         /\ q.born = r.born /\ q.owned = r.owned /\ q.role = r.role
         /\ q.callbacks = r.callbacks /\ q.asserted = r.asserted
         /\ q.closed = r.closed \cup {c}
         /\ \A d \in Channels \ {c} : q.status[d] = r.status[d] /\ q.events[d] = r.events[d]
<1>0. PICK none \in SUBSET IO : none = {}
  OBVIOUS
<1> DEFINE f == r.fd[c]
           p == WithEvents(r, c, none)
           m == IF p.status[c] = "Set" THEN PollerRemoveChannel(p, c)
                                       ELSE Require(p, p.status[c] # "New")
           n == Unmapped(m, c)
           o == MarkedClosed(n, c)
<1>1. r \in Cycle /\ c \in Channels /\ c \in r.born /\ f \in Fds /\ f \in r.open
  BY OwnersChannel
<1>2. /\ r.status[c] \in {"Set", "Removed"}
      /\ r.status[c] = "Set" => r.epoll[f] # Unwatched
  BY OwnersChannel
<1>3. p \in Cycle /\ SameOwners(p, r)
  BY <1>1, ChangingEvents
<1>4. /\ p.status = r.status /\ p.events = [r.events EXCEPT ![c] = none]
      /\ p.epoll = r.epoll /\ p.ctlFailed = r.ctlFailed /\ p.asserted = r.asserted
  BY <1>1, ChangingEvents
<1>5. RemoveChannel(p, c) = n
  <2>1. m.fd = p.fd
    BY <1>3 DEF PollerRemoveChannel, Require, UpdateEpoll, Cycle
  <2>2. QED
    BY <2>1 DEF RemoveChannel, Unmapped
<1>6. q = CloseFd(o, c)
  <2>1. WithEvents(r, c, none) = [r EXCEPT !.events[c] = {}]
    BY <1>0 DEF WithEvents
  <2>2. QED
    BY <1>5, <2>1 DEF ChannelClose, MarkedClosed
<1>7. p.events[c] = {} /\ p.status[c] = r.status[c] /\ p.fd[c] = f /\ f \in p.open
  BY <1>0, <1>1, <1>3, <1>4 DEF Cycle, SameOwners
<1> HIDE DEF p
<1>8. /\ m \in Cycle /\ SameOwners(m, p)
      /\ m.status[c] # "New" /\ \A d \in Channels \ {c} : m.status[d] = p.status[d]
      /\ m.events = p.events
      /\ \A g \in Fds \ {f} : m.epoll[g] = p.epoll[g]
      /\ m.ctlFailed = p.ctlFailed /\ m.asserted = p.asserted
  <2>1. CASE r.status[c] = "Set"
    <3>1. m = PollerRemoveChannel(p, c)
      BY <1>7, <2>1
    <3>2. p.epoll[p.fd[c]] # Unwatched
      BY <1>2, <1>4, <1>7, <2>1
    <3> HIDE DEF m
    <3>3. /\ m \in Cycle /\ SameOwners(m, p) /\ m.status = [p.status EXCEPT ![c] = "Removed"]
          /\ m.events = p.events /\ m.epoll = [p.epoll EXCEPT ![p.fd[c]] = Unwatched]
          /\ m.ctlFailed = p.ctlFailed /\ m.asserted = p.asserted
      BY <1>1, <1>3, <1>7, <2>1, <3>1, <3>2, LeavingEpoll
    <3>4. p.status \in [Channels -> Status]
      BY <1>3 DEF Cycle
    <3>5. \A g \in Fds \ {f} : m.epoll[g] = p.epoll[g]
      BY <1>1, <1>3, <1>7, <3>3 DEF Cycle
    <3>6. QED
      BY <1>1, <1>7, <3>3, <3>4, <3>5
  <2>2. CASE r.status[c] = "Removed"
    <3>1. m = p
      <4>1. m = Require(p, p.status[c] # "New")
        BY <1>7, <2>2
      <4>2. QED
        BY <1>3, <1>7, <2>2, <4>1, Asserting
    <3> HIDE DEF m
    <3>2. QED
      BY <1>3, <1>7, <2>2, <3>1 DEF SameOwners
  <2>3. QED
    BY <1>2, <2>1, <2>2
<1> HIDE DEF m
<1>9. m.fd[c] = f
  BY <1>7, <1>8 DEF SameOwners
<1>10. /\ n \in Cycle
       /\ n.born = m.born /\ n.owned = m.owned /\ n.closed = m.closed /\ n.open = m.open
       /\ n.role = m.role /\ n.fd = m.fd /\ n.callbacks = m.callbacks
       /\ n.map = [m.map EXCEPT ![f] = NoChannel]
       /\ n.status = [m.status EXCEPT ![c] = "New"]
       /\ n.events = m.events /\ n.epoll = m.epoll
       /\ n.ctlFailed = m.ctlFailed /\ n.asserted = m.asserted
  BY <1>1, <1>8, <1>9, Unmapping
<1> HIDE DEF n
<1>11. n.fd[c] = f
  BY <1>9, <1>10
<1>12. /\ q \in Cycle
       /\ q.born = n.born /\ q.owned = n.owned /\ q.closed = n.closed \cup {c}
       /\ q.role = n.role /\ q.fd = n.fd /\ q.callbacks = n.callbacks /\ q.map = n.map
       /\ q.open = n.open \ {f}
       /\ q.epoll = [n.epoll EXCEPT ![f] = Unwatched]
       /\ q.status = n.status /\ q.events = n.events
       /\ q.ctlFailed = n.ctlFailed /\ q.asserted = n.asserted
  BY <1>1, <1>6, <1>10, <1>11, Marking
<1> HIDE DEF o
<1>13. /\ q.born = r.born /\ q.owned = r.owned /\ q.closed = r.closed \cup {c}
       /\ q.role = r.role /\ q.fd = r.fd /\ q.callbacks = r.callbacks
       /\ q.open = r.open \ {f} /\ q.map = [r.map EXCEPT ![f] = NoChannel]
       /\ q.ctlFailed = r.ctlFailed /\ q.asserted = r.asserted
  BY <1>3, <1>4, <1>8, <1>10, <1>12 DEF SameOwners
<1>14. /\ q.status[c] = "New"
       /\ \A d \in Channels \ {c} : q.status[d] = r.status[d]
  <2>1. m.status \in [Channels -> Status]
    BY <1>8 DEF Cycle
  <2>2. QED
    BY <1>1, <1>4, <1>8, <1>10, <1>12, <2>1
<1>15. /\ q.events[c] = {}
       /\ \A d \in Channels \ {c} : q.events[d] = r.events[d]
  <2>1. q.events = [r.events EXCEPT ![c] = none]
    BY <1>4, <1>8, <1>10, <1>12
  <2>2. r.events \in [Channels -> SUBSET IO]
    BY <1>1 DEF Cycle
  <2>3. QED
    BY <1>0, <1>1, <2>1, <2>2
<1>16. q.epoll = [r.epoll EXCEPT ![f] = Unwatched]
  <2>1. q.epoll[f] = Unwatched /\ \A g \in Fds \ {f} : q.epoll[g] = r.epoll[g]
    <3>1. n.epoll \in [Fds -> [ptr : Channels \cup {NoChannel}, mask : SUBSET IO]]
      BY <1>10 DEF Cycle
    <3>2. \A g \in Fds \ {f} : n.epoll[g] = r.epoll[g]
      BY <1>4, <1>8, <1>10
    <3>3. QED
      BY <1>1, <1>12, <3>1, <3>2
  <2>2. /\ q.epoll \in [Fds -> [ptr : Channels \cup {NoChannel}, mask : SUBSET IO]]
        /\ r.epoll \in [Fds -> [ptr : Channels \cup {NoChannel}, mask : SUBSET IO]]
    BY <1>1, <1>12 DEF Cycle
  <2>3. QED
    BY <1>1, <2>1, <2>2
<1>17. OthersKept(q, r, c)
  <2>1. q.owned \ q.closed = (r.owned \ r.closed) \ {c}
    BY <1>13
  <2>2. QED
    BY <1>13, <1>14, <1>15, <1>16, <2>1 DEF OthersKept
<1>18. /\ EpollSound(q) /\ OwnersSound(q)
       /\ \A d \in Channels :
            /\ q.status[d] = "Set" =>
                 d \in r.owned \ {c} /\ q.epoll[q.fd[d]].ptr = d /\ q.events[d] # {}
            /\ q.status[d] # "Set" => q.events[d] = {}
  <2>1. q \in Cycle
    BY <1>12
  <2>2. QED
    BY <1>17, <2>1, OthersKeptSound
<1>19. BornSound(q)
  BY <1>1, <1>13, <1>14 DEF Sound, BornSound
<1>20. StatusSound(q)
  <2>1. \A d \in q.born : q.status[d] = "New" <=> d \in q.closed
    BY <1>1, <1>13, <1>14 DEF Sound, StatusSound, Cycle
  <2>2. QED
    BY <1>13, <1>18, <2>1 DEF StatusSound
<1>21. MapSound(q)
  <2> SUFFICES ASSUME ~r.asserted
               PROVE  /\ \A d \in q.born \ q.closed : q.map[q.fd[d]] = d
                      /\ \A g \in Fds : q.map[g] # NoChannel =>
                           q.map[g] \in q.born \ q.closed /\ q.fd[q.map[g]] = g
    BY <1>13 DEF MapSound
  <2>1. /\ \A d \in r.born \ r.closed : r.map[r.fd[d]] = d
        /\ \A g \in Fds : r.map[g] # NoChannel =>
             r.map[g] \in r.born \ r.closed /\ r.fd[r.map[g]] = g
    BY DEF Sound, MapSound
  <2>2. q.map[f] = NoChannel /\ \A g \in Fds \ {f} : q.map[g] = r.map[g]
    BY <1>1, <1>13 DEF Cycle
  <2>3. ASSUME NEW d \in q.born \ q.closed
        PROVE  q.map[q.fd[d]] = d
    <3>1. d \in r.born \ r.closed /\ d # c
      BY <1>13
    <3>2. r.fd[d] \in Fds
      BY <3>1 DEF Sound, BornSound
    <3>3. r.map[r.fd[d]] = d /\ r.map[f] = c
      BY <1>1, <2>1, <3>1
    <3>4. QED
      BY <1>13, <2>2, <3>1, <3>2, <3>3
  <2>4. ASSUME NEW g \in Fds, q.map[g] # NoChannel
        PROVE  q.map[g] \in q.born \ q.closed /\ q.fd[q.map[g]] = g
    <3>1. g # f /\ q.map[g] = r.map[g]
      BY <2>2, <2>4
    <3>2. r.map[g] \in r.born \ r.closed /\ r.fd[r.map[g]] = g
      BY <2>1, <2>4, <3>1
    <3>3. QED
      BY <1>13, <3>1, <3>2
  <2>5. QED
    BY <2>3, <2>4
<1>22. ~q.ctlFailed
  BY <1>13 DEF Sound
<1>23. Sound(q)
  BY <1>12, <1>18, <1>19, <1>20, <1>21, <1>22 DEF Sound
<1>24. QED
  BY <1>13, <1>14, <1>15, <1>23

-----------------------------------------------------------------------------
(* What the handlers make of the cycle: a channel more ...                 *)
Opened(q, r, c, f, role, kinds) ==
  /\ q.born = r.born \cup {c} /\ q.owned = r.owned \cup {c} /\ q.closed = r.closed
  /\ q.role[c] = role /\ q.callbacks[c] = kinds
  /\ \A d \in Channels \ {c} :
       /\ q.role[d] = r.role[d] /\ q.status[d] = r.status[d]
       /\ q.callbacks[d] = r.callbacks[d]
  /\ q.asserted <=> (r.asserted \/ r.map[f] # NoChannel)

LEMMA Accepting ==
  ASSUME NEW r, Sound(r), NEW c \in Channels, NEW f \in Fds, NEW role \in Roles,
         c \notin r.born, f \notin r.open, NEW kinds \in SUBSET Events,
         NEW q, q = SetCallbacks(RegisterChannel(Construct(r, c, f, role), c), c, kinds)
  PROVE  Sound(q) /\ Opened(q, r, c, f, role, kinds) /\ q.status[c] = "Removed"
<1> DEFINE p == RegisterChannel(Construct(r, c, f, role), c)
<1>1. r \in Cycle
  BY DEF Sound
<1>2. /\ Sound(p)
      /\ p.born = r.born \cup {c} /\ p.owned = r.owned \cup {c}
      /\ p.closed = r.closed
      /\ p.role = [r.role EXCEPT ![c] = role]
      /\ p.status = [r.status EXCEPT ![c] = "Removed"]
      /\ p.callbacks = r.callbacks
      /\ p.asserted = (r.asserted \/ r.map[f] # NoChannel)
  BY Opening
<1>3. q = SetCallbacks(p, c, kinds)
  OBVIOUS
<1> HIDE DEF p
<1>4. /\ Sound(q)
      /\ q.born = p.born /\ q.owned = p.owned /\ q.closed = p.closed
      /\ q.role = p.role /\ q.status = p.status
      /\ q.callbacks = [p.callbacks EXCEPT ![c] = kinds] /\ q.asserted = p.asserted
  BY <1>2, <1>3, CallbacksSound
<1>5. q.born = r.born \cup {c} /\ q.owned = r.owned \cup {c} /\ q.closed = r.closed
  BY <1>2, <1>4
<1>6. /\ q.role[c] = role /\ q.status[c] = "Removed"
      /\ \A d \in Channels \ {c} : q.role[d] = r.role[d] /\ q.status[d] = r.status[d]
  BY <1>1, <1>2, <1>4 DEF Cycle
<1>7. /\ q.callbacks[c] = kinds
      /\ \A d \in Channels \ {c} : q.callbacks[d] = r.callbacks[d]
  BY <1>1, <1>2, <1>4 DEF Cycle
<1>8. q.asserted <=> (r.asserted \/ r.map[f] # NoChannel)
  BY <1>2, <1>4
<1>9. QED
  BY <1>4, <1>5, <1>6, <1>7, <1>8 DEF Opened

LEMMA Watching ==
  ASSUME NEW r, Sound(r), NEW c \in Channels, NEW f \in Fds, NEW role \in Roles,
         c \notin r.born, f \notin r.open, NEW kinds \in SUBSET Events,
         NEW kind \in IO, kind \in kinds,
         NEW p, p = SetCallbacks(RegisterChannel(Construct(r, c, f, role), c), c, kinds),
         NEW q, q = Enable(p, c, kind)
  PROVE  Sound(q) /\ Opened(q, r, c, f, role, kinds) /\ q.status[c] = "Set"
<1>1. Sound(p) /\ Opened(p, r, c, f, role, kinds)
  BY Accepting
<1>2. c \in p.owned \ p.closed
  BY <1>1 DEF Opened, Sound, BornSound
<1>3. /\ Sound(q) /\ SameOwners(q, p) /\ q.status[c] = "Set"
      /\ \A d \in Channels \ {c} : q.status[d] = p.status[d]
      /\ q.asserted <=> (p.asserted \/ kind \notin p.callbacks[c])
  BY <1>1, <1>2, Enabling
<1>4. q.asserted <=> (r.asserted \/ r.map[f] # NoChannel)
  BY <1>1, <1>3 DEF Opened
<1>5. QED
  BY <1>1, <1>3, <1>4 DEF Opened, SameOwners

(* ... or one that failed to connect and leaves only an entry in the map   *)
LEMMA Refusing ==
  ASSUME NEW r, Sound(r), NEW c \in Channels, NEW f \in Fds, NEW role \in Roles,
         c \notin r.born, f \notin r.open,
         NEW q, q = CloseFd(Drop(RegisterChannel(Construct(r, c, f, role), c), c), c)
  PROVE  /\ Sound(q)
         /\ q.born = r.born \cup {c} /\ q.owned = r.owned /\ q.closed = r.closed
         /\ q.role[c] = role
         /\ \A d \in Channels \ {c} :
              /\ q.role[d] = r.role[d] /\ q.status[d] = r.status[d]
              /\ q.callbacks[d] = r.callbacks[d]
<1> DEFINE p == RegisterChannel(Construct(r, c, f, role), c)
<1>1. r \in Cycle /\ r.owned \subseteq r.born /\ r.closed \subseteq r.born
  BY DEF Sound, BornSound
<1>2. /\ Sound(p)
      /\ p.born = r.born \cup {c} /\ p.owned = r.owned \cup {c}
      /\ p.closed = r.closed
      /\ p.role = [r.role EXCEPT ![c] = role]
      /\ p.status = [r.status EXCEPT ![c] = "Removed"] /\ p.callbacks = r.callbacks
  BY Opening
<1>3. q = CloseFd(Drop(p, c), c)
  OBVIOUS
<1> HIDE DEF p
<1>4. c \in p.owned \ p.closed /\ p.status[c] = "Removed"
  BY <1>1, <1>2 DEF Cycle
<1>5. /\ Sound(q)
      /\ q.born = p.born /\ q.closed = p.closed /\ q.role = p.role
      /\ q.owned = p.owned \ {c} /\ q.status = p.status /\ q.callbacks = p.callbacks
  <2>1. Sound(p)
    BY <1>2
  <2>2. QED
    BY <1>3, <1>4, <2>1, Abandoning
<1>6. q.owned = r.owned
  BY <1>1, <1>2, <1>5
<1>7. /\ q.role[c] = role
      /\ \A d \in Channels \ {c} : q.role[d] = r.role[d] /\ q.status[d] = r.status[d]
  BY <1>1, <1>2, <1>5 DEF Cycle
<1>8. QED
  BY <1>2, <1>5, <1>6, <1>7

(* Soundness does not depend on what a channel is for.                     *)
WithRole(r, c, role) == [r EXCEPT !.role[c] = role]

LEMMA ChangingRole ==
  ASSUME NEW r, Sound(r), NEW c \in Channels, NEW role \in Roles,
         NEW q, q = WithRole(r, c, role)
  PROVE  /\ Sound(q)
         /\ q.born = r.born /\ q.owned = r.owned /\ q.closed = r.closed
         /\ q.status = r.status /\ q.callbacks = r.callbacks /\ q.asserted = r.asserted
         /\ q.role[c] = role /\ \A d \in Channels \ {c} : q.role[d] = r.role[d]
<1>1. r \in Cycle
  BY DEF Sound
<1>2. q \in Cycle
  BY <1>1 DEF WithRole, Cycle
<1>3. /\ q.born = r.born /\ q.owned = r.owned /\ q.closed = r.closed /\ q.open = r.open
      /\ q.fd = r.fd /\ q.callbacks = r.callbacks /\ q.map = r.map
  BY <1>1 DEF WithRole, Cycle
<1>4. /\ q.status = r.status /\ q.events = r.events /\ q.epoll = r.epoll
      /\ q.ctlFailed = r.ctlFailed /\ q.asserted = r.asserted
  BY <1>1 DEF WithRole, Cycle
<1>5. q.role[c] = role /\ \A d \in Channels \ {c} : q.role[d] = r.role[d]
  BY <1>1 DEF WithRole, Cycle
<1>6. Sound(q)
  BY <1>2, <1>3, <1>4
  DEF Sound, BornSound, StatusSound, EpollSound, OwnersSound, MapSound
<1>7. QED
  BY <1>3, <1>4, <1>5, <1>6

(* finalise: the channel leaves epoll and changes hands.                   *)
LEMMA Finalising ==
  ASSUME NEW r, Sound(r), NEW c \in r.owned \ r.closed, r.status[c] = "Set",
         NEW role \in Roles, NEW p, p = DisableAll(r, c), NEW q, q = WithRole(p, c, role)
  PROVE  /\ Sound(q)
         /\ q.born = r.born /\ q.owned = r.owned /\ q.closed = r.closed
         /\ q.role[c] = role /\ q.status[c] = "Removed"
         /\ \A d \in Channels \ {c} : q.role[d] = r.role[d] /\ q.status[d] = r.status[d]
         /\ q.callbacks = r.callbacks /\ q.asserted = r.asserted
<1>1. c \in Channels
  BY OwnersChannel
<1>2. /\ Sound(p) /\ SameOwners(p, r)
      /\ p.status[c] = "Removed"
      /\ \A d \in Channels \ {c} : p.status[d] = r.status[d]
      /\ p.asserted = r.asserted
  BY DisablingAll
<1>3. /\ Sound(q)
      /\ q.born = p.born /\ q.owned = p.owned /\ q.closed = p.closed
      /\ q.status = p.status /\ q.callbacks = p.callbacks /\ q.asserted = p.asserted
      /\ q.role[c] = role /\ \A d \in Channels \ {c} : q.role[d] = p.role[d]
  BY <1>1, <1>2, ChangingRole
<1>4. QED
  BY <1>2, <1>3 DEF SameOwners

LEMMA Succeeding ==
  ASSUME NEW r, Sound(r), NEW c \in r.owned \ r.closed, r.status[c] = "Set",
         NEW kinds \in SUBSET Events, NEW role \in Roles,
         NEW p, p = DisableAll(r, c), NEW s, s = SetCallbacks(p, c, kinds),
         NEW q, q = WithRole(s, c, role)
  PROVE  /\ Sound(q)
         /\ q.born = r.born /\ q.owned = r.owned /\ q.closed = r.closed
         /\ q.role[c] = role /\ q.callbacks[c] = kinds /\ q.asserted = r.asserted
         /\ \A d \in Channels \ {c} :
              /\ q.role[d] = r.role[d] /\ q.status[d] = r.status[d]
              /\ q.callbacks[d] = r.callbacks[d]
<1>1. c \in Channels /\ r \in Cycle
  BY OwnersChannel
<1>2. /\ Sound(p) /\ SameOwners(p, r)
      /\ \A d \in Channels \ {c} : p.status[d] = r.status[d]
      /\ p.asserted = r.asserted
  BY DisablingAll
<1>3. Sound(p)
  BY <1>2
<1>4. /\ Sound(s)
      /\ s.born = p.born /\ s.owned = p.owned /\ s.closed = p.closed
      /\ s.role = p.role /\ s.status = p.status
      /\ s.callbacks = [p.callbacks EXCEPT ![c] = kinds] /\ s.asserted = p.asserted
  BY <1>1, <1>3, CallbacksSound
<1>5. /\ Sound(q)
      /\ q.born = s.born /\ q.owned = s.owned /\ q.closed = s.closed
      /\ q.status = s.status /\ q.callbacks = s.callbacks /\ q.asserted = s.asserted
      /\ q.role[c] = role /\ \A d \in Channels \ {c} : q.role[d] = s.role[d]
  BY <1>1, <1>4, ChangingRole
<1>6. q.callbacks[c] = kinds /\ \A d \in Channels \ {c} : q.callbacks[d] = r.callbacks[d]
  <2>1. p.callbacks = r.callbacks
    BY <1>2 DEF SameOwners
  <2>2. q.callbacks = [r.callbacks EXCEPT ![c] = kinds]
    BY <1>4, <1>5, <2>1
  <2>3. QED
    BY <1>1, <2>2 DEF Cycle
<1>7. QED
  BY <1>2, <1>4, <1>5, <1>6 DEF SameOwners

-----------------------------------------------------------------------------
(* A socket that connects waits in epoll until finalise; one that has      *)
(* failed to connect is destroyed before its callback returns.             *)
ConnectsSound ==
  /\ \A c \in cycle.born : cycle.role[c] = "connect" =>
       c \in cycle.owned \ cycle.closed /\ cycle.status[c] = "Set"
  /\ \A c \in cycle.owned : cycle.role[c] = "failed" =>
       /\ c \notin cycle.closed /\ cycle.status[c] = "Removed"
       /\ c = active /\ pc = "callback"

LoopTypes ==
  /\ stop \in BOOLEAN /\ pc \in PC
  /\ currentChannels \in SUBSET Channels
  /\ revents \in [Channels -> SUBSET Events]
  /\ active \in Channels \cup {NoChannel}
  /\ todo \in Seq(Events)

(* The callback that runs is that of a channel with an owner.              *)
ActiveSound ==
  /\ pc = "processing" => active \in Channels
  /\ pc = "callback" => active \in cycle.owned

Inv == Sound(cycle) /\ LoopTypes /\ ActiveSound /\ ConnectsSound

LEMMA InitInv == Init => Inv
<1> SUFFICES ASSUME Init PROVE Inv
  OBVIOUS
<1>1. /\ cycle.born = {} /\ cycle.owned = {} /\ cycle.closed = {} /\ cycle.open = {}
      /\ cycle.status = [c \in Channels |-> "New"]
      /\ cycle.events = [c \in Channels |-> {}]
      /\ cycle.map = [f \in Fds |-> NoChannel]
      /\ cycle.epoll = [f \in Fds |-> Unwatched]
      /\ ~cycle.ctlFailed
  BY DEF Init
<1>2. cycle \in Cycle
  BY DEF Init, Cycle, Status, Roles, Unwatched
<1>3. BornSound(cycle)
  BY <1>1 DEF BornSound
<1>4. StatusSound(cycle)
  BY <1>1 DEF StatusSound
<1>5. EpollSound(cycle)
  BY <1>1 DEF EpollSound, Unwatched
<1>6. OwnersSound(cycle)
  BY <1>1 DEF OwnersSound
<1>7. MapSound(cycle)
  BY <1>1 DEF MapSound
<1>8. Sound(cycle)
  BY <1>1, <1>2, <1>3, <1>4, <1>5, <1>6, <1>7 DEF Sound
<1>9. LoopTypes /\ ActiveSound
  <2>1. /\ stop = FALSE /\ pc = "setup" /\ currentChannels = {}
        /\ revents = [c \in Channels |-> {}] /\ active = NoChannel /\ todo = <<>>
    BY DEF Init
  <2>2. revents \in [Channels -> SUBSET Events] /\ todo \in Seq(Events)
    BY <2>1
  <2>3. pc \in PC
    BY <2>1 DEF PC
  <2>4. LoopTypes
    BY <2>1, <2>2, <2>3 DEF LoopTypes
  <2>5. ActiveSound
    BY <2>1 DEF ActiveSound
  <2>6. QED
    BY <2>4, <2>5
<1>10. ConnectsSound
  BY <1>1 DEF ConnectsSound
<1>11. QED
  BY <1>8, <1>9, <1>10 DEF Inv

LEMMA NextInv == Inv /\ [Next]_vars => Inv'
<1> SUFFICES ASSUME Inv, [Next]_vars PROVE Inv'
  OBVIOUS
<1>1. /\ Sound(cycle) /\ LoopTypes /\ ActiveSound /\ ConnectsSound
      /\ cycle \in Cycle
      /\ cycle.owned \subseteq cycle.born /\ cycle.closed \subseteq cycle.born
      /\ cycle.born \subseteq Channels
  BY DEF Inv, Sound, BornSound, Cycle
<1>2. ASSUME NEW c \in Channels, NEW f \in Fds, Watch(c, f)
      PROVE  Inv'
  <2>1. PICK kinds \in SUBSET Events : kinds = {"read"}
    BY DEF Events, IO
  <2>2. PICK role \in Roles : role = "watcher"
    BY DEF Roles
  <2>3. PICK kind \in IO : kind = "read"
    BY DEF IO
  <2>4. PICK p : p = SetCallbacks(RegisterChannel(Construct(cycle, c, f, role), c), c, kinds)
    OBVIOUS
  <2>5. cycle' = Enable(p, c, kind)
    BY <1>2, <2>1, <2>2, <2>3, <2>4 DEF Watch
  <2>6. pc = "setup" /\ c \notin cycle.born /\ f \notin cycle.open
    BY <1>2 DEF Watch, Fresh
  <2>7. /\ Sound(cycle') /\ Opened(cycle', cycle, c, f, role, kinds)
        /\ cycle'.status[c] = "Set"
    BY <1>1, <2>1, <2>3, <2>4, <2>5, <2>6, Watching
  <2>8. (LoopTypes /\ ActiveSound)'
    BY <1>1, <1>2, <2>6 DEF Watch, LoopTypes, ActiveSound
  <2>9. ConnectsSound'
    BY <1>1, <1>2, <2>2, <2>6, <2>7 DEF Watch, ConnectsSound, Opened
  <2>10. QED
    BY <2>7, <2>8, <2>9 DEF Inv
<1>3. ASSUME NEW c \in Channels, NEW f \in Fds, Accept(c, f)
      PROVE  Inv'
  <2>1. PICK kinds \in SUBSET Events : kinds = Events
    OBVIOUS
  <2>2. PICK role \in Roles : role = "connected"
    BY DEF Roles
  <2>3. cycle' = SetCallbacks(RegisterChannel(Construct(cycle, c, f, role), c), c, kinds)
    BY <1>3, <2>1, <2>2 DEF Accept
  <2>4. c \notin cycle.born /\ f \notin cycle.open
    BY <1>3 DEF Accept, Fresh
  <2>5. Sound(cycle') /\ Opened(cycle', cycle, c, f, role, kinds)
    BY <1>1, <2>3, <2>4, Accepting
  <2>6. (LoopTypes /\ ActiveSound)'
    BY <1>1, <1>3, <2>5 DEF Accept, LoopTypes, ActiveSound, Opened
  <2>7. ConnectsSound'
    BY <1>1, <1>3, <2>2, <2>4, <2>5 DEF Accept, ConnectsSound, Opened
  <2>8. QED
    BY <2>5, <2>6, <2>7 DEF Inv
<1>4. ASSUME NEW c \in Channels, NEW f \in Fds, Connect(c, f)
      PROVE  Inv'
  <2>1. PICK kinds \in SUBSET Events : kinds = {"write", "error"}
    BY DEF Events, IO
  <2>2. PICK role \in Roles : role = "connect"
    BY DEF Roles
  <2>3. PICK kind \in IO : kind = "write"
    BY DEF IO
  <2>4. PICK p : p = SetCallbacks(RegisterChannel(Construct(cycle, c, f, role), c), c, kinds)
    OBVIOUS
  <2>5. cycle' = Enable(p, c, kind)
    BY <1>4, <2>1, <2>2, <2>3, <2>4 DEF Connect
  <2>6. c \notin cycle.born /\ f \notin cycle.open
    BY <1>4 DEF Connect, Fresh
  <2>7. /\ Sound(cycle') /\ Opened(cycle', cycle, c, f, role, kinds)
        /\ cycle'.status[c] = "Set"
    BY <1>1, <2>1, <2>3, <2>4, <2>5, <2>6, Watching
  <2>8. (LoopTypes /\ ActiveSound)'
    BY <1>1, <1>4, <2>7 DEF Connect, LoopTypes, ActiveSound, Opened
  <2>9. ConnectsSound'
    BY <1>1, <1>4, <2>2, <2>6, <2>7 DEF Connect, ConnectsSound, Opened
  <2>10. QED
    BY <2>7, <2>8, <2>9 DEF Inv
<1>5. ASSUME NEW c \in Channels, NEW f \in Fds, ConnectRefused(c, f)
      PROVE  Inv'
  <2>1. PICK role \in Roles : role = "failed"
    BY DEF Roles
  <2>2. cycle' = CloseFd(Drop(RegisterChannel(Construct(cycle, c, f, role), c), c), c)
    BY <1>5, <2>1 DEF ConnectRefused
  <2>3. c \notin cycle.born /\ f \notin cycle.open
    BY <1>5 DEF ConnectRefused, Fresh
  <2>4. /\ Sound(cycle')
        /\ cycle'.born = cycle.born \cup {c} /\ cycle'.owned = cycle.owned
        /\ cycle'.closed = cycle.closed
        /\ cycle'.role[c] = role
        /\ \A d \in Channels \ {c} :
             cycle'.role[d] = cycle.role[d] /\ cycle'.status[d] = cycle.status[d]
    BY <1>1, <2>2, <2>3, Refusing
  <2>5. (LoopTypes /\ ActiveSound)'
    BY <1>1, <1>5, <2>4 DEF ConnectRefused, LoopTypes, ActiveSound
  <2>6. ConnectsSound'
    BY <1>1, <1>5, <2>1, <2>3, <2>4 DEF ConnectRefused, ConnectsSound
  <2>7. QED
    BY <2>4, <2>5, <2>6 DEF Inv
<1>6. ASSUME ConnectSucceeds
      PROVE  Inv'
  <2>1. /\ pc = "callback" /\ active \in cycle.owned \ cycle.closed
        /\ cycle.role[active] = "connect" /\ cycle.status[active] = "Set"
    BY <1>1, <1>6 DEF ConnectSucceeds, ActiveSound, ConnectsSound
  <2>2. PICK role \in Roles : role = "connected"
    BY DEF Roles
  <2>3. PICK kinds \in SUBSET Events : kinds = Events
    OBVIOUS
  <2>4. PICK p : p = DisableAll(cycle, active)
    OBVIOUS
  <2>5. PICK s : s = SetCallbacks(p, active, kinds)
    OBVIOUS
  <2>6. cycle' = WithRole(s, active, role)
    BY <1>6, <2>2, <2>3, <2>4, <2>5 DEF ConnectSucceeds, WithRole
  <2>7. /\ Sound(cycle')
        /\ cycle'.born = cycle.born /\ cycle'.owned = cycle.owned
        /\ cycle'.closed = cycle.closed
        /\ cycle'.role[active] = role
        /\ \A d \in Channels \ {active} :
             cycle'.role[d] = cycle.role[d] /\ cycle'.status[d] = cycle.status[d]
    BY <1>1, <2>1, <2>4, <2>5, <2>6, Succeeding
  <2>8. active \in Channels
    BY <1>1, <2>1
  <2>9. (LoopTypes /\ ActiveSound)'
    BY <1>1, <1>6, <2>7 DEF ConnectSucceeds, LoopTypes, ActiveSound
  <2>10. ConnectsSound'
    BY <1>1, <1>6, <2>1, <2>2, <2>7, <2>8 DEF ConnectSucceeds, ConnectsSound
  <2>11. QED
    BY <2>7, <2>9, <2>10 DEF Inv
<1>7. ASSUME ConnectFails
      PROVE  Inv'
  <2>1. /\ pc = "callback" /\ active \in cycle.owned \ cycle.closed
        /\ cycle.role[active] = "connect" /\ cycle.status[active] = "Set"
        /\ active \in Channels
    BY <1>1, <1>7 DEF ConnectFails, ActiveSound, ConnectsSound
  <2>2. PICK role \in Roles : role = "failed"
    BY DEF Roles
  <2>3. PICK p : p = DisableAll(cycle, active)
    OBVIOUS
  <2>4. cycle' = WithRole(p, active, role)
    BY <1>7, <2>2, <2>3 DEF ConnectFails, WithRole
  <2>5. /\ Sound(cycle')
        /\ cycle'.born = cycle.born /\ cycle'.owned = cycle.owned
        /\ cycle'.closed = cycle.closed
        /\ cycle'.role[active] = role /\ cycle'.status[active] = "Removed"
        /\ \A d \in Channels \ {active} :
             cycle'.role[d] = cycle.role[d] /\ cycle'.status[d] = cycle.status[d]
    BY <1>1, <2>1, <2>3, <2>4, Finalising
  <2>6. (LoopTypes /\ ActiveSound)'
    BY <1>1, <1>7, <2>5 DEF ConnectFails, LoopTypes, ActiveSound
  <2>7. ConnectsSound'
    BY <1>1, <1>7, <2>1, <2>2, <2>5 DEF ConnectFails, ConnectsSound
  <2>8. QED
    BY <2>5, <2>6, <2>7 DEF Inv
<1>8. ASSUME NEW c \in Channels, NEW kind \in IO, EnableIO(c, kind)
      PROVE  Inv'
  <2>1. cycle' = Enable(cycle, c, kind)
    BY <1>8 DEF EnableIO
  <2>2. c \in cycle.owned \ cycle.closed /\ cycle.role[c] = "connected"
    BY <1>8 DEF EnableIO, IsConnection
  <2>3. /\ Sound(cycle') /\ SameOwners(cycle', cycle)
        /\ \A d \in Channels \ {c} : cycle'.status[d] = cycle.status[d]
    BY <1>1, <2>1, <2>2, Enabling
  <2>4. (LoopTypes /\ ActiveSound)'
    BY <1>1, <1>8, <2>3 DEF EnableIO, LoopTypes, ActiveSound, SameOwners
  <2>5. ConnectsSound'
    BY <1>1, <1>8, <2>2, <2>3 DEF EnableIO, ConnectsSound, SameOwners
  <2>6. QED
    BY <2>3, <2>4, <2>5 DEF Inv
<1>9. ASSUME NEW c \in Channels, NEW kind \in IO, DisableIO(c, kind)
      PROVE  Inv'
  <2>1. cycle' = Disable(cycle, c, kind)
    BY <1>9 DEF DisableIO
  <2>2. /\ c \in cycle.owned \ cycle.closed /\ cycle.role[c] = "connected"
        /\ kind \in cycle.events[c]
    BY <1>9 DEF DisableIO, IsConnection
  <2>3. /\ Sound(cycle') /\ SameOwners(cycle', cycle)
        /\ \A d \in Channels \ {c} : cycle'.status[d] = cycle.status[d]
    BY <1>1, <2>1, <2>2, Disabling
  <2>4. (LoopTypes /\ ActiveSound)'
    BY <1>1, <1>9, <2>3 DEF DisableIO, LoopTypes, ActiveSound, SameOwners
  <2>5. ConnectsSound'
    BY <1>1, <1>9, <2>2, <2>3 DEF DisableIO, ConnectsSound, SameOwners
  <2>6. QED
    BY <2>3, <2>4, <2>5 DEF Inv
<1>10. ASSUME NEW c \in Channels, CloseConnection(c)
       PROVE  Inv'
  <2>1. cycle' = CloseFd(ChannelClose(cycle, c), c)
    BY <1>10 DEF CloseConnection
  <2>2. c \in cycle.owned \ cycle.closed /\ cycle.role[c] = "connected"
    BY <1>10 DEF CloseConnection, IsConnection
  <2>3. /\ Sound(cycle')
        /\ cycle'.born = cycle.born /\ cycle'.owned = cycle.owned
        /\ cycle'.role = cycle.role
        /\ cycle'.closed = cycle.closed \cup {c}
        /\ \A d \in Channels \ {c} : cycle'.status[d] = cycle.status[d]
    BY <1>1, <2>1, <2>2, Closing
  <2>4. (LoopTypes /\ ActiveSound)'
    BY <1>1, <1>10, <2>3 DEF CloseConnection, LoopTypes, ActiveSound
  <2>5. ConnectsSound'
    BY <1>1, <1>10, <2>2, <2>3 DEF CloseConnection, ConnectsSound
  <2>6. QED
    BY <2>3, <2>4, <2>5 DEF Inv
<1>11. ASSUME NEW c \in Channels, Release(c)
       PROVE  Inv'
  <2>1. cycle' = Drop(cycle, c) /\ c \in cycle.owned \cap cycle.closed
    BY <1>11 DEF Release
  <2>2. /\ Sound(cycle')
        /\ cycle'.born = cycle.born /\ cycle'.owned = cycle.owned \ {c}
        /\ cycle'.closed = cycle.closed /\ cycle'.role = cycle.role
        /\ cycle'.status = cycle.status
        /\ cycle.status[c] = "New"
    BY <1>1, <2>1, Dropping
  <2>3. (LoopTypes /\ ActiveSound)'
    BY <1>1, <1>11, <2>2 DEF Release, LoopTypes, ActiveSound
  <2>4. ConnectsSound'
    BY <1>1, <1>11, <2>1, <2>2 DEF Release, ConnectsSound
  <2>5. QED
    BY <2>2, <2>3, <2>4 DEF Inv
<1>12. ASSUME Poll
       PROVE  Inv'
  <2>1. PICK reported \in [Fds -> SUBSET Events] :
          /\ \A f \in Fds : reported[f] \in Reports(f)
          /\ currentChannels' = {cycle.epoll[f].ptr : f \in {g \in Fds : reported[g] # {}}}
          /\ revents' = [c \in Channels |->
               UNION {reported[f] : f \in {g \in Fds : cycle.epoll[g].ptr = c}}]
    BY <1>12 DEF Poll
  <2>2. currentChannels' \in SUBSET Channels
    BY <1>1, <2>1 DEF Reports, Cycle
  <2>3. revents' \in [Channels -> SUBSET Events]
    BY <2>1
  <2>4. UNCHANGED <<cycle, stop, active, todo>> /\ pc = "polling" /\ pc' = "dispatching"
    BY <1>12 DEF Poll
  <2>5. Sound(cycle')
    BY <1>1, <2>4
  <2>6. (LoopTypes /\ ActiveSound)'
    BY <1>1, <2>2, <2>3, <2>4 DEF LoopTypes, ActiveSound, PC
  <2>7. ConnectsSound'
    BY <1>1, <2>4 DEF ConnectsSound
  <2>8. QED
    BY <2>5, <2>6, <2>7 DEF Inv
<1>13. ASSUME NEW c \in Channels, Lock(c)
       PROVE  Inv'
  <2>1. UNCHANGED cycle /\ pc = "dispatching"
    BY <1>13 DEF Lock
  <2>2. (LoopTypes /\ ActiveSound)'
    <3>1. UNCHANGED <<stop, revents>> /\ currentChannels' \in SUBSET Channels
      BY <1>1, <1>13 DEF Lock, LoopTypes
    <3>2. CASE Alive(c)
      <4>1. active' = c /\ todo' = <<"error", "read", "write">> /\ pc' = "processing"
        BY <1>13, <3>2 DEF Lock
      <4>2. todo' \in Seq(Events)
        BY <4>1 DEF Events, IO
      <4>3. QED
        BY <1>1, <3>1, <4>1, <4>2 DEF LoopTypes, ActiveSound, PC
    <3>3. CASE ~Alive(c)
      BY <1>1, <1>13, <2>1, <3>1, <3>3 DEF Lock, LoopTypes, ActiveSound
    <3>4. QED
      BY <3>2, <3>3
  <2>3. ConnectsSound'
    BY <1>1, <2>1 DEF ConnectsSound
  <2>4. QED
    BY <1>1, <2>1, <2>2, <2>3 DEF Inv
<1>14. ASSUME ProcessEvents
       PROVE  Inv'
  <2>1. UNCHANGED cycle /\ pc = "processing"
    BY <1>14 DEF ProcessEvents
  <2>2. LoopTypes'
    BY <1>1, <1>14 DEF ProcessEvents, LoopTypes, PC
  <2>3. ActiveSound'
    BY <1>1, <1>14 DEF ProcessEvents, ActiveSound
  <2>4. ConnectsSound'
    BY <1>1, <2>1 DEF ConnectsSound
  <2>5. QED
    BY <1>1, <2>1, <2>2, <2>3, <2>4 DEF Inv
<1>15. ASSUME Return
       PROVE  Inv'
  <2>1. /\ pc = "callback" /\ pc' = "processing" /\ UNCHANGED active
        /\ active \in cycle.owned /\ active \in Channels
    BY <1>1, <1>15 DEF Return, InCallback, ActiveSound
  <2>2. (LoopTypes /\ ActiveSound)'
    BY <1>1, <1>15, <2>1 DEF Return, LoopTypes, ActiveSound, PC
  <2>3. CASE cycle.role[active] = "failed"
    <3>1. cycle' = CloseFd(Drop(cycle, active), active)
      BY <1>15, <2>3 DEF Return
    <3>2. active \in cycle.owned \ cycle.closed /\ cycle.status[active] = "Removed"
      BY <1>1, <2>1, <2>3 DEF ConnectsSound
    <3>3. /\ Sound(cycle')
          /\ cycle'.born = cycle.born /\ cycle'.closed = cycle.closed
          /\ cycle'.role = cycle.role
          /\ cycle'.owned = cycle.owned \ {active} /\ cycle'.status = cycle.status
      BY <1>1, <3>1, <3>2, Abandoning
    <3>4. ConnectsSound'
      BY <1>1, <2>3, <3>3 DEF ConnectsSound
    <3>5. QED
      BY <2>2, <3>3, <3>4 DEF Inv
  <2>4. CASE cycle.role[active] # "failed"
    <3>1. UNCHANGED cycle
      BY <1>15, <2>4 DEF Return
    <3>2. ConnectsSound'
      BY <1>1, <2>4, <3>1 DEF ConnectsSound
    <3>3. QED
      BY <1>1, <2>2, <3>1, <3>2 DEF Inv
  <2>5. QED
    BY <2>3, <2>4
<1>16. ASSUME Start \/ TopOfLoop \/ EndOfBatch \/ Unlock
       PROVE  Inv'
  <2>1. /\ UNCHANGED cycle /\ pc \in {"setup", "top", "dispatching", "processing"}
        /\ pc' \in {"top", "polling", "exited", "dispatching"}
    BY <1>16 DEF Start, TopOfLoop, EndOfBatch, Unlock
  <2>2. (LoopTypes /\ ActiveSound)'
    BY <1>1, <1>16, <2>1
    DEF Start, TopOfLoop, EndOfBatch, Unlock, LoopTypes, ActiveSound, PC
  <2>3. ConnectsSound'
    BY <1>1, <2>1 DEF ConnectsSound
  <2>4. QED
    BY <1>1, <2>1, <2>2, <2>3 DEF Inv
<1>17. CASE Stop \/ UNCHANGED vars
  <2>1. UNCHANGED <<cycle, pc, currentChannels, revents, active, todo>> /\ stop' \in BOOLEAN
    BY <1>1, <1>17 DEF Stop, vars, LoopTypes
  <2>2. QED
    BY <1>1, <2>1 DEF Inv, LoopTypes, ActiveSound, ConnectsSound
<1>18. QED
  BY <1>2, <1>3, <1>4, <1>5, <1>6, <1>7, <1>8, <1>9, <1>10, <1>11, <1>12, <1>13,
     <1>14, <1>15, <1>16, <1>17
  DEF Next, Owner, Loop, Finalise

LEMMA SpecInv == Spec => []Inv
<1>1. Init => Inv
  BY InitInv
<1>2. Inv /\ [Next]_vars => Inv'
  BY NextInv
<1>3. QED
  BY <1>1, <1>2, PTL DEF Spec, SafeSpec

-----------------------------------------------------------------------------
(* The state of the cycle and of its channels keeps its type: no operation *)
(* of EventCycle, Channel or EpollPoller leaves Status, events or the map  *)
(* of descriptors outside what their declarations allow.                   *)
THEOREM TypeCorrect == Spec => []TypeOK
<1>1. Inv => TypeOK
  BY DEF Inv, Sound, LoopTypes, TypeOK
<1>2. QED
  BY <1>1, SpecInv, PTL

(* The pointer that EpollPoller::fillCurrentChannels takes from an         *)
(* epoll_event is that of a living channel that has the descriptor.        *)
THEOREM EpollPointersAreValid == Spec => []EpollPointersValid
<1>1. ASSUME Inv, NEW f \in Fds, NEW c, c = cycle.epoll[f].ptr, c # NoChannel
      PROVE  /\ Alive(c) /\ c \notin cycle.closed
             /\ cycle.fd[c] = f /\ f \in cycle.open
             /\ cycle.status[c] = "Set" /\ cycle.epoll[f].mask = cycle.events[c]
  <2>1. Sound(cycle) /\ cycle \in Cycle
    BY <1>1 DEF Inv, Sound
  <2>2. /\ c \in Channels /\ cycle.fd[c] = f /\ cycle.status[c] = "Set"
        /\ cycle.epoll[f].mask = cycle.events[c]
    BY <1>1, <2>1 DEF Sound, EpollSound, Cycle
  <2>3. c \in cycle.owned /\ c \notin cycle.closed
    BY <2>1, <2>2 DEF Sound, StatusSound, BornSound
  <2>4. f \in cycle.open
    BY <2>1, <2>2, <2>3 DEF Sound, OwnersSound
  <2>5. QED
    BY <2>2, <2>3, <2>4 DEF Alive
<1>2. Inv => EpollPointersValid
  BY <1>1 DEF EpollPointersValid
<1>3. QED
  BY <1>2, SpecInv, PTL

(* Status "Set" of Channel.h:29 means what it says.                        *)
THEOREM SetChannelsAreWatched == Spec => []SetMeansWatched
<1>1. Inv => SetMeansWatched
  BY DEF Inv, Sound, Cycle, StatusSound, SetMeansWatched
<1>2. QED
  BY <1>1, SpecInv, PTL

(* EpollPoller::updateEpoll never sees epoll_ctl fail.                     *)
THEOREM EpollCtlAlwaysSucceeds == Spec => []EpollCtlSucceeds
<1>1. Inv => EpollCtlSucceeds
  BY DEF Inv, Sound, EpollCtlSucceeds
<1>2. QED
  BY <1>1, SpecInv, PTL

(* ~Channel finds its channel closed, whoever let go of it last.           *)
THEOREM ChannelsAreClosedInTime == Spec => []ClosedBeforeDestroyed
<1>1. Inv => ClosedBeforeDestroyed
  <2> SUFFICES ASSUME Inv, ~cycle.asserted, NEW c \in cycle.born, c \notin cycle.closed
               PROVE  Alive(c)
    BY DEF ClosedBeforeDestroyed, Running
  <2>1. cycle.fd[c] \in Fds /\ cycle.map[cycle.fd[c]] = c
    BY DEF Inv, Sound, BornSound, MapSound
  <2>2. QED
    BY <2>1 DEF Alive
<1>2. QED
  BY <1>1, SpecInv, PTL

(* Every open descriptor has exactly one channel that will close it.       *)
THEOREM OneOwnerPerDescriptor == Spec => []DescriptorsHaveOneOwner
<1>1. Inv => DescriptorsHaveOneOwner
  <2> SUFFICES ASSUME Inv, NEW f \in cycle.open
               PROVE  \E c \in cycle.owned \ cycle.closed :
                        /\ cycle.fd[c] = f
                        /\ \A d \in cycle.owned \ cycle.closed : cycle.fd[d] = f => d = c
    BY DEF DescriptorsHaveOneOwner
  <2>1. PICK c \in cycle.owned \ cycle.closed : cycle.fd[c] = f
    BY DEF Inv, Sound, OwnersSound
  <2>2. \A d \in cycle.owned \ cycle.closed : cycle.fd[d] = f => d = c
    BY <2>1 DEF Inv, Sound, OwnersSound
  <2>3. QED
    BY <2>1, <2>2
<1>2. QED
  BY <1>1, SpecInv, PTL

-----------------------------------------------------------------------------
(* A channel that is neither closed nor owned is that of a failed          *)
(* connection, and so is what a descriptor that is not open has in the map.*)
Faultless ==
  /\ OnlyFailuresAbort
  /\ \A c \in cycle.born \ cycle.closed : c \in cycle.owned \/ cycle.role[c] = "failed"
  /\ \A c \in cycle.born : cycle.role[c] = "connected" => cycle.callbacks[c] = Events

LEMMA FreeDescriptors ==
  ASSUME Inv, Faultless, NEW f \in Fds, f \notin cycle.open, cycle.map[f] # NoChannel
  PROVE  \E c \in Channels : Failed(c)
<1>1. CASE cycle.asserted
  BY <1>1 DEF Faultless, OnlyFailuresAbort
<1>2. CASE ~cycle.asserted
  <2>1. cycle.map[f] \in cycle.born \ cycle.closed /\ cycle.fd[cycle.map[f]] = f
    BY <1>2 DEF Inv, Sound, MapSound
  <2>2. cycle.map[f] \notin cycle.owned
    BY <2>1 DEF Inv, Sound, OwnersSound
  <2>3. cycle.map[f] \in Channels
    BY <2>1 DEF Inv, Sound, Cycle
  <2>4. QED
    BY <2>1, <2>2, <2>3 DEF Faultless, Failed
<1>3. QED
  BY <1>1, <1>2

LEMMA NextFaultless ==
  ASSUME Inv, Faultless, [Next]_vars
  PROVE  Faultless'
<1>1. /\ Sound(cycle) /\ ActiveSound /\ ConnectsSound
      /\ cycle \in Cycle /\ cycle.owned \subseteq cycle.born
      /\ cycle.closed \subseteq cycle.born /\ cycle.born \subseteq Channels
  BY DEF Inv, Sound, BornSound, Cycle
<1>2. ASSUME \A c \in cycle.born : c \in cycle'.born,
             \A c \in cycle.born : cycle.role[c] = "failed" => cycle'.role[c] = "failed",
             cycle'.asserted => cycle.asserted \/ \E c \in Channels : Failed(c)
      PROVE  OnlyFailuresAbort'
  <2>1. cycle'.asserted => \E c \in Channels : Failed(c)
    BY <1>2 DEF Faultless, OnlyFailuresAbort
  <2>2. \A c \in Channels : Failed(c) => Failed(c)'
    BY <1>2 DEF Failed
  <2>3. QED
    BY <2>1, <2>2 DEF OnlyFailuresAbort
<1>3. ASSUME NEW c \in Channels, NEW f \in Fds, NEW role \in Roles, NEW kinds,
             Opened(cycle', cycle, c, f, role, kinds), c \notin cycle.born,
             f \notin cycle.open, role = "connected" => kinds = Events
      PROVE  Faultless'
  <2>1. cycle.map[f] # NoChannel => \E d \in Channels : Failed(d)
    BY <1>3, FreeDescriptors
  <2>2. OnlyFailuresAbort'
    BY <1>1, <1>2, <1>3, <2>1 DEF Opened
  <2>3. QED
    BY <1>1, <1>3, <2>2 DEF Opened, Faultless
<1>4. ASSUME NEW c \in Channels, NEW f \in Fds, Watch(c, f)
      PROVE  Faultless'
  <2>1. PICK kinds \in SUBSET Events : kinds = {"read"}
    BY DEF Events, IO
  <2>2. PICK role \in Roles : role = "watcher"
    BY DEF Roles
  <2>3. PICK kind \in IO : kind = "read"
    BY DEF IO
  <2>4. PICK p : p = SetCallbacks(RegisterChannel(Construct(cycle, c, f, role), c), c, kinds)
    OBVIOUS
  <2>5. cycle' = Enable(p, c, kind)
    BY <1>4, <2>1, <2>2, <2>3, <2>4 DEF Watch
  <2>6. c \notin cycle.born /\ f \notin cycle.open
    BY <1>4 DEF Watch, Fresh
  <2>7. Opened(cycle', cycle, c, f, role, kinds)
    BY <1>1, <2>1, <2>3, <2>4, <2>5, <2>6, Watching
  <2>8. QED
    BY <1>3, <2>2, <2>6, <2>7
<1>5. ASSUME NEW c \in Channels, NEW f \in Fds, Accept(c, f)
      PROVE  Faultless'
  <2>1. PICK kinds \in SUBSET Events : kinds = Events
    OBVIOUS
  <2>2. PICK role \in Roles : role = "connected"
    BY DEF Roles
  <2>3. cycle' = SetCallbacks(RegisterChannel(Construct(cycle, c, f, role), c), c, kinds)
    BY <1>5, <2>1, <2>2 DEF Accept
  <2>4. c \notin cycle.born /\ f \notin cycle.open
    BY <1>5 DEF Accept, Fresh
  <2>5. Opened(cycle', cycle, c, f, role, kinds)
    BY <1>1, <2>3, <2>4, Accepting
  <2>6. QED
    BY <1>3, <2>1, <2>2, <2>4, <2>5
<1>6. ASSUME NEW c \in Channels, NEW f \in Fds, Connect(c, f)
      PROVE  Faultless'
  <2>1. PICK kinds \in SUBSET Events : kinds = {"write", "error"}
    BY DEF Events, IO
  <2>2. PICK role \in Roles : role = "connect"
    BY DEF Roles
  <2>3. PICK kind \in IO : kind = "write"
    BY DEF IO
  <2>4. PICK p : p = SetCallbacks(RegisterChannel(Construct(cycle, c, f, role), c), c, kinds)
    OBVIOUS
  <2>5. cycle' = Enable(p, c, kind)
    BY <1>6, <2>1, <2>2, <2>3, <2>4 DEF Connect
  <2>6. c \notin cycle.born /\ f \notin cycle.open
    BY <1>6 DEF Connect, Fresh
  <2>7. Opened(cycle', cycle, c, f, role, kinds)
    BY <1>1, <2>1, <2>3, <2>4, <2>5, <2>6, Watching
  <2>8. QED
    BY <1>3, <2>2, <2>6, <2>7
<1>7. ASSUME NEW c \in Channels, NEW f \in Fds, ConnectRefused(c, f)
      PROVE  Faultless'
  <2>1. PICK role \in Roles : role = "failed"
    BY DEF Roles
  <2>2. cycle' = CloseFd(Drop(RegisterChannel(Construct(cycle, c, f, role), c), c), c)
    BY <1>7, <2>1 DEF ConnectRefused
  <2>3. c \notin cycle.born /\ f \notin cycle.open
    BY <1>7 DEF ConnectRefused, Fresh
  <2>4. /\ cycle'.born = cycle.born \cup {c} /\ cycle'.owned = cycle.owned
        /\ cycle'.closed = cycle.closed
        /\ cycle'.role[c] = role
        /\ \A d \in Channels \ {c} :
             /\ cycle'.role[d] = cycle.role[d]
             /\ cycle'.callbacks[d] = cycle.callbacks[d]
    BY <1>1, <2>2, <2>3, Refusing
  <2>5. Failed(c)'
    BY <2>1, <2>4 DEF Failed
  <2>6. OnlyFailuresAbort'
    BY <2>5 DEF OnlyFailuresAbort
  <2>7. QED
    BY <1>1, <2>1, <2>3, <2>4, <2>6 DEF Faultless
<1>8. ASSUME ConnectSucceeds
      PROVE  Faultless'
  <2>1. /\ active \in cycle.owned \ cycle.closed /\ active \in Channels
        /\ cycle.status[active] = "Set" /\ cycle.role[active] = "connect"
    BY <1>1, <1>8 DEF ConnectSucceeds, ActiveSound, ConnectsSound
  <2>2. PICK role \in Roles : role = "connected"
    BY DEF Roles
  <2>3. PICK kinds \in SUBSET Events : kinds = Events
    OBVIOUS
  <2>4. PICK p : p = DisableAll(cycle, active)
    OBVIOUS
  <2>5. PICK s : s = SetCallbacks(p, active, kinds)
    OBVIOUS
  <2>6. cycle' = WithRole(s, active, role)
    BY <1>8, <2>2, <2>3, <2>4, <2>5 DEF ConnectSucceeds, WithRole
  <2>7. /\ cycle'.born = cycle.born /\ cycle'.owned = cycle.owned
        /\ cycle'.closed = cycle.closed
        /\ cycle'.role[active] = role /\ cycle'.callbacks[active] = kinds
        /\ cycle'.asserted = cycle.asserted
        /\ \A d \in Channels \ {active} :
             cycle'.role[d] = cycle.role[d] /\ cycle'.callbacks[d] = cycle.callbacks[d]
    BY <1>1, <2>1, <2>4, <2>5, <2>6, Succeeding
  <2>8. OnlyFailuresAbort'
    BY <1>1, <1>2, <2>1, <2>7
  <2>9. QED
    BY <1>1, <2>1, <2>2, <2>3, <2>7, <2>8 DEF Faultless
<1>9. ASSUME ConnectFails
      PROVE  Faultless'
  <2>1. /\ active \in cycle.owned \ cycle.closed /\ active \in Channels
        /\ active \in cycle.born
        /\ cycle.status[active] = "Set" /\ cycle.role[active] = "connect"
    BY <1>1, <1>9 DEF ConnectFails, ActiveSound, ConnectsSound
  <2>2. PICK role \in Roles : role = "failed"
    BY DEF Roles
  <2>3. PICK p : p = DisableAll(cycle, active)
    OBVIOUS
  <2>4. cycle' = WithRole(p, active, role)
    BY <1>9, <2>2, <2>3 DEF ConnectFails, WithRole
  <2>5. /\ cycle'.born = cycle.born /\ cycle'.owned = cycle.owned
        /\ cycle'.closed = cycle.closed
        /\ cycle'.role[active] = role /\ cycle'.callbacks = cycle.callbacks
        /\ \A d \in Channels \ {active} : cycle'.role[d] = cycle.role[d]
    BY <1>1, <2>1, <2>3, <2>4, Finalising
  <2>6. Failed(active)'
    BY <1>9, <2>1, <2>2, <2>5 DEF ConnectFails, Failed
  <2>7. OnlyFailuresAbort'
    <3>1. active' = active
      BY <1>9 DEF ConnectFails
    <3>2. QED
      BY <2>1, <2>6, <3>1 DEF OnlyFailuresAbort
  <2>8. QED
    BY <1>1, <2>1, <2>2, <2>5, <2>7 DEF Faultless
<1>10. ASSUME NEW c \in Channels, NEW kind \in IO, EnableIO(c, kind)
       PROVE  Faultless'
  <2>1. cycle' = Enable(cycle, c, kind)
    BY <1>10 DEF EnableIO
  <2>2. c \in cycle.owned \ cycle.closed /\ cycle.role[c] = "connected"
    BY <1>10 DEF EnableIO, IsConnection
  <2>3. /\ SameOwners(cycle', cycle)
        /\ cycle'.asserted <=> (cycle.asserted \/ kind \notin cycle.callbacks[c])
    BY <1>1, <2>1, <2>2, Enabling
  <2>4. kind \in cycle.callbacks[c]
    BY <1>1, <2>2 DEF Faultless, Events
  <2>5. OnlyFailuresAbort'
    BY <1>2, <2>3, <2>4 DEF SameOwners
  <2>6. QED
    BY <2>3, <2>5 DEF Faultless, SameOwners
<1>11. ASSUME NEW c \in Channels, NEW kind \in IO, DisableIO(c, kind)
       PROVE  Faultless'
  <2>1. cycle' = Disable(cycle, c, kind)
    BY <1>11 DEF DisableIO
  <2>2. c \in cycle.owned \ cycle.closed /\ kind \in cycle.events[c]
    BY <1>11 DEF DisableIO, IsConnection
  <2>3. SameOwners(cycle', cycle) /\ cycle'.asserted = cycle.asserted
    BY <1>1, <2>1, <2>2, Disabling
  <2>4. OnlyFailuresAbort'
    BY <1>2, <2>3 DEF SameOwners
  <2>5. QED
    BY <2>3, <2>4 DEF Faultless, SameOwners
<1>12. ASSUME NEW c \in Channels, CloseConnection(c)
       PROVE  Faultless'
  <2>1. cycle' = CloseFd(ChannelClose(cycle, c), c)
    BY <1>12 DEF CloseConnection
  <2>2. c \in cycle.owned \ cycle.closed
    BY <1>12 DEF CloseConnection, IsConnection
  <2>3. /\ cycle'.born = cycle.born /\ cycle'.owned = cycle.owned
        /\ cycle'.role = cycle.role /\ cycle'.callbacks = cycle.callbacks
        /\ cycle'.asserted = cycle.asserted
        /\ cycle'.closed = cycle.closed \cup {c}
    BY <1>1, <2>1, <2>2, Closing
  <2>4. OnlyFailuresAbort'
    BY <1>2, <2>3
  <2>5. QED
    BY <2>3, <2>4 DEF Faultless
<1>13. ASSUME NEW c \in Channels, Release(c)
       PROVE  Faultless'
  <2>1. cycle' = Drop(cycle, c) /\ c \in cycle.owned \cap cycle.closed
    BY <1>13 DEF Release
  <2>2. /\ cycle'.born = cycle.born /\ cycle'.owned = cycle.owned \ {c}
        /\ cycle'.closed = cycle.closed /\ cycle'.role = cycle.role
        /\ cycle'.callbacks = cycle.callbacks /\ cycle'.asserted = cycle.asserted
    BY <1>1, <2>1, Dropping
  <2>3. OnlyFailuresAbort'
    BY <1>2, <2>2
  <2>4. QED
    BY <2>1, <2>2, <2>3 DEF Faultless
<1>14. ASSUME Return
       PROVE  Faultless'
  <2>1. CASE cycle.role[active] = "failed"
    <3>1. cycle' = CloseFd(Drop(cycle, active), active)
      BY <1>14, <2>1 DEF Return
    <3>2. active \in cycle.owned \ cycle.closed /\ cycle.status[active] = "Removed"
      BY <1>1, <1>14, <2>1 DEF Return, InCallback, ActiveSound, ConnectsSound
    <3>3. /\ cycle'.born = cycle.born /\ cycle'.closed = cycle.closed
          /\ cycle'.role = cycle.role /\ cycle'.callbacks = cycle.callbacks
          /\ cycle'.asserted = cycle.asserted
          /\ cycle'.owned = cycle.owned \ {active}
      BY <1>1, <3>1, <3>2, Abandoning
    <3>4. OnlyFailuresAbort'
      BY <1>2, <3>3
    <3>5. QED
      BY <2>1, <3>3, <3>4 DEF Faultless
  <2>2. CASE cycle.role[active] # "failed"
    BY <1>14, <2>2 DEF Return, Faultless, OnlyFailuresAbort, Failed
  <2>3. QED
    BY <2>1, <2>2
<1>15. ASSUME UNCHANGED cycle
       PROVE  Faultless'
  BY <1>15 DEF Faultless, OnlyFailuresAbort, Failed
<1>16. QED
  BY <1>4, <1>5, <1>6, <1>7, <1>8, <1>9, <1>10, <1>11, <1>12, <1>13, <1>14, <1>15
  DEF Next, Owner, Loop, Finalise, Start, TopOfLoop, Poll, Lock, EndOfBatch,
      ProcessEvents, Unlock, Stop, vars

LEMMA SpecFaultless == Spec => [](Inv /\ Faultless)
<1>1. Init => Faultless
  BY DEF Init, Faultless, OnlyFailuresAbort
<1>2. Inv /\ Faultless /\ [Next]_vars => Faultless'
  BY NextFaultless
<1>3. QED
  BY <1>1, <1>2, SpecInv, PTL DEF Spec, SafeSpec

(* Until a connection fails, no assert() of EventCycle, Channel or         *)
(* EpollPoller does; the run event_cycle_leak shows what happens then.     *)
THEOREM OnlyFailedConnectionsAbort == Spec => []OnlyFailuresAbort
<1>1. Faultless => OnlyFailuresAbort
  BY DEF Faultless
<1>2. QED
  BY <1>1, SpecFaultless, PTL

(* allChannelsMap is the last to hold a channel only if it is that of a    *)
(* connection that failed.                                                 *)
THEOREM OnlyFailedConnectionsLeak == Spec => []OnlyFailuresLeak
<1>1. Inv /\ Faultless => OnlyFailuresLeak
  <2> SUFFICES ASSUME Inv, Faultless, NEW f \in Fds, NEW c, c = cycle.map[f],
                      c # NoChannel, ~cycle.asserted
               PROVE  c \in cycle.owned \/ Failed(c)
    BY DEF OnlyFailuresLeak
  <2>1. c \in cycle.born \ cycle.closed
    BY DEF Inv, Sound, MapSound
  <2>2. QED
    BY <2>1 DEF Faultless, Failed
<1>2. QED
  BY <1>1, SpecFaultless, PTL
=============================================================================
