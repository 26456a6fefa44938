------------------------- MODULE TcpConnectionProofs -------------------------
(***************************************************************************)
(* What a connection guarantees. The first part is about TcpConnection, for*)
(* any set of connections: what they wait for and who is called. The second*)
(* is about ConnectionBuffers: the bytes that they carry.                  *)
(***************************************************************************)
EXTENDS TcpConnection, ConnectionBuffers, DataLemmas

(* The properties of one connection, as an invariant of its record: but    *)
(* for requests of one of kinds, which are owed, it waits for just what it *)
(* owes; and somebody looks after it.                                      *)
Matched(r, kinds) ==
  /\ r \in ConnectionType
  /\ r.failed # "Channel"
  /\ r.status = "none" => r.events = {}
  /\ r.status # "Closed" =>
       /\ kinds \subseteq r.owed /\ r.events \ kinds = r.owed \ kinds
       /\ r.twice = {}

Monitored(r) ==
  r.status \in {"Established", "PeerClosed"} /\ ~r.active /\ r.failed = "no" =>
    "read" \in r.events /\ r.readAvailableCallback = "keepalive"

Sound(r) == Matched(r, {}) /\ Monitored(r)

(* A connection that an operation leaves open was open and still waits for *)
(* the events that it waited for, those of kinds apart.                    *)
Keeps(r, q, kinds) ==
  \A kind \in IO \ kinds :
    q.status # "Closed" => r.status # "Closed" /\ (kind \in r.events => kind \in q.events)

-----------------------------------------------------------------------------
(* What the operations do to each field.                                   *)
LEMMA Fields ==
  ASSUME NEW r \in ConnectionType
  PROVE  /\ r.status \in {"none", "Established", "PeerClosed", "Closed"}
         /\ r.active \in BOOLEAN /\ r.unsent \in BOOLEAN
         /\ r.events \subseteq IO /\ r.owed \subseteq IO /\ r.twice \subseteq IO
         /\ r.readAvailableCallback \in {"none", "user", "keepalive"}
         /\ r.failed \in {"no", "GetError", "handleKeepalivedRead", "Channel", "SetReadCallback"}
BY DEF ConnectionType

LEMMA CloseFields ==
  ASSUME NEW r \in ConnectionType
  PROVE  /\ Close(r) \in ConnectionType /\ Close(r).status = "Closed"
         /\ Close(r).failed = r.failed
         /\ r.status # "Closed" => Close(r).events = {}
BY DEF Close, ConnectionType

LEMMA AnswerFields ==
  ASSUME NEW r \in ConnectionType, NEW kind \in IO
  PROVE  LET q == Answer(r, kind)
         IN  /\ q \in ConnectionType
             /\ q.status = r.status /\ q.active = r.active /\ q.events = r.events
             /\ q.readAvailableCallback = r.readAvailableCallback
             /\ q.unsent = r.unsent /\ q.failed = r.failed
             /\ q.owed = r.owed \ {kind}
             /\ q.twice = (IF kind \in r.owed THEN r.twice ELSE r.twice \cup {kind})
BY DEF Answer, ConnectionType, IO

LEMMA EnableFields ==
  ASSUME NEW r \in ConnectionType, NEW kind \in IO, NEW q, q = Enable(r, kind)
  PROVE  /\ q \in ConnectionType
         /\ q.status = r.status /\ q.active = r.active /\ q.events = r.events \cup {kind}
         /\ q.readAvailableCallback = r.readAvailableCallback
         /\ q.unsent = r.unsent /\ q.failed = r.failed
         /\ q.owed = r.owed /\ q.twice = r.twice
BY DEF Enable, ConnectionType, IO

LEMMA DisableFields ==
  ASSUME NEW r \in ConnectionType, NEW kind \in IO, NEW q,
         (q = Disable(r, kind) /\ r.events # {}) \/ q = DisableIfSet(r, kind)
  PROVE  /\ q \in ConnectionType
         /\ q.status = r.status /\ q.active = r.active /\ q.events = r.events \ {kind}
         /\ q.readAvailableCallback = r.readAvailableCallback
         /\ q.unsent = r.unsent /\ q.failed = r.failed
         /\ q.owed = r.owed /\ q.twice = r.twice
<1>1. ASSUME q = Disable(r, kind), r.events # {}
      PROVE  q = [r EXCEPT !.events = @ \ {kind}]
  <2>1. [r EXCEPT !.events = @ \ {kind}, !.failed = @] = [r EXCEPT !.events = @ \ {kind}]
    BY DEF ConnectionType
  <2>2. QED
    BY <1>1, <2>1 DEF Disable
<1>2. ASSUME q = r, kind \notin r.events
      PROVE  q = [r EXCEPT !.events = @ \ {kind}]
  <2>1. r.events \ {kind} = r.events
    BY <1>2
  <2>2. QED
    BY <1>2, <2>1 DEF ConnectionType
<1>3. q = [r EXCEPT !.events = @ \ {kind}]
  BY <1>1, <1>2 DEF DisableIfSet
<1>4. QED
  BY <1>3 DEF ConnectionType

-----------------------------------------------------------------------------
(* What the handlers make of a sound connection.                           *)
LEMMA CloseIsSound ==
  ASSUME NEW r \in ConnectionType, r.failed # "Channel"
  PROVE  Sound(Close(r)) /\ Close(r).status = "Closed"
BY CloseFields DEF Sound, Matched, Monitored

LEMMA ErrorIsSound ==
  ASSUME NEW r, Sound(r)
  PROVE  Sound(HandleError(r)) /\ HandleError(r).status = "Closed"
BY CloseIsSound DEF Sound, Matched, Monitored, HandleError, ConnectionType

(* The answer to a request, for which the channel no longer waits.         *)
LEMMA AnswerIsSound ==
  ASSUME NEW r, NEW kind \in IO, Matched(r, {kind}), kind \notin r.events
  PROVE  Matched(Answer(r, kind), {})
<1> DEFINE q == Answer(r, kind)
<1>1. r \in ConnectionType
  BY DEF Matched
<1>2. /\ q \in ConnectionType
      /\ q.status = r.status /\ q.events = r.events /\ q.failed = r.failed
      /\ q.owed = r.owed \ {kind}
      /\ q.twice = IF kind \in r.owed THEN r.twice ELSE r.twice \cup {kind}
  BY <1>1, AnswerFields
<1> HIDE DEF q
<1>3. Matched(q, {})
  BY <1>2 DEF Matched
<1>4. QED
  BY <1>3 DEF q

LEMMA WriteIsSound ==
  ASSUME NEW r, NEW outcome, Matched(r, {"write"}), Monitored(r)
  PROVE  /\ Sound(HandleWrite(r, outcome))
         /\ Keeps(r, HandleWrite(r, outcome), {"write"})
<1>1. r \in ConnectionType /\ "write" \in IO /\ "write" # "read" /\ r.failed # "Channel"
  BY DEF Matched, IO
<1>2. ASSUME NEW s, s = r \/ s = [r EXCEPT !.unsent = FALSE],
             HandleWrite(r, outcome) = Answer(DisableIfSet(s, "write"), "write")
      PROVE  Sound(HandleWrite(r, outcome)) /\ Keeps(r, HandleWrite(r, outcome), {"write"})
  <2> DEFINE d == DisableIfSet(s, "write")
             q == Answer(d, "write")
  <2>1. /\ s \in ConnectionType
        /\ s.status = r.status /\ s.active = r.active /\ s.events = r.events
        /\ s.readAvailableCallback = r.readAvailableCallback
        /\ s.failed = r.failed /\ s.owed = r.owed /\ s.twice = r.twice
    BY <1>1, <1>2 DEF ConnectionType
  <2>2. /\ d \in ConnectionType
        /\ d.status = r.status /\ d.active = r.active /\ d.events = r.events \ {"write"}
        /\ d.readAvailableCallback = r.readAvailableCallback
        /\ d.failed = r.failed /\ d.owed = r.owed /\ d.twice = r.twice
    BY <1>1, <2>1, DisableFields
  <2> HIDE DEF d
  <2>3. Matched(d, {"write"}) /\ "write" \notin d.events
    BY <2>2 DEF Matched
  <2>4. Matched(q, {})
    BY <1>1, <2>3, AnswerIsSound
  <2>5. /\ q.status = d.status /\ q.active = d.active /\ q.events = d.events
        /\ q.readAvailableCallback = d.readAvailableCallback /\ q.failed = d.failed
    BY <1>1, <2>2, AnswerFields
  <2>6. HandleWrite(r, outcome) = q
    BY <1>2 DEF d
  <2> HIDE DEF q
  <2>7. Monitored(q) /\ Keeps(r, q, {"write"})
    BY <1>1, <2>2, <2>5 DEF Monitored, Keeps
  <2>8. QED
    BY <2>4, <2>6, <2>7 DEF Sound
<1>3. CASE r.status # "Established"
  BY <1>2, <1>3 DEF HandleWrite
<1>4. CASE r.status = "Established" /\ Sends(r, outcome)
  BY <1>2, <1>4 DEF HandleWrite
<1>5. CASE r.status = "Established" /\ ~Sends(r, outcome) /\ Waits(r, outcome)
  <2> DEFINE q == Enable(r, "write")
  <2>1. HandleWrite(r, outcome) = q
    BY <1>5 DEF HandleWrite
  <2>2. /\ q \in ConnectionType
        /\ q.status = r.status /\ q.active = r.active /\ q.events = r.events \cup {"write"}
        /\ q.readAvailableCallback = r.readAvailableCallback
        /\ q.failed = r.failed /\ q.owed = r.owed /\ q.twice = r.twice
    BY <1>1, EnableFields
  <2> HIDE DEF q
  <2>3. Sound(q) /\ Keeps(r, q, {"write"})
    BY <1>5, <2>2 DEF Sound, Matched, Monitored, Keeps
  <2>4. QED
    BY <2>1, <2>3
<1>6. CASE r.status = "Established" /\ ~Sends(r, outcome) /\ ~Waits(r, outcome)
  <2> DEFINE c == Close(r)
             q == Answer(c, "write")
  <2>1. HandleWrite(r, outcome) = q
    BY <1>6 DEF HandleWrite
  <2>2. c \in ConnectionType /\ c.status = "Closed" /\ c.failed = r.failed
    BY <1>1, CloseFields
  <2> HIDE DEF c
  <2>3. q \in ConnectionType /\ q.status = "Closed" /\ q.failed = r.failed
    BY <1>1, <2>2, AnswerFields
  <2> HIDE DEF q
  <2>4. QED
    BY <1>1, <2>1, <2>3 DEF Sound, Matched, Monitored, Keeps
<1>7. QED
  BY <1>3, <1>4, <1>5, <1>6

LEMMA SendIsSound ==
  ASSUME NEW r, NEW outcome, Sound(r), "write" \notin r.events
  PROVE  Sound(Send(r, outcome)) /\ Keeps(r, Send(r, outcome), {})
<1> DEFINE a == [r EXCEPT !.owed = @ \cup {"write"}]
<1>1. /\ a \in ConnectionType
      /\ a.status = r.status /\ a.active = r.active /\ a.events = r.events
      /\ a.readAvailableCallback = r.readAvailableCallback
      /\ a.failed = r.failed /\ a.owed = r.owed \cup {"write"} /\ a.twice = r.twice
  BY DEF Sound, Matched, ConnectionType, IO
<1>2. Send(r, outcome) = HandleWrite(a, outcome)
  BY DEF Send
<1> HIDE DEF a
<1>3. Matched(a, {"write"}) /\ Monitored(a)
  BY <1>1 DEF Sound, Matched, Monitored
<1>4. Sound(HandleWrite(a, outcome)) /\ Keeps(a, HandleWrite(a, outcome), {"write"})
  BY <1>3, WriteIsSound
<1>5. "read" \in IO \ {"write"}
  BY DEF IO
<1>6. QED
  BY <1>1, <1>2, <1>4, <1>5 DEF Keeps

(* A read callback is called for a request for which the channel no longer *)
(* waits, on a connection that is in its user's hands or retained.         *)
LEMMA AnswerReadIsSound ==
  ASSUME NEW r, NEW good \in BOOLEAN, Matched(r, {"read"}),
         r.status = "Closed" \/ "read" \notin r.events,
         r.status \in {"Established", "PeerClosed"} /\ r.failed = "no" =>
           r.active \/ r.readAvailableCallback = "keepalive"
  PROVE  Sound(AnswerRead(r, good)) /\ Keeps(r, AnswerRead(r, good), {})
<1> DEFINE a == Answer(r, "read")
<1>1. r \in ConnectionType /\ "read" \in IO /\ r.failed # "Channel"
  BY DEF Matched, IO
<1>2. /\ a \in ConnectionType
      /\ a.status = r.status /\ a.active = r.active /\ a.events = r.events
      /\ a.readAvailableCallback = r.readAvailableCallback
      /\ a.failed = r.failed /\ a.owed = r.owed \ {"read"}
      /\ a.twice = (IF "read" \in r.owed THEN r.twice ELSE r.twice \cup {"read"})
  BY <1>1, AnswerFields
<1> HIDE DEF a
<1>3. Matched(a, {})
  BY <1>1, <1>2 DEF Matched
<1>4. CASE r.readAvailableCallback # "keepalive"
  <2>1. AnswerRead(r, good) = a
    BY <1>4 DEF AnswerRead, a
  <2>2. Monitored(a) /\ Keeps(r, a, {})
    BY <1>2, <1>4 DEF Monitored, Keeps
  <2>3. QED
    BY <1>3, <2>1, <2>2 DEF Sound
<1>5. CASE r.readAvailableCallback = "keepalive"
  <2> DEFINE q == HandleKeepalivedRead(a, good)
  <2>1. AnswerRead(r, good) = q
    BY <1>5 DEF AnswerRead, a
  <2>2. CASE q = [a EXCEPT !.failed = "handleKeepalivedRead"]
    <3> HIDE DEF q
    <3>1. /\ q \in ConnectionType /\ q.failed = "handleKeepalivedRead"
          /\ q.status = a.status /\ q.events = a.events /\ q.owed = a.owed /\ q.twice = a.twice
      BY <1>2, <2>2 DEF ConnectionType
    <3>2. Matched(q, {}) /\ Monitored(q) /\ Keeps(r, q, {})
      BY <1>2, <1>3, <3>1 DEF Matched, Monitored, Keeps
    <3>3. QED
      BY <2>1, <3>2 DEF Sound
  <2>3. CASE q = [a EXCEPT !.active = TRUE]
    <3> HIDE DEF q
    <3>1. /\ q \in ConnectionType /\ q.active = TRUE /\ q.failed = a.failed
          /\ q.status = a.status /\ q.events = a.events /\ q.owed = a.owed /\ q.twice = a.twice
      BY <1>2, <2>3 DEF ConnectionType
    <3>2. Matched(q, {}) /\ Monitored(q) /\ Keeps(r, q, {})
      BY <1>2, <1>3, <3>1 DEF Matched, Monitored, Keeps
    <3>3. QED
      BY <2>1, <3>2 DEF Sound
  <2>4. CASE q = Close(a)
    BY <1>1, <1>2, <2>1, <2>4, CloseIsSound DEF Keeps
  <2>5. QED
    BY <2>2, <2>3, <2>4 DEF HandleKeepalivedRead
<1>6. QED
  BY <1>4, <1>5

LEMMA ReadIsSound ==
  ASSUME NEW r, NEW outcome, Sound(r), r.status # "Closed" => "read" \in r.events
  PROVE  Sound(HandleRead(r, outcome)) /\ Keeps(r, HandleRead(r, outcome), {"read"})
<1>1. r \in ConnectionType /\ "read" \in IO /\ r.failed # "Channel"
  BY DEF Sound, Matched, IO
<1>2. /\ r.status # "Closed" => r.events = r.owed /\ "read" \in r.owed /\ r.twice = {}
      /\ r.status = "none" => r.events = {}
  BY DEF Sound, Matched
<1>3. ASSUME NEW s, s = r \/ (r.status = "Established" /\ s = AfterRead(r, outcome)),
             NEW d, d = DisableIfSet(s, "read") \/ (d = Disable(s, "read") /\ s.events # {}),
             NEW good \in BOOLEAN, HandleRead(r, outcome) = AnswerRead(d, good)
      PROVE  Sound(HandleRead(r, outcome)) /\ Keeps(r, HandleRead(r, outcome), {"read"})
  <2>1. /\ s \in ConnectionType
        /\ s.status = r.status \/ (s.status = "PeerClosed" /\ r.status = "Established")
        /\ s.active = r.active /\ s.events = r.events
        /\ s.readAvailableCallback = r.readAvailableCallback
        /\ s.failed = r.failed /\ s.owed = r.owed /\ s.twice = r.twice
    BY <1>1, <1>3 DEF AfterRead, ConnectionType
  <2>2. /\ d \in ConnectionType
        /\ d.status = s.status /\ d.active = r.active /\ d.events = r.events \ {"read"}
        /\ d.readAvailableCallback = r.readAvailableCallback
        /\ d.failed = r.failed /\ d.owed = r.owed /\ d.twice = r.twice
    BY <1>1, <1>3, <2>1, DisableFields
  <2>3. Matched(d, {"read"}) /\ "read" \notin d.events
    BY <1>1, <1>2, <2>1, <2>2 DEF Matched
  <2>4. d.status \in {"Established", "PeerClosed"} /\ d.failed = "no" =>
          d.active \/ d.readAvailableCallback = "keepalive"
    BY <2>1, <2>2 DEF Sound, Monitored
  <2>5. Sound(AnswerRead(d, good)) /\ Keeps(d, AnswerRead(d, good), {})
    BY <2>3, <2>4, AnswerReadIsSound
  <2>6. QED
    BY <1>3, <2>1, <2>2, <2>5 DEF Keeps
<1>4. CASE r.status # "Established"
  BY <1>3, <1>4 DEF HandleRead
<1>5. CASE r.status = "Established" /\ outcome = "error"
  <2> DEFINE c == Close(r)
  <2>1. HandleRead(r, outcome) = AnswerRead(c, FALSE)
    BY <1>5 DEF HandleRead
  <2>2. c \in ConnectionType /\ c.status = "Closed" /\ c.failed = r.failed /\ c.events = {}
    BY <1>1, <1>5, CloseFields
  <2> HIDE DEF c
  <2>3. Matched(c, {"read"})
    BY <1>1, <2>2 DEF Matched
  <2>4. Sound(AnswerRead(c, FALSE)) /\ Keeps(c, AnswerRead(c, FALSE), {})
    BY <2>2, <2>3, AnswerReadIsSound
  <2>5. QED
    BY <2>1, <2>2, <2>4 DEF Keeps
<1>6. CASE r.status = "Established" /\ outcome # "error"
  <2> DEFINE s == AfterRead(r, outcome)
  <2>1. HandleRead(r, outcome)
          = AnswerRead(Disable(s, "read"), outcome \in {"data", "fill"})
    BY <1>6 DEF HandleRead
  <2>2. s.events = r.events
    BY <1>1 DEF AfterRead, ConnectionType
  <2>3. s.events # {}
    BY <1>2, <1>6, <2>2
  <2>4. (outcome \in {"data", "fill"}) \in BOOLEAN
    BY SMT
  <2>5. s = AfterRead(r, outcome)
    OBVIOUS
  <2> HIDE DEF s
  <2>6. QED
    BY <1>3, <1>6, <2>1, <2>3, <2>4, <2>5
<1>7. QED
  BY <1>4, <1>5, <1>6

LEMMA SetReadCallbackIsSound ==
  ASSUME NEW r, NEW callback \in {"user", "keepalive"}, Matched(r, {}), "read" \notin r.events,
         callback = "user" => r.active \/ r.status = "Closed"
  PROVE  Sound(SetReadCallback(r, callback)) /\ Keeps(r, SetReadCallback(r, callback), {})
<1> DEFINE q == [r EXCEPT !.readAvailableCallback = callback, !.owed = @ \cup {"read"}]
<1>1. "read" \in IO /\ r \in ConnectionType
  BY DEF IO, Matched
<1>2. /\ q \in ConnectionType
      /\ q.status = r.status /\ q.active = r.active /\ q.events = r.events
      /\ q.readAvailableCallback = callback
      /\ q.failed = r.failed /\ q.owed = r.owed \cup {"read"} /\ q.twice = r.twice
  BY <1>1 DEF ConnectionType
<1>3. SetReadCallback(r, callback) =
        IF r.full THEN [r EXCEPT !.failed = "SetReadCallback"]
        ELSE IF r.status # "Established" THEN AnswerRead(q, FALSE)
        ELSE Enable(q, "read")
  BY DEF SetReadCallback
<1> HIDE DEF q
<1>4. Matched(q, {"read"})
  BY <1>2 DEF Matched
<1>5. CASE ~r.full /\ r.status # "Established"
  <2>1. q.status \in {"Established", "PeerClosed"} => q.active \/ q.readAvailableCallback = "keepalive"
    BY <1>2
  <2>2. Sound(AnswerRead(q, FALSE)) /\ Keeps(q, AnswerRead(q, FALSE), {})
    BY <1>2, <1>4, <2>1, AnswerReadIsSound
  <2>3. QED
    BY <1>2, <1>3, <1>5, <2>2 DEF Keeps
<1>6. CASE ~r.full /\ r.status = "Established"
  <2> DEFINE e == Enable(q, "read")
  <2>1. /\ e \in ConnectionType
        /\ e.status = r.status /\ e.active = r.active /\ e.events = r.events \cup {"read"}
        /\ e.readAvailableCallback = callback
        /\ e.failed = r.failed /\ e.owed = r.owed \cup {"read"} /\ e.twice = r.twice
    BY <1>1, <1>2, EnableFields
  <2>2. SetReadCallback(r, callback) = e
    BY <1>3, <1>6
  <2> HIDE DEF e
  <2>3. Sound(e) /\ Keeps(r, e, {})
    BY <1>6, <2>1 DEF Sound, Matched, Monitored, Keeps
  <2>4. QED
    BY <2>2, <2>3
<1>7. CASE r.full
  <2> DEFINE f == [r EXCEPT !.failed = "SetReadCallback"]
  <2>1. /\ f \in ConnectionType /\ f.failed = "SetReadCallback"
        /\ f.status = r.status /\ f.events = r.events /\ f.owed = r.owed /\ f.twice = r.twice
    BY <1>1 DEF ConnectionType
  <2>2. SetReadCallback(r, callback) = f
    BY <1>3, <1>7
  <2> HIDE DEF f
  <2>3. Sound(f) /\ Keeps(r, f, {})
    BY <2>1 DEF Sound, Matched, Monitored, Keeps
  <2>4. QED
    BY <2>2, <2>3
<1>8. QED
  BY <1>5, <1>6, <1>7

LEMMA RetainIsSound ==
  ASSUME NEW r, Sound(r), "read" \notin r.events
  PROVE  Sound(Retain(r)) /\ Keeps(r, Retain(r), {})
<1> DEFINE q == [r EXCEPT !.active = FALSE]
<1>1. /\ q \in ConnectionType
      /\ q.status = r.status /\ q.events = r.events
      /\ q.failed = r.failed /\ q.owed = r.owed /\ q.twice = r.twice
  BY DEF Sound, Matched, ConnectionType
<1>2. Retain(r) = SetReadCallback(q, "keepalive")
  BY DEF Retain
<1> HIDE DEF q
<1>3. Matched(q, {}) /\ "read" \notin q.events
  BY <1>1 DEF Sound, Matched
<1>4. Sound(SetReadCallback(q, "keepalive")) /\ Keeps(q, SetReadCallback(q, "keepalive"), {})
  BY <1>3, SetReadCallbackIsSound
<1>5. QED
  BY <1>1, <1>2, <1>4 DEF Keeps

-----------------------------------------------------------------------------
(* The inductive invariant: what is still to be dispatched on a connection *)
(* that is not closed, it has asked for and still waits for.               *)
Pending(kind, c) == kind \in revents[c] \/ (c = current /\ kind \in todo)

PendingIsAwaited ==
  \A c \in Connections, kind \in IO :
    Pending(kind, c) => conn[c].status = "Closed" \/ kind \in conn[c].events

OneAtATime ==
  /\ pc = "loop" => current = Nobody
  /\ pc = "events" => current \in Connections
  /\ current = Nobody => todo = {}
  /\ current # Nobody => revents[current] = {}

AllSound == \A c \in Connections : Sound(conn[c])

Inv ==
  /\ TypeOK
  /\ AllSound
  /\ PendingIsAwaited
  /\ OneAtATime

(* One connection changes, the events of kinds on it having been handled.  *)
LEMMA ChangeKeepsInv ==
  ASSUME Inv, NEW c \in Connections, NEW q, Sound(q), NEW kinds, Keeps(conn[c], q, kinds),
         Becomes(c, q),
         pc' \in {"loop", "events", "user"}, current' \in Connections \cup {Nobody},
         revents' \in [Connections -> SUBSET Events], todo' \subseteq Events,
         OneAtATime',
         \A kind \in IO, d \in Connections :
           Pending(kind, d)' => Pending(kind, d) /\ ~(d = c /\ kind \in kinds)
  PROVE  Inv'
<1>1. /\ conn \in [Connections -> ConnectionType] /\ q \in ConnectionType
      /\ conn' = [conn EXCEPT ![c] = q]
  BY DEF Inv, TypeOK, Becomes, Sound, Matched
<1>2. conn'[c] = q /\ \A d \in Connections : d # c => conn'[d] = conn[d]
  BY <1>1
<1>3. TypeOK'
  BY <1>1 DEF TypeOK
<1>4. AllSound'
  BY <1>2 DEF Inv, AllSound
<1>5. ASSUME NEW d \in Connections, NEW kind \in IO, Pending(kind, d)'
      PROVE  conn'[d].status = "Closed" \/ kind \in conn'[d].events
  <2>1. Pending(kind, d) /\ ~(d = c /\ kind \in kinds)
    BY <1>5
  <2>2. conn[d].status = "Closed" \/ kind \in conn[d].events
    BY <2>1 DEF Inv, PendingIsAwaited
  <2>3. QED
    BY <1>2, <2>1, <2>2 DEF Keeps
<1>6. PendingIsAwaited'
  BY <1>5 DEF PendingIsAwaited
<1>7. QED
  BY <1>3, <1>4, <1>6 DEF Inv

(* A user does something to a connection, wherever it runs.                *)
LEMMA UserKeepsInv ==
  ASSUME Inv, NEW c \in Connections, NEW q, Sound(q), Keeps(conn[c], q, {}),
         Becomes(c, q), StaysInTurn
  PROVE  Inv'
<1>1. /\ pc' \in {"loop", "events", "user"} /\ current' \in Connections \cup {Nobody}
      /\ revents' \in [Connections -> SUBSET Events] /\ todo' \subseteq Events
      /\ OneAtATime'
      /\ \A kind \in IO, d \in Connections : Pending(kind, d)' => Pending(kind, d)
  BY DEF Inv, TypeOK, OneAtATime, StaysInTurn, Pending
<1>2. QED
  BY <1>1, ChangeKeepsInv

LEMMA EmptyIsSound == Sound(NoConnection) /\ NoConnection.status = "none"
BY DEF Sound, Matched, Monitored, NoConnection, ConnectionType, IO

LEMMA UserStep ==
  ASSUME Inv, User
  PROVE  Inv'
<1>1. \A c \in Connections : Sound(conn[c]) /\ conn[c] \in ConnectionType
  BY DEF Inv, AllSound, Sound, Matched
<1>2. ASSUME NEW c \in Connections, Accept(c)
      PROVE  Inv'
  <2> DEFINE q == [NoConnection EXCEPT !.status = "Established", !.active = TRUE]
  <2>1. Sound(q)
    BY DEF Sound, Matched, Monitored, NoConnection, ConnectionType, IO
  <2>2. Keeps(conn[c], q, {})
    BY <1>1, <1>2 DEF Keeps, Accept, Exists, Sound, Matched
  <2>3. /\ Becomes(c, q) /\ pc = "loop" /\ pc' = "user"
        /\ UNCHANGED <<revents, current, todo>>
    BY <1>2 DEF Accept
  <2>4. OneAtATime' /\ \A kind \in IO, d \in Connections : Pending(kind, d)' => Pending(kind, d)
    BY <2>3 DEF Inv, OneAtATime, Pending
  <2> HIDE DEF q
  <2>5. QED
    BY <2>1, <2>2, <2>3, <2>4, ChangeKeepsInv DEF Inv, TypeOK
<1>3. ASSUME NEW c \in Connections, UserReads(c)
      PROVE  Inv'
  <2>1. /\ Matched(conn[c], {}) /\ "read" \notin conn[c].events
        /\ conn[c].active \/ conn[c].status = "Closed"
        /\ Becomes(c, SetReadCallback(conn[c], "user")) /\ StaysInTurn
    BY <1>1, <1>3 DEF UserReads, InHands, Sound
  <2>2. QED
    BY <2>1, SetReadCallbackIsSound, UserKeepsInv
<1>4. ASSUME NEW c \in Connections, UserWrites(c)
      PROVE  Inv'
  <2> DEFINE q == [conn[c] EXCEPT !.unsent = TRUE]
  <2>1. Becomes(c, q) /\ StaysInTurn
    BY <1>4 DEF UserWrites
  <2>2. /\ q \in ConnectionType
        /\ q.status = conn[c].status /\ q.active = conn[c].active /\ q.events = conn[c].events
        /\ q.readAvailableCallback = conn[c].readAvailableCallback
        /\ q.failed = conn[c].failed /\ q.owed = conn[c].owed /\ q.twice = conn[c].twice
    BY <1>1 DEF ConnectionType
  <2> HIDE DEF q
  <2>3. Sound(q) /\ Keeps(conn[c], q, {})
    BY <1>1, <2>2 DEF Sound, Matched, Monitored, Keeps
  <2>4. QED
    BY <2>1, <2>3, UserKeepsInv
<1>5. ASSUME NEW c \in Connections, UserSends(c)
      PROVE  Inv'
  <2>1. PICK outcome : Becomes(c, Send(conn[c], outcome))
    BY <1>5 DEF UserSends
  <2>2. "write" \notin conn[c].events /\ StaysInTurn
    BY <1>5 DEF UserSends
  <2>3. QED
    BY <1>1, <2>1, <2>2, SendIsSound, UserKeepsInv
<1>6. ASSUME NEW c \in Connections, UserRetains(c)
      PROVE  Inv'
  <2>1. "read" \notin conn[c].events /\ Becomes(c, Retain(conn[c])) /\ StaysInTurn
    BY <1>6 DEF UserRetains
  <2>2. QED
    BY <1>1, <2>1, RetainIsSound, UserKeepsInv
<1>7. ASSUME NEW c \in Connections, UserCloses(c)
      PROVE  Inv'
  <2>1. Becomes(c, Close(conn[c])) /\ StaysInTurn
    BY <1>7 DEF UserCloses
  <2>2. Sound(Close(conn[c])) /\ Keeps(conn[c], Close(conn[c]), {})
    BY <1>1, CloseIsSound DEF Keeps, Sound, Matched
  <2>3. QED
    BY <2>1, <2>2, UserKeepsInv
<1>8. ASSUME NEW c \in Connections, Release(c)
      PROVE  Inv'
  <2>1. /\ Becomes(c, NoConnection) /\ current # c
        /\ revents' = [revents EXCEPT ![c] = {}]
        /\ UNCHANGED <<pc, current, todo>>
    BY <1>8 DEF Release
  <2>2. revents \in [Connections -> SUBSET Events]
    BY DEF Inv, TypeOK
  <2>3. /\ revents' \in [Connections -> SUBSET Events]
        /\ OneAtATime'
        /\ \A kind \in IO, d \in Connections : Pending(kind, d)' => Pending(kind, d) /\ d # c
    BY <2>1, <2>2 DEF Inv, OneAtATime, Pending
  <2>4. Keeps(conn[c], NoConnection, IO)
    BY <1>1, <1>8 DEF Keeps, Release
  <2>5. QED
    BY <2>1, <2>3, <2>4, EmptyIsSound, ChangeKeepsInv DEF Inv, TypeOK
<1>9. CASE UserReturns
  BY <1>9 DEF UserReturns, Inv, TypeOK, AllSound, PendingIsAwaited, OneAtATime, Pending
<1>10. ASSUME NEW c \in Connections, UserTakes(c)
       PROVE  Inv'
  <2> DEFINE q == [conn[c] EXCEPT !.full = FALSE]
  <2>1. Becomes(c, q) /\ StaysInTurn
    BY <1>10 DEF UserTakes
  <2>2. /\ q \in ConnectionType
        /\ q.status = conn[c].status /\ q.active = conn[c].active /\ q.events = conn[c].events
        /\ q.readAvailableCallback = conn[c].readAvailableCallback
        /\ q.failed = conn[c].failed /\ q.owed = conn[c].owed /\ q.twice = conn[c].twice
    BY <1>1 DEF ConnectionType
  <2> HIDE DEF q
  <2>3. Sound(q) /\ Keeps(conn[c], q, {})
    BY <1>1, <2>2 DEF Sound, Matched, Monitored, Keeps
  <2>4. QED
    BY <2>1, <2>3, UserKeepsInv
<1>11. QED
  BY <1>2, <1>3, <1>4, <1>5, <1>6, <1>7, <1>8, <1>9, <1>10 DEF User

LEMMA EventStep ==
  ASSUME Inv, ProcessEvents
  PROVE  Inv'
<1>1. CASE EventsDone
  BY <1>1 DEF EventsDone, Inv, TypeOK, AllSound, PendingIsAwaited, OneAtATime, Pending
<1>2. ASSUME NEW kind \in IO \cup {"error"}, Turn(kind),
             NEW q, Sound(q), Keeps(conn[current], q, {kind}), Becomes(current, q),
             pc' \in {"events", "user"}
      PROVE  Inv'
  <2>1. /\ pc = "events" /\ todo' = todo \ {kind} /\ revents' = revents /\ current' = current
        /\ current \in Connections /\ revents[current] = {}
    BY <1>2, NobodyAssumption DEF Turn, Inv, OneAtATime
  <2>2. /\ OneAtATime'
        /\ \A e \in IO, d \in Connections :
             Pending(e, d)' => Pending(e, d) /\ ~(d = current /\ e \in {kind})
    BY <1>2, <2>1 DEF Inv, OneAtATime, Pending
  <2>3. todo' \subseteq Events /\ revents' \in [Connections -> SUBSET Events]
    BY <2>1 DEF Inv, TypeOK
  <2>4. QED
    BY <1>2, <2>1, <2>2, <2>3, ChangeKeepsInv
<1>3. ASSUME NEW kind \in IO, Turn(kind)
      PROVE  /\ current \in Connections /\ Sound(conn[current])
             /\ conn[current].status # "Closed" => kind \in conn[current].events
  BY <1>3 DEF Inv, OneAtATime, AllSound, PendingIsAwaited, Pending, Turn
<1>4. CASE ErrorEvent
  <2>1. Turn("error") /\ Becomes(current, HandleError(conn[current])) /\ pc' = pc
    BY <1>4 DEF ErrorEvent
  <2>2. current \in Connections /\ Sound(conn[current]) /\ pc = "events"
    BY <2>1 DEF Turn, Inv, OneAtATime, AllSound
  <2>3. /\ Sound(HandleError(conn[current]))
        /\ Keeps(conn[current], HandleError(conn[current]), {"error"})
    BY <2>2, ErrorIsSound DEF Keeps
  <2>4. QED
    BY <1>2, <2>1, <2>2, <2>3
<1>5. ASSUME NEW outcome \in ReadOutcomes, ReadEvent(outcome)
      PROVE  Inv'
  <2>1. /\ Turn("read") /\ Becomes(current, HandleRead(conn[current], outcome))
        /\ pc' \in {"events", "user"} /\ "read" \in IO
    BY <1>5 DEF ReadEvent, Turn, IO
  <2>2. /\ Sound(HandleRead(conn[current], outcome))
        /\ Keeps(conn[current], HandleRead(conn[current], outcome), {"read"})
    BY <1>3, <2>1, ReadIsSound
  <2>3. QED
    BY <1>2, <2>1, <2>2
<1>6. ASSUME NEW outcome, WriteEvent(outcome)
      PROVE  Inv'
  <2>1. /\ Turn("write") /\ Becomes(current, HandleWrite(conn[current], outcome))
        /\ pc' \in {"events", "user"} /\ "write" \in IO
    BY <1>6 DEF WriteEvent, Turn, IO
  <2>2. Matched(conn[current], {"write"}) /\ Monitored(conn[current])
    BY <1>3, <2>1 DEF Sound, Matched
  <2>3. /\ Sound(HandleWrite(conn[current], outcome))
        /\ Keeps(conn[current], HandleWrite(conn[current], outcome), {"write"})
    BY <2>2, WriteIsSound
  <2>4. QED
    BY <1>2, <2>1, <2>3
<1>7. QED
  BY <1>1, <1>4, <1>5, <1>6 DEF ProcessEvents

LEMMA InvInit == Init => Inv
<1> SUFFICES ASSUME Init
             PROVE  Inv
  OBVIOUS
<1>1. \A c \in Connections : conn[c] = NoConnection
  BY DEF Init
<1>2. AllSound
  BY <1>1, EmptyIsSound DEF AllSound
<1>3. NoConnection \in ConnectionType
  BY EmptyIsSound DEF Sound, Matched
<1>4. TypeOK
  BY <1>3 DEF Init, TypeOK
<1>5. PendingIsAwaited /\ OneAtATime
  BY DEF Init, PendingIsAwaited, OneAtATime, Pending
<1>6. QED
  BY <1>2, <1>4, <1>5 DEF Inv

LEMMA InvStep == Inv /\ [Next]_vars => Inv'
<1> SUFFICES ASSUME Inv, [Next]_vars
             PROVE  Inv'
  OBVIOUS
<1>1. CASE User
  BY <1>1, UserStep
<1>2. CASE Poll
  <2>1. /\ pc = "loop" /\ revents' \in [Connections -> SUBSET Events]
        /\ \A c \in Connections : revents'[c] \subseteq conn[c].events \cup {"error"}
        /\ UNCHANGED <<conn, pc, current, todo>>
    BY <1>2 DEF Poll, Reportable
  <2>2. "error" \notin IO
    BY DEF IO
  <2>3. QED
    BY <2>1, <2>2 DEF Inv, TypeOK, AllSound, PendingIsAwaited, OneAtATime, Pending
<1>3. ASSUME NEW c \in Connections, Dispatch(c)
      PROVE  Inv'
  <2>1. /\ pc = "loop" /\ pc' = "events" /\ current' = c /\ todo' = revents[c]
        /\ revents' = [revents EXCEPT ![c] = {}] /\ conn' = conn
    BY <1>3 DEF Dispatch
  <2>2. revents \in [Connections -> SUBSET Events] /\ c # Nobody
    BY NobodyAssumption DEF Inv, TypeOK
  <2>3. TypeOK' /\ AllSound'
    BY <2>1, <2>2 DEF Inv, TypeOK, AllSound
  <2>4. PendingIsAwaited' /\ OneAtATime'
    BY <2>1, <2>2 DEF Inv, PendingIsAwaited, OneAtATime, Pending
  <2>5. QED
    BY <2>3, <2>4 DEF Inv
<1>4. CASE ProcessEvents
  BY <1>4, EventStep
<1>5. CASE UNCHANGED vars
  BY <1>5 DEF vars, Inv, TypeOK, AllSound, PendingIsAwaited, OneAtATime, Pending
<1>6. QED
  BY <1>1, <1>2, <1>3, <1>4, <1>5 DEF Next

LEMMA Invariant == SafeSpec => []Inv
BY InvInit, InvStep, PTL DEF SafeSpec

-----------------------------------------------------------------------------
(* Every variable of the connections keeps its type.                       *)
THEOREM TypeCorrect == SafeSpec => []TypeOK
BY Invariant, PTL DEF Inv

(* An open connection waits for just the events that somebody is owed a    *)
(* callback for, whatever the user's callbacks do to it and to others.     *)
THEOREM ConnectionsWaitForWhatTheyOwe == SafeSpec => []WaitingMeansWatched
<1>1. Inv => WaitingMeansWatched
  BY DEF Inv, AllSound, Sound, Matched, WaitingMeansWatched
<1>2. QED
  BY <1>1, Invariant, PTL

(* Only on a closed connection is a request ever answered twice.           *)
THEOREM OpenConnectionsAnswerOnce == SafeSpec => []TwiceOnlyWhenClosed
<1>1. Inv => TwiceOnlyWhenClosed
  BY DEF Inv, AllSound, Sound, Matched, TwiceOnlyWhenClosed
<1>2. QED
  BY <1>1, Invariant, PTL

(* A connection that is retained is watched until it is closed or its user *)
(* has it back.                                                            *)
THEOREM RetainedAreAlwaysMonitored == SafeSpec => []RetainedAreMonitored
<1>1. Inv => RetainedAreMonitored
  BY DEF Inv, AllSound, Sound, Monitored, RetainedAreMonitored
<1>2. QED
  BY <1>1, Invariant, PTL

(* No stale event makes a handler disable a channel that waits for nothing.*)
THEOREM ChannelsAreDisabledOnlyWhenSet == SafeSpec => []ChannelAssertionsHold
<1>1. Inv => ChannelAssertionsHold
  BY DEF Inv, AllSound, Sound, Matched, ChannelAssertionsHold
<1>2. QED
  BY <1>1, Invariant, PTL

-----------------------------------------------------------------------------
(* The bytes. When nothing is being sent the buffers of the chain are      *)
(* filled in order: that is why what the user appends next comes last. An  *)
(* append that does not fit leaves the buffers as they are and ends it all.*)
BuffersInv ==
  /\ writeBufChain \in Seq(SoundBuffers(Bytes))
  /\ Len(writeBufChain) \in 1 .. CMaxWriteBufferNum
  /\ readBuf \in SoundBuffers(Bytes)
  /\ sending \in BOOLEAN /\ overflowed \in BOOLEAN
  /\ appended \in 0 .. MaxBytes /\ arrived \in 0 .. MaxBytes
  /\ wire \in Seq(Bytes) /\ delivered \in Seq(Bytes)
  /\ ~sending => FilledInOrder(writeBufChain)

LEMMA FollowingBytes ==
  ASSUME NEW n \in Nat, NEW k \in Nat, n + k <= MaxBytes
  PROVE  Following(n, k) \in Seq(Bytes) /\ Len(Following(n, k)) = k
<1>1. \A i \in 1 .. k : n + i \in Bytes
  BY BoundsAssumption DEF Bytes
<1>2. QED
  BY <1>1 DEF Following

LEMMA BuffersStart ==
  ASSUME BuffersInit
  PROVE  BuffersInv /\ Content(writeBufChain) = <<>> /\ readBuf.data = <<>>
<1>1. PICK b : b = New(InitSize)
  OBVIOUS
<1>2. BufferSound(b, Bytes) /\ b.data = <<>>
  BY <1>1, InitSizeAssumption, NewIsSound
<1>3. b \in SoundBuffers(Bytes)
  BY <1>2 DEF SoundBuffers, BufferSound
<1>4. /\ writeBufChain = <<b>> /\ readBuf = b
      /\ ~sending /\ sending \in BOOLEAN /\ overflowed \in BOOLEAN
      /\ appended = 0 /\ arrived = 0 /\ wire = <<>> /\ delivered = <<>>
  BY <1>1 DEF BuffersInit
<1>5. writeBufChain \in Seq(SoundBuffers(Bytes)) /\ Len(writeBufChain) = 1
  BY <1>3, <1>4
<1>6. FilledInOrder(writeBufChain)
  BY <1>5 DEF FilledInOrder
<1>7. Content(writeBufChain) = <<>>
  <2>1. <<>> \in Seq(SoundBuffers(Bytes)) /\ writeBufChain = Append(<<>>, b)
    BY <1>4, EmptySeq
  <2>2. Content(writeBufChain) = Content(<<>>)
    BY <1>2, <1>3, <2>1, ChainGrows
  <2>3. PICK f : Gathers(<<>>, f, Bytes)
    BY <2>1, ContentIsGathered
  <2>4. Content(<<>>) = f[0] /\ f[0] = <<>>
    <3>1. Content(<<>>) = f[Len(<<>>)] /\ Len(<<>>) = 0
      BY <2>1, <2>3, ContentIsGathered, EmptySeq
    <3>2. QED
      BY <2>3, <3>1 DEF Gathers
  <2>5. QED
    BY <2>2, <2>4
<1>8. appended \in 0 .. MaxBytes /\ arrived \in 0 .. MaxBytes
  BY <1>4, BoundsAssumption
<1>9. 1 \in 1 .. CMaxWriteBufferNum
  BY CMaxWriteBufferNumAssumption
<1>10. wire \in Seq(Bytes) /\ delivered \in Seq(Bytes)
  BY <1>4, EmptySeq
<1>11. QED
  BY <1>2, <1>3, <1>4, <1>5, <1>6, <1>7, <1>8, <1>9, <1>10 DEF BuffersInv

(* An append: all fits and goes last, or the process breaks.               *)
LEMMA AppendStep ==
  ASSUME BuffersInv, NEW n \in 1 .. MaxAppend, AppendToSend(n)
  PROVE  /\ BuffersInv'
         /\ UNCHANGED <<appended, writeBufChain>> \/ Outgoing!Put
         /\ UNCHANGED <<wire, readBuf, arrived, delivered>>
<1>1. PICK got, bytes : /\ got = GetWriteBuffer(writeBufChain, InitSize, CMaxWriteBufferNum)
                        /\ bytes = Following(appended, n)
  OBVIOUS
<1>2. /\ ~sending /\ got.index # 0 /\ appended + n <= MaxBytes
      /\ UNCHANGED <<sending, wire, readBuf, arrived, delivered>>
  BY <1>1 DEF AppendToSend
<1>3. n \in Nat /\ appended \in Nat /\ n # 0
  BY BoundsAssumption DEF BuffersInv
<1>4. bytes \in Seq(Bytes) /\ Len(bytes) = n
  BY <1>1, <1>2, <1>3, FollowingBytes
<1>5. CASE ~Fits(got.chain[got.index], n)
  <2>1. overflowed' = TRUE /\ UNCHANGED <<writeBufChain, appended>>
    BY <1>1, <1>5 DEF AppendToSend
  <2>2. QED
    BY <1>2, <2>1 DEF BuffersInv
<1>6. CASE Fits(got.chain[got.index], n)
  <2>1. /\ Appends(writeBufChain', got, bytes)
        /\ appended' = appended + n /\ UNCHANGED overflowed
    BY <1>1, <1>6 DEF AppendToSend, Appends
  <2>2. /\ writeBufChain \in Seq(SoundBuffers(Bytes)) /\ FilledInOrder(writeBufChain)
        /\ InitSize \in Nat /\ CMaxWriteBufferNum \in Nat
        /\ Len(writeBufChain) \in 1 .. CMaxWriteBufferNum
    BY <1>2, InitSizeAssumption, CMaxWriteBufferNumAssumption DEF BuffersInv
  <2>3. Fits(got.chain[got.index], Len(bytes))
    BY <1>4, <1>6
  <2>4. /\ writeBufChain' \in Seq(SoundBuffers(Bytes))
        /\ Len(writeBufChain') \in 1 .. CMaxWriteBufferNum
        /\ Content(writeBufChain') = Content(writeBufChain) \o bytes
        /\ FilledInOrder(writeBufChain')
    BY <1>1, <1>2, <1>4, <2>1, <2>2, <2>3, AppendGoesLast
  <2>5. appended' > appended /\ appended' - appended = n
    BY <1>3, <2>1
  <2>6. Outgoing!Put
    BY <1>1, <1>2, <2>4, <2>5 DEF Outgoing!Put, Outgoing!Following, Following
  <2>7. appended' \in 0 .. MaxBytes
    BY <1>2, <1>3, <2>1
  <2>8. BuffersInv'
    BY <1>2, <2>1, <2>4, <2>7 DEF BuffersInv, Bytes
  <2>9. QED
    BY <1>2, <2>6, <2>8
<1>7. QED
  BY <1>5, <1>6

(* handleWrite: what is taken off the chain goes to the socket, and when   *)
(* all is written every buffer is empty.                                   *)
LEMMA WriteStep ==
  ASSUME BuffersInv, NEW k \in 0 .. MaxBytes, WriteBytes(k)
  PROVE  /\ BuffersInv'
         /\ \/ UNCHANGED wire /\ Content(writeBufChain') = Content(writeBufChain)
            \/ Outgoing!Take
         /\ UNCHANGED <<appended, readBuf, arrived, delivered>>
<1>1. PICK content : content = Content(writeBufChain)
  OBVIOUS
<1>2. /\ k \in 0 .. Len(content)
      /\ writeBufChain' = Write(writeBufChain, k)
      /\ wire' = wire \o SubSeq(content, 1, k)
      /\ sending' = (k < Len(content))
      /\ UNCHANGED <<appended, overflowed, readBuf, arrived, delivered>>
  BY <1>1 DEF WriteBytes
<1>3. /\ writeBufChain \in Seq(SoundBuffers(Bytes)) /\ wire \in Seq(Bytes)
      /\ content \in Seq(Bytes) /\ Len(content) \in Nat
  BY <1>1, ContentType DEF BuffersInv
<1>4. /\ writeBufChain' \in Seq(SoundBuffers(Bytes))
      /\ Len(writeBufChain') = Len(writeBufChain)
      /\ Content(writeBufChain') = SubSeq(content, k + 1, Len(content))
  BY <1>1, <1>2, <1>3, WriteTakesFromFront
<1>5. /\ wire' \in Seq(Bytes)
      /\ k = 0 => wire' = wire /\ Content(writeBufChain') = content
      /\ k = Len(content) => Content(writeBufChain') = <<>>
  BY <1>2, <1>3, <1>4, MovingTheFirst
<1>6. ~sending' => FilledInOrder(writeBufChain')
  <2>1. SUFFICES ASSUME ~sending'
                 PROVE  FilledInOrder(writeBufChain')
    OBVIOUS
  <2>2. k = Len(content)
    <3>1. ~(k < Len(content))
      BY <1>2, <2>1, Zenon
    <3>2. QED
      BY <1>2, <1>3, <3>1
  <2>3. Len(Content(writeBufChain')) = 0
    BY <1>5, <2>2, EmptySeq
  <2>4. \A i \in 1 .. Len(writeBufChain') : writeBufChain'[i].data = <<>>
    BY <1>4, <2>3, NoContent
  <2>5. QED
    BY <2>4 DEF FilledInOrder
<1>7. BuffersInv'
  <2>1. sending' \in BOOLEAN
    BY <1>2
  <2>2. QED
    BY <1>2, <1>4, <1>5, <1>6, <2>1 DEF BuffersInv, Bytes
<1>8. CASE k = 0
  BY <1>1, <1>2, <1>5, <1>7, <1>8
<1>9. CASE k # 0
  <2>1. k \in 1 .. Len(content)
    BY <1>2, <1>3, <1>9
  <2>2. Outgoing!Take
    BY <1>1, <1>2, <1>4, <2>1 DEF Outgoing!Take
  <2>3. QED
    BY <1>2, <1>7, <2>2
<1>10. QED
  BY <1>8, <1>9

(* ReadFd reads no more than there is room for, behind what is there.      *)
LEMMA ReadStep ==
  ASSUME BuffersInv, NEW n \in 1 .. MaxBytes, ReadBytes(n)
  PROVE  /\ BuffersInv'
         /\ Incoming!Put
         /\ UNCHANGED <<appended, writeBufChain, wire>>
<1>1. PICK bytes : bytes = Following(arrived, n)
  OBVIOUS
<1>2. /\ n <= AppendableSize(readBuf) /\ arrived + n <= MaxBytes
      /\ readBuf' = MarkAppended(readBuf, bytes)
      /\ arrived' = arrived + n
      /\ UNCHANGED <<delivered, writeBufChain, sending, appended, wire, overflowed>>
  BY <1>1 DEF ReadBytes, ReadLimit
<1>3. n \in Nat /\ arrived \in Nat /\ n # 0
  BY DEF BuffersInv
<1>4. bytes \in Seq(Bytes) /\ Len(bytes) = n
  BY <1>1, <1>2, <1>3, FollowingBytes
<1>5. BufferSound(readBuf, Bytes)
  BY DEF BuffersInv, SoundBuffers
<1>6. BufferSound(readBuf', Bytes) /\ readBuf'.data = readBuf.data \o bytes
  BY <1>2, <1>4, <1>5, AppendedIsSound
<1>7. readBuf' \in SoundBuffers(Bytes)
  BY <1>6 DEF SoundBuffers, BufferSound
<1>8. arrived' > arrived /\ arrived' - arrived = n
  BY <1>2, <1>3
<1>9. Incoming!Put
  BY <1>1, <1>2, <1>6, <1>8 DEF Incoming!Put, Incoming!Following, Following
<1>10. arrived' \in 0 .. MaxBytes
  BY <1>2, <1>3
<1>11. BuffersInv'
  BY <1>2, <1>7, <1>10 DEF BuffersInv, Bytes
<1>12. QED
  BY <1>2, <1>9, <1>11

(* The user takes bytes from the front of readBuf.                         *)
LEMMA RetriveStep ==
  ASSUME BuffersInv, NEW n \in 1 .. MaxBytes, Retrive(n)
  PROVE  /\ BuffersInv'
         /\ \/ readBuf'.data = readBuf.data /\ UNCHANGED delivered
            \/ Incoming!Take
         /\ UNCHANGED <<appended, writeBufChain, wire, arrived>>
<1>1. BufferSound(readBuf, Bytes)
  BY DEF BuffersInv, SoundBuffers
<1>2. PICK data : data = readBuf.data
  OBVIOUS
<1>3. data \in Seq(Bytes) /\ Len(data) \in Nat /\ delivered \in Seq(Bytes)
  BY <1>1, <1>2, BufferFields DEF BuffersInv
<1>4. PICK size : size = Min({n, Len(data)})
  OBVIOUS
<1>5. size \in 0 .. Len(data)
  <2>1. size = IF n <= Len(data) THEN n ELSE Len(data)
    BY <1>3, <1>4, LeastOfTwo
  <2>2. QED
    BY <1>3, <2>1
<1>6. /\ delivered' = delivered \o SubSeq(data, 1, size)
      /\ readBuf' = MarkProcessed(readBuf, size)
      /\ UNCHANGED <<arrived, writeBufChain, sending, appended, wire, overflowed>>
  BY <1>2, <1>4 DEF Retrive, AvailableSize
<1>7. BufferSound(readBuf', Bytes) /\ readBuf'.data = SubSeq(data, size + 1, Len(data))
  BY <1>1, <1>2, <1>5, <1>6, ProcessedIsSound
<1>8. /\ delivered' \in Seq(Bytes)
      /\ size = 0 => delivered' = delivered /\ readBuf'.data = data
  BY <1>3, <1>5, <1>6, <1>7, MovingTheFirst
<1>9. readBuf' \in SoundBuffers(Bytes)
  BY <1>7 DEF SoundBuffers, BufferSound
<1>10. BuffersInv'
  BY <1>6, <1>8, <1>9 DEF BuffersInv, Bytes
<1>11. CASE size = 0
  BY <1>2, <1>6, <1>8, <1>10, <1>11
<1>12. CASE size # 0
  <2>1. size \in 1 .. Len(data)
    BY <1>3, <1>5, <1>12
  <2>2. Incoming!Take
    BY <1>2, <1>6, <1>7, <2>1 DEF Incoming!Take
  <2>3. QED
    BY <1>6, <1>10, <2>2
<1>13. QED
  BY <1>11, <1>12

(* The buffers of both directions are sound, and while nothing is being    *)
(* sent those of the chain are filled in order.                            *)
THEOREM BuffersStayInOrder == BuffersSpec => []BuffersInv
<1>1. BuffersInit => BuffersInv
  BY BuffersStart
<1>2. BuffersInv /\ [BuffersNext]_buffersVars => BuffersInv'
  <2> SUFFICES ASSUME BuffersInv, [BuffersNext]_buffersVars
               PROVE  BuffersInv'
    OBVIOUS
  <2>1. ASSUME NEW n \in 1 .. MaxAppend, AppendToSend(n)
        PROVE  BuffersInv'
    BY <2>1, AppendStep
  <2>2. ASSUME NEW k \in 0 .. MaxBytes, SendBytes(k)
        PROVE  BuffersInv'
    BY <2>2, WriteStep DEF SendBytes
  <2>3. ASSUME NEW k \in 0 .. MaxBytes, WriteMore(k)
        PROVE  BuffersInv'
    BY <2>3, WriteStep DEF WriteMore
  <2>4. ASSUME NEW n \in 1 .. MaxBytes, ReadBytes(n)
        PROVE  BuffersInv'
    BY <2>4, ReadStep
  <2>5. ASSUME NEW n \in 1 .. MaxBytes, Retrive(n)
        PROVE  BuffersInv'
    BY <2>5, RetriveStep
  <2>6. CASE UNCHANGED buffersVars
    BY <2>6 DEF buffersVars, BuffersInv, Bytes
  <2>7. QED
    BY <2>1, <2>2, <2>3, <2>4, <2>5, <2>6 DEF BuffersNext
<1>3. QED
  BY <1>1, <1>2, PTL DEF BuffersSpec

(* The buffers have the types that the model gives them, and unless an     *)
(* append did not fit none of them claims more than its capacity.          *)
THEOREM BuffersTypeCorrect == BuffersSpec => []BuffersTypeOK
<1>1. ASSUME NEW b \in SoundBuffers(Bytes)
      PROVE  b \in BufferType(Bytes) /\ AvailEnd(b) <= b.capacity
  <2>1. Seq(Bytes) \subseteq Seq(Bytes \cup {Lost})
    OBVIOUS
  <2>2. b \in [size : Nat, capacity : Nat, availStart : Nat, data : Seq(Bytes)]
    BY DEF SoundBuffers
  <2>3. AvailEnd(b) <= b.capacity
    BY DEF SoundBuffers, BufferSound
  <2>4. QED
    BY <2>1, <2>2, <2>3 DEF BufferType
<1>2. BuffersInv => BuffersTypeOK
  <2> SUFFICES ASSUME BuffersInv
               PROVE  BuffersTypeOK
    OBVIOUS
  <2>1. \A i \in 1 .. Len(writeBufChain) : writeBufChain[i] \in SoundBuffers(Bytes)
    BY ElementOfSeq DEF BuffersInv
  <2>2. writeBufChain \in Seq(BufferType(Bytes))
    BY <1>1 DEF BuffersInv
  <2>3. \A b \in Range(writeBufChain) \cup {readBuf} : AvailEnd(b) <= b.capacity
    BY <1>1, <2>1, LenProperties DEF Range, BuffersInv
  <2>4. readBuf \in BufferType(Bytes)
    BY <1>1 DEF BuffersInv
  <2>5. QED
    BY <2>2, <2>3, <2>4 DEF BuffersInv, BuffersTypeOK
<1>3. QED
  BY <1>2, BuffersStayInOrder, PTL

(* What the user appends, over as many buffers and partial writes as it    *)
(* takes, reaches the socket in order, nothing lost or doubled.            *)
THEOREM OutgoingIsAStream == BuffersSpec => SendsInOrder
<1>1. BuffersInit => Outgoing!Init
  BY BuffersStart DEF Outgoing!Init, BuffersInit
<1>2. BuffersInv /\ [BuffersNext]_buffersVars => [Outgoing!Next]_(Outgoing!vars)
  <2> SUFFICES ASSUME BuffersInv, [BuffersNext]_buffersVars
               PROVE  [Outgoing!Next]_(Outgoing!vars)
    OBVIOUS
  <2>1. ASSUME NEW n \in 1 .. MaxAppend, AppendToSend(n)
        PROVE  Outgoing!Put \/ UNCHANGED Outgoing!vars
    BY <2>1, AppendStep DEF Outgoing!vars
  <2>2. ASSUME NEW k \in 0 .. MaxBytes, SendBytes(k) \/ WriteMore(k)
        PROVE  Outgoing!Take \/ UNCHANGED Outgoing!vars
    BY <2>2, WriteStep DEF SendBytes, WriteMore, Outgoing!vars
  <2>3. ASSUME NEW n \in 1 .. MaxBytes, ReadBytes(n) \/ Retrive(n)
        PROVE  UNCHANGED Outgoing!vars
    BY <2>3, ReadStep, RetriveStep DEF Outgoing!vars
  <2>4. CASE UNCHANGED buffersVars
    BY <2>4 DEF buffersVars, Outgoing!vars
  <2>5. QED
    BY <2>1, <2>2, <2>3, <2>4 DEF BuffersNext, Outgoing!Next
<1>3. QED
  BY <1>1, <1>2, BuffersStayInOrder, PTL DEF BuffersSpec, SendsInOrder, Outgoing!Spec

(* What is read from the socket reaches the user in order, however little  *)
(* room readBuf had and however the user takes it out.                     *)
THEOREM IncomingIsAStream == BuffersSpec => ReceivesInOrder
<1>1. BuffersInit => Incoming!Init
  BY BuffersStart DEF Incoming!Init, BuffersInit
<1>2. BuffersInv /\ [BuffersNext]_buffersVars => [Incoming!Next]_(Incoming!vars)
  <2> SUFFICES ASSUME BuffersInv, [BuffersNext]_buffersVars
               PROVE  [Incoming!Next]_(Incoming!vars)
    OBVIOUS
  <2>1. ASSUME NEW n \in 1 .. MaxBytes, ReadBytes(n)
        PROVE  Incoming!Put
    BY <2>1, ReadStep
  <2>2. ASSUME NEW n \in 1 .. MaxBytes, Retrive(n)
        PROVE  Incoming!Take \/ UNCHANGED Incoming!vars
    BY <2>2, RetriveStep DEF Incoming!vars
  <2>3. ASSUME NEW n \in 1 .. MaxAppend, AppendToSend(n)
        PROVE  UNCHANGED Incoming!vars
    BY <2>3, AppendStep DEF Incoming!vars
  <2>4. ASSUME NEW k \in 0 .. MaxBytes, SendBytes(k) \/ WriteMore(k)
        PROVE  UNCHANGED Incoming!vars
    BY <2>4, WriteStep DEF SendBytes, WriteMore, Incoming!vars
  <2>5. CASE UNCHANGED buffersVars
    BY <2>5 DEF buffersVars, Incoming!vars
  <2>6. QED
    BY <2>1, <2>2, <2>3, <2>4, <2>5 DEF BuffersNext, Incoming!Next
<1>3. QED
  BY <1>1, <1>2, BuffersStayInOrder, PTL DEF BuffersSpec, ReceivesInOrder, Incoming!Spec
=============================================================================
