--------------------------- MODULE ListenerProofs ----------------------------
(***************************************************************************)
(* What Listener guarantees for any peers, addresses, limit and number of  *)
(* descriptors.                                                            *)
(***************************************************************************)
EXTENDS Listener, DataLemmas

(* The backlog holds peers that wait, each once: handleAccept never finds  *)
(* one whose connection is open.                                           *)
BacklogWaits ==
  /\ \A i \in 1 .. Len(backlog) : status[backlog[i]] = "waiting"
  /\ \A i, j \in 1 .. Len(backlog) : backlog[i] = backlog[j] => i = j

FdsAccountedFor == free + taken + Cardinality(Open) = NumFds

Inv ==
  /\ TypeOK
  /\ BacklogWaits
  /\ Houses(pool, Open, group, Groups)
  /\ FdsAccountedFor

-----------------------------------------------------------------------------
LEMMA OpenIsFinite ==
  /\ Open \in SUBSET Connections /\ IsFiniteSet(Open)
  /\ Cardinality(Open) \in Nat
  /\ Open' \in SUBSET Connections /\ IsFiniteSet(Open')
BY FiniteAssumption, FS_Subset, FS_CardinalityType DEF Open

LEMMA OthersKeepInv ==
  ASSUME Inv, UNCHANGED <<backlog, status, group, pool>>, TypeOK',
         free' + taken' = free + taken
  PROVE  Inv'
<1>1. Open' = Open
  BY DEF Open
<1>2. free \in Nat /\ taken \in Nat /\ free' \in Nat /\ taken' \in Nat /\ NumFds \in Nat
  BY NumFdsAssumption DEF Inv, TypeOK
<1>3. FdsAccountedFor'
  BY <1>1, <1>2, OpenIsFinite DEF Inv, FdsAccountedFor
<1>4. BacklogWaits' /\ Houses(pool, Open, group, Groups)'
  BY <1>1 DEF Inv, BacklogWaits
<1>5. QED
  BY <1>3, <1>4 DEF Inv

(* The first peer of the backlog waits, and only once.                     *)
LEMMA TakeFirst ==
  ASSUME Inv, NEW c \in Connections, Accepts(c), NEW new,
         status' = [status EXCEPT ![c] = new]
  PROVE  /\ status[c] = "waiting"
         /\ backlog' \in Seq(Connections)
         /\ BacklogWaits'
<1>1. backlog \in Seq(Connections) /\ backlog # <<>> /\ c = Head(backlog) /\ backlog' = Tail(backlog)
  BY DEF Inv, TypeOK, Accepts
<1>2. /\ c = backlog[1] /\ backlog' \in Seq(Connections)
      /\ Len(backlog) \in Nat /\ Len(backlog) > 0 /\ Len(backlog') = Len(backlog) - 1
      /\ \A i \in 1 .. Len(backlog') : backlog'[i] = backlog[i + 1]
  BY <1>1, HeadTailProperties, LenProperties, EmptySeq
<1>3. \A i \in 1 .. Len(backlog') :
        /\ i + 1 \in 1 .. Len(backlog) /\ backlog'[i] = backlog[i + 1] /\ backlog[i + 1] # c
  BY <1>2 DEF Inv, BacklogWaits
<1>4. status[c] = "waiting"
  BY <1>2 DEF Inv, BacklogWaits
<1>5. \A i \in 1 .. Len(backlog') : status'[backlog'[i]] = "waiting"
  <2>1. \A d \in Connections : d # c => status'[d] = status[d]
    BY DEF Inv, TypeOK
  <2>2. \A i \in 1 .. Len(backlog') : backlog'[i] \in Connections
    BY <1>2, ElementOfSeq
  <2>3. QED
    BY <1>3, <2>1, <2>2 DEF Inv, BacklogWaits
<1>6. \A i, j \in 1 .. Len(backlog') : backlog'[i] = backlog'[j] => i = j
  <2> SUFFICES ASSUME NEW i \in 1 .. Len(backlog'), NEW j \in 1 .. Len(backlog'),
                      backlog'[i] = backlog'[j]
               PROVE  i = j
    OBVIOUS
  <2>1. backlog[i + 1] = backlog[j + 1]
    BY <1>3
  <2>2. i + 1 = j + 1
    BY <1>3, <2>1 DEF Inv, BacklogWaits
  <2>3. QED
    BY <2>2
<1>7. QED
  BY <1>2, <1>4, <1>5, <1>6 DEF BacklogWaits

(* A peer gets out of the way without a connection.                        *)
LEMMA DropKeepsInv ==
  ASSUME Inv, NEW c \in Connections, Accepts(c), status' = [status EXCEPT ![c] = "none"],
         UNCHANGED <<listening, group, pool, free, taken, pc>>
  PROVE  Inv'
<1>1. status[c] = "waiting" /\ backlog' \in Seq(Connections) /\ BacklogWaits'
  BY TakeFirst
<1>2. Open' = Open
  BY <1>1 DEF Inv, TypeOK, Open
<1>3. TypeOK'
  BY <1>1 DEF Inv, TypeOK
<1>4. QED
  BY <1>1, <1>2, <1>3 DEF Inv, FdsAccountedFor

LEMMA EstablishKeepsInv ==
  ASSUME Inv, NEW c \in Connections, Establish(c)
  PROVE  Inv'
<1>1. Accepts(c) /\ free > 0 /\ free' = free - 1 /\ taken' = taken
      /\ status' = [status EXCEPT ![c] = "Established"]
      /\ listening' = listening /\ pc' = "user"
  BY DEF Establish
<1>2. status[c] = "waiting" /\ backlog' \in Seq(Connections) /\ BacklogWaits'
  BY <1>1, TakeFirst
<1>3. PICK g \in Groups : group' = [group EXCEPT ![c] = g] /\ pool' = AddTcpConnection(pool, c, g)
  BY DEF Establish
<1>4. /\ group \in [Connections -> Groups] /\ status \in [Connections -> {"none", "waiting", "Established", "Closed"}]
      /\ pool \in PoolType(Connections, Groups)
      /\ free \in 0 .. NumFds /\ taken \in 0 .. NumFds /\ NumFds \in Nat
  BY NumFdsAssumption DEF Inv, TypeOK
<1>5. group' \in [Connections -> Groups] /\ group'[c] = g /\ \A d \in Open : group'[d] = group[d]
  BY <1>2, <1>3, <1>4 DEF Open
<1>6. c \notin Open /\ Open' = Open \cup {c}
  BY <1>1, <1>2, <1>4 DEF Open
<1>7. /\ pool' \in PoolType(Connections, Groups)
      /\ Houses(pool', Open \cup {c}, group', Groups)
  <2>1. Houses(pool, Open, group', Groups)
    <3>1. Houses(pool, Open, group, Groups)
      BY DEF Inv
    <3>2. QED
      BY <1>5, <3>1, HousesFor
  <2>2. c \in Connections \ Open /\ group'[c] \in Groups
    BY <1>5, <1>6
  <2>3. /\ AddTcpConnection(pool, c, group'[c]) \in PoolType(Connections, Groups)
        /\ Houses(AddTcpConnection(pool, c, group'[c]), Open \cup {c}, group', Groups)
    BY <1>4, <2>1, <2>2, OpenIsFinite, AddHouses
  <2>4. QED
    BY <1>3, <1>5, <2>3
<1>8. Cardinality(Open') = Cardinality(Open) + 1
  BY <1>6, OpenIsFinite, FS_AddElement
<1>9. FdsAccountedFor'
  BY <1>1, <1>4, <1>8, OpenIsFinite DEF Inv, FdsAccountedFor
<1>10. TypeOK'
  BY <1>1, <1>2, <1>4, <1>5, <1>7 DEF Inv, TypeOK
<1>11. QED
  BY <1>2, <1>6, <1>7, <1>9, <1>10 DEF Inv

LEMMA CloseKeepsInv ==
  ASSUME Inv, NEW c \in Connections, Close(c)
  PROVE  Inv'
<1>1. /\ status[c] = "Established" /\ status' = [status EXCEPT ![c] = "Closed"]
      /\ pool' = RemoveTcpConnection(pool, c, group[c]) /\ free' = free + 1
      /\ UNCHANGED <<listening, backlog, group, taken, pc>>
  BY DEF Close, NeedsClosing
<1>2. /\ group \in [Connections -> Groups] /\ status \in [Connections -> {"none", "waiting", "Established", "Closed"}]
      /\ pool \in PoolType(Connections, Groups)
      /\ free \in 0 .. NumFds /\ taken \in 0 .. NumFds /\ NumFds \in Nat
  BY NumFdsAssumption DEF Inv, TypeOK
<1>3. c \in Open /\ Open' = Open \ {c}
  BY <1>1, <1>2 DEF Open
<1>4. /\ pool' \in PoolType(Connections, Groups)
      /\ Houses(pool', Open \ {c}, group, Groups)
  <2>1. group[c] \in Groups /\ Houses(pool, Open, group, Groups)
    BY <1>2 DEF Inv
  <2>2. QED
    BY <1>1, <1>2, <1>3, <2>1, OpenIsFinite, RemoveHouses
<1>5. Cardinality(Open') = Cardinality(Open) - 1 /\ Cardinality(Open') \in Nat
  BY <1>3, OpenIsFinite, FS_RemoveElement, FS_CardinalityType
<1>6. FdsAccountedFor' /\ free' \in 0 .. NumFds
  BY <1>1, <1>2, <1>5, OpenIsFinite DEF Inv, FdsAccountedFor
<1>7. TypeOK'
  BY <1>1, <1>2, <1>4, <1>6 DEF Inv, TypeOK
<1>8. BacklogWaits'
  <2>1. \A i \in 1 .. Len(backlog) : backlog[i] \in Connections /\ backlog[i] # c
    BY <1>1, ElementOfSeq DEF Inv, TypeOK, BacklogWaits
  <2>2. QED
    BY <1>1, <1>2, <2>1 DEF Inv, BacklogWaits
<1>9. QED
  BY <1>1, <1>3, <1>4, <1>6, <1>7, <1>8 DEF Inv

LEMMA PeerConnectsKeepsInv ==
  ASSUME Inv, NEW c \in Connections, PeerConnects(c)
  PROVE  Inv'
<1>1. /\ status[c] = "none" /\ status' = [status EXCEPT ![c] = "waiting"]
      /\ backlog' = Append(backlog, c)
      /\ UNCHANGED <<listening, group, pool, free, taken, pc>>
  BY DEF PeerConnects
<1>2. /\ backlog \in Seq(Connections)
      /\ status \in [Connections -> {"none", "waiting", "Established", "Closed"}]
  BY DEF Inv, TypeOK
<1>3. /\ backlog' \in Seq(Connections) /\ Len(backlog) \in Nat /\ Len(backlog') = Len(backlog) + 1
      /\ \A i \in 1 .. Len(backlog) : backlog'[i] = backlog[i] /\ backlog[i] \in Connections
      /\ backlog'[Len(backlog) + 1] = c
  BY <1>1, <1>2, AppendProperties, LenProperties, ElementOfSeq
<1>4. \A i \in 1 .. Len(backlog) : backlog[i] # c
  BY <1>1 DEF Inv, BacklogWaits
<1>5. BacklogWaits'
  <2>1. \A i \in 1 .. Len(backlog') : status'[backlog'[i]] = "waiting"
    BY <1>1, <1>2, <1>3, <1>4 DEF Inv, BacklogWaits
  <2>2. \A i, j \in 1 .. Len(backlog') : backlog'[i] = backlog'[j] => i = j
    BY <1>3, <1>4 DEF Inv, BacklogWaits
  <2>3. QED
    BY <2>1, <2>2 DEF BacklogWaits
<1>6. Open' = Open
  BY <1>1, <1>2 DEF Open
<1>7. TypeOK'
  BY <1>1, <1>2, <1>3 DEF Inv, TypeOK
<1>8. QED
  BY <1>1, <1>5, <1>6, <1>7 DEF Inv, FdsAccountedFor

LEMMA DestroyKeepsInv ==
  ASSUME Inv, NEW c \in Connections, Destroy(c)
  PROVE  Inv'
<1>1. /\ status[c] = "Closed" /\ status' = [status EXCEPT ![c] = "none"]
      /\ UNCHANGED <<listening, backlog, group, pool, free, taken, pc>>
  BY DEF Destroy
<1>2. status \in [Connections -> {"none", "waiting", "Established", "Closed"}]
  BY DEF Inv, TypeOK
<1>3. Open' = Open
  BY <1>1, <1>2 DEF Open
<1>4. BacklogWaits'
  <2>1. \A i \in 1 .. Len(backlog) : backlog[i] \in Connections /\ backlog[i] # c
    BY <1>1, ElementOfSeq DEF Inv, TypeOK, BacklogWaits
  <2>2. QED
    BY <1>1, <1>2, <2>1 DEF Inv, BacklogWaits
<1>5. TypeOK'
  BY <1>1, <1>2 DEF Inv, TypeOK
<1>6. QED
  BY <1>1, <1>3, <1>4, <1>5 DEF Inv, FdsAccountedFor

-----------------------------------------------------------------------------
LEMMA InvInit == Init => Inv
<1> SUFFICES ASSUME Init
             PROVE  Inv
  OBVIOUS
<1>1. Open = {}
  BY DEF Init, Open
<1>2. /\ pool \in PoolType(Connections, Groups)
      /\ Houses(pool, Open, group, Groups)
  BY <1>1, EmptyPoolHouses DEF Init
<1>3. backlog \in Seq(Connections) /\ Len(backlog) = 0
  BY EmptySeq DEF Init
<1>4. TypeOK
  <2>1. status \in [Connections -> {"none", "waiting", "Established", "Closed"}]
    BY DEF Init
  <2>2. listening \in BOOLEAN /\ group \in [Connections -> Groups] /\ pc \in {"loop", "user"}
    BY Zenon DEF Init
  <2>3. free = NumFds /\ taken = 0
    BY DEF Init
  <2>4. free \in 0 .. NumFds /\ taken \in 0 .. NumFds
    BY <2>3, NumFdsAssumption
  <2>5. QED
    BY <1>2, <1>3, <2>1, <2>2, <2>4 DEF TypeOK
<1>5. FdsAccountedFor
  BY <1>1, NumFdsAssumption, FS_EmptySet DEF Init, FdsAccountedFor
<1>6. BacklogWaits
  BY <1>3 DEF BacklogWaits
<1>7. QED
  BY <1>2, <1>4, <1>5, <1>6 DEF Inv

LEMMA InvStep == Inv /\ [Next]_vars => Inv'
<1> SUFFICES ASSUME Inv, [Next]_vars
             PROVE  Inv'
  OBVIOUS
<1>1. CASE Listen \/ CallUser \/ UserReturns \/ UNCHANGED vars
  BY <1>1, OthersKeepInv DEF Listen, CallUser, UserReturns, vars, Inv, TypeOK
<1>2. CASE OthersOpen
  <2>1. free > 0 /\ free' = free - 1 /\ taken' = taken + 1
        /\ UNCHANGED <<listening, backlog, status, group, pool, pc>>
    BY <1>2 DEF OthersOpen
  <2>2. free \in 0 .. NumFds /\ taken \in 0 .. NumFds /\ NumFds \in Nat
    BY NumFdsAssumption DEF Inv, TypeOK
  <2>3. taken + 1 \in 0 .. NumFds /\ free - 1 \in 0 .. NumFds
    BY <2>1, <2>2, OpenIsFinite DEF Inv, FdsAccountedFor
  <2>4. TypeOK' /\ free' + taken' = free + taken
    BY <2>1, <2>2, <2>3 DEF Inv, TypeOK
  <2>5. QED
    BY <2>1, <2>4, OthersKeepInv
<1>3. CASE OthersClose
  <2>1. taken > 0 /\ free' = free + 1 /\ taken' = taken - 1
        /\ UNCHANGED <<listening, backlog, status, group, pool, pc>>
    BY <1>3 DEF OthersClose
  <2>2. free \in 0 .. NumFds /\ taken \in 0 .. NumFds /\ NumFds \in Nat
    BY NumFdsAssumption DEF Inv, TypeOK
  <2>3. free + 1 \in 0 .. NumFds /\ taken - 1 \in 0 .. NumFds
    BY <2>1, <2>2, OpenIsFinite DEF Inv, FdsAccountedFor
  <2>4. TypeOK' /\ free' + taken' = free + taken
    BY <2>1, <2>2, <2>3 DEF Inv, TypeOK
  <2>5. QED
    BY <2>1, <2>4, OthersKeepInv
<1>4. ASSUME NEW c \in Connections, handleAccept(c)
      PROVE  Inv'
  BY <1>4, DropKeepsInv, EstablishKeepsInv DEF handleAccept, PeerIsGone, Refuse
<1>5. ASSUME NEW c \in Connections, PeerConnects(c) \/ Close(c) \/ Destroy(c)
      PROVE  Inv'
  BY <1>5, PeerConnectsKeepsInv, CloseKeepsInv, DestroyKeepsInv
<1>6. QED
  BY <1>1, <1>2, <1>3, <1>4, <1>5 DEF Next

LEMMA Invariant == SafeSpec => []Inv
BY InvInit, InvStep, PTL DEF SafeSpec

(* Every variable of the listener keeps its type.                          *)
THEOREM TypeCorrect == SafeSpec => []TypeOK
BY Invariant, PTL DEF Inv

(* The connections, the pool and the descriptors agree on what is open for *)
(* any peers, limit and number of descriptors: none is lost.               *)
THEOREM ConnectionsAlwaysAccountedFor == SafeSpec => []ConnectionsAccountedFor
<1>1. Inv => ConnectionsAccountedFor
  <2> SUFFICES ASSUME Inv
               PROVE  ConnectionsAccountedFor
    OBVIOUS
  <2>1. pool \in PoolType(Connections, Groups) /\ \A c \in Open : group[c] \in Groups
    BY DEF Inv, TypeOK, Open
  <2>2. /\ InPool(pool) = Open
        /\ \A g \in Groups : \A c \in pool.members[g] : group[c] = g
    BY <2>1, HousedAreInPool DEF Inv
  <2>3. QED
    BY <2>2 DEF Inv, FdsAccountedFor, Houses, ConnectionsAccountedFor
<1>2. QED
  BY <1>1, Invariant, PTL

(* The assertions of AddTcpConnection and RemoveTcpConnection never fail   *)
(* for the connections of a Listener.                                      *)
THEOREM AssertionsAlwaysHold == SafeSpec => []Works
<1>1. Inv => Works
  BY DEF Inv, Houses, Works
<1>2. QED
  BY <1>1, Invariant, PTL
==============================================================================
