-------------------------- MODULE ConnectorProofs ----------------------------
(***************************************************************************)
(* What Connector guarantees for any attempts, addresses and limit.        *)
(***************************************************************************)
EXTENDS Connector, DataLemmas

Open == {c \in Attempts : IsOpen(c)}

(* Before its Connect, an attempt has no descriptor and no answer.         *)
NotAsked == \A a \in Attempts \ asked : fd[a] = NoFd /\ answers[a] = 0

OngoingAreAsked == ongoing \subseteq asked

(* A TcpConnection is made by finalise only.                               *)
MadeByFinalise == \A a \in Attempts \ finalised : conns[a].status = "none"

Inv ==
  /\ TypeOK
  /\ NotAsked
  /\ OngoingAreAsked
  /\ MadeByFinalise
  /\ TracedByDescriptor
  /\ AnsweredOnce
  /\ GroupsWithinLimit
  /\ Houses(pool, Open, group, Groups)

-----------------------------------------------------------------------------
(* As long as a Connect is still to come there is a descriptor for it, and *)
(* it is the lowest of those that are free.                                *)
LEMMA AttemptsAreFinite ==
  /\ Cardinality(Attempts) \in Nat
  /\ Fds \subseteq Nat /\ NoFd \notin Fds
  /\ IsFiniteSet(Fds) /\ Cardinality(Fds) = Cardinality(Attempts)
<1>1. Cardinality(Attempts) \in Nat
  BY AttemptsAssumption, FS_CardinalityType
<1>2. IsFiniteSet(Fds) /\ Cardinality(Fds) = Cardinality(Attempts)
  BY <1>1, FS_Interval DEF Fds
<1>3. QED
  BY <1>1, <1>2 DEF Fds, NoFd

LEMMA OpenIsFinite ==
  Open \in SUBSET Attempts /\ IsFiniteSet(Open) /\ IsFiniteSet(ongoing)
BY AttemptsAssumption, FS_Subset DEF Open, ongoing

LEMMA NewFdIsFree ==
  ASSUME Inv, NEW a \in Attempts, a \notin asked
  PROVE  NewFd \in Fds /\ \A b \in Attempts : fd[b] # NewFd
<1> DEFINE Free == {f \in Fds : \A b \in Attempts : fd[b] # f}
           h == [b \in Attempts \ {a} |-> IF fd[b] = NoFd THEN 1 ELSE fd[b]]
<1>1. fd \in [Attempts -> Fds \cup {NoFd}] /\ fd[a] = NoFd
  BY DEF Inv, TypeOK, NotAsked
<1>2. /\ IsFiniteSet(Attempts \ {a})
      /\ Cardinality(Attempts \ {a}) = Cardinality(Attempts) - 1
      /\ Cardinality(Attempts \ {a}) \in Nat
  BY AttemptsAssumption, FS_RemoveElement, FS_CardinalityType
<1>3. 1 \in Fds
  BY <1>2, AttemptsAreFinite DEF Fds
<1>4. Free # {}
  <2> SUFFICES ASSUME Free = {}
               PROVE  FALSE
    OBVIOUS
  <2>1. h \in [Attempts \ {a} -> Fds]
    BY <1>1, <1>3
  <2>2. \A f \in Fds : \E b \in Attempts \ {a} : h[b] = f
    BY <1>1, AttemptsAreFinite
  <2>3. h \in Surjection(Attempts \ {a}, Fds)
    BY <2>1, <2>2 DEF Surjection
  <2>4. Cardinality(Fds) <= Cardinality(Attempts \ {a})
    BY <1>2, <2>3, FS_Surjection
  <2>5. QED
    BY <1>2, <2>4, AttemptsAreFinite
<1>5. NewFd \in Free
  <2>1. Free \subseteq Nat
    BY AttemptsAreFinite
  <2>2. Min(Free) \in Free
    BY <1>4, <2>1, SmallestOf
  <2>3. QED
    BY <2>2 DEF NewFd
<1>6. QED
  BY <1>5

-----------------------------------------------------------------------------
LEMMA InvInit == Init => Inv
<1> SUFFICES ASSUME Init
             PROVE  Inv
  OBVIOUS
<1>1. Open = {} /\ ongoing = {}
  BY NobodyAssumption DEF Init, Open, IsOpen, ongoing
<1>2. /\ pool \in PoolType(Attempts, Groups) /\ Houses(pool, Open, group, Groups)
      /\ pool.groups = {}
  BY <1>1, EmptyPoolHouses DEF Init
<1>3. TypeOK
  <2>1. /\ asked \subseteq Attempts /\ finalised \subseteq asked
        /\ group \in [Attempts -> Groups] /\ answers \in [Attempts -> Nat]
        /\ fd \in [Attempts -> Fds \cup {NoFd}]
        /\ ongoingConnections \in [Fds -> Attempts \cup {Nobody}]
        /\ pc \in {"idle", "events", "user"} /\ current \in Attempts \cup {Nobody}
    BY DEF Init
  <2>2. conns \in [Attempts -> ConnType]
    BY DEF Init, ConnType
  <2>3. asserted \in BOOLEAN
    BY Zenon DEF Init
  <2>4. todo \in Seq({"error", "write"} \X BOOLEAN)
    BY DEF Init
  <2>5. QED
    BY <1>2, <2>1, <2>2, <2>3, <2>4 DEF TypeOK
<1>4. NotAsked /\ OngoingAreAsked /\ MadeByFinalise
  BY <1>1 DEF Init, NotAsked, OngoingAreAsked, MadeByFinalise
<1>5. AnsweredOnce
  BY <1>1 DEF Init, AnsweredOnce
<1>6. TracedByDescriptor
  BY DEF Init, TracedByDescriptor
<1>7. GroupsWithinLimit
  BY <1>1, <1>2, LimitAssumption, FS_EmptySet DEF GroupsWithinLimit, GetConnNumber
<1>8. QED
  BY <1>2, <1>3, <1>4, <1>5, <1>6, <1>7 DEF Inv

(* Steps that leave the map, the pool and the connections alone            *)
LEMMA LoopKeepsInv ==
  ASSUME Inv,
         UNCHANGED <<asked, group, mapVars, finalised, answers, conns, pool>>,
         pc' \in {"idle", "events", "user"}, current' \in Attempts \cup {Nobody},
         todo' \in Seq({"error", "write"} \X BOOLEAN)
  PROVE  Inv'
<1>1. Open' = Open /\ ongoing' = ongoing
  BY DEF Open, IsOpen, ongoing, mapVars
<1>2. TypeOK'
  BY DEF Inv, TypeOK, mapVars
<1>3. NotAsked' /\ OngoingAreAsked' /\ MadeByFinalise' /\ AnsweredOnce' /\ GroupsWithinLimit'
  BY <1>1 DEF Inv, NotAsked, OngoingAreAsked, MadeByFinalise, AnsweredOnce, GroupsWithinLimit,
              mapVars
<1>4. TracedByDescriptor'
  BY DEF Inv, TracedByDescriptor, mapVars
<1>5. QED
  BY <1>1, <1>2, <1>3, <1>4 DEF Inv

LEMMA ConnectFailsKeepsInv ==
  ASSUME Inv, NEW a \in Attempts, ConnectFails(a)
  PROVE  Inv'
<1>1. /\ a \notin asked /\ asked' = asked \cup {a}
      /\ answers' = [answers EXCEPT ![a] = @ + 1]
      /\ UNCHANGED <<group, fd, ongoingConnections, asserted, finalised, conns, pool, pc, current, todo>>
  BY DEF ConnectFails, mapVars, loopVars
<1>2. answers \in [Attempts -> Nat] /\ asked \subseteq Attempts /\ finalised \subseteq asked
  BY DEF Inv, TypeOK
<1>3. Open' = Open /\ ongoing' = ongoing
  BY <1>1 DEF Open, IsOpen, ongoing
<1>4. TypeOK'
  BY <1>1, <1>2 DEF Inv, TypeOK
<1>5. a \notin ongoing /\ answers[a] = 0
  BY <1>1 DEF Inv, NotAsked, OngoingAreAsked
<1>6. AnsweredOnce'
  BY <1>1, <1>2, <1>3, <1>5 DEF Inv, AnsweredOnce, ongoing
<1>7. NotAsked' /\ OngoingAreAsked' /\ MadeByFinalise'
  BY <1>1, <1>2, <1>3 DEF Inv, NotAsked, OngoingAreAsked, MadeByFinalise
<1>8. TracedByDescriptor' /\ GroupsWithinLimit'
  BY <1>1, <1>3 DEF Inv, TracedByDescriptor, GroupsWithinLimit
<1>9. QED
  BY <1>1, <1>3, <1>4, <1>6, <1>7, <1>8 DEF Inv

LEMMA ConnectRetriesKeepsInv ==
  ASSUME Inv, NEW a \in Attempts, ConnectRetries(a)
  PROVE  Inv'
<1>1. /\ asked' = asked \cup {a}
      /\ UNCHANGED <<group, fd, ongoingConnections, asserted, finalised, answers, conns, pool,
                     pc, current, todo>>
  BY DEF ConnectRetries, mapVars, loopVars
<1>2. Open' = Open /\ ongoing' = ongoing
  BY <1>1 DEF Open, IsOpen, ongoing
<1>3. TypeOK'
  BY <1>1 DEF Inv, TypeOK
<1>4. /\ NotAsked' /\ OngoingAreAsked' /\ MadeByFinalise' /\ AnsweredOnce'
      /\ TracedByDescriptor' /\ GroupsWithinLimit'
  BY <1>1, <1>2 DEF Inv, NotAsked, OngoingAreAsked, MadeByFinalise, AnsweredOnce,
                    TracedByDescriptor, GroupsWithinLimit
<1>5. QED
  BY <1>1, <1>2, <1>3, <1>4 DEF Inv

LEMMA ConnectStartsKeepsInv ==
  ASSUME Inv, NEW a \in Attempts, ConnectStarts(a)
  PROVE  Inv'
<1> DEFINE f == NewFd
<1>1. /\ a \notin asked /\ WithinLimit /\ asked' = asked \cup {a}
      /\ fd' = [fd EXCEPT ![a] = f]
      /\ ongoingConnections' = [ongoingConnections EXCEPT ![f] = IF @ = Nobody THEN a ELSE @]
      /\ asserted' = (ongoingConnections[f] # Nobody)
      /\ UNCHANGED <<group, finalised, answers, conns, pool, pc, current, todo>>
  BY Zenon DEF ConnectStarts, loopVars
<1>2. f \in Fds /\ \A b \in Attempts : fd[b] # f
  BY <1>1, NewFdIsFree
<1> HIDE DEF f
<1>3. /\ fd \in [Attempts -> Fds \cup {NoFd}]
      /\ ongoingConnections \in [Fds -> Attempts \cup {Nobody}]
      /\ finalised \subseteq asked /\ a \notin finalised /\ fd[a] = NoFd /\ answers[a] = 0
  BY <1>1 DEF Inv, TypeOK, NotAsked
(* Nobody is left behind under a descriptor that is free.                  *)
<1>4. ongoingConnections[f] = Nobody
  BY <1>2, <1>3 DEF Inv, TracedByDescriptor
<1>5. ongoingConnections' = [ongoingConnections EXCEPT ![f] = a]
  BY <1>1, <1>3, <1>4
<1>6. asserted' = FALSE
  BY <1>1, <1>4, Zenon
<1>7. ongoing' = ongoing \cup {a} /\ a \notin ongoing
  <2>1. a \notin ongoing
    BY <1>1 DEF Inv, OngoingAreAsked
  <2>2. \A b \in Attempts : b \in ongoing' <=> b \in ongoing \/ b = a
    BY <1>2, <1>3, <1>4, <1>5, NobodyAssumption DEF ongoing
  <2>3. QED
    BY <2>1, <2>2 DEF ongoing
<1>8. Open' = Open
  BY <1>1 DEF Open, IsOpen
<1>9. TypeOK'
  <2>1. fd' \in [Attempts -> Fds \cup {NoFd}] /\ ongoingConnections' \in [Fds -> Attempts \cup {Nobody}]
    BY <1>1, <1>2, <1>3, <1>5
  <2>2. asserted' \in BOOLEAN
    BY <1>6, Zenon
  <2>3. asked' \subseteq Attempts /\ finalised' \subseteq asked'
    BY <1>1 DEF Inv, TypeOK
  <2>4. QED
    BY <1>1, <2>1, <2>2, <2>3 DEF Inv, TypeOK
<1>10. NotAsked' /\ OngoingAreAsked' /\ MadeByFinalise'
  BY <1>1, <1>3, <1>7 DEF Inv, NotAsked, OngoingAreAsked, MadeByFinalise
<1>11. AnsweredOnce'
  BY <1>1, <1>3, <1>7 DEF Inv, AnsweredOnce
<1>12. TracedByDescriptor'
  <2>1. \A e \in Fds : LET b == ongoingConnections'[e]
                       IN  b # Nobody => fd'[b] = e /\ b \notin finalised'
    <3> SUFFICES ASSUME NEW e \in Fds, ongoingConnections'[e] # Nobody
                 PROVE  fd'[ongoingConnections'[e]] = e /\ ongoingConnections'[e] \notin finalised'
      OBVIOUS
    <3>1. CASE e = f
      BY <1>1, <1>2, <1>3, <1>5, <3>1
    <3>2. CASE e # f
      <4>1. ongoingConnections'[e] = ongoingConnections[e] /\ ongoingConnections[e] \in Attempts
        BY <1>3, <1>5, <3>2
      <4>2. fd[ongoingConnections[e]] = e /\ ongoingConnections[e] \notin finalised
        BY <4>1 DEF Inv, TracedByDescriptor
      <4>3. ongoingConnections[e] # a
        BY <1>3, <4>2, AttemptsAreFinite
      <4>4. QED
        BY <1>1, <1>3, <4>1, <4>2, <4>3
    <3>3. QED
      BY <3>1, <3>2
  <2>2. \A b, c \in Attempts : fd'[b] = fd'[c] /\ fd'[b] # NoFd => b = c
    BY <1>1, <1>2, <1>3 DEF Inv, TracedByDescriptor
  <2>3. QED
    BY <1>6, <2>1, <2>2 DEF TracedByDescriptor
<1>13. GroupsWithinLimit'
  <2>1. Cardinality(ongoing') = Cardinality(ongoing) + 1
    BY <1>7, OpenIsFinite, FS_AddElement
  <2>2. Cardinality(ongoing) \in Nat /\ Cardinality(pool.groups) \in Nat
    <3>1. pool.groups \subseteq Groups
      BY PoolFields DEF Inv, TypeOK
    <3>2. QED
      BY <3>1, OpenIsFinite, AttemptsAssumption, FS_Subset, FS_CardinalityType
  <2>3. pool' = pool
    BY <1>1
  <2>4. QED
    BY <1>1, <2>1, <2>2, <2>3, LimitAssumption DEF WithinLimit, GroupsWithinLimit, GetConnNumber
<1>14. QED
  BY <1>1, <1>8, <1>9, <1>10, <1>11, <1>12, <1>13 DEF Inv

LEMMA NewIsAdded ==
  ASSUME Inv, NEW a \in Attempts, a \notin Open
  PROVE  /\ AddTcpConnection(pool, a, group[a]) \in PoolType(Attempts, Groups)
         /\ Houses(AddTcpConnection(pool, a, group[a]), Open \cup {a}, group, Groups)
         /\ AddTcpConnection(pool, a, group[a]).groups = pool.groups \cup {group[a]}
<1>1. pool \in PoolType(Attempts, Groups) /\ group[a] \in Groups /\ a \in Attempts \ Open
  BY DEF Inv, TypeOK
<1>2. Houses(pool, Open, group, Groups)
  BY DEF Inv
<1>3. QED
  BY <1>1, <1>2, OpenIsFinite, AddHouses

LEMMA OldIsRemoved ==
  ASSUME Inv, NEW c \in Open
  PROVE  /\ RemoveTcpConnection(pool, c, group[c]) \in PoolType(Attempts, Groups)
         /\ Houses(RemoveTcpConnection(pool, c, group[c]), Open \ {c}, group, Groups)
         /\ RemoveTcpConnection(pool, c, group[c]).groups = pool.groups
<1>1. pool \in PoolType(Attempts, Groups) /\ group[c] \in Groups
  BY DEF Inv, TypeOK, Open
<1>2. Houses(pool, Open, group, Groups)
  BY DEF Inv
<1>3. QED
  BY <1>1, <1>2, OpenIsFinite, RemoveHouses

(* ConnectState::finalise, from one handler or the other                   *)
LEMMA FinaliseKeepsInv ==
  ASSUME Inv, NEW a \in Attempts, NEW err, Responds(a), Finalise(a, err),
         UNCHANGED <<asked, group, current>>, pc' = "user",
         todo' \in Seq({"error", "write"} \X BOOLEAN)
  PROVE  Inv'
<1>1. /\ a \in ongoing /\ a \notin finalised
      /\ conns' = IF err THEN conns
                  ELSE [conns EXCEPT ![a] = [status |-> "Established", active |-> TRUE]]
      /\ pool' = IF err THEN pool ELSE AddTcpConnection(pool, a, group[a])
      /\ answers' = [answers EXCEPT ![a] = @ + 1]
      /\ fd' = fd /\ asserted' = asserted
      /\ finalised' = finalised \cup {a}
      /\ ongoingConnections' = [ongoingConnections EXCEPT ![fd[a]] = Nobody]
      /\ asked' = asked /\ group' = group
  BY DEF Finalise, Creates, Erased, Responds
<1>2. /\ fd \in [Attempts -> Fds \cup {NoFd}]
      /\ ongoingConnections \in [Fds -> Attempts \cup {Nobody}]
      /\ finalised \subseteq asked /\ asked \subseteq Attempts /\ a \in asked
      /\ answers \in [Attempts -> Nat] /\ answers[a] = 0
      /\ conns \in [Attempts -> ConnType] /\ conns[a].status = "none"
      /\ group \in [Attempts -> Groups] /\ pool \in PoolType(Attempts, Groups)
  BY <1>1 DEF Inv, TypeOK, OngoingAreAsked, AnsweredOnce, MadeByFinalise
<1>3. fd[a] \in Fds /\ ongoingConnections[fd[a]] = a
  BY <1>1, NobodyAssumption DEF ongoing, Inv, TracedByDescriptor
<1>4. ongoing' = ongoing \ {a}
  <2>1. \A b \in Attempts : b \in ongoing' <=> b \in ongoing /\ b # a
    <3> SUFFICES ASSUME NEW b \in Attempts
                 PROVE  b \in ongoing' <=> b \in ongoing /\ b # a
      OBVIOUS
    <3>1. \A e \in Fds : ongoingConnections'[e] = IF e = fd[a] THEN Nobody ELSE ongoingConnections[e]
      BY <1>1, <1>2
    <3>2. \A e \in Fds : ongoingConnections[e] = a => e = fd[a]
      BY NobodyAssumption DEF Inv, TracedByDescriptor
    <3>3. QED
      BY <1>3, <3>1, <3>2, NobodyAssumption DEF ongoing
  <2>2. QED
    BY <2>1 DEF ongoing
<1>5. a \notin Open
  BY <1>2 DEF Open, IsOpen
(* The pool and what is open, with an error and without                    *)
<1>6. /\ conns' \in [Attempts -> ConnType] /\ pool' \in PoolType(Attempts, Groups)
      /\ \A b \in Attempts : b # a => conns'[b] = conns[b]
      /\ Houses(pool', Open', group', Groups)
      /\ pool'.groups \subseteq pool.groups \cup {group[a]}
  <2>1. CASE err
    <3>1. conns' = conns /\ pool' = pool
      BY <1>1, <2>1
    <3>2. Open' = Open
      BY <3>1 DEF Open, IsOpen
    <3>3. QED
      BY <1>1, <1>2, <3>1, <3>2 DEF Inv
  <2>2. CASE ~err
    <3>1. /\ conns' = [conns EXCEPT ![a] = [status |-> "Established", active |-> TRUE]]
          /\ pool' = AddTcpConnection(pool, a, group[a])
      BY <1>1, <2>2
    <3>2. conns' \in [Attempts -> ConnType]
      BY <1>2, <3>1 DEF ConnType
    <3>3. Open' = Open \cup {a}
      BY <1>2, <3>1 DEF Open, IsOpen
    <3>4. /\ AddTcpConnection(pool, a, group[a]) \in PoolType(Attempts, Groups)
          /\ Houses(AddTcpConnection(pool, a, group[a]), Open \cup {a}, group, Groups)
          /\ AddTcpConnection(pool, a, group[a]).groups = pool.groups \cup {group[a]}
      BY <1>5, NewIsAdded
    <3>5. /\ pool' \in PoolType(Attempts, Groups)
          /\ Houses(pool', Open', group, Groups)
          /\ pool'.groups = pool.groups \cup {group[a]}
      BY <3>1, <3>3, <3>4
    <3>6. \A b \in Attempts : b # a => conns'[b] = conns[b]
      BY <1>2, <3>1
    <3>7. QED
      BY <1>1, <3>2, <3>5, <3>6
  <2>3. QED
    BY <2>1, <2>2
<1>7. TypeOK'
  BY <1>1, <1>2, <1>3, <1>6 DEF Inv, TypeOK
<1>8. NotAsked' /\ OngoingAreAsked' /\ MadeByFinalise'
  <2>1. NotAsked'
    BY <1>1, <1>2 DEF Inv, NotAsked
  <2>2. OngoingAreAsked'
    BY <1>1, <1>4 DEF Inv, OngoingAreAsked
  <2>3. MadeByFinalise'
    BY <1>1, <1>2, <1>6 DEF Inv, MadeByFinalise
  <2>4. QED
    BY <2>1, <2>2, <2>3
<1>9. AnsweredOnce'
  BY <1>1, <1>2, <1>4 DEF Inv, AnsweredOnce, ongoing
<1>10. TracedByDescriptor'
  <2>1. \A e \in Fds : ongoingConnections'[e] # Nobody =>
          ongoingConnections'[e] = ongoingConnections[e] /\ ongoingConnections[e] # a
    BY <1>1, <1>2, <1>3 DEF Inv, TracedByDescriptor
  <2>2. QED
    BY <1>1, <1>2, <2>1 DEF Inv, TracedByDescriptor
<1>11. GroupsWithinLimit'
  <2>1. pool.groups \subseteq Groups /\ IsFiniteSet(pool.groups)
    BY <1>2, PoolFields, AttemptsAssumption, FS_Subset
  <2>2. /\ Cardinality(pool.groups) \in Nat /\ Cardinality(pool'.groups) \in Nat
        /\ Cardinality(pool'.groups) <= Cardinality(pool.groups) + 1
    BY <1>6, <2>1, OneMoreAtMost
  <2>3. Cardinality(ongoing') = Cardinality(ongoing) - 1 /\ Cardinality(ongoing) \in Nat
    BY <1>1, <1>4, OpenIsFinite, FS_RemoveElement, FS_CardinalityType
  <2>4. QED
    BY <2>2, <2>3, LimitAssumption DEF Inv, GroupsWithinLimit, GetConnNumber
<1>12. QED
  BY <1>6, <1>7, <1>8, <1>9, <1>10, <1>11 DEF Inv

(* A failed ConnectState takes its descriptor with it.                     *)
LEMMA UserReturnsKeepsInv ==
  ASSUME Inv, UserReturns
  PROVE  Inv'
<1>1. /\ pc' \in {"idle", "events"}
      /\ fd' = [a \in Attempts |-> IF a = current /\ IsDestroyed(a) THEN NoFd ELSE fd[a]]
      /\ UNCHANGED <<asked, group, ongoingConnections, asserted, finalised, answers, conns, pool,
                     current, todo>>
  BY DEF UserReturns
<1>2. /\ fd \in [Attempts -> Fds \cup {NoFd}]
      /\ ongoingConnections \in [Fds -> Attempts \cup {Nobody}]
  BY DEF Inv, TypeOK
<1>3. Open' = Open /\ ongoing' = ongoing
  BY <1>1 DEF Open, IsOpen, ongoing
<1>4. TypeOK'
  BY <1>1, <1>2 DEF Inv, TypeOK
<1>5. \A a \in Attempts : fd'[a] \in {fd[a], NoFd} /\ (a \in ongoing => fd'[a] = fd[a])
  BY <1>1, <1>2 DEF IsDestroyed
<1>6. TracedByDescriptor'
  <2>1. \A f \in Fds : ongoingConnections[f] # Nobody => ongoingConnections[f] \in ongoing
    BY <1>2 DEF ongoing
  <2>2. \A f \in Fds : ongoingConnections[f] # Nobody => fd'[ongoingConnections[f]] = f
    BY <1>5, <2>1 DEF Inv, TracedByDescriptor, ongoing
  <2>3. QED
    BY <1>1, <1>5, <2>2 DEF Inv, TracedByDescriptor
<1>7. NotAsked' /\ OngoingAreAsked' /\ MadeByFinalise'
  BY <1>1, <1>3, <1>5 DEF Inv, NotAsked, OngoingAreAsked, MadeByFinalise
<1>8. AnsweredOnce' /\ GroupsWithinLimit'
  BY <1>1, <1>3 DEF Inv, AnsweredOnce, GroupsWithinLimit
<1>9. QED
  BY <1>1, <1>3, <1>4, <1>6, <1>7, <1>8 DEF Inv

LEMMA CloseConnectionKeepsInv ==
  ASSUME Inv, NEW c \in Attempts, CloseConnection(c)
  PROVE  Inv'
<1>1. /\ IsOpen(c) /\ fd' = [fd EXCEPT ![c] = NoFd]
      /\ pool' = RemoveTcpConnection(pool, c, group[c])
      /\ conns' = [conns EXCEPT ![c].status = "Closed", ![c].active = FALSE]
      /\ UNCHANGED <<asked, group, ongoingConnections, asserted, finalised, answers,
                     pc, current, todo>>
  BY DEF CloseConnection, Close, loopVars
<1>2. /\ fd \in [Attempts -> Fds \cup {NoFd}] /\ conns \in [Attempts -> ConnType]
      /\ ongoingConnections \in [Fds -> Attempts \cup {Nobody}]
      /\ group \in [Attempts -> Groups] /\ pool \in PoolType(Attempts, Groups)
  BY DEF Inv, TypeOK
(* What is open has been finalised, and is not under way any more.         *)
<1>3. c \in finalised /\ \A f \in Fds : ongoingConnections[f] # c
  BY <1>1, NobodyAssumption DEF Inv, MadeByFinalise, IsOpen, TracedByDescriptor
<1>4. ongoing' = ongoing
  BY <1>1 DEF ongoing
<1>5. /\ \A a \in Attempts : a # c => conns'[a] = conns[a] /\ fd'[a] = fd[a]
      /\ conns'[c].status = "Closed" /\ fd'[c] = NoFd
      /\ conns' \in [Attempts -> ConnType] /\ fd' \in [Attempts -> Fds \cup {NoFd}]
  BY <1>1, <1>2 DEF ConnType
<1>6. c \in Open /\ Open' = Open \ {c}
  BY <1>1, <1>5 DEF Open, IsOpen
<1>7. /\ pool' \in PoolType(Attempts, Groups) /\ Houses(pool', Open \ {c}, group, Groups)
      /\ pool'.groups = pool.groups
  <2>1. /\ RemoveTcpConnection(pool, c, group[c]) \in PoolType(Attempts, Groups)
        /\ Houses(RemoveTcpConnection(pool, c, group[c]), Open \ {c}, group, Groups)
        /\ RemoveTcpConnection(pool, c, group[c]).groups = pool.groups
    BY <1>6, OldIsRemoved
  <2>2. QED
    BY <1>1, <2>1
<1>8. TypeOK'
  BY <1>1, <1>5, <1>7 DEF Inv, TypeOK
<1>9. NotAsked' /\ OngoingAreAsked' /\ MadeByFinalise'
  BY <1>1, <1>3, <1>4, <1>5 DEF Inv, NotAsked, OngoingAreAsked, MadeByFinalise
<1>10. TracedByDescriptor'
  BY <1>1, <1>2, <1>3, <1>5 DEF Inv, TracedByDescriptor
<1>11. AnsweredOnce' /\ GroupsWithinLimit'
  BY <1>1, <1>4, <1>7 DEF Inv, AnsweredOnce, GroupsWithinLimit, GetConnNumber
<1>12. QED
  BY <1>1, <1>6, <1>7, <1>8, <1>9, <1>10, <1>11 DEF Inv

(* Retain and SelectTcpConnection change who uses a connection, and at     *)
(* most selectFailed of the pool.                                          *)
LEMMA UseKeepsInv ==
  ASSUME Inv, UNCHANGED <<asked, group, mapVars, finalised, answers, loopVars>>,
         conns' \in [Attempts -> ConnType],
         \A a \in Attempts : conns'[a].status = conns[a].status,
         NEW b \in BOOLEAN, pool' = [pool EXCEPT !.selectFailed = b]
  PROVE  Inv'
<1>1. Open' = Open /\ ongoing' = ongoing
  BY DEF Open, IsOpen, ongoing, mapVars
<1>2. /\ pool' \in PoolType(Attempts, Groups)
      /\ pool'.groups = pool.groups /\ pool'.members = pool.members
      /\ pool'.connectionsNumber = pool.connectionsNumber /\ pool'.asserted = pool.asserted
  BY DEF Inv, TypeOK, PoolType
<1>3. Houses(pool', Open, group, Groups)
  BY <1>2 DEF Inv, Houses
<1>4. TypeOK'
  BY <1>2 DEF Inv, TypeOK, mapVars, loopVars
<1>5. NotAsked' /\ OngoingAreAsked' /\ MadeByFinalise' /\ AnsweredOnce'
  BY <1>1 DEF Inv, NotAsked, OngoingAreAsked, MadeByFinalise, AnsweredOnce, mapVars
<1>6. TracedByDescriptor'
  BY DEF Inv, TracedByDescriptor, mapVars
<1>7. GroupsWithinLimit'
  BY <1>1, <1>2 DEF Inv, GroupsWithinLimit, GetConnNumber
<1>8. QED
  BY <1>1, <1>3, <1>4, <1>5, <1>6, <1>7 DEF Inv

LEMMA RetainKeepsInv ==
  ASSUME Inv, NEW c \in Attempts, Retain(c)
  PROVE  Inv'
<1>1. /\ conns' = [conns EXCEPT ![c].active = FALSE]
      /\ UNCHANGED <<asked, group, mapVars, finalised, answers, pool, loopVars>>
  BY DEF Retain
<1>2. conns \in [Attempts -> ConnType] /\ pool \in PoolType(Attempts, Groups)
  BY DEF Inv, TypeOK
<1>3. /\ conns' \in [Attempts -> ConnType]
      /\ \A a \in Attempts : conns'[a].status = conns[a].status
  BY <1>1, <1>2 DEF ConnType
<1>4. pool.selectFailed \in BOOLEAN /\ pool' = [pool EXCEPT !.selectFailed = pool.selectFailed]
  BY <1>1, <1>2 DEF PoolType
<1>5. QED
  BY <1>1, <1>3, <1>4, UseKeepsInv

LEMMA SelectKeepsInv ==
  ASSUME Inv, NEW g \in Groups, SelectTcpConnection(g)
  PROVE  Inv'
<1>1. conns \in [Attempts -> ConnType] /\ pool \in PoolType(Attempts, Groups)
  BY DEF Inv, TypeOK
<1>2. pool.members[g] \subseteq Attempts
  BY <1>1, PoolFields
<1>3. UNCHANGED <<asked, group, mapVars, finalised, answers, loopVars>>
  BY DEF SelectTcpConnection
<1>4. \E inUse : pool' = Selected(pool, g, inUse)
  BY DEF SelectTcpConnection
<1>5. \E b \in BOOLEAN : pool' = [pool EXCEPT !.selectFailed = b]
  <2>1. PICK inUse : pool' = Selected(pool, g, inUse)
    BY <1>4
  <2> DEFINE b == ~SelectWorks(pool, g, inUse)
  <2>2. b \in BOOLEAN
    BY Zenon
  <2>3. pool' = [pool EXCEPT !.selectFailed = b]
    BY <2>1 DEF Selected
  <2> HIDE DEF b
  <2>4. QED
    BY <2>2, <2>3
<1>6. conns' = conns \/ \E c \in Attempts : conns' = [conns EXCEPT ![c].active = TRUE]
  BY <1>2 DEF SelectTcpConnection
<1>7. /\ conns' \in [Attempts -> ConnType]
      /\ \A a \in Attempts : conns'[a].status = conns[a].status
  <2>1. CASE conns' = conns
    BY <1>1, <2>1
  <2>2. ASSUME NEW c \in Attempts, conns' = [conns EXCEPT ![c].active = TRUE]
        PROVE  /\ conns' \in [Attempts -> ConnType]
               /\ \A a \in Attempts : conns'[a].status = conns[a].status
    BY <1>1, <2>2 DEF ConnType
  <2>3. QED
    BY <1>6, <2>1, <2>2
<1>8. QED
  BY <1>3, <1>5, <1>7, UseKeepsInv

-----------------------------------------------------------------------------
LEMMA InvStep == Inv /\ [Next]_vars => Inv'
<1> SUFFICES ASSUME Inv, [Next]_vars
             PROVE  Inv'
  OBVIOUS
<1>1. /\ pc \in {"idle", "events", "user"} /\ current \in Attempts \cup {Nobody}
      /\ todo \in Seq({"error", "write"} \X BOOLEAN)
  BY DEF Inv, TypeOK
<1>2. CASE RunTask \/ SkipEvent \/ EventsDone \/ UNCHANGED vars
  <2>1. todo # <<>> => Tail(todo) \in Seq({"error", "write"} \X BOOLEAN)
    BY <1>1
  <2>2. QED
    BY <1>1, <1>2, <2>1, LoopKeepsInv
       DEF RunTask, SkipEvent, EventsDone, vars, loopVars
<1>3. ASSUME NEW a \in Attempts, Dispatch(a)
      PROVE  Inv'
  <2>1. todo' \in Seq({"error", "write"} \X BOOLEAN)
    <3>1. \A e \in {"error", "write"} \X BOOLEAN, d \in {"error", "write"} \X BOOLEAN :
            <<e>> \in Seq({"error", "write"} \X BOOLEAN) /\ <<e, d>> \in Seq({"error", "write"} \X BOOLEAN)
      OBVIOUS
    <3>2. \A err \in BOOLEAN :
            <<"write", err>> \in {"error", "write"} \X BOOLEAN /\ <<"error", err>> \in {"error", "write"} \X BOOLEAN
      OBVIOUS
    <3>3. QED
      BY <1>3, <3>1, <3>2 DEF Dispatch, Reports
  <2>2. QED
    BY <1>3, <2>1, LoopKeepsInv DEF Dispatch
<1>4. CASE HandleError \/ HandleWrite
  <2>1. todo # <<>> /\ todo' = Tail(todo) /\ pc' = "user" /\ UNCHANGED <<asked, group, current>>
    BY <1>4 DEF HandleError, HandleWrite, Reported
  <2>2. todo' \in Seq({"error", "write"} \X BOOLEAN)
    BY <1>1, <2>1
  <2>3. Responds(current) /\ current \in Attempts
    BY <1>4 DEF HandleError, HandleWrite, Responds, ongoing
  <2>4. \E err : Finalise(current, err)
    BY <1>4 DEF HandleError, HandleWrite
  <2>5. QED
    BY <2>1, <2>2, <2>3, <2>4, FinaliseKeepsInv
<1>5. ASSUME NEW a \in Attempts,
             \/ ConnectFails(a) \/ ConnectStarts(a) \/ ConnectRetries(a)
             \/ CloseConnection(a) \/ Retain(a)
      PROVE  Inv'
  BY <1>5, ConnectFailsKeepsInv, ConnectStartsKeepsInv, ConnectRetriesKeepsInv,
     CloseConnectionKeepsInv, RetainKeepsInv
<1>6. CASE UserReturns
  BY <1>6, UserReturnsKeepsInv
<1>7. ASSUME NEW g \in Groups, SelectTcpConnection(g)
      PROVE  Inv'
  BY <1>7, SelectKeepsInv
<1>8. QED
  BY <1>2, <1>3, <1>4, <1>5, <1>6, <1>7 DEF Next, User, ProcessEvents

LEMMA Invariant == SafeSpec => []Inv
BY InvInit, InvStep, PTL DEF SafeSpec

(* Every variable of the Connector keeps its type.                         *)
THEOREM TypeCorrect == SafeSpec => []TypeOK
BY Invariant, PTL DEF Inv

(* No user is called twice, and none while its attempt is under way,       *)
(* however many attempts there are and whatever callbacks do.              *)
THEOREM UsersAreAnsweredOnce == SafeSpec => []AnsweredOnce
BY Invariant, PTL DEF Inv

(* However descriptors are used again, ongoingConnections finds each       *)
(* ConnectState by its own, and the assertions of Check and finalise hold. *)
THEOREM AttemptsAreTraced == SafeSpec => []TracedByDescriptor
BY Invariant, PTL DEF Inv

(* For any limit, the groups and the attempts under way stay within it.    *)
THEOREM LimitHoldsForGroups == SafeSpec => []GroupsWithinLimit
BY Invariant, PTL DEF Inv

(* The pool holds the open connections, each in its group and counted.     *)
THEOREM PoolAlwaysHoldsOpen == SafeSpec => []PoolHoldsOpenConnections
<1>1. Inv => PoolHoldsOpenConnections
  <2> SUFFICES ASSUME Inv
               PROVE  PoolHoldsOpenConnections
    OBVIOUS
  <2>1. pool \in PoolType(Attempts, Groups) /\ \A c \in Open : group[c] \in Groups
    BY DEF Inv, TypeOK, Open
  <2>2. /\ InPool(pool) = Open
        /\ \A g \in Groups : \A c \in pool.members[g] : group[c] = g
    BY <2>1, HousedAreInPool DEF Inv
  <2>3. QED
    BY <2>2 DEF Inv, Houses, PoolHoldsOpenConnections, Open
<1>2. QED
  BY <1>1, Invariant, PTL

(* The assertions of AddTcpConnection and RemoveTcpConnection never fail   *)
(* for the connections of a Connector.                                     *)
THEOREM PoolAssertionsAlwaysHold == SafeSpec => []PoolAssertionsHold
<1>1. Inv => PoolAssertionsHold
  BY DEF Inv, Houses, PoolAssertionsHold
<1>2. QED
  BY <1>1, Invariant, PTL
==============================================================================
