--------------------------- MODULE TaskQueueProofs ---------------------------
(***************************************************************************)
(* What TaskQueue guarantees for any set of senders and any number of      *)
(* tasks.                                                                  *)
(***************************************************************************)
EXTENDS TaskQueue, DataLemmas

(* The rounds left over by one handleRead are never carried into the next: *)
(* eventfd_read assigns num, it does not add to it.                        *)
IdleHasNoRounds == handler \in {"polling", "readable"} => num = 0

(* The inductive invariant of the wake-up counting.                        *)
CountInv ==
  /\ TypeOK
  /\ IsFiniteSet(notifying)
  /\ IdleHasNoRounds
  /\ WakeupsMatchTasks
  /\ NeverPopsEmpty

-----------------------------------------------------------------------------
(* Every variable of the task queue keeps its type.                        *)
THEOREM TypeCorrect == SafeSpec => []TypeOK
<1>1. Init => TypeOK
  BY MaxSendsAssumption DEF Init, TypeOK, Handler
<1>2. TypeOK /\ [Next]_vars => TypeOK'
  <2> SUFFICES ASSUME TypeOK, [Next]_vars
               PROVE  TypeOK'
    OBVIOUS
  <2> USE MaxSendsAssumption DEF TypeOK, Handler
  <2>1. ASSUME NEW t \in Thread, NEW callable \in BOOLEAN, Push(t, callable)
        PROVE  TypeOK'
    <3>1. [from |-> t, index |-> sent[t] + 1, callable |-> callable] \in Task
      BY <2>1 DEF Push, Task
    <3>2. queue' \in Seq(Task)
      BY <2>1, <3>1, AppendProperties DEF Push
    <3>3. QED
      BY <2>1, <3>2 DEF Push
  <2>2. ASSUME NEW t \in Thread, Notify(t)
        PROVE  TypeOK'
    BY <2>2 DEF Notify
  <2>3. CASE Poll
    BY <2>3 DEF Poll
  <2>4. CASE ReadEventfd
    BY <2>4 DEF ReadEventfd
  <2>5. CASE Pop
    <3>1. CASE queue = <<>>
      BY <2>5, <3>1 DEF Pop
    <3>2. CASE queue # <<>>
      <4>1. queue' \in Seq(Task) /\ Head(queue) \in Task
        BY <2>5, <3>2, HeadTailProperties DEF Pop
      <4>2. ran' = Append(ran, Head(queue))
        BY <2>5, <3>2 DEF Pop
      <4>3. ran' \in Seq(Task)
        BY <4>1, <4>2, AppendProperties
      <4>4. QED
        BY <2>5, <3>2, <4>1, <4>3 DEF Pop
    <3>3. QED
      BY <3>1, <3>2
  <2>6. CASE TaskReturns
    BY <2>6 DEF TaskReturns
  <2>7. CASE DrainEnds
    BY <2>7 DEF DrainEnds
  <2>8. CASE UNCHANGED vars
    BY <2>8 DEF vars
  <2>9. QED
    BY <2>1, <2>2, <2>3, <2>4, <2>5, <2>6, <2>7, <2>8 DEF Next, Owner
<1>3. QED
  BY <1>1, <1>2, PTL DEF SafeSpec

-----------------------------------------------------------------------------
(* A step keeps the accounting of wake-ups against queued tasks.           *)
LEMMA CountStep ==
  ASSUME CountInv, TypeOK', [Next]_vars
  PROVE  CountInv'
<1> USE DEF CountInv, IdleHasNoRounds, WakeupsMatchTasks, NeverPopsEmpty
<1>1. /\ Cardinality(notifying) \in Nat
      /\ eventCount \in Nat
      /\ num \in Nat
      /\ queue \in Seq(Task)
      /\ Len(queue) \in Nat
  BY FS_CardinalityType, LenProperties DEF TypeOK
<1>2. ASSUME NEW t \in Thread, NEW callable \in BOOLEAN, Push(t, callable)
      PROVE  CountInv'
  <2>1. IsFiniteSet(notifying') /\ Cardinality(notifying') = Cardinality(notifying) + 1
    BY <1>2, FS_AddElement DEF Push
  <2>2. Len(queue') = Len(queue) + 1
    <3>1. [from |-> t, index |-> sent[t] + 1, callable |-> callable] \in Task
      BY <1>2, MaxSendsAssumption DEF Push, Task, TypeOK
    <3>2. QED
      BY <1>1, <1>2, <3>1, AppendProperties DEF Push
  <2>3. QED
    BY <1>1, <1>2, <2>1, <2>2 DEF Push
<1>3. ASSUME NEW t \in Thread, Notify(t)
      PROVE  CountInv'
  <2>1. IsFiniteSet(notifying') /\ Cardinality(notifying') = Cardinality(notifying) - 1
    BY <1>3, FS_RemoveElement DEF Notify
  <2>2. QED
    BY <1>1, <1>3, <2>1 DEF Notify
<1>4. CASE Poll
  BY <1>4 DEF Poll
<1>5. CASE ReadEventfd
  BY <1>1, <1>5 DEF ReadEventfd
<1>6. CASE Pop
  <2>1. queue # <<>>
    BY <1>1, <1>6 DEF Pop
  <2>2. Len(queue') = Len(queue) - 1
    BY <1>6, <2>1, HeadTailProperties DEF Pop
  <2>3. /\ notifying' = notifying
        /\ eventCount' = eventCount
        /\ num' = num - 1
        /\ emptyPops' = emptyPops
        /\ handler' \notin {"polling", "readable"}
    BY <1>6, <2>1 DEF Pop
  <2>4. QED
    BY <1>1, <2>2, <2>3
<1>7. CASE TaskReturns
  BY <1>7 DEF TaskReturns
<1>8. CASE DrainEnds
  BY <1>8 DEF DrainEnds
<1>9. CASE UNCHANGED vars
  BY <1>9 DEF vars
<1>10. QED
  BY <1>2, <1>3, <1>4, <1>5, <1>6, <1>7, <1>8, <1>9 DEF Next, Owner

LEMMA CountInvariant == SafeSpec => []CountInv
<1>1. Init => CountInv
  BY MaxSendsAssumption, FS_EmptySet
  DEF Init, CountInv, TypeOK, Handler, IdleHasNoRounds, WakeupsMatchTasks, NeverPopsEmpty
<1>2. CountInv /\ TypeOK' /\ [Next]_vars => CountInv'
  BY CountStep
<1>3. QED
  BY <1>1, <1>2, TypeCorrect, PTL DEF SafeSpec

(* There is exactly one wake-up, wherever it is, for every queued task.    *)
THEOREM WakeupsAlwaysMatch == SafeSpec => []WakeupsMatchTasks
BY CountInvariant, PTL DEF CountInv

(* handleRead never finds the queue empty: the branch that logs it is dead.*)
THEOREM PopsAlwaysFindTasks == SafeSpec => []NeverPopsEmpty
BY CountInvariant, PTL DEF CountInv

(* The owner never sleeps on a queued task that nobody will wake it for.   *)
THEOREM WakeupsAreNotLost == SafeSpec => []NoLostWakeup
<1>1. CountInv => NoLostWakeup
  BY FS_EmptySet DEF CountInv, TypeOK, IdleHasNoRounds, WakeupsMatchTasks, NoLostWakeup
<1>2. QED
  BY <1>1, CountInvariant, PTL

-----------------------------------------------------------------------------
(* Order: numbers already given out bound the tasks in the history.        *)
OrderInv ==
  /\ TypeOK
  /\ \A i \in 1 .. Len(history) : history[i].index <= sent[history[i].from]
  /\ SenderOrder

LEMMA PushExtendsHistory ==
  ASSUME TypeOK, NEW t \in Thread, NEW callable \in BOOLEAN, Push(t, callable)
  PROVE  /\ history \in Seq(Task)
         /\ Len(history') = Len(history) + 1
         /\ \A i \in 1 .. Len(history) : history'[i] = history[i]
         /\ history'[Len(history) + 1] = [from |-> t, index |-> sent[t] + 1, callable |-> callable]
<1> DEFINE new == [from |-> t, index |-> sent[t] + 1, callable |-> callable]
<1>1. /\ queue \in Seq(Task)
      /\ ran \in Seq(Task)
      /\ new \in Task
      /\ queue' = Append(queue, new)
      /\ ran' = ran
  BY MaxSendsAssumption DEF TypeOK, Push, Task
<1> HIDE DEF new
<1>2. history \in Seq(Task)
  BY <1>1, ConcatProperties DEF history
<1>3. history' = Append(history, new)
  BY <1>1, QueueGrows DEF history
<1>4. QED
  BY <1>1, <1>2, <1>3, AppendProperties DEF new

LEMMA PopKeepsHistory ==
  ASSUME TypeOK, Pop
  PROVE  history' = history
<1>1. CASE queue = <<>>
  BY <1>1 DEF Pop, history
<1>2. CASE queue # <<>>
  <2>1. /\ queue \in Seq(Task) /\ ran \in Seq(Task)
        /\ ran' = Append(ran, Head(queue)) /\ queue' = Tail(queue)
    BY <1>2 DEF TypeOK, Pop
  <2>2. QED
    BY <1>2, <2>1, HeadIsDone DEF history
<1>3. QED
  BY <1>1, <1>2

LEMMA OrderStep ==
  ASSUME OrderInv, TypeOK', [Next]_vars
  PROVE  OrderInv'
<1>1. ASSUME NEW t \in Thread, NEW callable \in BOOLEAN, Push(t, callable)
      PROVE  OrderInv'
  <2> DEFINE n == Len(history)
             new == [from |-> t, index |-> sent[t] + 1, callable |-> callable]
  <2>1. /\ history \in Seq(Task)
        /\ Len(history') = n + 1
        /\ \A i \in 1 .. n : history'[i] = history[i]
        /\ history'[n + 1] = new
    BY <1>1, PushExtendsHistory DEF OrderInv
  <2>2. /\ n \in Nat
        /\ \A i \in 1 .. n : history[i] \in Task
    BY <2>1, LenProperties, ElementOfSeq
  <2>3. /\ sent \in [Thread -> 0 .. MaxSends]
        /\ sent' = [sent EXCEPT ![t] = @ + 1]
    BY <1>1 DEF OrderInv, TypeOK, Push
  <2>4. \A i \in 1 .. n : /\ history[i].from \in Thread
                          /\ history[i].index \in Nat
                          /\ history[i].index <= sent[history[i].from]
    BY <2>2, MaxSendsAssumption DEF Task, OrderInv
  <2>5. \A i \in 1 .. n + 1 : history'[i].index <= sent'[history'[i].from]
    <3>1. history'[n + 1].index <= sent'[history'[n + 1].from]
      BY <2>1, <2>3, MaxSendsAssumption
    <3>2. ASSUME NEW i \in 1 .. n
          PROVE  history'[i].index <= sent'[history'[i].from]
      BY <2>1, <2>3, <2>4, MaxSendsAssumption
    <3>3. QED
      BY <2>2, <3>1, <3>2
  <2>6. ASSUME NEW i \in 1 .. n + 1, NEW j \in 1 .. n + 1,
               i < j, history'[i].from = history'[j].from
        PROVE  history'[i].index < history'[j].index
    <3>1. i \in 1 .. n
      BY <2>2, <2>6
    <3>2. CASE j \in 1 .. n
      BY <2>1, <2>6, <3>1, <3>2 DEF OrderInv, SenderOrder
    <3>3. CASE j = n + 1
      <4>1. history[i].from = t /\ history'[j].index = sent[t] + 1
        BY <2>1, <2>6, <3>1, <3>3
      <4>2. history[i].index <= sent[t]
        BY <2>4, <3>1, <4>1
      <4>3. QED
        BY <2>1, <2>3, <2>4, <3>1, <4>1, <4>2, MaxSendsAssumption
    <3>4. QED
      BY <2>2, <3>2, <3>3
  <2>7. ASSUME NEW u \in Thread, NEW k \in 1 .. sent'[u]
        PROVE  \E i \in 1 .. n + 1 : history'[i].from = u /\ history'[i].index = k
    <3>1. CASE k \in 1 .. sent[u]
      <4>1. PICK i \in 1 .. n : history[i].from = u /\ history[i].index = k
        BY <3>1 DEF OrderInv, SenderOrder
      <4>2. i \in 1 .. n + 1 /\ history'[i] = history[i]
        BY <2>1, <2>2
      <4>3. QED
        BY <4>1, <4>2
    <3>2. CASE k \notin 1 .. sent[u]
      <4>1. u = t /\ k = sent[t] + 1
        BY <2>3, <3>2, MaxSendsAssumption
      <4>2. n + 1 \in 1 .. n + 1
        BY <2>2
      <4>3. QED
        BY <2>1, <4>1, <4>2
    <3>3. QED
      BY <3>1, <3>2
  <2>8. QED
    BY <2>1, <2>5, <2>6, <2>7 DEF OrderInv, SenderOrder
<1>2. CASE Pop
  <2>1. history' = history /\ sent' = sent
    BY <1>2, PopKeepsHistory DEF OrderInv, Pop
  <2>2. QED
    BY <2>1 DEF OrderInv, SenderOrder
<1>3. CASE \/ \E t \in Thread : Notify(t)
           \/ Poll \/ ReadEventfd \/ TaskReturns \/ DrainEnds
           \/ UNCHANGED vars
  <2>1. history' = history /\ sent' = sent
    BY <1>3 DEF Notify, Poll, ReadEventfd, TaskReturns, DrainEnds, vars, history
  <2>2. QED
    BY <2>1 DEF OrderInv, SenderOrder
<1>4. QED
  BY <1>1, <1>2, <1>3 DEF Next, Owner

(* Each thread's tasks are taken up once each, in the order it sent them.  *)
THEOREM SendersAreServedInOrder == SafeSpec => []SenderOrder
<1>1. Init => OrderInv
  <2>1. SUFFICES ASSUME Init PROVE OrderInv
    OBVIOUS
  <2>2. TypeOK
    BY <2>1, MaxSendsAssumption DEF Init, TypeOK, Handler
  <2>3. Len(history) = 0 /\ \A t \in Thread : sent[t] = 0
    BY <2>1 DEF Init, history
  <2>4. QED
    BY <2>2, <2>3 DEF OrderInv, SenderOrder
<1>2. OrderInv /\ TypeOK' /\ [Next]_vars => OrderInv'
  BY OrderStep
<1>3. OrderInv => SenderOrder
  BY DEF OrderInv
<1>4. QED
  BY <1>1, <1>2, <1>3, TypeCorrect, PTL DEF SafeSpec

-----------------------------------------------------------------------------
(* Every step of the queue is a step of TaskDelivery or invisible there.   *)
THEOREM QueueImplementsDelivery == SafeSpec => Delivery!SafeSpec
<1>1. Init => Delivery!Init
  BY DEF Init, Delivery!Init
<1>2. TypeOK /\ [Next]_vars => [Delivery!Next]_(Delivery!vars)
  <2> SUFFICES ASSUME TypeOK, [Next]_vars
               PROVE  [Delivery!Next]_(Delivery!vars)
    OBVIOUS
  <2>1. ASSUME NEW t \in Thread, NEW callable \in BOOLEAN, Push(t, callable)
        PROVE  \E task \in Task : Delivery!Send(task)
    <3>1. [from |-> t, index |-> sent[t] + 1, callable |-> callable] \in Task
      BY <2>1, MaxSendsAssumption DEF Push, Task, TypeOK
    <3>2. Delivery!Send([from |-> t, index |-> sent[t] + 1, callable |-> callable])
      BY <2>1 DEF Push, Delivery!Send
    <3>3. QED
      BY <3>1, <3>2
  <2>2. CASE Pop
    BY <2>2 DEF Pop, Delivery!Next, Delivery!Deliver, Delivery!vars
  <2>3. CASE \/ \E t \in Thread : Notify(t)
             \/ Poll \/ ReadEventfd \/ TaskReturns \/ DrainEnds
             \/ UNCHANGED vars
    BY <2>3 DEF Notify, Poll, ReadEventfd, TaskReturns, DrainEnds, vars, Delivery!vars
  <2>4. QED
    BY <2>1, <2>2, <2>3 DEF Next, Owner, Delivery!Next
<1>3. QED
  BY <1>1, <1>2, TypeCorrect, PTL DEF SafeSpec, Delivery!SafeSpec
=============================================================================
