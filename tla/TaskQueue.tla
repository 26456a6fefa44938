------------------------------ MODULE TaskQueue ------------------------------
(***************************************************************************)
(* base/TaskQueue.{h,cpp}: the queue through which other threads hand work *)
(* to the thread that runs an EventCycle (a NetWorker or the Logger).      *)
(*                                                                         *)
(* A sender pushes its task under the mutex and only then adds 1 to an     *)
(* eventfd; the owner polls the eventfd, reads and clears the counter, and *)
(* pops that many tasks, each under the mutex, running every task with the *)
(* mutex free. Push and eventfd_write are two steps: a task may be popped  *)
(* before its own sender has written, on the strength of the wake-up of    *)
(* another task, whose turn then comes with the late write.                *)
(***************************************************************************)
EXTENDS Integers, Sequences, FiniteSets

LOCAL INSTANCE SequencesExt

CONSTANTS
  Senders,          \* the threads that do not own the queue
  Worker,           \* the thread whose EventCycle watches the eventfd
  MaxSends          \* bound: how many tasks one thread sends

ASSUME SendersAssumption == Worker \notin Senders
ASSUME MaxSendsAssumption == MaxSends \in Nat

Thread == Senders \cup {Worker}

(* A std::function, callable or not: a nullptr may be sent, "because it    *)
(* will be checked before called" (TaskQueue.cpp:11).                      *)
Task == [from : Thread, index : 1 .. MaxSends, callable : BOOLEAN]

VARIABLES
  queue,            \* the deque, guarded by mtx
  eventCount,       \* the kernel's counter behind eventFd
  notifying,        \* threads between mtx.unlock() and eventfd_write()
  sent,             \* how many tasks each thread has pushed
  handler,          \* where the owner thread is, see Handler
  num,              \* handleRead's num: pops still to make
  ran,              \* history: the tasks popped, in order
  emptyPops         \* history: pops that found the queue empty

vars == <<queue, eventCount, notifying, sent, handler, num, ran, emptyPops>>

(* The owner is in epoll_wait, has been told that the eventfd is readable, *)
(* is in the while loop of handleRead, or is inside a task.                *)
Handler == {"polling", "readable", "draining", "running"}

TypeOK ==
  /\ queue \in Seq(Task)
  /\ eventCount \in Nat
  /\ notifying \in SUBSET Thread
  /\ sent \in [Thread -> 0 .. MaxSends]
  /\ handler \in Handler
  /\ num \in Nat
  /\ ran \in Seq(Task)
  /\ emptyPops \in Nat

Init ==
  /\ queue = <<>>
  /\ eventCount = 0
  /\ notifying = {}
  /\ sent = [t \in Thread |-> 0]
  /\ handler = "polling"
  /\ num = 0
  /\ ran = <<>>
  /\ emptyPops = 0

-----------------------------------------------------------------------------
(* SendTask, first half: lock, push_back, unlock. The owner itself sends   *)
(* only from inside a task it is running.                                  *)
Push(t, callable) ==
  /\ t \notin notifying
  /\ t = Worker => handler = "running"
  /\ sent[t] < MaxSends
  /\ sent' = [sent EXCEPT ![t] = @ + 1]
  /\ queue' = Append(queue, [from |-> t, index |-> sent[t] + 1, callable |-> callable])
  /\ notifying' = notifying \cup {t}
  /\ UNCHANGED <<eventCount, handler, num, ran, emptyPops>>

(* Mutant of Notify: the wake-up is a flag, not a count.                   *)
NotifyFlag(t) ==
  /\ t \in notifying
  /\ eventCount' = 1
  /\ notifying' = notifying \ {t}
  /\ UNCHANGED <<queue, sent, handler, num, ran, emptyPops>>

(* SendTask, second half: eventfd_write(eventFd, 1).                       *)
Notify(t) ==
  /\ t \in notifying
  /\ eventCount' = eventCount + 1
  /\ notifying' = notifying \ {t}
  /\ UNCHANGED <<queue, sent, handler, num, ran, emptyPops>>

(* epoll_wait is level-triggered: it reports the eventfd while it is not 0.*)
Poll ==
  /\ handler = "polling"
  /\ eventCount > 0
  /\ handler' = "readable"
  /\ UNCHANGED <<queue, eventCount, notifying, sent, num, ran, emptyPops>>

(* handleRead: eventfd_read returns the whole counter and resets it; on an *)
(* empty counter it fails with EAGAIN and handleRead only logs.            *)
ReadEventfd ==
  /\ handler = "readable"
  /\ num' = eventCount
  /\ eventCount' = 0
  /\ handler' = IF eventCount = 0 THEN "polling" ELSE "draining"
  /\ UNCHANGED <<queue, notifying, sent, ran, emptyPops>>

(* Mutant of Pop: the newest task first.                                   *)
PopBack ==
  /\ handler = "draining"
  /\ num > 0
  /\ queue # <<>>
  /\ num' = num - 1
  /\ queue' = Front(queue)
  /\ ran' = Append(ran, Last(queue))
  /\ handler' = IF Last(queue).callable THEN "running" ELSE "draining"
  /\ UNCHANGED <<eventCount, notifying, sent, emptyPops>>

(* Mutant of Pop: while(--num), which wraps below 0.                       *)
PopOnceMore ==
  /\ handler = "draining"
  /\ queue # <<>>
  /\ num' = num - 1
  /\ queue' = Tail(queue)
  /\ ran' = Append(ran, Head(queue))
  /\ UNCHANGED <<eventCount, notifying, sent, handler, emptyPops>>

(* One round of while(num--): pop the front under the mutex, then call it  *)
(* if it is callable; an empty queue is only logged.                       *)
Pop ==
  /\ handler = "draining"
  /\ num > 0
  /\ num' = num - 1
  /\ IF queue = <<>>
       THEN /\ emptyPops' = emptyPops + 1
            /\ UNCHANGED <<queue, ran, handler>>
       ELSE /\ queue' = Tail(queue)
            /\ ran' = Append(ran, Head(queue))
            /\ handler' = IF Head(queue).callable THEN "running" ELSE "draining"
            /\ UNCHANGED emptyPops
  /\ UNCHANGED <<eventCount, notifying, sent>>

(* The task returns to handleRead, any SendTask it made being complete.    *)
TaskReturns ==
  /\ handler = "running"
  /\ Worker \notin notifying
  /\ handler' = "draining"
  /\ UNCHANGED <<queue, eventCount, notifying, sent, num, ran, emptyPops>>

(* handleRead returns to EventCycle::Loop, which polls again.              *)
DrainEnds ==
  /\ handler = "draining"
  /\ num = 0
  /\ handler' = "polling"
  /\ UNCHANGED <<queue, eventCount, notifying, sent, num, ran, emptyPops>>

Owner == Poll \/ ReadEventfd \/ Pop \/ TaskReturns \/ DrainEnds

Next ==
  \/ \E t \in Thread, callable \in BOOLEAN : Push(t, callable)
  \/ \E t \in Thread : Notify(t)
  \/ Owner

SafeSpec == Init /\ [][Next]_vars

(* A thread that has pushed goes on to its eventfd_write, and the owner    *)
(* goes on with its loop: both are running threads, and a task is a        *)
(* non-blocking callback, so that it returns. Nobody has to send.          *)
Fairness ==
  /\ \A t \in Thread : WF_vars(Notify(t))
  /\ WF_vars(Owner)

Spec == SafeSpec /\ Fairness

-----------------------------------------------------------------------------
(* Every task in the queue is paid for by exactly one unit somewhere: in   *)
(* the eventfd, in the rounds handleRead has still to make, or in a sender *)
(* on its way to eventfd_write. handleRead pops by count and never looks   *)
(* at the rest of the queue, so that one unit too few strands a task for   *)
(* ever and one too many pops an empty queue.                              *)
WakeupsMatchTasks ==
  eventCount + num + Cardinality(notifying) = Len(queue)

(* The branch "eventfd_read() returned num but queue is empty" of          *)
(* handleRead (TaskQueue.cpp:53-57) is never taken.                        *)
NeverPopsEmpty == emptyPops = 0

(* The owner is not left sleeping in epoll_wait with work in the queue and *)
(* nobody on the way to wake it up.                                        *)
NoLostWakeup ==
  (handler = "polling" /\ eventCount = 0 /\ notifying = {}) => queue = <<>>

(* All the tasks that were ever sent, oldest first.                        *)
history == ran \o queue

(* Tasks of one thread run in the order in which that thread sent them,    *)
(* with none skipped and none twice: what NetWorker::ConnectUpstream and   *)
(* Logger::Log rely on, whatever the other threads do in between.          *)
SenderOrder ==
  /\ \A i, j \in 1 .. Len(history) :
       (i < j /\ history[i].from = history[j].from) => history[i].index < history[j].index
  /\ \A t \in Thread : \A k \in 1 .. sent[t] :
       \E i \in 1 .. Len(history) : history[i].from = t /\ history[i].index = k

(* The queue implements TaskDelivery: in order, at most once, and under    *)
(* the fairness above every task that was sent is taken up.                *)
Delivery == INSTANCE TaskDelivery WITH pending <- queue, delivered <- ran

ImplementsDelivery == Delivery!Spec
=============================================================================
