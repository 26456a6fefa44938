---------------------------- MODULE TaskDelivery ----------------------------
(***************************************************************************)
(* What a task queue promises to the threads that use it, with no event    *)
(* loop and no wake-up in sight: the tasks that were sent are run one at a *)
(* time, each at most once, in the order in which they were sent, and no   *)
(* task that was sent waits for ever.                                      *)
(*                                                                         *)
(* TaskQueue (base/TaskQueue.cpp) is shown to implement this.              *)
(***************************************************************************)
EXTENDS Sequences

CONSTANT Task       \* every task that may ever be sent

VARIABLES
  pending,          \* sent and not yet taken up, oldest first
  delivered         \* taken up by the owner of the queue, in that order

vars == <<pending, delivered>>

Init ==
  /\ pending = <<>>
  /\ delivered = <<>>

Send(task) ==
  /\ pending' = Append(pending, task)
  /\ UNCHANGED delivered

Deliver ==
  /\ pending # <<>>
  /\ delivered' = Append(delivered, Head(pending))
  /\ pending' = Tail(pending)

Next ==
  \/ \E task \in Task : Send(task)
  \/ Deliver

SafeSpec == Init /\ [][Next]_vars

Spec == SafeSpec /\ WF_vars(Deliver)
=============================================================================
