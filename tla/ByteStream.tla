----------------------------- MODULE ByteStream -----------------------------
(***************************************************************************)
(* What the buffers of a connection promise, with no buffer in sight: what *)
(* is put in on one side is taken out on the other, in order, nothing is   *)
(* lost, doubled or invented. Bytes are numbered as they are put in.       *)
(*                                                                         *)
(* ConnectionBuffers is shown to implement this in both directions.        *)
(***************************************************************************)
EXTENDS Integers, Sequences

VARIABLES
  put,              \* how many bytes have been put in
  queue,            \* put in and not yet taken out, oldest first
  taken             \* taken out so far

vars == <<put, queue, taken>>

Init ==
  /\ put = 0
  /\ queue = <<>>
  /\ taken = <<>>

(* The bytes that follow the first n, k of them                            *)
Following(n, k) == [i \in 1 .. k |-> n + i]

Put ==
  /\ put' > put
  /\ queue' = queue \o Following(put, put' - put)
  /\ UNCHANGED taken

Take ==
  /\ \E n \in 1 .. Len(queue) :
       /\ taken' = taken \o SubSeq(queue, 1, n)
       /\ queue' = SubSeq(queue, n + 1, Len(queue))
  /\ UNCHANGED put

Next == Put \/ Take

Spec == Init /\ [][Next]_vars
=============================================================================
