---------------------------- MODULE BufferChain ----------------------------
(***************************************************************************)
(* The chain of write buffers of a TcpConnection: GetWriteBuffer           *)
(* (net/TcpConnection.cpp), and WriteFd and WritevFd, which write it to a  *)
(* socket (base/Utilities.cpp). A chain is a sequence of buffers.          *)
(***************************************************************************)
EXTENDS Buffer, SequencesExt, FiniteSetsExt

(* The bytes of all buffers, in the order in which they are written.       *)
Content(chain) == FlattenSeq([i \in DOMAIN chain |-> chain[i].data])

(* GetWriteBuffer: the first buffer with room, else a new one unless there *)
(* are most already, else nullptr. The new one has the capacity of the     *)
(* first whose capacity is not the usual one.                              *)
WithRoom(chain) == {i \in DOMAIN chain : AppendableSize(chain[i]) > 0}

NewSize(chain, usual) ==
  LET unusual == {i \in DOMAIN chain : chain[i].capacity # usual}
  IN  IF unusual = {} THEN usual ELSE chain[Min(unusual)].capacity

GetWriteBuffer(chain, usual, most) ==
  IF WithRoom(chain) # {} THEN [chain |-> chain, index |-> Min(WithRoom(chain))]
  ELSE IF Len(chain) < most
    THEN [chain |-> Append(chain, New(NewSize(chain, usual))), index |-> Len(chain) + 1]
  ELSE [chain |-> chain, index |-> 0]

(* WriteFd, and WritevFd for a chain of several: the kernel takes the      *)
(* first k of the bytes available, and each buffer gives up its share. The *)
(* mutant looks at the first buffer only.                                  *)
Share(chain, i, k) ==
  LET before == Len(Content(SubSeq(chain, 1, i - 1)))
  IN  Max({0, Min({k - before, AvailableSize(chain[i])})})

WriteFirstOnly(chain, k) ==
  [i \in DOMAIN chain |-> IF i = 1 THEN MarkProcessed(chain[1], Share(chain, 1, k))
                                   ELSE chain[i]]

Write(chain, k) == [i \in DOMAIN chain |-> MarkProcessed(chain[i], Share(chain, i, k))]
=============================================================================
