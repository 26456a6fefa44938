------------------------- MODULE ConnectionBuffers --------------------------
(***************************************************************************)
(* The buffers of one TcpConnection (net/TcpConnection.{h,cpp}) and the    *)
(* functions that move bytes between them and the socket: WriteFd, WritevFd*)
(* and ReadFd (base/Utilities.cpp).                                        *)
(*                                                                         *)
(* On the way out the user appends to the buffer that GetWriteBuffer       *)
(* returns, as often as it likes, and calls Send; handleWrite then writes  *)
(* until all is sent. On the way in handleRead reads into readBuf, and the *)
(* user takes bytes out of it. Bytes are numbered as they are put in.      *)
(*                                                                         *)
(* The user does not append while a Send is under way: the first buffer    *)
(* may be empty again when a later one is not, and what is appended to it  *)
(* then would overtake the rest.                                           *)
(*                                                                         *)
(* TcpConnection models the events and callbacks of the same class. Its    *)
(* names are not used here, so that the proofs can take both modules.      *)
(***************************************************************************)
EXTENDS BufferChain

CONSTANTS
  InitSize,           \* the initial size of a buffer, 32768 in the code
  CMaxWriteBufferNum,
  MaxAppend,          \* bound: the longest string that is appended at once
  MaxBytes            \* bound: how many bytes are put in on either side

ASSUME InitSizeAssumption == InitSize \in Nat \ {0}
ASSUME CMaxWriteBufferNumAssumption == CMaxWriteBufferNum \in Nat \ {0}
ASSUME BoundsAssumption == MaxAppend \in Nat /\ MaxBytes \in Nat

VARIABLES
  writeBufChain,
  sending,            \* the write event is set: handleWrite will be called
  appended,           \* how many bytes the user has appended
  wire,               \* history: what the kernel has taken
  overflowed,         \* an Append did not fit: the process aborts, or worse
  readBuf,
  arrived,            \* how many bytes were read from the socket
  delivered           \* history: what the user has taken out of readBuf

buffersVars == <<writeBufChain, sending, appended, wire, overflowed, readBuf, arrived, delivered>>

Bytes == 1 .. MaxBytes

BuffersTypeOK ==
  /\ writeBufChain \in Seq(BufferType(Bytes))
  /\ Len(writeBufChain) \in 1 .. CMaxWriteBufferNum
  /\ sending \in BOOLEAN /\ overflowed \in BOOLEAN
  /\ appended \in 0 .. MaxBytes /\ arrived \in 0 .. MaxBytes
  /\ readBuf \in BufferType(Bytes)
  /\ \A b \in Range(writeBufChain) \cup {readBuf} :
       overflowed \/ AvailEnd(b) <= b.capacity
  /\ wire \in Seq(Bytes) /\ delivered \in Seq(Bytes)

BuffersInit ==
  /\ writeBufChain = <<New(InitSize)>>
  /\ sending = FALSE /\ overflowed = FALSE
  /\ appended = 0 /\ wire = <<>>
  /\ readBuf = New(InitSize)
  /\ arrived = 0 /\ delivered = <<>>

(* The bytes that follow the first n, k of them                            *)
Following(n, k) == [i \in 1 .. k |-> n + i]

-----------------------------------------------------------------------------
(* The user appends n bytes.                                               *)
AppendToSend(n) ==
  LET got == GetWriteBuffer(writeBufChain, InitSize, CMaxWriteBufferNum)
      bytes == Following(appended, n)
  IN  /\ ~overflowed /\ ~sending /\ appended + n <= MaxBytes
      /\ got.index # 0
      /\ IF Fits(got.chain[got.index], n)
           THEN /\ writeBufChain' = [got.chain EXCEPT ![got.index] = AppendBytes(@, bytes)]
                /\ appended' = appended + n
                /\ UNCHANGED overflowed
           ELSE /\ overflowed' = TRUE
                /\ UNCHANGED <<writeBufChain, appended>>
      /\ UNCHANGED <<sending, wire, readBuf, arrived, delivered>>

(* handleWrite: errors that may be ignored, and a write() of 0, take no    *)
(* byte. When all is sent the event is disabled and the user called back.  *)
WriteBytes(k) ==
  LET content == Content(writeBufChain)
  IN  /\ k <= Len(content)
      /\ writeBufChain' = Write(writeBufChain, k)
      /\ wire' = wire \o SubSeq(content, 1, k)
      /\ sending' = (k < Len(content))
      /\ UNCHANGED <<appended, overflowed, readBuf, arrived, delivered>>

SendBytes(k) ==
  /\ ~overflowed /\ ~sending /\ Content(writeBufChain) # <<>>
  /\ WriteBytes(k)

WriteMore(k) == ~overflowed /\ sending /\ WriteBytes(k)

-----------------------------------------------------------------------------
(* ReadFd: what is read goes behind availEnd, as much as there is room     *)
(* for. The mutant asks for the whole buffer.                              *)
ReadWhole(b) == b.capacity
ReadLimit(b) == AppendableSize(b)

ReadBytes(n) ==
  /\ ~overflowed
  /\ n <= ReadLimit(readBuf) /\ arrived + n <= MaxBytes
  /\ readBuf' = MarkAppended(readBuf, Following(arrived, n))
  /\ arrived' = arrived + n
  /\ UNCHANGED <<delivered, writeBufChain, sending, appended, wire, overflowed>>

(* The user's Retrive, or AvailablePos and MarkProcessed: at most what is  *)
(* there. The mutant marks all as processed.                               *)
RetriveSome(n) ==
  LET size == Min({n, AvailableSize(readBuf)})
  IN  /\ ~overflowed
      /\ delivered' = delivered \o SubSeq(readBuf.data, 1, size)
      /\ readBuf' = MarkProcessed(readBuf, AvailableSize(readBuf))
      /\ UNCHANGED <<arrived, writeBufChain, sending, appended, wire, overflowed>>

Retrive(n) ==
  LET size == Min({n, AvailableSize(readBuf)})
  IN  /\ ~overflowed
      /\ delivered' = delivered \o SubSeq(readBuf.data, 1, size)
      /\ readBuf' = MarkProcessed(readBuf, size)
      /\ UNCHANGED <<arrived, writeBufChain, sending, appended, wire, overflowed>>

BuffersNext ==
  \/ \E n \in 1 .. MaxAppend : AppendToSend(n)
  \/ \E k \in 0 .. MaxBytes : SendBytes(k)
  \/ \E k \in 0 .. MaxBytes : WriteMore(k)
  \/ \E n \in 1 .. MaxBytes : ReadBytes(n)
  \/ \E n \in 1 .. MaxBytes : Retrive(n)

BuffersSpec == BuffersInit /\ [][BuffersNext]_buffersVars

-----------------------------------------------------------------------------
(* Both directions are streams of bytes: chains of buffers, partial writes *)
(* over several of them, buffers that grow and are reused, and reads that  *)
(* find little room, neither lose nor reorder a byte. In particular an     *)
(* Append that finds room has not made resize() overwrite what was there,  *)
(* and the bytes that are new in the chain are just the appended ones.     *)
Outgoing == INSTANCE ByteStream
              WITH put <- appended, queue <- Content(writeBufChain), taken <- wire
Incoming == INSTANCE ByteStream
              WITH put <- arrived, queue <- readBuf.data, taken <- delivered

SendsInOrder == Outgoing!Spec
ReceivesInOrder == Incoming!Spec
=============================================================================
