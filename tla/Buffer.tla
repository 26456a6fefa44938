------------------------------- MODULE Buffer -------------------------------
(***************************************************************************)
(* base/Buffer.{h,cpp}: a std::vector<char> with a part in the middle that *)
(* holds data. A buffer is a record; an operation is a function from a     *)
(* buffer to the next one.                                                 *)
(*                                                                         *)
(* data is the part from availStart to availEnd. The capacity may exceed   *)
(* the size() of the vector, and appended bytes may lie beyond size(),     *)
(* where std::vector knows nothing of them: resize() overwrites them.      *)
(***************************************************************************)
EXTENDS Integers, Sequences

Lost == 0           \* a byte that resize() has overwritten, none that is appended

BufferType(Bytes) ==
  [size : Nat, capacity : Nat, availStart : Nat, data : Seq(Bytes \cup {Lost})]

New(size) == [size |-> size, capacity |-> size, availStart |-> 0, data |-> <<>>]

AvailEnd(b) == b.availStart + Len(b.data)
AvailableSize(b) == Len(b.data)
AppendableSize(b) == b.capacity - AvailEnd(b)

(* When the two indexes meet they move to the front.                       *)
MarkProcessed(b, n) ==
  [b EXCEPT !.data = SubSeq(b.data, n + 1, Len(b.data)),
            !.availStart = IF n = Len(b.data) THEN 0 ELSE @ + n]

(* What is copied behind availEnd, and MarkAppended.                       *)
MarkAppended(b, bytes) == [b EXCEPT !.data = @ \o bytes]

(* std::vector::resize beyond the capacity: libstdc++ at least doubles the *)
(* size, and keeps the first size() bytes.                                 *)
Resize(b, s) ==
  [size |-> s,
   capacity |-> IF 2 * b.size > s THEN 2 * b.size ELSE s,
   availStart |-> b.availStart,
   data |-> [i \in DOMAIN b.data |->
               IF b.availStart + i <= b.size THEN b.data[i] ELSE Lost]]

Expand(b, s) == IF s > b.capacity THEN Resize(b, s) ELSE b

(* Append(RawBuf) and Append(string): whether there is room, or Expand, by *)
(* a multiple of what is left, makes enough. If not, the bytes are copied  *)
(* past the end of the vector; with nothing left it divides by zero.       *)
Grown(b, n) ==
  LET as == AppendableSize(b)
  IN  IF n > as /\ as # 0 THEN Expand(b, (n \div as + 1) * as) ELSE b

Fits(b, n) == n <= AppendableSize(Grown(b, n))

AppendBytes(b, bytes) == MarkAppended(Grown(b, Len(bytes)), bytes)
=============================================================================
