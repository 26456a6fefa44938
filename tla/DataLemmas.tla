----------------------------- MODULE DataLemmas ------------------------------
(***************************************************************************)
(* What the operators that several models are built from return, preserve  *)
(* and bound: numbers and finite sets, queues, the pool of connections,    *)
(* buffers.                                                                *)
(***************************************************************************)
EXTENDS ConnectionPool, BufferChain, FiniteSetTheorems, SequenceTheorems,
        WellFoundedInduction, TLAPS

-----------------------------------------------------------------------------
(* Numbers and finite sets                                                 *)

(* What n \div m is, for numbers that are not negative.                    *)
LEMMA DivBounds ==
  ASSUME NEW n \in Nat, NEW m \in Nat \ {0}
  PROVE  /\ n \div m \in Nat
         /\ (n \div m) * m \in Nat
         /\ (n \div m) * m <= n
         /\ n < (n \div m) * m + m
         /\ (n \div m + 1) * m = (n \div m) * m + m
         /\ n >= m => (n \div m) * m > 0
<1>1. n \div m \in Nat
  OBVIOUS
<1>2. PICK q \in Nat : q = n \div m
  BY <1>1
<1>3. q * m <= n /\ n < q * m + m
  BY <1>2
<1>4. q * m \in Nat
  OBVIOUS
<1>5. (q + 1) * m = q * m + m
  OBVIOUS
<1>6. n >= m => q * m > 0
  BY <1>3, <1>4
<1>7. QED
  BY <1>1, <1>2, <1>3, <1>4, <1>5, <1>6

(* The first multiple of m after n.                                        *)
LEMMA NextMultiple ==
  ASSUME NEW n \in Nat, NEW m \in Nat \ {0}
  PROVE  LET next == (n \div m + 1) * m
         IN  next \in Nat /\ n < next /\ next <= n + m
<1>1. PICK multiple \in Nat : multiple = (n \div m) * m
  BY DivBounds
<1>2. multiple <= n /\ n < multiple + m /\ (n \div m + 1) * m = multiple + m
  BY <1>1, DivBounds
<1>3. QED
  BY <1>2

(* A set of numbers has a smallest one.                                    *)
LEMMA SmallestOf ==
  ASSUME NEW S, S \subseteq Nat, S # {}
  PROVE  Min(S) \in S /\ \A y \in S : Min(S) <= y
<1>1. IsWellFoundedOn(OpToRel(<, Nat), Nat)
  BY NatLessThanWellFounded
<1>2. PICK x \in S : \A y \in S : ~ (<<y, x>> \in OpToRel(<, Nat))
  BY <1>1, WFMin
<1>3. \A y \in S : ~ (y < x)
  BY <1>2 DEF OpToRel
<1>4. \A y \in S : x <= y
  BY <1>3
<1>5. QED
  BY <1>4 DEF Min

(* A set gets one member more, or loses some.                              *)
LEMMA OneMoreAtMost ==
  ASSUME NEW S, IsFiniteSet(S), NEW x, NEW T, T \subseteq S \cup {x}
  PROVE  /\ Cardinality(S) \in Nat /\ Cardinality(T) \in Nat
         /\ Cardinality(T) <= Cardinality(S) + 1
<1>1. Cardinality(S) \in Nat
  BY FS_CardinalityType
<1>2. IsFiniteSet(S \cup {x}) /\ Cardinality(S \cup {x}) \in {Cardinality(S), Cardinality(S) + 1}
  BY FS_AddElement
<1>3. IsFiniteSet(T) /\ Cardinality(T) <= Cardinality(S \cup {x})
  BY <1>2, FS_Subset
<1>4. Cardinality(T) \in Nat
  BY <1>3, FS_CardinalityType
<1>5. QED
  BY <1>1, <1>2, <1>3, <1>4

(* Min and Max of two numbers.                                             *)
LEMMA LeastOfTwo ==
  ASSUME NEW a \in Int, NEW b \in Int
  PROVE  /\ Min({a, b}) = IF a <= b THEN a ELSE b
         /\ Max({a, b}) = IF a <= b THEN b ELSE a
<1>1. PICK least \in {a, b} : least = (IF a <= b THEN a ELSE b)
  OBVIOUS
<1>2. \A y \in {a, b} : least <= y
  BY <1>1
<1>3. Min({a, b}) \in {a, b} /\ \A y \in {a, b} : Min({a, b}) <= y
  BY <1>2 DEF Min
<1>4. PICK most \in {a, b} : most = (IF a <= b THEN b ELSE a)
  OBVIOUS
<1>5. \A y \in {a, b} : most >= y
  BY <1>4
<1>6. Max({a, b}) \in {a, b} /\ \A y \in {a, b} : Max({a, b}) >= y
  BY <1>5 DEF Max
<1>7. QED
  BY <1>3, <1>6

-----------------------------------------------------------------------------
(* Queues. A history is in two parts: what is done, and what waits in a    *)
(* queue. What the steps of a queue do to the two parts, taken together.   *)
LEMMA ConsHeadTail ==
  ASSUME NEW S, NEW s \in Seq(S), s # <<>>
  PROVE  <<Head(s)>> \o Tail(s) = s
<1> DEFINE h == <<Head(s)>>
           r == h \o Tail(s)
<1>1. /\ Head(s) \in S /\ Head(s) = s[1]
      /\ Tail(s) \in Seq(S)
      /\ Len(s) \in Nat /\ Len(s) > 0
      /\ Len(Tail(s)) = Len(s) - 1
      /\ \A i \in 1 .. Len(Tail(s)) : Tail(s)[i] = s[i + 1]
  BY HeadTailProperties, LenProperties, EmptySeq
<1>2. h \in Seq(S) /\ Len(h) = 1 /\ h[1] = s[1]
  BY <1>1
<1> HIDE DEF h
<1>3. /\ r \in Seq(S)
      /\ Len(r) = 1 + Len(Tail(s))
      /\ \A i \in 1 .. 1 + Len(Tail(s)) : r[i] = IF i <= 1 THEN h[i] ELSE Tail(s)[i - 1]
  <2>1. h \in Seq(S) /\ Tail(s) \in Seq(S)
    BY <1>1, <1>2
  <2>2. /\ r \in Seq(S)
        /\ Len(r) = Len(h) + Len(Tail(s))
        /\ \A i \in 1 .. Len(h) + Len(Tail(s)) :
             r[i] = IF i <= Len(h) THEN h[i] ELSE Tail(s)[i - Len(h)]
    BY <2>1, ConcatProperties, Zenon
  <2>3. QED
    BY <1>2, <2>2
<1>4. Len(r) = Len(s)
  BY <1>1, <1>3
<1>5. ASSUME NEW i \in 1 .. Len(r)
      PROVE  r[i] = s[i]
  <2>1. CASE i = 1
    BY <1>1, <1>2, <1>3, <2>1
  <2>2. CASE i > 1
    <3>1. i - 1 \in 1 .. Len(Tail(s)) /\ (i - 1) + 1 = i
      BY <1>1, <1>4, <2>2
    <3>2. r[i] = Tail(s)[i - 1]
      BY <1>1, <1>3, <2>2
    <3>3. QED
      BY <1>1, <3>1, <3>2
  <2>3. QED
    BY <1>1, <1>4, <2>1, <2>2
<1>6. r = s
  BY <1>3, <1>4, <1>5, SeqEqual
<1>7. QED
  BY <1>6 DEF h

(* An element is queued: the history grows at its end.                     *)
LEMMA QueueGrows ==
  ASSUME NEW S, NEW done \in Seq(S), NEW queued \in Seq(S), NEW x \in S
  PROVE  done \o Append(queued, x) = Append(done \o queued, x)
<1>1. queued \o <<x>> = Append(queued, x) /\ <<x>> \in Seq(S)
  BY AppendIsConcat
<1>2. done \o (queued \o <<x>>) = (done \o queued) \o <<x>>
  BY <1>1, ConcatAssociative
<1>3. done \o queued \in Seq(S)
  BY ConcatProperties
<1>4. QED
  BY <1>1, <1>2, <1>3, AppendIsConcat

(* The head is taken and done: the history stays as it is.                 *)
LEMMA HeadIsDone ==
  ASSUME NEW S, NEW done \in Seq(S), NEW queued \in Seq(S), queued # <<>>
  PROVE  Append(done, Head(queued)) \o Tail(queued) = done \o queued
<1>1. /\ Head(queued) \in S /\ Tail(queued) \in Seq(S)
      /\ <<Head(queued)>> \in Seq(S)
  BY HeadTailProperties
<1>2. Append(done, Head(queued)) = done \o <<Head(queued)>>
  BY <1>1, AppendIsConcat
<1>3. (done \o <<Head(queued)>>) \o Tail(queued) = done \o (<<Head(queued)>> \o Tail(queued))
  BY <1>1, ConcatAssociative
<1>4. QED
  BY <1>2, <1>3, ConsHeadTail

(* Something is done past the queue: it gets into the history in front of  *)
(* all that is queued.                                                     *)
LEMMA DoneAtOnce ==
  ASSUME NEW S, NEW done \in Seq(S), NEW queued \in Seq(S), NEW x \in S
  PROVE  LET r == done \o queued
             q == Append(done, x) \o queued
         IN  /\ r \in Seq(S) /\ q \in Seq(S)
             /\ Len(done) \in 0 .. Len(r)
             /\ Len(q) = Len(r) + 1
             /\ \A i \in 1 .. Len(done) : q[i] = r[i]
             /\ q[Len(done) + 1] = x
             /\ \A i \in Len(done) + 1 .. Len(r) : q[i + 1] = r[i]
<1> DEFINE more == Append(done, x)
           r == done \o queued
           q == more \o queued
<1>1. /\ more \in Seq(S) /\ Len(more) = Len(done) + 1 /\ more[Len(done) + 1] = x
      /\ \A i \in 1 .. Len(done) : more[i] = done[i]
  BY AppendProperties
<1>2. Len(done) \in Nat /\ Len(queued) \in Nat
  BY LenProperties
<1>3. /\ r \in Seq(S) /\ Len(r) = Len(done) + Len(queued)
      /\ \A i \in 1 .. Len(done) + Len(queued) :
           r[i] = IF i <= Len(done) THEN done[i] ELSE queued[i - Len(done)]
  BY ConcatProperties, Zenon
<1> HIDE DEF more
<1>4. /\ q \in Seq(S) /\ Len(q) = Len(more) + Len(queued)
      /\ \A i \in 1 .. Len(more) + Len(queued) :
           q[i] = IF i <= Len(more) THEN more[i] ELSE queued[i - Len(more)]
  BY <1>1, ConcatProperties, Zenon
<1> HIDE DEF r, q
<1>5. \A i \in 1 .. Len(done) : q[i] = r[i]
  BY <1>1, <1>2, <1>3, <1>4
<1>6. q[Len(done) + 1] = x
  BY <1>1, <1>2, <1>4
<1>7. ASSUME NEW i \in Len(done) + 1 .. Len(r)
      PROVE  q[i + 1] = r[i]
  <2>1. q[i + 1] = queued[(i + 1) - Len(more)]
    BY <1>1, <1>2, <1>3, <1>4
  <2>2. r[i] = queued[i - Len(done)]
    BY <1>2, <1>3
  <2>3. (i + 1) - Len(more) = i - Len(done)
    BY <1>1, <1>2, <1>3
  <2>4. QED
    BY <2>1, <2>2, <2>3
<1>8. QED
  BY <1>1, <1>2, <1>3, <1>4, <1>5, <1>6, <1>7 DEF r, q, more
-----------------------------------------------------------------------------
(* Sequences of sequences, put together.                                   *)

(* f[i] is the first i sequences of ss, put together.                      *)
PutTogether(ss, n, f, B) ==
  /\ f \in [0 .. n -> Seq(B)]
  /\ f[0] = <<>>
  /\ \A i \in 1 .. n : f[i] = f[i - 1] \o ss[i]

(* Any number of sequences can be put together; FlattenSeq does.           *)
LEMMA CanPutTogether ==
  ASSUME NEW B, NEW ss \in Seq(Seq(B))
  PROVE  \E f : PutTogether(ss, Len(ss), f, B)
<1> DEFINE Can(n) == \E f : PutTogether(ss, n, f, B)
           Bad == {n \in 0 .. Len(ss) : ~Can(n)}
<1>1. Len(ss) \in Nat /\ \A i \in 1 .. Len(ss) : ss[i] \in Seq(B)
  BY LenProperties, ElementOfSeq
<1>2. SUFFICES ASSUME Bad # {}
               PROVE  FALSE
  BY <1>1
<1> HIDE DEF Can
<1>3. PICK n \in Bad : \A m \in Bad : n <= m
  <2>1. Bad \subseteq Nat
    OBVIOUS
  <2>2. QED
    BY <1>2, <2>1, SmallestOf
<1>4. CASE n = 0
  <2>1. PutTogether(ss, 0, [i \in {0} |-> <<>>], B)
    BY EmptySeq DEF PutTogether
  <2>2. QED
    BY <1>3, <1>4, <2>1 DEF Can
<1>5. CASE n # 0
  <2>1. n \in 1 .. Len(ss) /\ n - 1 \in 0 .. Len(ss) /\ n - 1 < n
    BY <1>1, <1>3, <1>5
  <2>2. n - 1 \notin Bad
    BY <1>3, <2>1
  <2>3. PICK f : PutTogether(ss, n - 1, f, B)
    BY <2>1, <2>2 DEF Can
  <2> DEFINE g == [i \in 0 .. n |-> IF i = n THEN f[n - 1] \o ss[n] ELSE f[i]]
  <2>4. f[n - 1] \in Seq(B) /\ ss[n] \in Seq(B) /\ n \in Nat
    BY <1>1, <2>1, <2>3 DEF PutTogether
  <2>5. f[n - 1] \o ss[n] \in Seq(B)
    BY <2>4, ConcatProperties
  <2>6. g \in [0 .. n -> Seq(B)]
    BY <2>1, <2>3, <2>5 DEF PutTogether
  <2>7. g[0] = <<>>
    BY <1>5, <2>1, <2>3 DEF PutTogether
  <2>8. \A i \in 1 .. n : g[i] = g[i - 1] \o ss[i]
    <3>1. ASSUME NEW i \in 1 .. n, i # n
          PROVE  f[i] = f[i - 1] \o ss[i] /\ g[i] = f[i] /\ g[i - 1] = f[i - 1]
      <4>1. i \in 1 .. n - 1 /\ i \in 0 .. n /\ i - 1 \in 0 .. n /\ i - 1 # n
        BY <2>1, <3>1
      <4>2. QED
        BY <2>3, <3>1, <4>1 DEF PutTogether
    <3>2. g[n] = f[n - 1] \o ss[n] /\ g[n - 1] = f[n - 1]
      <4>1. n \in 0 .. n /\ n - 1 \in 0 .. n /\ n - 1 # n
        BY <2>1
      <4>2. QED
        BY <4>1
    <3> HIDE DEF g
    <3>3. QED
      BY <3>1, <3>2
  <2> HIDE DEF g
  <2>9. PutTogether(ss, n, g, B)
    BY <2>6, <2>7, <2>8 DEF PutTogether
  <2>10. QED
    BY <1>3, <2>9 DEF Can
<1>6. QED
  BY <1>4, <1>5

LEMMA FlattenIsPutTogether ==
  ASSUME NEW B, NEW ss \in Seq(Seq(B)), NEW f, PutTogether(ss, Len(ss), f, B)
  PROVE  FlattenSeq(ss) = f[Len(ss)]
<1>1. Len(ss) \in Nat /\ \A i \in 1 .. Len(ss) : ss[i] \in Seq(B)
  BY LenProperties, ElementOfSeq
<1>2. CASE Len(ss) = 0
  <2>1. ss = <<>>
    BY <1>2, EmptySeq
  <2>2. QED
    BY <1>2, <2>1 DEF FlattenSeq, PutTogether
<1>3. CASE Len(ss) # 0
  <2> DEFINE Flattens(g) ==
               g = [i \in 1 .. Len(ss) |-> IF i = 1 THEN ss[i] ELSE g[i - 1] \o ss[i]]
             h == [i \in 1 .. Len(ss) |-> f[i]]
             g == CHOOSE g : Flattens(g)
  <2>1. FlattenSeq(ss) = g[Len(ss)]
    BY <1>3 DEF FlattenSeq
  <2>2. Flattens(h)
    <3>1. ASSUME NEW i \in 1 .. Len(ss)
          PROVE  h[i] = IF i = 1 THEN ss[i] ELSE h[i - 1] \o ss[i]
      <4>1. f[i] = f[i - 1] \o ss[i]
        BY DEF PutTogether
      <4>2. i = 1 => f[i] = ss[i]
        <5>1. <<>> \o ss[i] = ss[i]
          BY <1>1, ConcatEmptySeq
        <5>2. i = 1 => i - 1 = 0
          OBVIOUS
        <5>3. f[0] = <<>>
          BY DEF PutTogether
        <5>4. QED
          BY <4>1, <5>1, <5>2, <5>3
      <4>3. i # 1 => i - 1 \in 1 .. Len(ss)
        BY <1>1
      <4>4. h[i] = f[i] /\ (i # 1 => h[i - 1] = f[i - 1])
        BY <4>3
      <4> HIDE DEF h
      <4>5. QED
        BY <4>1, <4>2, <4>4
    <3>2. QED
      BY <3>1
  <2>3. Flattens(g)
    BY <2>2
  <2> HIDE DEF g
  <2>4. \A i \in 1 .. Len(ss) : g[i] = IF i = 1 THEN ss[i] ELSE g[i - 1] \o ss[i]
    BY <2>3
  <2> DEFINE Bad == {i \in 1 .. Len(ss) : g[i] # h[i]}
  <2>5. Bad = {}
    <3>1. SUFFICES ASSUME Bad # {}
                   PROVE  FALSE
      OBVIOUS
    <3>2. PICK i \in Bad : \A j \in Bad : i <= j
      <4>1. Bad \subseteq Nat
        OBVIOUS
      <4>2. QED
        BY <3>1, <4>1, SmallestOf
    <3>3. h[i] = IF i = 1 THEN ss[i] ELSE h[i - 1] \o ss[i]
      BY <2>2
    <3>4. i # 1 => g[i - 1] = h[i - 1]
      BY <1>1, <3>2
    <3>5. QED
      BY <2>4, <3>2, <3>3, <3>4
  <2>6. Len(ss) \in 1 .. Len(ss)
    BY <1>1, <1>3
  <2>7. g[Len(ss)] = h[Len(ss)] /\ h[Len(ss)] = f[Len(ss)]
    BY <2>5, <2>6
  <2>8. QED
    BY <2>1, <2>7
<1>4. QED
  BY <1>2, <1>3

(* Moving the first k from one sequence to the end of another.             *)
LEMMA MovingTheFirst ==
  ASSUME NEW S, NEW from \in Seq(S), NEW to \in Seq(S), NEW k \in 0 .. Len(from)
  PROVE  /\ to \o SubSeq(from, 1, k) \in Seq(S)
         /\ k = 0 => /\ to \o SubSeq(from, 1, k) = to
                     /\ SubSeq(from, k + 1, Len(from)) = from
         /\ k = Len(from) => SubSeq(from, k + 1, Len(from)) = <<>>
<1>1. Len(from) \in Nat /\ k \in Nat
  BY LenProperties
<1>2. SubSeq(from, 1, k) \in Seq(S)
  <2>1. \A i \in 1 .. k : from[i] \in S
    BY <1>1, ElementOfSeq
  <2>2. QED
    BY <1>1, <2>1, SubSeqProperties
<1>3. to \o SubSeq(from, 1, k) \in Seq(S)
  BY <1>2, ConcatProperties
<1>4. ASSUME k = 0
      PROVE  /\ to \o SubSeq(from, 1, k) = to
             /\ SubSeq(from, k + 1, Len(from)) = from
  <2>1. SubSeq(from, 1, 0) = <<>>
    BY SubSeqEmpty
  <2>2. to \o <<>> = to
    BY ConcatEmptySeq
  <2>3. SubSeq(from, 1, Len(from)) = from
    BY SubSeqFull
  <2>4. QED
    BY <1>4, <2>1, <2>2, <2>3
<1>5. k = Len(from) => SubSeq(from, k + 1, Len(from)) = <<>>
  <2>1. Len(from) < Len(from) + 1 /\ Len(from) + 1 \in Int /\ Len(from) \in Int
    BY <1>1
  <2>2. SubSeq(from, Len(from) + 1, Len(from)) = <<>>
    BY <2>1, SubSeqEmpty
  <2>3. QED
    BY <2>2
<1>6. QED
  BY <1>3, <1>4, <1>5

(* What is left of two sequences put together, without the first k.        *)
LEMMA DropOfConcat ==
  ASSUME NEW S, NEW s \in Seq(S), NEW t \in Seq(S), NEW k \in 0 .. Len(s) + Len(t)
  PROVE  SubSeq(s \o t, k + 1, Len(s \o t))
           = IF k <= Len(s) THEN SubSeq(s, k + 1, Len(s)) \o t
                            ELSE SubSeq(t, k - Len(s) + 1, Len(t))
<1> DEFINE all == s \o t
           left == SubSeq(all, k + 1, Len(all))
<1>1. Len(s) \in Nat /\ Len(t) \in Nat
  BY LenProperties
<1>2. /\ all \in Seq(S) /\ Len(all) = Len(s) + Len(t)
      /\ \A i \in 1 .. Len(s) + Len(t) : all[i] = IF i <= Len(s) THEN s[i] ELSE t[i - Len(s)]
  BY ConcatProperties, Zenon
<1> HIDE DEF all
<1>3. /\ left \in Seq(S) /\ Len(left) = Len(all) - k
      /\ \A i \in 1 .. Len(all) - k : left[i] = all[k + i]
  <2>1. \A i \in k + 1 .. Len(all) : all[i] \in S
    BY <1>1, <1>2, ElementOfSeq
  <2>2. k + 1 \in Int /\ Len(all) \in Int
    BY <1>1, <1>2
  <2>3. /\ left \in Seq(S)
        /\ Len(left) = IF k + 1 <= Len(all) THEN Len(all) - (k + 1) + 1 ELSE 0
        /\ \A i \in 1 .. Len(all) - (k + 1) + 1 : left[i] = all[k + 1 + i - 1]
    BY <2>1, <2>2, SubSeqProperties
  <2> HIDE DEF left
  <2>4. Len(left) = Len(all) - k
    BY <1>1, <1>2, <2>3
  <2>5. ASSUME NEW i \in 1 .. Len(all) - k
        PROVE  left[i] = all[k + i]
    <3>1. i \in 1 .. Len(all) - (k + 1) + 1 /\ k + 1 + i - 1 = k + i
      BY <1>1, <1>2
    <3>2. QED
      BY <2>3, <3>1
  <2>6. QED
    BY <2>3, <2>4, <2>5
<1> HIDE DEF left
<1>4. CASE k <= Len(s)
  <2> DEFINE rest == SubSeq(s, k + 1, Len(s))
             r == rest \o t
  <2>1. /\ rest \in Seq(S) /\ Len(rest) = Len(s) - k
        /\ \A i \in 1 .. Len(s) - k : rest[i] = s[k + i]
    <3>1. \A i \in k + 1 .. Len(s) : s[i] \in S
      BY <1>1, ElementOfSeq
    <3>2. /\ rest \in Seq(S)
          /\ Len(rest) = IF k + 1 <= Len(s) THEN Len(s) - (k + 1) + 1 ELSE 0
          /\ \A i \in 1 .. Len(s) - (k + 1) + 1 : rest[i] = s[k + 1 + i - 1]
      BY <1>1, <3>1, SubSeqProperties
    <3> HIDE DEF rest
    <3>3. QED
      BY <1>1, <1>4, <3>2
  <2> HIDE DEF rest
  <2>2. /\ r \in Seq(S) /\ Len(r) = Len(rest) + Len(t)
        /\ \A i \in 1 .. Len(rest) + Len(t) :
             r[i] = IF i <= Len(rest) THEN rest[i] ELSE t[i - Len(rest)]
    BY <2>1, ConcatProperties, Zenon
  <2> HIDE DEF r
  <2>3. Len(left) = Len(r)
    BY <1>1, <1>2, <1>3, <2>1, <2>2
  <2>4. ASSUME NEW i \in 1 .. Len(left)
        PROVE  left[i] = r[i]
    <3>1. left[i] = all[k + i] /\ k + i \in 1 .. Len(s) + Len(t)
      BY <1>1, <1>2, <1>3
    <3>2. CASE i <= Len(s) - k
      <4>1. k + i <= Len(s) /\ i \in 1 .. Len(s) - k /\ i \in 1 .. Len(rest) + Len(t)
        BY <1>1, <1>4, <2>1, <3>2
      <4>2. all[k + i] = s[k + i]
        BY <1>2, <3>1, <4>1
      <4>3. r[i] = rest[i] /\ rest[i] = s[k + i]
        <5>1. i <= Len(rest)
          BY <2>1, <3>2
        <5>2. QED
          BY <2>1, <2>2, <4>1, <5>1
      <4>4. QED
        BY <3>1, <4>2, <4>3
    <3>3. CASE ~(i <= Len(s) - k)
      <4>1. /\ ~(k + i <= Len(s)) /\ ~(i <= Len(rest)) /\ i \in 1 .. Len(rest) + Len(t)
            /\ k + i - Len(s) = i - Len(rest)
        BY <1>1, <1>2, <1>3, <1>4, <2>1, <3>3
      <4>2. all[k + i] = t[k + i - Len(s)]
        BY <1>2, <3>1, <4>1
      <4>3. r[i] = t[i - Len(rest)]
        BY <2>2, <4>1
      <4>4. QED
        BY <3>1, <4>1, <4>2, <4>3
    <3>4. QED
      BY <3>2, <3>3
  <2>5. left = r
    BY <1>3, <2>2, <2>3, <2>4, SeqEqual
  <2>6. QED
    BY <1>4, <2>5 DEF left, r, rest, all
<1>5. CASE ~(k <= Len(s))
  <2> DEFINE j == k - Len(s)
             r == SubSeq(t, j + 1, Len(t))
  <2>1. j \in Nat /\ j <= Len(t)
    BY <1>1, <1>5
  <2>2. /\ r \in Seq(S) /\ Len(r) = Len(t) - j
        /\ \A i \in 1 .. Len(t) - j : r[i] = t[j + i]
    <3> HIDE DEF j
    <3>1. \A i \in j + 1 .. Len(t) : t[i] \in S
      BY <1>1, <2>1, ElementOfSeq
    <3>2. /\ r \in Seq(S)
          /\ Len(r) = IF j + 1 <= Len(t) THEN Len(t) - (j + 1) + 1 ELSE 0
          /\ \A i \in 1 .. Len(t) - (j + 1) + 1 : r[i] = t[j + 1 + i - 1]
      BY <1>1, <2>1, <3>1, SubSeqProperties
    <3> HIDE DEF r
    <3>3. QED
      BY <1>1, <2>1, <3>2
  <2> HIDE DEF r
  <2>3. Len(left) = Len(r)
    BY <1>1, <1>2, <1>3, <2>1, <2>2
  <2>4. ASSUME NEW i \in 1 .. Len(left)
        PROVE  left[i] = r[i]
    <3>1. left[i] = all[k + i] /\ k + i \in 1 .. Len(s) + Len(t) /\ ~(k + i <= Len(s))
      BY <1>1, <1>2, <1>3, <1>5
    <3>2. i \in 1 .. Len(t) - j /\ k + i - Len(s) = j + i
      BY <1>1, <1>2, <1>3, <2>1
    <3>3. all[k + i] = t[k + i - Len(s)]
      BY <1>2, <3>1
    <3>4. r[i] = t[j + i]
      BY <2>2, <3>2
    <3>5. QED
      BY <3>1, <3>2, <3>3, <3>4
  <2>5. left = r
    BY <1>3, <2>2, <2>3, <2>4, SeqEqual
  <2>6. QED
    BY <1>5, <2>5 DEF left, r, all
<1>6. QED
  BY <1>4, <1>5

-----------------------------------------------------------------------------
(* The pool. What its operations do to one that holds just the connections *)
(* that are open. Listener and Connector rest on it.                       *)

(* The pool holds the connections open, each in its group, and its         *)
(* assertions have held.                                                   *)
Houses(p, open, group, G) ==
  /\ \A g \in G : p.members[g] = {c \in open : group[c] = g}
  /\ \A g \in G : p.members[g] # {} => g \in p.groups
  /\ p.connectionsNumber = Cardinality(open)
  /\ p.asserted = FALSE

LEMMA PoolFields ==
  ASSUME NEW C, NEW G, NEW p \in PoolType(C, G)
  PROVE  /\ p.groups \subseteq G /\ p.members \in [G -> SUBSET C]
         /\ p.connectionsNumber \in Nat
         /\ p.asserted \in BOOLEAN /\ p.selectFailed \in BOOLEAN
BY DEF PoolType

LEMMA EmptyPoolHouses ==
  ASSUME NEW C, NEW G, NEW group
  PROVE  /\ EmptyPool(G) \in PoolType(C, G)
         /\ Houses(EmptyPool(G), {}, group, G)
         /\ EmptyPool(G).groups = {} /\ EmptyPool(G).selectFailed = FALSE
BY FS_EmptySet DEF EmptyPool, PoolType, Houses

LEMMA HousedAreInPool ==
  ASSUME NEW C, NEW G, NEW p \in PoolType(C, G), NEW open, NEW group,
         \A c \in open : group[c] \in G, Houses(p, open, group, G)
  PROVE  /\ InPool(p) = open
         /\ \A g \in G : \A c \in p.members[g] : c \in open /\ group[c] = g
<1>1. p.groups \subseteq G
  BY PoolFields
<1>2. \A g \in G : \A c : c \in p.members[g] <=> c \in open /\ group[c] = g
  BY DEF Houses
<1>3. \A c : c \in InPool(p) <=> \E g \in p.groups : c \in p.members[g]
  BY DEF InPool
<1>4. \A c \in open : group[c] \in p.groups /\ c \in p.members[group[c]]
  BY <1>2 DEF Houses
<1>5. InPool(p) = open
  BY <1>1, <1>2, <1>3, <1>4
<1>6. QED
  BY <1>2, <1>5

(* The groups of connections that are not open do not matter.              *)
LEMMA HousesFor ==
  ASSUME NEW p, NEW G, NEW open, NEW group, NEW after,
         \A d \in open : after[d] = group[d],
         Houses(p, open, group, G)
  PROVE  Houses(p, open, after, G)
BY DEF Houses

(* A connection is added to its group.                                     *)
LEMMA AddHouses ==
  ASSUME NEW C, NEW G, NEW p \in PoolType(C, G), NEW open \in SUBSET C, IsFiniteSet(open),
         NEW group, NEW c \in C \ open, group[c] \in G,
         Houses(p, open, group, G)
  PROVE  LET q == AddTcpConnection(p, c, group[c])
         IN  /\ q \in PoolType(C, G)
             /\ Houses(q, open \cup {c}, group, G)
             /\ q.groups = p.groups \cup {group[c]}
             /\ q.selectFailed = p.selectFailed
<1> DEFINE g == group[c]
           q == AddTcpConnection(p, c, g)
<1>1. /\ p.groups \subseteq G /\ p.members \in [G -> SUBSET C]
      /\ p.connectionsNumber \in Nat /\ p.asserted = FALSE /\ g \in G
  BY PoolFields DEF Houses
<1> HIDE DEF g
<1>2. c \notin p.members[g]
  BY <1>1 DEF Houses
<1>3. /\ q.groups = p.groups \cup {g}
      /\ q.members = [p.members EXCEPT ![g] = @ \cup {c}]
      /\ q.connectionsNumber = p.connectionsNumber + 1
      /\ q.selectFailed = p.selectFailed
  BY <1>1 DEF AddTcpConnection, PoolType
<1>4. q.asserted = FALSE
  <2>1. q.asserted = (p.asserted \/ c \in p.members[g])
    BY Zenon DEF AddTcpConnection, PoolType
  <2>2. QED
    BY <1>1, <1>2, <2>1, Zenon
<1>5. q \in PoolType(C, G)
  <2> DEFINE b == p.asserted \/ c \in p.members[g]
  <2>1. q = [p EXCEPT !.groups = @ \cup {g}, !.members[g] = @ \cup {c},
                      !.connectionsNumber = @ + 1, !.asserted = b]
    BY DEF AddTcpConnection
  <2>2. b \in BOOLEAN
    BY Zenon
  <2> HIDE DEF b, q
  <2>3. [p.members EXCEPT ![g] = @ \cup {c}] \in [G -> SUBSET C]
    BY <1>1
  <2>4. p.groups \cup {g} \in SUBSET G /\ p.connectionsNumber + 1 \in Nat
    BY <1>1
  <2>5. QED
    BY <2>1, <2>2, <2>3, <2>4 DEF PoolType
<1>6. Cardinality(open \cup {c}) = Cardinality(open) + 1
  BY FS_AddElement
<1> HIDE DEF q
<1>7. Houses(q, open \cup {c}, group, G)
  <2>1. ASSUME NEW h \in G
        PROVE  q.members[h] = {d \in open \cup {c} : group[d] = h}
    <3>1. p.members[h] = {d \in open : group[d] = h}
      BY DEF Houses
    <3>2. q.members[h] = (IF h = g THEN p.members[h] \cup {c} ELSE p.members[h])
      BY <1>1, <1>3
    <3>3. group[c] = g
      BY DEF g
    <3>4. QED
      BY <3>1, <3>2, <3>3
  <2>2. ASSUME NEW h \in G, q.members[h] # {}
        PROVE  h \in q.groups
    <3>1. h # g => p.members[h] # {}
      BY <1>1, <1>3, <2>2
    <3>2. QED
      BY <1>3, <3>1 DEF Houses
  <2>3. q.connectionsNumber = Cardinality(open \cup {c})
    BY <1>3, <1>6 DEF Houses
  <2>4. QED
    BY <1>4, <2>1, <2>2, <2>3 DEF Houses
<1>8. QED
  BY <1>3, <1>5, <1>7 DEF q, g

(* A connection is removed from the group it is in.                        *)
LEMMA RemoveHouses ==
  ASSUME NEW C, NEW G, NEW p \in PoolType(C, G), NEW open \in SUBSET C, IsFiniteSet(open),
         NEW group, NEW c \in open, group[c] \in G,
         Houses(p, open, group, G)
  PROVE  LET q == RemoveTcpConnection(p, c, group[c])
         IN  /\ q \in PoolType(C, G)
             /\ Houses(q, open \ {c}, group, G)
             /\ q.groups = p.groups
             /\ q.selectFailed = p.selectFailed
<1> DEFINE g == group[c]
           q == RemoveTcpConnection(p, c, g)
<1>1. /\ p.groups \subseteq G /\ p.members \in [G -> SUBSET C]
      /\ p.connectionsNumber \in Nat /\ p.asserted = FALSE /\ g \in G
  BY PoolFields DEF Houses
<1>2. c \in p.members[g] /\ g \in p.groups
  BY <1>1 DEF Houses
<1> HIDE DEF g
<1>3. /\ q.groups = p.groups
      /\ q.members = [p.members EXCEPT ![g] = @ \ {c}]
      /\ q.connectionsNumber = p.connectionsNumber - 1
      /\ q.selectFailed = p.selectFailed
  BY <1>1 DEF RemoveTcpConnection, PoolType
<1>4. q.asserted = FALSE
  <2>1. q.asserted = (p.asserted \/ g \notin p.groups \/ c \notin p.members[g])
    BY Zenon DEF RemoveTcpConnection, PoolType
  <2>2. QED
    BY <1>1, <1>2, <2>1, Zenon
<1>5. /\ Cardinality(open \ {c}) = Cardinality(open) - 1
      /\ Cardinality(open \ {c}) \in Nat
  BY FS_RemoveElement, FS_CardinalityType
<1>6. q \in PoolType(C, G)
  <2> DEFINE b == p.asserted \/ g \notin p.groups \/ c \notin p.members[g]
  <2>1. q = [p EXCEPT !.members[g] = @ \ {c},
                      !.connectionsNumber = @ - 1,
                      !.asserted = b]
    BY DEF RemoveTcpConnection
  <2>2. b \in BOOLEAN
    BY Zenon
  <2> HIDE DEF b, q
  <2>3. p.connectionsNumber - 1 \in Nat
    BY <1>5 DEF Houses
  <2>4. [p.members EXCEPT ![g] = @ \ {c}] \in [G -> SUBSET C]
    BY <1>1
  <2>5. QED
    BY <2>1, <2>2, <2>3, <2>4 DEF PoolType
<1> HIDE DEF q
<1>7. Houses(q, open \ {c}, group, G)
  <2>1. ASSUME NEW h \in G
        PROVE  q.members[h] = {d \in open \ {c} : group[d] = h}
    <3>1. p.members[h] = {d \in open : group[d] = h}
      BY DEF Houses
    <3>2. q.members[h] = (IF h = g THEN p.members[h] \ {c} ELSE p.members[h])
      BY <1>1, <1>3
    <3>3. group[c] = g
      BY DEF g
    <3>4. QED
      BY <3>1, <3>2, <3>3
  <2>2. ASSUME NEW h \in G, q.members[h] # {}
        PROVE  h \in q.groups
    <3>1. p.members[h] # {}
      BY <1>1, <1>3, <2>2
    <3>2. QED
      BY <1>3, <3>1 DEF Houses
  <2>3. q.connectionsNumber = Cardinality(open \ {c})
    BY <1>3, <1>5 DEF Houses
  <2>4. QED
    BY <1>4, <2>1, <2>2, <2>3 DEF Houses
<1>8. QED
  BY <1>3, <1>6, <1>7 DEF q, g

-----------------------------------------------------------------------------
(* Buffers                                                                 *)

(* A buffer that no Append has overflowed, with bytes of B. resize() at    *)
(* least doubles a vector and never shrinks it: the capacity is between    *)
(* the size and twice the size.                                            *)
BufferSound(b, B) ==
  /\ b \in [size : Nat, capacity : Nat, availStart : Nat, data : Seq(B)]
  /\ AvailEnd(b) <= b.capacity
  /\ b.size <= b.capacity /\ b.capacity <= 2 * b.size

LEMMA BufferFields ==
  ASSUME NEW B, NEW b, BufferSound(b, B)
  PROVE  /\ b.size \in Nat /\ b.capacity \in Nat /\ b.availStart \in Nat /\ b.data \in Seq(B)
         /\ Len(b.data) \in Nat
         /\ AvailEnd(b) = b.availStart + Len(b.data) /\ AvailEnd(b) \in Nat
         /\ AppendableSize(b) = b.capacity - AvailEnd(b) /\ AppendableSize(b) \in Nat
         /\ b.size <= b.capacity /\ b.capacity <= 2 * b.size
         /\ b = [size |-> b.size, capacity |-> b.capacity, availStart |-> b.availStart,
                 data |-> b.data]
<1>1. /\ b.size \in Nat /\ b.capacity \in Nat /\ b.availStart \in Nat /\ b.data \in Seq(B)
      /\ b = [size |-> b.size, capacity |-> b.capacity, availStart |-> b.availStart,
              data |-> b.data]
      /\ AvailEnd(b) <= b.capacity
      /\ b.size <= b.capacity /\ b.capacity <= 2 * b.size
  BY DEF BufferSound
<1>2. Len(b.data) \in Nat
  BY <1>1, LenProperties
<1>3. QED
  BY <1>1, <1>2 DEF AvailEnd, AppendableSize

LEMMA BufferUpdated ==
  ASSUME NEW B, NEW b, BufferSound(b, B), NEW all, NEW first
  PROVE  /\ [b EXCEPT !.data = all]
              = [size |-> b.size, capacity |-> b.capacity, availStart |-> b.availStart,
                 data |-> all]
         /\ [b EXCEPT !.data = all, !.availStart = first]
              = [size |-> b.size, capacity |-> b.capacity, availStart |-> first, data |-> all]
<1>1. PICK s, c, start, old :
        b = [size |-> s, capacity |-> c, availStart |-> start, data |-> old]
  BY BufferFields
<1>2. b.size = s /\ b.capacity = c /\ b.availStart = start
  BY <1>1
<1>3. [b EXCEPT !.data = all] = [size |-> s, capacity |-> c, availStart |-> start, data |-> all]
  BY <1>1
<1>4. [b EXCEPT !.data = all, !.availStart = first]
        = [size |-> s, capacity |-> c, availStart |-> first, data |-> all]
  <2> DEFINE filled == [b EXCEPT !.data = all]
  <2>1. [b EXCEPT !.data = all, !.availStart = first] = [filled EXCEPT !.availStart = first]
    BY Zenon
  <2>2. filled = [size |-> s, capacity |-> c, availStart |-> start, data |-> all]
    BY <1>3
  <2> HIDE DEF filled
  <2>3. [filled EXCEPT !.availStart = first]
          = [size |-> s, capacity |-> c, availStart |-> first, data |-> all]
    BY <2>2
  <2>4. QED
    BY <2>1, <2>3
<1>5. QED
  BY <1>2, <1>3, <1>4

LEMMA NewIsSound ==
  ASSUME NEW B, NEW size \in Nat
  PROVE  BufferSound(New(size), B) /\ New(size).data = <<>>
BY DEF BufferSound, New, AvailEnd

(* Taking n bytes out leaves the rest, and the room there was or more.     *)
LEMMA ProcessedIsSound ==
  ASSUME NEW B, NEW b, BufferSound(b, B), NEW n \in 0 .. Len(b.data)
  PROVE  /\ BufferSound(MarkProcessed(b, n), B)
         /\ MarkProcessed(b, n).data = SubSeq(b.data, n + 1, Len(b.data))
         /\ AvailEnd(MarkProcessed(b, n)) <= AvailEnd(b)
<1>1. /\ b.size \in Nat /\ b.capacity \in Nat /\ b.availStart \in Nat /\ b.data \in Seq(B)
      /\ Len(b.data) \in Nat
      /\ b = [size |-> b.size, capacity |-> b.capacity, availStart |-> b.availStart,
              data |-> b.data]
      /\ b.availStart + Len(b.data) <= b.capacity
      /\ b.size <= b.capacity /\ b.capacity <= 2 * b.size
  BY BufferFields DEF BufferSound, AvailEnd
<1> DEFINE rest == SubSeq(b.data, n + 1, Len(b.data))
           start == IF n = Len(b.data) THEN 0 ELSE b.availStart + n
<1>2. rest \in Seq(B) /\ Len(rest) = Len(b.data) - n
  <2>1. rest \in Seq(B)
    BY <1>1, SubSeqProperties
  <2>2. CASE n = Len(b.data)
    BY <1>1, <2>2, SubSeqProperties
  <2>3. CASE n < Len(b.data)
    BY <1>1, <2>3, SubSeqProperties
  <2>4. QED
    BY <1>1, <2>1, <2>2, <2>3
<1>3. MarkProcessed(b, n)
        = [size |-> b.size, capacity |-> b.capacity, availStart |-> start, data |-> rest]
  <2>1. MarkProcessed(b, n) = [b EXCEPT !.data = rest, !.availStart = start]
    BY DEF MarkProcessed
  <2> HIDE DEF rest, start
  <2>2. QED
    BY <2>1, BufferUpdated
<1>4. start \in Nat /\ start + Len(rest) <= b.availStart + Len(b.data)
  BY <1>1, <1>2
<1> HIDE DEF rest, start
<1>5. MarkProcessed(b, n).data = rest
  BY <1>3
<1>6. /\ AvailEnd(MarkProcessed(b, n)) = start + Len(rest)
      /\ AvailEnd(b) = b.availStart + Len(b.data)
  BY <1>3 DEF AvailEnd
<1>7. BufferSound(MarkProcessed(b, n), B)
  BY <1>1, <1>2, <1>3, <1>4, <1>6 DEF BufferSound
<1>8. QED
  BY <1>4, <1>5, <1>6, <1>7 DEF rest

(* Appending what there is room for.                                       *)
LEMMA AppendedIsSound ==
  ASSUME NEW B, NEW b, BufferSound(b, B), NEW bytes \in Seq(B), Len(bytes) <= AppendableSize(b)
  PROVE  /\ BufferSound(MarkAppended(b, bytes), B)
         /\ MarkAppended(b, bytes).data = b.data \o bytes
         /\ AppendableSize(MarkAppended(b, bytes)) = AppendableSize(b) - Len(bytes)
<1>1. /\ b.size \in Nat /\ b.capacity \in Nat /\ b.availStart \in Nat /\ b.data \in Seq(B)
      /\ Len(b.data) \in Nat /\ Len(bytes) \in Nat
      /\ b = [size |-> b.size, capacity |-> b.capacity, availStart |-> b.availStart,
              data |-> b.data]
      /\ b.availStart + Len(b.data) + Len(bytes) <= b.capacity
      /\ b.size <= b.capacity /\ b.capacity <= 2 * b.size
  BY BufferFields, LenProperties
<1> DEFINE all == b.data \o bytes
<1>2. all \in Seq(B) /\ Len(all) = Len(b.data) + Len(bytes)
  BY <1>1, ConcatProperties
<1>3. MarkAppended(b, bytes)
        = [size |-> b.size, capacity |-> b.capacity, availStart |-> b.availStart, data |-> all]
  <2>1. MarkAppended(b, bytes) = [b EXCEPT !.data = all]
    BY DEF MarkAppended
  <2> HIDE DEF all
  <2>2. QED
    BY <2>1, BufferUpdated
<1> HIDE DEF all
<1>4. /\ AvailEnd(MarkAppended(b, bytes)) = b.availStart + Len(all)
      /\ AvailEnd(b) = b.availStart + Len(b.data)
  BY <1>3 DEF AvailEnd
<1>5. BufferSound(MarkAppended(b, bytes), B)
  BY <1>1, <1>2, <1>3, <1>4 DEF BufferSound
<1>6. AppendableSize(MarkAppended(b, bytes)) = AppendableSize(b) - Len(bytes)
  BY <1>1, <1>2, <1>3, <1>4 DEF AppendableSize
<1>7. MarkAppended(b, bytes).data = all
  BY <1>3
<1>8. QED
  BY <1>5, <1>6, <1>7 DEF all

(* resize() is called only when what was appended lies within size(), or   *)
(* when it makes too little room anyway: by a multiple of what is left, it *)
(* cannot make enough if more than half of the capacity is taken.          *)
LEMMA GrownIsSound ==
  ASSUME NEW B, NEW b, BufferSound(b, B), NEW n \in Nat, Fits(b, n)
  PROVE  /\ BufferSound(Grown(b, n), B)
         /\ Grown(b, n).data = b.data
         /\ n <= AppendableSize(Grown(b, n))
<1> DEFINE as == AppendableSize(b)
           s == (n \div as + 1) * as
           capacity == IF 2 * b.size > s THEN 2 * b.size ELSE s
<1>1. /\ b.size \in Nat /\ b.capacity \in Nat /\ b.availStart \in Nat /\ b.data \in Seq(B)
      /\ Len(b.data) \in Nat
      /\ AvailEnd(b) = b.availStart + Len(b.data) /\ AvailEnd(b) \in Nat
      /\ as = b.capacity - AvailEnd(b) /\ as \in Nat
      /\ b.size <= b.capacity /\ b.capacity <= 2 * b.size
  BY BufferFields
<1>2. n <= AppendableSize(Grown(b, n))
  BY DEF Fits
<1>3. CASE Grown(b, n) = b
  BY <1>2, <1>3
<1>4. CASE Grown(b, n) # b
  <2>1. n > as /\ as # 0 /\ Grown(b, n) = Expand(b, s)
    BY <1>4 DEF Grown
  <2>2. s > b.capacity /\ Grown(b, n) = Resize(b, s)
    BY <1>4, <2>1 DEF Expand
  <2>3. s \in Nat /\ n < s /\ s <= n + as
    BY <1>1, <2>1, NextMultiple
  <2> HIDE DEF s, as
  <2>4. capacity \in Nat /\ capacity >= s /\ capacity >= 2 * b.size
        /\ (capacity = s \/ capacity = 2 * b.size)
    <3>1. PICK twice \in Nat, least \in Nat : twice = 2 * b.size /\ least = s
      <4>1. PICK size \in Nat, least \in Nat : size = b.size /\ least = s
        BY <1>1, <2>3
      <4>2. 2 * size \in Nat
        OBVIOUS
      <4>3. QED
        BY <4>1, <4>2
    <3>2. capacity = IF twice > least THEN twice ELSE least
      BY <3>1
    <3> HIDE DEF capacity
    <3>3. /\ capacity \in Nat /\ capacity >= least /\ capacity >= twice
          /\ capacity = least \/ capacity = twice
      BY <3>2
    <3>4. QED
      BY <3>1, <3>3
  <2> HIDE DEF capacity
  <2>5. /\ Grown(b, n).size = s /\ Grown(b, n).capacity = capacity
        /\ Grown(b, n).availStart = b.availStart
        /\ Grown(b, n).data
             = [i \in DOMAIN b.data |-> IF b.availStart + i <= b.size THEN b.data[i] ELSE Lost]
    BY <2>2 DEF Resize, capacity
  <2>6. Len(Grown(b, n).data) = Len(b.data)
    BY <1>1, <2>5
  <2>7. n + AvailEnd(b) <= capacity
    <3>1. AppendableSize(Grown(b, n)) = capacity - AvailEnd(b)
      BY <2>5, <2>6 DEF AppendableSize, AvailEnd
    <3>2. QED
      BY <1>1, <1>2, <2>4, <3>1
  <2>8. AvailEnd(b) <= b.size
    <3>1. PICK most \in Nat, size \in Nat, end \in Nat, least \in Nat :
            most = b.capacity /\ size = b.size /\ end = AvailEnd(b) /\ least = s
      BY <1>1, <2>3
    <3>2. /\ as = most - end /\ most <= 2 * size /\ most < least /\ least <= n + (most - end)
          /\ n + end <= capacity /\ (capacity = least \/ capacity = 2 * size)
      BY <1>1, <2>2, <2>3, <2>4, <2>7, <3>1
    <3>3. end <= size
      <4>1. CASE capacity = least
        <5>1. n + end <= n + (most - end)
          BY <2>4, <3>2, <4>1
        <5>2. QED
          BY <3>2, <5>1
      <4>2. CASE capacity = 2 * size
        <5>1. n > end
          BY <3>2
        <5>2. QED
          BY <3>2, <4>2, <5>1
      <4>3. QED
        BY <3>2, <4>1, <4>2
    <3>4. QED
      BY <3>1, <3>3
  <2>9. Grown(b, n).data = b.data
    <3>1. \A i \in DOMAIN b.data : b.availStart + i <= b.size
      BY <1>1, <2>8
    <3>2. Grown(b, n).data = [i \in DOMAIN b.data |-> b.data[i]]
      BY <2>5, <3>1
    <3>3. b.data = [i \in DOMAIN b.data |-> b.data[i]]
      BY <1>1
    <3>4. QED
      BY <3>2, <3>3
  <2>10. Grown(b, n) \in [size : Nat, capacity : Nat, availStart : Nat, data : Seq(B)]
    <3>1. Grown(b, n) = [size |-> s, capacity |-> capacity, availStart |-> b.availStart,
                         data |-> Grown(b, n).data]
      BY <2>2, <2>5 DEF Resize, capacity
    <3>2. QED
      BY <1>1, <2>3, <2>4, <2>9, <3>1
  <2>11. AvailEnd(Grown(b, n)) = AvailEnd(b)
    BY <2>5, <2>9 DEF AvailEnd
  <2>12. /\ s <= capacity /\ capacity <= 2 * s
         /\ AvailEnd(b) <= capacity
    BY <1>1, <2>2, <2>3, <2>4, <2>7
  <2>13. QED
    BY <1>2, <2>5, <2>9, <2>10, <2>11, <2>12 DEF BufferSound
<1>5. QED
  BY <1>3, <1>4

(* An Append that finds room, or makes it, loses nothing: all that was     *)
(* there stays, the new bytes come after it (Buffer.cpp:115-175).          *)
THEOREM AppendLosesNothing ==
  ASSUME NEW B, NEW b, BufferSound(b, B), NEW bytes \in Seq(B), Fits(b, Len(bytes))
  PROVE  /\ BufferSound(AppendBytes(b, bytes), B)
         /\ AppendBytes(b, bytes).data = b.data \o bytes
<1>1. Len(bytes) \in Nat
  BY LenProperties
<1>2. /\ BufferSound(Grown(b, Len(bytes)), B)
      /\ Grown(b, Len(bytes)).data = b.data
      /\ Len(bytes) <= AppendableSize(Grown(b, Len(bytes)))
  BY <1>1, GrownIsSound
<1>3. QED
  BY <1>2, AppendedIsSound DEF AppendBytes

-----------------------------------------------------------------------------
(* Chains of buffers                                                       *)
SoundBuffers(B) ==
  {b \in [size : Nat, capacity : Nat, availStart : Nat, data : Seq(B)] : BufferSound(b, B)}

(* f[i] is what the first i buffers of the chain hold.                     *)
Gathers(chain, f, B) ==
  /\ f \in [0 .. Len(chain) -> Seq(B)]
  /\ f[0] = <<>>
  /\ \A i \in 1 .. Len(chain) : f[i] = f[i - 1] \o chain[i].data

LEMMA ChainFields ==
  ASSUME NEW B, NEW chain \in Seq(SoundBuffers(B))
  PROVE  /\ Len(chain) \in Nat /\ DOMAIN chain = 1 .. Len(chain)
         /\ \A i \in 1 .. Len(chain) :
              /\ BufferSound(chain[i], B) /\ chain[i].data \in Seq(B)
              /\ Len(chain[i].data) \in Nat
<1>1. Len(chain) \in Nat /\ DOMAIN chain = 1 .. Len(chain)
  BY LenProperties
<1>2. \A i \in 1 .. Len(chain) : chain[i] \in SoundBuffers(B)
  BY ElementOfSeq
<1>3. ASSUME NEW i \in 1 .. Len(chain)
      PROVE  /\ BufferSound(chain[i], B) /\ chain[i].data \in Seq(B)
             /\ Len(chain[i].data) \in Nat
  BY <1>2, BufferFields DEF SoundBuffers
<1>4. QED
  BY <1>1, <1>3

LEMMA ContentIsGathered ==
  ASSUME NEW B, NEW chain \in Seq(SoundBuffers(B))
  PROVE  /\ \E f : Gathers(chain, f, B)
         /\ \A f : Gathers(chain, f, B) => Content(chain) = f[Len(chain)]
<1> DEFINE datas == [i \in 1 .. Len(chain) |-> chain[i].data]
<1>1. /\ Len(chain) \in Nat /\ DOMAIN chain = 1 .. Len(chain)
      /\ \A i \in 1 .. Len(chain) : chain[i].data \in Seq(B)
  BY ChainFields
<1>2. datas \in Seq(Seq(B)) /\ Len(datas) = Len(chain)
  BY <1>1
<1>3. \A f : Gathers(chain, f, B) <=> PutTogether(datas, Len(datas), f, B)
  BY <1>2 DEF Gathers, PutTogether
<1>4. Content(chain) = FlattenSeq(datas)
  BY <1>1 DEF Content
<1> HIDE DEF datas
<1>5. \E f : Gathers(chain, f, B)
  BY <1>2, <1>3, CanPutTogether
<1>6. ASSUME NEW f, Gathers(chain, f, B)
      PROVE  Content(chain) = f[Len(chain)]
  <2>1. PutTogether(datas, Len(datas), f, B)
    BY <1>3, <1>6
  <2>2. FlattenSeq(datas) = f[Len(datas)]
    BY <1>2, <2>1, FlattenIsPutTogether
  <2>3. QED
    BY <1>2, <1>4, <2>2
<1>7. QED
  BY <1>5, <1>6

LEMMA ContentType ==
  ASSUME NEW B, NEW chain \in Seq(SoundBuffers(B))
  PROVE  Content(chain) \in Seq(B) /\ Len(Content(chain)) \in Nat
<1>1. PICK f : Gathers(chain, f, B)
  BY ContentIsGathered
<1>2. Len(chain) \in 0 .. Len(chain)
  BY ChainFields
<1>3. Content(chain) = f[Len(chain)] /\ f[Len(chain)] \in Seq(B)
  BY <1>1, <1>2, ContentIsGathered DEF Gathers
<1>4. QED
  BY <1>3, LenProperties

LEMMA ContentBefore ==
  ASSUME NEW B, NEW chain \in Seq(SoundBuffers(B)), NEW f, Gathers(chain, f, B),
         NEW i \in 1 .. Len(chain)
  PROVE  Content(SubSeq(chain, 1, i - 1)) = f[i - 1]
<1> DEFINE first == SubSeq(chain, 1, i - 1)
           g == [j \in 0 .. i - 1 |-> f[j]]
<1>1. Len(chain) \in Nat /\ i \in Nat /\ i - 1 \in Nat /\ i - 1 < Len(chain)
  BY ChainFields
<1>2. /\ first \in Seq(SoundBuffers(B)) /\ Len(first) = i - 1
      /\ \A j \in 1 .. i - 1 : first[j] = chain[j]
  <2>1. \A j \in 1 .. i - 1 : chain[j] \in SoundBuffers(B)
    BY <1>1, ElementOfSeq
  <2>2. /\ first \in Seq(SoundBuffers(B))
        /\ Len(first) = IF 1 <= i - 1 THEN (i - 1) - 1 + 1 ELSE 0
        /\ \A j \in 1 .. (i - 1) - 1 + 1 : first[j] = chain[1 + j - 1]
    BY <1>1, <2>1, SubSeqProperties
  <2> HIDE DEF first
  <2>3. QED
    BY <1>1, <2>2
<1> HIDE DEF first
<1>3. Gathers(first, g, B)
  <2>1. g \in [0 .. Len(first) -> Seq(B)]
    <3>1. f \in [0 .. Len(chain) -> Seq(B)]
      BY DEF Gathers
    <3>2. \A j \in 0 .. i - 1 : j \in 0 .. Len(chain)
      BY <1>1
    <3>3. \A j \in 0 .. i - 1 : f[j] \in Seq(B)
      BY <3>1, <3>2
    <3>4. g \in [0 .. i - 1 -> Seq(B)]
      BY <3>3
    <3> HIDE DEF g
    <3>5. QED
      BY <1>2, <3>4
  <2>2. g[0] = <<>>
    BY <1>1 DEF Gathers
  <2>3. ASSUME NEW j \in 1 .. i - 1
        PROVE  g[j] = g[j - 1] \o first[j].data
    <3>1. j \in 1 .. Len(chain) /\ j \in 0 .. i - 1 /\ j - 1 \in 0 .. i - 1
      BY <1>1
    <3>2. f[j] = f[j - 1] \o chain[j].data
      BY <3>1 DEF Gathers
    <3>3. QED
      BY <1>2, <3>1, <3>2
  <2> HIDE DEF g
  <2>4. QED
    BY <1>2, <2>1, <2>2, <2>3 DEF Gathers
<1>4. Content(first) = g[i - 1]
  BY <1>2, <1>3, ContentIsGathered
<1>5. QED
  BY <1>1, <1>4 DEF first

(* The share of a buffer of the k bytes that are written.                  *)
LEMMA ShareIs ==
  ASSUME NEW B, NEW chain \in Seq(SoundBuffers(B)), NEW f, Gathers(chain, f, B),
         NEW i \in 1 .. Len(chain), NEW k \in Nat
  PROVE  /\ Len(f[i - 1]) \in Nat /\ Len(chain[i].data) \in Nat
         /\ Share(chain, i, k) \in 0 .. Len(chain[i].data)
         /\ Share(chain, i, k) = IF k <= Len(f[i - 1]) THEN 0
                                 ELSE IF k - Len(f[i - 1]) <= Len(chain[i].data)
                                   THEN k - Len(f[i - 1])
                                 ELSE Len(chain[i].data)
<1>1. i - 1 \in 0 .. Len(chain) /\ Len(chain[i].data) \in Nat
  BY ChainFields
<1>2. f[i - 1] \in Seq(B)
  BY <1>1 DEF Gathers
<1>3. PICK before \in Nat : before = Len(f[i - 1])
  BY <1>2, LenProperties
<1>4. PICK size \in Nat : size = Len(chain[i].data)
  BY <1>1
<1>5. Share(chain, i, k) = Max({0, Min({k - before, size})})
  BY <1>3, <1>4, ContentBefore DEF Share, AvailableSize
<1>6. Min({k - before, size}) = IF k - before <= size THEN k - before ELSE size
  BY LeastOfTwo
<1>7. PICK least \in Int : least = IF k - before <= size THEN k - before ELSE size
  <2>1. CASE k - before <= size
    <3>1. k - before \in Int
      OBVIOUS
    <3>2. QED
      BY <2>1, <3>1
  <2>2. CASE ~(k - before <= size)
    <3>1. size \in Int
      OBVIOUS
    <3>2. QED
      BY <2>2, <3>1
  <2>3. QED
    BY <2>1, <2>2
<1>8. 0 \in Int
  OBVIOUS
<1>9. Max({0, least}) = IF 0 <= least THEN least ELSE 0
  BY <1>8, LeastOfTwo
<1>10. Share(chain, i, k) = IF 0 <= least THEN least ELSE 0
  BY <1>5, <1>6, <1>7, <1>9
<1>11. /\ Share(chain, i, k) \in 0 .. size
       /\ Share(chain, i, k) = IF k <= before THEN 0
                               ELSE IF k - before <= size THEN k - before ELSE size
  BY <1>7, <1>10
<1>12. QED
  BY <1>3, <1>4, <1>11

(* What is written goes from the front of the content, wherever in the     *)
(* chain it ends, and nothing else does.                                   *)
THEOREM WriteTakesFromFront ==
  ASSUME NEW B, NEW chain \in Seq(SoundBuffers(B)), NEW k \in 0 .. Len(Content(chain))
  PROVE  /\ Write(chain, k) \in Seq(SoundBuffers(B))
         /\ Len(Write(chain, k)) = Len(chain)
         /\ Content(Write(chain, k)) = SubSeq(Content(chain), k + 1, Len(Content(chain)))
<1>1. PICK f : Gathers(chain, f, B)
  BY ContentIsGathered
<1>2. Content(chain) = f[Len(chain)]
  BY <1>1, ContentIsGathered
<1>3. k \in Nat
  BY ContentType
<1>4. /\ Len(chain) \in Nat /\ DOMAIN chain = 1 .. Len(chain)
      /\ \A i \in 1 .. Len(chain) :
           BufferSound(chain[i], B) /\ chain[i].data \in Seq(B) /\ Len(chain[i].data) \in Nat
  BY ChainFields
<1> DEFINE w == Write(chain, k)
           g == [i \in 0 .. Len(chain) |-> SubSeq(f[i], k + 1, Len(f[i]))]
<1>5. ASSUME NEW i \in 1 .. Len(chain)
      PROVE  /\ w[i] \in SoundBuffers(B)
             /\ w[i].data = SubSeq(chain[i].data, Share(chain, i, k) + 1, Len(chain[i].data))
  <2>1. w[i] = MarkProcessed(chain[i], Share(chain, i, k))
    BY <1>4 DEF Write
  <2>2. Share(chain, i, k) \in 0 .. Len(chain[i].data)
    BY <1>1, <1>3, ShareIs
  <2>3. /\ BufferSound(w[i], B)
        /\ w[i].data = SubSeq(chain[i].data, Share(chain, i, k) + 1, Len(chain[i].data))
    BY <1>4, <2>1, <2>2, ProcessedIsSound
  <2>4. QED
    BY <2>3 DEF SoundBuffers, BufferSound
<1>6. w \in Seq(SoundBuffers(B)) /\ Len(w) = Len(chain)
  <2>1. w = [i \in 1 .. Len(chain) |-> w[i]]
    BY <1>4 DEF Write
  <2> HIDE DEF w
  <2>2. QED
    BY <1>4, <1>5, <2>1
<1> HIDE DEF w
<1>7. Gathers(w, g, B)
  <2>1. ASSUME NEW i \in 0 .. Len(chain)
        PROVE  SubSeq(f[i], k + 1, Len(f[i])) \in Seq(B)
    <3>1. f[i] \in Seq(B) /\ Len(f[i]) \in Nat
      BY <1>1, LenProperties DEF Gathers
    <3>2. \A j \in k + 1 .. Len(f[i]) : f[i][j] \in B
      BY <1>3, <3>1, ElementOfSeq
    <3>3. QED
      BY <1>3, <3>1, <3>2, SubSeqProperties
  <2>2. g \in [0 .. Len(chain) -> Seq(B)]
    BY <2>1
  <2>3. g[0] = <<>>
    <3>1. f[0] = <<>> /\ Len(<<>>) = 0
      BY <1>1 DEF Gathers
    <3>2. SubSeq(<<>>, k + 1, 0) = <<>>
      BY <1>3, SubSeqEmpty
    <3>3. QED
      BY <1>4, <3>1, <3>2
  <2>4. ASSUME NEW i \in 1 .. Len(chain)
        PROVE  g[i] = g[i - 1] \o w[i].data
    <3>1. i \in 0 .. Len(chain) /\ i - 1 \in 0 .. Len(chain)
      BY <1>4
    <3>2. f[i] = f[i - 1] \o chain[i].data /\ f[i - 1] \in Seq(B) /\ chain[i].data \in Seq(B)
      BY <1>1, <1>4, <3>1 DEF Gathers
    <3>3. PICK s \in Seq(B), t \in Seq(B) : s = f[i - 1] /\ t = chain[i].data
      BY <3>2
    <3>4. /\ Len(s) \in Nat /\ Len(t) \in Nat
          /\ Len(s \o t) = Len(s) + Len(t) /\ s \o t \in Seq(B)
      BY ConcatProperties, LenProperties
    <3>5. Share(chain, i, k) = IF k <= Len(s) THEN 0
                               ELSE IF k - Len(s) <= Len(t) THEN k - Len(s) ELSE Len(t)
      BY <1>1, <1>3, <3>3, ShareIs
    <3>6. w[i].data = SubSeq(t, Share(chain, i, k) + 1, Len(t))
      BY <1>5, <3>3
    <3>7. /\ g[i] = SubSeq(s \o t, k + 1, Len(s \o t))
          /\ g[i - 1] = SubSeq(s, k + 1, Len(s))
      BY <3>1, <3>2, <3>3
    <3> HIDE DEF g
    <3>8. CASE k <= Len(s)
      <4>1. g[i] = g[i - 1] \o t
        <5>1. k \in 0 .. Len(s) + Len(t)
          BY <1>3, <3>4, <3>8
        <5>2. QED
          BY <3>7, <3>8, <5>1, DropOfConcat
      <4>2. w[i].data = t
        BY <3>5, <3>6, <3>8, SubSeqFull
      <4>3. QED
        BY <4>1, <4>2
    <3>9. CASE k > Len(s) /\ k <= Len(s) + Len(t)
      <4>1. ~(k <= Len(s)) /\ k - Len(s) <= Len(t) /\ k \in 0 .. Len(s) + Len(t)
        BY <1>3, <3>4, <3>9
      <4>2. g[i] = SubSeq(t, k - Len(s) + 1, Len(t))
        BY <3>7, <4>1, DropOfConcat
      <4>3. w[i].data = g[i]
        BY <3>5, <3>6, <4>1, <4>2
      <4>4. g[i - 1] = <<>>
        <5>1. Len(s) < k + 1
          BY <1>3, <3>4, <3>9
        <5>2. QED
          BY <1>3, <3>4, <3>7, <5>1, SubSeqEmpty
      <4>5. <<>> \o w[i].data = w[i].data
        <5>1. w[i].data \in Seq(B)
          BY <1>5 DEF SoundBuffers
        <5>2. QED
          BY <5>1, ConcatEmptySeq
      <4>6. QED
        BY <4>3, <4>4, <4>5
    <3>10. CASE k > Len(s) + Len(t)
      <4>1. g[i] = <<>> /\ g[i - 1] = <<>>
        <5>1. Len(s \o t) < k + 1 /\ Len(s) < k + 1
          BY <1>3, <3>4, <3>10
        <5>2. QED
          BY <1>3, <3>4, <3>7, <5>1, SubSeqEmpty
      <4>2. Share(chain, i, k) = Len(t)
        <5>1. ~(k <= Len(s)) /\ ~(k - Len(s) <= Len(t))
          BY <1>3, <3>4, <3>10
        <5>2. QED
          BY <3>5, <5>1
      <4>3. w[i].data = <<>>
        <5>1. Len(t) < Len(t) + 1
          BY <3>4
        <5>2. QED
          BY <3>4, <3>6, <4>2, <5>1, SubSeqEmpty
      <4>4. <<>> \o <<>> = <<>>
        BY EmptySeq, ConcatEmptySeq
      <4>5. QED
        BY <4>1, <4>3, <4>4
    <3>11. k <= Len(s) \/ (k > Len(s) /\ k <= Len(s) + Len(t)) \/ k > Len(s) + Len(t)
      BY <1>3, <3>4
    <3>12. QED
      BY <3>8, <3>9, <3>10, <3>11
  <2> HIDE DEF g
  <2>5. QED
    BY <1>6, <2>2, <2>3, <2>4 DEF Gathers
<1>8. Content(w) = g[Len(chain)]
  BY <1>6, <1>7, ContentIsGathered
<1>9. g[Len(chain)] = SubSeq(Content(chain), k + 1, Len(Content(chain)))
  BY <1>2, <1>4
<1>10. QED
  BY <1>6, <1>8, <1>9 DEF w

(* A chain without content has only empty buffers.                         *)
LEMMA NoContent ==
  ASSUME NEW B, NEW chain \in Seq(SoundBuffers(B)), Len(Content(chain)) = 0
  PROVE  \A i \in 1 .. Len(chain) : chain[i].data = <<>>
<1>1. PICK f : Gathers(chain, f, B)
  BY ContentIsGathered
<1>2. Len(f[Len(chain)]) = 0
  BY <1>1, ContentIsGathered
<1>3. /\ Len(chain) \in Nat
      /\ \A i \in 0 .. Len(chain) : Len(f[i]) \in Nat
      /\ \A i \in 1 .. Len(chain) :
           /\ chain[i].data \in Seq(B) /\ Len(chain[i].data) \in Nat
           /\ Len(f[i]) = Len(f[i - 1]) + Len(chain[i].data)
  <2>1. Len(chain) \in Nat /\ \A i \in 1 .. Len(chain) :
          chain[i].data \in Seq(B) /\ Len(chain[i].data) \in Nat
    BY ChainFields
  <2>2. \A i \in 0 .. Len(chain) : f[i] \in Seq(B) /\ Len(f[i]) \in Nat
    BY <1>1, LenProperties DEF Gathers
  <2>3. ASSUME NEW i \in 1 .. Len(chain)
        PROVE  Len(f[i]) = Len(f[i - 1]) + Len(chain[i].data)
    <3>1. f[i] = f[i - 1] \o chain[i].data
      BY <1>1 DEF Gathers
    <3>2. i - 1 \in 0 .. Len(chain)
      BY <2>1
    <3>3. f[i - 1] \in Seq(B) /\ chain[i].data \in Seq(B)
      BY <2>1, <2>2, <3>2
    <3>4. QED
      BY <3>1, <3>3, ConcatProperties
  <2>4. QED
    BY <2>1, <2>2, <2>3
<1> DEFINE Left == {n \in Nat : n <= Len(chain) /\ Len(f[Len(chain) - n]) # 0}
<1>4. Left = {}
  <2>1. SUFFICES ASSUME Left # {}
                 PROVE  FALSE
    OBVIOUS
  <2>2. PICK n \in Left : \A m \in Left : n <= m
    BY <2>1, SmallestOf
  <2>3. n \in Nat /\ n <= Len(chain) /\ Len(f[Len(chain) - n]) # 0
    BY <2>2
  <2>4. n # 0
    <3>1. Len(chain) - 0 = Len(chain)
      BY <1>3
    <3>2. QED
      BY <1>2, <2>3, <3>1
  <2>5. PICK m \in 1 .. Len(chain) : m = Len(chain) - (n - 1)
    <3>1. Len(chain) - (n - 1) \in 1 .. Len(chain)
      BY <1>3, <2>3, <2>4
    <3>2. QED
      BY <3>1
  <2>6. m - 1 = Len(chain) - n /\ m - 1 \in 0 .. Len(chain) /\ m \in 0 .. Len(chain)
    BY <1>3, <2>3, <2>5
  <2>7. Len(f[m]) = 0
    <3>1. n - 1 \in Nat /\ n - 1 <= Len(chain) /\ ~(n <= n - 1)
      BY <1>3, <2>3, <2>4
    <3>2. n - 1 \notin Left
      BY <2>2, <3>1
    <3>3. QED
      BY <2>5, <3>1, <3>2
  <2>8. /\ Len(f[m]) = Len(f[m - 1]) + Len(chain[m].data)
        /\ Len(f[m - 1]) \in Nat /\ Len(chain[m].data) \in Nat
    BY <1>3, <2>6
  <2>9. Len(f[m - 1]) = 0
    <3>1. PICK s \in Nat, t \in Nat : s = Len(f[m - 1]) /\ t = Len(chain[m].data)
      BY <2>8
    <3>2. s + t = 0
      BY <2>7, <2>8, <3>1
    <3>3. s = 0
      BY <3>2
    <3>4. QED
      BY <3>1, <3>3
  <2>10. QED
    BY <2>3, <2>6, <2>9
<1>5. ASSUME NEW i \in 1 .. Len(chain)
      PROVE  chain[i].data = <<>>
  <2>1. PICK n \in Nat : n <= Len(chain) /\ Len(chain) - n = i
    <3>1. Len(chain) - i \in Nat /\ Len(chain) - i <= Len(chain)
      BY <1>3
    <3>2. Len(chain) - (Len(chain) - i) = i
      BY <1>3
    <3>3. QED
      BY <3>1, <3>2
  <2>2. Len(f[i]) = 0
    BY <1>4, <2>1
  <2>3. /\ Len(f[i]) = Len(f[i - 1]) + Len(chain[i].data)
        /\ Len(f[i - 1]) \in Nat /\ Len(chain[i].data) \in Nat
    <3>1. i - 1 \in 0 .. Len(chain)
      BY <1>3
    <3>2. QED
      BY <1>3, <3>1
  <2>4. Len(chain[i].data) = 0
    <3>1. PICK s \in Nat, t \in Nat : s = Len(f[i - 1]) /\ t = Len(chain[i].data)
      BY <2>3
    <3>2. s + t = 0
      BY <2>2, <2>3, <3>1
    <3>3. t = 0
      BY <3>2
    <3>4. QED
      BY <3>1, <3>3
  <2>5. QED
    BY <1>3, <2>4, EmptySeq
<1>6. QED
  BY <1>5

(* A buffer gets more, and there is nothing behind it.                     *)
Replaces(more, chain, index, b) == more = [chain EXCEPT ![index] = b]

NothingBehind(chain, index) == \A i \in 1 .. Len(chain) : i > index => chain[i].data = <<>>

LEMMA ContentGrows ==
  ASSUME NEW B, NEW chain \in Seq(SoundBuffers(B)), NEW index \in 1 .. Len(chain),
         NothingBehind(chain, index), NEW bytes \in Seq(B),
         NEW b \in SoundBuffers(B), b.data = chain[index].data \o bytes,
         NEW more, Replaces(more, chain, index, b)
  PROVE  Content(more) = Content(chain) \o bytes
<1>1. PICK f : Gathers(chain, f, B)
  BY ContentIsGathered
<1>2. /\ Content(chain) = f[Len(chain)] /\ Len(chain) \in Nat
      /\ \A i \in 1 .. Len(chain) : chain[i].data \in Seq(B)
  BY <1>1, ContentIsGathered, ChainFields
<1>3. /\ more \in Seq(SoundBuffers(B)) /\ Len(more) = Len(chain)
      /\ \A i \in 1 .. Len(chain) : more[i] = IF i = index THEN b ELSE chain[i]
  BY ExceptSeq DEF Replaces
<1> DEFINE g == [i \in 0 .. Len(chain) |-> IF i < index THEN f[i] ELSE f[i] \o bytes]
<1>4. Gathers(more, g, B)
  <2>1. \A i \in 0 .. Len(chain) : f[i] \in Seq(B) /\ f[i] \o bytes \in Seq(B)
    BY <1>1, ConcatProperties DEF Gathers
  <2>2. g \in [0 .. Len(chain) -> Seq(B)]
    BY <2>1
  <2>3. g[0] = <<>>
    BY <1>1, <1>2 DEF Gathers
  <2>4. ASSUME NEW i \in 1 .. Len(chain)
        PROVE  g[i] = g[i - 1] \o more[i].data
    <3>1. i \in 0 .. Len(chain) /\ i - 1 \in 0 .. Len(chain)
      BY <1>2
    <3>2. f[i] = f[i - 1] \o chain[i].data
      BY <1>1 DEF Gathers
    <3>3. /\ g[i] = IF i < index THEN f[i] ELSE f[i] \o bytes
          /\ g[i - 1] = IF i - 1 < index THEN f[i - 1] ELSE f[i - 1] \o bytes
      BY <3>1
    <3> HIDE DEF g
    <3>4. CASE i < index
      <4>1. i - 1 < index /\ i # index
        BY <1>2, <3>4
      <4>2. QED
        BY <1>3, <3>2, <3>3, <3>4, <4>1
    <3>5. CASE i = index
      <4>1. i - 1 < index /\ ~(i < index)
        BY <3>5
      <4>2. (f[i - 1] \o chain[i].data) \o bytes = f[i - 1] \o (chain[i].data \o bytes)
        <5>1. PICK s \in Seq(B), t \in Seq(B) : s = f[i - 1] /\ t = chain[i].data
          BY <1>2, <2>1, <3>1
        <5>2. (s \o t) \o bytes = s \o (t \o bytes)
          OBVIOUS
        <5>3. QED
          BY <5>1, <5>2
      <4>3. more[i].data = chain[i].data \o bytes
        BY <1>3, <3>5
      <4>4. g[i] = f[i] \o bytes /\ g[i - 1] = f[i - 1]
        BY <3>3, <4>1
      <4>5. QED
        BY <3>2, <4>2, <4>3, <4>4
    <3>6. CASE i > index
      <4>1. ~(i - 1 < index) /\ ~(i < index) /\ i # index
        BY <3>6
      <4>2. chain[i].data = <<>> /\ more[i].data = <<>>
        BY <1>3, <3>6, <4>1 DEF NothingBehind
      <4>3. f[i - 1] \o <<>> = f[i - 1]
        BY <2>1, <3>1, ConcatEmptySeq
      <4>4. (f[i - 1] \o bytes) \o <<>> = f[i - 1] \o bytes
        BY <2>1, <3>1, ConcatEmptySeq
      <4>5. g[i] = f[i] \o bytes /\ g[i - 1] = f[i - 1] \o bytes /\ f[i] = f[i - 1]
        BY <3>2, <3>3, <4>1, <4>2, <4>3
      <4>6. QED
        BY <4>2, <4>4, <4>5
    <3>7. i < index \/ i = index \/ i > index
      BY <1>2
    <3>8. QED
      BY <3>4, <3>5, <3>6, <3>7
  <2> HIDE DEF g
  <2>5. QED
    BY <1>3, <2>2, <2>3, <2>4 DEF Gathers
<1>5. Content(more) = g[Len(chain)]
  BY <1>3, <1>4, ContentIsGathered
<1>6. g[Len(chain)] = f[Len(chain)] \o bytes
  <2>1. Len(chain) \in 0 .. Len(chain) /\ ~(Len(chain) < index)
    BY <1>2
  <2>2. QED
    BY <2>1
<1>7. QED
  BY <1>2, <1>3, <1>5, <1>6

(* An empty buffer more.                                                   *)
LEMMA ChainGrows ==
  ASSUME NEW B, NEW chain \in Seq(SoundBuffers(B)), NEW b \in SoundBuffers(B), b.data = <<>>
  PROVE  /\ Append(chain, b) \in Seq(SoundBuffers(B))
         /\ Len(Append(chain, b)) = Len(chain) + 1
         /\ Content(Append(chain, b)) = Content(chain)
<1> DEFINE n == Len(chain)
           more == Append(chain, b)
<1>1. PICK f : Gathers(chain, f, B)
  BY ContentIsGathered
<1>2. Content(chain) = f[n] /\ n \in Nat
  BY <1>1, ContentIsGathered, ChainFields
<1>3. /\ more \in Seq(SoundBuffers(B)) /\ Len(more) = n + 1
      /\ \A i \in 1 .. n : more[i] = chain[i]
      /\ more[n + 1] = b
  BY AppendProperties
<1> HIDE DEF more
<1> DEFINE g == [i \in 0 .. n + 1 |-> IF i = n + 1 THEN f[n] ELSE f[i]]
<1>4. Gathers(more, g, B)
  <2>1. \A i \in 0 .. n : f[i] \in Seq(B)
    BY <1>1 DEF Gathers
  <2>2. g \in [0 .. n + 1 -> Seq(B)]
    BY <1>2, <2>1
  <2>3. g[0] = <<>>
    BY <1>1, <1>2 DEF Gathers
  <2>4. ASSUME NEW i \in 1 .. n + 1
        PROVE  g[i] = g[i - 1] \o more[i].data
    <3>1. i \in 0 .. n + 1 /\ i - 1 \in 0 .. n + 1 /\ i - 1 # n + 1
      BY <1>2
    <3>2. g[i] = (IF i = n + 1 THEN f[n] ELSE f[i]) /\ g[i - 1] = f[i - 1]
      BY <3>1
    <3> HIDE DEF g
    <3>3. CASE i = n + 1
      <4>1. i - 1 = n /\ n \in 0 .. n
        BY <1>2, <3>3
      <4>2. f[n] \o <<>> = f[n]
        BY <2>1, <4>1, ConcatEmptySeq
      <4>3. QED
        BY <1>3, <3>2, <3>3, <4>1, <4>2
    <3>4. CASE i # n + 1
      <4>1. i \in 1 .. n
        BY <1>2, <3>4
      <4>2. f[i] = f[i - 1] \o chain[i].data
        BY <1>1, <4>1 DEF Gathers
      <4>3. QED
        BY <1>3, <3>2, <3>4, <4>1, <4>2
    <3>5. QED
      BY <3>3, <3>4
  <2> HIDE DEF g
  <2>5. QED
    BY <1>3, <2>2, <2>3, <2>4 DEF Gathers
<1>5. Content(more) = g[n + 1]
  BY <1>3, <1>4, ContentIsGathered
<1>6. g[n + 1] = f[n]
  BY <1>2
<1>7. QED
  BY <1>2, <1>3, <1>5, <1>6 DEF more

(* No buffer is in use behind one that has room.                           *)
FilledInOrder(chain) ==
  \A i, j \in 1 .. Len(chain) :
    i < j /\ chain[j].data # <<>> => AppendableSize(chain[i]) = 0

LEMMA OnlyFirstHasRoom ==
  ASSUME NEW B, NEW chain \in Seq(SoundBuffers(B)), FilledInOrder(chain),
         NEW usual \in Nat, NEW most \in Nat, Len(chain) \in 1 .. most,
         NEW got, got = GetWriteBuffer(chain, usual, most), got.index # 0
  PROVE  /\ got.chain \in Seq(SoundBuffers(B)) /\ Len(got.chain) \in 1 .. most
         /\ got.index \in 1 .. Len(got.chain)
         /\ Content(got.chain) = Content(chain)
         /\ \A i \in 1 .. Len(got.chain) :
              /\ i < got.index => AppendableSize(got.chain[i]) = 0
              /\ i > got.index => got.chain[i].data = <<>>
<1>1. /\ Len(chain) \in Nat /\ DOMAIN chain = 1 .. Len(chain)
      /\ \A i \in 1 .. Len(chain) : BufferSound(chain[i], B)
  BY ChainFields
<1>2. \A i \in 1 .. Len(chain) : AppendableSize(chain[i]) \in Nat
  BY <1>1, BufferFields
<1>3. WithRoom(chain) \subseteq 1 .. Len(chain)
  BY <1>1 DEF WithRoom
<1>4. CASE WithRoom(chain) # {}
  <2>1. got.chain = chain /\ got.index = Min(WithRoom(chain))
    BY <1>4 DEF GetWriteBuffer
  <2>2. /\ got.index \in WithRoom(chain)
        /\ \A i \in WithRoom(chain) : got.index <= i
    <3>1. WithRoom(chain) \subseteq Nat
      BY <1>3
    <3>2. QED
      BY <1>4, <2>1, <3>1, SmallestOf
  <2>3. got.index \in 1 .. Len(chain) /\ AppendableSize(chain[got.index]) > 0
    BY <1>3, <2>2 DEF WithRoom
  <2>4. ASSUME NEW i \in 1 .. Len(chain), i < got.index
        PROVE  AppendableSize(chain[i]) = 0
    <3>1. i \notin WithRoom(chain)
      BY <2>2, <2>3, <2>4
    <3>2. ~(AppendableSize(chain[i]) > 0)
      BY <1>1, <3>1 DEF WithRoom
    <3>3. QED
      BY <1>2, <3>2
  <2>5. ASSUME NEW i \in 1 .. Len(chain), i > got.index
        PROVE  chain[i].data = <<>>
    <3>1. AppendableSize(chain[got.index]) # 0
      BY <1>2, <2>3
    <3>2. got.index < i
      BY <2>3, <2>5
    <3>3. QED
      BY <2>3, <3>1, <3>2 DEF FilledInOrder
  <2>6. QED
    BY <2>1, <2>3, <2>4, <2>5
<1>5. CASE WithRoom(chain) = {}
  <2>1. /\ Len(chain) < most
        /\ got.chain = Append(chain, New(NewSize(chain, usual))) /\ got.index = Len(chain) + 1
    BY <1>5 DEF GetWriteBuffer
  <2>2. PICK b : b = New(NewSize(chain, usual))
    OBVIOUS
  <2>3. b \in SoundBuffers(B) /\ b.data = <<>>
    <3>1. \A i \in 1 .. Len(chain) : chain[i].capacity \in Nat
      BY <1>1, BufferFields
    <3>2. NewSize(chain, usual) \in Nat
      <4> DEFINE unusual == {i \in 1 .. Len(chain) : chain[i].capacity # usual}
      <4>1. NewSize(chain, usual) = IF unusual = {} THEN usual ELSE chain[Min(unusual)].capacity
        BY <1>1 DEF NewSize
      <4>2. unusual # {} => Min(unusual) \in unusual
        <5>1. unusual \subseteq Nat
          OBVIOUS
        <5>2. QED
          BY <5>1, SmallestOf
      <4>3. QED
        BY <3>1, <4>1, <4>2
    <3>3. BufferSound(b, B) /\ b.data = <<>>
      BY <2>2, <3>2, NewIsSound
    <3>4. QED
      BY <3>3 DEF SoundBuffers, BufferSound
  <2>4. /\ got.chain \in Seq(SoundBuffers(B)) /\ Len(got.chain) = Len(chain) + 1
        /\ Content(got.chain) = Content(chain)
    BY <2>1, <2>2, <2>3, ChainGrows
  <2>5. ASSUME NEW i \in 1 .. Len(got.chain), i < got.index
        PROVE  AppendableSize(got.chain[i]) = 0
    <3>1. i \in 1 .. Len(chain)
      BY <1>1, <2>1, <2>4, <2>5
    <3>2. got.chain[i] = chain[i]
      BY <2>1, <2>2, <2>3, <3>1, AppendProperties
    <3>3. ~(AppendableSize(chain[i]) > 0)
      BY <1>1, <1>5, <3>1 DEF WithRoom
    <3>4. QED
      BY <1>2, <3>1, <3>2, <3>3
  <2>6. ASSUME NEW i \in 1 .. Len(got.chain)
        PROVE  ~(i > got.index)
    BY <1>1, <2>1, <2>4
  <2>7. Len(got.chain) \in 1 .. most /\ got.index \in 1 .. Len(got.chain)
    BY <1>1, <2>1, <2>4
  <2>8. QED
    BY <2>4, <2>5, <2>6, <2>7
<1>6. QED
  BY <1>4, <1>5

Appends(next, got, bytes) == next = [got.chain EXCEPT ![got.index] = AppendBytes(@, bytes)]

(* What the user appends comes after all that waits to be written, in      *)
(* whichever buffer GetWriteBuffer finds room, as long as the buffers were *)
(* filled in order, and they still are (TcpConnection.cpp:104-127).        *)
THEOREM AppendGoesLast ==
  ASSUME NEW B, NEW chain \in Seq(SoundBuffers(B)), FilledInOrder(chain),
         NEW usual \in Nat, NEW most \in Nat, Len(chain) \in 1 .. most,
         NEW got, got = GetWriteBuffer(chain, usual, most), got.index # 0,
         NEW bytes \in Seq(B), Fits(got.chain[got.index], Len(bytes)),
         NEW next, Appends(next, got, bytes)
  PROVE  /\ next \in Seq(SoundBuffers(B)) /\ Len(next) \in 1 .. most
         /\ Content(next) = Content(chain) \o bytes
         /\ FilledInOrder(next)
<1>1. PICK index, room : index = got.index /\ room = got.chain
  OBVIOUS
<1>2. /\ room \in Seq(SoundBuffers(B)) /\ Len(room) \in 1 .. most
      /\ index \in 1 .. Len(room)
      /\ Content(room) = Content(chain)
      /\ \A i \in 1 .. Len(room) :
           /\ i < index => AppendableSize(room[i]) = 0
           /\ i > index => room[i].data = <<>>
  BY <1>1, OnlyFirstHasRoom
<1>3. PICK b : b = AppendBytes(room[index], bytes)
  OBVIOUS
<1>4. BufferSound(b, B) /\ b.data = room[index].data \o bytes
  <2>1. BufferSound(room[index], B)
    BY <1>2, ChainFields
  <2>2. Fits(room[index], Len(bytes))
    BY <1>1
  <2>3. QED
    BY <1>3, <2>1, <2>2, AppendLosesNothing
<1>5. b \in SoundBuffers(B)
  BY <1>4 DEF SoundBuffers, BufferSound
<1>6. next = [room EXCEPT ![index] = b]
  BY <1>1, <1>3 DEF Appends
<1>7. /\ next \in Seq(SoundBuffers(B)) /\ Len(next) = Len(room)
      /\ Content(next) = Content(room) \o bytes
  <2>1. NothingBehind(room, index)
    BY <1>2 DEF NothingBehind
  <2>2. room \in Seq(SoundBuffers(B)) /\ b.data = room[index].data \o bytes
    BY <1>2, <1>4
  <2>3. Replaces(next, room, index, b)
    BY <1>6 DEF Replaces
  <2>4. index \in 1 .. Len(room)
    BY <1>2
  <2>5. next \in Seq(SoundBuffers(B)) /\ Len(next) = Len(room)
    BY <1>5, <1>6, <2>2, <2>4, ExceptSeq
  <2>6. Content(next) = Content(room) \o bytes
    BY <1>5, <2>1, <2>2, <2>3, <2>4, ContentGrows
  <2>7. QED
    BY <2>5, <2>6
<1>8. FilledInOrder(next)
  <2>1. SUFFICES ASSUME NEW i \in 1 .. Len(room), NEW j \in 1 .. Len(room),
                        i < j, next[j].data # <<>>
                 PROVE  AppendableSize(next[i]) = 0
    BY <1>7 DEF FilledInOrder
  <2>2. Len(room) \in Nat /\ DOMAIN room = 1 .. Len(room)
    BY <1>2, ChainFields
  <2>3. \A m \in 1 .. Len(room) : m # index => next[m] = room[m]
    BY <1>6, <2>2
  <2>4. ~(j > index)
    <3>1. j > index => j # index
      BY <1>2
    <3>2. QED
      BY <1>2, <2>1, <2>3, <3>1
  <2>5. i < index /\ i # index
    BY <1>2, <2>1, <2>4
  <2>6. QED
    BY <1>2, <2>3, <2>5
<1>9. QED
  BY <1>2, <1>7, <1>8
=============================================================================
