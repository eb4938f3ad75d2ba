---------------------------- MODULE TablesProofs ----------------------------
(***************************************************************************)
(* Proofs about the builder and the programs that fill it: the builder     *)
(* stays one, a byte that was written stays as it is, no vtable is written *)
(* twice, and in a finished buffer whatever is read is aligned.            *)
(*                                                                         *)
(* The buffer is filled from its end, so a byte has its place from there   *)
(* (FromEnd).  That one builder Continues or Extends another says that the *)
(* other's bytes are still where they were; every operation is shown to do *)
(* one or the other, and what it adds.  Loops are folds or recursive       *)
(* functions, and NatInd is the induction for both.                        *)
(***************************************************************************)
EXTENDS Tables, SequenceTheorems, WellFoundedInduction, TLAPS

(***************************************************************************)
(* Induction, least and greatest elements.                                 *)
(***************************************************************************)
LEMMA NatInd ==
  ASSUME NEW S, 0 \in S, \A n \in Nat : n \in S => n + 1 \in S
  PROVE  Nat \subseteq S
<1> SUFFICES ASSUME Nat \ S # {} PROVE FALSE
  OBVIOUS
<1>1. IsWellFoundedOn({ss \in Nat \X Nat : ss[1] < ss[2]}, Nat)
  BY NatLessThanWellFounded DEF OpToRel
<1>2. PICK x \in Nat \ S : \A y \in Nat \ S : ~(<<y, x>> \in {ss \in Nat \X Nat : ss[1] < ss[2]})
  BY <1>1, WFMin
<1>3. x # 0 /\ x - 1 \in Nat /\ x - 1 < x
  OBVIOUS
<1>4. x - 1 \notin S
  BY <1>3
<1>5. <<x - 1, x>> \in {ss \in Nat \X Nat : ss[1] < ss[2]}
  BY <1>3
<1> QED BY <1>2, <1>3, <1>4, <1>5

LEMMA MinIs ==
  ASSUME NEW S, S \subseteq Nat, S # {}
  PROVE  Min(S) \in S /\ \A m \in S : Min(S) <= m
<1>1. IsWellFoundedOn({ss \in Nat \X Nat : ss[1] < ss[2]}, Nat)
  BY NatLessThanWellFounded DEF OpToRel
<1>2. PICK x \in S : \A y \in S : ~(<<y, x>> \in {ss \in Nat \X Nat : ss[1] < ss[2]})
  BY <1>1, WFMin
<1>3. ASSUME NEW y \in S PROVE x <= y
  <2>1. x \in Nat /\ y \in Nat
    OBVIOUS
  <2>2. ~(y < x)
    BY <1>2, <2>1
  <2> QED BY <2>1, <2>2
<1>4. \E n \in S : \A m \in S : n <= m
  BY <1>3
<1> QED BY <1>4 DEF Min

LEMMA MaxIs ==
  ASSUME NEW k \in Nat, NEW S, k + 1 \in S, S \subseteq 1 .. k + 1
  PROVE  Max(S) = k + 1
<1>1. \A x \in S : (\A y \in S : x >= y) <=> x = k + 1
  OBVIOUS
<1> QED BY <1>1 DEF Max

(***************************************************************************)
(* Bytes.                                                                  *)
(***************************************************************************)
Byte == 0 .. 255

Buffers == [bytes_ : Seq(Byte), position_ : Int]

LEMMA ZeroBytes ==
  ASSUME NEW n \in Nat
  PROVE  /\ [i \in 1 .. n |-> 0] \in Seq(Byte)
         /\ Len([i \in 1 .. n |-> 0]) = n
         /\ \A i \in 1 .. n : [j \in 1 .. n |-> 0][i] = 0
<1> QED BY IsASeq DEF Byte

LEMMA WriteBytesIs ==
  ASSUME NEW bb \in Buffers, NEW at \in Nat, NEW written \in Seq(Byte),
         at + Len(written) <= Len(bb.bytes_)
  PROVE  /\ BB!WriteBytes(bb, at, written) \in Buffers
         /\ Len(BB!WriteBytes(bb, at, written).bytes_) = Len(bb.bytes_)
         /\ BB!WriteBytes(bb, at, written).position_ = bb.position_
         /\ \A i \in 1 .. Len(bb.bytes_) :
              BB!WriteBytes(bb, at, written).bytes_[i] =
                IF i \in at + 1 .. at + Len(written) THEN written[i - at]
                ELSE bb.bytes_[i]
<1> DEFINE old == bb.bytes_
           n == Len(old)
           front == SubSeq(old, 1, at)
           back == SubSeq(old, at + Len(written) + 1, n)
           mid == front \o written
<1>1. old \in Seq(Byte) /\ n \in Nat /\ Len(written) \in Nat
  BY DEF Buffers
<1>2. /\ front \in Seq(Byte) /\ Len(front) = at
      /\ \A i \in 1 .. at : front[i] = old[i]
  BY <1>1, SubSeqProperties
<1>3. /\ back \in Seq(Byte) /\ Len(back) = n - at - Len(written)
      /\ \A i \in 1 .. Len(back) : back[i] = old[at + Len(written) + i]
  BY <1>1, SubSeqProperties
<1> HIDE DEF front, back
<1>4. /\ mid \in Seq(Byte) /\ Len(mid) = at + Len(written)
      /\ \A i \in 1 .. at + Len(written) :
           mid[i] = IF i <= at THEN front[i] ELSE written[i - at]
  BY <1>1, <1>2, ConcatProperties
<1> HIDE DEF mid
<1>5. /\ mid \o back \in Seq(Byte) /\ Len(mid \o back) = n
      /\ \A i \in 1 .. n :
           (mid \o back)[i] = IF i <= at + Len(written) THEN mid[i]
                              ELSE back[i - (at + Len(written))]
  <2>1. Len(mid) + Len(back) = n
    <3>1. Len(mid) = at + Len(written) /\ Len(back) = n - at - Len(written)
      BY <1>3, <1>4
    <3>2. n \in Nat /\ Len(written) \in Nat
      BY <1>1
    <3> HIDE DEF n
    <3> QED BY <3>1, <3>2
  <2>2. /\ mid \o back \in Seq(Byte) /\ Len(mid \o back) = Len(mid) + Len(back)
        /\ \A i \in 1 .. Len(mid) + Len(back) :
             (mid \o back)[i] = IF i <= Len(mid) THEN mid[i] ELSE back[i - Len(mid)]
    <3>1. mid \in Seq(Byte) /\ back \in Seq(Byte)
      BY <1>3, <1>4
    <3> QED BY <3>1, ConcatProperties
  <2> HIDE DEF n
  <2> QED BY <2>1, <2>2, <1>4
<1>6. \A i \in 1 .. n :
        (mid \o back)[i] = IF i \in at + 1 .. at + Len(written)
                           THEN written[i - at] ELSE old[i]
  <2> TAKE i \in 1 .. n
  <2>1. CASE i <= at
    BY <2>1, <1>1, <1>2, <1>4, <1>5
  <2>2. CASE i > at /\ i <= at + Len(written)
    BY <2>2, <1>1, <1>4, <1>5
  <2>3. CASE i > at + Len(written)
    <3>1. i - (at + Len(written)) \in 1 .. Len(back)
      BY <2>3, <1>1, <1>3
    <3> QED BY <2>3, <3>1, <1>1, <1>3, <1>5
  <2>4. i <= at \/ (i > at /\ i <= at + Len(written)) \/ i > at + Len(written)
    BY <1>1
  <2> HIDE DEF n
  <2> QED BY <2>1, <2>2, <2>3, <2>4
<1>7. BB!WriteBytes(bb, at, written) = [bb EXCEPT !.bytes_ = mid \o back]
  BY DEF BB!WriteBytes, mid, front, back
<1>8. /\ [bb EXCEPT !.bytes_ = mid \o back] \in Buffers
      /\ [bb EXCEPT !.bytes_ = mid \o back].bytes_ = mid \o back
      /\ [bb EXCEPT !.bytes_ = mid \o back].position_ = bb.position_
  BY <1>5 DEF Buffers
<1> QED BY <1>5, <1>6, <1>7, <1>8

LEMMA LowBytesAre ==
  ASSUME NEW value \in Int, NEW n \in {1, 2, 4}
  PROVE  BB!LowBytes(value, n) \in Seq(Byte) /\ Len(BB!LowBytes(value, n)) = n
<1>1. \A i \in 1 .. n : BB!Weight[i] \in {1, 256, 65536, 16777216}
  BY DEF BB!Weight
<1>2. ASSUME NEW i \in 1 .. n PROVE (value \div BB!Weight[i]) % 256 \in Byte
  <2>1. /\ value \div 1 \in Int /\ value \div 256 \in Int
        /\ value \div 65536 \in Int /\ value \div 16777216 \in Int
    OBVIOUS
  <2>2. value \div BB!Weight[i] \in Int
    BY <1>1, <2>1
  <2> QED BY <2>2 DEF Byte
<1> QED BY <1>2, IsASeq DEF BB!LowBytes

(***************************************************************************)
(* Builders.                                                               *)
(***************************************************************************)
VTables == UNION {[D -> Int] : D \in SUBSET Nat}

Builders ==
  [bb : Buffers, space : Nat, minalign : {1, 2, 4, 8}, vtable : VTables,
   vtable_in_use : Nat, isNested : BOOLEAN, object_start : Int,
   vtables : Seq(Nat), vector_num_elems : Int, force_defaults : BOOLEAN]

Size(w) == Len(w.bb.bytes_)

\* A record of the class, its free space within its buffer.
IsBuilder(w) ==
  /\ w \in Builders
  /\ Size(w) >= 1
  /\ w.space <= Size(w)

\* The byte at this place from the end of the buffer.
FromEnd(w, i) == w.bb.bytes_[Size(w) - i + 1]

\* Whatever was written is still there.
Extends(w, c) ==
  /\ offset(w) <= offset(c) /\ Size(w) <= Size(c) /\ w.minalign <= c.minalign
  /\ \A i \in 1 .. offset(w) : FromEnd(c, i) = FromEnd(w, i)

\* All but the buffer.
SameRest(w, c) ==
  /\ c.vtable = w.vtable
  /\ c.vtable_in_use = w.vtable_in_use
  /\ c.isNested = w.isNested
  /\ c.object_start = w.object_start
  /\ c.vtables = w.vtables
  /\ c.vector_num_elems = w.vector_num_elems
  /\ c.force_defaults = w.force_defaults

Continues(w, c) == IsBuilder(c) /\ Extends(w, c) /\ SameRest(w, c)

LEMMA OffsetIs ==
  ASSUME NEW w, IsBuilder(w)
  PROVE  /\ offset(w) \in Nat /\ offset(w) = Size(w) - w.space
         /\ w.space \in Nat /\ Size(w) \in Nat /\ BB!capacity(w.bb) = Size(w)
         /\ w.bb \in Buffers /\ w.bb.bytes_ \in Seq(Byte) /\ w.minalign \in Nat
<1> QED BY LenProperties DEF IsBuilder, Builders, Buffers, Size, offset, BB!capacity

LEMMA ContinuesTransitive ==
  ASSUME NEW w, NEW c, NEW d, IsBuilder(w), Continues(w, c), Continues(c, d)
  PROVE  Continues(w, d)
<1>1. /\ offset(w) \in Nat /\ offset(c) \in Nat /\ offset(d) \in Nat
      /\ Size(w) \in Nat /\ Size(c) \in Nat /\ Size(d) \in Nat
      /\ w.minalign \in Nat /\ c.minalign \in Nat /\ d.minalign \in Nat
  BY OffsetIs DEF Continues
<1>2. Extends(w, d)
  BY <1>1 DEF Continues, Extends
<1> QED BY <1>2 DEF Continues, SameRest

LEMMA ContinuesItself ==
  ASSUME NEW w, IsBuilder(w)
  PROVE  Continues(w, w)
<1> QED BY OffsetIs DEF Continues, Extends, SameRest

Replaced(w, bb, space) == [w EXCEPT !.bb = bb, !.space = space]

\* A builder whose buffer is replaced by one with more written bytes in front.
LEMMA Rewritten ==
  ASSUME NEW w, IsBuilder(w), NEW bb \in Buffers, NEW space \in Nat, NEW c,
         c = Replaced(w, bb, space),
         Len(bb.bytes_) >= Size(w), space <= Len(bb.bytes_) - offset(w),
         \A i \in 1 .. offset(w) : bb.bytes_[Len(bb.bytes_) - i + 1] = FromEnd(w, i)
  PROVE  /\ Continues(w, c) /\ offset(c) = Len(bb.bytes_) - space
         /\ c.minalign = w.minalign /\ c.space = space /\ c.bb = bb
<1>1. c \in Builders /\ c.bb = bb /\ c.space = space /\ SameRest(w, c) /\ c.minalign = w.minalign
  BY DEF IsBuilder, Builders, SameRest, Replaced
<1>2. Len(bb.bytes_) \in Nat
  BY LenProperties DEF Buffers
<1>3. Size(c) = Len(bb.bytes_) /\ offset(c) = Len(bb.bytes_) - space
  BY <1>1 DEF Size, offset, BB!capacity
<1>4. IsBuilder(c)
  BY <1>1, <1>2, <1>3, OffsetIs DEF IsBuilder
<1>5. Extends(w, c)
  BY <1>1, <1>2, <1>3, OffsetIs DEF Extends, FromEnd
<1> QED BY <1>1, <1>3, <1>4, <1>5 DEF Continues

\* Bytes put in front of the written ones.
LEMMA WritesInFront ==
  ASSUME NEW w, IsBuilder(w), NEW written \in Seq(Byte), NEW at \in Nat,
         at + Len(written) = w.space, NEW c,
         c = Replaced(w, BB!WriteBytes(w.bb, at, written), at)
  PROVE  /\ Continues(w, c)
         /\ offset(c) = offset(w) + Len(written)
         /\ c.space = at
         /\ c.minalign = w.minalign
         /\ \A i \in 1 .. Len(written) : FromEnd(c, offset(c) + 1 - i) = written[i]
<1> DEFINE bb == BB!WriteBytes(w.bb, at, written)
<1>1. at + Len(written) <= Len(w.bb.bytes_) /\ Len(written) \in Nat /\ w.bb \in Buffers
  BY OffsetIs, LenProperties DEF IsBuilder, Size
<1>2. /\ bb \in Buffers
      /\ Len(bb.bytes_) = Size(w)
      /\ \A i \in 1 .. Size(w) :
           bb.bytes_[i] = IF i \in at + 1 .. at + Len(written) THEN written[i - at]
                          ELSE w.bb.bytes_[i]
  BY <1>1, WriteBytesIs DEF Size
<1> HIDE DEF bb
<1>3. \A i \in 1 .. offset(w) : bb.bytes_[Len(bb.bytes_) - i + 1] = FromEnd(w, i)
  <2> TAKE i \in 1 .. offset(w)
  <2>1. Size(w) - i + 1 \in 1 .. Size(w) /\ Size(w) - i + 1 > at + Len(written)
    BY <1>1, OffsetIs
  <2> QED BY <1>1, <1>2, <2>1 DEF FromEnd
<1>4. /\ Continues(w, c) /\ offset(c) = Len(bb.bytes_) - at
      /\ c.minalign = w.minalign /\ c.space = at /\ c.bb = bb
  <2>1. at <= Size(w) - offset(w) /\ Len(bb.bytes_) >= Size(w) /\ Len(bb.bytes_) = Size(w)
    BY <1>1, <1>2, OffsetIs
  <2>2. c = Replaced(w, bb, at)
    BY DEF bb
  <2> QED BY <1>2, <1>3, <2>1, <2>2, Rewritten
<1>5. ASSUME NEW i \in 1 .. Len(written) PROVE FromEnd(c, offset(c) + 1 - i) = written[i]
  <2>1. Size(c) = Size(w)
    BY <1>2, <1>4 DEF Size
  <2>2. Size(c) - (offset(c) + 1 - i) + 1 = at + i
    BY <1>1, <1>2, <1>4, <2>1, OffsetIs
  <2>3. at + i \in 1 .. Size(w) /\ at + i \in at + 1 .. at + Len(written) /\ at + i - at = i
    BY <1>1, OffsetIs DEF Size
  <2> QED BY <1>2, <1>4, <2>2, <2>3 DEF FromEnd
<1>6. offset(c) = offset(w) + Len(written)
  BY <1>1, <1>2, <1>4, OffsetIs
<1> QED BY <1>4, <1>5, <1>6

\* Faster to cite than the lemma itself when written is known by its length.
LEMMA Written ==
  ASSUME NEW w, IsBuilder(w), NEW value \in Int, NEW n \in {1, 2, 4}, n <= w.space,
         NEW c, c = Replaced(w, BB!WriteBytes(w.bb, w.space - n, BB!LowBytes(value, n)), w.space - n)
  PROVE  /\ Continues(w, c)
         /\ offset(c) = offset(w) + n
         /\ c.space = w.space - n
         /\ c.minalign = w.minalign
         /\ \A i \in 1 .. n : FromEnd(c, offset(c) + 1 - i) = BB!LowBytes(value, n)[i]
<1>1. w.space \in Nat /\ w.space - n \in Nat /\ w.space - n + n = w.space
  BY OffsetIs
<1>2. BB!LowBytes(value, n) \in Seq(Byte) /\ Len(BB!LowBytes(value, n)) = n
  BY LowBytesAre
<1> DEFINE low == BB!LowBytes(value, n)
           at == w.space - n
<1>3. low \in Seq(Byte) /\ at \in Nat /\ at + Len(low) = w.space /\ Len(low) = n
  BY <1>1, <1>2
<1>4. c = Replaced(w, BB!WriteBytes(w.bb, at, low), at)
  OBVIOUS
<1>5. \A i \in 1 .. n : low[i] = BB!LowBytes(value, n)[i]
  OBVIOUS
<1> HIDE DEF low, at
<1>6. /\ Continues(w, c)
      /\ offset(c) = offset(w) + Len(low)
      /\ c.space = at
      /\ c.minalign = w.minalign
      /\ \A i \in 1 .. Len(low) : FromEnd(c, offset(c) + 1 - i) = low[i]
  BY <1>3, <1>4, WritesInFront
<1> QED BY <1>3, <1>5, <1>6 DEF at

LEMMA Writes8 ==
  ASSUME NEW w, IsBuilder(w), NEW value \in Int, 1 <= w.space
  PROVE  LET c == writeInt8(w, value)
         IN  /\ Continues(w, c) /\ offset(c) = offset(w) + 1 /\ c.space = w.space - 1
             /\ c.minalign = w.minalign
             /\ FromEnd(c, offset(c)) = BB!LowBytes(value, 1)[1]
<1>1. writeInt8(w, value) = Replaced(w, BB!WriteBytes(w.bb, w.space - 1, BB!LowBytes(value, 1)), w.space - 1)
  BY DEF writeInt8, BB!writeInt8, Replaced, IsBuilder, Builders
<1>2. offset(writeInt8(w, value)) \in Int
  BY <1>1, Written, OffsetIs DEF Continues
<1>3. offset(writeInt8(w, value)) + 1 - 1 = offset(writeInt8(w, value))
  BY <1>2
<1> QED BY <1>1, <1>3, Written

LEMMA Writes16 ==
  ASSUME NEW w, IsBuilder(w), NEW value \in Int, 2 <= w.space
  PROVE  LET c == writeInt16(w, value)
         IN  /\ Continues(w, c) /\ offset(c) = offset(w) + 2 /\ c.space = w.space - 2
             /\ c.minalign = w.minalign
             /\ \A i \in 1 .. 2 : FromEnd(c, offset(c) + 1 - i) = BB!LowBytes(value, 2)[i]
<1>1. writeInt16(w, value) = Replaced(w, BB!WriteBytes(w.bb, w.space - 2, BB!LowBytes(value, 2)), w.space - 2)
  BY DEF writeInt16, BB!writeInt16, Replaced, IsBuilder, Builders
<1> QED BY <1>1, Written

LEMMA Writes32 ==
  ASSUME NEW w, IsBuilder(w), NEW value \in Int, 4 <= w.space
  PROVE  LET c == writeInt32(w, value)
         IN  /\ Continues(w, c) /\ offset(c) = offset(w) + 4 /\ c.space = w.space - 4
             /\ c.minalign = w.minalign
             /\ \A i \in 1 .. 4 : FromEnd(c, offset(c) + 1 - i) = BB!LowBytes(value, 4)[i]
<1>1. writeInt32(w, value) = Replaced(w, BB!WriteBytes(w.bb, w.space - 4, BB!LowBytes(value, 4)), w.space - 4)
  BY DEF writeInt32, BB!writeInt32, Replaced, IsBuilder, Builders
<1> QED BY <1>1, Written

(***************************************************************************)
(* Growth.                                                                 *)
(***************************************************************************)
LEMMA AllocatedIs ==
  ASSUME NEW n \in Nat
  PROVE  BB!allocate(n) \in Buffers /\ Len(BB!allocate(n).bytes_) = n
<1> DEFINE zeros == [i \in 1 .. n |-> 0]
<1>1. zeros \in Seq(Byte) /\ Len(zeros) = n
  BY ZeroBytes
<1>2. BB!allocate(n) = [bytes_ |-> zeros, position_ |-> 0]
  BY DEF BB!allocate, BB!ByteBuffer
<1> HIDE DEF zeros
<1> QED BY <1>1, <1>2 DEF Buffers

LEMMA PositionSet ==
  ASSUME NEW bb \in Buffers, NEW at \in Int
  PROVE  BB!setPosition(bb, at) \in Buffers /\ BB!setPosition(bb, at).bytes_ = bb.bytes_
<1> QED BY DEF BB!setPosition, Buffers

LEMMA DoubledIs ==
  ASSUME NEW w, IsBuilder(w)
  PROVE  /\ Continues(w, Doubled(w)) /\ offset(Doubled(w)) = offset(w)
         /\ Doubled(w).minalign = w.minalign
         /\ Doubled(w).space >= w.space + 1
<1> DEFINE size == Size(w)
           old == w.bb.bytes_
           empty == BB!allocate(2 * size)
           moved == BB!WriteBytes(empty, size, old)
           bb == growByteBuffer(w.bb)
<1>1. size \in Nat /\ size >= 1 /\ 2 * size \in Nat /\ old \in Seq(Byte) /\ Len(old) = size
  BY OffsetIs DEF IsBuilder, Size
<1>2. bb = BB!setPosition(moved, size)
  BY OffsetIs DEF growByteBuffer
<1>3. \A i \in 1 .. size : FromEnd(w, i) = old[size - i + 1]
  BY DEF FromEnd
<1>4. empty \in Buffers /\ Len(empty.bytes_) = 2 * size
  BY <1>1, AllocatedIs
<1>5. Doubled(w) = Replaced(w, bb, w.space + size)
  BY OffsetIs DEF Doubled, Replaced, IsBuilder, Builders
<1>6. w.space \in Nat /\ offset(w) \in Nat /\ offset(w) = size - w.space
  BY OffsetIs
<1> HIDE DEF empty, size, old
<1>7. /\ empty \in Buffers /\ size \in Nat /\ old \in Seq(Byte)
      /\ size + Len(old) <= Len(empty.bytes_)
  BY <1>1, <1>4
<1>8. /\ moved \in Buffers
      /\ Len(moved.bytes_) = Len(empty.bytes_)
      /\ \A i \in 1 .. Len(empty.bytes_) :
           moved.bytes_[i] = IF i \in size + 1 .. size + Len(old) THEN old[i - size]
                             ELSE empty.bytes_[i]
  BY <1>7, WriteBytesIs
<1> HIDE DEF moved
<1>9. bb \in Buffers /\ bb.bytes_ = moved.bytes_
  BY <1>1, <1>2, <1>8, PositionSet
<1>10. ASSUME NEW i \in 1 .. offset(w)
       PROVE  bb.bytes_[Len(bb.bytes_) - i + 1] = FromEnd(w, i)
  <2> DEFINE j == 2 * size - i + 1
  <2>1. /\ j \in 1 .. Len(empty.bytes_) /\ j \in size + 1 .. size + Len(old)
        /\ j - size = size - i + 1 /\ i \in 1 .. size
    BY <1>1, <1>4, <1>6
  <2>2. j = Len(bb.bytes_) - i + 1
    BY <1>4, <1>8, <1>9
  <2> HIDE DEF j
  <2>3. moved.bytes_[j] = old[j - size]
    BY <1>8, <2>1
  <2> QED BY <1>3, <1>9, <2>1, <2>2, <2>3
<1> HIDE DEF bb
<1>11. /\ w.space + size \in Nat /\ w.space + size <= Len(bb.bytes_) - offset(w)
       /\ Len(bb.bytes_) >= Size(w)
  <2>1. Len(bb.bytes_) = 2 * size
    BY <1>4, <1>8, <1>9
  <2>2. Size(w) = size
    BY DEF size
  <2> QED BY <1>1, <1>6, <2>1, <2>2
<1>12. /\ Continues(w, Doubled(w)) /\ offset(Doubled(w)) = Len(bb.bytes_) - (w.space + size)
       /\ Doubled(w).minalign = w.minalign /\ Doubled(w).space = w.space + size
  BY <1>5, <1>9, <1>10, <1>11, Rewritten
<1> QED BY <1>1, <1>4, <1>6, <1>8, <1>9, <1>12

Pass(c, room) == IF c.space >= room THEN c ELSE Doubled(c)

Passes(after, w, room) ==
  after = [pass \in 0 .. room |-> IF pass = 0 THEN w ELSE Pass(after[pass - 1], room)]

LEMMA PassesExist ==
  ASSUME NEW w, NEW room \in Nat
  PROVE  \E after : Passes(after, w, room)
<1> DEFINE F(f, pass) == IF pass = 0 THEN w ELSE Pass(f[pass - 1], room)
           Sat(f, k) == \A pass \in 0 .. k : f[pass] = F(f, pass)
           Good == {k \in Nat : \E f : f = [pass \in 0 .. k |-> f[pass]] /\ Sat(f, k)}
<1>1. 0 \in Good
  <2>1. Sat([pass \in 0 .. 0 |-> w], 0)
    OBVIOUS
  <2> QED BY <2>1
<1>2. ASSUME NEW k \in Nat, k \in Good PROVE k + 1 \in Good
  <2>1. PICK f : Sat(f, k)
    BY <1>2
  <2> DEFINE g == [pass \in 0 .. k + 1 |-> IF pass = k + 1 THEN Pass(f[k], room) ELSE f[pass]]
  <2>2. Sat(g, k + 1)
    <3> TAKE pass \in 0 .. k + 1
    <3>1. CASE pass = k + 1
      BY <3>1
    <3>2. CASE pass = 0
      BY <3>2, <2>1
    <3>3. CASE pass \in 1 .. k
      <4>1. g[pass] = f[pass] /\ g[pass - 1] = f[pass - 1]
        BY <3>3
      <4> QED BY <2>1, <3>3, <4>1
    <3> QED BY <3>1, <3>2, <3>3
  <2>3. g = [pass \in 0 .. k + 1 |-> g[pass]]
    OBVIOUS
  <2> HIDE DEF g, Sat
  <2> QED BY <2>2, <2>3
<1>3. room \in Good
  <2> HIDE DEF Good
  <2> QED BY <1>1, <1>2, NatInd
<1>4. PICK f : f = [pass \in 0 .. room |-> f[pass]] /\ Sat(f, room)
  BY <1>3
<1>5. f = [pass \in 0 .. room |-> F(f, pass)]
  BY <1>4
<1> QED BY <1>5 DEF Passes

LEMMA GrownIs ==
  ASSUME NEW w, IsBuilder(w), NEW room \in Nat
  PROVE  /\ Continues(w, Grown(w, room)) /\ offset(Grown(w, room)) = offset(w)
         /\ Grown(w, room).minalign = w.minalign
         /\ Grown(w, room).space >= room
<1> DEFINE after == CHOOSE f : Passes(f, w, room)
<1>1. Passes(after, w, room)
  BY PassesExist
<1>2. Grown(w, room) = after[room]
  BY DEF Grown, Pass, Passes
<1> HIDE DEF after
<1> DEFINE Same(c) == Continues(w, c) /\ offset(c) = offset(w) /\ c.minalign = w.minalign
           Good == {k \in Nat : k <= room => /\ Same(after[k])
                                             /\ after[k].space >= k \/ after[k].space >= room}
<1>3. 0 \in Good
  <2>1. after[0] = w
    BY <1>1 DEF Passes
  <2> QED BY <2>1, ContinuesItself, OffsetIs
<1>4. ASSUME NEW k \in Nat, k \in Good PROVE k + 1 \in Good
  <2> SUFFICES ASSUME k + 1 <= room
               PROVE  /\ Same(after[k + 1])
                      /\ after[k + 1].space >= k + 1 \/ after[k + 1].space >= room
    OBVIOUS
  <2>1. Same(after[k]) /\ (after[k].space >= k \/ after[k].space >= room)
    BY <1>4
  <2>2. after[k + 1] = Pass(after[k], room)
    BY <1>1 DEF Passes
  <2>3. CASE after[k].space >= room
    BY <2>1, <2>2, <2>3 DEF Pass
  <2>4. CASE ~(after[k].space >= room)
    <3>1. after[k + 1] = Doubled(after[k])
      BY <2>2, <2>4 DEF Pass
    <3>2. IsBuilder(after[k])
      BY <2>1 DEF Continues
    <3>3. /\ Continues(after[k], after[k + 1]) /\ offset(after[k + 1]) = offset(after[k])
          /\ after[k + 1].minalign = after[k].minalign
          /\ after[k + 1].space >= after[k].space + 1
      BY <3>1, <3>2, DoubledIs
    <3>4. Continues(w, after[k + 1])
      BY <2>1, <3>3, ContinuesTransitive
    <3>5. after[k].space \in Nat /\ after[k + 1].space \in Nat
      BY <3>2, <3>4, OffsetIs DEF Continues
    <3> QED BY <2>1, <2>4, <3>3, <3>4, <3>5
  <2> QED BY <2>3, <2>4
<1>5. room \in Good
  <2> HIDE DEF Good
  <2> QED BY <1>3, <1>4, NatInd
<1>6. after[room].space \in Nat
  BY <1>5, OffsetIs DEF Continues
<1> QED BY <1>2, <1>5, <1>6

(***************************************************************************)
(* Alignment.                                                              *)
(***************************************************************************)
LEMMA Alignment ==
  ASSUME NEW n \in Nat, NEW size \in {1, 2, 4, 8}
  PROVE  /\ (- n) % size \in 0 .. size - 1
         /\ (n + ((- n) % size)) % size = 0
<1>1. CASE size = 1
  BY <1>1
<1>2. CASE size = 2
  BY <1>2
<1>3. CASE size = 4
  BY <1>3
<1>4. CASE size = 8
  BY <1>4
<1> QED BY <1>1, <1>2, <1>3, <1>4

LEMMA PadIs ==
  ASSUME NEW w, IsBuilder(w), NEW n \in Nat, n <= w.space
  PROVE  /\ Continues(w, pad(w, n))
         /\ offset(pad(w, n)) = offset(w) + n
         /\ pad(w, n).space = w.space - n
         /\ pad(w, n).minalign = w.minalign
<1> DEFINE zeros == [i \in 1 .. n |-> 0]
           at == w.space - n
<1>1. pad(w, n) = Replaced(w, BB!WriteBytes(w.bb, at, zeros), at)
  BY DEF pad, Replaced, IsBuilder, Builders
<1>2. zeros \in Seq(Byte) /\ Len(zeros) = n
  BY ZeroBytes
<1>3. at \in Nat /\ at + n = w.space
  BY OffsetIs
<1> DEFINE c == pad(w, n)
<1> HIDE DEF zeros, at, c
<1>4. c = Replaced(w, BB!WriteBytes(w.bb, at, zeros), at)
  BY <1>1 DEF c
<1>5. zeros \in Seq(Byte) /\ at \in Nat /\ at + Len(zeros) = w.space
  BY <1>2, <1>3
<1>6. /\ Continues(w, c)
      /\ offset(c) = offset(w) + Len(zeros)
      /\ c.space = at
      /\ c.minalign = w.minalign
      /\ \A i \in 1 .. Len(zeros) : FromEnd(c, offset(c) + 1 - i) = zeros[i]
  BY <1>4, <1>5, WritesInFront
<1> QED BY <1>2, <1>3, <1>6 DEF c, at

\* prep leaves room for an element whose start, once the additional bytes
\* are there too, is a multiple of its size.
LEMMA PrepIs ==
  ASSUME NEW w, IsBuilder(w), NEW size \in {1, 2, 4, 8}, NEW additional \in Nat
  PROVE  LET c == prep(w, size, additional)
         IN  /\ Continues(w, c)
             /\ offset(c) \in offset(w) .. offset(w) + size - 1
             /\ (offset(c) + additional) % size = 0
             /\ c.space >= size + additional
             /\ c.minalign = IF size > w.minalign THEN size ELSE w.minalign
             /\ size <= c.minalign
<1> DEFINE n == offset(w) + additional
           gap == (- n) % size
           room == gap + size + additional
           m == IF size > w.minalign THEN size ELSE w.minalign
           d == [w EXCEPT !.minalign = IF size > @ THEN size ELSE @]
           e == Grown(d, room)
           c == prep(w, size, additional)
<1>1. offset(w) \in Nat /\ n \in Nat /\ size \in Nat
  BY OffsetIs
<1>2. gap \in 0 .. size - 1 /\ (n + gap) % size = 0
  BY <1>1, Alignment
<1>3. room \in Nat /\ gap \in Nat /\ room - gap = size + additional
  <2> HIDE DEF gap
  <2> QED BY <1>1, <1>2
<1>4. Continues(w, d) /\ offset(d) = offset(w) /\ d.minalign = m
  <2>1. /\ d \in Builders /\ d.bb = w.bb /\ d.space = w.space /\ SameRest(w, d)
        /\ d.minalign = m
    BY DEF IsBuilder, Builders, SameRest
  <2> HIDE DEF d
  <2>2. offset(d) = offset(w) /\ Size(d) = Size(w)
    BY <2>1 DEF offset, Size
  <2>3. IsBuilder(d)
    BY <2>1, <2>2 DEF IsBuilder
  <2>4. Extends(w, d)
    BY <2>1, <2>2, <1>1, OffsetIs DEF Extends, FromEnd
  <2> QED BY <2>1, <2>2, <2>3, <2>4 DEF Continues
<1>5. c = pad(e, gap)
  BY DEF prep
<1> HIDE DEF d
<1>6. Continues(d, e) /\ offset(e) = offset(d) /\ e.minalign = m /\ e.space >= room
  <2>1. IsBuilder(d)
    BY <1>4 DEF Continues
  <2> HIDE DEF room
  <2> QED BY <1>3, <1>4, <2>1, GrownIs
<1> HIDE DEF e
<1>7. IsBuilder(e) /\ e.space \in Nat
  BY <1>6, OffsetIs DEF Continues
<1> HIDE DEF gap
<1>8. /\ Continues(e, c) /\ offset(c) = offset(e) + gap /\ c.space = e.space - gap
      /\ c.minalign = m
  <2>1. gap <= e.space
    BY <1>1, <1>2, <1>3, <1>6, <1>7
  <2> QED BY <1>3, <1>5, <1>6, <1>7, <2>1, PadIs
<1>9. Continues(w, c)
  BY <1>4, <1>6, <1>8, ContinuesTransitive
<1>10. /\ offset(c) \in offset(w) .. offset(w) + size - 1
       /\ offset(c) + additional = n + gap
  BY <1>1, <1>2, <1>4, <1>6, <1>8
<1>11. c.space >= size + additional
  BY <1>1, <1>3, <1>6, <1>7, <1>8
<1>12. size <= m
  <2>1. w.minalign \in Nat
    BY OffsetIs
  <2> QED BY <2>1, <1>1
<1> HIDE DEF c, n, m
<1>13. size <= c.minalign /\ c.minalign = m
  BY <1>8, <1>12
<1> QED BY <1>2, <1>8, <1>9, <1>10, <1>11, <1>13 DEF c, m

(***************************************************************************)
(* Scalars.                                                                *)
(***************************************************************************)
Longs == [low : Int, high : Int]

LEMMA Writes64 ==
  ASSUME NEW w, IsBuilder(w), NEW value \in Longs, 8 <= w.space
  PROVE  LET c == writeInt64(w, value)
         IN  /\ Continues(w, c) /\ offset(c) = offset(w) + 8 /\ c.space = w.space - 8
             /\ c.minalign = w.minalign
<1> DEFINE at == w.space - 8
           low == BB!LowBytes(value.low, 4)
           high == BB!LowBytes(value.high, 4)
           b1 == BB!WriteBytes(w.bb, at, low)
           b2 == BB!WriteBytes(b1, at + 4, high)
           c == writeInt64(w, value)
<1>1. value.low \in Int /\ value.high \in Int
  BY DEF Longs
<1>2. low \in Seq(Byte) /\ Len(low) = 4 /\ high \in Seq(Byte) /\ Len(high) = 4
  BY <1>1, LowBytesAre
<1>3. c = Replaced(w, b2, at)
  BY DEF writeInt64, BB!writeInt64, BB!writeInt32, Replaced, IsBuilder, Builders
<1>4. /\ at \in Nat /\ at + 8 <= Size(w) /\ w.bb \in Buffers /\ at + 8 + offset(w) = Size(w)
      /\ Size(w) \in Nat /\ offset(w) \in Nat
  BY OffsetIs DEF IsBuilder
<1> HIDE DEF low, high, c
<1>5. at + Len(low) <= Len(w.bb.bytes_) /\ at + 4 + Len(high) <= Len(w.bb.bytes_) /\ at + 4 \in Nat
  BY <1>2, <1>4 DEF Size
<1> HIDE DEF at
<1>6. /\ b1 \in Buffers /\ Len(b1.bytes_) = Len(w.bb.bytes_)
      /\ \A i \in 1 .. Len(w.bb.bytes_) :
           b1.bytes_[i] = IF i \in at + 1 .. at + Len(low) THEN low[i - at] ELSE w.bb.bytes_[i]
  <2>1. /\ w.bb \in Buffers /\ at \in Nat /\ low \in Seq(Byte)
        /\ at + Len(low) <= Len(w.bb.bytes_)
    BY <1>2, <1>4, <1>5
  <2> QED BY <2>1, WriteBytesIs
<1> HIDE DEF b1
<1>7. /\ b2 \in Buffers /\ Len(b2.bytes_) = Len(b1.bytes_)
      /\ \A i \in 1 .. Len(b1.bytes_) :
           b2.bytes_[i] = IF i \in at + 4 + 1 .. at + 4 + Len(high) THEN high[i - (at + 4)]
                          ELSE b1.bytes_[i]
  <2>1. /\ b1 \in Buffers /\ at + 4 \in Nat /\ high \in Seq(Byte)
        /\ at + 4 + Len(high) <= Len(b1.bytes_)
    BY <1>2, <1>5, <1>6
  <2> QED BY <2>1, WriteBytesIs
<1> HIDE DEF b2
<1>8. ASSUME NEW i \in 1 .. offset(w)
      PROVE  b2.bytes_[Len(b2.bytes_) - i + 1] = FromEnd(w, i)
  <2> DEFINE j == Size(w) - i + 1
  <2>1. j \in 1 .. Len(w.bb.bytes_) /\ j > at + 8 /\ j \in Int
    BY <1>4 DEF Size
  <2>2. j = Len(b2.bytes_) - i + 1
    BY <1>6, <1>7 DEF Size
  <2>3. FromEnd(w, i) = w.bb.bytes_[j]
    BY DEF FromEnd
  <2> HIDE DEF j
  <2>4. b1.bytes_[j] = w.bb.bytes_[j]
    BY <1>2, <1>4, <1>6, <2>1
  <2>5. b2.bytes_[j] = b1.bytes_[j]
    BY <1>2, <1>4, <1>6, <1>7, <2>1
  <2> QED BY <2>2, <2>3, <2>4, <2>5
<1>9. Len(b2.bytes_) >= Size(w) /\ at <= Len(b2.bytes_) - offset(w) /\ Len(b2.bytes_) = Size(w)
  BY <1>4, <1>6, <1>7 DEF Size
<1>10. /\ Continues(w, c) /\ offset(c) = Len(b2.bytes_) - at
       /\ c.minalign = w.minalign /\ c.space = at
  <2>1. /\ at \in Nat /\ b2 \in Buffers /\ c = Replaced(w, b2, at)
        /\ Len(b2.bytes_) >= Size(w) /\ at <= Len(b2.bytes_) - offset(w)
        /\ \A i \in 1 .. offset(w) : b2.bytes_[Len(b2.bytes_) - i + 1] = FromEnd(w, i)
    BY <1>3, <1>4, <1>7, <1>8, <1>9
  <2> QED BY <2>1, Rewritten
<1> QED BY <1>4, <1>9, <1>10, OffsetIs DEF at, c

LEMMA SignedIsInt ==
  ASSUME NEW value \in Int
  PROVE  BB!Signed(BB!Unsigned(value)) \in Int
<1> QED BY DEF BB!Signed, BB!Unsigned

LEMMA Even ==
  ASSUME NEW n \in Nat, NEW m \in n .. n + 2 - 1, (m + 0) % 2 = 0
  PROVE  /\ m + 2 \in n + 2 .. n + 3 /\ (m + 2) % 2 = 0
         /\ n % 2 = 0 => m = n
<1> QED OBVIOUS

LEMMA MultipleOf4 ==
  ASSUME NEW n \in Nat, NEW m \in n .. n + 4 - 1, (m + 0) % 4 = 0
  PROVE  /\ m + 4 \in n + 4 .. n + 7 /\ (m + 4) % 4 = 0
         /\ n % 4 = 0 => m = n
<1>1. m \in Nat /\ m + 0 = m
  OBVIOUS
<1>2. m + 4 \in n + 4 .. n + 7 /\ (m + 4) % 4 = 0
  OBVIOUS
<1>3. m % 4 = 0
  BY <1>1
<1>4. ASSUME n % 4 = 0 PROVE m = n
  <2>1. m = 4 * (m \div 4) + (m % 4)
    BY <1>1
  <2>2. n = 4 * (n \div 4) + (n % 4)
    OBVIOUS
  <2>3. m \div 4 \in Int /\ n \div 4 \in Int
    BY <1>1
  <2>4. PICK k \in Int : m = 4 * k
    BY <1>3, <2>1, <2>3
  <2>5. PICK l \in Int : n = 4 * l
    BY <1>4, <2>2, <2>3
  <2> QED BY <1>1, <2>4, <2>5
<1> QED BY <1>2, <1>4

LEMMA Adds8 ==
  ASSUME NEW w, IsBuilder(w), NEW value \in Int
  PROVE  LET c == addInt8(w, value)
         IN  Continues(w, c) /\ offset(c) = offset(w) + 1
<1> DEFINE p == prep(w, 1, 0)
           c == writeInt8(p, value)
<1>1. /\ Continues(w, p) /\ offset(p) \in offset(w) .. offset(w) + 1 - 1
      /\ p.space >= 1 + 0
  BY PrepIs
<1> HIDE DEF p
<1>2. IsBuilder(p) /\ 1 <= p.space
  BY <1>1, OffsetIs DEF Continues
<1>3. Continues(p, c) /\ offset(c) = offset(p) + 1
  BY <1>2, Writes8
<1> HIDE DEF c
<1>4. Continues(w, c)
  BY <1>1, <1>3, ContinuesTransitive
<1>5. offset(c) = offset(w) + 1
  BY <1>1, <1>3, OffsetIs
<1> QED BY <1>4, <1>5 DEF c, p, addInt8

LEMMA Adds16 ==
  ASSUME NEW w, IsBuilder(w), NEW value \in Int
  PROVE  LET c == addInt16(w, value)
         IN  /\ Continues(w, c) /\ offset(c) \in offset(w) + 2 .. offset(w) + 3
             /\ offset(c) % 2 = 0 /\ 2 <= c.minalign
             /\ offset(w) % 2 = 0 => offset(c) = offset(w) + 2
             /\ \A i \in 1 .. 2 : FromEnd(c, offset(c) + 1 - i) = BB!LowBytes(value, 2)[i]
<1> DEFINE p == prep(w, 2, 0)
           c == writeInt16(p, value)
<1>1. /\ Continues(w, p) /\ offset(p) \in offset(w) .. offset(w) + 2 - 1
      /\ (offset(p) + 0) % 2 = 0 /\ p.space >= 2 + 0
      /\ 2 <= p.minalign
  BY PrepIs
<1> HIDE DEF p
<1>2. IsBuilder(p) /\ 2 <= p.space
  BY <1>1, OffsetIs DEF Continues
<1>3. /\ Continues(p, c) /\ offset(c) = offset(p) + 2 /\ c.minalign = p.minalign
      /\ \A i \in 1 .. 2 : FromEnd(c, offset(c) + 1 - i) = BB!LowBytes(value, 2)[i]
  BY <1>2, Writes16
<1> HIDE DEF c
<1>4. Continues(w, c)
  BY <1>1, <1>3, ContinuesTransitive
<1>5. offset(w) \in Nat /\ offset(p) \in Nat /\ offset(c) = offset(p) + 2
  BY <1>2, <1>3, OffsetIs
<1>6. /\ offset(c) \in offset(w) + 2 .. offset(w) + 3
      /\ offset(c) % 2 = 0
      /\ offset(w) % 2 = 0 => offset(c) = offset(w) + 2
  BY <1>1, <1>5, Even
<1> QED BY <1>1, <1>3, <1>4, <1>6 DEF c, p, addInt16

LEMMA Adds32 ==
  ASSUME NEW w, IsBuilder(w), NEW value \in Int
  PROVE  LET c == addInt32(w, value)
         IN  /\ Continues(w, c) /\ offset(c) \in offset(w) + 4 .. offset(w) + 7
             /\ offset(c) % 4 = 0 /\ 4 <= c.minalign
             /\ \A i \in 1 .. 4 : FromEnd(c, offset(c) + 1 - i) = BB!LowBytes(value, 4)[i]
<1> DEFINE p == prep(w, 4, 0)
           c == writeInt32(p, value)
<1>1. /\ Continues(w, p) /\ offset(p) \in offset(w) .. offset(w) + 4 - 1
      /\ (offset(p) + 0) % 4 = 0 /\ p.space >= 4 + 0
      /\ 4 <= p.minalign
  BY PrepIs
<1> HIDE DEF p
<1>2. IsBuilder(p) /\ 4 <= p.space
  BY <1>1, OffsetIs DEF Continues
<1>3. /\ Continues(p, c) /\ offset(c) = offset(p) + 4 /\ c.minalign = p.minalign
      /\ \A i \in 1 .. 4 : FromEnd(c, offset(c) + 1 - i) = BB!LowBytes(value, 4)[i]
  BY <1>2, Writes32
<1> HIDE DEF c
<1>4. Continues(w, c)
  BY <1>1, <1>3, ContinuesTransitive
<1>5. offset(w) \in Nat /\ offset(p) \in Nat /\ offset(c) = offset(p) + 4
  BY <1>2, <1>3, OffsetIs
<1>6. offset(c) \in offset(w) + 4 .. offset(w) + 7 /\ offset(c) % 4 = 0
  <2>1. /\ offset(p) + 4 \in offset(w) + 4 .. offset(w) + 7
        /\ (offset(p) + 4) % 4 = 0
    BY <1>1, <1>5, MultipleOf4
  <2> QED BY <1>5, <2>1
<1> QED BY <1>1, <1>3, <1>4, <1>6 DEF c, p, addInt32

(***************************************************************************)
(* Sequences of numbers written one after the other.                       *)
(***************************************************************************)
Write(which, w, value) ==
  IF which = "addInt16" THEN addInt16(w, value)
  ELSE IF which = "addInt8" THEN addInt8(w, value)
  ELSE writeInt8(w, value)

Folding(g, which, w, s, n) ==
  g = [S \in SUBSET (1 .. n) |-> IF S = {} THEN w ELSE Write(which, g[S \ {Max(S)}], s[Max(S)])]

LEMMA FoldExists ==
  ASSUME NEW which, NEW w, NEW n \in Nat, NEW s
  PROVE  \E g : Folding(g, which, w, s, n)
<1> DEFINE Value(g, S) == IF S = {} THEN w ELSE Write(which, g[S \ {Max(S)}], s[Max(S)])
           Sat(g, k) == \A S \in SUBSET (1 .. k) : g[S] = Value(g, S)
           Good == {k \in Nat : \E g : g = [S \in SUBSET (1 .. k) |-> g[S]] /\ Sat(g, k)}
<1>1. 0 \in Good
  <2>1. 1 .. 0 = {}
    OBVIOUS
  <2>2. Sat([S \in SUBSET (1 .. 0) |-> w], 0)
    BY <2>1
  <2> QED BY <2>2
<1>2. ASSUME NEW k \in Nat, k \in Good PROVE k + 1 \in Good
  <2>1. PICK g : Sat(g, k)
    BY <1>2
  <2> DEFINE D == SUBSET (1 .. k + 1)
             h == [S \in D |-> IF k + 1 \in S THEN Write(which, g[S \ {k + 1}], s[k + 1])
                               ELSE g[S]]
  <2>2. ASSUME NEW S \in D, k + 1 \notin S PROVE h[S] = Value(h, S)
    <3>1. S \in SUBSET (1 .. k) /\ h[S] = g[S]
      BY <2>2
    <3>2. ASSUME NEW x PROVE h[S \ {x}] = g[S \ {x}]
      <4>1. S \ {x} \in D /\ k + 1 \notin S \ {x}
        BY <2>2
      <4> QED BY <4>1
    <3>3. g[S] = Value(g, S)
      BY <2>1, <3>1
    <3> HIDE DEF h
    <3> QED BY <3>1, <3>2, <3>3
  <2>3. ASSUME NEW S \in D, k + 1 \in S PROVE h[S] = Value(h, S)
    <3>1. Max(S) = k + 1
      BY <2>3, MaxIs
    <3>2. S \ {k + 1} \in D /\ k + 1 \notin S \ {k + 1}
      OBVIOUS
    <3>3. h[S \ {k + 1}] = g[S \ {k + 1}]
      BY <3>2
    <3>4. h[S] = Write(which, g[S \ {k + 1}], s[k + 1])
      BY <2>3
    <3>5. S # {}
      BY <2>3
    <3> HIDE DEF h
    <3> QED BY <3>1, <3>3, <3>4, <3>5
  <2>4. h = [S \in D |-> h[S]]
    OBVIOUS
  <2> HIDE DEF h, Value
  <2>5. Sat(h, k + 1)
    BY <2>2, <2>3
  <2> HIDE DEF Sat
  <2> QED BY <2>4, <2>5
<1>3. n \in Good
  <2> HIDE DEF Good
  <2> QED BY <1>1, <1>2, NatInd
<1>4. PICK g : g = [S \in SUBSET (1 .. n) |-> g[S]] /\ Sat(g, n)
  BY <1>3
<1>5. g = [S \in SUBSET (1 .. n) |-> Value(g, S)]
  BY <1>4
<1> QED BY <1>5 DEF Folding

Steps(f, which, w, s, n) ==
  /\ f[0] = w
  /\ \A m \in 1 .. n : f[m] = Write(which, f[m - 1], s[m])

LEMMA FoldSteps ==
  ASSUME NEW which, NEW w, NEW n \in Nat, NEW s, NEW g,
         Folding(g, which, w, s, n)
  PROVE  \E f : Steps(f, which, w, s, n) /\ f[n] = g[1 .. n]
<1> DEFINE f == [m \in 0 .. n |-> g[1 .. m]]
<1>1. f[0] = w
  <2>1. 1 .. 0 = {} /\ {} \in SUBSET (1 .. n)
    OBVIOUS
  <2> QED BY <2>1 DEF Folding
<1>2. ASSUME NEW m \in 1 .. n PROVE f[m] = Write(which, f[m - 1], s[m])
  <2>1. 1 .. m \in SUBSET (1 .. n) /\ 1 .. m # {} /\ (1 .. m) \ {m} = 1 .. m - 1
    OBVIOUS
  <2>2. Max(1 .. m) = m
    <3>1. m - 1 \in Nat /\ m - 1 + 1 \in 1 .. m /\ 1 .. m \subseteq 1 .. m - 1 + 1
      OBVIOUS
    <3>2. Max(1 .. m) = m - 1 + 1
      BY <3>1, MaxIs
    <3> QED BY <3>2
  <2>3. f[m] = g[1 .. m] /\ f[m - 1] = g[1 .. m - 1]
    OBVIOUS
  <2> HIDE DEF f
  <2> QED BY <2>1, <2>2, <2>3 DEF Folding
<1>3. f[n] = g[1 .. n]
  OBVIOUS
<1> HIDE DEF f
<1>4. Steps(f, which, w, s, n)
  BY <1>1, <1>2 DEF Steps
<1> QED BY <1>3, <1>4

AddedInt16(w, s) == FoldLeft(addInt16, w, s)

AddedInt8(w, s) == FoldLeft(addInt8, w, s)

WrittenInt8(w, s) == FoldLeft(writeInt8, w, s)

LEMMA FoldInt16 ==
  ASSUME NEW w, NEW n \in Nat, NEW s, DOMAIN s = 1 .. n
  PROVE  \E f : Steps(f, "addInt16", w, s, n) /\ f[n] = AddedInt16(w, s)
<1> DEFINE it == CHOOSE g : Folding(g, "addInt16", w, s, n)
<1>1. Folding(it, "addInt16", w, s, n)
  BY FoldExists
<1>2. AddedInt16(w, s) = it[1 .. n]
  BY DEF AddedInt16, FoldLeft, MapThenFoldSet, Folding, Write
<1> DEFINE which == "addInt16"
<1> HIDE DEF it, which
<1>3. PICK f : Steps(f, which, w, s, n) /\ f[n] = it[1 .. n]
  <2>1. Folding(it, which, w, s, n)
    BY <1>1 DEF which
  <2> QED BY <2>1, FoldSteps
<1>4. Steps(f, "addInt16", w, s, n)
  BY <1>3 DEF which
<1> QED BY <1>2, <1>3, <1>4

LEMMA FoldInt8 ==
  ASSUME NEW w, NEW n \in Nat, NEW s, DOMAIN s = 1 .. n
  PROVE  \E f : Steps(f, "addInt8", w, s, n) /\ f[n] = AddedInt8(w, s)
<1> DEFINE it == CHOOSE g : Folding(g, "addInt8", w, s, n)
<1>1. Folding(it, "addInt8", w, s, n)
  BY FoldExists
<1>2. AddedInt8(w, s) = it[1 .. n]
  BY DEF AddedInt8, FoldLeft, MapThenFoldSet, Folding, Write
<1> DEFINE which == "addInt8"
<1> HIDE DEF it, which
<1>3. PICK f : Steps(f, which, w, s, n) /\ f[n] = it[1 .. n]
  <2>1. Folding(it, which, w, s, n)
    BY <1>1 DEF which
  <2> QED BY <2>1, FoldSteps
<1>4. Steps(f, "addInt8", w, s, n)
  BY <1>3 DEF which
<1> QED BY <1>2, <1>3, <1>4

LEMMA FoldWriteInt8 ==
  ASSUME NEW w, NEW n \in Nat, NEW s, DOMAIN s = 1 .. n
  PROVE  \E f : Steps(f, "writeInt8", w, s, n) /\ f[n] = WrittenInt8(w, s)
<1> DEFINE it == CHOOSE g : Folding(g, "writeInt8", w, s, n)
<1>1. Folding(it, "writeInt8", w, s, n)
  BY FoldExists
<1>2. WrittenInt8(w, s) = it[1 .. n]
  BY DEF WrittenInt8, FoldLeft, MapThenFoldSet, Folding, Write
<1> DEFINE which == "writeInt8"
<1> HIDE DEF it, which
<1>3. PICK f : Steps(f, which, w, s, n) /\ f[n] = it[1 .. n]
  <2>1. Folding(it, which, w, s, n)
    BY <1>1 DEF which
  <2> QED BY <2>1, FoldSteps
<1>4. Steps(f, "writeInt8", w, s, n)
  BY <1>3 DEF which
<1> QED BY <1>2, <1>3, <1>4

\* Numbers added one after the other leave what was written alone.
LEMMA AddedInt8s ==
  ASSUME NEW w, IsBuilder(w), NEW s \in Seq(Int)
  PROVE  LET c == AddedInt8(w, s)
         IN  Continues(w, c) /\ offset(c) = offset(w) + Len(s)
<1> DEFINE n == Len(s)
<1>1. n \in Nat /\ DOMAIN s = 1 .. n /\ \A m \in 1 .. n : s[m] \in Int
  OBVIOUS
<1> HIDE DEF n
<1>2. PICK f : Steps(f, "addInt8", w, s, n) /\ f[n] = AddedInt8(w, s)
  BY <1>1, FoldInt8
<1> DEFINE Good == {k \in Nat : k <= n => Continues(w, f[k]) /\ offset(f[k]) = offset(w) + k}
<1>3. 0 \in Good
  BY <1>2, ContinuesItself, OffsetIs DEF Steps
<1>4. ASSUME NEW k \in Nat, k \in Good PROVE k + 1 \in Good
  <2> SUFFICES ASSUME k + 1 <= n
               PROVE  Continues(w, f[k + 1]) /\ offset(f[k + 1]) = offset(w) + (k + 1)
    OBVIOUS
  <2>1. Continues(w, f[k]) /\ offset(f[k]) = offset(w) + k /\ IsBuilder(f[k])
    BY <1>1, <1>4 DEF Continues
  <2>2. f[k + 1] = addInt8(f[k], s[k + 1]) /\ s[k + 1] \in Int
    BY <1>1, <1>2 DEF Steps, Write
  <2>3. Continues(f[k], f[k + 1]) /\ offset(f[k + 1]) = offset(f[k]) + 1
    BY <2>1, <2>2, Adds8
  <2> QED BY <2>1, <2>3, ContinuesTransitive, OffsetIs
<1>5. n \in Good
  <2> HIDE DEF Good
  <2> QED BY <1>1, <1>3, <1>4, NatInd
<1> QED BY <1>1, <1>2, <1>5 DEF n

LEMMA WrittenInt8s ==
  ASSUME NEW w, IsBuilder(w), NEW s \in Seq(Int), Len(s) <= w.space
  PROVE  LET c == WrittenInt8(w, s)
         IN  /\ Continues(w, c) /\ offset(c) = offset(w) + Len(s)
             /\ c.minalign = w.minalign /\ c.space = w.space - Len(s)
<1> DEFINE n == Len(s)
<1>1. /\ n \in Nat /\ DOMAIN s = 1 .. n /\ n <= w.space
      /\ \A m \in 1 .. n : s[m] \in Int
  OBVIOUS
<1> HIDE DEF n
<1>2. PICK f : Steps(f, "writeInt8", w, s, n) /\ f[n] = WrittenInt8(w, s)
  BY <1>1, FoldWriteInt8
<1> DEFINE Same(k) == /\ Continues(w, f[k]) /\ offset(f[k]) = offset(w) + k
                      /\ f[k].minalign = w.minalign /\ f[k].space = w.space - k
           Good == {k \in Nat : k <= n => Same(k)}
<1>3. 0 \in Good
  BY <1>2, ContinuesItself, OffsetIs DEF Steps
<1>4. ASSUME NEW k \in Nat, k \in Good PROVE k + 1 \in Good
  <2> SUFFICES ASSUME k + 1 <= n PROVE Same(k + 1)
    OBVIOUS
  <2>1. Same(k) /\ IsBuilder(f[k])
    BY <1>1, <1>4 DEF Continues
  <2>2. f[k + 1] = writeInt8(f[k], s[k + 1]) /\ s[k + 1] \in Int
    BY <1>1, <1>2 DEF Steps, Write
  <2>3. 1 <= f[k].space
    BY <1>1, <2>1, OffsetIs
  <2>4. /\ Continues(f[k], f[k + 1]) /\ offset(f[k + 1]) = offset(f[k]) + 1
        /\ f[k + 1].space = f[k].space - 1 /\ f[k + 1].minalign = f[k].minalign
    BY <2>1, <2>2, <2>3, Writes8
  <2>5. Continues(w, f[k + 1])
    BY <2>1, <2>4, ContinuesTransitive
  <2>6. offset(w) \in Nat /\ w.space \in Nat
    BY OffsetIs
  <2>7. offset(f[k + 1]) = offset(w) + (k + 1)
    BY <2>1, <2>4, <2>6
  <2>8. f[k + 1].space = w.space - (k + 1)
    BY <2>1, <2>4, <2>6
  <2> QED BY <2>1, <2>4, <2>5, <2>7, <2>8
<1>5. n \in Good
  <2> HIDE DEF Good
  <2> QED BY <1>1, <1>3, <1>4, NatInd
<1> QED BY <1>1, <1>2, <1>5 DEF n

\* Two bytes each, the last number right at the start of what is written.
LEMMA AddedInt16s ==
  ASSUME NEW w, IsBuilder(w), offset(w) % 2 = 0, NEW s \in Seq(Int)
  PROVE  LET c == AddedInt16(w, s)
         IN  /\ Continues(w, c) /\ offset(c) = offset(w) + 2 * Len(s)
             /\ \A m \in 1 .. Len(s), i \in 1 .. 2 :
                  FromEnd(c, offset(w) + 2 * m + 1 - i) = BB!LowBytes(s[m], 2)[i]
<1> DEFINE n == Len(s)
           Kept(c, k) == \A m \in 1 .. k, i \in 1 .. 2 :
                           FromEnd(c, offset(w) + 2 * m + 1 - i) = BB!LowBytes(s[m], 2)[i]
<1>1. n \in Nat /\ DOMAIN s = 1 .. n /\ \A m \in 1 .. n : s[m] \in Int
  OBVIOUS
<1> HIDE DEF n
<1>2. PICK f : Steps(f, "addInt16", w, s, n) /\ f[n] = AddedInt16(w, s)
  BY <1>1, FoldInt16
<1>3. offset(w) \in Nat
  BY OffsetIs
<1> DEFINE Same(k) == Continues(w, f[k]) /\ offset(f[k]) = offset(w) + 2 * k /\ Kept(f[k], k)
           Good == {k \in Nat : k <= n => Same(k)}
<1>4. 0 \in Good
  BY <1>2, <1>3, ContinuesItself DEF Steps
<1>5. ASSUME NEW k \in Nat, k \in Good PROVE k + 1 \in Good
  <2> SUFFICES ASSUME k + 1 <= n PROVE Same(k + 1)
    OBVIOUS
  <2>1. Same(k) /\ IsBuilder(f[k])
    BY <1>1, <1>5 DEF Continues
  <2>2. f[k + 1] = addInt16(f[k], s[k + 1]) /\ s[k + 1] \in Int
    BY <1>1, <1>2 DEF Steps, Write
  <2>3. offset(f[k]) % 2 = 0
    BY <1>3, <2>1
  <2>4. /\ Continues(f[k], f[k + 1]) /\ offset(f[k + 1]) = offset(f[k]) + 2
        /\ \A i \in 1 .. 2 : FromEnd(f[k + 1], offset(f[k + 1]) + 1 - i)
                               = BB!LowBytes(s[k + 1], 2)[i]
    <3> DEFINE d == f[k]
               x == s[k + 1]
               e == f[k + 1]
    <3>1. IsBuilder(d) /\ x \in Int /\ offset(d) % 2 = 0 /\ e = addInt16(d, x)
      BY <2>1, <2>2, <2>3
    <3> HIDE DEF d, x, e
    <3>2. /\ Continues(d, e) /\ offset(e) = offset(d) + 2
          /\ \A i \in 1 .. 2 : FromEnd(e, offset(e) + 1 - i) = BB!LowBytes(x, 2)[i]
      BY <3>1, Adds16
    <3> QED BY <3>2 DEF d, x, e
  <2>5. Continues(w, f[k + 1])
    BY <2>1, <2>4, ContinuesTransitive
  <2>6. offset(f[k + 1]) = offset(w) + 2 * (k + 1)
    BY <1>3, <2>1, <2>4
  <2>7. ASSUME NEW m \in 1 .. k + 1, NEW i \in 1 .. 2
        PROVE  FromEnd(f[k + 1], offset(w) + 2 * m + 1 - i) = BB!LowBytes(s[m], 2)[i]
    <3>1. CASE m = k + 1
      BY <2>4, <2>6, <3>1
    <3>2. CASE m # k + 1
      <4>1. m \in 1 .. k
        BY <3>2
      <4>2. offset(f[k]) = offset(w) + 2 * k
        BY <2>1
      <4>3. offset(w) + 2 * m + 1 - i \in 1 .. offset(f[k])
        BY <1>3, <4>1, <4>2
      <4> QED BY <2>1, <2>4, <4>1, <4>3 DEF Continues, Extends
    <3> QED BY <3>1, <3>2
  <2> QED BY <2>5, <2>6, <2>7
<1>6. n \in Good
  <2> HIDE DEF Good
  <2> QED BY <1>1, <1>4, <1>5, NatInd
<1> QED BY <1>1, <1>2, <1>6 DEF n

LEMMA MultipleOf8 ==
  ASSUME NEW n \in Nat, NEW m \in n .. n + 8 - 1, (m + 0) % 8 = 0
  PROVE  m + 8 \in n + 8 .. n + 15 /\ (m + 8) % 8 = 0
<1> QED OBVIOUS

LEMMA Adds64 ==
  ASSUME NEW w, IsBuilder(w), NEW value \in Longs
  PROVE  LET c == addInt64(w, value)
         IN  /\ Continues(w, c) /\ offset(c) \in offset(w) + 8 .. offset(w) + 15
             /\ offset(c) % 8 = 0 /\ 8 <= c.minalign
<1> DEFINE p == prep(w, 8, 0)
           c == writeInt64(p, value)
<1>1. /\ Continues(w, p) /\ offset(p) \in offset(w) .. offset(w) + 8 - 1
      /\ (offset(p) + 0) % 8 = 0 /\ p.space >= 8 + 0
      /\ 8 <= p.minalign
  BY PrepIs
<1> HIDE DEF p
<1>2. IsBuilder(p) /\ 8 <= p.space
  BY <1>1, OffsetIs DEF Continues
<1>3. Continues(p, c) /\ offset(c) = offset(p) + 8 /\ c.minalign = p.minalign
  BY <1>2, Writes64
<1> HIDE DEF c
<1>4. Continues(w, c)
  BY <1>1, <1>3, ContinuesTransitive
<1>5. offset(w) \in Nat /\ offset(p) \in Nat /\ offset(c) = offset(p) + 8
  BY <1>2, <1>3, OffsetIs
<1>6. offset(c) \in offset(w) + 8 .. offset(w) + 15 /\ offset(c) % 8 = 0
  BY <1>1, <1>5, MultipleOf8
<1> QED BY <1>1, <1>3, <1>4, <1>6 DEF c, p, addInt64

\* A reference counts from where it starts itself.
LEMMA AddsOffset ==
  ASSUME NEW w, IsBuilder(w), NEW target \in Int
  PROVE  LET c == addOffset(w, target)
         IN  /\ Continues(w, c) /\ offset(c) \in offset(w) + 4 .. offset(w) + 7
             /\ offset(c) % 4 = 0 /\ 4 <= c.minalign
             /\ offset(w) % 4 = 0 => offset(c) = offset(w) + 4
             /\ c.minalign = IF 4 > w.minalign THEN 4 ELSE w.minalign
             /\ \A i \in 1 .. 4 :
                  FromEnd(c, offset(c) + 1 - i) = BB!LowBytes(offset(c) - target, 4)[i]
<1> DEFINE p == prep(w, 4, 0)
           value == offset(p) - target + 4
           c == writeInt32(p, value)
<1>1. /\ Continues(w, p) /\ offset(p) \in offset(w) .. offset(w) + 4 - 1
      /\ (offset(p) + 0) % 4 = 0 /\ p.space >= 4 + 0 /\ 4 <= p.minalign
      /\ p.minalign = IF 4 > w.minalign THEN 4 ELSE w.minalign
  BY PrepIs
<1>2. addOffset(w, target) = c
  BY DEF addOffset, BB!SIZEOF_INT
<1> HIDE DEF p
<1>3. IsBuilder(p) /\ 4 <= p.space /\ value \in Int
  BY <1>1, OffsetIs DEF Continues
<1> HIDE DEF value
<1>4. /\ Continues(p, c) /\ offset(c) = offset(p) + 4 /\ c.minalign = p.minalign
      /\ \A i \in 1 .. 4 : FromEnd(c, offset(c) + 1 - i) = BB!LowBytes(value, 4)[i]
  BY <1>3, Writes32
<1> HIDE DEF c
<1>5. Continues(w, c)
  BY <1>1, <1>4, ContinuesTransitive
<1>6. offset(w) \in Nat /\ offset(p) \in Nat /\ offset(c) = offset(p) + 4
  BY <1>3, <1>4, OffsetIs
<1>7. /\ offset(c) \in offset(w) + 4 .. offset(w) + 7 /\ offset(c) % 4 = 0
      /\ offset(w) % 4 = 0 => offset(p) = offset(w)
  <2>1. /\ offset(p) + 4 \in offset(w) + 4 .. offset(w) + 7
        /\ (offset(p) + 4) % 4 = 0
        /\ offset(w) % 4 = 0 => offset(p) = offset(w)
    BY <1>1, <1>6, MultipleOf4
  <2> QED BY <1>6, <2>1
<1>8. value = offset(c) - target
  BY <1>6 DEF value
<1>9. offset(w) % 4 = 0 => offset(c) = offset(w) + 4
  BY <1>6, <1>7
<1>10. 4 <= c.minalign /\ c.minalign = IF 4 > w.minalign THEN 4 ELSE w.minalign
  BY <1>1, <1>4
<1>11. \A i \in 1 .. 4 : FromEnd(c, offset(c) + 1 - i) = BB!LowBytes(offset(c) - target, 4)[i]
  BY <1>4, <1>8
<1> QED BY <1>2, <1>5, <1>7, <1>9, <1>10, <1>11

(***************************************************************************)
(* Fields.                                                                 *)
(***************************************************************************)
\* What may happen to the table under construction when a field is set: it
\* is left out, or it is written at a multiple of its size.
Sets(w, c, voffset, size) ==
  \/ c = w
  \/ \E d : /\ Continues(w, d) /\ offset(d) % size = 0 /\ size <= d.minalign
            /\ offset(d) \in offset(w) + size .. offset(w) + 2 * size - 1
            /\ c = slot(d, voffset)

LEMMA SetsField ==
  ASSUME NEW w, IsBuilder(w), NEW voffset \in Nat, NEW value \in Int,
         NEW long \in Longs, NEW zero \in Longs
  PROVE  /\ Sets(w, addFieldInt8(w, voffset, value, 0), voffset, 1)
         /\ Sets(w, addFieldInt16(w, voffset, value, 0), voffset, 2)
         /\ Sets(w, addFieldInt32(w, voffset, value, 0), voffset, 4)
         /\ Sets(w, addFieldInt64(w, voffset, long, zero), voffset, 8)
         /\ Sets(w, addFieldFloat32(w, voffset, value, 0), voffset, 4)
         /\ Sets(w, addFieldFloat64(w, voffset, long, zero), voffset, 8)
         /\ Sets(w, addFieldOffset(w, voffset, value, 0), voffset, 4)
<1>1. offset(w) \in Nat
  BY OffsetIs
<1>2. Sets(w, addFieldInt8(w, voffset, value, 0), voffset, 1)
  <2>1. Continues(w, addInt8(w, value)) /\ offset(addInt8(w, value)) = offset(w) + 1
    BY Adds8
  <2>3. 1 <= addInt8(w, value).minalign
    <3>1. addInt8(w, value).minalign \in {1, 2, 4, 8}
      BY <2>1 DEF Continues, IsBuilder, Builders
    <3> QED BY <3>1
  <2>2. /\ offset(addInt8(w, value)) % 1 = 0
        /\ offset(addInt8(w, value)) \in offset(w) + 1 .. offset(w) + 2 * 1 - 1
    BY <1>1, <2>1
  <2> QED BY <2>1, <2>2, <2>3 DEF Sets, addFieldInt8
<1>3. Sets(w, addFieldInt16(w, voffset, value, 0), voffset, 2)
  <2>1. /\ Continues(w, addInt16(w, value)) /\ offset(addInt16(w, value)) % 2 = 0
        /\ 2 <= addInt16(w, value).minalign
        /\ offset(addInt16(w, value)) \in offset(w) + 2 .. offset(w) + 3
    BY Adds16
  <2>2. offset(addInt16(w, value)) \in offset(w) + 2 .. offset(w) + 2 * 2 - 1
    BY <2>1
  <2> QED BY <2>1, <2>2 DEF Sets, addFieldInt16
<1>4. /\ Sets(w, addFieldInt32(w, voffset, value, 0), voffset, 4)
      /\ Sets(w, addFieldFloat32(w, voffset, value, 0), voffset, 4)
  <2>1. /\ Continues(w, addInt32(w, value)) /\ offset(addInt32(w, value)) % 4 = 0
        /\ 4 <= addInt32(w, value).minalign
        /\ offset(addInt32(w, value)) \in offset(w) + 4 .. offset(w) + 7
    BY Adds32
  <2>2. offset(addInt32(w, value)) \in offset(w) + 4 .. offset(w) + 2 * 4 - 1
    BY <2>1
  <2>3. addFloat32(w, value) = addInt32(w, value)
    BY DEF addFloat32, addInt32, writeFloat32, writeInt32, BB!writeFloat32
  <2>4. Sets(w, addFieldInt32(w, voffset, value, 0), voffset, 4)
    BY <2>1, <2>2 DEF Sets, addFieldInt32
  <2>5. Sets(w, addFieldFloat32(w, voffset, value, 0), voffset, 4)
    BY <2>1, <2>2, <2>3 DEF Sets, addFieldFloat32
  <2> QED BY <2>4, <2>5
<1>5. /\ Sets(w, addFieldInt64(w, voffset, long, zero), voffset, 8)
      /\ Sets(w, addFieldFloat64(w, voffset, long, zero), voffset, 8)
  <2>1. /\ Continues(w, addInt64(w, long)) /\ offset(addInt64(w, long)) % 8 = 0
        /\ 8 <= addInt64(w, long).minalign
        /\ offset(addInt64(w, long)) \in offset(w) + 8 .. offset(w) + 15
    BY Adds64
  <2>2. offset(addInt64(w, long)) \in offset(w) + 8 .. offset(w) + 2 * 8 - 1
    BY <2>1
  <2>3. addFloat64(w, long) = addInt64(w, long)
    BY DEF addFloat64, addInt64, writeFloat64, writeInt64, BB!writeFloat64, BB!writeInt64
  <2>4. Sets(w, addFieldInt64(w, voffset, long, zero), voffset, 8)
    BY <2>1, <2>2 DEF Sets, addFieldInt64
  <2>5. Sets(w, addFieldFloat64(w, voffset, long, zero), voffset, 8)
    BY <2>1, <2>2, <2>3 DEF Sets, addFieldFloat64
  <2> QED BY <2>4, <2>5
<1>6. Sets(w, addFieldOffset(w, voffset, value, 0), voffset, 4)
  <2>1. /\ Continues(w, addOffset(w, value)) /\ offset(addOffset(w, value)) % 4 = 0
        /\ 4 <= addOffset(w, value).minalign
        /\ offset(addOffset(w, value)) \in offset(w) + 4 .. offset(w) + 7
    BY AddsOffset
  <2>2. offset(addOffset(w, value)) \in offset(w) + 4 .. offset(w) + 2 * 4 - 1
    BY <2>1
  <2> QED BY <2>1, <2>2 DEF Sets, addFieldOffset
<1> QED BY <1>2, <1>3, <1>4, <1>5, <1>6

(***************************************************************************)
(* Reading what was written.                                               *)
(***************************************************************************)
Peek(w, d) == BB!readUint8(w.bb, Size(w) - d)

LEMMA PeekIs ==
  ASSUME NEW w, IsBuilder(w), NEW d \in Int
  PROVE  /\ d \in 1 .. Size(w) => Peek(w, d) = FromEnd(w, d) /\ FromEnd(w, d) \in Byte
         /\ d <= 0 => Peek(w, d) = 0
         /\ Peek(w, d) \in Byte
<1>1. /\ Size(w) \in Nat /\ BB!capacity(w.bb) = Size(w)
      /\ \A i \in 1 .. Size(w) : w.bb.bytes_[i] \in Byte
  BY OffsetIs, LenProperties DEF Size
<1>2. CASE d \in 1 .. Size(w)
  <2>1. /\ Size(w) - d \in 0 .. BB!capacity(w.bb) - 1
        /\ Size(w) - d + 1 \in 1 .. Size(w)
    BY <1>1, <1>2
  <2>2. Peek(w, d) = FromEnd(w, d)
    BY <2>1 DEF Peek, FromEnd, BB!readUint8
  <2>3. FromEnd(w, d) \in Byte
    BY <1>1, <2>1 DEF FromEnd
  <2> QED BY <1>2, <2>2, <2>3
<1>3. CASE d \notin 1 .. Size(w)
  <2>1. Size(w) - d \notin 0 .. BB!capacity(w.bb) - 1
    BY <1>1, <1>3
  <2>2. Peek(w, d) = 0
    BY <2>1 DEF Peek, BB!readUint8
  <2> QED BY <1>3, <2>2 DEF Byte
<1> QED BY <1>2, <1>3

LEMMA PeekStays ==
  ASSUME NEW w, IsBuilder(w), NEW c, IsBuilder(c), Extends(w, c),
         NEW d \in Int, d <= offset(w)
  PROVE  Peek(c, d) = Peek(w, d)
<1>1. /\ offset(w) \in Nat /\ offset(w) <= Size(w) /\ offset(c) <= Size(c)
      /\ offset(c) \in Nat /\ Size(w) \in Nat /\ Size(c) \in Nat
  BY OffsetIs
<1>2. CASE d <= 0
  BY <1>2, PeekIs
<1>3. CASE d >= 1
  <2>1. d \in 1 .. offset(w) /\ d \in 1 .. Size(w) /\ d \in 1 .. Size(c)
    BY <1>1, <1>3 DEF Extends
  <2> QED BY <2>1, PeekIs DEF Extends
<1> QED BY <1>2, <1>3

\* The numbers read at a distance from the end are made of the bytes there.
LEMMA ReadsPeek ==
  ASSUME NEW w, IsBuilder(w), NEW d \in Int
  PROVE  /\ BB!readUint8(w.bb, Size(w) - d) = Peek(w, d)
         /\ BB!readUint16(w.bb, Size(w) - d) = Peek(w, d) + 256 * Peek(w, d - 1)
         /\ BB!readUint8(w.bb, Size(w) - d + 2) = Peek(w, d - 2)
         /\ BB!readUint8(w.bb, Size(w) - d + 3) = Peek(w, d - 3)
<1>1. /\ Size(w) - d + 1 = Size(w) - (d - 1)
      /\ Size(w) - d + 2 = Size(w) - (d - 2)
      /\ Size(w) - d + 3 = Size(w) - (d - 3)
  BY OffsetIs
<1> QED BY <1>1 DEF Peek, BB!readUint16

Signed16(u) == IF u < 32768 THEN u ELSE u - 65536

Int16(low, high) == Signed16(low + 256 * high)

LEMMA ReadsInt16 ==
  ASSUME NEW w, IsBuilder(w), NEW d \in Int
  PROVE  BB!readInt16(w.bb, Size(w) - d) = Int16(Peek(w, d), Peek(w, d - 1))
<1>1. BB!readUint16(w.bb, Size(w) - d) = Peek(w, d) + 256 * Peek(w, d - 1)
  BY ReadsPeek
<1>2. BB!readInt16(w.bb, Size(w) - d) = Signed16(BB!readUint16(w.bb, Size(w) - d))
  BY DEF BB!readInt16, Signed16
<1> QED BY <1>1, <1>2 DEF Int16

LEMMA ReadsInt32 ==
  ASSUME NEW w, IsBuilder(w), NEW d \in Int
  PROVE  BB!readInt32(w.bb, Size(w) - d) =
           Peek(w, d) + 256 * Peek(w, d - 1) + 65536 * Peek(w, d - 2)
             + 16777216 * (IF Peek(w, d - 3) < 128 THEN Peek(w, d - 3)
                           ELSE Peek(w, d - 3) - 256)
<1>1. BB!readInt8(w.bb, Size(w) - d + 3) =
        IF Peek(w, d - 3) < 128 THEN Peek(w, d - 3) ELSE Peek(w, d - 3) - 256
  BY ReadsPeek DEF BB!readInt8
<1> QED BY <1>1, ReadsPeek DEF BB!readInt32

LEMMA ReadsStay ==
  ASSUME NEW w, IsBuilder(w), NEW c, IsBuilder(c), Extends(w, c),
         NEW d \in Int, d <= offset(w)
  PROVE  /\ BB!readInt16(c.bb, Size(c) - d) = BB!readInt16(w.bb, Size(w) - d)
         /\ BB!readInt32(c.bb, Size(c) - d) = BB!readInt32(w.bb, Size(w) - d)
<1>1. offset(w) \in Nat
  BY OffsetIs
<1>2. /\ Peek(c, d) = Peek(w, d) /\ Peek(c, d - 1) = Peek(w, d - 1)
      /\ Peek(c, d - 2) = Peek(w, d - 2) /\ Peek(c, d - 3) = Peek(w, d - 3)
  BY <1>1, PeekStays
<1> QED BY <1>2, ReadsInt16, ReadsInt32

LEMMA Wrapped ==
  ASSUME NEW q \in Int, -128 <= q, q <= 127
  PROVE  q % 256 = IF q < 0 THEN q + 256 ELSE q
<1>1. CASE q < 0
  BY <1>1
<1>2. CASE q >= 0
  BY <1>2
<1> QED BY <1>1, <1>2

Fits16(value) == -32768 <= value /\ value <= 32767

\* A 16-bit number comes back as it was.
LEMMA Int16Back ==
  ASSUME NEW value \in Int, Fits16(value)
  PROVE  Int16(BB!LowBytes(value, 2)[1], BB!LowBytes(value, 2)[2]) = value
<1> DEFINE q == value \div 256
           r == value % 256
<1>1. BB!LowBytes(value, 2)[1] = (value \div 1) % 256
  BY DEF BB!LowBytes, BB!Weight
<1>2. BB!LowBytes(value, 2)[2] = q % 256
  BY DEF BB!LowBytes, BB!Weight
<1>3. (value \div 1) % 256 = r
  OBVIOUS
<1>4. q \in Int /\ -128 <= q /\ q <= 127
  BY DEF Fits16
<1>5. r \in Int /\ 0 <= r /\ r <= 255
  OBVIOUS
<1>6. value = 256 * q + r
  OBVIOUS
<1> HIDE DEF q, r
<1> DEFINE h == q % 256
<1>7. h = IF q < 0 THEN q + 256 ELSE q
  BY <1>4, Wrapped
<1>8. BB!LowBytes(value, 2)[1] = r /\ BB!LowBytes(value, 2)[2] = h
  BY <1>1, <1>2, <1>3
<1> HIDE DEF h
<1>9. Signed16(r + 256 * h) = 256 * q + r
  BY <1>4, <1>5, <1>7 DEF Signed16
<1> QED BY <1>6, <1>8, <1>9 DEF Int16

Fits32(value) == -2147483648 <= value /\ value <= 2147483647

Signed8(u) == IF u < 128 THEN u ELSE u - 256

Int32(one, two, three, four) ==
  one + 256 * two + 65536 * three + 16777216 * Signed8(four)

\* Byte by byte: what is left of the number after each of its bytes.
LEMMA Divided ==
  ASSUME NEW value \in Int
  PROVE  /\ value \div 256 \in Int /\ value % 256 \in Byte
         /\ value = 256 * (value \div 256) + (value % 256)
<1>1. value \div 256 \in Int
  OBVIOUS
<1>2. value % 256 \in Byte
  BY DEF Byte
<1>3. value = 256 * (value \div 256) + (value % 256)
  OBVIOUS
<1> QED BY <1>1, <1>2, <1>3

LEMMA QuotientIs ==
  ASSUME NEW value \in Int, NEW q \in Int, NEW r \in Int, NEW n \in {65536, 16777216},
         value = n * q + r, 0 <= r, r < n
  PROVE  value \div n = q
<1>1. CASE n = 65536
  BY <1>1
<1>2. CASE n = 16777216
  BY <1>2
<1> QED BY <1>1, <1>2

LEMMA DividedAgain ==
  ASSUME NEW value \in Int
  PROVE  /\ value \div 65536 = (value \div 256) \div 256
         /\ value \div 16777216 = (value \div 65536) \div 256
<1> DEFINE x == value \div 256
           y == x \div 256
           z == y \div 256
           p == value % 256
           q == x % 256
           r == y % 256
<1>1. x \in Int /\ p \in Byte /\ value = 256 * x + p
  BY Divided
<1>2. y \in Int /\ q \in Byte /\ x = 256 * y + q
  <2> HIDE DEF x
  <2> QED BY <1>1, Divided
<1>3. z \in Int /\ r \in Byte /\ y = 256 * z + r
  <2> HIDE DEF y
  <2> QED BY <1>2, Divided
<1> HIDE DEF x, y, z, p, q, r
<1>4. value \div 65536 = y
  <2>1. /\ p + 256 * q \in Int /\ 0 <= p + 256 * q /\ p + 256 * q < 65536
        /\ value = 65536 * y + (p + 256 * q)
    BY <1>1, <1>2 DEF Byte
  <2> QED BY <1>2, <2>1, QuotientIs
<1>5. value \div 16777216 = z
  <2>1. /\ p + 256 * q + 65536 * r \in Int /\ 0 <= p + 256 * q + 65536 * r
        /\ p + 256 * q + 65536 * r < 16777216
        /\ value = 16777216 * z + (p + 256 * q + 65536 * r)
    BY <1>1, <1>2, <1>3 DEF Byte
  <2> QED BY <1>3, <2>1, QuotientIs
<1> QED BY <1>4, <1>5 DEF x, y, z

\* A 32-bit number comes back as it was.
LEMMA Int32Back ==
  ASSUME NEW value \in Int, Fits32(value)
  PROVE  LET l == BB!LowBytes(value, 4) IN Int32(l[1], l[2], l[3], l[4]) = value
<1> DEFINE x == value \div 256
           y == value \div 65536
           z == value \div 16777216
           l == BB!LowBytes(value, 4)
<1>1. /\ l[1] = (value \div 1) % 256 /\ l[2] = x % 256
      /\ l[3] = y % 256 /\ l[4] = z % 256
  BY DEF BB!LowBytes, BB!Weight
<1>2. (value \div 1) % 256 = value % 256
  OBVIOUS
<1>3. y = x \div 256 /\ z = y \div 256
  BY DividedAgain
<1>4. -128 <= z /\ z <= 127
  BY DEF Fits32
<1> HIDE DEF l, x, y, z
<1>5. x \in Int /\ value % 256 \in Byte /\ value = 256 * x + (value % 256)
  BY Divided DEF x
<1>6. y \in Int /\ x % 256 \in Byte /\ x = 256 * y + (x % 256)
  BY <1>3, <1>5, Divided
<1>7. z \in Int /\ y % 256 \in Byte /\ y = 256 * z + (y % 256)
  <2>1. y \div 256 \in Int /\ y % 256 \in Byte /\ y = 256 * (y \div 256) + (y % 256)
    BY <1>6, Divided
  <2> QED BY <1>3, <2>1
<1>8. Signed8(z % 256) = z
  <2>1. z % 256 = IF z < 0 THEN z + 256 ELSE z
    BY <1>4, <1>7, Wrapped
  <2> QED BY <1>4, <1>7, <2>1 DEF Signed8
<1> DEFINE p == value % 256
           q == x % 256
           r == y % 256
<1> HIDE DEF p, q, r
<1>9. l[1] = p /\ l[2] = q /\ l[3] = r /\ Signed8(l[4]) = z
  BY <1>1, <1>2, <1>8 DEF p, q, r
<1>10. p \in Byte /\ q \in Byte /\ r \in Byte
  BY <1>5, <1>6, <1>7 DEF p, q, r
<1>11. value = 256 * x + p /\ x = 256 * y + q /\ y = 256 * z + r
  BY <1>5, <1>6, <1>7 DEF p, q, r
<1>12. value = p + 256 * q + 65536 * r + 16777216 * z
  <2>1. /\ p \in Int /\ q \in Int /\ r \in Int
        /\ x \in Int /\ y \in Int /\ z \in Int
    BY <1>5, <1>6, <1>7, <1>10 DEF Byte
  <2>2. x = 65536 * z + 256 * r + q
    BY <1>11, <2>1
  <2> QED BY <1>11, <2>1, <2>2
<1> QED BY <1>9, <1>12 DEF Int32, l

\* The four bytes of a number, wherever they are.
LEMMA Int32Reads ==
  ASSUME NEW w, IsBuilder(w), NEW d \in Int, 4 <= d, d <= Size(w),
         NEW value \in Int, Fits32(value),
         \A i \in 1 .. 4 : FromEnd(w, d + 1 - i) = BB!LowBytes(value, 4)[i]
  PROVE  BB!readInt32(w.bb, Size(w) - d) = value
<1> DEFINE l == BB!LowBytes(value, 4)
<1>1. Size(w) \in Nat
  BY OffsetIs
<1>2. /\ d \in 1 .. Size(w) /\ d - 1 \in 1 .. Size(w)
      /\ d - 2 \in 1 .. Size(w) /\ d - 3 \in 1 .. Size(w)
  BY <1>1
<1>3. /\ Peek(w, d) = FromEnd(w, d) /\ Peek(w, d - 1) = FromEnd(w, d - 1)
      /\ Peek(w, d - 2) = FromEnd(w, d - 2) /\ Peek(w, d - 3) = FromEnd(w, d - 3)
  BY <1>2, PeekIs
<1>4. d + 1 - 1 = d /\ d + 1 - 2 = d - 1 /\ d + 1 - 3 = d - 2 /\ d + 1 - 4 = d - 3
  OBVIOUS
<1>5. /\ FromEnd(w, d + 1 - 1) = l[1] /\ FromEnd(w, d + 1 - 2) = l[2]
      /\ FromEnd(w, d + 1 - 3) = l[3] /\ FromEnd(w, d + 1 - 4) = l[4]
  <2>1. 1 \in 1 .. 4 /\ 2 \in 1 .. 4 /\ 3 \in 1 .. 4 /\ 4 \in 1 .. 4
    OBVIOUS
  <2> HIDE DEF l
  <2>2. \A i \in 1 .. 4 : FromEnd(w, d + 1 - i) = l[i]
    BY DEF l
  <2> QED BY <2>1, <2>2
<1>6. /\ Peek(w, d) = l[1] /\ Peek(w, d - 1) = l[2]
      /\ Peek(w, d - 2) = l[3] /\ Peek(w, d - 3) = l[4]
  BY <1>3, <1>4, <1>5
<1>7. Int32(l[1], l[2], l[3], l[4]) = value
  BY Int32Back
<1> HIDE DEF l
<1> QED BY <1>6, <1>7, ReadsInt32 DEF Int32, Signed8

(***************************************************************************)
(* Tables.                                                                 *)
(***************************************************************************)
\* Everything but the table under construction.
SameBuffer(w, c) == c.bb = w.bb /\ c.space = w.space /\ c.minalign = w.minalign

LEMMA SameBufferExtends ==
  ASSUME NEW w, IsBuilder(w), NEW c \in Builders, SameBuffer(w, c)
  PROVE  IsBuilder(c) /\ Extends(w, c) /\ offset(c) = offset(w) /\ Size(c) = Size(w)
<1>1. /\ Size(c) = Size(w) /\ offset(c) = offset(w) /\ c.minalign = w.minalign
      /\ IsBuilder(c)
  BY DEF SameBuffer, Size, offset, IsBuilder
<1>2. \A i \in 1 .. offset(w) : FromEnd(c, i) = FromEnd(w, i)
  BY <1>1 DEF SameBuffer, FromEnd
<1> QED BY <1>1, <1>2, OffsetIs DEF Extends

WithEntry(v, x, n) == [i \in DOMAIN v \cup {x} |-> IF i = x THEN n ELSE v[i]]

LEMMA VTableIs ==
  ASSUME NEW v \in VTables, NEW x \in Nat, NEW n \in Int
  PROVE  WithEntry(v, x, n) \in VTables
<1>1. PICK D \in SUBSET Nat : v \in [D -> Int]
  BY DEF VTables
<1>2. [i \in D \cup {x} |-> IF i = x THEN n ELSE v[i]] \in [D \cup {x} -> Int]
  BY <1>1
<1>3. D \cup {x} \in SUBSET Nat /\ DOMAIN v = D
  BY <1>1
<1> QED BY <1>2, <1>3 DEF VTables, WithEntry

SlotOf(w, voffset) == WithEntry(w.vtable, voffset, offset(w))

LEMMA SlotIs ==
  ASSUME NEW w, IsBuilder(w), NEW voffset \in Nat
  PROVE  LET c == slot(w, voffset)
         IN  /\ IsBuilder(c) /\ Extends(w, c) /\ offset(c) = offset(w) /\ SameBuffer(w, c)
             /\ c.vtable = SlotOf(w, voffset) /\ c.minalign = w.minalign
             /\ c.vtable_in_use = w.vtable_in_use /\ c.isNested = w.isNested
             /\ c.object_start = w.object_start /\ c.vtables = w.vtables
             /\ c.force_defaults = w.force_defaults
<1> DEFINE new == SlotOf(w, voffset)
           c == [w EXCEPT !.vtable = new]
<1>1. slot(w, voffset) = c
  BY DEF slot, SlotOf, WithEntry, IsBuilder, Builders
<1>2. new \in VTables
  <2>1. w.vtable \in VTables /\ offset(w) \in Int
    BY OffsetIs DEF IsBuilder, Builders
  <2> QED BY <2>1, VTableIs DEF SlotOf
<1> HIDE DEF new
<1>3. /\ c \in Builders /\ SameBuffer(w, c) /\ c.vtable = new /\ c.minalign = w.minalign
      /\ c.vtable_in_use = w.vtable_in_use /\ c.isNested = w.isNested
      /\ c.object_start = w.object_start /\ c.vtables = w.vtables
      /\ c.force_defaults = w.force_defaults
  BY <1>2 DEF IsBuilder, Builders, SameBuffer
<1> HIDE DEF c
<1>4. IsBuilder(c) /\ Extends(w, c) /\ offset(c) = offset(w)
  BY <1>3, SameBufferExtends
<1> QED BY <1>1, <1>3, <1>4 DEF new

LEMMA StartedIs ==
  ASSUME NEW w, IsBuilder(w), NEW n \in Nat
  PROVE  LET c == startObject(w, n)
         IN  /\ IsBuilder(c) /\ Extends(w, c) /\ offset(c) = offset(w) /\ SameBuffer(w, c)
             /\ DOMAIN c.vtable = DOMAIN w.vtable \cup 0 .. n - 1
             /\ \A i \in 0 .. n - 1 : c.vtable[i] = 0
             /\ c.minalign = w.minalign
             /\ c.vtable_in_use = n /\ c.isNested
             /\ c.object_start = offset(w) /\ c.vtables = w.vtables
             /\ c.force_defaults = w.force_defaults
<1> DEFINE new == [i \in DOMAIN w.vtable \cup 0 .. n - 1 |-> IF i < n THEN 0 ELSE w.vtable[i]]
           c == [w EXCEPT !.vtable = new, !.vtable_in_use = n, !.isNested = TRUE,
                          !.object_start = offset(w)]
<1>1. startObject(w, n) = c
  BY DEF startObject, IsBuilder, Builders
<1>2. PICK D \in SUBSET Nat : w.vtable \in [D -> Int]
  BY DEF IsBuilder, Builders, VTables
<1>3. /\ new \in [D \cup 0 .. n - 1 -> Int] /\ D \cup 0 .. n - 1 \in SUBSET Nat
      /\ DOMAIN new = DOMAIN w.vtable \cup 0 .. n - 1
      /\ \A i \in 0 .. n - 1 : new[i] = 0
  <2>1. D \cup 0 .. n - 1 \in SUBSET Nat /\ DOMAIN w.vtable = D
    BY <1>2
  <2>2. ASSUME NEW i \in D \cup 0 .. n - 1
        PROVE  (IF i < n THEN 0 ELSE w.vtable[i]) \in Int
    <3>1. i < n \/ i \in D
      OBVIOUS
    <3> QED BY <1>2, <3>1
  <2>5. new \in [D \cup 0 .. n - 1 -> Int]
    BY <2>1, <2>2
  <2>3. DOMAIN new = DOMAIN w.vtable \cup 0 .. n - 1
    OBVIOUS
  <2>4. \A i \in 0 .. n - 1 : new[i] = 0
    OBVIOUS
  <2> HIDE DEF new
  <2> QED BY <2>1, <2>3, <2>4, <2>5
<1>4. new \in VTables
  BY <1>3 DEF VTables
<1> HIDE DEF new
<1>5. /\ c \in Builders /\ SameBuffer(w, c) /\ c.vtable = new /\ c.minalign = w.minalign
      /\ c.vtable_in_use = n /\ c.isNested
      /\ c.object_start = offset(w) /\ c.vtables = w.vtables
      /\ c.force_defaults = w.force_defaults
  <2>1. w \in Builders /\ offset(w) \in Int
    BY OffsetIs DEF IsBuilder
  <2>2. c \in Builders
    BY <1>4, <2>1 DEF Builders
  <2> QED BY <2>1, <2>2 DEF Builders, SameBuffer
<1> HIDE DEF c
<1>6. IsBuilder(c) /\ Extends(w, c) /\ offset(c) = offset(w)
  BY <1>5, SameBufferExtends
<1> QED BY <1>1, <1>3, <1>5, <1>6

\* What setting a field leaves as it was.
SameTable(w, c) ==
  /\ DOMAIN w.vtable \subseteq DOMAIN c.vtable
  /\ c.vtable_in_use = w.vtable_in_use
  /\ c.isNested = w.isNested
  /\ c.object_start = w.object_start
  /\ c.vtables = w.vtables
  /\ c.force_defaults = w.force_defaults

LEMMA SetsExtends ==
  ASSUME NEW w, IsBuilder(w), NEW c, NEW voffset \in Nat, NEW size \in Nat,
         Sets(w, c, voffset, size)
  PROVE  IsBuilder(c) /\ Extends(w, c) /\ SameTable(w, c)
<1>1. CASE c = w
  BY <1>1, ContinuesItself DEF Continues, SameTable
<1>2. ASSUME NEW d, Continues(w, d), c = slot(d, voffset)
      PROVE  IsBuilder(c) /\ Extends(w, c) /\ SameTable(w, c)
  <2>1. IsBuilder(d) /\ Extends(w, d) /\ SameRest(w, d)
    BY <1>2 DEF Continues
  <2>2. /\ IsBuilder(c) /\ Extends(d, c) /\ offset(c) = offset(d)
        /\ c.vtable = SlotOf(d, voffset) /\ c.minalign = d.minalign
        /\ c.vtable_in_use = d.vtable_in_use /\ c.isNested = d.isNested
        /\ c.object_start = d.object_start /\ c.vtables = d.vtables
        /\ c.force_defaults = d.force_defaults
    BY <1>2, <2>1, SlotIs
  <2>3. Extends(w, c)
    BY <2>1, <2>2, OffsetIs DEF Extends
  <2>4. DOMAIN w.vtable \subseteq DOMAIN c.vtable
    BY <2>1, <2>2 DEF SlotOf, WithEntry, SameRest
  <2> QED BY <2>1, <2>2, <2>3, <2>4 DEF SameTable, SameRest
<1> QED BY <1>1, <1>2 DEF Sets

\* The numbers of a vtable, in the order endObject writes them.
VtableNumbers(w) ==
  [i \in 1 .. w.vtable_in_use |->
     IF w.vtable[w.vtable_in_use - i] = 0 THEN 0
     ELSE vtableloc(w) - w.vtable[w.vtable_in_use - i]]
    \o <<vtableloc(w) - w.object_start, (w.vtable_in_use + 2) * 2>>

\* Every field of the table under construction has an entry.
HasEntries(w) == 0 .. w.vtable_in_use - 1 \subseteq DOMAIN w.vtable

LEMMA VtablelocIs ==
  ASSUME NEW w, IsBuilder(w)
  PROVE  vtableloc(w) \in offset(w) + 4 .. offset(w) + 7 /\ vtableloc(w) % 4 = 0
<1> QED BY Adds32 DEF vtableloc

LEMMA NumbersAre ==
  ASSUME NEW w, IsBuilder(w), HasEntries(w)
  PROVE  LET n == w.vtable_in_use
             s == VtableNumbers(w)
         IN  /\ s \in Seq(Int) /\ Len(s) = n + 2
             /\ s[n + 1] = vtableloc(w) - w.object_start
             /\ s[n + 2] = (n + 2) * 2
             /\ \A i \in 1 .. n : s[i] = IF w.vtable[n - i] = 0 THEN 0
                                         ELSE vtableloc(w) - w.vtable[n - i]
<1> DEFINE n == w.vtable_in_use
           Entry(i) == IF w.vtable[n - i] = 0 THEN 0 ELSE vtableloc(w) - w.vtable[n - i]
           entries == [i \in 1 .. n |-> Entry(i)]
           rest == <<vtableloc(w) - w.object_start, (n + 2) * 2>>
<1>1. n \in Nat /\ w.object_start \in Int /\ w.vtable \in VTables
  BY DEF IsBuilder, Builders
<1>2. vtableloc(w) \in Int
  BY VtablelocIs, OffsetIs
<1>3. \A i \in 0 .. n - 1 : w.vtable[i] \in Int
  BY <1>1 DEF VTables, HasEntries
<1>4. ASSUME NEW i \in 1 .. n PROVE Entry(i) \in Int
  <2>1. n - i \in 0 .. n - 1
    BY <1>1
  <2> QED BY <1>2, <1>3, <2>1
<1>5. entries \in Seq(Int) /\ Len(entries) = n /\ \A i \in 1 .. n : entries[i] = Entry(i)
  <2> HIDE DEF Entry
  <2> QED BY <1>1, <1>4, IsASeq
<1>6. /\ rest \in Seq(Int) /\ Len(rest) = 2 /\ rest[1] = vtableloc(w) - w.object_start
      /\ rest[2] = (n + 2) * 2
  <2>1. vtableloc(w) - w.object_start \in Int /\ (n + 2) * 2 \in Int
    BY <1>1, <1>2
  <2> QED BY <2>1
<1>7. VtableNumbers(w) = entries \o rest
  BY DEF VtableNumbers
<1> HIDE DEF entries, rest, Entry, n
<1>8. /\ entries \o rest \in Seq(Int) /\ Len(entries \o rest) = Len(entries) + Len(rest)
      /\ \A i \in 1 .. Len(entries) + Len(rest) :
           (entries \o rest)[i] = IF i <= Len(entries) THEN entries[i]
                                  ELSE rest[i - Len(entries)]
  BY <1>5, <1>6, ConcatProperties
<1>9. /\ n + 1 \in 1 .. Len(entries) + Len(rest) /\ ~(n + 1 <= Len(entries))
      /\ n + 2 \in 1 .. Len(entries) + Len(rest) /\ ~(n + 2 <= Len(entries))
      /\ n + 1 - Len(entries) = 1 /\ n + 2 - Len(entries) = 2
      /\ Len(entries) + Len(rest) = n + 2
  BY <1>1, <1>5, <1>6
<1>10. ASSUME NEW i \in 1 .. n PROVE (entries \o rest)[i] = Entry(i)
  <2>1. i \in 1 .. Len(entries) + Len(rest) /\ i <= Len(entries)
    BY <1>1, <1>5, <1>6
  <2> QED BY <1>5, <1>8, <2>1
<1>11. /\ VtableNumbers(w) \in Seq(Int) /\ Len(VtableNumbers(w)) = n + 2
       /\ VtableNumbers(w)[n + 1] = vtableloc(w) - w.object_start
       /\ VtableNumbers(w)[n + 2] = (n + 2) * 2
  <2> DEFINE all == entries \o rest
             from == Len(entries)
  <2>0. ASSUME NEW j, NEW k, j \in 1 .. from + Len(rest), ~(j <= from), j - from = k
        PROVE  all[j] = rest[k]
    BY <1>8, <2>0
  <2>1. /\ n \in Nat /\ from \in Nat
        /\ n + 1 \in 1 .. from + Len(rest) /\ ~(n + 1 <= from) /\ n + 1 - from = 1
        /\ n + 2 \in 1 .. from + Len(rest) /\ ~(n + 2 <= from) /\ n + 2 - from = 2
    BY <1>1, <1>5, <1>9
  <2> HIDE DEF all, from
  <2>2. all[n + 1] = rest[1] /\ all[n + 2] = rest[2]
    BY <2>0, <2>1
  <2>3. entries \o rest \in Seq(Int) /\ Len(entries \o rest) = n + 2
    BY <1>8, <1>9
  <2> QED BY <1>6, <1>7, <2>2, <2>3 DEF all
<1>12. \A i \in 1 .. n : VtableNumbers(w)[i] = Entry(i)
  BY <1>7, <1>10
<1> QED BY <1>11, <1>12 DEF Entry, n

LEMMA WithVtableIs ==
  ASSUME NEW w, IsBuilder(w), HasEntries(w)
  PROVE  LET v == WithVtable(w)
             s == VtableNumbers(w)
             loc == vtableloc(w)
         IN  /\ Continues(w, v) /\ offset(v) = loc + 2 * (w.vtable_in_use + 2)
             /\ \A m \in 1 .. w.vtable_in_use + 2 :
                  Fits16(s[m]) =>
                    BB!readInt16(v.bb, Size(v) - (loc + 2 * m)) = s[m]
<1> DEFINE start == addInt32(w, 0)
           loc == vtableloc(w)
           s == VtableNumbers(w)
           n == w.vtable_in_use
           v == WithVtable(w)
<1>1. n \in Nat /\ offset(w) \in Nat
  BY OffsetIs DEF IsBuilder, Builders
<1>2. s \in Seq(Int) /\ Len(s) = n + 2
  BY NumbersAre
<1>3. Continues(w, start) /\ offset(start) = loc /\ IsBuilder(start)
  BY Adds32 DEF vtableloc, Continues
<1>4. v = AddedInt16(start, s)
  BY DEF AddedInt16, WithVtable, VtableNumbers, vtableloc, SIZEOF_SHORT
<1>5. loc % 2 = 0 /\ loc \in Nat
  <2>1. loc % 4 = 0 /\ loc \in Nat
    BY <1>1, VtablelocIs
  <2> HIDE DEF loc
  <2> QED BY <2>1
<1> HIDE DEF start, s, v, n
<1>6. /\ Continues(start, v) /\ offset(v) = offset(start) + 2 * Len(s)
      /\ \A m \in 1 .. Len(s), i \in 1 .. 2 :
           FromEnd(v, offset(start) + 2 * m + 1 - i) = BB!LowBytes(s[m], 2)[i]
  <2>1. IsBuilder(start) /\ offset(start) % 2 = 0 /\ s \in Seq(Int)
    BY <1>2, <1>3, <1>5
  <2> HIDE DEF loc
  <2> QED BY <1>4, <2>1, AddedInt16s
<1>7. Continues(w, v) /\ IsBuilder(v)
  BY <1>3, <1>6, ContinuesTransitive DEF Continues
<1>8. offset(v) = loc + 2 * (n + 2)
  BY <1>2, <1>3, <1>6
<1> HIDE DEF loc
<1>9. ASSUME NEW m \in 1 .. n + 2, Fits16(s[m])
      PROVE  BB!readInt16(v.bb, Size(v) - (loc + 2 * m)) = s[m]
  <2> DEFINE d == loc + 2 * m
  <2>1. m \in 1 .. Len(s) /\ d \in Int /\ d = loc + 2 * m + 1 - 1 /\ d - 1 = loc + 2 * m + 1 - 2
    BY <1>1, <1>2, <1>5
  <2>2. d \in 1 .. Size(v) /\ d - 1 \in 1 .. Size(v)
    <3>1. offset(v) <= Size(v) /\ Size(v) \in Nat
      BY <1>7, OffsetIs
    <3> QED BY <1>1, <1>5, <1>8, <3>1
  <2> HIDE DEF d
  <2>3. FromEnd(v, d) = BB!LowBytes(s[m], 2)[1] /\ FromEnd(v, d - 1) = BB!LowBytes(s[m], 2)[2]
    BY <1>3, <1>6, <2>1
  <2>4. Peek(v, d) = BB!LowBytes(s[m], 2)[1] /\ Peek(v, d - 1) = BB!LowBytes(s[m], 2)[2]
    <3>1. d - 1 \in Int
      BY <2>1
    <3> QED BY <1>7, <2>1, <2>2, <2>3, <3>1, PeekIs
  <2>5. BB!readInt16(v.bb, Size(v) - d) = Int16(Peek(v, d), Peek(v, d - 1))
    BY <1>7, <2>1, ReadsInt16
  <2>6. Int16(BB!LowBytes(s[m], 2)[1], BB!LowBytes(s[m], 2)[2]) = s[m]
    <3>1. s[m] \in Int
      BY <1>2, <2>1
    <3> QED BY <1>9, <3>1, Int16Back
  <2> QED BY <2>4, <2>5, <2>6 DEF d
<1>10. \A m \in 1 .. n + 2 :
         Fits16(s[m]) => BB!readInt16(v.bb, Size(v) - (loc + 2 * m)) = s[m]
  BY <1>9
<1>11. Continues(w, v) /\ offset(v) = loc + 2 * (n + 2)
  BY <1>7, <1>8
<1> QED BY <1>10, <1>11 DEF s, v, n, loc

\* A reference that is filled in later touches its own four bytes.
LEMMA PatchedIs ==
  ASSUME NEW v, IsBuilder(v), NEW loc \in Int, 4 <= loc, loc <= offset(v), NEW value \in Int,
         NEW bb, bb = BB!writeInt32(v.bb, Size(v) - loc, value)
  PROVE  /\ bb \in Buffers /\ Len(bb.bytes_) = Size(v)
         /\ \A d \in 1 .. Size(v) :
              bb.bytes_[Size(v) - d + 1] =
                IF d <= loc /\ loc - 3 <= d THEN BB!LowBytes(value, 4)[loc - d + 1]
                ELSE FromEnd(v, d)
<1> DEFINE low == BB!LowBytes(value, 4)
           at == Size(v) - loc
<1>1. low \in Seq(Byte) /\ Len(low) = 4
  BY LowBytesAre
<1>2. /\ Size(v) \in Nat /\ v.bb \in Buffers /\ offset(v) <= Size(v) /\ offset(v) \in Nat
  BY OffsetIs
<1>3. bb = BB!WriteBytes(v.bb, at, low)
  BY DEF BB!writeInt32
<1> HIDE DEF low
<1>4. at \in Nat /\ at + Len(low) <= Len(v.bb.bytes_) /\ Len(v.bb.bytes_) = Size(v)
  BY <1>1, <1>2 DEF Size
<1> HIDE DEF at
<1>5. /\ bb \in Buffers /\ Len(bb.bytes_) = Len(v.bb.bytes_)
      /\ \A i \in 1 .. Len(v.bb.bytes_) :
           bb.bytes_[i] = IF i \in at + 1 .. at + Len(low) THEN low[i - at] ELSE v.bb.bytes_[i]
  <2> DEFINE old == v.bb
             new == BB!WriteBytes(old, at, low)
  <2>1. old \in Buffers /\ at \in Nat /\ at + Len(low) <= Len(old.bytes_) /\ low \in Seq(Byte)
    BY <1>1, <1>2, <1>4
  <2> HIDE DEF old
  <2>2. /\ new \in Buffers /\ Len(new.bytes_) = Len(old.bytes_)
        /\ \A i \in 1 .. Len(old.bytes_) :
             new.bytes_[i] = IF i \in at + 1 .. at + Len(low) THEN low[i - at] ELSE old.bytes_[i]
    BY <2>1, WriteBytesIs
  <2>3. bb = new
    BY <1>3 DEF old
  <2> HIDE DEF new
  <2> QED BY <2>2, <2>3 DEF old
<1>6. ASSUME NEW d \in 1 .. Size(v)
      PROVE  bb.bytes_[Size(v) - d + 1] =
               IF d <= loc /\ loc - 3 <= d THEN low[loc - d + 1] ELSE FromEnd(v, d)
  <2> DEFINE i == Size(v) - d + 1
  <2>1. i \in 1 .. Len(v.bb.bytes_)
    BY <1>2, <1>4
  <2>2. (i \in at + 1 .. at + Len(low)) <=> (d <= loc /\ loc - 3 <= d)
    BY <1>1, <1>2 DEF at
  <2>3. i - at = loc - d + 1
    BY <1>2 DEF at
  <2>4. FromEnd(v, d) = v.bb.bytes_[i]
    BY DEF FromEnd
  <2> HIDE DEF i
  <2>5. bb.bytes_[i] = IF i \in at + 1 .. at + Len(low) THEN low[i - at] ELSE v.bb.bytes_[i]
    BY <1>5, <2>1
  <2> QED BY <2>2, <2>3, <2>4, <2>5 DEF i
<1> QED BY <1>4, <1>5, <1>6 DEF low

\* What endObject does to the builder WithVtable leaves: space, the vtables
\* and the value of the reference depend on whether a vtable is found.
Ended(v, space, bb, vtables) ==
  [v EXCEPT !.space = space, !.bb = bb, !.isNested = FALSE, !.vtables = vtables]

LEMMA EndedIs ==
  ASSUME NEW w, IsBuilder(w), NEW v, Continues(w, v), NEW loc \in Int,
         offset(w) + 4 <= loc, loc <= offset(v), NEW value \in Int,
         NEW bb, bb = BB!writeInt32(v.bb, Size(v) - loc, value),
         NEW space \in Nat, space = v.space \/ space = Size(v) - loc,
         NEW vtables \in Seq(Nat), NEW c, c = Ended(v, space, bb, vtables)
  PROVE  /\ IsBuilder(c) /\ Extends(w, c) /\ Size(c) = Size(v) /\ c.space = space
         /\ offset(c) = Size(v) - space
         /\ \A d \in 1 .. Size(v) :
              FromEnd(c, d) = IF d <= loc /\ loc - 3 <= d THEN BB!LowBytes(value, 4)[loc - d + 1]
                              ELSE FromEnd(v, d)
         /\ c.vtables = vtables /\ ~c.isNested
         /\ c.vtable = w.vtable /\ c.vtable_in_use = w.vtable_in_use
         /\ c.force_defaults = w.force_defaults /\ c.minalign = v.minalign
<1>1. /\ offset(w) \in Nat /\ IsBuilder(v) /\ offset(v) \in Nat /\ Size(v) \in Nat
      /\ offset(v) = Size(v) - v.space /\ v.space \in Nat /\ v.space <= Size(v)
      /\ v \in Builders /\ Size(v) >= 1
  BY OffsetIs DEF Continues, IsBuilder
<1>2. /\ bb \in Buffers /\ Len(bb.bytes_) = Size(v)
      /\ \A d \in 1 .. Size(v) :
           bb.bytes_[Size(v) - d + 1] =
             IF d <= loc /\ loc - 3 <= d THEN BB!LowBytes(value, 4)[loc - d + 1]
             ELSE FromEnd(v, d)
  <2>1. 4 <= loc
    BY <1>1
  <2> QED BY <1>1, <2>1, PatchedIs
<1>3. /\ c \in Builders /\ c.bb = bb /\ c.space = space /\ ~c.isNested /\ c.vtables = vtables
      /\ c.vtable = v.vtable /\ c.vtable_in_use = v.vtable_in_use
      /\ c.force_defaults = v.force_defaults /\ c.minalign = v.minalign
  BY <1>1, <1>2 DEF Builders, Ended
<1>4. Size(c) = Size(v) /\ offset(c) = Size(v) - space
  BY <1>2, <1>3 DEF Size, offset, BB!capacity
<1>5. IsBuilder(c)
  BY <1>1, <1>3, <1>4 DEF IsBuilder
<1>6. ASSUME NEW d \in 1 .. Size(v)
      PROVE  FromEnd(c, d) = IF d <= loc /\ loc - 3 <= d THEN BB!LowBytes(value, 4)[loc - d + 1]
                             ELSE FromEnd(v, d)
  <2>1. FromEnd(c, d) = bb.bytes_[Size(v) - d + 1]
    BY <1>3, <1>4 DEF FromEnd
  <2> QED BY <1>2, <2>1
<1>7. Extends(w, c)
  <2>1. offset(w) <= offset(c) /\ Size(w) <= Size(c) /\ w.minalign <= c.minalign
    BY <1>1, <1>3, <1>4 DEF Continues, Extends
  <2>2. ASSUME NEW d \in 1 .. offset(w) PROVE FromEnd(c, d) = FromEnd(w, d)
    <3>1. d \in 1 .. Size(v) /\ ~(loc - 3 <= d)
      BY <1>1 DEF Continues, Extends
    <3>2. FromEnd(c, d) = FromEnd(v, d)
      BY <1>6, <3>1
    <3> QED BY <3>2 DEF Continues, Extends
  <2> QED BY <2>1, <2>2 DEF Extends
<1> QED BY <1>3, <1>4, <1>5, <1>6, <1>7 DEF Continues, SameRest

Shared(v) == ExistingVtables(v) # {}

\* The vtable the table refers to.
VtableOf(v) == IF Shared(v) THEN v.vtables[Min(ExistingVtables(v))] ELSE offset(v)

LEMMA VtableOfIs ==
  ASSUME NEW v, IsBuilder(v)
  PROVE  /\ VtableOf(v) \in Nat
         /\ Shared(v) => \E i \in ExistingVtables(v) : VtableOf(v) = v.vtables[i]
<1>1. v.vtables \in Seq(Nat) /\ offset(v) \in Nat
  BY OffsetIs DEF IsBuilder, Builders
<1>2. CASE Shared(v)
  <2>1. ExistingVtables(v) \subseteq 1 .. Len(v.vtables) /\ ExistingVtables(v) # {}
    BY <1>2 DEF ExistingVtables, Shared
  <2>2. Min(ExistingVtables(v)) \in ExistingVtables(v)
    <3>1. 1 .. Len(v.vtables) \subseteq Nat
      OBVIOUS
    <3> QED BY <2>1, <3>1, MinIs
  <2> QED BY <1>1, <1>2, <2>1, <2>2 DEF VtableOf
<1>3. CASE ~Shared(v)
  BY <1>1, <1>3 DEF VtableOf
<1> QED BY <1>2, <1>3

\* The vtables known afterwards.
Remembered(w, v) == IF Shared(v) THEN w.vtables ELSE Append(w.vtables, offset(v))

\* endObject: the reference at the table's place, and nothing else, changes
\* in what WithVtable wrote; a vtable found before is not written again.
LEMMA EndObjectIs ==
  ASSUME NEW w, IsBuilder(w), HasEntries(w), NEW c, c = endObject(w),
         NEW v, v = WithVtable(w), NEW loc, loc = vtableloc(w)
  PROVE  /\ IsBuilder(c) /\ Extends(w, c) /\ Size(c) = Size(v)
         /\ offset(c) = IF Shared(v) THEN loc ELSE offset(v)
         /\ \A d \in 1 .. Size(v) :
              FromEnd(c, d) = IF d <= loc /\ loc - 3 <= d
                              THEN BB!LowBytes(VtableOf(v) - loc, 4)[loc - d + 1]
                              ELSE FromEnd(v, d)
         /\ c.vtables = Remembered(w, v)
         /\ ~c.isNested
         /\ c.vtable = w.vtable /\ c.vtable_in_use = w.vtable_in_use
         /\ c.force_defaults = w.force_defaults /\ c.minalign = v.minalign
<1> DEFINE space == IF Shared(v) THEN Size(v) - loc ELSE v.space
           value == VtableOf(v) - loc
           bb == BB!writeInt32(v.bb, Size(v) - loc, value)
           vtables == IF Shared(v) THEN w.vtables ELSE Append(w.vtables, offset(v))
<1>1. Continues(w, v) /\ offset(v) = loc + 2 * (w.vtable_in_use + 2)
  BY WithVtableIs
<1>2. /\ loc \in offset(w) + 4 .. offset(w) + 7 /\ offset(w) \in Nat /\ IsBuilder(v)
      /\ w.vtable_in_use \in Nat
  BY <1>1, VtablelocIs, OffsetIs DEF Continues, IsBuilder, Builders
<1>3. /\ loc \in Nat /\ offset(w) + 4 <= loc /\ loc <= offset(v)
      /\ offset(v) \in Nat /\ Size(v) \in Nat /\ offset(v) = Size(v) - v.space
      /\ v.space \in Nat /\ v.space <= Size(v) /\ BB!capacity(v.bb) = Size(v)
      /\ v.vtables = w.vtables /\ v.vtables \in Seq(Nat) /\ v \in Builders
  <2>1. loc <= offset(v) /\ loc \in Nat /\ offset(w) + 4 <= loc
    BY <1>1, <1>2
  <2>2. v \in Builders /\ v.vtables = w.vtables
    BY <1>1 DEF Continues, SameRest, IsBuilder
  <2>3. v.vtables \in Seq(Nat)
    BY <2>2 DEF Builders
  <2> QED BY <1>2, <2>1, <2>2, <2>3, OffsetIs DEF IsBuilder
<1>4. value \in Int
  BY <1>2, <1>3, VtableOfIs
<1>5. space \in Nat /\ (space = v.space \/ space = Size(v) - loc)
  BY <1>3
<1>6. vtables \in Seq(Nat)
  BY <1>3
<1>7. c = Ended(v, space, bb, vtables)
  <2>1. CASE Shared(v)
    <3>1. c = [v EXCEPT !.space = Size(v) - loc, !.bb = bb, !.isNested = FALSE]
      BY <1>3, <2>1 DEF endObject, Shared, VtableOf, Builders
    <3>2. [v EXCEPT !.space = Size(v) - loc, !.bb = bb, !.isNested = FALSE]
            = [v EXCEPT !.space = space, !.bb = bb, !.isNested = FALSE, !.vtables = vtables]
      BY <1>3, <2>1 DEF Builders
    <3> QED BY <3>1, <3>2 DEF Ended
  <2>2. CASE ~Shared(v)
    <3>1. c = [v EXCEPT !.vtables = Append(v.vtables, offset(v)), !.bb = bb, !.isNested = FALSE]
      BY <1>3, <2>2 DEF endObject, Shared, VtableOf, Builders
    <3>2. [v EXCEPT !.vtables = Append(v.vtables, offset(v)), !.bb = bb, !.isNested = FALSE]
            = [v EXCEPT !.space = space, !.bb = bb, !.isNested = FALSE, !.vtables = vtables]
      BY <1>3, <2>2 DEF Builders
    <3> QED BY <3>1, <3>2 DEF Ended
  <2> QED BY <2>1, <2>2
<1> HIDE DEF space, value, vtables
<1>8. /\ IsBuilder(c) /\ Extends(w, c) /\ Size(c) = Size(v) /\ c.space = space
      /\ offset(c) = Size(v) - space
      /\ \A d \in 1 .. Size(v) :
           FromEnd(c, d) = IF d <= loc /\ loc - 3 <= d THEN BB!LowBytes(value, 4)[loc - d + 1]
                           ELSE FromEnd(v, d)
      /\ c.vtables = vtables /\ ~c.isNested
      /\ c.vtable = w.vtable /\ c.vtable_in_use = w.vtable_in_use
      /\ c.force_defaults = w.force_defaults /\ c.minalign = v.minalign
  <2>1. bb = BB!writeInt32(v.bb, Size(v) - loc, value)
    OBVIOUS
  <2>2. loc \in Int /\ offset(w) + 4 <= loc /\ loc <= offset(v) /\ Continues(w, v)
    BY <1>1, <1>3
  <2> HIDE DEF bb
  <2> QED BY <1>4, <1>5, <1>6, <1>7, <2>1, <2>2, EndedIs
<1>9. offset(c) = IF Shared(v) THEN loc ELSE offset(v)
  BY <1>3, <1>8 DEF space
<1> QED BY <1>8, <1>9 DEF value, vtables, Remembered

(***************************************************************************)
(* Vectors, strings and the end of the buffer.                             *)
(***************************************************************************)
LEMMA StartVectorIs ==
  ASSUME NEW w, IsBuilder(w), NEW size \in Nat, NEW n \in Nat, NEW alignment \in {1, 2, 4, 8}
  PROVE  LET c == startVector(w, size, n, alignment)
         IN  /\ IsBuilder(c) /\ Extends(w, c) /\ SameTable(w, c) /\ c.vtable = w.vtable
             /\ c.space >= alignment + size * n
             /\ alignment = 1 => c.space >= 4 + size * n
             /\ alignment = 1 => (offset(c) + size * n) % 4 = 0
             /\ c.vector_num_elems = n
<1> DEFINE d == [w EXCEPT !.vector_num_elems = n]
           bytes == size * n
           e == prep(d, 4, bytes)
           c == prep(e, alignment, bytes)
<1>1. /\ d \in Builders /\ SameBuffer(w, d) /\ SameTable(w, d) /\ d.vector_num_elems = n
      /\ d.vtable = w.vtable
  BY DEF IsBuilder, Builders, SameBuffer, SameTable
<1>2. bytes \in Nat
  OBVIOUS
<1>3. c = startVector(w, size, n, alignment)
  BY DEF startVector, BB!SIZEOF_INT
<1> HIDE DEF d, bytes
<1>4. IsBuilder(d) /\ Extends(w, d) /\ offset(d) = offset(w)
  BY <1>1, SameBufferExtends
<1>5. Continues(d, e) /\ e.space >= 4 + bytes /\ (offset(e) + bytes) % 4 = 0
  BY <1>2, <1>4, PrepIs
<1> HIDE DEF e
<1>6. /\ Continues(e, c) /\ c.space >= alignment + bytes
      /\ offset(c) \in offset(e) .. offset(e) + alignment - 1
  BY <1>2, <1>5, PrepIs DEF Continues
<1> HIDE DEF c
<1>10. alignment = 1 => c.space >= 4 + bytes /\ (offset(c) + bytes) % 4 = 0
  <2>2. alignment = 1 => offset(c) = offset(e)
    <3>1. offset(e) \in Nat /\ offset(c) \in Nat
      BY <1>5, <1>6, OffsetIs DEF Continues
    <3> QED BY <1>6, <3>1
  <2>1. /\ offset(e) = Size(e) - e.space /\ e.space \in Nat /\ Size(e) \in Nat
        /\ offset(c) = Size(c) - c.space /\ c.space \in Nat /\ Size(c) \in Nat
        /\ Size(e) <= Size(c)
    BY <1>5, <1>6, OffsetIs DEF Continues, Extends
  <2>3. alignment = 1 => c.space >= 4 + bytes
    BY <1>2, <1>5, <2>2, <2>1
  <2> QED BY <1>5, <2>2, <2>3
<1>7. Continues(d, c)
  BY <1>4, <1>5, <1>6, ContinuesTransitive
<1>8. Extends(w, c) /\ IsBuilder(c)
  BY <1>4, <1>7, OffsetIs DEF Continues, Extends
<1>9. SameTable(w, c) /\ c.vtable = w.vtable /\ c.vector_num_elems = n
  BY <1>1, <1>7 DEF Continues, SameRest, SameTable
<1> QED BY <1>3, <1>6, <1>8, <1>9, <1>10 DEF bytes

\* What creating an object, or ending the buffer, leaves as it was.
Grows(w, c) ==
  IsBuilder(c) /\ Extends(w, c) /\ SameTable(w, c) /\ c.vtable = w.vtable

LEMMA GrowsTransitive ==
  ASSUME NEW w, NEW c, NEW d, IsBuilder(w), Grows(w, c), Grows(c, d)
  PROVE  Grows(w, d)
<1>1. /\ offset(w) \in Nat /\ offset(c) \in Nat /\ offset(d) \in Nat
      /\ Size(w) \in Nat /\ Size(c) \in Nat /\ Size(d) \in Nat
      /\ w.minalign \in Nat /\ c.minalign \in Nat /\ d.minalign \in Nat
  BY OffsetIs DEF Grows
<1>2. Extends(w, d)
  BY <1>1 DEF Grows, Extends
<1> QED BY <1>2 DEF Grows, SameTable

LEMMA ContinuesGrows ==
  ASSUME NEW w, NEW c, Continues(w, c)
  PROVE  Grows(w, c)
BY DEF Continues, SameRest, Grows, SameTable

LEMMA ByteVectorIs ==
  ASSUME NEW w, IsBuilder(w), NEW n \in Nat
  PROVE  /\ Grows(w, startVector(w, 1, n, 1)) /\ startVector(w, 1, n, 1).space >= 4 + n
         /\ (offset(startVector(w, 1, n, 1)) + n) % 4 = 0
<1>1. 1 \in Nat /\ 1 \in {1, 2, 4, 8} /\ 1 * n = n
  OBVIOUS
<1> QED BY <1>1, StartVectorIs DEF Grows

LEMMA EndVectorIs ==
  ASSUME NEW w, IsBuilder(w), 4 <= w.space
  PROVE  Continues(w, endVector(w)) /\ offset(endVector(w)) = offset(w) + 4
<1>1. w.vector_num_elems \in Int
  BY DEF IsBuilder, Builders
<1> QED BY <1>1, Writes32 DEF endVector

Vector(w, v) == endVector(AddedInt8(startVector(w, 1, Len(v), 1), Reverse(v)))

LEMMA SumKeepsOrder ==
  ASSUME NEW i \in Nat, NEW j \in Nat, NEW n \in Nat, i >= j
  PROVE  (i + n) + 4 >= j + n + 4
OBVIOUS

\* A vector of bytes: room is made for all of it before the first is written.
LEMMA VectorIs ==
  ASSUME NEW w, IsBuilder(w), NEW v \in Seq(Int)
  PROVE  /\ Grows(w, Vector(w, v))
         /\ offset(Vector(w, v)) >= offset(w) + Len(v) + 4
         /\ offset(Vector(w, v)) % 4 = 0
<1> DEFINE n == Len(v)
           r == Reverse(v)
           c == startVector(w, 1, n, 1)
           d == AddedInt8(c, r)
           e == endVector(d)
<1>1. n \in Nat /\ r \in Seq(Int) /\ Len(r) = n
  BY DEF Reverse
<1>2. e = Vector(w, v)
  BY DEF Vector
<1> HIDE DEF n, r
<1>3. /\ Grows(w, c) /\ IsBuilder(c) /\ Extends(w, c) /\ c.space >= 4 + n
      /\ (offset(c) + n) % 4 = 0
  BY <1>1, ByteVectorIs DEF Grows
<1> HIDE DEF c
<1>4. Continues(c, d) /\ offset(d) = offset(c) + n
  BY <1>1, <1>3, AddedInt8s
<1> HIDE DEF d
<1>5. /\ IsBuilder(d) /\ offset(c) = Size(c) - c.space /\ offset(d) = Size(d) - d.space
      /\ offset(c) \in Nat /\ offset(w) \in Nat
      /\ c.space \in Nat /\ d.space \in Nat /\ Size(c) \in Nat /\ Size(d) \in Nat
      /\ Size(c) <= Size(d)
  BY <1>3, <1>4, OffsetIs DEF Continues, Extends
<1>11. n \in Nat
  BY <1>1
<1>12. offset(d) = offset(c) + n /\ c.space >= 4 + n
  BY <1>3, <1>4
<1>6. 4 <= d.space
  BY <1>5, <1>11, <1>12
<1>7. Continues(d, e) /\ offset(e) = offset(d) + 4
  BY <1>5, <1>6, EndVectorIs
<1> HIDE DEF e
<1>8. Grows(w, e)
  <2>1. Grows(c, d) /\ Grows(d, e)
    BY <1>4, <1>7, ContinuesGrows
  <2>2. Grows(w, d)
    BY <1>3, <2>1, GrowsTransitive
  <2> QED BY <2>1, <2>2, GrowsTransitive
<1>9. offset(e) >= offset(w) + n + 4
  <2>1. offset(c) >= offset(w)
    BY <1>3 DEF Extends
  <2>2. offset(e) = offset(d) + 4
    BY <1>7
  <2>3. offset(e) = (offset(c) + n) + 4
    BY <1>12, <2>2
  <2> QED BY <1>5, <1>11, <2>1, <2>3, SumKeepsOrder
<1>10. offset(e) % 4 = 0
  <2>1. offset(e) = (offset(c) + n) + 4 /\ offset(c) + n \in Nat
    <3>1. offset(c) + n \in Nat
      BY <1>5, <1>11
    <3> QED BY <1>7, <1>12, <3>1
  <2>2. \A k \in Nat : k % 4 = 0 => (k + 4) % 4 = 0
    OBVIOUS
  <2> QED BY <1>3, <2>1, <2>2
<1> QED BY <1>2, <1>8, <1>9, <1>10 DEF n

\* finish: the reference to the root, in front of everything.
LEMMA FinishIs ==
  ASSUME NEW w, IsBuilder(w), NEW root_table \in Int, NEW ident \in Seq(Int), Len(ident) <= 4
  PROVE  LET c == finish(w, root_table, ident)
         IN  /\ Grows(w, c) /\ offset(c) >= offset(w) + 4
             /\ c.bb.position_ = c.space
             /\ offset(c) % c.minalign = 0 /\ 4 <= c.minalign
<1> DEFINE m == w.minalign
           room == prep(w, m, 8)
           s == Reverse(ident)
           g == WrittenInt8(room, s)
           f == IF ident = << >> THEN w ELSE g
           p == prep(f, f.minalign, 4)
           r == addOffset(p, root_table)
           c == [r EXCEPT !.bb = BB!setPosition(@, r.space)]
<1>1. c = finish(w, root_table, ident)
  BY DEF finish, WrittenInt8, BB!SIZEOF_INT, BB!FILE_IDENTIFIER_LENGTH
<1>2. s \in Seq(Int) /\ Len(s) <= 4
  BY DEF Reverse
<1>3. m \in {1, 2, 4, 8}
  BY DEF IsBuilder, Builders
<1>4. Continues(w, f)
  <2>1. CASE ident = << >>
    BY <2>1, ContinuesItself
  <2>2. CASE ident # << >>
    <3> HIDE DEF s, m
    <3>1. Continues(w, room) /\ room.space >= m + 8
      BY <1>3, PrepIs
    <3> HIDE DEF room
    <3>2. IsBuilder(room) /\ Len(s) <= room.space
      BY <1>2, <1>3, <3>1, OffsetIs DEF Continues
    <3>3. Continues(room, g)
      BY <1>2, <3>2, WrittenInt8s
    <3> HIDE DEF g
    <3>4. Continues(w, g)
      BY <3>1, <3>3, ContinuesTransitive
    <3> QED BY <2>2, <3>4
  <2> QED BY <2>1, <2>2
<1> HIDE DEF f
<1>5. IsBuilder(f) /\ f.minalign \in {1, 2, 4, 8}
  BY <1>4 DEF Continues, IsBuilder, Builders
<1> DEFINE k == f.minalign
<1>6. /\ Continues(f, p) /\ (offset(p) + 4) % k = 0 /\ p.minalign = k /\ k \in {1, 2, 4, 8}
  <2>1. /\ Continues(f, p) /\ (offset(p) + 4) % k = 0
        /\ p.minalign = IF k > f.minalign THEN k ELSE f.minalign
    BY <1>5, PrepIs
  <2> QED BY <1>5, <2>1
<1> HIDE DEF p, k
<1>7. IsBuilder(p)
  BY <1>6 DEF Continues
<1>8. /\ Continues(p, r) /\ offset(r) \in offset(p) + 4 .. offset(p) + 7
      /\ offset(r) % 4 = 0
      /\ offset(p) % 4 = 0 => offset(r) = offset(p) + 4
      /\ r.minalign = IF 4 > p.minalign THEN 4 ELSE p.minalign
  BY <1>7, AddsOffset
<1> HIDE DEF r
<1>9. IsBuilder(r) /\ r.bb \in Buffers /\ r.space \in Nat /\ Continues(w, r)
  <2>1. IsBuilder(r) /\ Continues(f, r)
    BY <1>5, <1>6, <1>8, ContinuesTransitive DEF Continues
  <2> QED BY <1>4, <2>1, OffsetIs, ContinuesTransitive
<1>10. /\ c \in Builders /\ c.bb = BB!setPosition(r.bb, r.space) /\ c.space = r.space
       /\ SameTable(r, c) /\ c.vtable = r.vtable /\ c.minalign = r.minalign
  <2>1. BB!setPosition(r.bb, r.space) \in Buffers
    BY <1>9, PositionSet
  <2> QED BY <1>9, <2>1 DEF IsBuilder, Builders, SameTable
<1> HIDE DEF c
<1>16. c.bb.position_ = c.space
  <2>1. BB!setPosition(r.bb, r.space).position_ = r.space
    BY <1>9 DEF Buffers, BB!setPosition
  <2> QED BY <1>10, <2>1
<1>17. offset(r) % c.minalign = 0 /\ 4 <= c.minalign
  <2>1. offset(p) \in Nat /\ offset(r) \in Nat
    BY <1>7, <1>9, OffsetIs
  <2>2. CASE k \in {1, 2}
    <3>1. c.minalign = 4
      BY <1>6, <1>8, <1>10, <2>2
    <3> QED BY <1>8, <3>1
  <2>3. CASE k \in {4, 8}
    <3>1. c.minalign = k /\ 4 <= k
      BY <1>6, <1>8, <1>10, <2>3
    <3>2. offset(p) % 4 = 0
      <4>1. \A i \in Nat : (i + 4) % 4 = 0 => i % 4 = 0
        OBVIOUS
      <4>2. \A i \in Nat : (i + 4) % 8 = 0 => i % 4 = 0
        OBVIOUS
      <4>3. (offset(p) + 4) % k = 0
        BY <1>6
      <4>4. CASE k = 4
        BY <2>1, <4>1, <4>3, <4>4
      <4>5. CASE k = 8
        BY <2>1, <4>2, <4>3, <4>5
      <4> QED BY <2>3, <4>4, <4>5
    <3>3. offset(r) = offset(p) + 4
      BY <1>8, <3>2
    <3> QED BY <1>6, <3>1, <3>3
  <2> QED BY <1>6, <2>2, <2>3
<1>11. c.bb.bytes_ = r.bb.bytes_
  <2>1. r.bb \in Buffers /\ r.space \in Int
    BY <1>9
  <2>2. BB!setPosition(r.bb, r.space).bytes_ = r.bb.bytes_
    BY <2>1, PositionSet
  <2> QED BY <1>10, <2>2
<1>12. Size(c) = Size(r) /\ offset(c) = offset(r)
  BY <1>10, <1>11 DEF Size, offset, BB!capacity
<1>13. IsBuilder(c) /\ Extends(r, c)
  BY <1>9, <1>10, <1>11, <1>12, OffsetIs DEF IsBuilder, Extends, FromEnd
<1>14. Grows(w, c)
  BY <1>9, <1>10, <1>13, ContinuesGrows, GrowsTransitive DEF Grows
<1>15. offset(c) >= offset(w) + 4
  <2>1. offset(w) \in Nat /\ offset(f) \in Nat /\ offset(p) \in Nat
    BY <1>5, <1>7, OffsetIs
  <2> QED BY <1>4, <1>6, <1>8, <1>12, <2>1 DEF Continues, Extends
<1> QED BY <1>1, <1>12, <1>14, <1>15, <1>16, <1>17

(***************************************************************************)
(* Strings.                                                                *)
(***************************************************************************)
Encoded(s, i) == Utf8Bytes(CodePointAt(s, i), HighSurrogate(s[i]) /\ i = Len(s))

NextUnit(s, i) == IF HighSurrogate(s[i]) THEN i + 2 ELSE i + 1

EncodedFrom(f, s, i) == IF i > Len(s) THEN << >> ELSE Encoded(s, i) \o f[NextUnit(s, i)]

Coding(from, s) == from = [i \in 1 .. Len(s) + 2 |-> EncodedFrom(from, s, i)]

LEMMA EncodedFromIs ==
  ASSUME NEW f, NEW s, NEW i
  PROVE  /\ i > Len(s) => EncodedFrom(f, s, i) = << >>
         /\ ~(i > Len(s)) => EncodedFrom(f, s, i) = Encoded(s, i) \o f[NextUnit(s, i)]
BY Zenon DEF EncodedFrom

LEMMA CodingExists ==
  ASSUME NEW s, Len(s) \in Nat
  PROVE  \E from : Coding(from, s)
<1> DEFINE n == Len(s)
           Sat(f, k) == \A i \in n + 2 - k .. n + 2 : f[i] = EncodedFrom(f, s, i)
           Good == {k \in Nat : k <= n + 1 =>
                      \E f : f = [i \in n + 2 - k .. n + 2 |-> f[i]] /\ Sat(f, k)}
<1>1. n \in Nat
  OBVIOUS
<1>2. 0 \in Good
  <2> DEFINE f == [i \in n + 2 - 0 .. n + 2 |-> << >>]
  <2>1. Sat(f, 0)
    BY <1>1 DEF EncodedFrom
  <2>2. f = [i \in n + 2 - 0 .. n + 2 |-> f[i]]
    OBVIOUS
  <2> HIDE DEF f, Sat
  <2> QED BY <2>1, <2>2
<1>3. ASSUME NEW k \in Nat, k \in Good PROVE k + 1 \in Good
  <2> SUFFICES ASSUME k + 1 <= n + 1
               PROVE  \E f : /\ f = [i \in n + 2 - (k + 1) .. n + 2 |-> f[i]]
                             /\ Sat(f, k + 1)
    OBVIOUS
  <2>1. PICK f : Sat(f, k)
    BY <1>1, <1>3
  <2> DEFINE at == n + 1 - k
             g == [i \in n + 2 - (k + 1) .. n + 2 |->
                     IF i = at THEN EncodedFrom(f, s, at) ELSE f[i]]
  <2>2. /\ at \in 1 .. n + 1 /\ at = n + 2 - (k + 1)
        /\ \A i \in at .. n + 2 : i = at \/ i \in n + 2 - k .. n + 2
    BY <1>1
  <2>3. ASSUME NEW i \in at .. n + 2 PROVE EncodedFrom(g, s, i) = EncodedFrom(f, s, i)
    <3>1. CASE i > n
      BY <3>1 DEF EncodedFrom
    <3>2. CASE ~(i > n)
      <4>1. /\ NextUnit(s, i) \in n + 2 - (k + 1) .. n + 2 /\ NextUnit(s, i) # at
        BY <1>1, <2>2, <3>2 DEF NextUnit
      <4>2. g[NextUnit(s, i)] = f[NextUnit(s, i)]
        BY <4>1
      <4> HIDE DEF g
      <4> QED BY <4>2 DEF EncodedFrom
    <3> QED BY <3>1, <3>2
  <2>4. Sat(g, k + 1)
    <3> SUFFICES ASSUME NEW i \in n + 2 - (k + 1) .. n + 2
                 PROVE  g[i] = EncodedFrom(g, s, i)
      OBVIOUS
    <3>1. EncodedFrom(g, s, i) = EncodedFrom(f, s, i)
      BY <2>2, <2>3
    <3>2. CASE i = at
      BY <3>1, <3>2
    <3>3. CASE i # at
      BY <2>1, <2>2, <3>1, <3>3
    <3> QED BY <3>2, <3>3
  <2>5. g = [i \in n + 2 - (k + 1) .. n + 2 |-> g[i]]
    OBVIOUS
  <2> HIDE DEF g, Sat
  <2> QED BY <2>4, <2>5
<1>4. n + 1 \in Good
  <2> HIDE DEF Good
  <2> QED BY <1>1, <1>2, <1>3, NatInd
<1>5. PICK f : f = [i \in n + 2 - (n + 1) .. n + 2 |-> f[i]] /\ Sat(f, n + 1)
  BY <1>1, <1>4
<1>6. n + 2 - (n + 1) = 1
  BY <1>1
<1>7. f = [i \in 1 .. n + 2 |-> EncodedFrom(f, s, i)]
  BY <1>5, <1>6
<1> QED BY <1>7 DEF Coding

LEMMA Tail6Is ==
  ASSUME NEW c \in Nat, NEW shift \in {1, 64, 4096}
  PROVE  Tail6(c, shift) \in Byte
<1>1. c \div shift \in Int
  OBVIOUS
<1> DEFINE q == c \div shift
<1> HIDE DEF q
<1>2. q \in Int => (q % 64) + 128 \in 0 .. 255
  OBVIOUS
<1> QED BY <1>1, <1>2 DEF Tail6, Byte, q

LEMMA InByte ==
  ASSUME NEW n \in Nat, n <= 255
  PROVE  n \in Byte
BY DEF Byte

LEMMA Lead ==
  ASSUME NEW c \in Nat
  PROVE  /\ ((c \div 262144) % 8) + 240 \in Byte
         /\ ((c \div 4096) % 16) + 224 \in Byte
         /\ ((c \div 64) % 32) + 192 \in Byte
<1>1. ASSUME NEW q \in Int, NEW n \in {8, 16, 32}, NEW m \in 0 .. 240, n + m <= 256
      PROVE  (q % n) + m \in Byte
  <2>1. q % n \in 0 .. n - 1
    <3>1. CASE n = 8
      BY <3>1
    <3>2. CASE n = 16
      BY <3>2
    <3>3. CASE n = 32
      BY <3>3
    <3> QED BY <3>1, <3>2, <3>3
  <2> DEFINE p == q % n
  <2> HIDE DEF p
  <2>2. p \in 0 .. n - 1 => p + m \in Nat /\ p + m <= 255
    BY <1>1
  <2>3. (q % n) + m \in Nat /\ (q % n) + m <= 255
    BY <2>1, <2>2 DEF p
  <2> QED BY <2>3, InByte
<1> DEFINE q == c \div 262144
           r == c \div 4096
           t == c \div 64
<1>2. q \in Int /\ r \in Int /\ t \in Int
  OBVIOUS
<1> HIDE DEF q, r, t
<1>3. (q % 8) + 240 \in Byte
  BY <1>1, <1>2
<1>4. (r % 16) + 224 \in Byte
  BY <1>1, <1>2
<1>5. (t % 32) + 192 \in Byte
  BY <1>1, <1>2
<1> QED BY <1>3, <1>4, <1>5 DEF q, r, t

LEMMA Utf8BytesAre ==
  ASSUME NEW c \in Nat
  PROVE  /\ Utf8Bytes(c, TRUE) \in Seq(Byte)
         /\ Utf8Bytes(c, FALSE) \in Seq(Byte)
<1> DEFINE a == ((c \div 262144) % 8) + 240
           d == ((c \div 4096) % 16) + 224
           e == ((c \div 64) % 32) + 192
           t == Tail6(c, 4096)
           u == Tail6(c, 64)
           v == Tail6(c, 1)
           Four == c >= 65536
           Three == c >= 2048
           Two == c >= 128
           x == Utf8Bytes(c, FALSE)
           y == Utf8Bytes(c, TRUE)
<1>1. a \in Byte /\ d \in Byte /\ e \in Byte
  BY Lead
<1>2. t \in Byte /\ u \in Byte /\ v \in Byte
  BY Tail6Is
<1>3. y = <<a, t, u, v>>
  BY DEF Utf8Bytes
<1>4. Four => x = <<a, t, u, v>>
  BY DEF Utf8Bytes
<1>5. ~Four /\ Three => x = <<d, u, v>>
  BY DEF Utf8Bytes
<1>6. ~Four /\ ~Three /\ Two => x = <<e, v>>
  BY DEF Utf8Bytes
<1>7. ~Four /\ ~Three /\ ~Two => x = <<c>>
  BY DEF Utf8Bytes
<1>8. ~Two => c \in Byte
  BY InByte
<1> HIDE DEF a, d, e, t, u, v
<1>9. /\ <<a, t, u, v>> \in Seq(Byte) /\ <<d, u, v>> \in Seq(Byte) /\ <<e, v>> \in Seq(Byte)
      /\ c \in Byte => <<c>> \in Seq(Byte)
  BY <1>1, <1>2
<1> HIDE DEF Four, Three, Two, x, y
<1>10. x \in Seq(Byte) /\ y \in Seq(Byte)
  BY <1>3, <1>4, <1>5, <1>6, <1>7, <1>8, <1>9, Zenon
<1> QED BY <1>10 DEF x, y

LEMMA PairIs ==
  ASSUME NEW high \in Nat, high >= 55296, NEW low \in Nat
  PROVE  (high - 55296) * 1024 + low - 56320 + 65536 \in Nat
OBVIOUS

LEMMA CodePointIs ==
  ASSUME NEW s \in Seq(Nat), NEW i \in 1 .. Len(s)
  PROVE  CodePointAt(s, i) \in Nat
<1>1. s[i] \in Nat /\ (i < Len(s) => s[i + 1] \in Nat)
  OBVIOUS
<1>2. CASE ~HighSurrogate(s[i])
  BY <1>1, <1>2 DEF CodePointAt
<1>3. CASE HighSurrogate(s[i]) /\ ~(i < Len(s))
  BY <1>3 DEF CodePointAt
<1>4. CASE HighSurrogate(s[i]) /\ i < Len(s)
  <2> DEFINE high == s[i]
             low == s[i + 1]
             c == CodePointAt(s, i)
             pair == (high - 55296) * 1024 + low - 56320 + 65536
  <2>1. high \in Nat /\ low \in Nat /\ high >= 55296
    BY <1>1, <1>4 DEF HighSurrogate
  <2>2. c = pair
    BY <1>4, SMT DEF CodePointAt
  <2> HIDE DEF high, low, c
  <2>3. pair \in Nat
    BY <2>1, PairIs
  <2> HIDE DEF pair
  <2>4. c \in Nat
    BY <2>2, <2>3
  <2> QED BY <2>4 DEF c
<1> QED BY <1>2, <1>3, <1>4

LEMMA Utf8Is ==
  ASSUME NEW s \in Seq(Nat)
  PROVE  Utf8(s) \in Seq(Byte)
<1> DEFINE n == Len(s)
           from == CHOOSE f : Coding(f, s)
<1>1. n \in Nat /\ \A i \in 1 .. n : s[i] \in Nat
  OBVIOUS
<1>2. Coding(from, s)
  BY <1>1, CodingExists
<1>3. Utf8(s) = from[1]
  BY DEF Utf8, Coding, EncodedFrom, Encoded, NextUnit
<1> HIDE DEF from
<1>4. \A i \in 1 .. n + 2 : from[i] = EncodedFrom(from, s, i)
  BY <1>1, <1>2 DEF Coding
<1>9. ASSUME NEW i \in 1 .. n PROVE from[i] = Encoded(s, i) \o from[NextUnit(s, i)]
  <2>1. i \in 1 .. n + 2 /\ i \in Nat /\ ~(i > Len(s))
    BY <1>1
  <2>2. from[i] = EncodedFrom(from, s, i)
    BY <1>4, <2>1, Zenon
  <2> QED BY <2>1, <2>2, EncodedFromIs, Zenon
<1>10. from[n + 1] = << >> /\ from[n + 2] = << >>
  <2>1. /\ n + 1 \in 1 .. n + 2 /\ n + 1 > Len(s)
        /\ n + 2 \in 1 .. n + 2 /\ n + 2 > Len(s)
    BY <1>1
  <2>2. from[n + 1] = EncodedFrom(from, s, n + 1) /\ from[n + 2] = EncodedFrom(from, s, n + 2)
    BY <1>4, <2>1, Zenon
  <2> QED BY <2>1, <2>2, EncodedFromIs, Zenon
<1> HIDE DEF n
<1> DEFINE Good == {k \in Nat : k <= n => from[n + 1 - k] \in Seq(Byte) /\ from[n + 2 - k] \in Seq(Byte)}
<1>5. 0 \in Good
  <2>1. n + 1 - 0 = n + 1 /\ n + 2 - 0 = n + 2
    BY <1>1
  <2>2. << >> \in Seq(Byte)
    OBVIOUS
  <2> QED BY <1>10, <2>1, <2>2
<1>6. ASSUME NEW k \in Nat, k \in Good PROVE k + 1 \in Good
  <2> SUFFICES ASSUME k + 1 <= n
               PROVE  from[n + 1 - (k + 1)] \in Seq(Byte) /\ from[n + 2 - (k + 1)] \in Seq(Byte)
    OBVIOUS
  <2> DEFINE i == n + 1 - (k + 1)
  <2>1. i \in 1 .. n /\ n + 1 - k = i + 1 /\ n + 2 - k = i + 2 /\ n + 2 - (k + 1) = i + 1
    BY <1>1
  <2>2. from[i + 1] \in Seq(Byte) /\ from[i + 2] \in Seq(Byte)
    BY <1>1, <1>6, <2>1
  <2> HIDE DEF i
  <2>3. from[i] = Encoded(s, i) \o from[NextUnit(s, i)]
    BY <1>9, <2>1
  <2>4. from[NextUnit(s, i)] \in Seq(Byte)
    BY <2>2 DEF NextUnit
  <2>5. Encoded(s, i) \in Seq(Byte)
    <3>1. CodePointAt(s, i) \in Nat
      BY <2>1, CodePointIs DEF n
    <3>2. CASE HighSurrogate(s[i]) /\ i = Len(s)
      <4>1. Encoded(s, i) = Utf8Bytes(CodePointAt(s, i), TRUE)
        BY <3>2 DEF Encoded, Utf8Bytes
      <4> QED BY <3>1, <4>1, Utf8BytesAre
    <3>3. CASE ~(HighSurrogate(s[i]) /\ i = Len(s))
      <4>1. Encoded(s, i) = Utf8Bytes(CodePointAt(s, i), FALSE)
        BY <3>3 DEF Encoded, Utf8Bytes
      <4> QED BY <3>1, <4>1, Utf8BytesAre
    <3> QED BY <3>2, <3>3
  <2>6. from[i] \in Seq(Byte)
    BY <2>3, <2>4, <2>5
  <2> QED BY <2>1, <2>2, <2>6 DEF i
<1>7. n \in Good
  <2> HIDE DEF Good
  <2> QED BY <1>1, <1>5, <1>6, NatInd
<1>8. n + 1 - n = 1
  BY <1>1
<1> QED BY <1>1, <1>3, <1>7, <1>8
\* createString: the bytes go below the ones already written, and the
\* terminating 0 behind them.
LEMMA StringIs ==
  ASSUME NEW w, IsBuilder(w), NEW s \in Seq(Nat)
  PROVE  /\ Grows(w, createString(w, s))
         /\ offset(createString(w, s)) >= offset(w) + 5
         /\ offset(createString(w, s)) % 4 = 0
<1> DEFINE u == Utf8(s)
           n == Len(u)
           a == addInt8(w, 0)
           v == startVector(a, 1, n, 1)
           space == v.space - n
           bb == BB!WriteBytes(v.bb, space, u)
           placed == BB!setPosition(bb, space)
           d == [v EXCEPT !.space = space, !.bb = placed]
           e == endVector(d)
<1>1. u \in Seq(Byte) /\ n \in Nat
  BY Utf8Is
<1>2. e = createString(w, s)
  BY DEF createString
<1>3. Continues(w, a) /\ offset(a) = offset(w) + 1 /\ IsBuilder(a)
  BY Adds8 DEF Continues
<1> HIDE DEF u, a
<1>4. Grows(a, v) /\ v.space >= 4 + n /\ (offset(v) + n) % 4 = 0
  <2>1. n \in Nat /\ IsBuilder(a)
    BY <1>1, <1>3
  <2> HIDE DEF n
  <2> QED BY <2>1, ByteVectorIs
<1> HIDE DEF v
<1>5. /\ IsBuilder(v) /\ v.space \in Nat /\ v.bb \in Buffers /\ Len(v.bb.bytes_) = Size(v)
      /\ v.space <= Size(v) /\ offset(v) = Size(v) - v.space
  BY <1>4, OffsetIs DEF Grows, IsBuilder, Size
<1>6. space \in Nat /\ space >= 4 /\ space + n = v.space
  <2> HIDE DEF n
  <2> QED BY <1>1, <1>4, <1>5
<1> DEFINE f == Replaced(v, bb, space)
<1>7. Continues(v, f) /\ offset(f) = offset(v) + n /\ f.space = space /\ f.minalign = v.minalign
  <2>1. u \in Seq(Byte) /\ space \in Nat /\ space + Len(u) = v.space
    BY <1>1, <1>6
  <2> HIDE DEF space, f, bb
  <2>2. f = Replaced(v, BB!WriteBytes(v.bb, space, u), space)
    BY DEF f, bb
  <2> QED BY <1>5, <2>1, <2>2, WritesInFront
<1>8. f.bb = bb /\ bb \in Buffers /\ f.space = space /\ IsBuilder(f)
  <2>1. f \in Builders /\ IsBuilder(f)
    BY <1>7 DEF Continues, IsBuilder
  <2>2. f.bb = bb
    BY <1>5 DEF Replaced, IsBuilder, Builders
  <2> QED BY <1>7, <2>1, <2>2 DEF Builders
<1> HIDE DEF bb
<1>9. placed \in Buffers /\ placed.bytes_ = bb.bytes_
  <2>1. space \in Int
    BY <1>6
  <2> QED BY <1>8, <2>1, PositionSet
<1>10. /\ d = Replaced(v, placed, space)
       /\ d = Replaced(f, placed, space)
  BY <1>5 DEF Replaced
<1> HIDE DEF placed, d, f, space
<1>11. Continues(f, d) /\ offset(d) = offset(f) /\ d.space = space
  <2>1. Len(placed.bytes_) = Size(f) /\ space = f.space /\ space \in Nat
    BY <1>6, <1>8, <1>9 DEF Size
  <2>2. offset(f) = Size(f) - f.space /\ offset(f) \in Nat /\ Size(f) \in Nat
    BY <1>8, OffsetIs
  <2>3. \A i \in 1 .. offset(f) :
          placed.bytes_[Len(placed.bytes_) - i + 1] = FromEnd(f, i)
    BY <1>8, <1>9, <2>1 DEF FromEnd
  <2>4. Len(placed.bytes_) >= Size(f) /\ space <= Len(placed.bytes_) - offset(f)
    BY <2>1, <2>2
  <2>5. Continues(f, d) /\ offset(d) = Len(placed.bytes_) - space /\ d.space = space
    <3>1. /\ IsBuilder(f) /\ placed \in Buffers /\ space \in Nat /\ d = Replaced(f, placed, space)
          /\ Len(placed.bytes_) >= Size(f) /\ space <= Len(placed.bytes_) - offset(f)
          /\ \A i \in 1 .. offset(f) :
               placed.bytes_[Len(placed.bytes_) - i + 1] = FromEnd(f, i)
      BY <1>8, <1>9, <1>10, <2>1, <2>3, <2>4
    <3> QED BY <3>1, Rewritten
  <2> QED BY <2>1, <2>2, <2>5
<1>12. Continues(d, e) /\ offset(e) = offset(d) + 4
  <2>1. IsBuilder(d) /\ 4 <= d.space
    BY <1>6, <1>11 DEF Continues
  <2> QED BY <2>1, EndVectorIs
<1> HIDE DEF e
<1>13. Grows(w, e)
  <2>1. Grows(w, a) /\ Grows(v, f) /\ Grows(f, d) /\ Grows(d, e)
    BY <1>3, <1>7, <1>11, <1>12, ContinuesGrows
  <2>2. Grows(w, v)
    BY <1>4, <2>1, GrowsTransitive
  <2>3. Grows(w, f)
    BY <2>1, <2>2, GrowsTransitive
  <2>4. Grows(w, d)
    BY <2>1, <2>3, GrowsTransitive
  <2> QED BY <2>1, <2>4, GrowsTransitive
<1>14. offset(e) >= offset(w) + 5
  <2>1. /\ offset(w) \in Nat /\ offset(a) \in Nat /\ offset(v) \in Nat
        /\ offset(a) <= offset(v)
    BY <1>3, <1>4, <1>5, OffsetIs DEF Grows, Extends
  <2> HIDE DEF n
  <2> QED BY <1>1, <1>3, <1>7, <1>11, <1>12, <2>1
<1>15. offset(e) % 4 = 0
  <2>1. offset(v) \in Nat
    BY <1>5, OffsetIs
  <2>2. offset(e) = (offset(v) + n) + 4 /\ offset(v) + n \in Nat
    <3> HIDE DEF n
    <3> QED BY <1>1, <1>7, <1>11, <1>12, <2>1
  <2>3. \A k \in Nat : k % 4 = 0 => (k + 4) % 4 = 0
    OBVIOUS
  <2> HIDE DEF n
  <2> QED BY <1>4, <2>2, <2>3
<1> QED BY <1>2, <1>13, <1>14, <1>15

(***************************************************************************)
(* The program that fills the builder.                                     *)
(***************************************************************************)
\* The bytes of a struct: after prep and pad they follow each other without
\* a gap, the first of them at a multiple of 8.
LEMMA StructIs ==
  ASSUME IsBuilder(b), NEW value \in Int \X Int
  PROVE  LET c == CreateStruct(value)
         IN  /\ Continues(b, c) /\ offset(c) >= offset(b) + 32
             /\ offset(c) % 8 = 0 /\ 8 <= c.minalign
<1> DEFINE x == value[1]
           y == value[2]
           z == BB!Signed(BB!Unsigned(y))
           p == prep(b, 8, 32)
           q == pad(p, 5)
           d == writeInt8(q, y % 256)
           e == writeInt16(d, y)
           f == writeInt32(e, z)
           g == writeInt32(f, x)
           h == writeInt64(g, BB!Long(y, y))
           c == writeInt64(h, BB!Long(0, x))
<1>1. x \in Int /\ y \in Int /\ y % 256 \in Int
  <2>1. x \in Int /\ y \in Int
    OBVIOUS
  <2> HIDE DEF x, y
  <2> QED BY <2>1
<1>2. z \in Int
  BY <1>1, SignedIsInt
<1>3. BB!Long(y, y) \in Longs /\ BB!Long(0, x) \in Longs
  BY <1>1 DEF BB!Long, Longs
<1>4. c = CreateStruct(value)
  <2>1. /\ writeUint8(q, y % 256) = d
        /\ writeUint16(d, y) = e
    BY DEF writeUint8, writeInt8, BB!writeUint8, writeUint16, writeInt16, BB!writeUint16
  <2>2. /\ writeUint32(e, BB!Unsigned(y)) = f
        /\ writeFloat32(f, x) = g
    BY DEF writeUint32, writeInt32, BB!writeUint32, writeFloat32, BB!writeFloat32
  <2>3. /\ writeUint64(g, BB!Long(y, y)) = h
        /\ writeFloat64(h, BB!Long(0, x)) = c
    BY DEF writeUint64, writeInt64, BB!writeUint64, writeFloat64, BB!writeFloat64, BB!writeInt64
  <2> HIDE DEF q, d, e, f, g, h, c
  <2> QED BY <2>1, <2>2, <2>3 DEF CreateStruct, BB!createLong, q, p, x, y
<1> HIDE DEF x, y, z
<1>5. /\ Continues(b, p) /\ p.space >= 40 /\ IsBuilder(p) /\ p.space \in Nat
      /\ offset(p) >= offset(b) /\ (offset(p) + 32) % 8 = 0 /\ 8 <= p.minalign
  <2>1. 8 \in {1, 2, 4, 8} /\ 32 \in Nat
    OBVIOUS
  <2>2. /\ Continues(b, p) /\ p.space >= 8 + 32
        /\ (offset(p) + 32) % 8 = 0 /\ 8 <= p.minalign
    BY <2>1, PrepIs
  <2> HIDE DEF p
  <2> QED BY <2>2, OffsetIs DEF Continues, Extends
<1> HIDE DEF p
<1>6. Continues(p, q) /\ IsBuilder(q) /\ q.space = p.space - 5 /\ offset(q) = offset(p) + 5
  <2>1. 5 \in Nat /\ 5 <= p.space
    BY <1>5
  <2> QED BY <1>5, <2>1, PadIs DEF Continues
<1> HIDE DEF q
<1>7. Continues(q, d) /\ IsBuilder(d) /\ d.space = q.space - 1 /\ offset(d) = offset(q) + 1
  <2>1. 1 <= q.space
    BY <1>5, <1>6
  <2> QED BY <1>1, <1>6, <2>1, Writes8 DEF Continues
<1> HIDE DEF d
<1>8. Continues(d, e) /\ IsBuilder(e) /\ e.space = d.space - 2 /\ offset(e) = offset(d) + 2
  <2>1. 2 <= d.space
    BY <1>5, <1>6, <1>7
  <2> QED BY <1>1, <1>7, <2>1, Writes16 DEF Continues
<1> HIDE DEF e
<1>9. Continues(e, f) /\ IsBuilder(f) /\ f.space = e.space - 4 /\ offset(f) = offset(e) + 4
  <2>1. 4 <= e.space
    BY <1>5, <1>6, <1>7, <1>8
  <2> QED BY <1>2, <1>8, <2>1, Writes32 DEF Continues
<1> HIDE DEF f
<1>10. Continues(f, g) /\ IsBuilder(g) /\ g.space = f.space - 4 /\ offset(g) = offset(f) + 4
  <2>1. 4 <= f.space
    BY <1>5, <1>6, <1>7, <1>8, <1>9
  <2> QED BY <1>1, <1>9, <2>1, Writes32 DEF Continues
<1> HIDE DEF g
<1>11. Continues(g, h) /\ IsBuilder(h) /\ h.space = g.space - 8 /\ offset(h) = offset(g) + 8
  <2>1. 8 <= g.space
    BY <1>5, <1>6, <1>7, <1>8, <1>9, <1>10
  <2> QED BY <1>3, <1>10, <2>1, Writes64 DEF Continues
<1> HIDE DEF h
<1>12. Continues(h, c) /\ offset(c) = offset(h) + 8
  <2>1. 8 <= h.space
    BY <1>5, <1>6, <1>7, <1>8, <1>9, <1>10, <1>11
  <2> QED BY <1>3, <1>11, <2>1, Writes64
<1> HIDE DEF c
<1>13. Continues(b, c)
  <2>1. Continues(b, d)
    BY <1>5, <1>6, <1>7, ContinuesTransitive
  <2>2. Continues(b, f)
    BY <1>8, <1>9, <2>1, ContinuesTransitive
  <2>3. Continues(b, h)
    BY <1>10, <1>11, <2>2, ContinuesTransitive
  <2> QED BY <1>12, <2>3, ContinuesTransitive
<1>14. offset(c) >= offset(b) + 32
  <2>1. offset(b) \in Nat /\ offset(p) \in Nat
    BY <1>5, OffsetIs
  <2> QED BY <1>5, <1>6, <1>7, <1>8, <1>9, <1>10, <1>11, <1>12, <2>1
<1>15. offset(c) % 8 = 0
  <2>1. offset(p) \in Nat
    BY <1>5, OffsetIs
  <2>2. offset(c) = offset(p) + 32
    BY <1>6, <1>7, <1>8, <1>9, <1>10, <1>11, <1>12, <2>1
  <2> QED BY <1>5, <2>2
<1>16. 8 <= c.minalign
  <2>1. Continues(p, d)
    BY <1>5, <1>6, <1>7, ContinuesTransitive
  <2>2. Continues(p, f)
    BY <1>5, <1>8, <1>9, <2>1, ContinuesTransitive
  <2>3. Continues(p, h)
    BY <1>5, <1>10, <1>11, <2>2, ContinuesTransitive
  <2>4. Continues(p, c)
    BY <1>5, <1>12, <2>3, ContinuesTransitive
  <2>5. p.minalign \in Nat /\ c.minalign \in Nat /\ p.minalign <= c.minalign
    BY <1>5, <2>4, OffsetIs DEF Continues, Extends
  <2> QED BY <1>5, <2>5
<1> QED BY <1>4, <1>13, <1>14, <1>15, <1>16

LEMMA SetsTable ==
  ASSUME IsBuilder(b), NEW c, NEW voffset \in Nat, NEW size \in Nat, Sets(b, c, voffset, size)
  PROVE  IsBuilder(c) /\ Extends(b, c) /\ SameTable(b, c)
BY SetsExtends

\* Whatever its type, a field is written in front of the bytes there are.
LEMMA FieldIs ==
  ASSUME IsBuilder(b), NEW type \in FieldType, NEW voffset \in Nat, NEW value,
         type = "struct" => value \in Int \X Int, type # "struct" => value \in Int
  PROVE  LET c == AddField(type, voffset, value)
         IN  IsBuilder(c) /\ Extends(b, c) /\ SameTable(b, c)
<1> DEFINE c == AddField(type, voffset, value)
<1>1. CASE type = "struct"
  <2> DEFINE d == CreateStruct(value)
  <2>1. Continues(b, d) /\ offset(d) >= offset(b) + 32
    BY <1>1, StructIs
  <2>2. c = addFieldStruct(d, voffset, offset(d), 0)
    BY <1>1 DEF AddField
  <2> HIDE DEF d, c
  <2>3. IsBuilder(d) /\ offset(b) \in Nat /\ offset(d) \in Nat
    BY <2>1, OffsetIs DEF Continues
  <2>4. c = slot(d, voffset)
    BY <2>1, <2>2, <2>3 DEF addFieldStruct
  <2>5. /\ IsBuilder(c) /\ Extends(d, c) /\ offset(c) = offset(d) /\ c.vtable = SlotOf(d, voffset)
        /\ c.minalign = d.minalign
        /\ c.vtable_in_use = d.vtable_in_use /\ c.isNested = d.isNested
        /\ c.object_start = d.object_start /\ c.vtables = d.vtables
        /\ c.force_defaults = d.force_defaults
    BY <2>3, <2>4, SlotIs
  <2>6. DOMAIN d.vtable \subseteq DOMAIN c.vtable
    BY <2>5 DEF SlotOf, WithEntry
  <2>7. Extends(b, c)
    BY <2>1, <2>3, <2>5, OffsetIs DEF Continues, Extends
  <2>8. SameTable(b, c)
    BY <2>1, <2>5, <2>6 DEF Continues, SameRest, SameTable
  <2> QED BY <2>5, <2>7, <2>8 DEF c
<1>2. CASE type # "struct"
  <2>1. \E size \in Nat : Sets(b, c, voffset, size)
    <3> DEFINE long == BB!createLong(value, value)
               double == BB!createLong(0, value)
               zero == BB!createLong(0, 0)
    <3>1. value \in Int /\ long \in Longs /\ double \in Longs /\ zero \in Longs
      BY <1>2 DEF BB!createLong, BB!Long, Longs
    <3>2. /\ type = "int8" => c = addFieldInt8(b, voffset, value, 0)
          /\ type = "int16" => c = addFieldInt16(b, voffset, value, 0)
          /\ type = "int32" => c = addFieldInt32(b, voffset, value, 0)
          /\ type = "int64" => c = addFieldInt64(b, voffset, long, zero)
          /\ type = "float32" => c = addFieldFloat32(b, voffset, value, 0)
          /\ type = "float64" => c = addFieldFloat64(b, voffset, double, zero)
          /\ type = "offset" => c = addFieldOffset(b, voffset, value, 0)
      BY DEF AddField
    <3> HIDE DEF long, double, zero, c
    <3>3. /\ Sets(b, addFieldInt8(b, voffset, value, 0), voffset, 1)
          /\ Sets(b, addFieldInt16(b, voffset, value, 0), voffset, 2)
          /\ Sets(b, addFieldInt32(b, voffset, value, 0), voffset, 4)
          /\ Sets(b, addFieldInt64(b, voffset, long, zero), voffset, 8)
          /\ Sets(b, addFieldFloat32(b, voffset, value, 0), voffset, 4)
          /\ Sets(b, addFieldOffset(b, voffset, value, 0), voffset, 4)
      BY <3>1, SetsField
    <3>4. Sets(b, addFieldFloat64(b, voffset, double, zero), voffset, 8)
      BY <3>1, SetsField
    <3>5. 1 \in Nat /\ 2 \in Nat /\ 4 \in Nat /\ 8 \in Nat
      OBVIOUS
    <3>6. type \in {"int8", "int16", "int32", "int64", "float32", "float64", "offset"}
      BY <1>2 DEF FieldType
    <3> QED BY <3>2, <3>3, <3>4, <3>5, <3>6
  <2> HIDE DEF c
  <2> QED BY <2>1, SetsTable DEF c
<1> QED BY <1>1, <1>2

\* The states of the program: the builder is one; a table that is open before
\* the message is finished has an entry for each of its fields; what was made
\* lies among the bytes written.
StateOK ==
  /\ IsBuilder(b)
  /\ b.isNested /\ root = 0 => HasEntries(b) /\ b.vtable_in_use \in Sizes
  /\ DOMAIN made \subseteq 1 .. offset(b)
  /\ DOMAIN table \subseteq DOMAIN Layout
  /\ root \in {0} \cup TablesMade

\* A step that leaves the list of vtables alone.
Adds ==
  IsBuilder(b') /\ Extends(b, b') /\ b'.vtables = b.vtables

LEMMA BuilderIs ==
  ASSUME NEW force \in BOOLEAN
  PROVE  LET c == forceDefaults(Builder(1), force)
         IN  IsBuilder(c) /\ ~c.isNested /\ c.vtables = << >>
<1> DEFINE empty == BB!allocate(1)
           none == << >>
           w == Builder(1)
           c == forceDefaults(w, force)
<1>1. empty \in Buffers /\ Len(empty.bytes_) = 1
  BY AllocatedIs
<1>2. none \in VTables /\ none \in Seq(Nat)
  <2>1. none \in [{} -> Int] /\ {} \in SUBSET Nat
    OBVIOUS
  <2> QED BY <2>1 DEF VTables
<1>3. w = [bb |-> empty, space |-> 1, minalign |-> 1, vtable |-> none,
           vtable_in_use |-> 0, isNested |-> FALSE, object_start |-> 0,
           vtables |-> none, vector_num_elems |-> 0, force_defaults |-> FALSE]
  BY DEF Builder
<1> HIDE DEF empty, none, w
<1>4. w \in Builders
  <2>1. 1 \in Nat /\ 0 \in Nat /\ 0 \in Int /\ 1 \in {1, 2, 4, 8} /\ FALSE \in BOOLEAN
    OBVIOUS
  <2> QED BY <1>1, <1>2, <1>3, <2>1, Zenon DEF Builders
<1>5. w.bb = empty /\ w.space = 1 /\ ~w.isNested /\ w.vtables = none
  BY <1>3
<1>6. /\ c \in Builders /\ c.bb = empty /\ c.space = 1 /\ c.isNested = w.isNested
      /\ c.vtables = none
  BY <1>4, <1>5 DEF forceDefaults, Builders
<1> HIDE DEF c
<1>7. IsBuilder(c)
  <2>1. Size(c) = 1
    BY <1>1, <1>6, Zenon DEF Size
  <2>2. c \in Builders /\ c.space = 1
    BY <1>6
  <2>3. 1 >= 1 /\ 1 <= 1
    OBVIOUS
  <2> QED BY <2>1, <2>2, <2>3, Zenon DEF IsBuilder
<1> QED BY <1>5, <1>6, <1>7 DEF c, w, none

LEMMA InitStateOK ==
  ASSUME Init
  PROVE  StateOK /\ b.vtables = << >>
<1>1. PICK force \in BOOLEAN : b = forceDefaults(Builder(1), force)
  BY ValueAssumption DEF Init
<1>2. IsBuilder(b) /\ ~b.isNested /\ b.vtables = << >>
  BY <1>1, BuilderIs
<1> QED BY <1>2 DEF Init, StateOK
\* An object that was made outside a table.
LEMMA CreatedOK ==
  ASSUME StateOK, ~b.isNested, root = 0, Grows(b, b'), UNCHANGED <<table, root>>,
         offset(b') >= 1, DOMAIN made' = DOMAIN made \cup {offset(b')}
  PROVE  StateOK' /\ Adds
<1>1. IsBuilder(b') /\ Extends(b, b') /\ b'.vtables = b.vtables /\ ~b'.isNested
  BY DEF Grows, SameTable
<1>2. offset(b) \in Nat /\ offset(b') \in Nat /\ offset(b) <= offset(b')
  BY <1>1, OffsetIs DEF StateOK, Extends
<1>3. DOMAIN made' \subseteq 1 .. offset(b')
  BY <1>2 DEF StateOK
<1> QED BY <1>1, <1>3 DEF StateOK, Adds

LEMMA CreateStringOK ==
  ASSUME StateOK, NEW s \in Strings, CreateString(s)
  PROVE  StateOK' /\ Adds
<1>1. s \in Seq(Nat) /\ IsBuilder(b) /\ b' = createString(b, s) /\ offset(b) \in Nat
  BY ValueAssumption, OffsetIs DEF StateOK, CreateString
<1>2. Grows(b, b') /\ offset(b') >= offset(b) + 5
  BY <1>1, StringIs
<1>3. offset(b') \in Nat
  BY <1>2, OffsetIs DEF Grows
<1>4. offset(b') >= 1
  BY <1>1, <1>2, <1>3
<1>5. /\ ~b.isNested /\ root = 0 /\ UNCHANGED <<table, root>>
      /\ DOMAIN made' = DOMAIN made \cup {offset(b')}
  BY DEF CreateString, CanCreate, notNested, Made
<1> QED BY <1>2, <1>4, <1>5, CreatedOK

LEMMA CreateVectorOK ==
  ASSUME StateOK, NEW v \in Vectors, CreateVector(v)
  PROVE  StateOK' /\ Adds
<1>1. v \in Seq(Int) /\ IsBuilder(b) /\ b' = Vector(b, v) /\ offset(b) \in Nat /\ Len(v) \in Nat
  BY ValueAssumption, OffsetIs DEF StateOK, CreateVector, Vector, AddedInt8
<1>2. Grows(b, b') /\ offset(b') >= offset(b) + Len(v) + 4
  BY <1>1, VectorIs
<1>3. offset(b') \in Nat
  BY <1>2, OffsetIs DEF Grows
<1>4. offset(b') >= 1
  BY <1>1, <1>2, <1>3
<1>5. /\ ~b.isNested /\ root = 0 /\ UNCHANGED <<table, root>>
      /\ DOMAIN made' = DOMAIN made \cup {offset(b')}
  BY DEF CreateVector, CanCreate, notNested, Made
<1> QED BY <1>2, <1>4, <1>5, CreatedOK

LEMMA StartTableOK ==
  ASSUME StateOK, NEW size \in Sizes, StartTable(size)
  PROVE  StateOK' /\ Adds
<1>1. size \in Nat /\ IsBuilder(b) /\ b' = startObject(b, size)
  BY LayoutAssumption DEF StateOK, StartTable
<1>2. /\ IsBuilder(b') /\ Extends(b, b') /\ offset(b') = offset(b)
      /\ DOMAIN b'.vtable = DOMAIN b.vtable \cup 0 .. size - 1
      /\ b'.vtable_in_use = size /\ b'.vtables = b.vtables
  BY <1>1, StartedIs
<1>3. HasEntries(b')
  BY <1>2 DEF HasEntries
<1>4. UNCHANGED <<made, table, root>> /\ root = 0
  BY DEF StartTable, CanCreate
<1>5. TablesMade' = TablesMade
  BY <1>4 DEF TablesMade
<1> QED BY <1>2, <1>3, <1>4, <1>5 DEF StateOK, Adds

LEMMA SetFieldOK ==
  ASSUME StateOK, NEW i \in DOMAIN Layout, NEW value \in Values(Layout[i]), SetField(i, value)
  PROVE  StateOK' /\ Adds
<1> DEFINE type == Layout[i]
<1>1. type \in FieldType /\ i \in Nat /\ i - 1 \in Nat
  BY LayoutAssumption
<1> HIDE DEF type
<1>2. type = "struct" => value \in Int \X Int
  BY ValueAssumption DEF Values, type
<1>3. type # "struct" => value \in Int
  <2>1. DOMAIN made \subseteq Int
    BY OffsetIs DEF StateOK
  <2>2. type # "struct" => \/ value \in DOMAIN made \/ value \in Floats \/ value \in Scalars
    BY DEF Values, type
  <2> QED BY <2>1, <2>2, ValueAssumption
<1>4. IsBuilder(b) /\ b' = AddField(type, i - 1, value)
  BY DEF StateOK, SetField, type
<1>5. IsBuilder(b') /\ Extends(b, b') /\ SameTable(b, b')
  BY <1>1, <1>2, <1>3, <1>4, FieldIs
<1>6. /\ b.isNested /\ root = 0 /\ DOMAIN table' = DOMAIN table \cup {i}
      /\ UNCHANGED <<made, root>>
  BY DEF SetField, endObjectAllowed
<1>7. offset(b) \in Nat /\ offset(b') \in Nat /\ offset(b) <= offset(b')
  BY <1>4, <1>5, OffsetIs DEF Extends
<1>8. DOMAIN made' \subseteq 1 .. offset(b')
  BY <1>6, <1>7 DEF StateOK
<1>9. HasEntries(b') /\ b'.vtable_in_use \in Sizes /\ root' = 0
  BY <1>5, <1>6 DEF StateOK, HasEntries, SameTable
<1>10. DOMAIN table' \subseteq DOMAIN Layout
  BY <1>6 DEF StateOK
<1> QED BY <1>5, <1>8, <1>9, <1>10 DEF StateOK, Adds, SameTable

LEMMA IdentifierIs ==
  ASSUME NEW ident \in Identifiers
  PROVE  ident \in Seq(Int) /\ Len(ident) <= 4
<1>1. ident \in Seq(Int) /\ Len(ident) \in {0, 4}
  BY ValueAssumption
<1>2. \A n \in {0, 4} : n <= 4
  OBVIOUS
<1> QED BY <1>1, <1>2

LEMMA FinishOK ==
  ASSUME StateOK, NEW at \in DOMAIN made, NEW ident \in Identifiers, Finish(at, ident)
  PROVE  StateOK' /\ Adds
<1>1. IsBuilder(b) /\ at \in Int /\ ident \in Seq(Int) /\ Len(ident) <= 4
  <2>1. IsBuilder(b) /\ DOMAIN made \subseteq Int
    BY DEF StateOK
  <2>2. at \in Int
    BY <2>1
  <2> QED BY <2>1, <2>2, IdentifierIs, Zenon
<1>2. b' = finish(b, at, ident) /\ root' = at /\ at # 0 /\ UNCHANGED <<made, table>>
  BY DEF Finish, StateOK
<1>3. Grows(b, b')
  BY <1>1, <1>2, FinishIs
<1>4. IsBuilder(b') /\ Extends(b, b') /\ b'.vtables = b.vtables
  BY <1>2, <1>3 DEF Grows, SameTable
<1>5. offset(b) \in Nat /\ offset(b') \in Nat /\ offset(b) <= offset(b')
  BY <1>1, <1>4, OffsetIs DEF Extends
<1>6. root' \in TablesMade'
  BY <1>2 DEF Finish, TablesMade
<1>7. DOMAIN made' \subseteq 1 .. offset(b')
  BY <1>2, <1>5 DEF StateOK
<1> QED BY <1>2, <1>4, <1>6, <1>7 DEF StateOK, Adds

LEMMA EndTableOK ==
  ASSUME StateOK, EndTable
  PROVE  StateOK' /\ Extends(b, b')
<1> DEFINE v == WithVtable(b)
           loc == vtableloc(b)
<1>1. /\ IsBuilder(b) /\ b.isNested /\ HasEntries(b) /\ root = 0 /\ b' = endObject(b)
      /\ table' = << >> /\ root' = root /\ DOMAIN made' = DOMAIN made \cup {loc}
  BY DEF StateOK, EndTable, endObjectAllowed, Made
<1>2. loc \in offset(b) + 4 .. offset(b) + 7 /\ offset(b) \in Nat /\ loc \in Nat
  BY <1>1, VtablelocIs, OffsetIs
<1>3. Continues(b, v) /\ offset(v) = loc + 2 * (b.vtable_in_use + 2)
  BY <1>1, WithVtableIs
<1>4. b.vtable_in_use \in Nat
  BY <1>1 DEF IsBuilder, Builders
<1> HIDE DEF v, loc
<1>5. /\ IsBuilder(b') /\ Extends(b, b') /\ ~b'.isNested
      /\ offset(b') = IF Shared(v) THEN loc ELSE offset(v)
  BY <1>1, EndObjectIs DEF v, loc
<1>6. loc <= offset(b') /\ offset(b') \in Nat
  BY <1>2, <1>3, <1>4, <1>5
<1>7. DOMAIN made' \subseteq 1 .. offset(b')
  BY <1>1, <1>2, <1>6 DEF StateOK
<1>8. DOMAIN table' = {}
  BY <1>1
<1> QED BY <1>1, <1>5, <1>7, <1>8 DEF StateOK

LEMMA StepOK ==
  ASSUME StateOK, Next
  PROVE  /\ StateOK' /\ Extends(b, b')
         /\ Adds \/ EndTable
BY CreateStringOK, CreateVectorOK, StartTableOK, SetFieldOK, EndTableOK, FinishOK DEF Next, Adds

LEMMA StutterOK ==
  ASSUME StateOK, UNCHANGED vars
  PROVE  StateOK' /\ Adds
<1>1. b' = b /\ made' = made /\ table' = table /\ root' = root
  BY DEF vars
<1>2. IsBuilder(b') /\ Extends(b, b')
  BY <1>1, ContinuesItself DEF StateOK, Continues
<1> QED BY <1>1, <1>2 DEF StateOK, TablesMade, Adds

LEMMA StateTyped ==
  ASSUME StateOK
  PROVE  TypeOK
<1>1. /\ b \in Builders /\ b.bb.bytes_ \in Seq(0 .. 255) /\ b.space <= Size(b)
      /\ BB!capacity(b.bb) = Size(b) /\ b.space \in Nat /\ Size(b) \in Nat
  BY OffsetIs DEF StateOK, IsBuilder, Byte
<1>2. b.minalign \in {1, 2, 4, 8} /\ b.isNested \in BOOLEAN
  BY <1>1, Zenon DEF Builders
<1> QED BY <1>1, <1>2 DEF StateOK, TypeOK

(***************************************************************************)
(* The builder of a program is one in every state: prep has made the room  *)
(* for whatever is written, so the free space never leaves the buffer, and *)
(* every byte of it is one.                                                *)
(***************************************************************************)
THEOREM BuilderTyped == Spec => []TypeOK
<1>1. Init => StateOK
  BY InitStateOK
<1>2. StateOK /\ [Next]_vars => StateOK'
  BY StepOK, StutterOK
<1>3. StateOK => TypeOK
  BY StateTyped
<1> QED BY <1>1, <1>2, <1>3, PTL DEF Spec

LEMMA BytesStay ==
  ASSUME StateOK, StateOK', Extends(b, b')
  PROVE  \A i \in 1 .. offset(b) :
           b'.bb.bytes_[BB!capacity(b'.bb) - i + 1] = b.bb.bytes_[BB!capacity(b.bb) - i + 1]
<1>1. BB!capacity(b.bb) = Size(b) /\ BB!capacity(b'.bb) = Size(b')
  BY OffsetIs DEF StateOK
<1> QED BY <1>1 DEF Extends, FromEnd

(***************************************************************************)
(* A byte that was written is never changed: neither growing the buffer    *)
(* nor endObject's reference, filled in afterwards, touches what was there *)
(* before the call.                                                        *)
(***************************************************************************)
THEOREM BytesWrittenStay == Spec => WrittenStays
<1>1. Init => StateOK
  BY InitStateOK
<1>2. StateOK /\ [Next]_vars => StateOK'
  BY StepOK, StutterOK
<1>3. StateOK /\ StateOK' /\ [Next]_vars =>
        [\A i \in 1 .. offset(b) :
           b'.bb.bytes_[BB!capacity(b'.bb) - i + 1] = b.bb.bytes_[BB!capacity(b.bb) - i + 1]]_vars
  BY StepOK, BytesStay
<1> QED BY <1>1, <1>2, <1>3, PTL DEF Spec, WrittenStays

(***************************************************************************)
(* Vtables.                                                                *)
(***************************************************************************)
\* The number a vtable has at this distance from the end.
NumberAt(w, d) == BB!readInt16(w.bb, Size(w) - d)

Twins(w, d, e) == SameVtable(w.bb, Size(w) - d, Size(w) - e)

LEMMA NumberAtIs ==
  ASSUME NEW w, IsBuilder(w), NEW d \in Int
  PROVE  NumberAt(w, d) \in Int
<1>1. Peek(w, d) \in Nat /\ Peek(w, d - 1) \in Nat
  BY PeekIs DEF Byte
<1> QED BY <1>1, ReadsInt16 DEF NumberAt, Int16, Signed16

LEMMA TwinsAre ==
  ASSUME NEW w, IsBuilder(w), NEW d \in Int, NEW e \in Int
  PROVE  Twins(w, d, e) <=>
           \A j \in Nat : j < NumberAt(w, d) /\ j % 2 = 0 => NumberAt(w, d - j) = NumberAt(w, e - j)
<1>1. Size(w) \in Nat /\ NumberAt(w, d) \in Int
  BY OffsetIs, NumberAtIs
<1>2. ASSUME NEW j \in Nat
      PROVE  /\ BB!readInt16(w.bb, Size(w) - d + j) = NumberAt(w, d - j)
             /\ BB!readInt16(w.bb, Size(w) - e + j) = NumberAt(w, e - j)
  <2>1. Size(w) - d + j = Size(w) - (d - j) /\ Size(w) - e + j = Size(w) - (e - j)
    BY <1>1
  <2> QED BY <2>1 DEF NumberAt
<1>3. Twins(w, d, e) <=>
        \A j \in {k \in 0 .. NumberAt(w, d) - 1 : k % 2 = 0} :
          BB!readInt16(w.bb, Size(w) - d + j) = BB!readInt16(w.bb, Size(w) - e + j)
  BY DEF Twins, SameVtable, NumberAt, SIZEOF_SHORT
<1>4. \A j : j \in {k \in 0 .. NumberAt(w, d) - 1 : k % 2 = 0} <=>
               j \in Nat /\ j < NumberAt(w, d) /\ j % 2 = 0
  BY <1>1
<1> QED BY <1>2, <1>3, <1>4

\* A vtable that was written before reads the same in the grown buffer.
LEMMA NumberStays ==
  ASSUME NEW w, IsBuilder(w), NEW c, IsBuilder(c), Extends(w, c),
         NEW d \in Int, d <= offset(w)
  PROVE  NumberAt(c, d) = NumberAt(w, d)
BY ReadsStay DEF NumberAt

LEMMA TwinsStay ==
  ASSUME NEW w, IsBuilder(w), NEW c, IsBuilder(c), Extends(w, c),
         NEW d \in Nat, d <= offset(w), NEW e \in Nat, e <= offset(w), Twins(c, d, e)
  PROVE  Twins(w, d, e)
<1>1. offset(w) \in Nat
  BY OffsetIs
<1>2. ASSUME NEW j \in Nat
      PROVE  NumberAt(c, d - j) = NumberAt(w, d - j) /\ NumberAt(c, e - j) = NumberAt(w, e - j)
  <2>1. d - j \in Int /\ d - j <= offset(w) /\ e - j \in Int /\ e - j <= offset(w)
    BY <1>1
  <2> QED BY <2>1, NumberStays
<1>3. NumberAt(c, d) = NumberAt(w, d)
  BY NumberStays
<1>4. \A j \in Nat : j < NumberAt(w, d) /\ j % 2 = 0 => NumberAt(c, d - j) = NumberAt(c, e - j)
  BY <1>3, TwinsAre
<1> QED BY <1>2, <1>4, TwinsAre

\* Every vtable lies among the bytes written and starts with its length.
VtablesOK ==
  \A x \in 1 .. Len(b.vtables) :
    b.vtables[x] \in 1 .. offset(b) /\ NumberAt(b, b.vtables[x]) > 0

\* SharedVtables in terms of places from the end, which growth leaves alone.
NoTwins ==
  \A x, y \in 1 .. Len(b.vtables) : Twins(b, b.vtables[x], b.vtables[y]) => x = y

LEMMA NoTwinsIs ==
  ASSUME StateOK
  PROVE  NoTwins <=> SharedVtables
<1>1. BB!capacity(b.bb) = Size(b)
  BY OffsetIs DEF StateOK
<1> QED BY <1>1 DEF NoTwins, SharedVtables, Twins, Place

LEMMA AddsVtables ==
  ASSUME StateOK, VtablesOK, NoTwins, Adds
  PROVE  VtablesOK' /\ NoTwins'
<1>1. /\ IsBuilder(b) /\ IsBuilder(b') /\ Extends(b, b') /\ b'.vtables = b.vtables
      /\ offset(b) \in Nat /\ offset(b') \in Nat /\ offset(b) <= offset(b')
  BY OffsetIs DEF StateOK, Adds, Extends
<1>2. ASSUME NEW x \in 1 .. Len(b.vtables)
      PROVE  b.vtables[x] \in 1 .. offset(b') /\ NumberAt(b', b.vtables[x]) > 0
  <2>1. b.vtables[x] \in 1 .. offset(b) /\ NumberAt(b, b.vtables[x]) > 0
    BY DEF VtablesOK
  <2>2. b.vtables[x] \in Int /\ b.vtables[x] <= offset(b)
    BY <1>1, <2>1
  <2>3. NumberAt(b', b.vtables[x]) = NumberAt(b, b.vtables[x])
    BY <1>1, <2>2, NumberStays
  <2> QED BY <1>1, <2>1, <2>3
<1>3. ASSUME NEW x \in 1 .. Len(b.vtables), NEW y \in 1 .. Len(b.vtables),
             Twins(b', b.vtables[x], b.vtables[y])
      PROVE  x = y
  <2>1. /\ b.vtables[x] \in Nat /\ b.vtables[x] <= offset(b)
        /\ b.vtables[y] \in Nat /\ b.vtables[y] <= offset(b)
    BY <1>1 DEF VtablesOK
  <2>2. Twins(b, b.vtables[x], b.vtables[y])
    BY <1>1, <1>3, <2>1, TwinsStay
  <2> QED BY <2>2 DEF NoTwins
<1> QED BY <1>1, <1>2, <1>3 DEF VtablesOK, NoTwins

LEMMA EvenBelow ==
  ASSUME NEW j \in Nat, NEW m \in Nat, j < 2 * m, j % 2 = 0
  PROVE  j <= 2 * m - 2
OBVIOUS

\* The vtable of a table just ended, when it is a new one.
LEMMA NewVtable ==
  ASSUME StateOK, VtablesOK, NoTwins, EndTable, ~Shared(WithVtable(b))
  PROVE  VtablesOK' /\ NoTwins'
<1> DEFINE v == WithVtable(b)
           loc == vtableloc(b)
           n == b.vtable_in_use
           end == offset(v)
           old == Len(b.vtables)
<1>1. /\ IsBuilder(b) /\ HasEntries(b) /\ b' = endObject(b) /\ offset(b) \in Nat
      /\ n \in Sizes /\ n \in Nat /\ Fits16((n + 2) * 2)
  <2>1. IsBuilder(b) /\ HasEntries(b) /\ b' = endObject(b) /\ n \in Sizes
    BY DEF StateOK, EndTable, endObjectAllowed
  <2>2. n \in Nat
    BY <2>1 DEF IsBuilder, Builders
  <2> HIDE DEF n
  <2>3. (n + 2) * 2 < 32768
    BY <2>1, SizeAssumption, SMT DEF SIZEOF_SHORT
  <2>4. Fits16((n + 2) * 2)
    BY <2>2, <2>3, SMT DEF Fits16
  <2> QED BY <2>1, <2>2, <2>4, OffsetIs
<1>2. loc \in Nat /\ loc >= offset(b) + 4
  <2>1. loc \in offset(b) + 4 .. offset(b) + 7
    BY <1>1, VtablelocIs
  <2> HIDE DEF loc
  <2> QED BY <1>1, <2>1
<1>3. /\ Continues(b, v) /\ end = loc + 2 * (n + 2)
      /\ NumberAt(v, end) = (n + 2) * 2
  <2>1. /\ Continues(b, v) /\ end = loc + 2 * (n + 2)
        /\ \A m \in 1 .. n + 2 :
             Fits16(VtableNumbers(b)[m]) => NumberAt(v, loc + 2 * m) = VtableNumbers(b)[m]
    BY <1>1, WithVtableIs DEF NumberAt
  <2>2. VtableNumbers(b)[n + 2] = (n + 2) * 2
    BY <1>1, NumbersAre
  <2> HIDE DEF v, loc, n, end
  <2>3. n + 2 \in 1 .. n + 2
    BY <1>1
  <2> QED BY <1>1, <2>1, <2>2, <2>3
<1>4. /\ IsBuilder(v) /\ v.vtables = b.vtables /\ Size(v) \in Nat /\ end \in Nat
      /\ v.space = Size(v) - end /\ BB!capacity(v.bb) = Size(v) /\ end <= Size(v)
  <2>1. /\ IsBuilder(v) /\ v.vtables = b.vtables /\ Size(v) \in Nat /\ end \in Nat
        /\ v.space \in Nat /\ end = Size(v) - v.space /\ BB!capacity(v.bb) = Size(v)
    BY <1>3, OffsetIs DEF Continues, SameRest
  <2> HIDE DEF v, end
  <2> QED BY <2>1
<1>5. /\ IsBuilder(b') /\ Extends(b, b') /\ Size(b') = Size(v) /\ offset(b') = end
      /\ \A d \in 1 .. Size(v) :
           d < loc - 3 \/ d > loc => FromEnd(b', d) = FromEnd(v, d)
      /\ b'.vtables = Append(b.vtables, end)
  <2>1. /\ IsBuilder(b') /\ Extends(b, b') /\ Size(b') = Size(v) /\ offset(b') = end
        /\ \A d \in 1 .. Size(v) :
             FromEnd(b', d) = IF d <= loc /\ loc - 3 <= d
                              THEN BB!LowBytes(VtableOf(v) - loc, 4)[loc - d + 1]
                              ELSE FromEnd(v, d)
        /\ b'.vtables = Append(b.vtables, end)
    <3>1. /\ IsBuilder(b) /\ HasEntries(b) /\ b' = endObject(b) /\ ~Shared(v)
          /\ v = WithVtable(b) /\ loc = vtableloc(b)
      BY <1>1
    <3> HIDE DEF v, loc, end
    <3>2. IsBuilder(b') /\ Extends(b, b') /\ Size(b') = Size(v)
      BY <3>1, EndObjectIs
    <3>4. offset(b') = IF Shared(v) THEN loc ELSE offset(v)
      BY <3>1, EndObjectIs
    <3>5. b'.vtables = Remembered(b, v)
      BY <3>1, EndObjectIs
    <3>3. \A d \in 1 .. Size(v) :
            FromEnd(b', d) = IF d <= loc /\ loc - 3 <= d
                             THEN BB!LowBytes(VtableOf(v) - loc, 4)[loc - d + 1]
                             ELSE FromEnd(v, d)
      BY <3>1, EndObjectIs
    <3> QED BY <3>1, <3>2, <3>3, <3>4, <3>5 DEF end, Remembered
  <2> HIDE DEF v, loc, end
  <2>2. ASSUME NEW d \in 1 .. Size(v), d < loc - 3 \/ d > loc
        PROVE  FromEnd(b', d) = FromEnd(v, d)
    <3>1. ~(d <= loc /\ loc - 3 <= d)
      BY <1>2, <2>2
    <3> QED BY <2>1, <3>1
  <2> QED BY <2>1, <2>2
<1>6. old \in Nat /\ \A x \in 1 .. old : b.vtables[x] \in 1 .. offset(b)
  <2>1. b.vtables \in Seq(Nat)
    BY <1>1 DEF IsBuilder, Builders
  <2> QED BY <2>1 DEF VtablesOK
<1>7. /\ Len(b'.vtables) = old + 1 /\ b'.vtables[old + 1] = end
      /\ \A x \in 1 .. old : b'.vtables[x] = b.vtables[x]
  <2>1. b.vtables \in Seq(Nat)
    BY <1>1 DEF IsBuilder, Builders
  <2> HIDE DEF end
  <2> QED BY <1>5, <2>1
<1> HIDE DEF v, loc, n, end, old
\* Away from the reference the numbers are the ones WithVtable wrote.
<1>8. ASSUME NEW d \in Int, d <= end, d < loc - 3 \/ d - 1 > loc
      PROVE  NumberAt(b', d) = NumberAt(v, d)
  <2>1. ASSUME NEW k \in Int, k <= end, k < loc - 3 \/ k > loc
        PROVE  Peek(b', k) = Peek(v, k)
    <3>1. CASE k <= 0
      BY <1>4, <1>5, <3>1, PeekIs
    <3>2. CASE ~(k <= 0)
      <4>1. k \in 1 .. Size(v) /\ k \in 1 .. Size(b')
        BY <1>4, <1>5, <2>1, <3>2
      <4>2. FromEnd(b', k) = FromEnd(v, k)
        BY <1>5, <2>1, <4>1
      <4>3. Peek(b', k) = FromEnd(b', k) /\ Peek(v, k) = FromEnd(v, k)
        BY <1>4, <1>5, <4>1, PeekIs
      <4> QED BY <4>2, <4>3
    <3> QED BY <3>1, <3>2
  <2>2. d - 1 \in Int /\ d - 1 <= end /\ (d < loc - 3 \/ d > loc) /\ (d - 1 < loc - 3 \/ d - 1 > loc)
    BY <1>2, <1>4, <1>8
  <2>3. Peek(b', d) = Peek(v, d) /\ Peek(b', d - 1) = Peek(v, d - 1)
    BY <1>8, <2>1, <2>2
  <2> QED BY <1>4, <1>5, <2>3, ReadsInt16 DEF NumberAt
<1>9. NumberAt(b', end) = (n + 2) * 2 /\ (n + 2) * 2 > 0
  <2>1. end \in Int /\ end <= end /\ end - 1 > loc
    BY <1>1, <1>2, <1>3, <1>4
  <2> QED BY <1>1, <1>3, <1>8, <2>1
<1>10. VtablesOK'
  <2>1. ASSUME NEW x \in 1 .. old + 1
        PROVE  b'.vtables[x] \in 1 .. offset(b') /\ NumberAt(b', b'.vtables[x]) > 0
    <3>1. CASE x = old + 1
      BY <1>2, <1>3, <1>4, <1>1, <1>5, <1>7, <1>9, <3>1
    <3>2. CASE x \in 1 .. old
      <4>1. b.vtables[x] \in 1 .. offset(b) /\ NumberAt(b, b.vtables[x]) > 0
        BY <3>2 DEF VtablesOK, old
      <4>2. b.vtables[x] \in Int /\ b.vtables[x] <= offset(b) /\ offset(b) <= offset(b')
            /\ offset(b') \in Nat
        BY <1>1, <1>4, <1>5, <4>1 DEF Extends
      <4>3. NumberAt(b', b.vtables[x]) = NumberAt(b, b.vtables[x])
        BY <1>1, <1>5, <4>2, NumberStays
      <4> QED BY <1>1, <1>7, <3>2, <4>1, <4>2, <4>3
    <3>3. x = old + 1 \/ x \in 1 .. old
      BY <1>6
    <3> QED BY <3>1, <3>2, <3>3
  <2> QED BY <1>7, <2>1 DEF VtablesOK
\* An old vtable like the new one would have been found.
<1>11. ASSUME NEW x \in 1 .. old,
              \A j \in Nat : j < (n + 2) * 2 /\ j % 2 = 0 =>
                NumberAt(b', b.vtables[x] - j) = NumberAt(b', end - j)
       PROVE  FALSE
  <2> DEFINE d == b.vtables[x]
  <2>1. d \in Nat /\ d <= offset(b)
    BY <1>1, <1>6
  <2> HIDE DEF d
  <2>2. ASSUME NEW j \in Nat, j < (n + 2) * 2, j % 2 = 0
        PROVE  NumberAt(v, d - j) = NumberAt(v, end - j)
    <3>1. j <= 2 * (n + 2) - 2
      <4>1. n + 2 \in Nat /\ j < 2 * (n + 2)
        BY <1>1, <2>2
      <4> DEFINE m == n + 2
      <4> HIDE DEF m
      <4>2. m \in Nat /\ j < 2 * m
        BY <4>1 DEF m
      <4>3. j <= 2 * m - 2
        BY <2>2, <4>2, EvenBelow
      <4> QED BY <4>3 DEF m
    <3>2. /\ d - j \in Int /\ d - j <= end /\ d - j < loc - 3
          /\ end - j \in Int /\ end - j <= end /\ end - j - 1 > loc
      BY <1>1, <1>2, <1>3, <1>4, <2>1, <3>1
    <3>3. NumberAt(b', d - j) = NumberAt(v, d - j) /\ NumberAt(b', end - j) = NumberAt(v, end - j)
      BY <1>8, <3>2
    <3>4. NumberAt(b', d - j) = NumberAt(b', end - j)
      BY <1>11, <2>2 DEF d
    <3> QED BY <3>3, <3>4
  <2>3. NumberAt(v, d) = (n + 2) * 2
    <3>1. 0 \in Nat /\ 0 < (n + 2) * 2 /\ 0 % 2 = 0 /\ d - 0 = d /\ end - 0 = end
      BY <1>1, <1>4, <1>9, <2>1
    <3>2. NumberAt(v, d) = NumberAt(v, end)
      BY <2>2, <3>1
    <3> QED BY <1>3, <3>2
  <2>4. Twins(v, d, end)
    <3>1. IsBuilder(v) /\ d \in Int /\ end \in Int
      BY <1>4, <2>1
    <3>2. \A j \in Nat : j < NumberAt(v, d) /\ j % 2 = 0 => NumberAt(v, d - j) = NumberAt(v, end - j)
      BY <2>2, <2>3
    <3> QED BY <3>1, <3>2, TwinsAre
  <2>5. x \in ExistingVtables(v)
    BY <1>4, <2>4 DEF ExistingVtables, Twins, d, old
  <2> QED BY <2>5 DEF Shared, v
<1>12. NoTwins'
  <2>1. ASSUME NEW x \in 1 .. old, NEW y \in 1 .. old, Twins(b', b.vtables[x], b.vtables[y])
        PROVE  x = y
    <3>1. /\ b.vtables[x] \in Nat /\ b.vtables[x] <= offset(b)
          /\ b.vtables[y] \in Nat /\ b.vtables[y] <= offset(b)
      BY <1>1, <1>6
    <3>2. Twins(b, b.vtables[x], b.vtables[y])
      BY <1>1, <1>5, <2>1, <3>1, TwinsStay
    <3> QED BY <3>2 DEF NoTwins, old
  <2>2. ASSUME NEW x \in 1 .. old, Twins(b', b.vtables[x], end)
        PROVE  FALSE
    <3>1. b.vtables[x] \in Int /\ end \in Int /\ NumberAt(b', b.vtables[x]) > 0
      BY <1>4, <1>6, <1>7, <1>10, <1>1 DEF VtablesOK
    <3>2. \A j \in Nat : j < NumberAt(b', b.vtables[x]) /\ j % 2 = 0 =>
            NumberAt(b', b.vtables[x] - j) = NumberAt(b', end - j)
      BY <1>5, <2>2, <3>1, TwinsAre
    <3>3. NumberAt(b', b.vtables[x]) = (n + 2) * 2
      <4>1. 0 \in Nat /\ 0 % 2 = 0 /\ b.vtables[x] - 0 = b.vtables[x] /\ end - 0 = end
        BY <3>1
      <4>2. NumberAt(b', b.vtables[x]) = NumberAt(b', end)
        BY <3>1, <3>2, <4>1
      <4> QED BY <1>9, <4>2
    <3> QED BY <1>11, <3>2, <3>3
  <2>3. ASSUME NEW x \in 1 .. old, Twins(b', end, b.vtables[x])
        PROVE  FALSE
    <3>1. b.vtables[x] \in Int /\ end \in Int
      BY <1>4, <1>6, <1>1
    <3>2. \A j \in Nat : j < (n + 2) * 2 /\ j % 2 = 0 =>
            NumberAt(b', end - j) = NumberAt(b', b.vtables[x] - j)
      BY <1>5, <1>9, <2>3, <3>1, TwinsAre
    <3> QED BY <1>11, <3>2
  <2>4. ASSUME NEW x \in 1 .. old + 1, NEW y \in 1 .. old + 1,
               Twins(b', b'.vtables[x], b'.vtables[y])
        PROVE  x = y
    <3>1. (x = old + 1 \/ x \in 1 .. old) /\ (y = old + 1 \/ y \in 1 .. old)
      BY <1>6
    <3> QED BY <1>7, <2>1, <2>2, <2>3, <2>4, <3>1
  <2> QED BY <1>7, <2>4 DEF NoTwins
<1> QED BY <1>10, <1>12

LEMMA EndTableVtables ==
  ASSUME StateOK, VtablesOK, NoTwins, EndTable
  PROVE  VtablesOK' /\ NoTwins'
<1>1. CASE Shared(WithVtable(b))
  <2>1. IsBuilder(b) /\ HasEntries(b) /\ b' = endObject(b)
    BY DEF StateOK, EndTable, endObjectAllowed
  <2>2. b'.vtables = b.vtables /\ IsBuilder(b') /\ Extends(b, b')
    BY <1>1, <2>1, EndObjectIs DEF Remembered
  <2> QED BY <2>2, AddsVtables DEF Adds
<1>2. CASE ~Shared(WithVtable(b))
  BY <1>2, NewVtable
<1> QED BY <1>1, <1>2

(***************************************************************************)
(* No two vtables of a buffer are equal: endObject's search finds every    *)
(* vtable that equals the one just written, for as long as a program fills *)
(* the buffer and however often it grows.  The search stays right because  *)
(* the vtables written stay as they are, the reference filled in behind    *)
(* the new one included.                                                   *)
(***************************************************************************)
THEOREM VtablesAreShared == Spec => []SharedVtables
<1> DEFINE Inv == StateOK /\ VtablesOK /\ NoTwins
<1>1. Init => Inv
  <2> SUFFICES ASSUME Init PROVE Inv
    OBVIOUS
  <2>1. StateOK /\ b.vtables = << >>
    BY InitStateOK
  <2>2. 1 .. Len(b.vtables) = {}
    BY <2>1
  <2> QED BY <2>1, <2>2 DEF VtablesOK, NoTwins
<1>2. Inv /\ [Next]_vars => Inv'
  <2> SUFFICES ASSUME Inv, [Next]_vars PROVE Inv'
    OBVIOUS
  <2>1. CASE Next
    BY <2>1, StepOK, AddsVtables, EndTableVtables
  <2>2. CASE UNCHANGED vars
    BY <2>2, StutterOK, AddsVtables
  <2> QED BY <2>1, <2>2
<1>3. Inv => SharedVtables
  BY NoTwinsIs
<1> QED BY <1>1, <1>2, <1>3, PTL DEF Spec
(***************************************************************************)
(* Alignment.                                                              *)
(***************************************************************************)
\* How large a buffer and a table may be.  growByteBuffer throws before a
\* buffer has 2 gigabytes, and the numbers of a vtable have 16 bits: with
\* the reference in front of them and the gap before it, 7 bytes at most,
\* a table's fields have to be less than 32767 bytes away.
Bounded ==
  /\ Size(b) <= 2147483647
  /\ b.isNested => offset(b) - b.object_start < 32760

Int32At(w, d) == BB!readInt32(w.bb, Size(w) - d)

\* Where the table made at this offset says its vtable is.
VtableAt(w, at) == at + Int32At(w, at)

\* __offset, in terms of places from the end.
FieldOf(w, at, i) ==
  IF 4 + 2 * (i - 1) < NumberAt(w, VtableAt(w, at))
  THEN NumberAt(w, VtableAt(w, at) - (4 + 2 * (i - 1))) ELSE 0

\* The field's place, from the end, is a multiple of its size, and so is the
\* place of what it refers to.
FieldAligned(w, i, e) ==
  /\ e \in 1 .. offset(w) /\ e % SizeOf(Layout[i]) = 0
  /\ SizeOf(Layout[i]) <= w.minalign
  /\ Layout[i] = "offset" => (e - Int32At(w, e)) % 4 = 0

TableAligned(w, at) ==
  /\ at \in 1 .. offset(w) /\ VtableAt(w, at) \in 1 .. offset(w)
  /\ \A i \in DOMAIN Layout :
       FieldOf(w, at, i) # 0 => FieldAligned(w, i, at - FieldOf(w, at, i))

\* The same of the table under construction.
OpenAligned(w) ==
  w.isNested =>
    /\ w.object_start <= offset(w)
    /\ \A i \in 1 .. w.vtable_in_use :
         w.vtable[i - 1] # 0 =>
           w.vtable[i - 1] > w.object_start /\ FieldAligned(w, i, w.vtable[i - 1])

MadeAligned == \A at \in DOMAIN made : at % 4 = 0

TablesAligned == \A at \in TablesMade : TableAligned(b, at)

\* A finished buffer is as long as the largest alignment asks for, so the
\* places from its beginning are aligned like those from its end.
RootAligned ==
  root # 0 => b.bb.position_ = b.space /\ offset(b) % b.minalign = 0 /\ b.minalign >= 4

AllAligned ==
  MadeAligned /\ TablesAligned /\ (root = 0 => OpenAligned(b)) /\ RootAligned

LEMMA SizeOfIs ==
  ASSUME NEW type \in FieldType
  PROVE  SizeOf(type) \in {1, 2, 4, 8}
<1> QED BY DEF SizeOf, FieldType

LEMMA LayoutIs ==
  ASSUME NEW i \in DOMAIN Layout
  PROVE  i \in Nat /\ i >= 1 /\ Layout[i] \in FieldType /\ SizeOf(Layout[i]) \in {1, 2, 4, 8}
<1>1. i \in Nat /\ i >= 1 /\ Layout[i] \in FieldType
  BY LayoutAssumption
<1> QED BY <1>1, SizeOfIs

LEMMA Int32AtIs ==
  ASSUME NEW w, IsBuilder(w), NEW d \in Int
  PROVE  Int32At(w, d) \in Int
<1>1. /\ Peek(w, d) \in Int /\ Peek(w, d - 1) \in Int
      /\ Peek(w, d - 2) \in Int /\ Peek(w, d - 3) \in Int
  BY PeekIs DEF Byte
<1> QED BY <1>1, ReadsInt32 DEF Int32At

LEMMA Int32Stays ==
  ASSUME NEW w, IsBuilder(w), NEW c, IsBuilder(c), Extends(w, c),
         NEW d \in Int, d <= offset(w)
  PROVE  Int32At(c, d) = Int32At(w, d)
BY ReadsStay DEF Int32At

LEMMA FieldStays ==
  ASSUME NEW w, IsBuilder(w), NEW c, IsBuilder(c), Extends(w, c),
         NEW i \in DOMAIN Layout, NEW e, FieldAligned(w, i, e)
  PROVE  FieldAligned(c, i, e)
<1>1. /\ offset(w) \in Nat /\ offset(c) \in Nat /\ offset(w) <= offset(c)
      /\ w.minalign \in Nat /\ c.minalign \in Nat /\ w.minalign <= c.minalign
  BY OffsetIs DEF Extends
<1>2. SizeOf(Layout[i]) \in Nat
  BY LayoutIs
<1>3. e \in Int /\ e \in 1 .. offset(w) /\ e <= offset(w)
  BY <1>1 DEF FieldAligned
<1>4. Int32At(c, e) = Int32At(w, e)
  BY <1>3, Int32Stays
<1>5. e \in 1 .. offset(c)
  BY <1>1, <1>3
<1>6. SizeOf(Layout[i]) <= c.minalign
  BY <1>1, <1>2 DEF FieldAligned
<1> QED BY <1>4, <1>5, <1>6 DEF FieldAligned

LEMMA FieldOfStays ==
  ASSUME NEW w, IsBuilder(w), NEW c, IsBuilder(c), Extends(w, c), NEW at \in Int,
         at <= offset(w), VtableAt(w, at) \in 1 .. offset(w), NEW i \in DOMAIN Layout
  PROVE  VtableAt(c, at) = VtableAt(w, at) /\ FieldOf(c, at, i) = FieldOf(w, at, i)
<1> DEFINE vt == VtableAt(w, at)
<1>1. VtableAt(c, at) = vt
  BY Int32Stays DEF VtableAt
<1>2. offset(w) \in Nat /\ i \in Nat /\ i >= 1
  BY OffsetIs, LayoutIs
<1>3. vt \in Int /\ vt <= offset(w) /\ vt - (4 + 2 * (i - 1)) \in Int /\ vt - (4 + 2 * (i - 1)) <= offset(w)
  <2>1. vt \in 1 .. offset(w)
    OBVIOUS
  <2> HIDE DEF vt
  <2> QED BY <1>2, <2>1
<1>4. /\ NumberAt(c, vt) = NumberAt(w, vt)
      /\ NumberAt(c, vt - (4 + 2 * (i - 1))) = NumberAt(w, vt - (4 + 2 * (i - 1)))
  <2> HIDE DEF vt
  <2> QED BY <1>3, NumberStays
<1> QED BY <1>1, <1>4 DEF FieldOf

\* A table that was ended stays as it is.
LEMMA TableStays ==
  ASSUME NEW w, IsBuilder(w), NEW c, IsBuilder(c), Extends(w, c), NEW at, TableAligned(w, at)
  PROVE  TableAligned(c, at)
<1>1. offset(w) \in Nat /\ offset(c) \in Nat /\ offset(w) <= offset(c)
  BY OffsetIs DEF Extends
<1>2. /\ at \in 1 .. offset(w) /\ VtableAt(w, at) \in 1 .. offset(w)
      /\ at \in Int /\ at <= offset(w)
  BY <1>1 DEF TableAligned
<1>3. VtableAt(c, at) = VtableAt(w, at)
  BY <1>2, Int32Stays DEF VtableAt
<1>4. at \in 1 .. offset(c) /\ VtableAt(c, at) \in 1 .. offset(c)
  BY <1>1, <1>2, <1>3
<1>5. ASSUME NEW i \in DOMAIN Layout, FieldOf(c, at, i) # 0
      PROVE  FieldAligned(c, i, at - FieldOf(c, at, i))
  <2>1. FieldOf(c, at, i) = FieldOf(w, at, i)
    BY <1>2, FieldOfStays
  <2>2. FieldAligned(w, i, at - FieldOf(w, at, i))
    BY <1>5, <2>1 DEF TableAligned
  <2> QED BY <2>1, <2>2, FieldStays
<1> QED BY <1>4, <1>5 DEF TableAligned

\* Whatever is added behind them, the tables there are stay aligned.
LEMMA TablesStay ==
  ASSUME StateOK, TablesAligned, IsBuilder(b'), Extends(b, b'), TablesMade' \subseteq TablesMade
  PROVE  TablesAligned'
<1>1. IsBuilder(b)
  BY DEF StateOK
<1>2. ASSUME NEW at \in TablesMade' PROVE TableAligned(b', at)
  <2>1. TableAligned(b, at)
    BY DEF TablesAligned
  <2> QED BY <1>1, <2>1, TableStays
<1> QED BY <1>2 DEF TablesAligned, TableAligned, FieldOf, FieldAligned, VtableAt, Int32At, NumberAt

\* A reference counts from where it starts to what it refers to.
References(d, value) ==
  \A i \in 1 .. 4 : FromEnd(d, offset(d) + 1 - i) = BB!LowBytes(offset(d) - value, 4)[i]

\* What is written for a field, before slot takes note of it.
FieldPut(d, type, value) ==
  /\ Continues(b, d) /\ offset(d) > offset(b)
  /\ offset(d) % SizeOf(type) = 0 /\ SizeOf(type) <= d.minalign
  /\ type = "offset" => References(d, value)

\* A field is left out, or it is written at a multiple of its size.
LEMMA FieldWritten ==
  ASSUME IsBuilder(b), NEW type \in FieldType, NEW voffset \in Nat, NEW value,
         type = "struct" => value \in Int \X Int, type # "struct" => value \in Int,
         NEW c, c = AddField(type, voffset, value)
  PROVE  c = b \/ \E d : FieldPut(d, type, value) /\ c = slot(d, voffset)
<1>1. CASE type = "struct"
  <2> DEFINE d == CreateStruct(value)
  <2>1. /\ Continues(b, d) /\ offset(d) >= offset(b) + 32
        /\ offset(d) % 8 = 0 /\ 8 <= d.minalign
    BY <1>1, StructIs
  <2>2. c = addFieldStruct(d, voffset, offset(d), 0)
    BY <1>1 DEF AddField
  <2> HIDE DEF d
  <2>3. offset(b) \in Nat /\ offset(d) \in Nat
    BY <2>1, OffsetIs DEF Continues
  <2>4. c = slot(d, voffset)
    BY <2>1, <2>2, <2>3 DEF addFieldStruct
  <2>5. SizeOf(type) = 8 /\ type # "offset"
    BY <1>1 DEF SizeOf
  <2>6. FieldPut(d, type, value)
    BY <2>1, <2>3, <2>5 DEF FieldPut
  <2> QED BY <2>4, <2>6
<1>2. CASE type = "offset"
  <2> DEFINE d == addOffset(b, value)
  <2>1. value \in Int
    BY <1>2
  <2>2. /\ Continues(b, d) /\ offset(d) \in offset(b) + 4 .. offset(b) + 7
        /\ offset(d) % 4 = 0 /\ 4 <= d.minalign /\ References(d, value)
    BY <2>1, AddsOffset DEF References
  <2>3. c = addFieldOffset(b, voffset, value, 0)
    BY <1>2 DEF AddField
  <2>4. c = b \/ c = slot(d, voffset)
    BY <2>3 DEF addFieldOffset
  <2> HIDE DEF d
  <2>5. offset(b) \in Nat /\ offset(d) > offset(b)
    BY <2>2, OffsetIs
  <2>6. SizeOf(type) = 4
    BY <1>2 DEF SizeOf
  <2>7. FieldPut(d, type, value)
    BY <2>2, <2>5, <2>6 DEF FieldPut
  <2> QED BY <2>4, <2>7
<1>3. CASE type \notin {"struct", "offset"}
  <2>1. Sets(b, c, voffset, SizeOf(type))
    <3> DEFINE long == BB!createLong(value, value)
               double == BB!createLong(0, value)
               zero == BB!createLong(0, 0)
    <3>1. value \in Int /\ long \in Longs /\ double \in Longs /\ zero \in Longs
      BY <1>3 DEF BB!createLong, BB!Long, Longs
    <3>2. /\ type = "int8" => c = addFieldInt8(b, voffset, value, 0)
          /\ type = "int16" => c = addFieldInt16(b, voffset, value, 0)
          /\ type = "int32" => c = addFieldInt32(b, voffset, value, 0)
          /\ type = "int64" => c = addFieldInt64(b, voffset, long, zero)
          /\ type = "float32" => c = addFieldFloat32(b, voffset, value, 0)
          /\ type = "float64" => c = addFieldFloat64(b, voffset, double, zero)
      BY DEF AddField
    <3> HIDE DEF long, double, zero
    <3>3. /\ Sets(b, addFieldInt8(b, voffset, value, 0), voffset, 1)
          /\ Sets(b, addFieldInt16(b, voffset, value, 0), voffset, 2)
          /\ Sets(b, addFieldInt32(b, voffset, value, 0), voffset, 4)
          /\ Sets(b, addFieldInt64(b, voffset, long, zero), voffset, 8)
          /\ Sets(b, addFieldFloat32(b, voffset, value, 0), voffset, 4)
      BY <3>1, SetsField
    <3>4. Sets(b, addFieldFloat64(b, voffset, double, zero), voffset, 8)
      BY <3>1, SetsField
    <3>5. type \in {"int8", "int16", "int32", "int64", "float32", "float64"}
      BY <1>3 DEF FieldType
    <3>6. /\ type = "int8" => SizeOf(type) = 1
          /\ type = "int16" => SizeOf(type) = 2
          /\ type \in {"int32", "float32"} => SizeOf(type) = 4
          /\ type \in {"int64", "float64"} => SizeOf(type) = 8
      BY DEF SizeOf
    <3> QED BY <3>2, <3>3, <3>4, <3>5, <3>6
  <2>2. SizeOf(type) \in {1, 2, 4, 8}
    BY SizeOfIs
  <2>3. ASSUME c # b
        PROVE  \E d : FieldPut(d, type, value) /\ c = slot(d, voffset)
    <3> DEFINE size == SizeOf(type)
    <3>1. PICK d : /\ Continues(b, d) /\ offset(d) % size = 0 /\ size <= d.minalign
                   /\ offset(d) \in offset(b) + size .. offset(b) + 2 * size - 1
                   /\ c = slot(d, voffset)
      BY <2>1, <2>3 DEF Sets
    <3>2. offset(d) > offset(b)
      <4>1. offset(b) \in Nat
        BY OffsetIs
      <4> HIDE DEF size
      <4>2. size \in Nat /\ size >= 1
        BY <2>2 DEF size
      <4> QED BY <3>1, <4>1, <4>2
    <3> QED BY <1>3, <3>1, <3>2 DEF FieldPut
  <2> QED BY <2>3
<1> QED BY <1>1, <1>2, <1>3

\* Strings and vectors.
LEMMA CreatedAligned ==
  ASSUME StateOK, AllAligned, ~b.isNested, root = 0, Grows(b, b'), UNCHANGED <<table, root>>,
         offset(b') > offset(b), offset(b') % 4 = 0, NEW kind, kind # "table",
         NEW value, Made(kind, value, {}, offset(b'))
  PROVE  AllAligned'
<1>1. /\ IsBuilder(b) /\ IsBuilder(b') /\ Extends(b, b') /\ ~b'.isNested /\ root' = 0
      /\ DOMAIN made' = DOMAIN made \cup {offset(b')}
  BY DEF StateOK, Grows, SameTable, Made
<1>2. MadeAligned'
  BY <1>1 DEF AllAligned, MadeAligned
<1>3. TablesMade' \subseteq TablesMade
  <2> SUFFICES ASSUME NEW at \in DOMAIN made', made'[at].kind = "table"
               PROVE  at \in DOMAIN made /\ made[at].kind = "table"
    BY DEF TablesMade
  <2>1. at # offset(b')
    BY DEF Made
  <2> QED BY <1>1, <2>1 DEF Made
<1>4. TablesAligned'
  BY <1>1, <1>3, TablesStay DEF AllAligned
<1>5. OpenAligned(b') /\ RootAligned'
  BY <1>1 DEF OpenAligned, RootAligned
<1> QED BY <1>2, <1>4, <1>5 DEF AllAligned, OpenAligned, FieldAligned, Int32At

LEMMA StringAligned ==
  ASSUME StateOK, AllAligned, NEW s \in Strings, CreateString(s)
  PROVE  AllAligned'
<1>1. s \in Seq(Nat) /\ IsBuilder(b) /\ b' = createString(b, s) /\ offset(b) \in Nat
  BY ValueAssumption, OffsetIs DEF StateOK, CreateString
<1>2. Grows(b, b') /\ offset(b') >= offset(b) + 5 /\ offset(b') % 4 = 0
  BY <1>1, StringIs
<1>3. offset(b') > offset(b)
  <2>1. offset(b') \in Nat
    BY <1>2, OffsetIs DEF Grows
  <2> QED BY <1>1, <1>2, <2>1
<1>4. /\ ~b.isNested /\ root = 0 /\ UNCHANGED <<table, root>>
      /\ Made("string", s, {}, offset(b'))
  BY DEF CreateString, CanCreate, notNested
<1> QED BY <1>2, <1>3, <1>4, CreatedAligned

LEMMA VectorAligned ==
  ASSUME StateOK, AllAligned, NEW v \in Vectors, CreateVector(v)
  PROVE  AllAligned'
<1>1. v \in Seq(Int) /\ IsBuilder(b) /\ b' = Vector(b, v) /\ offset(b) \in Nat /\ Len(v) \in Nat
  BY ValueAssumption, OffsetIs DEF StateOK, CreateVector, Vector, AddedInt8
<1>2. Grows(b, b') /\ offset(b') >= offset(b) + Len(v) + 4 /\ offset(b') % 4 = 0
  BY <1>1, VectorIs
<1>3. offset(b') > offset(b)
  <2>1. offset(b') \in Nat
    BY <1>2, OffsetIs DEF Grows
  <2> QED BY <1>1, <1>2, <2>1
<1>4. /\ ~b.isNested /\ root = 0 /\ UNCHANGED <<table, root>>
      /\ Made("vector", v, {}, offset(b'))
  BY DEF CreateVector, CanCreate, notNested
<1> QED BY <1>2, <1>3, <1>4, CreatedAligned

LEMMA StartedAligned ==
  ASSUME StateOK, AllAligned, NEW size \in Sizes, StartTable(size)
  PROVE  AllAligned'
<1>1. size \in Nat /\ IsBuilder(b) /\ b' = startObject(b, size) /\ offset(b) \in Nat
  BY LayoutAssumption, OffsetIs DEF StateOK, StartTable
<1>2. /\ IsBuilder(b') /\ Extends(b, b') /\ offset(b') = offset(b)
      /\ \A i \in 0 .. size - 1 : b'.vtable[i] = 0
      /\ b'.vtable_in_use = size /\ b'.object_start = offset(b)
  BY <1>1, StartedIs
<1>3. UNCHANGED <<made, table, root>> /\ root = 0
  BY DEF StartTable, CanCreate
<1>4. TablesMade' = TablesMade
  BY <1>3 DEF TablesMade
<1>5. TablesAligned'
  BY <1>2, <1>4, TablesStay DEF AllAligned
<1>6. OpenAligned(b')
  <2>1. b'.object_start <= offset(b')
    BY <1>1, <1>2
  <2>2. \A i \in 1 .. size : b'.vtable[i - 1] = 0
    BY <1>1, <1>2
  <2> QED BY <1>2, <2>1, <2>2 DEF OpenAligned
<1>7. MadeAligned' /\ RootAligned'
  BY <1>3 DEF AllAligned, MadeAligned, RootAligned
<1> QED BY <1>5, <1>6, <1>7 DEF AllAligned, OpenAligned, FieldAligned, Int32At

\* A reference written for a field leads to what it was written for.
LEMMA ReferenceIs ==
  ASSUME IsBuilder(b), NEW value \in 1 .. offset(b), NEW d, FieldPut(d, "offset", value),
         Size(d) <= 2147483647
  PROVE  Int32At(d, offset(d)) = offset(d) - value
<1>1. /\ IsBuilder(d) /\ offset(d) % 4 = 0 /\ offset(d) > offset(b) /\ References(d, value)
  BY DEF FieldPut, Continues, SizeOf
<1>2. /\ offset(b) \in Nat /\ offset(d) \in Nat /\ Size(d) \in Nat /\ d.space \in Nat
      /\ offset(d) = Size(d) - d.space
  BY <1>1, OffsetIs
<1> DEFINE n == offset(d) - value
           e == offset(d)
<1>3. n \in Int /\ Fits32(n)
  BY <1>1, <1>2 DEF Fits32
<1>4. e \in Int /\ 4 <= e /\ e <= Size(d)
  BY <1>1, <1>2
<1>5. \A i \in 1 .. 4 : FromEnd(d, e + 1 - i) = BB!LowBytes(n, 4)[i]
  BY <1>1 DEF References
<1> HIDE DEF n, e
<1>6. BB!readInt32(d.bb, Size(d) - e) = n
  BY <1>1, <1>3, <1>4, <1>5, Int32Reads
<1> QED BY <1>6 DEF Int32At, n, e

\* The fields of the open table after one more was set.
LEMMA FieldSetAligned ==
  ASSUME StateOK, AllAligned, b.isNested, root = 0, NEW i \in 1 .. b.vtable_in_use, i \in DOMAIN Layout,
         NEW value, NEW d, FieldPut(d, Layout[i], value), NEW c, c = slot(d, i - 1),
         Layout[i] = "offset" => value \in DOMAIN made, Size(c) <= 2147483647
  PROVE  OpenAligned(c)
<1> DEFINE n == b.vtable_in_use
           type == Layout[i]
           e == offset(d)
<1>1. /\ IsBuilder(b) /\ IsBuilder(d) /\ Continues(b, d) /\ HasEntries(b)
      /\ i \in Nat /\ i - 1 \in Nat
  BY LayoutIs DEF StateOK, FieldPut, Continues
<1>2. /\ IsBuilder(c) /\ Extends(d, c) /\ offset(c) = e /\ SameBuffer(d, c)
      /\ c.vtable = SlotOf(d, i - 1) /\ c.vtable_in_use = d.vtable_in_use
      /\ c.object_start = d.object_start
  BY <1>1, SlotIs
<1>3. /\ d.vtable = b.vtable /\ d.vtable_in_use = n /\ d.object_start = b.object_start
      /\ Extends(b, d)
  BY <1>1 DEF Continues, SameRest
<1>4. /\ offset(b) \in Nat /\ e \in Nat /\ e > offset(b) /\ Size(d) = Size(c) /\ n \in Nat
      /\ b.object_start \in Int /\ b.object_start <= offset(b)
  <2>1. offset(b) \in Nat /\ e \in Nat
    BY <1>1, OffsetIs
  <2>2. e > offset(b) /\ Size(d) = Size(c)
    BY <1>2 DEF FieldPut, SameBuffer, Size
  <2>3. n \in Nat /\ b.object_start \in Int
    BY <1>1 DEF IsBuilder, Builders
  <2>4. b.object_start <= offset(b)
    BY DEF AllAligned, OpenAligned
  <2> QED BY <2>1, <2>2, <2>3, <2>4
<1>5. c.vtable[i - 1] = e
  BY <1>2 DEF SlotOf, WithEntry
<1>6. \A j \in 1 .. n : j # i => c.vtable[j - 1] = b.vtable[j - 1]
  <2> TAKE j \in 1 .. n
  <2>1. j - 1 \in 0 .. n - 1
    BY <1>4
  <2>2. j - 1 \in DOMAIN d.vtable
    BY <1>1, <1>3, <2>1 DEF HasEntries
  <2>3. j # i => j - 1 # i - 1
    BY <1>1, <1>4
  <2> QED BY <1>2, <1>3, <2>2, <2>3 DEF SlotOf, WithEntry
<1>7. FieldAligned(d, i, e)
  <2>1. e \in 1 .. offset(d) /\ e % SizeOf(type) = 0 /\ SizeOf(type) <= d.minalign
    BY <1>4 DEF FieldPut
  <2>2. ASSUME type = "offset" PROVE (e - Int32At(d, e)) % 4 = 0
    <3>1. value \in DOMAIN made /\ value % 4 = 0 /\ value \in 1 .. offset(b)
      BY <2>2 DEF AllAligned, MadeAligned, StateOK
    <3>2. FieldPut(d, "offset", value) /\ Size(d) <= 2147483647
      BY <1>4, <2>2
    <3>3. Int32At(d, e) = e - value
      BY <1>1, <3>1, <3>2, ReferenceIs
    <3>4. e - (e - value) = value
      BY <1>4, <3>1
    <3> QED BY <3>1, <3>3, <3>4
  <2> QED BY <2>1, <2>2 DEF FieldAligned
<1> HIDE DEF e, n
<1>8. ASSUME NEW j \in 1 .. n, c.vtable[j - 1] # 0
      PROVE  c.vtable[j - 1] > c.object_start /\ FieldAligned(c, j, c.vtable[j - 1])
  <2>1. CASE j = i
    BY <1>1, <1>2, <1>3, <1>4, <1>5, <1>7, <2>1, FieldStays
  <2>2. CASE j # i
    <3>1. j \in DOMAIN Layout
      <4>1. n \in Sizes
        BY DEF StateOK, n
      <4>2. n \in 1 .. Len(Layout) /\ Len(Layout) \in Nat /\ DOMAIN Layout = 1 .. Len(Layout)
        BY <4>1, LayoutAssumption
      <4> QED BY <1>4, <4>2
    <3>2. c.vtable[j - 1] = b.vtable[j - 1] /\ b.vtable[j - 1] # 0
      BY <1>6, <1>8, <2>2
    <3>3. b.vtable[j - 1] > b.object_start /\ FieldAligned(b, j, b.vtable[j - 1])
      BY <3>2 DEF AllAligned, OpenAligned, n
    <3>4. FieldAligned(d, j, b.vtable[j - 1])
      BY <1>1, <1>3, <3>1, <3>3, FieldStays
    <3>5. FieldAligned(c, j, b.vtable[j - 1])
      BY <1>1, <1>2, <3>1, <3>4, FieldStays
    <3> QED BY <1>2, <1>3, <3>2, <3>3, <3>5
  <2> QED BY <2>1, <2>2
<1>9. c.object_start <= offset(c)
  BY <1>2, <1>3, <1>4
<1> QED BY <1>2, <1>3, <1>8, <1>9 DEF OpenAligned

LEMMA SetFieldAligned ==
  ASSUME StateOK, AllAligned, Bounded', NEW i \in DOMAIN Layout, NEW value \in Values(Layout[i]),
         SetField(i, value)
  PROVE  AllAligned'
<1> DEFINE type == Layout[i]
<1>1. type \in FieldType /\ i \in Nat /\ i - 1 \in Nat /\ i >= 1
  BY LayoutIs
<1> HIDE DEF type
<1>2. type = "struct" => value \in Int \X Int
  BY ValueAssumption DEF Values, type
<1>3. type # "struct" => value \in Int
  <2>1. DOMAIN made \subseteq Int
    BY OffsetIs DEF StateOK
  <2>2. type # "struct" => \/ value \in DOMAIN made \/ value \in Floats \/ value \in Scalars
    BY DEF Values, type
  <2> QED BY <2>1, <2>2, ValueAssumption
<1>4. IsBuilder(b) /\ b' = AddField(type, i - 1, value)
  BY DEF StateOK, SetField, type
<1>5. IsBuilder(b') /\ Extends(b, b') /\ SameTable(b, b')
  BY <1>1, <1>2, <1>3, <1>4, FieldIs
<1>6. /\ b.isNested /\ i <= b.vtable_in_use /\ b.vtable_in_use \in Nat
      /\ UNCHANGED <<made, root>> /\ root = 0
  <2>1. b.vtable_in_use \in Nat
    BY <1>4 DEF IsBuilder, Builders
  <2> QED BY <2>1 DEF SetField, endObjectAllowed, StateOK
<1>7. TablesMade' = TablesMade
  BY <1>6 DEF TablesMade
<1>8. TablesAligned'
  BY <1>5, <1>7, TablesStay DEF AllAligned
<1>9. MadeAligned' /\ RootAligned'
  BY <1>6 DEF AllAligned, MadeAligned, RootAligned
<1>10. OpenAligned(b')
  <2>1. CASE b' = b
    BY <1>6, <2>1 DEF AllAligned
  <2>2. ASSUME NEW d, FieldPut(d, type, value), b' = slot(d, i - 1)
        PROVE  OpenAligned(b')
    <3>1. i \in 1 .. b.vtable_in_use
      BY <1>1, <1>6
    <3>2. type = "offset" => value \in DOMAIN made
      BY DEF Values, type
    <3>3. Size(b') <= 2147483647
      BY DEF Bounded, Size
    <3>4. FieldPut(d, Layout[i], value)
      BY <2>2 DEF type
    <3>5. Layout[i] = "offset" => value \in DOMAIN made
      BY <3>2 DEF type
    <3> QED BY <1>6, <2>2, <3>1, <3>3, <3>4, <3>5, FieldSetAligned
  <2>3. b' = b \/ \E d : FieldPut(d, type, value) /\ b' = slot(d, i - 1)
    BY <1>1, <1>2, <1>3, <1>4, FieldWritten
  <2> QED BY <2>1, <2>2, <2>3
<1> QED BY <1>8, <1>9, <1>10 DEF AllAligned, OpenAligned, FieldAligned, Int32At

LEMMA FinishAligned ==
  ASSUME StateOK, AllAligned, NEW at \in DOMAIN made, NEW ident \in Identifiers, Finish(at, ident)
  PROVE  AllAligned'
<1>1. IsBuilder(b) /\ at \in Int /\ ident \in Seq(Int) /\ Len(ident) <= 4
  <2>1. IsBuilder(b) /\ DOMAIN made \subseteq Int
    BY DEF StateOK
  <2>2. at \in Int
    BY <2>1
  <2> QED BY <2>1, <2>2, IdentifierIs, Zenon
<1>2. b' = finish(b, at, ident) /\ root' # 0 /\ UNCHANGED <<made, table>>
  BY DEF Finish, StateOK
<1>3. /\ Grows(b, b') /\ b'.bb.position_ = b'.space
      /\ offset(b') % b'.minalign = 0 /\ 4 <= b'.minalign
  BY <1>1, <1>2, FinishIs
<1>4. IsBuilder(b') /\ Extends(b, b') /\ b'.minalign \in Nat
  BY <1>2, <1>3, OffsetIs DEF Grows, SameTable
<1>5. TablesMade' = TablesMade
  BY <1>2 DEF TablesMade
<1>6. TablesAligned'
  BY <1>4, <1>5, TablesStay DEF AllAligned
<1>7. MadeAligned'
  BY <1>2, <1>4 DEF AllAligned, MadeAligned
<1>8. RootAligned'
  BY <1>3, <1>4 DEF RootAligned, offset
<1> QED BY <1>2, <1>6, <1>7, <1>8 DEF AllAligned

\* Away from a reference that was filled in, the numbers are what they were.
LEMMA AwayFromReference ==
  ASSUME NEW v, IsBuilder(v), NEW c, IsBuilder(c), Size(c) = Size(v), NEW loc \in Int,
         \A d \in 1 .. Size(v) : d < loc - 3 \/ d > loc => FromEnd(c, d) = FromEnd(v, d),
         NEW d \in Int, d <= Size(v), d < loc - 3 \/ d - 1 > loc
  PROVE  NumberAt(c, d) = NumberAt(v, d)
<1>1. Size(v) \in Nat
  BY OffsetIs
<1>2. ASSUME NEW k \in Int, k <= Size(v), k < loc - 3 \/ k > loc
      PROVE  Peek(c, k) = Peek(v, k)
  <2>1. CASE k <= 0
    BY <2>1, PeekIs
  <2>2. CASE ~(k <= 0)
    <3>1. k \in 1 .. Size(v) /\ k \in 1 .. Size(c)
      BY <1>1, <1>2, <2>2
    <3>2. FromEnd(c, k) = FromEnd(v, k)
      BY <1>2, <3>1
    <3>3. Peek(c, k) = FromEnd(c, k) /\ Peek(v, k) = FromEnd(v, k)
      BY <3>1, PeekIs
    <3> QED BY <3>2, <3>3
  <2> QED BY <2>1, <2>2
<1>3. d - 1 \in Int /\ d - 1 <= Size(v) /\ (d < loc - 3 \/ d > loc) /\ (d - 1 < loc - 3 \/ d - 1 > loc)
  BY <1>1
<1>4. Peek(c, d) = Peek(v, d) /\ Peek(c, d - 1) = Peek(v, d - 1)
  BY <1>2, <1>3
<1> QED BY <1>4, ReadsInt16 DEF NumberAt

\* Where a vtable's entry for a field is.
EntryAt(i) == 4 + 2 * (i - 1)

\* What the vtable of the open table says of a field.
Entry(w, i) == IF w.vtable[i - 1] = 0 THEN 0 ELSE vtableloc(w) - w.vtable[i - 1]

\* The table under construction is not too large, and neither are its numbers.
LEMMA OpenIs ==
  ASSUME StateOK, AllAligned, Bounded, b.isNested, root = 0
  PROVE  /\ IsBuilder(b) /\ HasEntries(b) /\ offset(b) \in Nat
         /\ b.vtable_in_use \in Nat /\ (b.vtable_in_use + 2) * 2 < 32768
         /\ vtableloc(b) \in offset(b) + 4 .. offset(b) + 7 /\ vtableloc(b) % 4 = 0
         /\ \A i \in 1 .. b.vtable_in_use :
              /\ i \in DOMAIN Layout /\ Entry(b, i) \in Int /\ Fits16(Entry(b, i))
              /\ b.vtable[i - 1] # 0 => FieldAligned(b, i, b.vtable[i - 1])
<1> DEFINE n == b.vtable_in_use
           loc == vtableloc(b)
<1>1. /\ IsBuilder(b) /\ HasEntries(b) /\ n \in Sizes /\ offset(b) \in Nat
      /\ n \in Nat /\ b.object_start \in Int
  <2>1. IsBuilder(b) /\ HasEntries(b) /\ n \in Sizes
    BY DEF StateOK
  <2>2. n \in Nat /\ b.object_start \in Int
    BY <2>1 DEF IsBuilder, Builders
  <2> QED BY <2>1, <2>2, OffsetIs
<1>2. (n + 2) * 2 < 32768
  <2> HIDE DEF n
  <2> QED BY <1>1, SizeAssumption, SMT DEF SIZEOF_SHORT
<1>3. loc \in offset(b) + 4 .. offset(b) + 7 /\ loc % 4 = 0
  BY <1>1, VtablelocIs
<1>4. b.object_start <= offset(b) /\ offset(b) - b.object_start < 32760
  BY DEF AllAligned, OpenAligned, Bounded
<1> HIDE DEF n, loc
<1>5. ASSUME NEW i \in 1 .. n PROVE i \in DOMAIN Layout
  <2>1. n \in 1 .. Len(Layout) /\ Len(Layout) \in Nat /\ DOMAIN Layout = 1 .. Len(Layout)
    BY <1>1, LayoutAssumption
  <2> QED BY <1>1, <2>1
<1>6. ASSUME NEW i \in 1 .. n, b.vtable[i - 1] # 0
      PROVE  /\ FieldAligned(b, i, b.vtable[i - 1])
             /\ b.vtable[i - 1] > b.object_start /\ b.vtable[i - 1] \in 1 .. offset(b)
  <2>1. b.vtable[i - 1] > b.object_start /\ FieldAligned(b, i, b.vtable[i - 1])
    BY <1>6 DEF AllAligned, OpenAligned, n
  <2> QED BY <2>1 DEF FieldAligned
<1>7. ASSUME NEW i \in 1 .. n PROVE Entry(b, i) \in Int /\ Fits16(Entry(b, i))
  <2>1. CASE b.vtable[i - 1] = 0
    BY <2>1 DEF Entry, Fits16
  <2>2. CASE b.vtable[i - 1] # 0
    <3> DEFINE e == b.vtable[i - 1]
    <3>1. Entry(b, i) = loc - e
      BY <2>2 DEF Entry, loc
    <3>2. e \in 1 .. offset(b) /\ e > b.object_start
      BY <1>6, <2>2
    <3> HIDE DEF e
    <3>3. loc - e \in Int /\ 0 <= loc - e /\ loc - e <= 32767
      BY <1>1, <1>3, <1>4, <3>2
    <3> QED BY <3>1, <3>3 DEF Fits16
  <2> QED BY <2>1, <2>2
<1> QED BY <1>1, <1>2, <1>3, <1>5, <1>6, <1>7 DEF n, loc

\* The entries of the vtable WithVtable writes, read from its start.
LEMMA EntriesRead ==
  ASSUME StateOK, AllAligned, Bounded, b.isNested, root = 0, NEW v, v = WithVtable(b)
  PROVE  /\ NumberAt(v, offset(v)) = (b.vtable_in_use + 2) * 2
         /\ \A i \in 1 .. b.vtable_in_use : NumberAt(v, offset(v) - EntryAt(i)) = Entry(b, i)
<1> DEFINE n == b.vtable_in_use
           loc == vtableloc(b)
           s == VtableNumbers(b)
<1>1. /\ IsBuilder(b) /\ HasEntries(b) /\ n \in Nat /\ (n + 2) * 2 < 32768
      /\ loc \in Nat
      /\ \A i \in 1 .. n : Entry(b, i) \in Int /\ Fits16(Entry(b, i))
  <2>1. loc \in offset(b) + 4 .. offset(b) + 7 /\ offset(b) \in Nat
    BY OpenIs
  <2>2. loc \in Nat
    <3> HIDE DEF loc
    <3> QED BY <2>1
  <2> QED BY <2>2, OpenIs
<1>2. /\ offset(v) = loc + 2 * (n + 2)
      /\ \A m \in 1 .. n + 2 : Fits16(s[m]) => NumberAt(v, loc + 2 * m) = s[m]
  BY <1>1, WithVtableIs DEF NumberAt
<1>3. /\ s[n + 2] = (n + 2) * 2
      /\ \A m \in 1 .. n : s[m] = IF b.vtable[n - m] = 0 THEN 0 ELSE loc - b.vtable[n - m]
  BY <1>1, NumbersAre
<1> HIDE DEF s
<1>4. \A i \in 1 .. n : s[n + 1 - i] = Entry(b, i)
  <2> TAKE i \in 1 .. n
  <2> DEFINE m == n + 1 - i
  <2>1. m \in 1 .. n /\ n - m = i - 1
    <3> HIDE DEF n
    <3> QED BY <1>1
  <2> HIDE DEF m, loc, n
  <2>2. s[m] = IF b.vtable[i - 1] = 0 THEN 0 ELSE loc - b.vtable[i - 1]
    BY <1>3, <2>1
  <2> QED BY <2>2 DEF Entry, loc, m
<1> HIDE DEF n, loc
<1>5. NumberAt(v, offset(v)) = (n + 2) * 2
  <2>1. n + 2 \in 1 .. n + 2 /\ Fits16((n + 2) * 2)
    BY <1>1 DEF Fits16
  <2> QED BY <1>2, <1>3, <2>1
<1>6. ASSUME NEW i \in 1 .. n PROVE NumberAt(v, offset(v) - EntryAt(i)) = Entry(b, i)
  <2>1. /\ n + 1 - i \in 1 .. n + 2
        /\ offset(v) - EntryAt(i) = loc + 2 * (n + 1 - i)
    BY <1>1, <1>2 DEF EntryAt
  <2>2. Fits16(s[n + 1 - i])
    BY <1>1, <1>4
  <2>3. NumberAt(v, loc + 2 * (n + 1 - i)) = s[n + 1 - i]
    BY <1>2, <2>1, <2>2
  <2> QED BY <1>4, <2>1, <2>3
<1> QED BY <1>5, <1>6 DEF n

\* What ending the table leaves: its reference, and everything else as it was.
LEMMA EndedState ==
  ASSUME StateOK, b.isNested, root = 0, b' = endObject(b), NEW v, v = WithVtable(b),
         NEW loc, loc = vtableloc(b)
  PROVE  /\ IsBuilder(b) /\ IsBuilder(v) /\ IsBuilder(b') /\ Extends(b, v) /\ Extends(b, b')
         /\ Size(b') = Size(v) /\ v.vtables = b.vtables
         /\ offset(v) = loc + 2 * (b.vtable_in_use + 2)
         /\ offset(b') = IF Shared(v) THEN loc ELSE offset(v)
         /\ \A d \in 1 .. Size(v) : d < loc - 3 \/ d > loc => FromEnd(b', d) = FromEnd(v, d)
         /\ \A i \in 1 .. 4 : FromEnd(b', loc + 1 - i) = BB!LowBytes(VtableOf(v) - loc, 4)[i]
         /\ ~b'.isNested
<1>1. IsBuilder(b) /\ HasEntries(b)
  BY DEF StateOK
<1>2. /\ IsBuilder(b') /\ Extends(b, b') /\ Size(b') = Size(v) /\ ~b'.isNested
      /\ offset(b') = IF Shared(v) THEN loc ELSE offset(v)
  BY <1>1, EndObjectIs
<1>3. \A d \in 1 .. Size(v) :
        FromEnd(b', d) = IF d <= loc /\ loc - 3 <= d
                         THEN BB!LowBytes(VtableOf(v) - loc, 4)[loc - d + 1]
                         ELSE FromEnd(v, d)
  BY <1>1, EndObjectIs
<1>4. /\ Continues(b, v) /\ offset(v) = loc + 2 * (b.vtable_in_use + 2)
  BY <1>1, WithVtableIs
<1>5. IsBuilder(v) /\ Extends(b, v) /\ v.vtables = b.vtables
  BY <1>4 DEF Continues, SameRest
<1>6. /\ loc \in Nat /\ loc >= 4 /\ loc <= Size(v) /\ Size(v) \in Nat
  <2>1. loc \in offset(b) + 4 .. offset(b) + 7 /\ offset(b) \in Nat /\ b.vtable_in_use \in Nat
    BY <1>1, VtablelocIs, OffsetIs DEF IsBuilder, Builders
  <2>2. offset(v) = Size(v) - v.space /\ v.space \in Nat /\ Size(v) \in Nat
    BY <1>5, OffsetIs
  <2> QED BY <1>4, <2>1, <2>2
<1>7. ASSUME NEW d \in 1 .. Size(v), d < loc - 3 \/ d > loc
      PROVE  FromEnd(b', d) = FromEnd(v, d)
  <2>1. ~(d <= loc /\ loc - 3 <= d)
    BY <1>6, <1>7
  <2> QED BY <1>3, <2>1
<1>8. ASSUME NEW i \in 1 .. 4
      PROVE  FromEnd(b', loc + 1 - i) = BB!LowBytes(VtableOf(v) - loc, 4)[i]
  <2> DEFINE d == loc + 1 - i
  <2>1. d \in 1 .. Size(v) /\ d <= loc /\ loc - 3 <= d /\ loc - d + 1 = i
    BY <1>6
  <2> HIDE DEF d
  <2>2. FromEnd(b', d) = BB!LowBytes(VtableOf(v) - loc, 4)[loc - d + 1]
    BY <1>3, <2>1
  <2> QED BY <2>1, <2>2 DEF d
<1> QED BY <1>1, <1>2, <1>4, <1>5, <1>7, <1>8

\* An entry is a number of the vtable, at an even place in it.
LEMMA EntryAtIs ==
  ASSUME NEW n \in Nat, NEW i \in 1 .. n
  PROVE  /\ EntryAt(i) \in Nat /\ EntryAt(i) < (n + 2) * 2 /\ EntryAt(i) % 2 = 0
         /\ EntryAt(i) <= 2 * n + 2 /\ EntryAt(i) >= 4
<1>1. EntryAt(i) = 2 * (i + 1) /\ i \in Nat
  BY DEF EntryAt
<1>2. (2 * (i + 1)) % 2 = 0
  BY <1>1
<1> QED BY <1>1, <1>2

\* The vtable an ended table refers to says where its fields are, whether it
\* was found or written.
LEMMA VtableReads ==
  ASSUME StateOK, VtablesOK, AllAligned, Bounded, b.isNested, root = 0, b' = endObject(b),
         NEW v, v = WithVtable(b)
  PROVE  /\ VtableOf(v) \in 1 .. offset(b')
         /\ NumberAt(b', VtableOf(v)) = (b.vtable_in_use + 2) * 2
         /\ \A i \in 1 .. b.vtable_in_use :
              NumberAt(b', VtableOf(v) - EntryAt(i)) = Entry(b, i)
<1> DEFINE n == b.vtable_in_use
           loc == vtableloc(b)
           end == offset(v)
           vt == VtableOf(v)
<1>1. /\ IsBuilder(b) /\ n \in Nat /\ offset(b) \in Nat /\ loc \in Nat /\ loc >= offset(b) + 4
  <2>1. loc \in offset(b) + 4 .. offset(b) + 7 /\ offset(b) \in Nat /\ IsBuilder(b) /\ n \in Nat
    BY OpenIs
  <2> HIDE DEF loc
  <2> QED BY <2>1
<1>2. /\ IsBuilder(v) /\ IsBuilder(b') /\ Extends(b, v) /\ Extends(b, b')
      /\ Size(b') = Size(v) /\ v.vtables = b.vtables /\ end = loc + 2 * (n + 2)
      /\ offset(b') = IF Shared(v) THEN loc ELSE end
      /\ \A d \in 1 .. Size(v) : d < loc - 3 \/ d > loc => FromEnd(b', d) = FromEnd(v, d)
  BY EndedState
<1>3. /\ NumberAt(v, end) = (n + 2) * 2
      /\ \A i \in 1 .. n : NumberAt(v, end - EntryAt(i)) = Entry(b, i)
  BY EntriesRead
<1>4. /\ end \in Nat /\ end <= Size(v) /\ Size(v) \in Nat /\ v.space = Size(v) - end
      /\ BB!capacity(v.bb) = Size(v)
  <2>1. /\ end \in Nat /\ v.space \in Nat /\ end = Size(v) - v.space /\ Size(v) \in Nat
        /\ BB!capacity(v.bb) = Size(v)
    BY <1>2, OffsetIs
  <2> HIDE DEF end
  <2> QED BY <2>1
<1> HIDE DEF n, loc, end
<1>5. CASE ~Shared(v)
  <2>1. vt = end /\ offset(b') = end
    BY <1>2, <1>5 DEF VtableOf, end
  <2>2. ASSUME NEW d \in Int, d <= end, d - 1 > loc
        PROVE  NumberAt(b', d) = NumberAt(v, d)
    <3>1. d <= Size(v) /\ loc \in Int
      BY <1>1, <1>4, <2>2
    <3> QED BY <1>2, <2>2, <3>1, AwayFromReference
  <2>3. NumberAt(b', end) = NumberAt(v, end)
    <3>1. end \in Int /\ end <= end /\ end - 1 > loc
      BY <1>1, <1>2, <1>4
    <3> QED BY <2>2, <3>1
  <2>4. ASSUME NEW i \in 1 .. n
        PROVE  NumberAt(b', end - EntryAt(i)) = NumberAt(v, end - EntryAt(i))
    <3>1. EntryAt(i) \in Nat /\ EntryAt(i) <= 2 * n + 2
      BY <1>1, EntryAtIs
    <3>2. end - EntryAt(i) \in Int /\ end - EntryAt(i) <= end /\ end - EntryAt(i) - 1 > loc
      BY <1>1, <1>2, <1>4, <3>1
    <3> QED BY <2>2, <3>2
  <2>5. end \in 1 .. end
    BY <1>1, <1>2, <1>4
  <2> HIDE DEF vt
  <2> QED BY <1>3, <2>1, <2>3, <2>4, <2>5 DEF vt, n
<1>6. CASE Shared(v)
  <2>1. PICK x \in ExistingVtables(v) : vt = v.vtables[x]
    BY <1>2, <1>6, VtableOfIs
  <2> HIDE DEF vt
  <2>2. x \in 1 .. Len(b.vtables) /\ Twins(v, vt, end)
    BY <1>2, <1>4, <2>1 DEF ExistingVtables, Twins
  <2>3. vt \in 1 .. offset(b) /\ NumberAt(b, vt) > 0
    BY <1>2, <2>1, <2>2 DEF VtablesOK
  <2>4. vt \in Int /\ vt <= offset(b) /\ vt \in 1 .. offset(b') /\ offset(b') = loc
    BY <1>1, <1>2, <1>6, <2>3
  <2>5. ASSUME NEW d \in Int, d <= offset(b)
        PROVE  NumberAt(b', d) = NumberAt(v, d) /\ NumberAt(v, d) = NumberAt(b, d)
    BY <1>1, <1>2, <2>5, NumberStays
  <2>6. \A j \in Nat : j < NumberAt(v, vt) /\ j % 2 = 0 => NumberAt(v, vt - j) = NumberAt(v, end - j)
    <3>1. end \in Int
      BY <1>4
    <3> QED BY <1>2, <2>2, <2>4, <3>1, TwinsAre
  <2>7. NumberAt(v, vt) = (n + 2) * 2
    <3>1. NumberAt(v, vt) > 0
      BY <2>3, <2>4, <2>5
    <3>2. 0 \in Nat /\ 0 < NumberAt(v, vt) /\ 0 % 2 = 0 /\ vt - 0 = vt /\ end - 0 = end
      <4>1. NumberAt(v, vt) \in Int
        BY <1>2, <2>4, NumberAtIs
      <4> QED BY <1>4, <2>4, <3>1, <4>1
    <3>3. NumberAt(v, vt) = NumberAt(v, end)
      BY <2>6, <3>2
    <3> QED BY <1>3, <3>3
  <2>8. NumberAt(b', vt) = (n + 2) * 2
    BY <2>4, <2>5, <2>7
  <2>9. ASSUME NEW i \in 1 .. n PROVE NumberAt(b', vt - EntryAt(i)) = Entry(b, i)
    <3>1. EntryAt(i) \in Nat /\ EntryAt(i) < (n + 2) * 2 /\ EntryAt(i) % 2 = 0
      BY <1>1, EntryAtIs
    <3>2. NumberAt(v, vt - EntryAt(i)) = NumberAt(v, end - EntryAt(i))
      BY <2>6, <2>7, <3>1
    <3>3. vt - EntryAt(i) \in Int /\ vt - EntryAt(i) <= offset(b)
      BY <1>1, <2>4, <3>1
    <3>4. NumberAt(b', vt - EntryAt(i)) = NumberAt(v, vt - EntryAt(i))
      BY <2>5, <3>3
    <3> QED BY <1>3, <3>2, <3>4
  <2> QED BY <2>4, <2>8, <2>9 DEF vt, n
<1> QED BY <1>5, <1>6

\* The table just ended: its fields are where they were written.
LEMMA NewTableAligned ==
  ASSUME StateOK, VtablesOK, AllAligned, Bounded, Bounded', b.isNested, root = 0, b' = endObject(b)
  PROVE  TableAligned(b', vtableloc(b)) /\ vtableloc(b) % 4 = 0
<1> DEFINE n == b.vtable_in_use
           loc == vtableloc(b)
           v == WithVtable(b)
           vt == VtableOf(v)
<1>1. /\ n \in Nat /\ offset(b) \in Nat /\ loc \in Nat /\ loc >= 4 /\ loc % 4 = 0
      /\ IsBuilder(b)
  <2>1. /\ loc \in offset(b) + 4 .. offset(b) + 7 /\ offset(b) \in Nat /\ n \in Nat
        /\ loc % 4 = 0 /\ IsBuilder(b)
    BY OpenIs
  <2> HIDE DEF loc
  <2> QED BY <2>1
<1>2. /\ IsBuilder(b') /\ IsBuilder(v) /\ Extends(b, b')
      /\ offset(v) = loc + 2 * (n + 2)
      /\ offset(b') = IF Shared(v) THEN loc ELSE offset(v)
      /\ \A i \in 1 .. 4 : FromEnd(b', loc + 1 - i) = BB!LowBytes(vt - loc, 4)[i]
  BY EndedState
<1>3. /\ vt \in 1 .. offset(b') /\ NumberAt(b', vt) = (n + 2) * 2
      /\ \A i \in 1 .. n : NumberAt(b', vt - EntryAt(i)) = Entry(b, i)
  BY VtableReads
<1>4. /\ \A i \in 1 .. n : i \in DOMAIN Layout /\ Entry(b, i) \in Int
      /\ \A i \in 1 .. n : b.vtable[i - 1] # 0 => FieldAligned(b, i, b.vtable[i - 1])
  BY OpenIs
<1> HIDE DEF v, n, loc, vt
<1>5. /\ offset(b') \in Nat /\ offset(b') <= Size(b') /\ Size(b') \in Nat
      /\ loc \in 1 .. offset(b') /\ Size(b') <= 2147483647
  <2>1. /\ offset(b') \in Nat /\ Size(b') \in Nat /\ b'.space \in Nat
        /\ offset(b') = Size(b') - b'.space
    BY <1>2, OffsetIs
  <2>2. Size(b') <= 2147483647
    BY DEF Bounded, Size
  <2>3. offset(b') = loc \/ offset(b') = loc + 2 * (n + 2)
    BY <1>2
  <2> QED BY <1>1, <2>1, <2>2, <2>3
<1>6. Int32At(b', loc) = vt - loc
  <2> DEFINE value == vt - loc
  <2>1. value \in Int /\ Fits32(value)
    BY <1>1, <1>3, <1>5 DEF Fits32
  <2>2. loc \in Int /\ 4 <= loc /\ loc <= Size(b')
    BY <1>1, <1>5
  <2>3. \A i \in 1 .. 4 : FromEnd(b', loc + 1 - i) = BB!LowBytes(value, 4)[i]
    BY <1>2
  <2> HIDE DEF value
  <2>4. BB!readInt32(b'.bb, Size(b') - loc) = value
    BY <1>2, <2>1, <2>2, <2>3, Int32Reads
  <2> QED BY <2>4 DEF Int32At, value
<1>7. VtableAt(b', loc) = vt
  <2>1. vt \in Int
    BY <1>3, <1>5
  <2> QED BY <1>1, <1>6, <2>1 DEF VtableAt
<1>8. ASSUME NEW i \in DOMAIN Layout, FieldOf(b', loc, i) # 0
      PROVE  FieldAligned(b', i, loc - FieldOf(b', loc, i))
  <2>1. i \in Nat /\ i >= 1
    BY LayoutIs
  <2>2. EntryAt(i) < (n + 2) * 2 /\ FieldOf(b', loc, i) = NumberAt(b', vt - EntryAt(i))
    BY <1>3, <1>7, <1>8 DEF FieldOf, EntryAt
  <2>3. i \in 1 .. n
    BY <1>1, <2>1, <2>2 DEF EntryAt
  <2>4. FieldOf(b', loc, i) = Entry(b, i)
    BY <1>3, <2>2, <2>3
  <2>5. b.vtable[i - 1] # 0 /\ Entry(b, i) = loc - b.vtable[i - 1]
    BY <1>8, <2>4 DEF Entry, loc
  <2>6. FieldAligned(b, i, b.vtable[i - 1]) /\ b.vtable[i - 1] \in Int
    <3>1. FieldAligned(b, i, b.vtable[i - 1])
      BY <1>4, <2>3, <2>5
    <3> QED BY <3>1 DEF FieldAligned
  <2>7. loc - (loc - b.vtable[i - 1]) = b.vtable[i - 1]
    BY <1>1, <2>6
  <2>8. FieldAligned(b', i, b.vtable[i - 1])
    BY <1>1, <1>2, <2>6, FieldStays
  <2> QED BY <2>4, <2>5, <2>7, <2>8
<1>9. TableAligned(b', loc)
  BY <1>3, <1>5, <1>7, <1>8 DEF TableAligned
<1> QED BY <1>1, <1>9 DEF loc

LEMMA EndTableAligned ==
  ASSUME StateOK, VtablesOK, AllAligned, Bounded, Bounded', EndTable
  PROVE  AllAligned'
<1> DEFINE loc == vtableloc(b)
<1>1. IsBuilder(b) /\ b.isNested /\ b' = endObject(b) /\ root = 0 /\ root' = 0
  BY DEF StateOK, EndTable, endObjectAllowed
<1>2. TableAligned(b', loc) /\ loc % 4 = 0
  BY <1>1, NewTableAligned
<1>3. IsBuilder(b') /\ Extends(b, b') /\ ~b'.isNested
  BY <1>1, EndedState
<1>4. PICK kind, required : Made(kind, table, required, loc)
  BY DEF EndTable
<1> HIDE DEF loc
<1>5. MadeAligned'
  BY <1>2, <1>4 DEF Made, AllAligned, MadeAligned
<1>6. ASSUME NEW at \in TablesMade', at # loc PROVE TableAligned(b', at)
  <2>1. at \in TablesMade
    BY <1>4, <1>6 DEF Made, TablesMade
  <2>2. TableAligned(b, at)
    BY <2>1 DEF AllAligned, TablesAligned
  <2> QED BY <1>1, <1>3, <2>2, TableStays
<1>7. \A at \in TablesMade' : TableAligned(b', at)
  BY <1>2, <1>6
<1>8. TablesAligned'
  BY <1>7 DEF TablesAligned, TableAligned, FieldOf, FieldAligned, VtableAt, Int32At, NumberAt
<1>9. OpenAligned(b') /\ RootAligned'
  BY <1>1, <1>3 DEF OpenAligned, RootAligned
<1> QED BY <1>5, <1>8, <1>9 DEF AllAligned, OpenAligned, FieldAligned, Int32At

\* The buffer a receiver is given, as if it were a builder's, all written.
Sent == [b EXCEPT !.bb = Data, !.space = 0]

LEMMA SentIs ==
  ASSUME StateOK, AllAligned, root # 0
  PROVE  /\ IsBuilder(Sent) /\ Extends(Sent, b) /\ Sent.bb = Data
         /\ Size(Sent) = offset(b) /\ offset(Sent) = offset(b)
         /\ BB!capacity(Data) = offset(b)
<1> DEFINE bytes == b.bb.bytes_
           n == offset(b)
           sent == SubSeq(bytes, b.space + 1, b.space + n)
<1>1. /\ IsBuilder(b) /\ n \in Nat /\ n = Size(b) - b.space /\ b.space \in Nat
      /\ Size(b) \in Nat /\ bytes \in Seq(Byte) /\ Len(bytes) = Size(b) /\ b.minalign \in Nat
  BY OffsetIs DEF StateOK, Size
<1>2. n >= 1
  <2>1. root \in 1 .. n
    BY DEF StateOK, TablesMade
  <2> HIDE DEF n
  <2> QED BY <1>1, <2>1
<1>3. Data = [bytes_ |-> sent, position_ |-> 0]
  <2>1. b.bb.position_ = b.space
    BY DEF AllAligned, RootAligned
  <2> QED BY <2>1 DEF Data, asUint8Array, BB!ByteBuffer, BB!bytes, BB!position
<1> HIDE DEF bytes, n
<1>4. /\ sent \in Seq(Byte) /\ Len(sent) = n
      /\ \A i \in 1 .. n : sent[i] = bytes[b.space + i]
  <2>1. /\ b.space + 1 \in 1 .. Len(bytes) /\ b.space + n \in (b.space + 1) - 1 .. Len(bytes)
    BY <1>1, <1>2
  <2>2. (b.space + n) - (b.space + 1) + 1 = n
    BY <1>1
  <2>3. /\ sent \in Seq(Byte)
        /\ Len(sent) = IF b.space + 1 <= b.space + n THEN (b.space + n) - (b.space + 1) + 1 ELSE 0
        /\ \A i \in 1 .. (b.space + n) - (b.space + 1) + 1 : sent[i] = bytes[(b.space + 1 + i) - 1]
    <3>1. bytes \in Seq(Byte)
      BY <1>1
    <3> DEFINE first == b.space + 1
               last == b.space + n
    <3>2. first \in 1 .. Len(bytes) /\ last \in first - 1 .. Len(bytes)
      BY <1>1, <1>2
    <3>4. first \in Int /\ last \in Int /\ \A i \in first .. last : bytes[i] \in Byte
      <4>1. first .. last \subseteq 1 .. Len(bytes)
        BY <1>1, <3>2
      <4>2. \A i \in 1 .. Len(bytes) : bytes[i] \in Byte
        BY <3>1
      <4> QED BY <1>1, <4>1, <4>2
    <3> HIDE DEF first, last
    <3>3. /\ SubSeq(bytes, first, last) \in Seq(Byte)
          /\ Len(SubSeq(bytes, first, last)) = IF first <= last THEN last - first + 1 ELSE 0
          /\ \A i \in 1 .. last - first + 1 :
               SubSeq(bytes, first, last)[i] = bytes[(first + i) - 1]
      BY <3>4, SubSeqProperties
    <3> QED BY <3>3 DEF first, last
  <2>4. Len(sent) = n
    <3>1. b.space \in Nat /\ n \in Nat
      BY <1>1
    <3>2. b.space + 1 <= b.space + n
      BY <1>2, <3>1
    <3> QED BY <2>2, <2>3, <3>2
  <2>5. ASSUME NEW i \in 1 .. n PROVE sent[i] = bytes[b.space + i]
    <3>1. (b.space + 1 + i) - 1 = b.space + i
      BY <1>1
    <3> QED BY <2>2, <2>3, <3>1
  <2> QED BY <2>3, <2>4, <2>5
<1> HIDE DEF sent
<1>5. /\ Data \in Buffers /\ Data.bytes_ = sent /\ BB!capacity(Data) = n
  BY <1>3, <1>4 DEF Buffers, BB!capacity
<1>6. Sent \in Builders /\ Sent.bb = Data /\ Sent.space = 0 /\ Sent.minalign = b.minalign
  BY <1>1, <1>5 DEF Sent, IsBuilder, Builders
<1>7. Size(Sent) = n /\ offset(Sent) = n
  BY <1>1, <1>4, <1>5, <1>6 DEF Size, offset
<1>8. IsBuilder(Sent)
  BY <1>1, <1>2, <1>6, <1>7 DEF IsBuilder
<1>9. ASSUME NEW i \in 1 .. n PROVE FromEnd(b, i) = FromEnd(Sent, i)
  <2> DEFINE space == b.space
             all == Size(b)
  <2>4. n \in Nat /\ space \in Nat /\ all \in Nat /\ n = all - space
    BY <1>1
  <2> HIDE DEF space, all
  <2>5. n - i + 1 \in 1 .. n /\ space + (n - i + 1) = all - i + 1
    BY <2>4
  <2>1. n - i + 1 \in 1 .. n /\ b.space + (n - i + 1) = Size(b) - i + 1
    BY <2>5 DEF space, all
  <2>2. FromEnd(Sent, i) = sent[n - i + 1]
    BY <1>5, <1>6, <1>7 DEF FromEnd
  <2>3. FromEnd(b, i) = bytes[Size(b) - i + 1]
    BY DEF FromEnd, bytes
  <2> QED BY <1>4, <2>1, <2>2, <2>3
<1>10. Extends(Sent, b)
  BY <1>1, <1>6, <1>7, <1>9 DEF Extends, n
<1> QED BY <1>5, <1>6, <1>7, <1>8, <1>10 DEF n

\* What is a multiple of an alignment is one of every smaller alignment.
LEMMA SmallerAlignment ==
  ASSUME NEW n \in Nat, NEW m \in {4, 8}, n % m = 0, NEW k \in {1, 2, 4, 8}, k <= m
  PROVE  n % k = 0
<1>1. CASE m = 4
  <2>1. n % 4 = 0
    BY <1>1
  <2>2. n % 1 = 0 /\ n % 2 = 0
    BY <2>1
  <2>3. k \in {1, 2, 4}
    BY <1>1
  <2> QED BY <2>1, <2>2, <2>3
<1>2. CASE m = 8
  <2>1. n % 8 = 0
    BY <1>2
  <2>2. n % 1 = 0 /\ n % 2 = 0 /\ n % 4 = 0
    BY <2>1
  <2> QED BY <2>1, <2>2
<1> QED BY <1>1, <1>2

LEMMA DifferenceAligned ==
  ASSUME NEW n \in Int, NEW e \in Int, NEW k \in {1, 2, 4, 8}, n % k = 0, e % k = 0
  PROVE  (n - e) % k = 0
<1>1. CASE k = 1
  BY <1>1
<1>2. CASE k = 2
  BY <1>2
<1>3. CASE k = 4
  BY <1>3
<1>4. CASE k = 8
  BY <1>4
<1> QED BY <1>1, <1>2, <1>3, <1>4

\* In a finished buffer a table, its fields and what they refer to lie at
\* multiples of their sizes, counted from its beginning.
LEMMA AllAlignedIs ==
  ASSUME StateOK, AllAligned
  PROVE  Aligned
<1> SUFFICES ASSUME root # 0, NEW at \in TablesMade, NEW i \in DOMAIN Layout
             PROVE  LET pos == BB!capacity(Data) - at
                        field == BB!__offset(Data, pos, 4 + 2 * (i - 1))
                    IN  /\ pos % 4 = 0
                        /\ field # 0 => (pos + field) % SizeOf(Layout[i]) = 0
                        /\ field # 0 /\ Layout[i] = "offset" =>
                             BB!__indirect(Data, pos + field) % 4 = 0
  BY DEF Aligned
<1> DEFINE n == offset(b)
           size == SizeOf(Layout[i])
           vt == VtableAt(b, at)
           pos == n - at
           field == BB!__offset(Data, pos, 4 + 2 * (i - 1))
           e == at - field
<1>1. /\ IsBuilder(Sent) /\ Extends(Sent, b) /\ Sent.bb = Data
      /\ Size(Sent) = n /\ offset(Sent) = n /\ BB!capacity(Data) = n /\ n \in Nat
      /\ IsBuilder(b)
  BY SentIs, OffsetIs DEF StateOK
<1>2. /\ TableAligned(b, at) /\ at \in 1 .. n /\ vt \in 1 .. n /\ at % 4 = 0
      /\ i \in Nat /\ i >= 1 /\ size \in {1, 2, 4, 8}
  <2>1. TableAligned(b, at) /\ at \in DOMAIN made /\ at % 4 = 0
    BY DEF AllAligned, TablesAligned, MadeAligned, TablesMade
  <2> QED BY <2>1, LayoutIs DEF TableAligned
<1>3. n % b.minalign = 0 /\ b.minalign \in {4, 8}
  <2>1. b.minalign \in {1, 2, 4, 8}
    BY <1>1 DEF IsBuilder, Builders
  <2>2. n % b.minalign = 0 /\ b.minalign >= 4
    BY DEF AllAligned, RootAligned
  <2> QED BY <2>1, <2>2
<1> HIDE DEF n, size, vt
<1>4. n % 4 = 0 /\ pos % 4 = 0
  <2>1. n % 4 = 0
    BY <1>1, <1>3, SmallerAlignment
  <2>2. n \in Int /\ at \in Int
    BY <1>1, <1>2
  <2> QED BY <1>2, <2>1, <2>2, DifferenceAligned
<1>5. field = FieldOf(b, at, i)
  <2> DEFINE entry == 4 + 2 * (i - 1)
  <2>1. at \in Int /\ vt \in Int /\ entry \in Int /\ vt - entry \in Int
        /\ at <= n /\ vt <= n /\ vt - entry <= n
    BY <1>1, <1>2
  <2> HIDE DEF entry
  <2>2. Int32At(Sent, at) = Int32At(b, at)
    BY <1>1, <2>1, Int32Stays
  <2>3. BB!readInt32(Data, pos) = Int32At(b, at) /\ vt = at + Int32At(b, at)
        /\ Int32At(b, at) \in Int
    BY <1>1, <2>1, <2>2, Int32AtIs DEF Int32At, vt, VtableAt
  <2>4. pos - BB!readInt32(Data, pos) = n - vt
    BY <1>1, <2>1, <2>3
  <2>5. /\ BB!readInt16(Data, n - vt) = NumberAt(b, vt)
    <3>1. NumberAt(Sent, vt) = NumberAt(b, vt)
      BY <1>1, <2>1, NumberStays
    <3> QED BY <1>1, <3>1 DEF NumberAt
  <2>6. BB!readInt16(Data, n - vt + entry) = NumberAt(b, vt - entry)
    <3>1. NumberAt(Sent, vt - entry) = NumberAt(b, vt - entry)
      BY <1>1, <2>1, NumberStays
    <3>2. n - vt + entry = n - (vt - entry)
      BY <1>1, <2>1
    <3> QED BY <1>1, <3>1, <3>2 DEF NumberAt
  <2>7. field = IF entry < NumberAt(b, vt) THEN NumberAt(b, vt - entry) ELSE 0
    BY <2>4, <2>5, <2>6 DEF BB!__offset, entry
  <2> HIDE DEF field
  <2> QED BY <2>7 DEF FieldOf, vt, entry
<1> HIDE DEF field
<1>6. ASSUME field # 0
      PROVE  /\ (pos + field) % size = 0
             /\ Layout[i] = "offset" => BB!__indirect(Data, pos + field) % 4 = 0
  <2>1. FieldAligned(b, i, e)
    BY <1>2, <1>5, <1>6 DEF TableAligned
  <2>2. /\ e \in 1 .. n /\ e % size = 0 /\ size <= b.minalign
        /\ Layout[i] = "offset" => (e - Int32At(b, e)) % 4 = 0
    BY <2>1 DEF FieldAligned, n, size
  <2>3. field \in Int
    <3>1. at \in Int /\ vt \in Int /\ vt - (4 + 2 * (i - 1)) \in Int
      BY <1>1, <1>2
    <3>2. NumberAt(b, vt - (4 + 2 * (i - 1))) \in Int
      BY <1>1, <3>1, NumberAtIs
    <3> QED BY <1>5, <3>2 DEF FieldOf, vt
  <2>4. pos + field = n - e /\ e \in Int /\ e <= n
    <3>1. at \in Int
      BY <1>1, <1>2
    <3> QED BY <1>1, <2>2, <2>3, <3>1
  <2> HIDE DEF e, pos
  <2>5. n % size = 0
    BY <1>1, <1>2, <1>3, <2>2, SmallerAlignment
  <2>6. (n - e) % size = 0
    <3>1. n \in Int /\ e \in Int /\ size \in {1, 2, 4, 8} /\ n % size = 0 /\ e % size = 0
      BY <1>1, <1>2, <2>2, <2>4, <2>5
    <3> QED BY <3>1, DifferenceAligned
  <2>7. ASSUME Layout[i] = "offset" PROVE BB!__indirect(Data, pos + field) % 4 = 0
    <3> DEFINE r == Int32At(b, e)
    <3>1. Int32At(Sent, e) = r /\ r \in Int
      BY <1>1, <2>4, Int32Stays, Int32AtIs
    <3>2. BB!readInt32(Data, n - e) = r
      BY <1>1, <3>1 DEF Int32At
    <3> HIDE DEF r
    <3>3. BB!__indirect(Data, n - e) = n - e + r
      BY <3>2 DEF BB!__indirect
    <3>4. n - e + r = n - (e - r) /\ e - r \in Int
      BY <1>1, <2>4, <3>1
    <3>5. (e - r) % 4 = 0
      BY <2>2, <2>7 DEF r
    <3> DEFINE t == e - r
    <3>7. n \in Int /\ t \in Int /\ 4 \in {1, 2, 4, 8} /\ n % 4 = 0 /\ t % 4 = 0
      BY <1>1, <1>4, <3>4, <3>5
    <3> HIDE DEF t
    <3>8. (n - t) % 4 = 0
      BY <3>7, DifferenceAligned
    <3>6. (n - (e - r)) % 4 = 0
      BY <3>8 DEF t
    <3> QED BY <2>4, <3>3, <3>4, <3>6
  <2> QED BY <2>4, <2>6, <2>7
<1> QED BY <1>1, <1>4, <1>6 DEF pos, field, size, n

(***************************************************************************)
(* In a finished buffer every number lies at a multiple of its size, and   *)
(* so does everything a reference leads to, however the objects before it  *)
(* came to be where they are, however often the buffer grew, and whether a *)
(* table has a vtable of its own or shares one: what prep aligns is the    *)
(* distance from the end, and finish makes the length fit the largest      *)
(* alignment that was asked for.                                           *)
(***************************************************************************)
THEOREM FinishedAligned == Spec /\ []Bounded => []Aligned
<1> DEFINE Inv == StateOK /\ VtablesOK /\ NoTwins /\ AllAligned
<1>1. Init => Inv
  <2> SUFFICES ASSUME Init PROVE Inv
    OBVIOUS
  <2>1. StateOK /\ b.vtables = << >>
    BY InitStateOK
  <2>2. 1 .. Len(b.vtables) = {}
    BY <2>1
  <2>3. ~b.isNested
    <3>1. PICK force \in Forces : b = forceDefaults(Builder(1), force)
      BY DEF Init
    <3>2. force \in BOOLEAN
      BY ValueAssumption
    <3> QED BY <3>1, <3>2, BuilderIs
  <2>4. DOMAIN made = {} /\ root = 0
    BY DEF Init
  <2>5. AllAligned
    BY <2>3, <2>4 DEF AllAligned, MadeAligned, TablesAligned, TablesMade, OpenAligned, RootAligned
  <2> QED BY <2>1, <2>2, <2>5 DEF VtablesOK, NoTwins
<1>2. Inv /\ Bounded /\ Bounded' /\ [Next]_vars => Inv'
  <2> SUFFICES ASSUME Inv, Bounded, Bounded', [Next]_vars PROVE Inv'
    OBVIOUS
  <2>1. CASE Next
    <3>1. StateOK' /\ VtablesOK' /\ NoTwins'
      BY <2>1, StepOK, AddsVtables, EndTableVtables
    <3>2. AllAligned'
      BY <2>1, StringAligned, VectorAligned, StartedAligned, SetFieldAligned,
         EndTableAligned, FinishAligned DEF Next
    <3> QED BY <3>1, <3>2
  <2>2. CASE UNCHANGED vars
    <3>1. StateOK' /\ VtablesOK' /\ NoTwins'
      BY <2>2, StutterOK, AddsVtables
    <3>2. b' = b /\ made' = made /\ table' = table /\ root' = root
      BY <2>2 DEF vars
    <3>3. AllAligned'
      BY <3>2 DEF AllAligned, MadeAligned, TablesAligned, TablesMade, OpenAligned, RootAligned,
                  TableAligned, FieldOf, FieldAligned, VtableAt, Int32At, NumberAt
    <3> QED BY <3>1, <3>3
  <2> QED BY <2>1, <2>2
<1>3. Inv => Aligned
  BY AllAlignedIs
<1> QED BY <1>1, <1>2, <1>3, PTL DEF Spec

=============================================================================
