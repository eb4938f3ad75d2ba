----------------------------- MODULE ByteBuffer -----------------------------
(***************************************************************************)
(* ByteBuffer, the half of the JavaScript FlatBuffers runtime that reads   *)
(* and writes bytes (bundled in js/testServer.bundle.js).  A buffer is the *)
(* record of its two fields; offset o of the code is index o + 1 of        *)
(* bytes_.  A float is its bits, of 32 an integer, of 64 a Long; the typed *)
(* arrays that turn one into the other are the platform's.                 *)
(***************************************************************************)
EXTENDS Integers, Sequences

SIZEOF_INT == 4

FILE_IDENTIFIER_LENGTH == 4

ByteBuffer(bytes) == [bytes_ |-> bytes, position_ |-> 0]

allocate(byte_size) == ByteBuffer([i \in 1 .. byte_size |-> 0])

bytes(bb) == bb.bytes_

position(bb) == bb.position_

setPosition(bb, at) == [bb EXCEPT !.position_ = at]

capacity(bb) == Len(bb.bytes_)

(***************************************************************************)
(* Reading.  A byte outside the buffer is undefined, which << and | take for 0.  *)
(***************************************************************************)
readUint8(bb, offset) ==
  IF offset \in 0 .. capacity(bb) - 1 THEN bb.bytes_[offset + 1] ELSE 0

readInt8(bb, offset) ==
  LET u == readUint8(bb, offset) IN IF u < 128 THEN u ELSE u - 256

readUint16(bb, offset) == readUint8(bb, offset) + 256 * readUint8(bb, offset + 1)

readInt16(bb, offset) ==
  LET u == readUint16(bb, offset) IN IF u < 32768 THEN u ELSE u - 65536

readInt32(bb, offset) ==
  readUint16(bb, offset) + 65536 * readUint8(bb, offset + 2)
                         + 16777216 * readInt8(bb, offset + 3)

\* >>> 0 makes the number unsigned, which is more than TLC's integers hold:
\* an unsigned number is the pair of its 16-bit halves.
Unsigned(value) == <<(value \div 65536) % 65536, value % 65536>>

Signed(u) == (IF u[1] < 32768 THEN u[1] ELSE u[1] - 65536) * 65536 + u[2]

readUint32(bb, offset) == Unsigned(readInt32(bb, offset))

readFloat32(bb, offset) == readInt32(bb, offset)

\* A 64-bit integer is a Long: two signed 32-bit halves.
Long(low, high) == [low |-> low, high |-> high]

createLong(low, high) == Long(low, high)

equals(x, y) == x.low = y.low /\ x.high = y.high

readInt64(bb, offset) == Long(readInt32(bb, offset), readInt32(bb, offset + 4))

readUint64(bb, offset) ==
  Long(Signed(readUint32(bb, offset)), Signed(readUint32(bb, offset + 4)))

readFloat64(bb, offset) == Long(readInt32(bb, offset), readInt32(bb, offset + 4))

\* == of two floats that are numbers: 0 and -0 are equal.
Zeros == {0, -2147483647 - 1}

SameFloat32(x, y) == x = y \/ {x, y} \subseteq Zeros

SameFloat64(x, y) ==
  \/ equals(x, y)
  \/ x.low = 0 /\ y.low = 0 /\ {x.high, y.high} \subseteq Zeros

(***************************************************************************)
(* Writing.  An element of a Uint8Array keeps the low eight bits.          *)
(***************************************************************************)
\* What a byte counts, by its place in a number.
Weight == <<1, 256, 65536, 16777216>>

\* Faulty variant: the last byte keeps more than eight bits.
LowBytesUnmasked(value, n) ==
  [i \in 1 .. n |-> IF i = n THEN value \div Weight[i] ELSE (value \div Weight[i]) % 256]

LowBytes(value, n) == [i \in 1 .. n |-> (value \div Weight[i]) % 256]

WriteBytes(bb, offset, written) ==
  [bb EXCEPT !.bytes_ =
     SubSeq(@, 1, offset) \o written \o SubSeq(@, offset + Len(written) + 1, Len(@))]

writeInt8(bb, offset, value) == WriteBytes(bb, offset, LowBytes(value, 1))

writeInt16(bb, offset, value) == WriteBytes(bb, offset, LowBytes(value, 2))

writeInt32(bb, offset, value) == WriteBytes(bb, offset, LowBytes(value, 4))

writeInt64(bb, offset, value) ==
  writeInt32(writeInt32(bb, offset, value.low), offset + 4, value.high)

writeUint8(bb, offset, value) == writeInt8(bb, offset, value)

writeUint16(bb, offset, value) == writeInt16(bb, offset, value)

writeUint32(bb, offset, value) == writeInt32(bb, offset, Signed(value))

writeUint64(bb, offset, value) == writeInt64(bb, offset, value)

writeFloat32(bb, offset, value) == writeInt32(bb, offset, value)

writeFloat64(bb, offset, value) ==
  writeInt32(writeInt32(bb, offset, value.low), offset + 4, value.high)

(***************************************************************************)
(* Tables, strings and vectors.                                            *)
(***************************************************************************)
\* Where the table at bb_pos keeps a field, 0 if it does not.
__offset(bb, bb_pos, vtable_offset) ==
  LET vtable == bb_pos - readInt32(bb, bb_pos)
  IN  IF vtable_offset < readInt16(bb, vtable)
      THEN readInt16(bb, vtable + vtable_offset) ELSE 0

\* Where the table a union refers to starts.
__union(bb, offset) == [bb |-> bb, bb_pos |-> offset + readInt32(bb, offset)]

__indirect(bb, offset) == offset + readInt32(bb, offset)

__vector(bb, offset) == offset + readInt32(bb, offset) + SIZEOF_INT

__vector_len(bb, offset) == readInt32(bb, offset + readInt32(bb, offset))

\* UTF-8 bytes to UTF-16 code units.  The code point that starts at byte i
\* takes as many bytes as its first one says, even past the end.
__string(bb, offset) ==
  LET at == offset + readInt32(bb, offset)
      length == readInt32(bb, at)
      Lead(i) == readUint8(bb, at + SIZEOF_INT + i)
      Six(i) == Lead(i) % 64
      CodePoint(i) ==
        LET a == Lead(i) IN
        CASE a < 192 -> [value |-> a, next |-> i + 1]
          [] a >= 192 /\ a < 224 ->
               [value |-> 64 * (a % 32) + Six(i + 1), next |-> i + 2]
          [] a >= 224 /\ a < 240 ->
               [value |-> 4096 * (a % 16) + 64 * Six(i + 1) + Six(i + 2), next |-> i + 3]
          [] OTHER ->
               [value |-> 262144 * (a % 8) + 4096 * Six(i + 1) + 64 * Six(i + 2) + Six(i + 3),
                next |-> i + 4]
      Units(c) ==
        IF c < 65536 THEN <<c>>
        ELSE <<((c - 65536) \div 1024) + 55296, ((c - 65536) % 1024) + 56320>>
      from[i \in 0 .. length + 3] ==
        IF i >= length THEN << >>
        ELSE Units(CodePoint(i).value) \o from[CodePoint(i).next]
  IN  from[0]

\* The identifier of four characters behind the reference to the root.
__has_identifier(bb, ident) ==
  \A i \in 1 .. FILE_IDENTIFIER_LENGTH :
    ident[i] = readInt8(bb, bb.position_ + SIZEOF_INT + i - 1)
=============================================================================
