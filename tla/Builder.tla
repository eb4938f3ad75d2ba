------------------------------ MODULE Builder ------------------------------
(***************************************************************************)
(* Builder, the half of the JavaScript FlatBuffers runtime that writes a   *)
(* buffer, from its end towards its beginning (js/testServer.bundle.js).   *)
(* A builder is the record of the class's fields.  An operation that       *)
(* returns an offset is an operator for the builder it leaves; the offset  *)
(* is that builder's offset, except for endObject.  An assertion of the    *)
(* code is a predicate named after it, TRUE when it does not throw.        *)
(***************************************************************************)
EXTENDS Integers, SequencesExt

BB == INSTANCE ByteBuffer

SIZEOF_SHORT == 2

Builder(initial_size) ==
  [bb |-> BB!allocate(initial_size), space |-> initial_size, minalign |-> 1,
   vtable |-> << >>, vtable_in_use |-> 0, isNested |-> FALSE,
   object_start |-> 0, vtables |-> << >>, vector_num_elems |-> 0,
   force_defaults |-> FALSE]

forceDefaults(b, force) == [b EXCEPT !.force_defaults = force]

\* Bytes written so far, the position of the last written one counted from
\* the end of the buffer.
offset(b) == BB!capacity(b.bb) - b.space

\* Faulty variant: the whole buffer, unused space in front included.
asUint8ArrayWhole(b) == b.bb.bytes_

dataBuffer(b) == b.bb

asUint8Array(b) ==
  SubSeq(BB!bytes(b.bb), BB!position(b.bb) + 1, BB!position(b.bb) + offset(b))

(***************************************************************************)
(* Room and alignment.                                                     *)
(***************************************************************************)
\* Faulty variant: the old bytes stay at the beginning.
growByteBufferFront(bb) ==
  LET size == BB!capacity(bb)
  IN  BB!setPosition(BB!WriteBytes(BB!allocate(2 * size), 0, bb.bytes_), size)

\* Twice the size; the old bytes go to the end.
growByteBuffer(bb) ==
  LET size == BB!capacity(bb)
  IN  BB!setPosition(BB!WriteBytes(BB!allocate(2 * size), size, bb.bytes_), size)

pad(b, byte_size) ==
  [b EXCEPT !.bb = BB!WriteBytes(@, b.space - byte_size, [i \in 1 .. byte_size |-> 0]),
            !.space = @ - byte_size]

Doubled(b) ==
  [b EXCEPT !.bb = growByteBuffer(@), !.space = @ + BB!capacity(b.bb)]

\* prep's loop: the buffer doubles until it has the room.  A pass makes at
\* least one byte, so there are no more passes than bytes asked for.
Grown(b, room) ==
  LET after[pass \in 0 .. room] ==
        IF pass = 0 THEN b
        ELSE LET before == after[pass - 1]
             IN  IF before.space >= room THEN before ELSE Doubled(before)
  IN  after[room]

\* Faulty variant: the bytes still to be written do not count.
prepHere(b, size, additional_bytes) ==
  LET align_size == (- offset(b)) % size
  IN  pad(Grown([b EXCEPT !.minalign = IF size > @ THEN size ELSE @],
                align_size + size + additional_bytes),
          align_size)

\* Room for an element of this size that will be aligned once the
\* additional bytes are written.
prep(b, size, additional_bytes) ==
  LET align_size == (- (offset(b) + additional_bytes)) % size
  IN  pad(Grown([b EXCEPT !.minalign = IF size > @ THEN size ELSE @],
                align_size + size + additional_bytes),
          align_size)

(***************************************************************************)
(* Scalars.                                                                *)
(***************************************************************************)
writeInt8(b, value) ==
  [b EXCEPT !.space = @ - 1, !.bb = BB!writeInt8(@, b.space - 1, value)]

writeInt16(b, value) ==
  [b EXCEPT !.space = @ - 2, !.bb = BB!writeInt16(@, b.space - 2, value)]

writeInt32(b, value) ==
  [b EXCEPT !.space = @ - 4, !.bb = BB!writeInt32(@, b.space - 4, value)]

writeInt64(b, value) ==
  [b EXCEPT !.space = @ - 8, !.bb = BB!writeInt64(@, b.space - 8, value)]

writeUint8(b, value) ==
  [b EXCEPT !.space = @ - 1, !.bb = BB!writeUint8(@, b.space - 1, value)]

writeUint16(b, value) ==
  [b EXCEPT !.space = @ - 2, !.bb = BB!writeUint16(@, b.space - 2, value)]

writeUint32(b, value) ==
  [b EXCEPT !.space = @ - 4, !.bb = BB!writeUint32(@, b.space - 4, value)]

writeUint64(b, value) ==
  [b EXCEPT !.space = @ - 8, !.bb = BB!writeUint64(@, b.space - 8, value)]

writeFloat32(b, value) ==
  [b EXCEPT !.space = @ - 4, !.bb = BB!writeFloat32(@, b.space - 4, value)]

writeFloat64(b, value) ==
  [b EXCEPT !.space = @ - 8, !.bb = BB!writeFloat64(@, b.space - 8, value)]

addInt8(b, value) == writeInt8(prep(b, 1, 0), value)

addInt16(b, value) == writeInt16(prep(b, 2, 0), value)

addInt32(b, value) == writeInt32(prep(b, 4, 0), value)

addInt64(b, value) == writeInt64(prep(b, 8, 0), value)

addFloat32(b, value) == writeFloat32(prep(b, 4, 0), value)

addFloat64(b, value) == writeFloat64(prep(b, 8, 0), value)

\* The position of a reference is known before it is written: it counts
\* from where the reference itself will start.
addOffset(b, target) ==
  LET r == prep(b, BB!SIZEOF_INT, 0)
  IN  writeInt32(r, offset(r) - target + BB!SIZEOF_INT)

\* A field of the current table has just been written.
slot(b, voffset) ==
  [b EXCEPT !.vtable =
     [i \in DOMAIN @ \cup {voffset} |-> IF i = voffset THEN offset(b) ELSE @[i]]]

(***************************************************************************)
(* Fields of the current table.  One that has its default value is left    *)
(* out, unless defaults are forced.                                        *)
(***************************************************************************)
addFieldInt8(b, voffset, value, default) ==
  IF b.force_defaults \/ value # default THEN slot(addInt8(b, value), voffset) ELSE b

addFieldInt16(b, voffset, value, default) ==
  IF b.force_defaults \/ value # default THEN slot(addInt16(b, value), voffset) ELSE b

addFieldInt32(b, voffset, value, default) ==
  IF b.force_defaults \/ value # default THEN slot(addInt32(b, value), voffset) ELSE b

addFieldInt64(b, voffset, value, default) ==
  IF b.force_defaults \/ ~BB!equals(value, default)
  THEN slot(addInt64(b, value), voffset) ELSE b

addFieldFloat32(b, voffset, value, default) ==
  IF b.force_defaults \/ ~BB!SameFloat32(value, default)
  THEN slot(addFloat32(b, value), voffset) ELSE b

addFieldFloat64(b, voffset, value, default) ==
  IF b.force_defaults \/ ~BB!SameFloat64(value, default)
  THEN slot(addFloat64(b, value), voffset) ELSE b

addFieldOffset(b, voffset, target, default) ==
  IF b.force_defaults \/ target # default THEN slot(addOffset(b, target), voffset) ELSE b

\* A struct must have been written just before.
nested(b, obj) == obj = offset(b)

addFieldStruct(b, voffset, obj, default) ==
  IF obj # default THEN slot(b, voffset) ELSE b

(***************************************************************************)
(* Tables.                                                                 *)
(***************************************************************************)
notNested(b) == ~b.isNested

\* An entry is 0 until its field is written.
startObject(b, numfields) ==
  [b EXCEPT !.vtable = [i \in DOMAIN @ \cup 0 .. numfields - 1 |->
                          IF i < numfields THEN 0 ELSE @[i]],
            !.vtable_in_use = numfields,
            !.isNested = TRUE,
            !.object_start = offset(b)]

endObjectAllowed(b) == b.isNested

\* What endObject returns: the place of the table's reference to its vtable.
vtableloc(b) == offset(addInt32(b, 0))

\* The table and its vtable, written from the last entry to the first: where
\* each field is relative to the table, the size of the table, the size of
\* the vtable.
WithVtable(b) ==
  LET start == addInt32(b, 0)
      loc == offset(start)
      InUse == b.vtable_in_use
      Entry(i) == IF b.vtable[i] = 0 THEN 0 ELSE loc - b.vtable[i]
      entries == [i \in 1 .. InUse |-> Entry(InUse - i)]
  IN  FoldLeft(addInt16, start,
               entries \o <<loc - b.object_start, (InUse + 2) * SIZEOF_SHORT>>)

\* Faulty variant: vtables of one length count as the same.
SameVtableLength(bb, vt1, vt2) == BB!readInt16(bb, vt1) = BB!readInt16(bb, vt2)

SameVtable(bb, vt1, vt2) ==
  LET len == BB!readInt16(bb, vt1)
  IN  \A j \in {j \in 0 .. len - 1 : j % SIZEOF_SHORT = 0} :
        BB!readInt16(bb, vt1 + j) = BB!readInt16(bb, vt2 + j)

\* The vtables written before that equal the one just written.
ExistingVtables(b) ==
  {i \in 1 .. Len(b.vtables) : SameVtable(b.bb, BB!capacity(b.bb) - b.vtables[i], b.space)}

\* Faulty variant: a vtable is never shared.
endObjectUnshared(b) ==
  LET w == WithVtable(b)
      table == BB!capacity(w.bb) - vtableloc(b)
  IN  [w EXCEPT !.vtables = Append(@, offset(w)),
                !.bb = BB!writeInt32(@, table, offset(w) - vtableloc(b)),
                !.isNested = FALSE]

\* The table refers to the first such vtable, in which case its own is
\* dropped, or to its own, which is remembered.
endObject(b) ==
  LET w == WithVtable(b)
      table == BB!capacity(w.bb) - vtableloc(b)
      same == ExistingVtables(w)
  IN  IF same # {}
      THEN [w EXCEPT !.space = table,
                     !.bb = BB!writeInt32(@, table, w.vtables[Min(same)] - vtableloc(b)),
                     !.isNested = FALSE]
      ELSE [w EXCEPT !.vtables = Append(@, offset(w)),
                     !.bb = BB!writeInt32(@, table, offset(w) - vtableloc(b)),
                     !.isNested = FALSE]

\* Whether a table just ended has the field, given by its place in the vtable.
requiredField(b, table, field) ==
  LET table_start == BB!capacity(b.bb) - table
      vtable_start == table_start - BB!readInt32(b.bb, table_start)
  IN  BB!readInt16(b.bb, vtable_start + field) # 0

\* The reference to the root, after an identifier if there is one.
finish(b, root_table, file_identifier) ==
  LET room == prep(b, b.minalign, BB!SIZEOF_INT + BB!FILE_IDENTIFIER_LENGTH)
      f == IF file_identifier = << >> THEN b
           ELSE FoldLeft(writeInt8, room, Reverse(file_identifier))
      r == addOffset(prep(f, f.minalign, BB!SIZEOF_INT), root_table)
  IN  [r EXCEPT !.bb = BB!setPosition(@, r.space)]

(***************************************************************************)
(* Vectors and strings.                                                    *)
(***************************************************************************)
startVector(b, elem_size, num_elems, alignment) ==
  prep(prep([b EXCEPT !.vector_num_elems = num_elems],
            BB!SIZEOF_INT, elem_size * num_elems),
       alignment, elem_size * num_elems)

endVector(b) == writeInt32(b, b.vector_num_elems)

HighSurrogate(unit) == 55296 <= unit /\ unit < 56320

\* A high surrogate takes the next unit with it whatever that is; if there is
\* none the code point is not a number and its bits are 0.
CodePointAt(s, i) ==
  IF ~HighSurrogate(s[i]) THEN s[i]
  ELSE IF i < Len(s) THEN (s[i] - 55296) * 1024 + s[i + 1] - 56320 + 65536
  ELSE 0

\* The six bits of a code point that a byte after the first one takes.
Tail6(c, shift) == ((c \div shift) % 64) + 128

\* In as few bytes as the code point fits in, NaN in four.
Utf8Bytes(c, NaN) ==
  IF NaN \/ c >= 65536
  THEN <<((c \div 262144) % 8) + 240, Tail6(c, 4096), Tail6(c, 64), Tail6(c, 1)>>
  ELSE IF c >= 2048 THEN <<((c \div 4096) % 16) + 224, Tail6(c, 64), Tail6(c, 1)>>
  ELSE IF c >= 128 THEN <<((c \div 64) % 32) + 192, Tail6(c, 1)>>
  ELSE <<c>>

\* UTF-16 code units to UTF-8 bytes.
Utf8(s) ==
  LET from[i \in 1 .. Len(s) + 2] ==
        IF i > Len(s) THEN << >>
        ELSE Utf8Bytes(CodePointAt(s, i), HighSurrogate(s[i]) /\ i = Len(s))
               \o from[IF HighSurrogate(s[i]) THEN i + 2 ELSE i + 1]
  IN  from[1]

\* A zero-terminated vector of the string's bytes.
createString(b, s) ==
  LET v == startVector(addInt8(b, 0), 1, Len(Utf8(s)), 1)
      space == v.space - Len(Utf8(s))
  IN  endVector([v EXCEPT !.space = space,
                          !.bb = BB!setPosition(BB!WriteBytes(@, space, Utf8(s)), space)])
=============================================================================
