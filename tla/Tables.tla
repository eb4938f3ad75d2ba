------------------------------- MODULE Tables -------------------------------
(***************************************************************************)
(* A program that fills one Builder: strings, vectors and tables, each     *)
(* table with any of its fields in any order, then the reference to a      *)
(* root.  What generated code like schema/IndisMQ_generated.ts does to the *)
(* runtime, for any schema made of these types.                            *)
(***************************************************************************)
EXTENDS Builder

CONSTANTS
  Layout,      \* the type of each field, a sequence over FieldType
  Sizes,       \* the numbers of fields a table may be declared with
  Required,    \* the fields a table must have, by its number of fields
  Scalars,     \* the values integers are given; 0 is the default
  Floats,      \* the bits of the numbers floats are given
  Structs,     \* pairs of such bits and an integer
  Strings,     \* sequences of UTF-16 code units
  Vectors,     \* sequences of bytes
  Identifiers, \* the file identifiers finish may be given, << >> for none
  Forces,      \* the values of force_defaults
  MaxObjects,  \* strings, vectors and tables per buffer
  MaxFields    \* fields set per buffer

FieldType ==
  {"int8", "int16", "int32", "int64", "float32", "float64", "offset", "struct"}

ASSUME LayoutAssumption == 
  /\ Layout \in Seq(FieldType) /\ Sizes \subseteq 1 .. Len(Layout)
  /\ \A size \in Sizes : \A i \in Required[size] : i \in 1 .. size /\ Layout[i] = "offset"

ASSUME ValueAssumption ==
  /\ Scalars \subseteq Int /\ Floats \subseteq Int /\ Structs \subseteq Int \X Int
  /\ Strings \subseteq Seq(Nat) /\ Vectors \subseteq Seq(Int)
  /\ \A ident \in Identifiers : ident \in Seq(Int) /\ Len(ident) \in {0, 4}
  /\ Forces \subseteq BOOLEAN

\* A vtable keeps its own length as a signed number of 16 bits.
ASSUME SizeAssumption == \A size \in Sizes : (size + 2) * SIZEOF_SHORT < 32768

ASSUME BoundAssumption == MaxObjects \in Nat /\ MaxFields \in Nat

VARIABLES
  b,     \* the builder
  made,  \* what was created, by its offset
  table, \* the fields of the table under construction
  root   \* the finished buffer's root, 0 before

vars == <<b, made, table, root>>

Init ==
  /\ \E force \in Forces : b = forceDefaults(Builder(1), force)
  /\ made = << >>
  /\ table = << >>
  /\ root = 0

\* What a field is aligned to.
SizeOf(type) ==
  CASE type = "int8" -> 1
    [] type = "int16" -> 2
    [] type \in {"int64", "float64", "struct"} -> 8
    [] OTHER -> 4

\* A struct with a float64, a uint64, a float32, a uint32, a uint16 and a
\* uint8, in this order, filled up to a multiple of its largest.
CreateStruct(value) ==
  LET f == writeUint8(pad(prep(b, 8, 32), 5), value[2] % 256)
      e == writeUint16(f, value[2])
      d == writeUint32(e, BB!Unsigned(value[2]))
      c == writeFloat32(d, value[1])
  IN  writeFloat64(writeUint64(c, BB!createLong(value[2], value[2])),
                   BB!createLong(0, value[1]))

\* An offset is given the default 0 by nobody: it is left out instead.
AddField(type, voffset, value) ==
  CASE type = "int8" -> addFieldInt8(b, voffset, value, 0)
    [] type = "int16" -> addFieldInt16(b, voffset, value, 0)
    [] type = "int32" -> addFieldInt32(b, voffset, value, 0)
    [] type = "int64" ->
         addFieldInt64(b, voffset, BB!createLong(value, value), BB!createLong(0, 0))
    [] type = "float32" -> addFieldFloat32(b, voffset, value, 0)
    [] type = "float64" ->
         addFieldFloat64(b, voffset, BB!createLong(0, value), BB!createLong(0, 0))
    [] type = "offset" -> addFieldOffset(b, voffset, value, 0)
    [] type = "struct" ->
         LET s == CreateStruct(value) IN addFieldStruct(s, voffset, offset(s), 0)

Made(kind, value, required, at) ==
  made' = [o \in DOMAIN made \cup {at} |->
             IF o = at THEN [kind |-> kind, value |-> value, required |-> required]
             ELSE made[o]]

CanCreate == notNested(b) /\ root = 0 /\ Cardinality(DOMAIN made) < MaxObjects

CreateString(s) ==
  /\ CanCreate
  /\ b' = createString(b, s)
  /\ Made("string", s, {}, offset(b'))
  /\ UNCHANGED <<table, root>>

\* What generated code does for a vector of bytes.
CreateVector(v) ==
  /\ CanCreate
  /\ b' = endVector(FoldLeft(addInt8, startVector(b, 1, Len(v), 1), Reverse(v)))
  /\ Made("vector", v, {}, offset(b'))
  /\ UNCHANGED <<table, root>>

StartTable(numfields) ==
  /\ CanCreate
  /\ b' = startObject(b, numfields)
  /\ UNCHANGED <<made, table, root>>

TablesEnded == {at \in DOMAIN made : made[at].kind \in {"table", "lost"}}

FieldsSet ==
  Cardinality(DOMAIN table) +
  Cardinality(UNION {{at} \X DOMAIN made[at].value : at \in TablesEnded})

\* A program leaves the builder alone once it has finished the message, also
\* when it finishes it with a table open: finish() does not look.
SetField(i, value) ==
  /\ endObjectAllowed(b) /\ root = 0
  /\ i <= b.vtable_in_use /\ i \notin DOMAIN table
  /\ FieldsSet < MaxFields
  /\ b' = AddField(Layout[i], i - 1, value)
  /\ table' = [j \in DOMAIN table \cup {i} |-> IF j = i THEN value ELSE table[j]]
  /\ UNCHANGED <<made, root>>

\* The table is ended and then looked at: if requiredField throws the caller
\* never learns where the table is.
EndTable ==
  /\ endObjectAllowed(b) /\ root = 0
  /\ b' = endObject(b)
  /\ LET required == Required[b.vtable_in_use]
         ok == \A i \in required : requiredField(b', vtableloc(b), 4 + 2 * (i - 1))
     IN  Made(IF ok THEN "table" ELSE "lost", table, required, vtableloc(b))
  /\ table' = << >>
  /\ UNCHANGED root

Finish(at, ident) ==
  /\ root = 0
  /\ made[at].kind = "table"
  /\ b' = finish(b, at, ident)
  /\ root' = at
  /\ UNCHANGED <<made, table>>

Values(type) ==
  CASE type = "offset" -> {at \in DOMAIN made : made[at].kind # "lost"}
    [] type \in {"float32", "float64"} -> Floats
    [] type = "struct" -> Structs
    [] OTHER -> Scalars

Next ==
  \/ \E s \in Strings : CreateString(s)
  \/ \E v \in Vectors : CreateVector(v)
  \/ \E size \in Sizes : StartTable(size)
  \/ \E i \in DOMAIN Layout :
       \E value \in Values(Layout[i]) : SetField(i, value)
  \/ EndTable
  \/ \E at \in DOMAIN made, ident \in Identifiers : Finish(at, ident)

Spec == Init /\ [][Next]_vars

(***************************************************************************)
(* Properties.                                                             *)
(***************************************************************************)
Data == BB!ByteBuffer(asUint8Array(b))

\* Where the object made at this offset starts in the builder's buffer.
Place(at) == BB!capacity(b.bb) - at

TablesMade == {at \in DOMAIN made : made[at].kind = "table"}

\* A field's value, read the way an accessor of generated code reads it.
ReadsField(bb, where, type, value, end) ==
  CASE type = "int8" -> BB!readInt8(bb, where) = value
    [] type = "int16" -> BB!readInt16(bb, where) = value
    [] type = "int32" -> BB!readInt32(bb, where) = value
    [] type = "int64" -> BB!readInt64(bb, where) = BB!Long(value, value)
    [] type = "float32" -> BB!readFloat32(bb, where) = value
    [] type = "float64" -> BB!readFloat64(bb, where) = BB!Long(0, value)
    [] type = "struct" ->
         /\ BB!readFloat64(bb, where) = BB!Long(0, value[1])
         /\ BB!readUint64(bb, where + 8) = BB!Long(value[2], value[2])
         /\ BB!readFloat32(bb, where + 16) = value[1]
         /\ BB!readUint32(bb, where + 20) = BB!Unsigned(value[2])
         /\ BB!readUint16(bb, where + 24) = BB!Unsigned(value[2])[2]
         /\ BB!readUint8(bb, where + 26) = value[2] % 256
    [] type = "offset" ->
         LET object == made[value] IN
         CASE object.kind = "string" -> BB!__string(bb, where) = object.value
           [] object.kind = "vector" ->
                /\ BB!__vector_len(bb, where) = Len(object.value)
                /\ \A i \in DOMAIN object.value :
                     BB!readUint8(bb, BB!__vector(bb, where) + i - 1) = object.value[i]
           [] object.kind = "table" ->
                BB!__indirect(bb, where) = end - value
                /\ BB!__union(bb, where).bb_pos = end - value

\* A number that is left out because the default equals it.
IsDefault(type, value) ==
  CASE type \in {"offset", "struct"} -> FALSE
    [] type \in {"float32", "float64"} -> value \in BB!Zeros
    [] OTHER -> value = 0

\* The table made at this offset has the fields it was given and no others,
\* the required ones among them.
Reads(bb, at) ==
  LET end == BB!capacity(bb)
      fields == made[at].value
      Given(i) == /\ i \in DOMAIN fields
                  /\ IsDefault(Layout[i], fields[i]) => b.force_defaults
      Where(i) == BB!__offset(bb, end - at, 4 + 2 * (i - 1))
  IN  /\ made[at].required \subseteq DOMAIN fields
      /\ \A i \in DOMAIN Layout :
        IF Given(i)
        THEN Where(i) # 0 /\ ReadsField(bb, end - at + Where(i), Layout[i], fields[i], end)
        ELSE Where(i) = 0

(***************************************************************************)
(* Type invariant: the builder is one, its free space lies in its buffer,  *)
(* and a table is open exactly while one is under construction.            *)
(***************************************************************************)
TypeOK ==
  /\ b.bb.bytes_ \in Seq(0 .. 255)
  /\ b.space \in 0 .. BB!capacity(b.bb)
  /\ b.minalign \in {1, 2, 4, 8}
  /\ b.isNested \in BOOLEAN
  /\ DOMAIN made \subseteq 1 .. offset(b)
  /\ DOMAIN table \subseteq DOMAIN Layout
  /\ root \in {0} \cup TablesMade

\* ReadsBack: whatever is written after it, and however often the buffer
\* grows (growByteBuffer), a table reads back the fields it was given, the
\* required ones (requiredField) always, and the defaults of the others
\* (__offset, the vtables endObject writes).
ReadsBack == \A at \in TablesMade : Reads(dataBuffer(b), at)

\* ReceiverReads: a finished buffer (finish, asUint8Array) reads the same
\* at its receiver, starting from the reference to the root.
ReceiverReads ==
  root # 0 =>
    /\ BB!__indirect(Data, 0) = BB!capacity(Data) - root
    /\ \A at \in TablesMade : Reads(Data, at)

\* Aligned: in a finished buffer every scalar lies at a multiple of its
\* size (prep), however the objects before it came to be where they are.
Aligned ==
  root # 0 =>
    \A at \in TablesMade : \A i \in DOMAIN Layout :
      LET pos == BB!capacity(Data) - at
          field == BB!__offset(Data, pos, 4 + 2 * (i - 1))
      IN  /\ pos % 4 = 0
          /\ field # 0 => (pos + field) % SizeOf(Layout[i]) = 0
          /\ field # 0 /\ Layout[i] = "offset" => BB!__indirect(Data, pos + field) % 4 = 0

\* SharedVtables: tables that look alike share one vtable (endObject's
\* search), so no two vtables of a buffer are equal.
SharedVtables ==
  \A x, y \in 1 .. Len(b.vtables) :
    SameVtable(b.bb, Place(b.vtables[x]), Place(b.vtables[y])) => x = y

\* WrittenStays: no operation changes a byte that was written before it,
\* growing the buffer included.
WrittenStays ==
  [][\A i \in 1 .. offset(b) :
       b'.bb.bytes_[BB!capacity(b'.bb) - i + 1] = b.bb.bytes_[BB!capacity(b.bb) - i + 1]]_vars
=============================================================================
