------------------------------ MODULE ImqTable ------------------------------
(***************************************************************************)
(* The code flatc generates for the table Imq, schema/IndisMQ_generated.ts:*)
(* enumerations, accessors, mutators and the functions that fill a         *)
(* Builder.  A message is the record [bb, bb_pos] of the class Imq.        *)
(***************************************************************************)
EXTENDS Builder

CONSTANTS
  Null,      \* null
  RangeError \* what a view outside its ArrayBuffer throws

MsgType == [NONE |-> 0, SINGLE |-> 1, CAST |-> 2, QUEUE |-> 3, CMD |-> 4]

Cmd == [NONE |-> 0, SUB |-> 1, UNSUB |-> 2, SYN |-> 3, READY |-> 4]

Sts == [NONE |-> 0, ERROR |-> 1, REQ |-> 2, REP |-> 3, SEQ |-> 4,
        CANCEL |-> 5, SUCCESS |-> 6, ACK |-> 7]

Err == [NONE |-> 0, NO_HANDLER |-> 1, INVALID |-> 2, REMOTE |-> 3, TIMEOUT |-> 4]

(***************************************************************************)
(* Reading.                                                                *)
(***************************************************************************)
__init(i, bb) == [bb_pos |-> i, bb |-> bb]

getRootAsImq(bb) == __init(BB!readInt32(bb, bb.position_) + bb.position_, bb)

bufferHasIdentifier(bb) == BB!__has_identifier(bb, <<48, 48, 48, 49>>)

\* Where the message keeps a field, 0 if it does not, and its value there.
FieldAt(m, vtable_offset) == BB!__offset(m.bb, m.bb_pos, vtable_offset)

ByteField(m, vtable_offset, default) ==
  IF FieldAt(m, vtable_offset) # 0
  THEN BB!readInt8(m.bb, m.bb_pos + FieldAt(m, vtable_offset)) ELSE default

StringField(m, vtable_offset) ==
  IF FieldAt(m, vtable_offset) # 0
  THEN BB!__string(m.bb, m.bb_pos + FieldAt(m, vtable_offset)) ELSE Null

GetBody(m, index) ==
  IF FieldAt(m, 4) # 0
  THEN BB!readUint8(m.bb, BB!__vector(m.bb, m.bb_pos + FieldAt(m, 4)) + index) ELSE 0

BodyLength(m) ==
  IF FieldAt(m, 4) # 0 THEN BB!__vector_len(m.bb, m.bb_pos + FieldAt(m, 4)) ELSE 0

\* A view of the ArrayBuffer behind the message's bytes, which for a message
\* this process built is the whole buffer of its Builder.
BodyArray(m, buffer) ==
  LET start == BB!__vector(m.bb, m.bb_pos + FieldAt(m, 4))
  IN  IF FieldAt(m, 4) = 0 THEN Null
      ELSE IF start + BodyLength(m) > Len(buffer) THEN RangeError
           ELSE SubSeq(buffer, start + 1, start + BodyLength(m))

GetFrom(m) == StringField(m, 6)

GetTo(m) == StringField(m, 8)

GetBroker(m) == ByteField(m, 10, 0) # 0

GetCmd(m) == ByteField(m, 12, Cmd.NONE)

GetMsgId(m) == StringField(m, 14)

GetMsgType(m) == ByteField(m, 16, MsgType.NONE)

GetSts(m) == ByteField(m, 18, Sts.NONE)

GetPath(m) == StringField(m, 20)

GetErr(m) == ByteField(m, 22, Err.NONE)

GetStsMsg(m) == StringField(m, 24)

GetCallback(m) == ByteField(m, 26, 0) # 0

\* The version is a struct inside the table.
GetVer(m) == IF FieldAt(m, 28) = 0 THEN Null ELSE __init(m.bb_pos + FieldAt(m, 28), m.bb)

Major(v) == BB!readInt8(v.bb, v.bb_pos)

Minor(v) == BB!readInt8(v.bb, v.bb_pos + 1)

(***************************************************************************)
(* Mutating.  A field that was left out cannot be set.                     *)
(***************************************************************************)
Mutated(m, vtable_offset, value) ==
  IF FieldAt(m, vtable_offset) = 0 THEN m.bb
  ELSE BB!writeInt8(m.bb, m.bb_pos + FieldAt(m, vtable_offset), value)

\* Those of the struct look it up as if it were a table.
mutate_Major(v, value) == Mutated(v, 0, value)

mutate_Minor(v, value) == Mutated(v, 1, value)

mutate_Broker(m, value) == Mutated(m, 10, IF value THEN 1 ELSE 0)

mutate_Cmd(m, value) == Mutated(m, 12, value)

mutate_MsgType(m, value) == Mutated(m, 16, value)

mutate_Sts(m, value) == Mutated(m, 18, value)

mutate_Err(m, value) == Mutated(m, 22, value)

mutate_Callback(m, value) == Mutated(m, 26, IF value THEN 1 ELSE 0)

(***************************************************************************)
(* Building.                                                               *)
(***************************************************************************)
startImq(b) == startObject(b, 13)

\* Faulty variant: the bytes in the order they are given.
createBodyVectorReversed(b, data) ==
  IF data = Null THEN b
  ELSE endVector(FoldLeft(addInt8, startVector(b, 1, Len(data), 1), data))

\* The bytes from the last to the first; for null the builder stays as it is
\* and the offset is null.
createBodyVector(b, data) ==
  IF data = Null THEN b
  ELSE endVector(FoldLeft(addInt8, startVector(b, 1, Len(data), 1), Reverse(data)))

\* null differs from the default 0, so the field is written, and counts as 0
\* when it is: the reference leads to the very end of the buffer.
addBody(b, BodyOffset) ==
  IF BodyOffset = Null THEN slot(addOffset(b, 0), 0)
  ELSE addFieldOffset(b, 0, BodyOffset, 0)

addFrom(b, FromOffset) == addFieldOffset(b, 1, FromOffset, 0)

addTo(b, ToOffset) == addFieldOffset(b, 2, ToOffset, 0)

addBroker(b, Broker) == addFieldInt8(b, 3, IF Broker THEN 1 ELSE 0, 0)

addCmd(b, value) == addFieldInt8(b, 4, value, Cmd.NONE)

addMsgId(b, MsgIdOffset) == addFieldOffset(b, 5, MsgIdOffset, 0)

addMsgType(b, value) == addFieldInt8(b, 6, value, MsgType.NONE)

addSts(b, value) == addFieldInt8(b, 7, value, Sts.NONE)

addPath(b, PathOffset) == addFieldOffset(b, 8, PathOffset, 0)

addErr(b, value) == addFieldInt8(b, 9, value, Err.NONE)

addStsMsg(b, StsMsgOffset) == addFieldOffset(b, 10, StsMsgOffset, 0)

addCallback(b, Callback) == addFieldInt8(b, 11, IF Callback THEN 1 ELSE 0, 0)

createVer(b, major, minor) == writeInt8(writeInt8(prep(b, 1, 2), minor), major)

addVer(b, VerOffset) == addFieldStruct(b, 12, VerOffset, 0)

endImq(b) == endObject(b)

\* Faulty variant: the identifier is left out.
finishImqBufferPlain(b, root) == finish(b, root, << >>)

finishImqBuffer(b, root) == finish(b, root, <<48, 48, 48, 49>>)
=============================================================================
