-------------------------------- MODULE Wire --------------------------------
(***************************************************************************)
(* A message of the TypeScript library as bytes: makeImq of js/indisMQ.ts  *)
(* writes it, parseMsg of the receiver reads it, and the replies err,      *)
(* success and rep are made from what was read.  The control messages of   *)
(* TsNet are these without their encoding; here it is checked that the     *)
(* encoding carries them.                                                  *)
(***************************************************************************)
EXTENDS ImqTable

CONSTANTS
  Names,    \* client names and other strings, sequences of UTF-16 code units
  Texts,    \* status texts
  Bodies,   \* what a program may pass as msg: Null or a sequence of bytes
  Versions, \* pairs <<Major, Minor>>
  MaxHops   \* how often a message is answered or changed on the way

VARIABLES
  data,   \* the bytes in flight
  meant,  \* the fields they should carry
  stamp,  \* the version written into them, Null for none
  hops

vars == <<data, meant, stamp, hops>>

(***************************************************************************)
(* makeImq.  Its parameters are a record; callback says whether there is   *)
(* one, for the message carries no more than that.                         *)
(***************************************************************************)
\* The builders after each of these strings was written in turn.
AfterEach(b, strings) ==
  Tail(FoldLeft(LAMBDA bs, s : Append(bs, createString(Last(bs), s)), <<b>>, strings))

\* The fields in the order they are written, given the builders after the
\* identifier, the body and each of the strings stsMsg, path, from and to.
Fields(a, id, body, after) ==
  addCmd(addMsgType(addErr(addStsMsg(addBody(addSts(addPath(addCallback(
    addBroker(addMsgId(addTo(addFrom(startImq(after[4]),
      offset(after[3])), offset(after[4])), offset(id)), a.broker),
      a.callback), offset(after[2])), a.sts),
      IF a.body = Null THEN Null ELSE offset(body)),
      offset(after[1])), a.err), a.msgType), a.cmd)

\* The builder when all fields are written.  What is referred to has to be
\* written before the table is started.
Filled(a) ==
  LET id == createString(Builder(1), a.id)
      body == createBodyVector(id, a.body)
  IN  Fields(a, id, body, AfterEach(body, <<a.stsMsg, a.path, a.from, a.to>>))

Finished(b) == asUint8Array(finish(endImq(b), vtableloc(b), << >>))

makeImq(a) == Finished(Filled(a))

\* A program that uses the generated code itself may add the version and the
\* file identifier, which the library never writes.
FinishedStamped(ver) ==
  LET b == addVer(ver, offset(ver))
  IN  asUint8Array(finishImqBuffer(endImq(b), vtableloc(b)))

makeStamped(a, v) == FinishedStamped(createVer(Filled(a), v[1], v[2]))

parseMsg(bytes) == getRootAsImq(BB!ByteBuffer(bytes))

\* Faulty variant: a reply to nobody.
AnswerToNobody(m, me, sts, err, stsMsg, body) ==
  [id |-> GetMsgId(m), from |-> me, to |-> << >>, broker |-> GetBroker(m),
   path |-> GetPath(m), msgType |-> GetMsgType(m), sts |-> sts, err |-> err,
   stsMsg |-> stsMsg, cmd |-> GetCmd(m), body |-> body, callback |-> FALSE]

\* err, success and rep make the same message but for these parameters.
Answer(m, me, sts, err, stsMsg, body) ==
  [id |-> GetMsgId(m), from |-> me, to |-> GetFrom(m), broker |-> GetBroker(m),
   path |-> GetPath(m), msgType |-> GetMsgType(m), sts |-> sts, err |-> err,
   stsMsg |-> stsMsg, cmd |-> GetCmd(m), body |-> body, callback |-> FALSE]

err(m, me, stsMsg, code) == Answer(m, me, Sts.ERROR, code, stsMsg, Null)

success(m, me, stsMsg) == Answer(m, me, Sts.SUCCESS, Err.NONE, stsMsg, Null)

rep(m, me, stsMsg, msg) == Answer(m, me, Sts.REP, Err.NONE, stsMsg, msg)

(***************************************************************************)
(* A message is made, then answered or changed in place MaxHops times.     *)
(***************************************************************************)
Requests ==
  [id : {<<32, 97>>}, from : Names, to : Names, broker : BOOLEAN, path : Names,
   msgType : {MsgType.SINGLE, MsgType.CMD}, sts : {Sts.REQ}, err : {Err.NONE},
   stsMsg : Texts, cmd : {Cmd.NONE, Cmd.SYN}, body : Bodies, callback : BOOLEAN]

Init ==
  /\ meant \in Requests
  /\ stamp \in Versions \cup {Null}
  /\ data = IF stamp = Null THEN makeImq(meant) ELSE makeStamped(meant, stamp)
  /\ hops = 0

Sent(a) ==
  /\ data' = makeImq(a)
  /\ stamp' = Null

Received == parseMsg(data)

Fail(me, stsMsg) ==
  /\ Sent(err(Received, me, stsMsg, Err.INVALID))
  /\ meant' = [meant EXCEPT !.from = me, !.to = meant.from, !.sts = Sts.ERROR,
                 !.err = Err.INVALID, !.stsMsg = stsMsg, !.body = Null, !.callback = FALSE]

Succeed(me, stsMsg) ==
  /\ Sent(success(Received, me, stsMsg))
  /\ meant' = [meant EXCEPT !.from = me, !.to = meant.from, !.sts = Sts.SUCCESS,
                 !.err = Err.NONE, !.stsMsg = stsMsg, !.body = Null, !.callback = FALSE]

Reply(me, stsMsg, msg) ==
  /\ Sent(rep(Received, me, stsMsg, msg))
  /\ meant' = [meant EXCEPT !.from = me, !.to = meant.from, !.sts = Sts.REP,
                 !.err = Err.NONE, !.stsMsg = stsMsg, !.body = msg, !.callback = FALSE]

\* Overwrite a field in place: one that was left out keeps its default.
Overwrite ==
  /\ \/ /\ data' = mutate_Broker(Received, FALSE).bytes_
        /\ meant' = [meant EXCEPT !.broker = FALSE]
     \/ /\ data' = mutate_Callback(Received, FALSE).bytes_
        /\ meant' = [meant EXCEPT !.callback = FALSE]
     \/ /\ data' = mutate_Cmd(Received, Cmd.SUB).bytes_
        /\ meant' = [meant EXCEPT !.cmd = IF @ = Cmd.NONE THEN @ ELSE Cmd.SUB]
     \/ /\ data' = mutate_MsgType(Received, MsgType.QUEUE).bytes_
        /\ meant' = [meant EXCEPT !.msgType = MsgType.QUEUE]
     \/ /\ data' = mutate_Sts(Received, Sts.ACK).bytes_
        /\ meant' = [meant EXCEPT !.sts = Sts.ACK]
     \/ /\ data' = mutate_Err(Received, Err.REMOTE).bytes_
        /\ meant' = [meant EXCEPT !.err = IF @ = Err.NONE THEN @ ELSE Err.REMOTE]
     \/ /\ GetVer(Received) # Null
        /\ data' \in {mutate_Major(GetVer(Received), 3).bytes_,
                      mutate_Minor(GetVer(Received), 3).bytes_}
        /\ UNCHANGED meant
  /\ UNCHANGED stamp

Next ==
  /\ hops < MaxHops
  /\ hops' = hops + 1
  /\ \/ Overwrite
     \/ \E me \in Names, stsMsg \in Texts :
          \/ Fail(me, stsMsg)
          \/ Succeed(me, stsMsg)
          \/ \E msg \in Bodies : Reply(me, stsMsg, msg)

Spec == Init /\ [][Next]_vars

(***************************************************************************)
(* Properties.                                                             *)
(***************************************************************************)
TypeOK ==
  /\ data \in Seq(0 .. 255)
  /\ meant.sts \in 0 .. 7 /\ meant.err \in 0 .. 4 /\ meant.cmd \in 0 .. 4
  /\ stamp \in Versions \cup {Null}
  /\ hops \in 0 .. MaxHops

\* RoundTrip: the receiver reads the fields the sender passed to makeImq,
\* also those of a reply that was made from fields read before.
RoundTrip ==
  LET m == Received
  IN  /\ GetMsgId(m) = meant.id /\ GetFrom(m) = meant.from /\ GetTo(m) = meant.to
      /\ GetBroker(m) = meant.broker /\ GetPath(m) = meant.path
      /\ GetMsgType(m) = meant.msgType /\ GetSts(m) = meant.sts
      /\ GetErr(m) = meant.err /\ GetStsMsg(m) = meant.stsMsg
      /\ GetCmd(m) = meant.cmd /\ GetCallback(m) = meant.callback

\* BodyReads: if the sender passed a body the receiver's view of its
\* ArrayBuffer (BodyArray) and the elements one by one (Body) are that body.
BodyReads ==
  meant.body # Null =>
    /\ BodyArray(Received, data) = meant.body
    /\ BodyLength(Received) = Len(meant.body)
    /\ \A i \in DOMAIN meant.body : GetBody(Received, i - 1) = meant.body[i]

\* StampReads: version and identifier are there exactly when they were
\* written, leave room for each other, and outlive every mutator, those of
\* the version included (mutate_Major, mutate_Minor): they find no field.
StampReads ==
  /\ bufferHasIdentifier(parseMsg(data).bb) <=> stamp # Null
  /\ IF stamp = Null THEN GetVer(Received) = Null
     ELSE <<Major(GetVer(Received)), Minor(GetVer(Received))>> = stamp

\* NoBodyIsNull: BodyArray of a message made without a body returns null,
\* as "@returns {Uint8Array}" and its ": null" say
\* (schema/IndisMQ_generated.ts, BodyArray).
NoBodyIsNull == meant.body = Null => BodyArray(Received, data) = Null
=============================================================================
