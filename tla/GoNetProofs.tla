---------------------------- MODULE GoNetProofs ----------------------------
(***************************************************************************)
(* Proofs about GoNet for every set of processes, every program and every  *)
(* transport.                                                              *)
(***************************************************************************)
EXTENDS GoNetProperties, FiniteSetTheorems, SequenceTheorems, TLAPS

(***************************************************************************)
(* The messages the library builds are well formed.                        *)
(***************************************************************************)
LEMMA ProgramType_ ==
  ASSUME NEW n \in Node
  PROVE  Program[n] \in ProgramType
BY ProgramAssumption

LEMMA SynMsgTyped ==
  ASSUME NEW id \in Id, NEW me \in Name
  PROVE  SynMsg(id, me) \in Imq
BY DEF SynMsg, makeImq, Imq, MsgType, Cmd, Sts

LEMMA RequestsTyped ==
  ASSUME NEW id \in Id, NEW me \in Name, NEW to \in Name \cup {NoName}, NEW path \in Path,
         NEW broker \in BOOLEAN
  PROVE  /\ ReadyMsg(id, me, to, path) \in Imq
         /\ ReqMsg(id, me, to, path) \in Imq
         /\ SubMsg(id, me, path) \in Imq
         /\ UnSubMsg(id, me, path) \in Imq
         /\ MultMsg(id, me, broker, path) \in Imq
         /\ QueueMsg(id, me, broker, path) \in Imq
BY DEF ReadyMsg, ReqMsg, SubMsg, UnSubMsg, MultMsg, QueueMsg, makeImq,
       Imq, MsgType, Cmd, Sts

\* What can be asked under identifier i.
Asked(i) ==
  {m \in Imq : /\ m.id = i /\ m.sts = "REQ"
               /\ m.broker => m.to = NoName /\ m.type # "CMD" /\ m.cmd # "SYN"}

LEMMA RequestsAsked ==
  ASSUME NEW id \in Id, NEW me \in Name, NEW to \in Name \cup {NoName}, NEW path \in Path
  PROVE  /\ ReadyMsg(id, me, to, path) \in Asked(id) /\ ReqMsg(id, me, to, path) \in Asked(id)
         /\ SubMsg(id, me, path) \in Asked(id) /\ UnSubMsg(id, me, path) \in Asked(id)
         /\ \A broker \in BOOLEAN : /\ MultMsg(id, me, broker, path) \in Asked(id)
                                    /\ QueueMsg(id, me, broker, path) \in Asked(id)
BY RequestsTyped DEF Asked, ReadyMsg, ReqMsg, SubMsg, UnSubMsg, MultMsg, QueueMsg, makeImq

LEMMA SynMsgAsked ==
  ASSUME NEW id \in Id, NEW me \in Name
  PROVE  SynMsg(id, me) \in Asked(id)
BY SynMsgTyped DEF Asked, SynMsg, makeImq

LEMMA RepliesTyped ==
  ASSUME NEW me \in Name, NEW m \in Imq
  PROVE  /\ Err(me, m) \in Imq
         /\ Success(me, m) \in Imq
         /\ Rep(me, m) \in Imq
         /\ ReplayMsg(me, m) \in Imq
BY DEF Err, Success, Rep, ReplayMsg, makeImq, Imq, MsgType, Cmd, Sts

(***************************************************************************)
(* The operations on the subscriber table keep it one.                     *)
(***************************************************************************)
LEMMA AddSubscriberTyped ==
  ASSUME NEW t, IsTable(t), NEW client \in Name, NEW path \in Path \cup {NoPath}
  PROVE  IsTable(AddSubscriber(t, client, path))
BY DEF IsTable, AddSubscriber, Subscribers, PartialFunction

LEMMA DelSubscriberTyped ==
  ASSUME NEW t, IsTable(t), NEW client \in Name, NEW path \in Path \cup {NoPath}
  PROVE  IsTable(DelSubscriber(t, client, path))
BY DEF IsTable, DelSubscriber, Subscribers, PartialFunction

LEMMA SubscribersTyped ==
  ASSUME NEW t, IsTable(t), NEW path \in Path \cup {NoPath}
  PROVE  Subscribers(t, path) \subseteq Name
BY SentinelAssumption DEF IsTable, Subscribers, PartialFunction

LEMMA sendQueueTyped ==
  ASSUME NEW marks, PartialFunction(marks, Name, BOOLEAN), NEW o \in sendQueue(marks)
  PROVE  o.to \subseteq DOMAIN marks /\ o.marks \in [DOMAIN marks -> BOOLEAN]
<1>1. CASE o \in AfterMark(marks)
  <2>1. PICK t \in DOMAIN marks : \E after \in SUBSET (DOMAIN marks \ {t}) :
          o = [to |-> after, marks |-> [c \in DOMAIN marks |-> c \in after /\ ~marks[c]]]
    BY <1>1 DEF AfterMark
  <2> QED BY <2>1
<1>2. CASE o \in FromStart(marks)
  <2>1. PICK k \in DOMAIN marks :
          o = [to |-> {k}, marks |-> [c \in DOMAIN marks |-> c = k]]
    BY <1>2 DEF FromStart
  <2> QED BY <2>1
<1> QED BY <1>1, <1>2 DEF sendQueue

LEMMA QueueOutcomesTyped ==
  ASSUME NEW t, IsTable(t), NEW path \in Path \cup {NoPath}, NEW o \in QueueOutcomes(t, path)
  PROVE  o.to \subseteq Name /\ IsTable(o.table)
<1>1. CASE Subscribers(t, path) = {}
  BY <1>1 DEF QueueOutcomes
<1>2. CASE Subscribers(t, path) # {}
  <2>1. path \in DOMAIN t /\ PartialFunction(t[path], Name, BOOLEAN)
    BY <1>2 DEF Subscribers, IsTable
  <2>2. PICK r \in sendQueue(t[path]) :
          o = [to |-> r.to, table |-> [t EXCEPT ![path] = r.marks]]
    BY <1>2 DEF QueueOutcomes
  <2>3. r.to \subseteq DOMAIN t[path] /\ r.marks \in [DOMAIN t[path] -> BOOLEAN]
    BY <2>1, sendQueueTyped
  <2>4. o.to \subseteq Name
    BY <2>1, <2>2, <2>3 DEF PartialFunction
  <2>5. IsTable(o.table)
    BY <2>1, <2>2, <2>3 DEF IsTable, PartialFunction
  <2> QED BY <2>4, <2>5
<1> QED BY <1>1, <1>2

(***************************************************************************)
(* Sending and receiving keep the queues sequences over any set S of       *)
(* messages that has the ones sent.                                        *)
(***************************************************************************)
LEMMA SendKeeps ==
  ASSUME NEW S, NEW queues \in [Link -> Seq(S)], NEW n \in Node, NEW k, NEW m \in S,
         conn \subseteq Link
  PROVE  Send(queues, n, k, m) \in [Link -> Seq(S)]
<1>1. \A l \in Link : Append(queues[l], m) \in Seq(S)
  BY AppendProperties
<1> QED BY <1>1 DEF Send, Link

LEMMA FanOutKeeps ==
  ASSUME NEW S, NEW queues \in [Link -> Seq(S)], NEW n, NEW clients \in SUBSET Name, NEW m \in S
  PROVE  FanOut(queues, n, clients, m) \in [Link -> Seq(S)]
<1> SUFFICES ASSUME NEW l \in Link
             PROVE  queues[l] \o
                      [j \in 1 .. Cardinality({c \in clients : Socket(n, c) = l[2]}) |-> m]
                      \in Seq(S)
  BY DEF FanOut
<1> DEFINE N == Cardinality({c \in clients : Socket(n, c) = l[2]})
<1>1. IsFiniteSet({c \in clients : Socket(n, c) = l[2]})
  BY FiniteAssumption, FS_Subset
<1>2. N \in Nat
  BY <1>1, FS_CardinalityType
<1>3. [j \in 1 .. N |-> m] \in Seq(S)
  BY <1>2, IsASeq
<1> QED BY <1>3, ConcatProperties

LEMMA RestKeeps ==
  ASSUME NEW S, net \in [Link -> Seq(S)], NEW k \in Node, NEW n \in Node, Waiting(k, n)
  PROVE  /\ Received(k, n) \in S
         /\ Rest(k, n) \in [Link -> Seq(S)]
<1>1. net[<<k, n>>] \in Seq(S) /\ net[<<k, n>>] # << >>
  BY DEF Waiting, Link
<1>2. Head(net[<<k, n>>]) \in S /\ Tail(net[<<k, n>>]) \in Seq(S)
  BY <1>1, HeadTailProperties
<1> QED BY <1>2 DEF Received, Rest

LEMMA DisconnectKeeps ==
  ASSUME NEW S, net \in [Link -> Seq(S)], NEW n \in Node, NEW k \in Node, Disconnect(n, k)
  PROVE  net' \in [Link -> Seq(S)]
<1>1. << >> \in Seq(S)
  BY EmptySeq
<1> QED BY <1>1 DEF Disconnect, Link

LEMMA WithoutKeeps ==
  ASSUME NEW S, NEW q \in Seq(S), NEW j \in 1 .. Len(q)
  PROVE  Without(q, j) \in Seq(S)
<1>1. /\ SubSeq(q, 1, j - 1) \in Seq(S)
      /\ SubSeq(q, j + 1, Len(q)) \in Seq(S)
  BY SubSeqProperties, LenProperties
<1> QED BY <1>1, ConcatProperties DEF Without

LEMMA DisturbKeeps ==
  ASSUME NEW S, net \in [Link -> Seq(S)], NEW l \in Link, Disturb(l)
  PROVE  net' \in [Link -> Seq(S)]
<1>1. PICK j \in 1 .. Len(net[l]) : Lose(l, j) \/ Duplicate(l, j) \/ Overtake(l, j)
  BY DEF Disturb
<1>2. net[l] \in Seq(S) /\ net[l][j] \in S
  BY ElementOfSeq
<1>3. Without(net[l], j) \in Seq(S)
  BY <1>2, WithoutKeeps
<1>4. Append(net[l], net[l][j]) \in Seq(S)
  BY <1>2, AppendProperties
<1>5. <<net[l][j]>> \o Without(net[l], j) \in Seq(S)
  <2>1. <<net[l][j]>> \in Seq(S)
    BY <1>2
  <2> QED BY <1>3, <2>1, ConcatProperties
<1> QED BY <1>1, <1>3, <1>4, <1>5 DEF Lose, Duplicate, Overtake

Queues == [Link -> Seq(Imq)]

LEMMA RestTyped ==
  ASSUME NEW k \in Node, NEW n \in Node, Waiting(k, n), TransportOK
  PROVE  /\ Received(k, n) \in Imq
         /\ Rest(k, n) \in Queues
         /\ net \in Queues
BY RestKeeps DEF TransportOK, Queues

(***************************************************************************)
(* Making a request.                                                       *)
(***************************************************************************)
\* The part of the types that does not say what is on the way.
StateOK ==
  /\ TablesOK
  /\ conn \subseteq Link /\ faults \in 0 .. MaxFaults
  /\ issued \in Seq(CallRecord) /\ Len(issued) <= MaxId
  /\ handled \in [Id -> [Node -> Nat]]

LEMMA TypeParts == TypeOK <=> StateOK /\ net \in Queues /\ answered \in [Id -> Seq(Imq)]
BY DEF TypeOK, StateOK, TransportOK, HistoryOK, Queues

\* What sending m does to the queues.
Sending(n, k, m) ==
  \/ net' = Send(net, n, k, m)
  \/ \E clients \in SUBSET Name : net' = FanOut(net, n, clients, m)
  \/ net' = [net EXCEPT ![<<n, k>>] = Append(@, m)]
  \/ UNCHANGED net

LEMMA SendingKeeps ==
  ASSUME NEW S, net \in [Link -> Seq(S)], conn \subseteq Link, NEW n \in Node, NEW k \in Node,
         NEW m \in S, Sending(n, k, m)
  PROVE  net' \in [Link -> Seq(S)]
<1>1. CASE net' = Send(net, n, k, m)
  BY <1>1, SendKeeps
<1>2. CASE \E clients \in SUBSET Name : net' = FanOut(net, n, clients, m)
  <2>1. PICK clients \in SUBSET Name : net' = FanOut(net, n, clients, m)
    BY <1>2
  <2> QED BY <2>1, FanOutKeeps
<1>3. CASE net' = [net EXCEPT ![<<n, k>>] = Append(@, m)]
  <2>1. Append(net[<<n, k>>], m) \in Seq(S)
    BY AppendProperties DEF Link
  <2> QED BY <1>3, <2>1
<1> QED BY <1>1, <1>2, <1>3 DEF Sending

IssueStep ==
  \E n, k \in Node, m \in Asked(NextId), cb, stored \in BOOLEAN :
    /\ Issue(n, k, m, cb, stored)
    /\ stored => cb
    /\ Sending(n, k, m)
    /\ UNCHANGED answered

LEMMA IssueTyped ==
  ASSUME StateOK, NEW n \in Node, NEW k \in Node, NEW m \in Imq, m.id = NextId,
         NEW cb \in BOOLEAN, NEW stored, Issue(n, k, m, cb, stored)
  PROVE  /\ NextId \in Id
         /\ issued' = Append(issued, [node |-> n, via |-> k, msg |-> m, cb |-> cb])
         /\ issued' \in Seq(CallRecord) /\ Len(issued') <= MaxId
         /\ messages' \in [Node -> SUBSET Id]
<1>1. Len(issued) \in Nat /\ [node |-> n, via |-> k, msg |-> m, cb |-> cb] \in CallRecord
  BY LenProperties DEF StateOK, CallRecord
<1>2. Len(issued') = Len(issued) + 1 /\ issued' \in Seq(CallRecord)
  BY <1>1, AppendProperties DEF Issue, StateOK
<1>3. NextId \in Id /\ Len(issued) + 1 <= MaxId
  BY <1>1, MaxIdAssumption DEF Issue, NextId, Id
<1> QED BY <1>2, <1>3 DEF Issue, StateOK, TablesOK

LEMMA IssueExtends ==
  ASSUME StateOK, NEW n \in Node, NEW k \in Node, NEW m \in Imq,
         NEW cb \in BOOLEAN, NEW stored, Issue(n, k, m, cb, stored)
  PROVE  /\ NextId \in Id /\ NextId \notin Known
         /\ Known' = Known \cup {NextId}
         /\ \A i \in Known : issued'[i] = issued[i]
         /\ issued'[NextId] = [node |-> n, via |-> k, msg |-> m, cb |-> cb]
<1> DEFINE r == [node |-> n, via |-> k, msg |-> m, cb |-> cb]
<1>1. r \in CallRecord /\ issued \in Seq(CallRecord) /\ Len(issued) \in Nat
  BY LenProperties DEF CallRecord, StateOK
<1>2. /\ Len(issued') = Len(issued) + 1
      /\ \A i \in 1 .. Len(issued) : issued'[i] = issued[i]
      /\ issued'[Len(issued) + 1] = r
  BY <1>1, AppendProperties DEF Issue
<1> QED BY <1>1, <1>2 DEF Issue, NextId, Known

LEMMA CallSteps ==
  ASSUME StateOK, NEW n \in Node, Call(n)
  PROVE  IssueStep
<1>0. name[n] \in Name /\ Program[n] \in ProgramType /\ TRUE \in BOOLEAN /\ FALSE \in BOOLEAN
  BY ProgramType_ DEF StateOK, TablesOK
<1>1. PICK path \in Path, cb \in Program[n].callbacks :
        \/ MultLocal(n, path, cb)
        \/ QueueLocal(n, path, cb)
        \/ \E k \in Node :
             \/ \E to \in Program[n].to : Req(n, k, to, path, cb) \/ Ready(n, k, to, path, cb)
             \/ \E handler \in BOOLEAN : Sub(n, k, path, handler, cb)
             \/ UnSub(n, k, path, cb)
             \/ Mult(n, k, path, cb)
             \/ Queue(n, k, path, cb)
  BY DEF Call
<1>2. cb \in BOOLEAN /\ Program[n].to \subseteq Name \cup {NoName}
  BY <1>0 DEF ProgramType
<1>3. NextId \in Id /\ UNCHANGED answered
  BY <1>1 DEF MultLocal, QueueLocal, Req, Ready, Sub, UnSub, Mult, Queue, Issue
<1>4. ASSUME NEW k \in Node, NEW m \in Asked(NextId), NEW stored \in {cb, FALSE},
             Issue(n, k, m, cb, stored), Sending(n, k, m)
      PROVE  IssueStep
  BY <1>2, <1>3, <1>4 DEF IssueStep
<1>5. ASSUME NEW to \in Name \cup {NoName}
      PROVE  /\ ReadyMsg(NextId, name[n], to, path) \in Asked(NextId)
             /\ ReqMsg(NextId, name[n], to, path) \in Asked(NextId)
             /\ SubMsg(NextId, name[n], path) \in Asked(NextId)
             /\ UnSubMsg(NextId, name[n], path) \in Asked(NextId)
             /\ \A broker \in BOOLEAN : /\ MultMsg(NextId, name[n], broker, path) \in Asked(NextId)
                                        /\ QueueMsg(NextId, name[n], broker, path) \in Asked(NextId)
  BY <1>0, <1>3, RequestsAsked
<1>6. CASE MultLocal(n, path, cb)
  <2>1. Subscribers(subscribers[n], path) \in SUBSET Name
    BY SubscribersTyped DEF StateOK, TablesOK
  <2> QED BY <1>0, <1>4, <1>5, <1>6, <2>1 DEF MultLocal, Sending
<1>7. CASE QueueLocal(n, path, cb)
  <2> DEFINE m == QueueMsg(NextId, name[n], FALSE, path)
  <2>1. PICK o \in QueueOutcomes(subscribers[n], path) : net' = FanOut(net, n, o.to, m)
    BY <1>7 DEF QueueLocal
  <2>2. o.to \in SUBSET Name
    BY QueueOutcomesTyped DEF StateOK, TablesOK
  <2>3. Issue(n, n, m, cb, FALSE) /\ m \in Asked(NextId)
    BY <1>0, <1>5, <1>7 DEF QueueLocal
  <2> QED BY <1>4, <2>1, <2>2, <2>3 DEF Sending
<1>8. ASSUME NEW k \in Node, NEW to \in Program[n].to,
             Req(n, k, to, path, cb) \/ Ready(n, k, to, path, cb)
      PROVE  IssueStep
  BY <1>2, <1>4, <1>5, <1>8 DEF Req, Ready, Sending
<1>9. ASSUME NEW k \in Node, NEW handler \in BOOLEAN,
             Sub(n, k, path, handler, cb) \/ UnSub(n, k, path, cb)
      PROVE  IssueStep
  BY <1>4, <1>5, <1>9 DEF Sub, UnSub, Sending
<1>10. ASSUME NEW k \in Node, Mult(n, k, path, cb) \/ Queue(n, k, path, cb)
       PROVE  IssueStep
  BY <1>0, <1>4, <1>5, <1>10 DEF Mult, Queue, Sending
<1> QED BY <1>1, <1>6, <1>7, <1>8, <1>9, <1>10

LEMMA ConnectSteps ==
  ASSUME StateOK, NEW n \in Node, NEW k \in Node, Connect(n, k)
  PROVE  IssueStep \/ UNCHANGED <<messages, issued, answered, net>>
<1>1. CASE Syn(k, n, conn \cup {<<n, k>>, <<k, n>>})
  <2>1. NextId \in Id /\ name[k] \in Name
    BY <1>1 DEF Syn, Issue, StateOK, TablesOK
  <2>2. SynMsg(NextId, name[k]) \in Asked(NextId)
    BY <2>1, SynMsgAsked
  <2> QED BY <1>1, <2>2 DEF Connect, Syn, IssueStep, Sending
<1> QED BY <1>1 DEF Connect

(***************************************************************************)
(* The types of everything but the messages, whatever is on the way.       *)
(***************************************************************************)
LEMMA CallState ==
  ASSUME StateOK, NEW n \in Node, Call(n)
  PROVE  StateOK'
<1> USE DEF tables, transport
<1>1. PICK path \in Path, cb \in Program[n].callbacks :
        \/ MultLocal(n, path, cb)
        \/ QueueLocal(n, path, cb)
        \/ \E k \in Node :
             \/ \E to \in Program[n].to : Req(n, k, to, path, cb) \/ Ready(n, k, to, path, cb)
             \/ \E handler \in BOOLEAN : Sub(n, k, path, handler, cb)
             \/ UnSub(n, k, path, cb)
             \/ Mult(n, k, path, cb)
             \/ Queue(n, k, path, cb)
  BY DEF Call
<1>2. /\ issued' \in Seq(CallRecord) /\ Len(issued') <= MaxId
      /\ messages' \in [Node -> SUBSET Id]
  <2>1. PICK x, k \in Node, m \in Imq, b, stored \in BOOLEAN : Issue(x, k, m, b, stored) /\ m.id = NextId
    BY CallSteps DEF IssueStep, Asked
  <2> QED BY <2>1, IssueTyped
<1>3. handlers' \in [Node -> SUBSET Path]
  <2>1. handlers' \in {handlers, [handlers EXCEPT ![n] = @ \cup {path}],
                       [handlers EXCEPT ![n] = @ \ {path}]}
    BY <1>1 DEF MultLocal, QueueLocal, Req, Ready, Sub, UnSub, Mult, Queue
  <2>2. handlers \in [Node -> SUBSET Path]
    BY DEF StateOK, TablesOK
  <2> QED BY <2>1, <2>2
<1>4. DOMAIN subscribers' = Node /\ \A x \in Node : IsTable(subscribers'[x])
  <2>1. DOMAIN subscribers = Node /\ \A x \in Node : IsTable(subscribers[x])
    BY DEF StateOK, TablesOK
  <2>2. CASE QueueLocal(n, path, cb)
    <3>1. PICK o \in QueueOutcomes(subscribers[n], path) :
            subscribers' = [subscribers EXCEPT ![n] = o.table]
      BY <2>2 DEF QueueLocal
    <3> QED BY <2>1, <3>1, QueueOutcomesTyped
  <2>3. CASE UNCHANGED subscribers
    BY <2>1, <2>3
  <2> QED BY <1>1, <2>2, <2>3 DEF MultLocal, Req, Ready, Sub, UnSub, Mult, Queue
<1>5. UNCHANGED <<name, brokerHandler, relayHandler, webSockets, conn, faults, handled>>
  BY <1>1 DEF MultLocal, QueueLocal, Req, Ready, Sub, UnSub, Mult, Queue
<1> QED BY <1>2, <1>3, <1>4, <1>5 DEF StateOK, TablesOK

LEMMA ConfigureState ==
  ASSUME StateOK, NEW n \in Node, Configure(n)
  PROVE  StateOK' /\ UNCHANGED <<net, issued, answered>>
<1> USE DEF tables, transport, untabled
<1>1. ASSUME NEW new \in Name, SetName(n, new) PROVE StateOK'
  BY <1>1 DEF SetName, StateOK, TablesOK, IsTable, PartialFunction
<1>2. ASSUME NEW path \in Path, SetHandler(n, path) \/ DelHandler(n, path) PROVE StateOK'
  <2>1. handlers \in [Node -> SUBSET Path]
    BY DEF StateOK, TablesOK
  <2>2. handlers' \in [Node -> SUBSET Path]
    BY <1>2, <2>1 DEF SetHandler, DelHandler
  <2> QED BY <1>2, <2>2 DEF SetHandler, DelHandler, StateOK, TablesOK, IsTable, PartialFunction
<1>3. ASSUME NEW set \in BOOLEAN, SetBrokerHandler(n, set) \/ SetRelayHandler(n, set)
      PROVE  StateOK'
  BY <1>3 DEF SetBrokerHandler, SetRelayHandler, StateOK, TablesOK, IsTable, PartialFunction
<1>4. ASSUME NEW client \in Name, NEW path \in Path,
             CallAddSubscriber(n, client, path) \/ CallDelSubscriber(n, client, path)
      PROVE  StateOK'
  <2>1. /\ IsTable(AddSubscriber(subscribers[n], client, path))
        /\ IsTable(DelSubscriber(subscribers[n], client, path))
    BY AddSubscriberTyped, DelSubscriberTyped DEF StateOK, TablesOK
  <2>2. DOMAIN subscribers' = Node /\ \A x \in Node : IsTable(subscribers'[x])
    BY <1>4, <2>1 DEF CallAddSubscriber, CallDelSubscriber, StateOK, TablesOK
  <2> QED BY <1>4, <2>2 DEF CallAddSubscriber, CallDelSubscriber, StateOK, TablesOK, IsTable,
                            PartialFunction
<1>5. ASSUME NEW i \in messages[n], DelMessage(n, i) PROVE StateOK'
  BY <1>5 DEF DelMessage, StateOK, TablesOK, IsTable, PartialFunction
<1>6. UNCHANGED <<net, issued, answered>>
  BY DEF Configure, SetName, SetHandler, DelHandler, SetBrokerHandler, SetRelayHandler,
         CallAddSubscriber, CallDelSubscriber, DelMessage
<1> QED BY <1>1, <1>2, <1>3, <1>4, <1>5, <1>6 DEF Configure

\* What waits in messages is the process's own request: the part of
\* PendingUnanswered that is left when callbacks may throw.
PendingOwned == \A n \in Node : \A i \in messages[n] : i \in Known /\ issued[i].node = n

\* What the tables take from a message: the sender of a command, or of the
\* answer to a Syn, is somebody.
Acceptable(m) ==
  /\ m.id \in Id /\ m.path \in Path \cup {NoPath}
  /\ m.type = "CMD" \/ (m.id \in Known /\ Request(m.id).cmd = "SYN") => m.from \in Name

LEMMA ImqAcceptable ==
  ASSUME NEW m \in Imq
  PROVE  Acceptable(m)
BY DEF Acceptable, Imq

\* What RecieveMessage does to the callbacks.
LEMMA RecieveMessageAnswers ==
  ASSUME NEW k \in Node, NEW n \in Node, RecieveMessage(k, n)
  PROVE  /\ Waiting(k, n) /\ UNCHANGED issued
         /\ \/ UNCHANGED answered
            \/ LET m == Received(k, n)
               IN  m.sts # "REQ" /\ answered' = [answered EXCEPT ![m.id] = Append(@, m)]
BY DEF RecieveMessage, RecvBroker, RecvNotBroker, RecvRelay, RecvNotRelay, RecvCmd,
       RecvRequest, RecvUnhandled, RecvReply, RecvStrayReply

LEMMA RecieveMessageState ==
  ASSUME StateOK, PendingOwned, NEW k \in Node, NEW n \in Node, RecieveMessage(k, n),
         Acceptable(Received(k, n))
  PROVE  StateOK'
<1> USE DEF tables, transport
<1> DEFINE m == Received(k, n)
<1>1. m.path \in Path \cup {NoPath} /\ m.id \in Id /\ (m.type = "CMD" => m.from \in Name)
  BY DEF Acceptable
<1>2. ASSUME UNCHANGED <<name, handlers, brokerHandler, relayHandler, subscribers, messages,
                         webSockets, conn, faults, issued, handled>>
      PROVE  StateOK'
  BY <1>2 DEF StateOK, TablesOK, IsTable, PartialFunction
<1>3. CASE RecvBroker(k, n)
  <2>1. CASE UNCHANGED subscribers
    BY <1>2, <1>3, <2>1 DEF RecvBroker
  <2>2. CASE \E o \in QueueOutcomes(subscribers[n], m.path) :
               subscribers' = [subscribers EXCEPT ![n] = o.table]
    <3>1. PICK o \in QueueOutcomes(subscribers[n], m.path) :
            subscribers' = [subscribers EXCEPT ![n] = o.table]
      BY <2>2
    <3>2. IsTable(o.table)
      BY <1>1, QueueOutcomesTyped DEF StateOK, TablesOK
    <3>3. DOMAIN subscribers' = Node /\ \A x \in Node : IsTable(subscribers'[x])
      BY <3>1, <3>2 DEF StateOK, TablesOK
    <3> QED BY <1>3, <3>3 DEF RecvBroker, StateOK, TablesOK, IsTable, PartialFunction
  <2> QED BY <1>3, <2>1, <2>2 DEF RecvBroker
<1>4. CASE RecvNotBroker(k, n) \/ RecvRelay(k, n) \/ RecvNotRelay(k, n) \/ RecvUnhandled(k, n)
             \/ RecvStrayReply(k, n)
  BY <1>2, <1>4 DEF RecvNotBroker, RecvRelay, RecvNotRelay, RecvUnhandled, RecvStrayReply
<1>5. CASE RecvCmd(k, n)
  <2>1. m.from \in Name
    BY <1>1, <1>5 DEF RecvCmd
  <2>2. /\ IsTable(AddSubscriber(subscribers[n], m.from, m.path))
        /\ IsTable(DelSubscriber(subscribers[n], m.from, m.path))
    BY <1>1, <2>1, AddSubscriberTyped, DelSubscriberTyped DEF StateOK, TablesOK
  <2>3. DOMAIN subscribers' = Node /\ \A x \in Node : IsTable(subscribers'[x])
    BY <1>5, <2>2 DEF RecvCmd, StateOK, TablesOK
  <2> QED BY <1>5, <2>3 DEF RecvCmd, StateOK, TablesOK, IsTable, PartialFunction
<1>6. CASE RecvRequest(k, n)
  <2>1. handled' \in [Id -> [Node -> Nat]]
    BY <1>1, <1>6 DEF RecvRequest, StateOK
  <2> QED BY <1>6, <2>1 DEF RecvRequest, StateOK, TablesOK, IsTable, PartialFunction
<1>7. CASE RecvReply(k, n)
  <2> DEFINE c == issued[m.id]
  <2>1. m.id \in messages[n]
    BY <1>7 DEF RecvReply
  <2>2. c \in CallRecord /\ (c.msg.cmd = "SYN" => m.from \in Name)
    <3>1. m.id \in 1 .. Len(issued) /\ m.id \in Known
      BY <2>1 DEF PendingOwned, Known
    <3>2. c \in CallRecord
      BY <3>1, ElementOfSeq DEF StateOK
    <3> QED BY <3>1, <3>2 DEF Acceptable, Request
  <2>3. /\ DOMAIN webSockets' = Node
        /\ \A x \in Node : PartialFunction(webSockets'[x], Name, Node \cup {Closed})
    BY <1>7, <2>2 DEF RecvReply, StateOK, TablesOK, PartialFunction, CallRecord
  <2>4. messages' \in [Node -> SUBSET Id]
    BY <1>7 DEF RecvReply, StateOK, TablesOK
  <2> QED BY <1>7, <2>3, <2>4 DEF RecvReply, StateOK, TablesOK, IsTable
<1> QED BY <1>3, <1>4, <1>5, <1>6, <1>7 DEF RecieveMessage

LEMMA ConnectState ==
  ASSUME StateOK, NEW n \in Node, NEW k \in Node, Connect(n, k)
  PROVE  StateOK'
<1> USE DEF tables
<1>1. conn \cup {<<n, k>>, <<k, n>>} \subseteq Link
  BY DEF StateOK, Link
<1>2. conn' \subseteq Link
  BY <1>1 DEF Connect, Syn
<1>3. /\ issued' \in Seq(CallRecord) /\ Len(issued') <= MaxId
      /\ messages' \in [Node -> SUBSET Id]
  <2>1. CASE IssueStep
    <3>1. PICK x, y \in Node, m \in Imq, cb, stored \in BOOLEAN :
            Issue(x, y, m, cb, stored) /\ m.id = NextId
      BY <2>1 DEF IssueStep, Asked
    <3> QED BY <3>1, IssueTyped
  <2>2. CASE UNCHANGED <<messages, issued>>
    BY <2>2 DEF StateOK, TablesOK
  <2> QED BY <2>1, <2>2, ConnectSteps
<1> QED BY <1>2, <1>3 DEF Connect, StateOK, TablesOK, IsTable, PartialFunction

LEMMA DisconnectState ==
  ASSUME StateOK, NEW n \in Node, NEW k \in Node, Disconnect(n, k)
  PROVE  StateOK' /\ UNCHANGED <<messages, issued, answered>>
<1> USE DEF tables
<1>1. /\ DOMAIN webSockets' = Node
      /\ \A x \in Node : PartialFunction(webSockets'[x], Name, Node \cup {Closed})
  BY DEF Disconnect, StateOK, TablesOK, PartialFunction
<1>2. conn' \subseteq Link /\ faults' \in 0 .. MaxFaults
  BY FaultAssumption DEF Disconnect, StateOK
<1> QED BY <1>1, <1>2 DEF Disconnect, StateOK, TablesOK, IsTable

LEMMA DisturbState ==
  ASSUME StateOK, NEW l \in Link, Disturb(l)
  PROVE  StateOK' /\ UNCHANGED <<messages, issued, answered>>
<1> USE DEF tables
<1>1. faults' \in 0 .. MaxFaults
  BY FaultAssumption DEF Disturb, StateOK
<1> QED BY <1>1 DEF Disturb, StateOK, TablesOK, IsTable, PartialFunction

(***************************************************************************)
(* Type correctness.                                                       *)
(***************************************************************************)
\* What RecieveMessage sends.
LEMMA RecieveMessageNet ==
  ASSUME StateOK, NEW S, net \in [Link -> Seq(S)], NEW k \in Node, NEW n \in Node,
         RecieveMessage(k, n), Received(k, n).path \in Path \cup {NoPath},
         Err(name[n], Received(k, n)) \in S,
         Received(k, n).broker => ReplayMsg(name[n], Received(k, n)) \in S,
         ForMe(n, Received(k, n)) /\ Received(k, n).sts = "REQ" =>
           Success(name[n], Received(k, n)) \in S /\ Rep(name[n], Received(k, n)) \in S
  PROVE  net' \in [Link -> Seq(S)]
<1> DEFINE m == Received(k, n)
<1>0. Waiting(k, n)
  BY RecieveMessageAnswers
<1>1. m \in S /\ Rest(k, n) \in [Link -> Seq(S)] /\ conn \subseteq Link
  BY <1>0, RestKeeps DEF StateOK
<1>2. ASSUME NEW r \in S, NEW x PROVE Send(Rest(k, n), n, x, r) \in [Link -> Seq(S)]
  BY <1>1, SendKeeps
<1>3. CASE RecvBroker(k, n)
  <2> DEFINE r == ReplayMsg(name[n], m)
  <2>1. r \in S
    BY <1>3 DEF RecvBroker, ForBroker
  <2>2. \E clients \in SUBSET Name : net' = FanOut(Rest(k, n), n, clients, r)
    <3>1. Subscribers(subscribers[n], m.path) \in SUBSET Name
      BY SubscribersTyped DEF StateOK, TablesOK
    <3>2. \A o \in QueueOutcomes(subscribers[n], m.path) : o.to \in SUBSET Name
      BY QueueOutcomesTyped DEF StateOK, TablesOK
    <3> QED BY <1>3, <3>1, <3>2 DEF RecvBroker
  <2>3. PICK clients \in SUBSET Name : net' = FanOut(Rest(k, n), n, clients, r)
    BY <2>2
  <2>4. FanOut(Rest(k, n), n, clients, r) \in [Link -> Seq(S)]
    <3> HIDE DEF r, m
    <3> QED BY <1>1, <2>1, FanOutKeeps
  <2> QED BY <2>3, <2>4
<1>4. CASE RecvNotBroker(k, n) \/ RecvRelay(k, n) \/ RecvNotRelay(k, n)
  BY <1>1, <1>2, <1>4 DEF RecvNotBroker, RecvRelay, RecvNotRelay
<1>5. CASE RecvCmd(k, n)
  BY <1>1, <1>2, <1>5 DEF RecvCmd
<1>6. CASE RecvRequest(k, n)
  <2>1. \A r \in HandlerReplies(n, m) : r \in S
    BY <1>6 DEF HandlerReplies, RecvRequest
  <2> QED BY <1>1, <1>2, <1>6, <2>1 DEF RecvRequest
<1>7. CASE RecvUnhandled(k, n) \/ RecvReply(k, n) \/ RecvStrayReply(k, n)
  BY <1>1, <1>7 DEF RecvUnhandled, RecvReply, RecvStrayReply
<1> QED BY <1>3, <1>4, <1>5, <1>6, <1>7 DEF RecieveMessage

\* What main leaves in the tables.
LEMMA EnrolledTyped ==
  ASSUME NEW n \in Node
  PROVE  IsTable(Enrolled(n)) /\ \A p \in DOMAIN Enrolled(n) : DOMAIN Enrolled(n)[p] # {}
<1>1. Program[n].standing \in SUBSET Name
  BY ProgramType_ DEF ProgramType
<1>2. DOMAIN Enrolled(n) = {q \in Path : Program[n].standing # {}}
  BY DEF Enrolled
<1>3. ASSUME NEW p \in DOMAIN Enrolled(n)
      PROVE  /\ Enrolled(n)[p] = [c \in Program[n].standing |-> FALSE]
             /\ Program[n].standing # {}
  BY <1>2, <1>3 DEF Enrolled
<1>4. ASSUME NEW p \in DOMAIN Enrolled(n)
      PROVE  PartialFunction(Enrolled(n)[p], Name, BOOLEAN) /\ DOMAIN Enrolled(n)[p] # {}
  BY <1>1, <1>3, <1>4 DEF PartialFunction
<1> QED BY <1>2, <1>4 DEF IsTable

LEMMA InitState == Init => StateOK
<1> SUFFICES ASSUME Init PROVE StateOK
  OBVIOUS
<1>1. ASSUME NEW n \in Node
      PROVE  /\ Program[n].name \in Name /\ Program[n].handlers \in SUBSET Path
             /\ Program[n].broker \in BOOLEAN /\ Program[n].relay \in BOOLEAN
  BY ProgramType_ DEF ProgramType
<1>2. TablesOK
  <2>1. ASSUME NEW n \in Node PROVE IsTable(subscribers[n])
    BY <2>1, EnrolledTyped DEF Init
  <2> QED BY <1>1, <2>1 DEF Init, TablesOK, IsTable, PartialFunction
<1> QED BY <1>2, FaultAssumption, MaxIdAssumption, EmptySeq DEF Init, StateOK

LEMMA InitTyped == Init => TypeOK
BY InitState, TypeParts, EmptySeq DEF Init, Queues

LEMMA IssueStepTyped ==
  ASSUME TypeOK, IssueStep
  PROVE  net' \in Queues /\ answered' \in [Id -> Seq(Imq)]
<1>1. PICK n, k \in Node, m \in Imq : Sending(n, k, m) /\ UNCHANGED answered
  BY DEF IssueStep, Asked
<1> QED BY <1>1, SendingKeeps DEF TypeOK, TransportOK, HistoryOK, Queues

LEMMA RecieveMessageTyped ==
  ASSUME TypeOK, PendingOwned, NEW k \in Node, NEW n \in Node, RecieveMessage(k, n)
  PROVE  TypeOK'
<1> DEFINE m == Received(k, n)
<1>1. StateOK /\ Waiting(k, n)
  BY TypeParts, RecieveMessageAnswers
<1>2. m \in Imq /\ name[n] \in Name
  BY <1>1, RestTyped DEF TypeOK, TablesOK
<1>3. StateOK'
  BY <1>1, <1>2, ImqAcceptable, RecieveMessageState
<1>4. net' \in Queues
  <2>1. /\ Err(name[n], m) \in Imq /\ Success(name[n], m) \in Imq /\ Rep(name[n], m) \in Imq
        /\ ReplayMsg(name[n], m) \in Imq
    BY <1>2, RepliesTyped
  <2>2. m.path \in Path \cup {NoPath} /\ net \in [Link -> Seq(Imq)]
    BY <1>2 DEF Imq, TypeOK, TransportOK
  <2>3. net' \in [Link -> Seq(Imq)]
    BY <1>1, <2>1, <2>2, RecieveMessageNet
  <2> QED BY <2>3 DEF Queues
<1>5. answered' \in [Id -> Seq(Imq)]
  <2>1. m.id \in Id
    BY <1>2 DEF Imq
  <2>2. answered \in [Id -> Seq(Imq)]
    BY TypeParts
  <2>3. Append(answered[m.id], m) \in Seq(Imq)
    BY <1>2, <2>1, <2>2, AppendProperties
  <2>4. UNCHANGED answered \/ answered' = [answered EXCEPT ![m.id] = Append(@, m)]
    BY RecieveMessageAnswers
  <2> QED BY <2>2, <2>3, <2>4
<1> QED BY <1>3, <1>4, <1>5 DEF TypeOK, StateOK, TransportOK, HistoryOK, Queues

\* The steps that receive nothing.
LEMMA OtherStepsTyped ==
  ASSUME TypeOK,
         \/ \E n \in Node : Call(n) \/ Configure(n)
         \/ \E n, k \in Node : Connect(n, k) \/ Disconnect(n, k)
         \/ \E l \in Link : Disturb(l)
  PROVE  TypeOK'
<1> DEFINE Rest1 == net' \in Queues /\ answered' \in [Id -> Seq(Imq)]
<1>1. StateOK /\ net \in Queues /\ answered \in [Id -> Seq(Imq)]
  BY TypeParts
<1>2. ASSUME NEW n \in Node, Call(n) PROVE StateOK' /\ Rest1
  BY <1>1, <1>2, CallSteps, CallState, IssueStepTyped
<1>3. ASSUME NEW n \in Node, Configure(n) PROVE StateOK' /\ Rest1
  BY <1>1, <1>3, ConfigureState
<1>4. ASSUME NEW n \in Node, NEW k \in Node, Connect(n, k) PROVE StateOK' /\ Rest1
  BY <1>1, <1>4, ConnectSteps, ConnectState, IssueStepTyped
<1>5. ASSUME NEW n \in Node, NEW k \in Node, Disconnect(n, k) PROVE StateOK' /\ Rest1
  BY <1>1, <1>5, DisconnectState, DisconnectKeeps DEF Queues
<1>6. ASSUME NEW l \in Link, Disturb(l) PROVE StateOK' /\ Rest1
  BY <1>1, <1>6, DisturbState, DisturbKeeps DEF Queues
<1>7. StateOK' /\ Rest1
  BY <1>2, <1>3, <1>4, <1>5, <1>6
<1> QED BY <1>7 DEF TypeOK, StateOK, TransportOK, HistoryOK, Queues

LEMMA NextTyped ==
  ASSUME TypeOK, PendingUnanswered, [Next]_vars
  PROVE  TypeOK'
<1>1. CASE UNCHANGED vars
  BY <1>1 DEF vars, tables, transport, TypeOK, TablesOK, TransportOK, HistoryOK, IsTable,
              PartialFunction
<1>2. CASE Next
  <2>1. PendingOwned
    BY DEF PendingUnanswered, PendingOwned
  <2> QED BY <1>2, <2>1, RecieveMessageTyped, OtherStepsTyped DEF Next
<1> QED BY <1>1, <1>2

(***************************************************************************)
(* Callbacks.  Only three kinds of steps touch messages and the history of *)
(* identifiers; the invariant and the refinement look at these alone.      *)
(***************************************************************************)
AnswerStep ==
  \E n \in Node : \E m \in Imq :
    /\ m.id \in messages[n]
    /\ answered' = [answered EXCEPT ![m.id] = Append(@, m)]
    /\ messages' = [messages EXCEPT ![n] = @ \ {m.id}]
    /\ UNCHANGED issued

GiveUpStep ==
  \E n \in Node : \E i \in messages[n] :
    /\ messages' = [messages EXCEPT ![n] = @ \ {i}]
    /\ UNCHANGED <<issued, answered>>

LEMMA StepKinds ==
  ASSUME TypeOK, [Next]_vars
  PROVE  \/ IssueStep
         \/ AnswerStep
         \/ GiveUpStep
         \/ UNCHANGED <<messages, issued, answered>>
<1>1. CASE UNCHANGED vars
  BY <1>1 DEF vars
<1>2. ASSUME NEW n \in Node, Call(n) PROVE IssueStep
  BY <1>2, CallSteps, TypeParts
<1>3. ASSUME NEW n \in Node, Configure(n)
      PROVE  GiveUpStep \/ UNCHANGED <<messages, issued, answered>>
  BY <1>3 DEF Configure, SetName, SetHandler, DelHandler, SetBrokerHandler, SetRelayHandler,
              CallAddSubscriber, CallDelSubscriber, DelMessage, untabled, GiveUpStep
<1>4. ASSUME NEW n \in Node, NEW k \in Node, RecieveMessage(k, n)
      PROVE  AnswerStep \/ UNCHANGED <<messages, issued, answered>>
  <2>1. CASE RecvReply(k, n)
    <3>1. Received(k, n) \in Imq
      BY <2>1, RestTyped DEF RecvReply, TypeOK
    <3> QED BY <2>1, <3>1 DEF RecvReply, AnswerStep
  <2> QED BY <1>4, <2>1 DEF RecieveMessage, RecvBroker, RecvNotBroker, RecvRelay, RecvNotRelay,
                            RecvCmd, RecvRequest, RecvUnhandled, RecvStrayReply
<1>5. ASSUME NEW n \in Node, NEW k \in Node, Connect(n, k)
      PROVE  IssueStep \/ UNCHANGED <<messages, issued, answered>>
  BY <1>5, ConnectSteps, TypeParts
<1>6. ASSUME NEW n \in Node, NEW k \in Node, Disconnect(n, k)
      PROVE  UNCHANGED <<messages, issued, answered>>
  BY <1>6 DEF Disconnect
<1>7. ASSUME NEW l \in Link, Disturb(l)
      PROVE  UNCHANGED <<messages, issued, answered>>
  BY <1>7 DEF Disturb
<1> QED BY <1>1, <1>2, <1>3, <1>4, <1>5, <1>6, <1>7 DEF Next

CallbackInv == PendingUnanswered /\ FreshUnanswered /\ CallbackAtMostOnce

LEMMA CallbackStep ==
  ASSUME TypeOK, TypeOK', CallbackInv, [Next]_vars
  PROVE  CallbackInv'
<1>1. CASE IssueStep
  <2>1. PICK n, k \in Node, m \in Imq, cb, stored \in BOOLEAN :
          /\ Issue(n, k, m, cb, stored) /\ m.id = NextId /\ (stored => cb)
          /\ UNCHANGED answered
    BY <1>1 DEF IssueStep, Asked
  <2>2. /\ NextId \in Id /\ NextId \notin Known /\ Known' = Known \cup {NextId}
        /\ \A i \in Known : issued'[i] = issued[i]
        /\ issued'[NextId] = [node |-> n, via |-> k, msg |-> m, cb |-> cb]
    BY <2>1, IssueExtends, TypeParts
  <2>3. answered[NextId] = << >>
    BY <2>2 DEF CallbackInv, FreshUnanswered
  <2>4. PendingUnanswered'
    <3> SUFFICES ASSUME NEW x \in Node, NEW i \in messages'[x]
                 PROVE  /\ i \in Known' /\ issued'[i].node = x
                        /\ issued'[i].cb /\ answered'[i] = << >>
      BY DEF PendingUnanswered
    <3>1. CASE i \in messages[x]
      BY <2>1, <2>2, <3>1 DEF CallbackInv, PendingUnanswered
    <3>2. CASE i \notin messages[x]
      <4>1. x = n /\ i = NextId /\ stored
        BY <2>1, <3>2 DEF Issue, TypeOK, TablesOK
      <4> QED BY <2>1, <2>2, <2>3, <4>1
    <3> QED BY <3>1, <3>2
  <2> QED BY <2>1, <2>2, <2>4 DEF CallbackInv, FreshUnanswered, CallbackAtMostOnce
<1>2. CASE AnswerStep
  <2>1. PICK n \in Node, m \in Imq :
          /\ m.id \in messages[n]
          /\ answered' = [answered EXCEPT ![m.id] = Append(@, m)]
          /\ messages' = [messages EXCEPT ![n] = @ \ {m.id}]
          /\ UNCHANGED issued
    BY <1>2 DEF AnswerStep
  <2>2. /\ m.id \in Known /\ issued[m.id].node = n /\ answered[m.id] = << >> /\ m.id \in Id
        /\ Known' = Known
    BY <2>1 DEF CallbackInv, PendingUnanswered, Known, Imq
  <2>3. PendingUnanswered'
    BY <2>1, <2>2 DEF CallbackInv, PendingUnanswered, TypeOK, TablesOK, HistoryOK
  <2>4. FreshUnanswered'
    BY <2>1, <2>2 DEF CallbackInv, FreshUnanswered, TypeOK, HistoryOK
  <2>5. CallbackAtMostOnce'
    <3>1. Len(answered'[m.id]) = 1
      <4>1. << >> \in Seq(Imq) /\ Len(<< >>) = 0
        OBVIOUS
      <4>2. Len(Append(<< >>, m)) = 1
        BY <4>1, AppendProperties
      <4>3. answered'[m.id] = Append(answered[m.id], m)
        BY <2>1, <2>2 DEF TypeOK, HistoryOK
      <4> QED BY <2>2, <4>2, <4>3
    <3>2. \A i \in Id : i # m.id => answered'[i] = answered[i]
      BY <2>1 DEF TypeOK, HistoryOK
    <3> SUFFICES ASSUME NEW i \in Id PROVE Len(answered'[i]) <= 1
      BY DEF CallbackAtMostOnce
    <3>3. CASE i = m.id
      <4>1. Len(answered'[i]) = 1
        BY <3>1, <3>3
      <4> QED BY <4>1, 1 <= 1
    <3>4. CASE i # m.id
      BY <3>2, <3>4 DEF CallbackInv, CallbackAtMostOnce
    <3> QED BY <3>3, <3>4
  <2> QED BY <2>3, <2>4, <2>5 DEF CallbackInv
<1>3. CASE GiveUpStep
  BY <1>3 DEF GiveUpStep, CallbackInv, PendingUnanswered, FreshUnanswered, CallbackAtMostOnce,
              Known, TypeOK, TablesOK
<1>4. CASE UNCHANGED <<messages, issued, answered>>
  BY <1>4 DEF CallbackInv, PendingUnanswered, FreshUnanswered, CallbackAtMostOnce, Known
<1> QED BY <1>1, <1>2, <1>3, <1>4, StepKinds

IInv == TypeOK /\ CallbackInv

LEMMA InitInv == Init => IInv
<1> SUFFICES ASSUME Init PROVE CallbackInv
  BY InitTyped DEF IInv
<1> QED BY DEF Init, CallbackInv, PendingUnanswered, FreshUnanswered, CallbackAtMostOnce, Known

LEMMA NextInv == IInv /\ [Next]_vars => IInv'
BY NextTyped, CallbackStep DEF IInv, CallbackInv

\* IInv holds in every state.
THEOREM Invariance == Spec => []IInv
BY InitInv, NextInv, PTL DEF Spec

\* Every variable keeps its type.
THEOREM TypeCorrect == Spec => []TypeOK
<1>1. IInv => TypeOK
  BY DEF IInv
<1> QED BY <1>1, Invariance, PTL

\* Whatever a transport repeats and however late answers come, a callback
\* is run at most once.
THEOREM AtMostOnce == Spec => []CallbackAtMostOnce
<1>1. IInv => CallbackAtMostOnce
  BY DEF IInv, CallbackInv
<1> QED BY <1>1, Invariance, PTL

\* What waits in messages is the process's own request, not yet answered.
THEOREM Pending == Spec => []PendingUnanswered
<1>1. IInv => PendingUnanswered
  BY DEF IInv, CallbackInv
<1> QED BY <1>1, Invariance, PTL

(***************************************************************************)
(* Refinement.                                                             *)
(***************************************************************************)
LEMMA PhaseValue ==
  ASSUME NEW i \in Id
  PROVE  /\ i \notin Known => phase[i] = "unused"
         /\ i \in Known /\ (\E n \in Node : i \in messages[n]) => phase[i] = "pending"
         /\ i \in Known /\ (\A n \in Node : i \notin messages[n]) =>
              phase[i] = IF answered[i] = << >> THEN "closed" ELSE "answered"
BY DEF phase

LEMMA PhaseChange ==
  ASSUME NEW j \in Id, NEW v,
         \A i \in Id \ {j} : phase'[i] = phase[i], phase'[j] = v
  PROVE  phase' = [phase EXCEPT ![j] = v]
BY DEF phase

LEMMA PhaseKept ==
  ASSUME NEW i \in Id, i \in Known' <=> i \in Known, answered'[i] = answered[i],
         \A n \in Node : i \in messages'[n] <=> i \in messages[n]
  PROVE  phase'[i] = phase[i]
BY DEF phase

LEMMA IssueImplements ==
  ASSUME IInv, TypeOK', IssueStep
  PROVE  R!Next
<1>1. PICK n, k \in Node, m \in Imq, cb, stored \in BOOLEAN :
        /\ Issue(n, k, m, cb, stored) /\ m.id = NextId /\ UNCHANGED answered
  BY DEF IssueStep, Asked
<1>2. /\ NextId \in Id /\ NextId \notin Known /\ Known' = Known \cup {NextId}
  BY <1>1, IssueExtends, TypeParts DEF IInv
<1>3. \A i \in Id, x \in Node : i # NextId => (i \in messages'[x] <=> i \in messages[x])
  BY <1>1 DEF Issue, IInv, TypeOK, TablesOK
<1>4. \A i \in Id \ {NextId} : phase'[i] = phase[i]
  BY <1>1, <1>2, <1>3, PhaseKept
<1>5. \A x \in Node : NextId \notin messages[x]
  BY <1>2 DEF IInv, CallbackInv, PendingUnanswered
<1>6. phase[NextId] = "unused"
  BY <1>2, PhaseValue
<1>7. UNCHANGED runs
  BY <1>1 DEF runs
<1>8. CASE stored
  <2>1. NextId \in messages'[n]
    BY <1>1, <1>8 DEF Issue, IInv, TypeOK, TablesOK
  <2>2. phase'[NextId] = "pending"
    BY <1>2, <2>1 DEF phase
  <2>3. R!Call(NextId)
    BY <1>2, <1>4, <1>6, <1>7, <2>2, PhaseChange DEF R!Call
  <2> QED BY <1>2, <2>3 DEF R!Next
<1>9. CASE ~stored
  <2>1. \A x \in Node : NextId \notin messages'[x]
    BY <1>1, <1>5, <1>9 DEF Issue
  <2>2. answered'[NextId] = << >>
    BY <1>1, <1>2 DEF IInv, CallbackInv, FreshUnanswered
  <2>3. phase'[NextId] = "closed"
    BY <1>2, <2>1, <2>2 DEF phase
  <2>4. R!Post(NextId)
    BY <1>2, <1>4, <1>6, <1>7, <2>3, PhaseChange DEF R!Post
  <2> QED BY <1>2, <2>4 DEF R!Next
<1> QED BY <1>8, <1>9

LEMMA AnswerImplements ==
  ASSUME IInv, AnswerStep
  PROVE  R!Next
<1>1. PICK n \in Node, m \in Imq :
        /\ m.id \in messages[n]
        /\ answered' = [answered EXCEPT ![m.id] = Append(@, m)]
        /\ messages' = [messages EXCEPT ![n] = @ \ {m.id}]
        /\ UNCHANGED issued
  BY DEF AnswerStep
<1>2. /\ m.id \in Id /\ m.id \in Known /\ Known' = Known /\ answered[m.id] = << >>
      /\ \A x \in Node : m.id \in messages[x] => x = n
  BY <1>1 DEF IInv, CallbackInv, PendingUnanswered, Known, Imq
<1>3. \A x \in Node : m.id \notin messages'[x]
  BY <1>1, <1>2 DEF IInv, TypeOK, TablesOK
<1>4. /\ answered'[m.id] = Append(<< >>, m)
      /\ \A i \in Id : i # m.id => answered'[i] = answered[i]
  BY <1>1, <1>2 DEF IInv, TypeOK, HistoryOK
<1>5. Append(<< >>, m) # << >> /\ Len(Append(<< >>, m)) = 1 /\ Len(<< >>) = 0
  <2>1. << >> \in Seq(Imq) /\ Len(<< >>) = 0
    OBVIOUS
  <2>2. Len(Append(<< >>, m)) = 1
    BY <2>1, AppendProperties
  <2> QED BY <2>1, <2>2
<1>6. \A i \in Id \ {m.id} : phase'[i] = phase[i]
  <2> SUFFICES ASSUME NEW i \in Id \ {m.id} PROVE phase'[i] = phase[i]
    OBVIOUS
  <2>1. \A x \in Node : i \in messages'[x] <=> i \in messages[x]
    BY <1>1 DEF IInv, TypeOK, TablesOK
  <2> QED BY <1>2, <1>4, <2>1, PhaseKept
<1>7. phase[m.id] = "pending"
  BY <1>1, <1>2, PhaseValue
<1>8. phase'[m.id] = "answered"
  BY <1>2, <1>3, <1>4, <1>5 DEF phase
<1>9. phase' = [phase EXCEPT ![m.id] = "answered"]
  BY <1>2, <1>6, <1>8, PhaseChange
<1>10. runs' = [runs EXCEPT ![m.id] = @ + 1]
  <2>1. runs[m.id] = 0 /\ runs'[m.id] = 1
    BY <1>2, <1>4, <1>5 DEF runs
  <2>2. \A i \in Id : i # m.id => runs'[i] = runs[i]
    BY <1>4 DEF runs
  <2>3. runs[m.id] + 1 = runs'[m.id]
    BY <2>1
  <2>4. runs = [i \in Id |-> runs[i]] /\ runs' = [i \in Id |-> runs'[i]]
    BY DEF runs
  <2> QED BY <1>2, <2>2, <2>3, <2>4
<1>11. R!Answer(m.id)
  BY <1>7, <1>9, <1>10 DEF R!Answer
<1> QED BY <1>2, <1>11 DEF R!Next

LEMMA GiveUpImplements ==
  ASSUME IInv, GiveUpStep
  PROVE  R!Next
<1>0. PICK n \in Node : \E i \in messages[n] :
        /\ messages' = [messages EXCEPT ![n] = @ \ {i}]
        /\ UNCHANGED <<issued, answered>>
  BY DEF GiveUpStep
<1>1. PICK j \in messages[n] :
        /\ messages' = [messages EXCEPT ![n] = @ \ {j}]
        /\ UNCHANGED <<issued, answered>>
  BY <1>0
<1>2. /\ j \in Id /\ j \in Known /\ Known' = Known /\ answered[j] = << >>
      /\ \A x \in Node : j \in messages[x] => x = n
  BY <1>1 DEF IInv, CallbackInv, PendingUnanswered, Known, TypeOK, TablesOK
<1>3. \A x \in Node : j \notin messages'[x]
  BY <1>1, <1>2 DEF IInv, TypeOK, TablesOK
<1>4. \A i \in Id \ {j} : phase'[i] = phase[i]
  <2> SUFFICES ASSUME NEW i \in Id \ {j} PROVE phase'[i] = phase[i]
    OBVIOUS
  <2>1. \A x \in Node : i \in messages'[x] <=> i \in messages[x]
    BY <1>1 DEF IInv, TypeOK, TablesOK
  <2> QED BY <1>1, <1>2, <2>1, PhaseKept
<1>5. phase[j] = "pending"
  BY <1>1, <1>2, PhaseValue
<1>6. phase'[j] = "closed"
  BY <1>1, <1>2, <1>3 DEF phase
<1>7. R!GiveUp(j)
  BY <1>1, <1>2, <1>4, <1>5, <1>6, PhaseChange DEF R!GiveUp, runs
<1> QED BY <1>2, <1>7 DEF R!Next

LEMMA InitImplements == Init => R!Init
BY DEF Init, R!Init, phase, runs, Known

LEMMA NextImplements == IInv /\ IInv' /\ [Next]_vars => [R!Next]_<<phase, runs>>
<1> SUFFICES ASSUME IInv, IInv', [Next]_vars
             PROVE  R!Next \/ UNCHANGED <<phase, runs>>
  OBVIOUS
<1>1. CASE IssueStep
  BY <1>1, IssueImplements DEF IInv
<1>2. CASE AnswerStep
  BY <1>2, AnswerImplements
<1>3. CASE GiveUpStep
  BY <1>3, GiveUpImplements
<1>4. CASE UNCHANGED <<messages, issued, answered>>
  BY <1>4 DEF phase, runs, Known
<1> QED BY <1>1, <1>2, <1>3, <1>4, StepKinds DEF IInv

\* Every request lives the life Rpc describes.
THEOREM Refinement == Spec => ImplementsRpc
BY InitImplements, NextImplements, Invariance, PTL DEF Spec, ImplementsRpc, R!Spec

(***************************************************************************)
(* Callbacks are run on the answers to their own requests: the invariant   *)
(* follows a request through relays, brokers, handlers and an unreliable   *)
(* transport.                                                              *)
(***************************************************************************)
\* Replies to a message that tells of its call tell of it too.
LEMMA RepliesFaithful ==
  ASSUME TypeOK, BrokeredUnaddressed, NEW n \in Node, NEW m \in FaithfulTo(issued)
  PROVE  /\ Err(name[n], m) \in FaithfulTo(issued)
         /\ m.broker => ReplayMsg(name[n], m) \in FaithfulTo(issued)
         /\ ForMe(n, m) /\ m.sts = "REQ" =>
              /\ Success(name[n], m) \in FaithfulTo(issued)
              /\ Rep(name[n], m) \in FaithfulTo(issued)
<1>1. m \in Imq /\ Faithful(issued, m) /\ name[n] \in Name
  BY DEF FaithfulTo, TypeOK, TablesOK
<1>2. /\ Err(name[n], m) \in Imq /\ ReplayMsg(name[n], m) \in Imq
      /\ Success(name[n], m) \in Imq /\ Rep(name[n], m) \in Imq
  BY <1>1, RepliesTyped
<1>3. Faithful(issued, Err(name[n], m))
  BY <1>1 DEF Faithful, Err, makeImq
<1>4. m.broker => Faithful(issued, ReplayMsg(name[n], m))
  BY <1>1 DEF Faithful, ReplayMsg, makeImq, BrokeredUnaddressed, Known, Request
<1>5. ForMe(n, m) /\ m.sts = "REQ" =>
        Faithful(issued, Success(name[n], m)) /\ Faithful(issued, Rep(name[n], m))
  BY <1>1 DEF Faithful, Success, Rep, makeImq, ForMe, ForOther, ForBroker
<1> QED BY <1>2, <1>3, <1>4, <1>5 DEF FaithfulTo

LEMMA IssueKeeps ==
  ASSUME TypeOK, TypeOK', AnswerInv, IssueStep
  PROVE  AnswerInv'
<1>0. PICK n, k \in Node, m \in Asked(NextId), cb, stored \in BOOLEAN :
        Issue(n, k, m, cb, stored) /\ Sending(n, k, m) /\ UNCHANGED answered
  BY DEF IssueStep
<1> DEFINE S == FaithfulTo(issued')
<1>1. /\ Known' = Known \cup {NextId} /\ NextId \notin Known
      /\ \A i \in Known : issued'[i] = issued[i]
      /\ issued'[NextId].msg = m
  <2>1. /\ Known' = Known \cup {NextId} /\ NextId \notin Known
        /\ \A i \in Known : issued'[i] = issued[i]
        /\ issued'[NextId] = [node |-> n, via |-> k, msg |-> m, cb |-> cb]
    BY <1>0, IssueExtends, TypeParts DEF Asked
  <2> QED BY <2>1
<1>2. \A x : Faithful(issued, x) => Faithful(issued', x)
  BY <1>1 DEF Faithful, Known
<1>3. FaithfulTo(issued) \subseteq S
  BY <1>2 DEF FaithfulTo
<1>4. \A i \in Id : AnswerTo(issued, i) \subseteq AnswerTo(issued', i)
  BY <1>3 DEF AnswerTo
<1>5. m \in S
  BY <1>1 DEF Asked, FaithfulTo, Faithful, Known
<1>6. net \in [Link -> Seq(S)]
  <2>1. Seq(FaithfulTo(issued)) \subseteq Seq(S)
    BY <1>3, SeqMonotonic
  <2> QED BY <2>1 DEF AnswerInv
<1>7. net' \in [Link -> Seq(S)]
  BY <1>0, <1>5, <1>6, SendingKeeps DEF TypeOK, TransportOK
<1>8. \A i \in Id : answered'[i] \in Seq(AnswerTo(issued', i))
  <2>1. \A i \in Id : Seq(AnswerTo(issued, i)) \subseteq Seq(AnswerTo(issued', i))
    BY <1>4, SeqMonotonic
  <2> QED BY <1>0, <2>1 DEF AnswerInv
<1>9. BrokeredUnaddressed'
  BY <1>1 DEF Asked, AnswerInv, BrokeredUnaddressed, Request
<1> QED BY <1>7, <1>8, <1>9 DEF AnswerInv

LEMMA RecieveMessageKeeps ==
  ASSUME TypeOK, AnswerInv, NEW k \in Node, NEW n \in Node, RecieveMessage(k, n)
  PROVE  AnswerInv'
<1> DEFINE S == FaithfulTo(issued)
           m == Received(k, n)
<1>1. /\ Waiting(k, n) /\ UNCHANGED issued
      /\ UNCHANGED answered \/ (m.sts # "REQ" /\ answered' = [answered EXCEPT ![m.id] = Append(@, m)])
  BY RecieveMessageAnswers
<1>2. m \in S
  BY <1>1, RestKeeps DEF AnswerInv
<1>3. net' \in [Link -> Seq(S)]
  <2>1. StateOK /\ m.path \in Path \cup {NoPath}
    BY <1>2, TypeParts DEF FaithfulTo, Imq
  <2>2. /\ Err(name[n], m) \in S
        /\ m.broker => ReplayMsg(name[n], m) \in S
        /\ ForMe(n, m) /\ m.sts = "REQ" => Success(name[n], m) \in S /\ Rep(name[n], m) \in S
    BY <1>2, RepliesFaithful DEF AnswerInv
  <2> HIDE DEF S, m
  <2>3. net \in [Link -> Seq(S)]
    BY DEF AnswerInv, S
  <2> QED BY <2>1, <2>2, <2>3, RecieveMessageNet, TypeParts DEF m
<1>4. \A i \in Id : answered'[i] \in Seq(AnswerTo(issued, i))
  <2>1. CASE UNCHANGED answered
    BY <2>1 DEF AnswerInv
  <2>2. CASE m.sts # "REQ" /\ answered' = [answered EXCEPT ![m.id] = Append(@, m)]
    <3>1. m.id \in Id /\ m \in AnswerTo(issued, m.id)
      BY <1>2, <2>2 DEF AnswerTo, FaithfulTo, Imq
    <3>2. Append(answered[m.id], m) \in Seq(AnswerTo(issued, m.id))
      BY <3>1, AppendProperties DEF AnswerInv
    <3> QED BY <2>2, <3>1, <3>2 DEF AnswerInv, TypeOK, HistoryOK
  <2> QED BY <1>1, <2>1, <2>2
<1> QED BY <1>1, <1>3, <1>4 DEF AnswerInv, BrokeredUnaddressed, Known, Request

LEMMA AnswerStepKeeps ==
  ASSUME IInv, TypeOK', AnswerInv, [Next]_vars
  PROVE  AnswerInv'
<1>1. ASSUME net' \in [Link -> Seq(FaithfulTo(issued))], UNCHANGED <<issued, answered>>
      PROVE  AnswerInv'
  BY <1>1 DEF AnswerInv, BrokeredUnaddressed, Known, Request
<1>2. net \in [Link -> Seq(FaithfulTo(issued))] /\ TypeOK
  BY DEF AnswerInv, IInv
<1>3. CASE UNCHANGED vars
  BY <1>1, <1>2, <1>3 DEF vars
<1>4. ASSUME NEW n \in Node, Call(n) PROVE AnswerInv'
  BY <1>2, <1>4, CallSteps, TypeParts, IssueKeeps
<1>5. ASSUME NEW n \in Node, Configure(n) PROVE AnswerInv'
  BY <1>1, <1>2, <1>5 DEF Configure, SetName, SetHandler, DelHandler, SetBrokerHandler,
     SetRelayHandler, CallAddSubscriber, CallDelSubscriber, DelMessage, untabled, transport
<1>6. ASSUME NEW n \in Node, NEW k \in Node, RecieveMessage(k, n) PROVE AnswerInv'
  BY <1>2, <1>6, RecieveMessageKeeps
<1>7. ASSUME NEW n \in Node, NEW k \in Node, Connect(n, k) PROVE AnswerInv'
  BY <1>1, <1>2, <1>7, ConnectSteps, TypeParts, IssueKeeps
<1>8. ASSUME NEW n \in Node, NEW k \in Node, Disconnect(n, k) PROVE AnswerInv'
  <2>1. net' \in [Link -> Seq(FaithfulTo(issued))]
    BY <1>2, <1>8, DisconnectKeeps
  <2> QED BY <1>1, <1>8, <2>1 DEF Disconnect
<1>9. ASSUME NEW l \in Link, Disturb(l) PROVE AnswerInv'
  <2>1. net' \in [Link -> Seq(FaithfulTo(issued))]
    BY <1>2, <1>9, DisturbKeeps
  <2> QED BY <1>1, <1>9, <2>1 DEF Disturb
<1> QED BY <1>3, <1>4, <1>5, <1>6, <1>7, <1>8, <1>9 DEF Next

LEMMA AnswerInit == Init => AnswerInv
<1> SUFFICES ASSUME Init PROVE AnswerInv
  OBVIOUS
<1>1. \A S : << >> \in Seq(S)
  BY EmptySeq
<1> QED BY <1>1 DEF Init, AnswerInv, BrokeredUnaddressed, Known

\* AnswerInv holds in every state.
THEOREM AnswerInvariance == Spec => []AnswerInv
<1>1. IInv /\ IInv' /\ AnswerInv /\ [Next]_vars => AnswerInv'
  BY AnswerStepKeeps DEF IInv
<1> QED BY <1>1, AnswerInit, Invariance, PTL DEF Spec

LEMMA AnswersTell ==
  ASSUME AnswerInv, TypeOK, NEW i \in Known, NEW m \in InFlight(answered[i])
  PROVE  i \in Id /\ m \in AnswerTo(issued, i)
<1>1. i \in Id
  BY LenProperties, MaxIdAssumption DEF Known, Id, TypeOK, HistoryOK
<1>2. PICK j \in 1 .. Len(answered[i]) : m = answered[i][j]
  BY DEF InFlight
<1> QED BY <1>1, <1>2, ElementOfSeq DEF AnswerInv

\* A callback is only run on a reply to the request it was passed with.
THEOREM RightRequest == Spec => []CallbackAnswersItsRequest
<1>1. AnswerInv /\ IInv => CallbackAnswersItsRequest
  BY AnswersTell DEF IInv, CallbackAnswersItsRequest, AnswerTo, FaithfulTo, Faithful, Request
<1> QED BY <1>1, AnswerInvariance, Invariance, PTL

\* A request addressed by name is answered under that name, whichever way
\* it and its answer went.
THEOREM RightAnswerer == Spec => []AnswerFromAddressee
<1>1. AnswerInv /\ IInv => AnswerFromAddressee
  BY AnswersTell DEF IInv, AnswerFromAddressee, AnswerTo, FaithfulTo, Faithful, Request, Imq, Sts
<1> QED BY <1>1, AnswerInvariance, Invariance, PTL

(***************************************************************************)
(* The subscriber table has no path without subscribers.                   *)
(***************************************************************************)
NoEmpty(t) == \A p \in DOMAIN t : DOMAIN t[p] # {}

LEMMA AddSubscriberNoEmpty ==
  ASSUME NEW t, NoEmpty(t), NEW client, NEW path
  PROVE  NoEmpty(AddSubscriber(t, client, path))
BY DEF NoEmpty, AddSubscriber, Subscribers

LEMMA DelSubscriberNoEmpty ==
  ASSUME NEW t, NoEmpty(t), NEW client, NEW path
  PROVE  NoEmpty(DelSubscriber(t, client, path))
BY DEF NoEmpty, DelSubscriber, Subscribers

LEMMA QueueOutcomesNoEmpty ==
  ASSUME NEW t, IsTable(t), NoEmpty(t), NEW path \in Path \cup {NoPath},
         NEW o \in QueueOutcomes(t, path)
  PROVE  NoEmpty(o.table)
<1>1. CASE Subscribers(t, path) = {}
  BY <1>1 DEF QueueOutcomes
<1>2. CASE Subscribers(t, path) # {}
  <2>1. path \in DOMAIN t /\ PartialFunction(t[path], Name, BOOLEAN)
    BY <1>2 DEF Subscribers, IsTable
  <2>2. PICK x \in sendQueue(t[path]) : o = [to |-> x.to, table |-> [t EXCEPT ![path] = x.marks]]
    BY <1>2 DEF QueueOutcomes
  <2>3. DOMAIN x.marks = DOMAIN t[path]
    BY <2>1, <2>2, sendQueueTyped
  <2> QED BY <2>1, <2>2, <2>3 DEF NoEmpty
<1> QED BY <1>1, <1>2

\* Only the table of n changes, and it gets no path without subscribers.
NonEmptyKept(n) ==
  /\ NoEmpty(subscribers[n]) => NoEmpty(subscribers'[n])
  /\ \A x \in Node \ {n} : subscribers'[x] = subscribers[x]

LEMMA SetKeeps ==
  ASSUME StateOK, NEW n \in Node, NEW t, NoEmpty(subscribers[n]) => NoEmpty(t),
         subscribers' = [subscribers EXCEPT ![n] = t]
  PROVE  NonEmptyKept(n)
<1>1. \A x \in Node : subscribers'[x] = IF x = n THEN t ELSE subscribers[x]
  BY DEF StateOK, TablesOK
<1> QED BY <1>1 DEF NonEmptyKept, NoEmpty

LEMMA SameKeeps ==
  ASSUME NEW n \in Node, UNCHANGED subscribers
  PROVE  NonEmptyKept(n)
BY DEF NonEmptyKept, NoEmpty

LEMMA CallKeepsNonEmpty ==
  ASSUME StateOK, NEW n \in Node, Call(n)
  PROVE  NonEmptyKept(n)
<1>1. PICK path \in Path, cb \in Program[n].callbacks :
        \/ MultLocal(n, path, cb)
        \/ QueueLocal(n, path, cb)
        \/ \E k \in Node :
             \/ \E to \in Program[n].to : Req(n, k, to, path, cb) \/ Ready(n, k, to, path, cb)
             \/ \E handler \in BOOLEAN : Sub(n, k, path, handler, cb)
             \/ UnSub(n, k, path, cb)
             \/ Mult(n, k, path, cb)
             \/ Queue(n, k, path, cb)
  BY DEF Call
<1>2. CASE QueueLocal(n, path, cb)
  <2>1. PICK o \in QueueOutcomes(subscribers[n], path) :
          subscribers' = [subscribers EXCEPT ![n] = o.table]
    BY <1>2 DEF QueueLocal
  <2>2. NoEmpty(subscribers[n]) => NoEmpty(o.table)
    BY QueueOutcomesNoEmpty DEF StateOK, TablesOK
  <2> QED BY <2>1, <2>2, SetKeeps
<1>3. CASE UNCHANGED subscribers
  BY <1>3, SameKeeps
<1> QED BY <1>1, <1>2, <1>3 DEF MultLocal, Req, Ready, Sub, UnSub, Mult, Queue

LEMMA ConfigureKeepsNonEmpty ==
  ASSUME StateOK, NEW n \in Node, Configure(n)
  PROVE  NonEmptyKept(n)
<1>1. ASSUME NEW client \in Name, NEW path \in Path, CallAddSubscriber(n, client, path)
      PROVE  NonEmptyKept(n)
  BY <1>1, AddSubscriberNoEmpty, SetKeeps DEF CallAddSubscriber
<1>2. ASSUME NEW client \in Name, NEW path \in Path, CallDelSubscriber(n, client, path)
      PROVE  NonEmptyKept(n)
  BY <1>2, DelSubscriberNoEmpty, SetKeeps DEF CallDelSubscriber
<1>3. CASE UNCHANGED subscribers
  BY <1>3, SameKeeps
<1> QED BY <1>1, <1>2, <1>3 DEF Configure, SetName, SetHandler, DelHandler, SetBrokerHandler,
           SetRelayHandler, DelMessage

LEMMA RecieveMessageKeepsNonEmpty ==
  ASSUME StateOK, NEW k \in Node, NEW n \in Node, RecieveMessage(k, n),
         Received(k, n).path \in Path \cup {NoPath}
  PROVE  NonEmptyKept(n)
<1> DEFINE m == Received(k, n)
<1>1. CASE RecvBroker(k, n) /\ ~UNCHANGED subscribers
  <2>1. PICK o \in QueueOutcomes(subscribers[n], m.path) :
          subscribers' = [subscribers EXCEPT ![n] = o.table]
    BY <1>1 DEF RecvBroker
  <2>2. NoEmpty(subscribers[n]) => NoEmpty(o.table)
    BY QueueOutcomesNoEmpty DEF StateOK, TablesOK
  <2> QED BY <2>1, <2>2, SetKeeps
<1>2. CASE RecvCmd(k, n)
  <2> DEFINE new == CASE m.cmd = "SUB" -> AddSubscriber(subscribers[n], m.from, m.path)
                      [] m.cmd = "UNSUB" -> DelSubscriber(subscribers[n], m.from, m.path)
                      [] OTHER -> subscribers[n]
  <2>1. subscribers' = [subscribers EXCEPT ![n] = new]
    BY <1>2, Zenon DEF RecvCmd
  <2>2. \/ new = AddSubscriber(subscribers[n], m.from, m.path)
        \/ new = DelSubscriber(subscribers[n], m.from, m.path)
        \/ new = subscribers[n]
    BY Zenon
  <2> HIDE DEF new
  <2>3. NoEmpty(subscribers[n]) => NoEmpty(new)
    BY <2>2, AddSubscriberNoEmpty, DelSubscriberNoEmpty
  <2> QED BY <2>1, <2>3, SetKeeps
<1>3. CASE UNCHANGED subscribers
  BY <1>3, SameKeeps
<1> QED BY <1>1, <1>2, <1>3 DEF RecieveMessage, RecvBroker, RecvNotBroker, RecvRelay, RecvNotRelay,
           RecvRequest, RecvUnhandled, RecvReply, RecvStrayReply

LEMMA TransportKeepsTables ==
  ASSUME \/ \E n, k \in Node : Connect(n, k) \/ Disconnect(n, k)
         \/ \E l \in Link : Disturb(l)
  PROVE  UNCHANGED subscribers
BY DEF Connect, Disconnect, Disturb

LEMMA OneTableKeeps ==
  ASSUME NoEmptyPath, \/ UNCHANGED subscribers
                      \/ \E n \in Node : NonEmptyKept(n)
  PROVE  NoEmptyPath'
<1>1. CASE UNCHANGED subscribers
  BY <1>1 DEF NoEmptyPath
<1>2. ASSUME NEW n \in Node, NonEmptyKept(n) PROVE NoEmptyPath'
  <2>1. NoEmpty(subscribers'[n])
    BY <1>2 DEF NonEmptyKept, NoEmptyPath, NoEmpty
  <2> QED BY <1>2, <2>1 DEF NonEmptyKept, NoEmptyPath, NoEmpty
<1> QED BY <1>1, <1>2

\* No table ever keeps a path without subscribers.
THEOREM NoEmptyPaths == Spec => []NoEmptyPath
<1>1. Init => NoEmptyPath
  BY EnrolledTyped DEF Init, NoEmptyPath
<1>2. TypeOK /\ NoEmptyPath /\ [Next]_vars => NoEmptyPath'
  <2> SUFFICES ASSUME TypeOK, NoEmptyPath, [Next]_vars PROVE NoEmptyPath'
    OBVIOUS
  <2>1. ASSUME NEW k \in Node, NEW n \in Node, RecieveMessage(k, n) PROVE NonEmptyKept(n)
    <3>1. Received(k, n).path \in Path \cup {NoPath}
      BY <2>1, RecieveMessageAnswers, RestTyped DEF TypeOK, Imq
    <3> QED BY <2>1, <3>1, TypeParts, RecieveMessageKeepsNonEmpty
  <2>2. ASSUME NEW n \in Node, Call(n) \/ Configure(n) PROVE NonEmptyKept(n)
    BY <2>2, TypeParts, CallKeepsNonEmpty, ConfigureKeepsNonEmpty
  <2>3. CASE UNCHANGED vars
    BY <2>3, OneTableKeeps DEF vars
  <2> QED BY <2>1, <2>2, <2>3, TransportKeepsTables, OneTableKeeps DEF Next
<1> QED BY <1>1, <1>2, TypeCorrect, PTL DEF Spec
=============================================================================
