---------------------------- MODULE GoOnceProofs ----------------------------
(***************************************************************************)
(* Proofs about networks whose processes keep their names: the registered  *)
(* connections are right; without repeated messages on the transport no    *)
(* handler sees a request twice; on a reliable one clients and servers     *)
(* agree on subscriptions.                                                 *)
(***************************************************************************)
EXTENDS GoNetProofs

(***************************************************************************)
(* What a step does to the queues.                                         *)
(***************************************************************************)
\* A request for many is flagged for a broker or goes to nobody by name.
WellAddressed(m) ==
  LET many == m.type \in {"CAST", "QUEUE"}
  IN  (m.broker => many) /\ (many => m.to = NoName)

FansOut(queues, n, m) ==
  \E clients \in SUBSET Name : net' = FanOut(queues, n, clients, m)

\* A call of the program: its message goes to one connection, or to the
\* caller's own subscribers.
CallStep ==
  \E n, k \in Node, m \in Asked(NextId), cb, stored \in BOOLEAN :
    /\ Issue(n, k, m, cb, stored)
    /\ m.cmd # "SYN" /\ WellAddressed(m)
    /\ \/ net' = Send(net, n, k, m)
       \/ FansOut(net, n, m) /\ m.type \in {"CAST", "QUEUE"} /\ ~m.broker
    /\ UNCHANGED <<name, webSockets, answered, handled>>

LEMMA RequestsForOne ==
  ASSUME NEW id, NEW me, NEW to, NEW path,
         NEW m \in {ReadyMsg(id, me, to, path), ReqMsg(id, me, to, path), SubMsg(id, me, path),
                    UnSubMsg(id, me, path)}
  PROVE  m.type \in {"CMD", "SINGLE"} /\ ~m.broker /\ m.cmd # "SYN" /\ WellAddressed(m)
BY DEF ReadyMsg, ReqMsg, SubMsg, UnSubMsg, makeImq, WellAddressed

LEMMA RequestsForMany ==
  ASSUME NEW id, NEW me, NEW path, NEW broker \in BOOLEAN,
         NEW m \in {MultMsg(id, me, broker, path), QueueMsg(id, me, broker, path)}
  PROVE  /\ m.type \in {"CAST", "QUEUE"} /\ m.to = NoName /\ m.cmd # "SYN"
         /\ m.broker <=> broker
         /\ WellAddressed(m)
<1>1. m.type \in {"CAST", "QUEUE"} /\ m.to = NoName /\ m.cmd # "SYN" /\ m.broker = broker
  BY DEF MultMsg, QueueMsg, makeImq
<1> QED BY <1>1 DEF WellAddressed

LEMMA CallIsCallStep ==
  ASSUME TypeOK, NEW n \in Node, Call(n)
  PROVE  CallStep
<1> USE DEF tables
<1>0. name[n] \in Name /\ Program[n] \in ProgramType /\ TRUE \in BOOLEAN /\ FALSE \in BOOLEAN
  BY ProgramType_ DEF TypeOK, TablesOK
<1>1. PICK path \in Path, cb \in Program[n].callbacks :
        \/ MultLocal(n, path, cb)
        \/ QueueLocal(n, path, cb)
        \/ \E k \in Node :
             \/ \E to \in Program[n].to : Req(n, k, to, path, cb) \/ Ready(n, k, to, path, cb)
             \/ \E handler \in BOOLEAN : Sub(n, k, path, handler, cb)
             \/ UnSub(n, k, path, cb)
             \/ Mult(n, k, path, cb)
             \/ Queue(n, k, path, cb)
  BY DEF Call
<1>2. cb \in BOOLEAN /\ Program[n].to \subseteq Name \cup {NoName}
  BY <1>0 DEF ProgramType
<1>3. NextId \in Id
  BY <1>1 DEF MultLocal, QueueLocal, Req, Ready, Sub, UnSub, Mult, Queue, Issue
<1>4. ASSUME NEW k \in Node, NEW m \in Asked(NextId), NEW stored \in {cb, FALSE},
             Issue(n, k, m, cb, stored), m.cmd # "SYN", WellAddressed(m),
             \/ net' = Send(net, n, k, m)
             \/ FansOut(net, n, m) /\ m.type \in {"CAST", "QUEUE"} /\ ~m.broker,
             UNCHANGED <<name, webSockets, answered, handled>>
      PROVE  CallStep
  BY <1>2, <1>4 DEF CallStep
<1>5. ASSUME NEW to \in Name \cup {NoName}
      PROVE  /\ ReadyMsg(NextId, name[n], to, path) \in Asked(NextId)
             /\ ReqMsg(NextId, name[n], to, path) \in Asked(NextId)
             /\ SubMsg(NextId, name[n], path) \in Asked(NextId)
             /\ UnSubMsg(NextId, name[n], path) \in Asked(NextId)
             /\ \A broker \in BOOLEAN : /\ MultMsg(NextId, name[n], broker, path) \in Asked(NextId)
                                        /\ QueueMsg(NextId, name[n], broker, path) \in Asked(NextId)
  BY <1>0, <1>3, RequestsAsked
<1>6. CASE MultLocal(n, path, cb)
  <2> DEFINE m == MultMsg(NextId, name[n], FALSE, path)
  <2>1. Subscribers(subscribers[n], path) \in SUBSET Name
    BY SubscribersTyped DEF TypeOK, TablesOK
  <2>2. m \in Asked(NextId) /\ m.type \in {"CAST", "QUEUE"} /\ m.cmd # "SYN" /\ ~m.broker
        /\ WellAddressed(m)
    BY <1>0, <1>5, RequestsForMany
  <2>3. Issue(n, n, m, cb, FALSE) /\ FansOut(net, n, m)
    BY <1>6, <2>1 DEF MultLocal, FansOut
  <2> HIDE DEF m
  <2> QED BY <1>4, <1>6, <2>2, <2>3 DEF MultLocal
<1>7. CASE QueueLocal(n, path, cb)
  <2> DEFINE m == QueueMsg(NextId, name[n], FALSE, path)
  <2>1. PICK o \in QueueOutcomes(subscribers[n], path) : net' = FanOut(net, n, o.to, m)
    BY <1>7 DEF QueueLocal
  <2>2. o.to \in SUBSET Name
    BY QueueOutcomesTyped DEF TypeOK, TablesOK
  <2>3. m \in Asked(NextId) /\ m.type \in {"CAST", "QUEUE"} /\ m.cmd # "SYN" /\ ~m.broker
        /\ WellAddressed(m)
    BY <1>0, <1>5, RequestsForMany
  <2>4. Issue(n, n, m, cb, FALSE) /\ FansOut(net, n, m)
    BY <1>7, <2>1, <2>2 DEF QueueLocal, FansOut
  <2> HIDE DEF m
  <2> QED BY <1>4, <1>7, <2>3, <2>4 DEF QueueLocal
<1>8. ASSUME NEW k \in Node, NEW to \in Program[n].to,
             Req(n, k, to, path, cb) \/ Ready(n, k, to, path, cb)
      PROVE  CallStep
  <2>1. PICK m \in {ReqMsg(NextId, name[n], to, path), ReadyMsg(NextId, name[n], to, path)} :
          /\ Issue(n, k, m, cb, cb) /\ net' = Send(net, n, k, m)
          /\ UNCHANGED <<name, webSockets, answered, handled>>
    BY <1>8 DEF Req, Ready
  <2>2. m \in Asked(NextId) /\ m.cmd # "SYN" /\ WellAddressed(m)
    BY <1>2, <1>5, RequestsForOne
  <2> QED BY <1>4, <2>1, <2>2
<1>9. ASSUME NEW k \in Node, NEW handler \in BOOLEAN,
              Sub(n, k, path, handler, cb) \/ UnSub(n, k, path, cb)
       PROVE  CallStep
  <2>1. PICK m \in {SubMsg(NextId, name[n], path), UnSubMsg(NextId, name[n], path)} :
          /\ Issue(n, k, m, cb, cb) /\ net' = Send(net, n, k, m)
          /\ UNCHANGED <<name, webSockets, answered, handled>>
    BY <1>9 DEF Sub, UnSub
  <2>2. m \in Asked(NextId) /\ m.cmd # "SYN" /\ WellAddressed(m)
    BY <1>0, <1>5, RequestsForOne
  <2> QED BY <1>4, <2>1, <2>2
<1>10. ASSUME NEW k \in Node, Mult(n, k, path, cb) \/ Queue(n, k, path, cb)
       PROVE  CallStep
  <2>1. PICK m \in {MultMsg(NextId, name[n], TRUE, path), QueueMsg(NextId, name[n], TRUE, path)} :
          /\ Issue(n, k, m, cb, cb) /\ net' = Send(net, n, k, m)
          /\ UNCHANGED <<name, webSockets, answered, handled>>
    BY <1>10 DEF Mult, Queue
  <2>2. m \in Asked(NextId)
    BY <1>0, <1>5
  <2>3. m.cmd # "SYN" /\ WellAddressed(m)
    BY <2>1 DEF MultMsg, QueueMsg, makeImq, WellAddressed
  <2> QED BY <1>4, <2>1, <2>2, <2>3
<1> QED BY <1>1, <1>6, <1>7, <1>8, <1>9, <1>10

\* Reception of m: it is dropped, answered over the same connection, relayed
\* or replayed.
Answers(n, m) == {Err(name[n], m), Success(name[n], m), Rep(name[n], m)}

Dropped(k, n) == net' = Rest(k, n)

Answered(k, n) ==
  \E r \in Answers(n, Received(k, n)) :
    /\ net' = Send(Rest(k, n), n, k, r)
    /\ \/ r = Err(name[n], Received(k, n)) /\ ~ForMe(n, Received(k, n))
       \/ ForMe(n, Received(k, n)) /\ Received(k, n).sts = "REQ"

Relayed(k, n) ==
  LET m == Received(k, n)
  IN  ForOther(n, m) /\ net' = Send(Rest(k, n), n, Socket(n, m.to), m)

Replayed(k, n) ==
  LET m == Received(k, n)
  IN  m.broker /\ FansOut(Rest(k, n), n, ReplayMsg(name[n], m))

LEMMA ReceptionKinds ==
  ASSUME TypeOK, NEW k \in Node, NEW n \in Node, RecieveMessage(k, n)
  PROVE  /\ Waiting(k, n)
         /\ Dropped(k, n) \/ Answered(k, n) \/ Relayed(k, n) \/ Replayed(k, n)
<1> DEFINE m == Received(k, n)
<1>0. Waiting(k, n)
  BY DEF RecieveMessage, RecvBroker, RecvNotBroker, RecvRelay, RecvNotRelay, RecvCmd,
         RecvRequest, RecvUnhandled, RecvReply, RecvStrayReply
<1>1. CASE RecvBroker(k, n)
  <2>1. m.broker /\ m.path \in Path \cup {NoPath}
    BY <1>0, <1>1, RestTyped DEF RecvBroker, ForBroker, TypeOK, Imq
  <2>2. Subscribers(subscribers[n], m.path) \in SUBSET Name
    BY <2>1, SubscribersTyped DEF TypeOK, TablesOK
  <2>3. \A o \in QueueOutcomes(subscribers[n], m.path) : o.to \in SUBSET Name
    BY <2>1, QueueOutcomesTyped DEF TypeOK, TablesOK
  <2>4. FansOut(Rest(k, n), n, ReplayMsg(name[n], m))
    BY <1>1, <2>2, <2>3 DEF RecvBroker, FansOut
  <2> QED BY <1>0, <2>1, <2>4 DEF Replayed
<1>2. CASE RecvNotBroker(k, n) \/ RecvNotRelay(k, n)
  BY <1>0, <1>2 DEF RecvNotBroker, RecvNotRelay, Answered, Answers, ForMe
<1>3. CASE RecvRelay(k, n)
  BY <1>0, <1>3 DEF RecvRelay, Relayed, Answered, Answers, ForMe
<1>4. CASE RecvCmd(k, n)
  BY <1>0, <1>4 DEF RecvCmd, Answered, Answers, Dropped
<1>5. CASE RecvRequest(k, n)
  <2>1. CASE net' = Rest(k, n)
    BY <1>0, <2>1 DEF Dropped
  <2>2. CASE \E r \in HandlerReplies(n, m) : net' = Send(Rest(k, n), n, k, r)
    <3>1. HandlerReplies(n, m) \subseteq Answers(n, m)
      BY DEF HandlerReplies, Answers
    <3> QED BY <1>0, <1>5, <2>2, <3>1 DEF RecvRequest, Answered
  <2> QED BY <1>5, <2>1, <2>2 DEF RecvRequest
<1>6. CASE RecvUnhandled(k, n) \/ RecvReply(k, n) \/ RecvStrayReply(k, n)
  BY <1>0, <1>6 DEF RecvUnhandled, RecvReply, RecvStrayReply, Dropped
<1> QED BY <1>1, <1>2, <1>3, <1>4, <1>5, <1>6 DEF RecieveMessage

(***************************************************************************)
(* What is in flight after a queue changed.                                *)
(***************************************************************************)
LEMMA HeadTailInFlight ==
  ASSUME NEW S, NEW q \in Seq(S), q # << >>
  PROVE  Head(q) \in InFlight(q) /\ InFlight(Tail(q)) \subseteq InFlight(q)
<1>1. /\ Len(q) \in Nat /\ 1 \in 1 .. Len(q) /\ Head(q) = q[1]
      /\ Len(Tail(q)) = Len(q) - 1
      /\ \A j \in 1 .. Len(Tail(q)) : Tail(q)[j] = q[j + 1]
  BY HeadTailProperties, EmptySeq, LenProperties
<1> QED BY <1>1 DEF InFlight

LEMMA AppendInFlight ==
  ASSUME NEW S, NEW q \in Seq(S), NEW m \in S
  PROVE  InFlight(Append(q, m)) = InFlight(q) \cup {m}
<1>1. /\ Len(q) \in Nat /\ Len(Append(q, m)) = Len(q) + 1
      /\ \A j \in 1 .. Len(q) : Append(q, m)[j] = q[j]
      /\ Append(q, m)[Len(q) + 1] = m
  BY AppendProperties, LenProperties
<1> QED BY <1>1 DEF InFlight

LEMMA WithoutElements ==
  ASSUME NEW S, NEW q \in Seq(S), NEW j \in 1 .. Len(q)
  PROVE  /\ Without(q, j) \in Seq(S) /\ Len(Without(q, j)) = Len(q) - 1
         /\ \A x \in 1 .. Len(q) - 1 : Without(q, j)[x] = IF x < j THEN q[x] ELSE q[x + 1]
<1> DEFINE a == SubSeq(q, 1, j - 1)
           b == SubSeq(q, j + 1, Len(q))
<1>1. Len(q) \in Nat /\ j \in Nat
  BY LenProperties
<1>2. a \in Seq(S) /\ Len(a) = j - 1 /\ \A x \in 1 .. j - 1 : a[x] = q[x]
  BY <1>1, SubSeqProperties
<1>3. b \in Seq(S) /\ Len(b) = Len(q) - j /\ \A x \in 1 .. Len(q) - j : b[x] = q[j + x]
  BY <1>1, SubSeqProperties
<1> HIDE DEF a, b
<1>4. /\ a \o b \in Seq(S) /\ Len(a \o b) = Len(a) + Len(b)
      /\ \A x \in 1 .. Len(a) + Len(b) : (a \o b)[x] = IF x <= Len(a) THEN a[x] ELSE b[x - Len(a)]
  BY <1>2, <1>3, ConcatProperties
<1>5. Without(q, j) = a \o b
  BY DEF Without, a, b
<1>6. ASSUME NEW x \in 1 .. Len(q) - 1
      PROVE  Without(q, j)[x] = IF x < j THEN q[x] ELSE q[x + 1]
  <2>1. CASE x < j
    BY <1>1, <1>2, <1>3, <1>4, <1>5, <2>1
  <2>2. CASE x >= j
    <3>1. x - Len(a) \in 1 .. Len(q) - j /\ j + (x - Len(a)) = x + 1 /\ ~(x <= Len(a))
      BY <1>1, <1>2, <2>2
    <3>2. b[x - Len(a)] = q[x + 1]
      BY <1>3, <3>1
    <3> QED BY <1>1, <1>2, <1>3, <1>4, <1>5, <2>2, <3>1, <3>2
  <2> QED BY <1>1, <2>1, <2>2
<1> QED BY <1>1, <1>2, <1>3, <1>4, <1>5, <1>6

LEMMA SendOn ==
  ASSUME NEW queues, NEW n \in Node, NEW k, NEW m, NEW l \in Link, conn \subseteq Link,
         queues \in [Link -> Seq(Imq)]
  PROVE  Send(queues, n, k, m)[l] = IF l = <<n, k>> /\ l \in conn THEN Append(queues[l], m)
                                    ELSE queues[l]
BY DEF Send, Link

LEMMA RestOn ==
  ASSUME TypeOK, NEW k \in Node, NEW n \in Node, NEW l \in Link
  PROVE  Rest(k, n)[l] = IF l = <<k, n>> THEN Tail(net[l]) ELSE net[l]
BY DEF Rest, TypeOK, TransportOK, Link

\* Where the registered names are right, FanOut sends one copy to a process.
LEMMA FanOutOnce ==
  ASSUME TypeOK, RegistryCorrect, NEW queues \in Queues, NEW n \in Node,
         NEW clients \in SUBSET Name, NEW m \in Imq, NEW l \in Link
  PROVE  \/ FanOut(queues, n, clients, m)[l] = queues[l]
         \/ FanOut(queues, n, clients, m)[l] = Append(queues[l], m) /\ l[1] = n
<1> DEFINE C == {c \in clients : Socket(n, c) = l[2]}
           N == Cardinality(C)
           more == [j \in 1 .. N |-> m]
<1>1. ASSUME NEW c \in C PROVE c = name[l[2]]
  <2>1. l[2] \in Node /\ l[2] # Closed
    BY ClosedAssumption DEF Link
  <2> QED BY <2>1 DEF Socket, RegistryCorrect
<1>2. N = 0 \/ N = 1
  <2>1. C = {} \/ C = {name[l[2]]}
    BY <1>1
  <2> QED BY <2>1, FS_EmptySet, FS_Singleton
<1>3. FanOut(queues, n, clients, m)[l] = IF l[1] = n /\ l \in conn THEN queues[l] \o more
                                         ELSE queues[l]
  BY DEF FanOut
<1>4. queues[l] \in Seq(Imq)
  BY DEF Queues
<1> HIDE DEF N
<1>5. CASE N = 0
  <2>1. more = << >>
    BY <1>5
  <2> QED BY <1>3, <1>4, <2>1, ConcatEmptySeq
<1>6. CASE N = 1
  <2>1. more = <<m>>
    BY <1>6
  <2>2. queues[l] \o <<m>> = Append(queues[l], m)
    BY <1>4, AppendIsConcat
  <2> HIDE DEF more
  <2> QED BY <1>3, <2>1, <2>2
<1> QED BY <1>2, <1>5, <1>6

LEMMA DisturbInFlight ==
  ASSUME TypeOK, NEW o \in Link, Disturb(o), NEW l \in Link
  PROVE  InFlight(net'[l]) \subseteq InFlight(net[l])
<1>1. PICK j \in 1 .. Len(net[o]) : Lose(o, j) \/ Duplicate(o, j) \/ Overtake(o, j)
  BY DEF Disturb
<1> DEFINE q == net[o]
<1>2. q \in Seq(Imq) /\ q[j] \in Imq /\ Len(q) \in Nat /\ q[j] \in InFlight(q)
      /\ net \in [Link -> Seq(Imq)]
  BY ElementOfSeq, LenProperties DEF TypeOK, TransportOK, InFlight
<1>3. /\ Without(q, j) \in Seq(Imq) /\ Len(Without(q, j)) = Len(q) - 1
      /\ \A x \in 1 .. Len(q) - 1 : Without(q, j)[x] = IF x < j THEN q[x] ELSE q[x + 1]
  BY <1>2, WithoutElements
<1>4. InFlight(Without(q, j)) \subseteq InFlight(q)
  <2> SUFFICES ASSUME NEW x \in 1 .. Len(q) - 1 PROVE Without(q, j)[x] \in InFlight(q)
    BY <1>3 DEF InFlight
  <2>1. x \in 1 .. Len(q) /\ x + 1 \in 1 .. Len(q)
    BY <1>2
  <2>2. q[x] \in InFlight(q) /\ q[x + 1] \in InFlight(q)
    BY <2>1 DEF InFlight
  <2> QED BY <1>3, <2>2
<1>5. InFlight(Append(q, q[j])) = InFlight(q) \cup {q[j]}
  BY <1>2, AppendInFlight
<1> HIDE DEF q
<1>6. InFlight(<<q[j]>> \o Without(q, j)) \subseteq InFlight(q)
  <2>1. <<q[j]>> \in Seq(Imq) /\ Len(<<q[j]>>) = 1 /\ <<q[j]>>[1] = q[j]
    BY <1>2
  <2> DEFINE a == <<q[j]>>
             b == Without(q, j)
  <2> HIDE DEF a, b
  <2>2. /\ Len(a \o b) = Len(a) + Len(b)
        /\ \A x \in 1 .. Len(a) + Len(b) : (a \o b)[x] = IF x <= Len(a) THEN a[x] ELSE b[x - Len(a)]
    BY <1>3, <2>1, ConcatProperties DEF a, b
  <2>3. ASSUME NEW x \in 1 .. Len(q) PROVE (a \o b)[x] \in InFlight(q)
    <3>1. CASE x = 1
      BY <1>2, <1>3, <2>1, <2>2, <3>1 DEF a, b
    <3>2. CASE x # 1
      <4>1. x - 1 \in 1 .. Len(b) /\ ~(x <= Len(a))
        BY <1>2, <1>3, <2>1, <3>2 DEF a, b
      <4>2. b[x - 1] \in InFlight(q)
        BY <1>4, <4>1 DEF InFlight, b
      <4>3. x \in 1 .. Len(a) + Len(b) /\ Len(a) = 1
        BY <1>2, <1>3, <2>1 DEF a, b
      <4>4. (a \o b)[x] = b[x - 1]
        BY <2>2, <4>1, <4>3
      <4> QED BY <4>2, <4>4
    <3> QED BY <3>1, <3>2
  <2>4. Len(a \o b) \in Nat /\ 1 .. Len(a \o b) \subseteq 1 .. Len(q)
    BY <1>2, <1>3, <2>1, <2>2 DEF a, b
  <2>5. \A x \in 1 .. Len(a \o b) : (a \o b)[x] \in InFlight(q)
    BY <2>3, <2>4
  <2>6. InFlight(a \o b) \subseteq InFlight(q)
    BY <2>5 DEF InFlight
  <2> QED BY <2>6 DEF a, b
<1>7. \E r : net' = [net EXCEPT ![o] = r] /\ InFlight(r) \subseteq InFlight(q)
  BY <1>1, <1>2, <1>4, <1>5, <1>6 DEF Lose, Duplicate, Overtake, q
<1> QED BY <1>2, <1>7 DEF q

LEMMA DisconnectInFlight ==
  ASSUME TypeOK, NEW n \in Node, NEW k \in Node, Disconnect(n, k), NEW l \in Link
  PROVE  net'[l] = net[l] \/ net'[l] = << >>
BY DEF Disconnect, TypeOK, TransportOK, Link

(***************************************************************************)
(* The registered connections.                                             *)
(***************************************************************************)
LEMMA NamesStay ==
  ASSUME TypeOK, NamesKept, OwnNames, [Next]_vars
  PROVE  UNCHANGED name /\ OwnNames'
<1>1. ASSUME NEW n \in Node, Call(n) PROVE UNCHANGED name
  BY <1>1, CallIsCallStep DEF CallStep
<1>2. ASSUME NEW n \in Node, Configure(n) PROVE UNCHANGED name
  BY <1>2 DEF Configure, SetName, MayCall, NamesKept, SetHandler, DelHandler, SetBrokerHandler,
     SetRelayHandler, CallAddSubscriber, CallDelSubscriber, DelMessage, tables
<1>3. ASSUME NEW n \in Node, NEW k \in Node,
             RecieveMessage(k, n) \/ Connect(n, k) \/ Disconnect(n, k)
      PROVE  UNCHANGED name
  BY <1>3 DEF RecieveMessage, RecvBroker, RecvNotBroker, RecvRelay, RecvNotRelay, RecvCmd,
     RecvRequest, RecvUnhandled, RecvReply, RecvStrayReply, Connect, Disconnect, tables
<1>4. ASSUME NEW l \in Link, Disturb(l) PROVE UNCHANGED name
  BY <1>4 DEF Disturb, tables
<1>5. UNCHANGED name
  BY <1>1, <1>2, <1>3, <1>4 DEF Next, vars, tables
<1> QED BY <1>5 DEF OwnNames

LEMMA InFlightFaithful ==
  ASSUME AnswerInv, NEW l \in Link, NEW m \in InFlight(net[l])
  PROVE  m \in FaithfulTo(issued) /\ m \in Imq /\ m.id \in Known
<1>1. net[l] \in Seq(FaithfulTo(issued))
  BY DEF AnswerInv
<1>2. m \in FaithfulTo(issued)
  BY <1>1, ElementOfSeq DEF InFlight
<1> QED BY <1>2 DEF FaithfulTo, Faithful, Known

\* The messages already on their way are still right when a call is added.
LEMMA TrafficExtends ==
  ASSUME AnswerInv, RegistryInv, UNCHANGED name, \A i \in Known : issued'[i] = issued[i],
         NEW l \in Link, NEW m \in InFlight(net[l])
  PROVE  SynTraffic(l, m)'
BY InFlightFaithful DEF RegistryInv, SynTraffic

LEMMA RegistryCall ==
  ASSUME TypeOK, TypeOK', AnswerInv, RegistryInv, CallStep
  PROVE  RegistryInv'
<1>1. PICK n, k \in Node, m \in Asked(NextId), cb, stored \in BOOLEAN :
        /\ Issue(n, k, m, cb, stored) /\ m.cmd # "SYN"
        /\ net' = Send(net, n, k, m) \/ FansOut(net, n, m)
        /\ UNCHANGED <<name, webSockets>>
  BY DEF CallStep
<1>2. m \in Imq /\ m.id = NextId
  BY DEF Asked
<1>3. /\ \A i \in Known : issued'[i] = issued[i]
      /\ issued'[NextId] = [node |-> n, via |-> k, msg |-> m, cb |-> cb]
  BY <1>1, <1>2, IssueExtends, TypeParts
<1>4. net \in Queues /\ conn \subseteq Link /\ net \in [Link -> Seq(Imq)]
  BY DEF TypeOK, TransportOK, Queues
<1>5. ASSUME NEW l \in Link PROVE InFlight(net'[l]) \subseteq InFlight(net[l]) \cup {m}
  <2>1. CASE net' = Send(net, n, k, m)
    BY <1>2, <1>4, <2>1, SendOn, AppendInFlight
  <2>2. CASE FansOut(net, n, m)
    <3>1. PICK clients \in SUBSET Name : net' = FanOut(net, n, clients, m)
      BY <2>2 DEF FansOut
    <3>2. \/ FanOut(net, n, clients, m)[l] = net[l]
          \/ FanOut(net, n, clients, m)[l] = Append(net[l], m)
      <4>1. RegistryCorrect
        BY DEF RegistryInv
      <4> QED BY <1>2, <1>4, <4>1, FanOutOnce
    <3>3. InFlight(Append(net[l], m)) = InFlight(net[l]) \cup {m}
      BY <1>2, <1>4, AppendInFlight
    <3> QED BY <3>1, <3>2, <3>3
  <2> QED BY <1>1, <2>1, <2>2
<1>6. ASSUME NEW l \in Link PROVE SynTraffic(l, m)'
  BY <1>1, <1>2, <1>3 DEF SynTraffic
<1>7. ASSUME NEW l \in Link, NEW x \in InFlight(net'[l]) PROVE SynTraffic(l, x)'
  BY <1>1, <1>3, <1>5, <1>6, <1>7, TrafficExtends
<1> QED BY <1>1, <1>7 DEF RegistryInv, OwnNames, RegistryCorrect

LEMMA RegistryConnect ==
  ASSUME TypeOK, TypeOK', AnswerInv, RegistryInv, NEW n \in Node, NEW k \in Node, Connect(n, k)
  PROVE  RegistryInv'
<1> USE DEF tables
<1>1. UNCHANGED <<name, webSockets>>
  BY DEF Connect
<1>2. CASE UNCHANGED <<net, issued>>
  BY <1>1, <1>2 DEF RegistryInv, OwnNames, RegistryCorrect, SynTraffic
<1>3. CASE Syn(k, n, conn \cup {<<n, k>>, <<k, n>>})
  <2>0. PICK m : m = SynMsg(NextId, name[k])
    OBVIOUS
  <2>1. NextId \in Id /\ name[k] \in Name
    BY <1>3 DEF Syn, Issue, TypeOK, TablesOK
  <2>2. m \in Imq /\ m.id = NextId /\ m.from = name[k] /\ m.to = NoName /\ ~m.broker
        /\ m.sts = "REQ"
    BY <2>0, <2>1, SynMsgTyped DEF SynMsg, makeImq
  <2>3. Issue(k, n, m, TRUE, TRUE) /\ net' = [net EXCEPT ![<<k, n>>] = Append(@, m)]
    BY <1>3, <2>0 DEF Syn
  <2>4. /\ \A i \in Known : issued'[i] = issued[i]
        /\ issued'[NextId] = [node |-> k, via |-> n, msg |-> m, cb |-> TRUE]
    BY <2>2, <2>3, IssueExtends, TypeParts
  <2>5. SynTraffic(<<k, n>>, m)'
    <3>1. issued'[m.id].node = k /\ issued'[m.id].via = n
      BY <2>2, <2>4
    <3> QED BY <1>1, <2>2, <3>1 DEF SynTraffic
  <2>6. ASSUME NEW l \in Link, NEW x \in InFlight(net'[l]) PROVE SynTraffic(l, x)'
    <3>1. net[l] \in Seq(Imq) /\ net \in [Link -> Seq(Imq)]
      BY DEF TypeOK, TransportOK
    <3>2. CASE l = <<k, n>>
      <4>1. InFlight(net'[l]) = InFlight(net[l]) \cup {m}
        BY <2>2, <2>3, <3>1, <3>2, AppendInFlight
      <4> QED BY <1>1, <2>4, <2>5, <2>6, <3>2, <4>1, TrafficExtends
    <3>3. CASE l # <<k, n>>
      BY <1>1, <2>3, <2>4, <2>6, <3>1, <3>3, TrafficExtends
    <3> QED BY <3>2, <3>3
  <2> QED BY <1>1, <2>6 DEF RegistryInv, OwnNames, RegistryCorrect
<1> QED BY <1>2, <1>3 DEF Connect

LEMMA AnswersTyped ==
  ASSUME TypeOK, NEW n \in Node, NEW m \in Imq, NEW r \in Answers(n, m)
  PROVE  /\ r \in Imq /\ r.id = m.id /\ r.from = name[n] /\ r.to = m.from
         /\ r.type = m.type /\ r.sts # "REQ"
         /\ r.broker <=> m.broker
<1>1. name[n] \in Name
  BY DEF TypeOK, TablesOK
<1>2. r \in Imq
  BY <1>1, RepliesTyped DEF Answers
<1>3. r \in {Err(name[n], m), Success(name[n], m), Rep(name[n], m)}
  BY DEF Answers
<1> QED BY <1>2, <1>3 DEF Err, Success, Rep, makeImq

LEMMA ReplayTyped ==
  ASSUME TypeOK, NEW n \in Node, NEW m \in Imq
  PROVE  LET r == ReplayMsg(name[n], m)
         IN  /\ r \in Imq /\ r.id = m.id /\ ~r.broker
             /\ r.type = IF m.type = "CAST" THEN "CAST" ELSE "QUEUE"
<1>1. name[n] \in Name
  BY DEF TypeOK, TablesOK
<1> QED BY <1>1, RepliesTyped DEF ReplayMsg, makeImq

LEMMA RestInFlight ==
  ASSUME TypeOK, NEW k \in Node, NEW n \in Node, Waiting(k, n), NEW l \in Link
  PROVE  /\ InFlight(Rest(k, n)[l]) \subseteq InFlight(net[l])
         /\ Received(k, n) \in InFlight(net[<<k, n>>])
<1>1. net[<<k, n>>] \in Seq(Imq) /\ net[<<k, n>>] # << >>
  BY DEF TypeOK, TransportOK, Waiting, Link
<1>2. /\ Received(k, n) \in InFlight(net[<<k, n>>])
      /\ InFlight(Tail(net[<<k, n>>])) \subseteq InFlight(net[<<k, n>>])
  BY <1>1, HeadTailInFlight DEF Received
<1>3. Rest(k, n)[l] = IF l = <<k, n>> THEN Tail(net[l]) ELSE net[l]
  BY RestOn
<1> QED BY <1>2, <1>3

\* Received, a message leaves its queue, and at most one message r with its
\* identifier is added to queues of n: no token (an answer); a single one, in
\* place of the message received (relayed, or an error to a broker message);
\* or what a broker replays.
Adds(queues, n, r) ==
  \A l \in Link : \/ net'[l] = queues[l]
                  \/ l[1] = n /\ net'[l] = Append(queues[l], r)

AddsOnlyOn(o, queues, r) ==
  \A l \in Link : \/ net'[l] = queues[l]
                  \/ l = o /\ net'[l] = Append(queues[l], r)

LEMMA FanOutAdds ==
  ASSUME TypeOK, RegistryCorrect, NEW queues \in Queues, NEW n \in Node,
         NEW clients \in SUBSET Name, NEW m \in Imq, net' = FanOut(queues, n, clients, m)
  PROVE  Adds(queues, n, m)
<1>1. ASSUME NEW l \in Link
      PROVE  \/ FanOut(queues, n, clients, m)[l] = queues[l]
             \/ FanOut(queues, n, clients, m)[l] = Append(queues[l], m) /\ l[1] = n
  BY FanOutOnce, Z3
<1> QED BY <1>1 DEF Adds

LEMMA ReceptionAdds ==
  ASSUME TypeOK, RegistryCorrect, NEW k \in Node, NEW n \in Node, RecieveMessage(k, n)
  PROVE  \E r \in Imq : LET m == Received(k, n) IN
           /\ r.id = m.id
           /\ Adds(Rest(k, n), n, r)
           /\ \/ ~Token(r, m.id) /\ r.type = m.type
              \/ /\ m.broker \/ (ForOther(n, m) /\ r = m)
                 /\ \E o : AddsOnlyOn(o, Rest(k, n), r)
                 /\ r.type = m.type
              \/ m.broker /\ ~r.broker /\ r.type = IF m.type = "CAST" THEN "CAST" ELSE "QUEUE"
<1>1. PICK m : m = Received(k, n)
  OBVIOUS
<1>2. /\ Waiting(k, n)
      /\ Dropped(k, n) \/ Answered(k, n) \/ Relayed(k, n) \/ Replayed(k, n)
  BY ReceptionKinds
<1>3. /\ m \in Imq /\ conn \subseteq Link
      /\ Rest(k, n) \in Queues /\ Rest(k, n) \in [Link -> Seq(Imq)]
  BY <1>1, <1>2, RestTyped DEF TypeOK, TransportOK, Queues
<1>4. ASSUME NEW r, NEW x, net' = Send(Rest(k, n), n, x, r)
      PROVE  Adds(Rest(k, n), n, r) /\ AddsOnlyOn(<<n, x>>, Rest(k, n), r)
  <2>1. \A l \in Link : net'[l] = IF l = <<n, x>> /\ l \in conn THEN Append(Rest(k, n)[l], r)
                                  ELSE Rest(k, n)[l]
    BY <1>3, <1>4, SendOn
  <2>2. \A l \in Link : \/ net'[l] = Rest(k, n)[l]
                        \/ l = <<n, x>> /\ net'[l] = Append(Rest(k, n)[l], r)
    BY <2>1
  <2>3. <<n, x>>[1] = n
    OBVIOUS
  <2> QED BY <2>2, <2>3, Zenon DEF Adds, AddsOnlyOn
<1>5. CASE Dropped(k, n)
  <2>1. [m EXCEPT !.sts = "ERROR", !.broker = FALSE] \in Imq
    BY <1>3 DEF Imq, Sts
  <2>2. \E r \in Imq : r.id = m.id /\ r.sts = "ERROR" /\ r.broker = FALSE /\ r.type = m.type
    BY <1>3, <2>1 DEF Imq
  <2>3. PICK r \in Imq : r.id = m.id /\ ~Token(r, m.id) /\ r.type = m.type
    BY <2>2 DEF Token
  <2>4. Adds(Rest(k, n), n, r)
    BY <1>5 DEF Dropped, Adds
  <2> QED BY <1>1, <2>3, <2>4
<1>6. CASE Answered(k, n)
  <2>1. PICK r \in Answers(n, m) :
          net' = Send(Rest(k, n), n, k, r) /\ (ForMe(n, m) \/ ~ForMe(n, m))
    BY <1>1, <1>6 DEF Answered
  <2>2. /\ r \in Imq /\ r.id = m.id /\ r.type = m.type /\ r.sts # "REQ"
        /\ r.broker <=> m.broker
    BY <1>3, <2>1, AnswersTyped
  <2>3. m.broker \/ ~Token(r, m.id)
    BY <2>2 DEF Token
  <2> QED BY <1>1, <1>4, <2>1, <2>2, <2>3
<1>7. CASE Relayed(k, n)
  <2>1. ForOther(n, m) /\ net' = Send(Rest(k, n), n, Socket(n, m.to), m)
    BY <1>1, <1>7 DEF Relayed
  <2> QED BY <1>1, <1>3, <1>4, <2>1
<1>8. CASE Replayed(k, n)
  <2>1. PICK r : r = ReplayMsg(name[n], m)
    OBVIOUS
  <2>2. PICK clients \in SUBSET Name : net' = FanOut(Rest(k, n), n, clients, r)
    BY <1>1, <1>8, <2>1 DEF Replayed, FansOut
  <2>3. r \in Imq /\ r.id = m.id /\ ~r.broker /\ r.type = IF m.type = "CAST" THEN "CAST" ELSE "QUEUE"
    BY <1>3, <2>1, ReplayTyped
  <2>4. Adds(Rest(k, n), n, r)
    BY <1>3, <2>2, <2>3, FanOutAdds
  <2>5. m.broker
    BY <1>1, <1>8 DEF Replayed
  <2> QED BY <1>1, <2>3, <2>4, <2>5
<1> QED BY <1>2, <1>5, <1>6, <1>7, <1>8

LEMMA TrafficReceived ==
  ASSUME TypeOK, AnswerInv, RegistryInv, UNCHANGED <<name, issued>>,
         NEW k \in Node, NEW n \in Node, RecieveMessage(k, n),
         NEW l \in Link, NEW x \in InFlight(net'[l])
  PROVE  SynTraffic(l, x)'
<1>1. PICK m : m = Received(k, n)
  OBVIOUS
<1>2. /\ Waiting(k, n)
      /\ Dropped(k, n) \/ Answered(k, n) \/ Relayed(k, n) \/ Replayed(k, n)
  BY ReceptionKinds
<1>3. \A o \in Link : \A y \in InFlight(net[o]) : SynTraffic(o, y)'
  BY TrafficExtends
<1>4. /\ m \in InFlight(net[<<k, n>>]) /\ <<k, n>> \in Link
      /\ \A o \in Link : InFlight(Rest(k, n)[o]) \subseteq InFlight(net[o])
  BY <1>1, <1>2, RestInFlight DEF Link
<1>5. SynTraffic(<<k, n>>, m) /\ m \in Imq /\ m.id \in Known
  BY <1>4, InFlightFaithful DEF RegistryInv
<1>6. CASE issued[m.id].msg.cmd # "SYN"
  <2>1. PICK r \in Imq : r.id = m.id /\ Adds(Rest(k, n), n, r)
    BY <1>1, ReceptionAdds DEF RegistryInv
  <2>2. Rest(k, n)[l] \in Seq(Imq)
    BY <1>2, RestTyped DEF TypeOK, Queues
  <2>3. net'[l] = Rest(k, n)[l] \/ net'[l] = Append(Rest(k, n)[l], r)
    BY <2>1 DEF Adds
  <2>4. InFlight(Append(Rest(k, n)[l], r)) = InFlight(Rest(k, n)[l]) \cup {r}
    BY <2>2, AppendInFlight
  <2>5. x \in InFlight(net[l]) \/ x = r
    BY <1>4, <2>3, <2>4
  <2>6. SynTraffic(l, r)'
    BY <1>6, <2>1 DEF SynTraffic
  <2> QED BY <1>3, <2>5, <2>6
<1>7. CASE issued[m.id].msg.cmd = "SYN"
  <2>1. ~m.broker /\ m.to \in {NoName, name[n]}
    BY <1>5, <1>7 DEF SynTraffic
  <2>2. ForMe(n, m) /\ ~ForOther(n, m)
    BY <2>1 DEF ForMe, ForOther, ForBroker
  <2>3. CASE Dropped(k, n)
    BY <1>3, <1>4, <2>3 DEF Dropped
  <2>4. CASE Answered(k, n)
    <3>1. PICK r \in Answers(n, m) : net' = Send(Rest(k, n), n, k, r) /\ m.sts = "REQ"
      BY <1>1, <2>2, <2>4 DEF Answered
    <3>2. /\ r \in Imq /\ r.id = m.id /\ ~r.broker /\ r.sts # "REQ"
          /\ r.from = name[n] /\ r.to = m.from
      BY <1>5, <2>1, <3>1, AnswersTyped
    <3>3. n = issued[m.id].via /\ k = issued[m.id].node /\ m.from = name[k]
      BY <1>5, <1>7, <3>1 DEF SynTraffic
    <3>4. SynTraffic(<<n, k>>, r)'
      BY <3>2, <3>3 DEF SynTraffic
    <3>5. conn \subseteq Link /\ Rest(k, n) \in [Link -> Seq(Imq)]
      BY <1>2, RestTyped DEF TypeOK, TransportOK, Queues
    <3>6. net'[l] = Rest(k, n)[l] \/ (l = <<n, k>> /\ net'[l] = Append(Rest(k, n)[l], r))
      <4>1. Send(Rest(k, n), n, k, r)[l] =
              IF l = <<n, k>> /\ l \in conn THEN Append(Rest(k, n)[l], r) ELSE Rest(k, n)[l]
        BY <3>5, SendOn
      <4> QED BY <3>1, <4>1
    <3>7. InFlight(Append(Rest(k, n)[l], r)) = InFlight(Rest(k, n)[l]) \cup {r}
      BY <3>2, <3>5, AppendInFlight
    <3> QED BY <1>3, <1>4, <3>4, <3>6, <3>7
  <2> QED BY <1>1, <1>2, <2>1, <2>2, <2>3, <2>4 DEF Relayed, Replayed
<1> QED BY <1>6, <1>7

LEMMA RegistryReceive ==
  ASSUME TypeOK, PendingOwned, AnswerInv, RegistryInv, UNCHANGED name,
         NEW k \in Node, NEW n \in Node, RecieveMessage(k, n)
  PROVE  RegistryInv'
<1>1. UNCHANGED issued
  BY RecieveMessageAnswers
<1>2. \A l \in Link : \A x \in InFlight(net'[l]) : SynTraffic(l, x)'
  BY <1>1, TrafficReceived
<1>3. CASE UNCHANGED webSockets
  BY <1>2, <1>3 DEF RegistryInv, OwnNames, RegistryCorrect
<1>4. CASE RecvReply(k, n)
  <2>1. PICK m : m = Received(k, n)
    OBVIOUS
  <2>2. m.id \in messages[n] /\ m.sts # "REQ" /\ Waiting(k, n)
    BY <1>4, <2>1 DEF RecvReply
  <2>3. SynTraffic(<<k, n>>, m)
    BY <2>1, <2>2, RestInFlight DEF RegistryInv, Link
  <2>4. CASE issued[m.id].msg.cmd # "SYN"
    BY <1>3, <1>4, <2>1, <2>4 DEF RecvReply
  <2>5. CASE issued[m.id].msg.cmd = "SYN"
    <3> DEFINE via == issued[m.id].via
    <3>1. m.from = name[via]
      BY <2>2, <2>3, <2>5 DEF SynTraffic
    <3>2. webSockets' = [webSockets EXCEPT ![n] =
                           [x \in DOMAIN webSockets[n] \cup {m.from} |->
                              IF x = m.from THEN via ELSE webSockets[n][x]]]
      BY <1>4, <2>1, <2>5 DEF RecvReply
    <3>3. RegistryCorrect'
      BY <3>1, <3>2 DEF RegistryInv, RegistryCorrect, TypeOK, TablesOK
    <3> QED BY <1>2, <3>3 DEF RegistryInv, OwnNames
  <2> QED BY <2>4, <2>5
<1> QED BY <1>3, <1>4 DEF RecieveMessage, RecvBroker, RecvNotBroker, RecvRelay, RecvNotRelay,
       RecvCmd, RecvRequest, RecvUnhandled, RecvStrayReply

LEMMA RegistryStep ==
  ASSUME NamesKept, TypeOK, TypeOK', PendingOwned, AnswerInv, RegistryInv, [Next]_vars
  PROVE  RegistryInv'
<1>0. UNCHANGED name
  BY NamesStay DEF RegistryInv
<1>1. ASSUME UNCHANGED <<webSockets, issued>>,
             \A l \in Link : InFlight(net'[l]) \subseteq InFlight(net[l])
      PROVE  RegistryInv'
  <2>1. \A l \in Link : \A m \in InFlight(net'[l]) : SynTraffic(l, m)'
    BY <1>0, <1>1, TrafficExtends
  <2> QED BY <1>0, <1>1, <2>1 DEF RegistryInv, OwnNames, RegistryCorrect
<1>2. CASE UNCHANGED vars
  BY <1>1, <1>2 DEF vars
<1>3. ASSUME NEW n \in Node, Call(n) PROVE RegistryInv'
  BY <1>3, CallIsCallStep, RegistryCall
<1>4. ASSUME NEW n \in Node, Configure(n) PROVE RegistryInv'
  BY <1>1, <1>4 DEF Configure, SetName, SetHandler, DelHandler, SetBrokerHandler,
     SetRelayHandler, CallAddSubscriber, CallDelSubscriber, DelMessage, untabled, transport
<1>5. ASSUME NEW n \in Node, NEW k \in Node, RecieveMessage(k, n) PROVE RegistryInv'
  BY <1>0, <1>5, RegistryReceive
<1>6. ASSUME NEW n \in Node, NEW k \in Node, Connect(n, k) PROVE RegistryInv'
  BY <1>6, RegistryConnect
<1>7. ASSUME NEW n \in Node, NEW k \in Node, Disconnect(n, k) PROVE RegistryInv'
  <2>1. \A l \in Link : InFlight(net'[l]) \subseteq InFlight(net[l])
    <3>1. InFlight(<< >>) = {}
      BY EmptySeq DEF InFlight
    <3> QED BY <1>7, <3>1, DisconnectInFlight
  <2>2. \A l \in Link : \A m \in InFlight(net'[l]) : SynTraffic(l, m)'
    BY <1>0, <1>7, <2>1, TrafficExtends DEF Disconnect
  <2>3. RegistryCorrect'
    BY <1>0, <1>7 DEF Disconnect, RegistryInv, RegistryCorrect, TypeOK, TablesOK
  <2> QED BY <1>0, <2>2, <2>3 DEF RegistryInv, OwnNames
<1>8. ASSUME NEW o \in Link, Disturb(o) PROVE RegistryInv'
  BY <1>1, <1>8, DisturbInFlight DEF Disturb
<1> QED BY <1>2, <1>3, <1>4, <1>5, <1>6, <1>7, <1>8 DEF Next

LEMMA RegistryInit == Init => RegistryInv
<1> SUFFICES ASSUME Init PROVE RegistryInv
  OBVIOUS
<1>1. InFlight(<< >>) = {}
  BY EmptySeq DEF InFlight
<1> QED BY <1>1 DEF Init, RegistryInv, OwnNames, RegistryCorrect

\* Where nobody changes his name, RegistryInv holds in every state.
THEOREM RegistryInvariance ==
  ASSUME NamesKept
  PROVE  Spec => []RegistryInv
<1>1. IInv /\ IInv' /\ AnswerInv /\ RegistryInv /\ [Next]_vars => RegistryInv'
  <2> SUFFICES ASSUME IInv, IInv', AnswerInv, RegistryInv, [Next]_vars PROVE RegistryInv'
    OBVIOUS
  <2>1. PendingOwned /\ TypeOK /\ TypeOK'
    BY DEF IInv, CallbackInv, PendingUnanswered, PendingOwned
  <2> QED BY <2>1, RegistryStep
<1> QED BY <1>1, RegistryInit, Invariance, AnswerInvariance, PTL DEF Spec

\* Every connection a process registered under a name leads to the process
\* of that name, as long as nobody changes his name.
THEOREM Registry ==
  ASSUME NamesKept
  PROVE  Spec => []RegistryCorrect
<1>1. RegistryInv => RegistryCorrect
  BY DEF RegistryInv
<1> QED BY <1>1, RegistryInvariance, PTL

(***************************************************************************)
(* Copies of a request.  A queue thins another one if its tokens are among *)
(* those of the other, and no more often.                                  *)
(***************************************************************************)
Thins(new, old, i) ==
  /\ \A x \in Tokens(new, i) : \E y \in Tokens(old, i) : new[x] = old[y]
  /\ (\A x, y \in Tokens(old, i) : x = y) => (\A x, y \in Tokens(new, i) : x = y)

LEMMA ThinsBy ==
  ASSUME NEW old, NEW new, NEW i, NEW f \in [1 .. Len(new) -> 1 .. Len(old)],
         \A x \in 1 .. Len(new) : new[x] = old[f[x]],
         \A x, y \in 1 .. Len(new) : f[x] = f[y] => x = y
  PROVE  Thins(new, old, i)
<1>1. \A x \in Tokens(new, i) : x \in 1 .. Len(new) /\ f[x] \in Tokens(old, i)
  BY DEF Tokens
<1> QED BY <1>1 DEF Thins

LEMMA ThinsSelf ==
  ASSUME NEW q, NEW i
  PROVE  Thins(q, q, i) /\ Thins(<< >>, q, i)
<1>1. Tokens(<< >>, i) = {}
  BY EmptySeq DEF Tokens
<1> QED BY <1>1 DEF Thins

LEMMA ThinsTail ==
  ASSUME NEW S, NEW q \in Seq(S), q # << >>, NEW i
  PROVE  Thins(Tail(q), q, i)
<1> DEFINE f == [x \in 1 .. Len(Tail(q)) |-> x + 1]
<1>1. /\ Len(q) \in Nat /\ Len(Tail(q)) = Len(q) - 1
      /\ \A x \in 1 .. Len(Tail(q)) : Tail(q)[x] = q[x + 1]
  BY HeadTailProperties, LenProperties
<1>2. /\ f \in [1 .. Len(Tail(q)) -> 1 .. Len(q)]
      /\ \A x \in 1 .. Len(Tail(q)) : Tail(q)[x] = q[f[x]]
      /\ \A x, y \in 1 .. Len(Tail(q)) : f[x] = f[y] => x = y
  BY <1>1
<1> HIDE DEF f
<1> QED BY <1>2, ThinsBy

LEMMA ThinsWithout ==
  ASSUME NEW S, NEW q \in Seq(S), NEW j \in 1 .. Len(q), NEW i
  PROVE  Thins(Without(q, j), q, i)
<1> DEFINE w == Without(q, j)
           f == [x \in 1 .. Len(w) |-> IF x < j THEN x ELSE x + 1]
<1>1. /\ Len(q) \in Nat /\ j \in Nat /\ Len(w) = Len(q) - 1
      /\ \A x \in 1 .. Len(q) - 1 : w[x] = IF x < j THEN q[x] ELSE q[x + 1]
  BY WithoutElements, LenProperties
<1> HIDE DEF w
<1>2. f \in [1 .. Len(w) -> 1 .. Len(q)]
  BY <1>1
<1>3. \A x \in 1 .. Len(w) : w[x] = q[f[x]]
  BY <1>1
<1>4. \A x, y \in 1 .. Len(w) : f[x] = f[y] => x = y
  BY <1>1
<1> HIDE DEF f
<1> QED BY <1>2, <1>3, <1>4, ThinsBy DEF w

LEMMA ThinsOvertaken ==
  ASSUME NEW S, NEW q \in Seq(S), NEW j \in 1 .. Len(q), NEW i
  PROVE  Thins(<<q[j]>> \o Without(q, j), q, i)
<1> DEFINE a == <<q[j]>>
           b == Without(q, j)
           w == a \o b
           f == [x \in 1 .. Len(w) |-> IF x = 1 THEN j ELSE IF x <= j THEN x - 1 ELSE x]
<1>1. /\ Len(q) \in Nat /\ j \in Nat /\ b \in Seq(S) /\ Len(b) = Len(q) - 1
      /\ \A x \in 1 .. Len(q) - 1 : b[x] = IF x < j THEN q[x] ELSE q[x + 1]
  BY WithoutElements, LenProperties
<1>2. a \in Seq(S) /\ Len(a) = 1 /\ a[1] = q[j]
  BY ElementOfSeq
<1> HIDE DEF a, b
<1>3. /\ Len(w) = Len(a) + Len(b)
      /\ \A x \in 1 .. Len(a) + Len(b) : w[x] = IF x <= Len(a) THEN a[x] ELSE b[x - Len(a)]
  BY <1>1, <1>2, ConcatProperties
<1> HIDE DEF w
<1>4. Len(w) = Len(q) /\ w[1] = q[j] /\ \A x \in 1 .. Len(q) : x # 1 => w[x] = b[x - 1]
  BY <1>1, <1>2, <1>3
<1>5. f \in [1 .. Len(w) -> 1 .. Len(q)]
  BY <1>1, <1>4
<1>6. ASSUME NEW x \in 1 .. Len(w) PROVE w[x] = q[f[x]]
  <2>1. CASE x = 1
    BY <1>4, <2>1
  <2>2. CASE x # 1 /\ x <= j
    <3>1. x - 1 \in 1 .. Len(q) - 1 /\ x - 1 < j /\ f[x] = x - 1
      BY <1>1, <1>4, <2>2
    <3>2. b[x - 1] = q[x - 1]
      BY <1>1, <3>1
    <3> QED BY <1>4, <2>2, <3>1, <3>2
  <2>3. CASE x # 1 /\ ~(x <= j)
    <3>1. x - 1 \in 1 .. Len(q) - 1 /\ ~(x - 1 < j) /\ f[x] = x /\ (x - 1) + 1 = x
      BY <1>1, <1>4, <2>3
    <3>2. b[x - 1] = q[x]
      BY <1>1, <3>1
    <3> QED BY <1>4, <2>3, <3>1, <3>2
  <2> QED BY <2>1, <2>2, <2>3
<1>7. \A x, y \in 1 .. Len(w) : f[x] = f[y] => x = y
  BY <1>1, <1>4
<1>8. Thins(w, q, i)
  <2> HIDE DEF f
  <2> QED BY <1>5, <1>6, <1>7, ThinsBy
<1> QED BY <1>8 DEF w, a, b

\* What is appended and no token changes no token; a token is the only one
\* in a queue that had none.
LEMMA AppendTokens ==
  ASSUME NEW S, NEW q \in Seq(S), NEW r \in S, NEW i, NEW x \in Tokens(Append(q, r), i)
  PROVE  \/ x \in Tokens(q, i) /\ Append(q, r)[x] = q[x]
         \/ x = Len(q) + 1 /\ Append(q, r)[x] = r /\ Token(r, i)
<1>1. /\ Len(q) \in Nat /\ Len(Append(q, r)) = Len(q) + 1
      /\ \A y \in 1 .. Len(q) : Append(q, r)[y] = q[y]
      /\ Append(q, r)[Len(q) + 1] = r
  BY AppendProperties, LenProperties
<1>2. x \in 1 .. Len(q) + 1 /\ Token(Append(q, r)[x], i)
  BY <1>1 DEF Tokens
<1>3. CASE x \in 1 .. Len(q)
  BY <1>1, <1>2, <1>3 DEF Tokens
<1>4. CASE x \notin 1 .. Len(q)
  <2>1. x = Len(q) + 1
    BY <1>1, <1>2, <1>4
  <2> QED BY <1>1, <1>2, <2>1
<1> QED BY <1>3, <1>4

LEMMA NoTokenAppended ==
  ASSUME NEW S, NEW q \in Seq(S), NEW r \in S, NEW i, ~Token(r, i)
  PROVE  Tokens(Append(q, r), i) \subseteq Tokens(q, i)
BY AppendTokens

LEMMA ThinsAppend ==
  ASSUME NEW S, NEW q \in Seq(S), NEW r \in S, NEW i, ~Token(r, i), NEW old, Thins(q, old, i)
  PROVE  Thins(Append(q, r), old, i)
<1>1. \A x \in Tokens(Append(q, r), i) : x \in Tokens(q, i) /\ Append(q, r)[x] = q[x]
  BY AppendTokens
<1> QED BY <1>1 DEF Thins

Copies(i) == CopiesApart(i) /\ OnlyCopy(i) /\ NotYetHandled(i)

\* Where every queue is thinned, copies stay apart.
LEMMA ThinnedApart ==
  ASSUME NEW i, CopiesApart(i), OnlyCopy(i), ForMany(i)' <=> ForMany(i),
         \A l \in Link : Thins(net'[l], net[l], i)
  PROVE  CopiesApart(i)' /\ OnlyCopy(i)'
<1>1. ASSUME NEW l \in Link, NEW x \in Tokens(net'[l], i)
      PROVE  \E y \in Tokens(net[l], i) : net'[l][x] = net[l][y]
  BY <1>1 DEF Thins
<1>2. ASSUME NEW l \in Link, NEW x \in Tokens(net'[l], i), NEW y \in Tokens(net'[l], i)
      PROVE  x = y
  <2>1. \A a, b \in Tokens(net[l], i) : a = b
    BY DEF CopiesApart
  <2> QED BY <1>2, <2>1 DEF Thins
<1>3. CopiesApart(i)'
  <2> SUFFICES ASSUME NEW l \in Link, NEW o \in Link, NEW x \in Tokens(net'[l], i),
                      NEW y \in Tokens(net'[o], i), l[2] = o[2]
               PROVE  l = o /\ x = y
    BY DEF CopiesApart
  <2>1. l = o
    BY <1>1 DEF CopiesApart
  <2> QED BY <1>2, <2>1
<1>4. OnlyCopy(i)'
  <2> SUFFICES ASSUME NEW l \in Link, NEW o \in Link, NEW x \in Tokens(net'[l], i),
                      NEW y \in Tokens(net'[o], i), net'[l][x].broker \/ ~ForMany(i)
               PROVE  l = o /\ x = y
    BY DEF OnlyCopy
  <2>1. l = o
    BY <1>1 DEF OnlyCopy
  <2> QED BY <1>2, <2>1
<1> QED BY <1>3, <1>4

LEMMA ThinnedCopies ==
  ASSUME NEW i, Copies(i), ForMany(i)' <=> ForMany(i), handled'[i] = handled[i],
         \A l \in Link : Thins(net'[l], net[l], i)
  PROVE  Copies(i)'
<1>1. CopiesApart(i)' /\ OnlyCopy(i)'
  BY ThinnedApart DEF Copies
<1>2. NotYetHandled(i)'
  <2> SUFFICES ASSUME NEW l \in Link, NEW x \in Tokens(net'[l], i), NEW n \in Node,
                      n = l[2] \/ net'[l][x].broker \/ ~ForMany(i)
               PROVE  handled[i][n] = 0
    BY DEF NotYetHandled
  <2>1. PICK y \in Tokens(net[l], i) : net'[l][x] = net[l][y]
    BY DEF Thins
  <2> QED BY <2>1 DEF Copies, NotYetHandled
<1> QED BY <1>1, <1>2 DEF Copies

\* A request nobody has handled, and no queue has: one copy may be sent, or
\* one to each of several receivers.
LEMMA FirstCopies ==
  ASSUME NEW i, NEW queues \in Queues, NEW r \in Imq, \A l \in Link : Tokens(queues[l], i) = {},
         \A n \in Node : handled'[i][n] = 0,
         \/ \E o : AddsOnlyOn(o, queues, r)
         \/ (\E n : Adds(queues, n, r)) /\ ~r.broker /\ ForMany(i)'
  PROVE  Copies(i)'
<1>0. \A l \in Link : queues[l] \in Seq(Imq)
  BY DEF Queues
<1>1. ASSUME NEW l \in Link, NEW x \in Tokens(net'[l], i)
      PROVE  net'[l] = Append(queues[l], r) /\ x = Len(queues[l]) + 1 /\ net'[l][x] = r
  <2>1. net'[l] = Append(queues[l], r)
    BY <1>1 DEF Adds, AddsOnlyOn
  <2> QED BY <1>0, <1>1, <2>1, AppendTokens
<1>2. NotYetHandled(i)'
  BY DEF NotYetHandled
<1>3. CASE \E o : AddsOnlyOn(o, queues, r)
  <2>1. PICK o : AddsOnlyOn(o, queues, r)
    BY <1>3
  <2>2. ASSUME NEW l \in Link, NEW x \in Tokens(net'[l], i)
        PROVE  l = o /\ x = Len(queues[o]) + 1
    <3>1. net'[l] # queues[l] /\ x = Len(queues[l]) + 1
      BY <1>1, <2>2
    <3>2. l = o
      BY <2>1, <3>1 DEF AddsOnlyOn
    <3> QED BY <3>1, <3>2
  <2> QED BY <1>2, <2>2 DEF Copies, CopiesApart, OnlyCopy
<1>4. CASE (\E n : Adds(queues, n, r)) /\ ~r.broker /\ ForMany(i)'
  <2>1. PICK n : Adds(queues, n, r)
    BY <1>4
  <2>2. ASSUME NEW l \in Link, NEW x \in Tokens(net'[l], i)
        PROVE  l[1] = n /\ x = Len(queues[l]) + 1 /\ net'[l][x] = r
    <3>1. net'[l] # queues[l] /\ x = Len(queues[l]) + 1 /\ net'[l][x] = r
      BY <1>1, <2>2
    <3> QED BY <2>1, <3>1 DEF Adds
  <2>3. \A l, o \in Link : l[1] = o[1] /\ l[2] = o[2] => l = o
    BY DEF Link
  <2>4. CopiesApart(i)'
    BY <2>2, <2>3 DEF CopiesApart
  <2>5. \A l \in Link : \A x \in Tokens(net'[l], i) : ~net'[l][x].broker
    BY <1>4, <2>2
  <2>6. OnlyCopy(i)'
    BY <1>4, <2>5 DEF OnlyCopy
  <2> QED BY <1>2, <2>4, <2>6 DEF Copies
<1> QED BY <1>3, <1>4

\* A token that is received was the only one on its way to the receiver, and
\* the only one at all if it was for one receiver or not yet replayed.
LEMMA ReceivedGone ==
  ASSUME TypeOK, NEW k \in Node, NEW n \in Node, Waiting(k, n), NEW i, Copies(i),
         Token(Received(k, n), i)
  PROVE  /\ \A l \in Link : \A x \in Tokens(Rest(k, n)[l], i) :
              /\ l # <<k, n>> /\ l[2] # n
              /\ ~Received(k, n).broker /\ ForMany(i) /\ ~net[l][x].broker
         /\ handled[i][n] = 0
         /\ Received(k, n).broker \/ ~ForMany(i) => \A x \in Node : handled[i][x] = 0
<1> DEFINE q == net[<<k, n>>]
<1>1. /\ <<k, n>> \in Link /\ <<k, n>>[2] = n /\ q \in Seq(Imq) /\ q # << >>
      /\ Received(k, n) = q[1] /\ Len(q) \in Nat /\ 1 \in 1 .. Len(q)
      /\ Len(Tail(q)) = Len(q) - 1
      /\ \A x \in 1 .. Len(Tail(q)) : Tail(q)[x] = q[x + 1]
  <2>1. <<k, n>> \in Link /\ <<k, n>>[2] = n
    BY DEF Link
  <2>2. q \in Seq(Imq) /\ q # << >>
    BY <2>1 DEF Waiting, TypeOK, TransportOK
  <2>3. Received(k, n) = Head(q)
    BY DEF Received
  <2> HIDE DEF q
  <2> QED BY <2>1, <2>2, <2>3, HeadTailProperties, LenProperties, EmptySeq
<1>2. 1 \in Tokens(q, i)
  BY <1>1 DEF Tokens
<1>3. ASSUME NEW x \in Tokens(Tail(q), i) PROVE FALSE
  <2>1. x + 1 \in Tokens(q, i) /\ x \in 1 .. Len(q) - 1
    BY <1>1, <1>3 DEF Tokens
  <2>2. x + 1 = 1
    BY <1>1, <1>2, <2>1 DEF Copies, CopiesApart
  <2> QED BY <1>1, <2>1, <2>2
<1>4. ASSUME NEW l \in Link, NEW x \in Tokens(Rest(k, n)[l], i)
      PROVE  l # <<k, n>> /\ x \in Tokens(net[l], i)
  BY <1>3, <1>4, RestOn
<1>5. ASSUME NEW l \in Link, NEW x \in Tokens(Rest(k, n)[l], i)
      PROVE  l[2] # n /\ ~Received(k, n).broker /\ ForMany(i) /\ ~net[l][x].broker
  <2>1. l # <<k, n>> /\ x \in Tokens(net[l], i)
    BY <1>4, <1>5
  <2>2. l[2] # n
    BY <1>1, <1>2, <2>1 DEF Copies, CopiesApart
  <2>3. ~q[1].broker /\ ~net[l][x].broker /\ ForMany(i)
    BY <1>1, <1>2, <2>1 DEF Copies, OnlyCopy
  <2> QED BY <1>1, <2>2, <2>3
<1>6. /\ handled[i][n] = 0
      /\ Received(k, n).broker \/ ~ForMany(i) => \A x \in Node : handled[i][x] = 0
  BY <1>1, <1>2 DEF Copies, NotYetHandled
<1> QED BY <1>4, <1>5, <1>6

\* A handler that runs counts the request it was given.
LEMMA ReceptionHandles ==
  ASSUME NEW k, NEW n, RecieveMessage(k, n)
  PROVE  LET m == Received(k, n) IN
         \/ UNCHANGED handled
         \/ /\ m.sts = "REQ" /\ ForMe(n, m)
            /\ handled' = [handled EXCEPT ![m.id][n] = @ + 1]
BY DEF RecieveMessage, RecvBroker, RecvNotBroker, RecvRelay, RecvNotRelay, RecvCmd,
       RecvRequest, RecvUnhandled, RecvReply, RecvStrayReply

LEMMA ReceiveCopies ==
  ASSUME TypeOK, AnswerInv, RegistryInv, OnceInv, UNCHANGED issued,
         NEW k \in Node, NEW n \in Node, RecieveMessage(k, n), NEW i \in Id
  PROVE  Copies(i)'
<1>1. PICK m : m = Received(k, n)
  OBVIOUS
<1>2. /\ Waiting(k, n) /\ Rest(k, n) \in Queues
      /\ \A l \in Link : Rest(k, n)[l] \in Seq(Imq)
  BY ReceptionKinds, RestTyped DEF TypeOK, Queues
<1>3. m \in FaithfulTo(issued) /\ m.id \in Known /\ m.type = Request(m.id).type
  <2>1. m \in InFlight(net[<<k, n>>]) /\ <<k, n>> \in Link
    BY <1>1, <1>2, RestInFlight DEF Link
  <2> QED BY <2>1, InFlightFaithful DEF OnceInv, TypesKept
<1>4. PICK r \in Imq :
        /\ r.id = m.id
        /\ Adds(Rest(k, n), n, r)
        /\ \/ ~Token(r, m.id) /\ r.type = m.type
           \/ /\ m.broker \/ (ForOther(n, m) /\ r = m)
              /\ \E o : AddsOnlyOn(o, Rest(k, n), r)
              /\ r.type = m.type
           \/ m.broker /\ ~r.broker /\ r.type = IF m.type = "CAST" THEN "CAST" ELSE "QUEUE"
  BY <1>1, ReceptionAdds DEF RegistryInv
<1>5. Copies(i) /\ (ForMany(i)' <=> ForMany(i))
  BY DEF OnceInv, Copies, ForMany, Request
<1>6. ASSUME NEW l \in Link PROVE Thins(Rest(k, n)[l], net[l], i)
  <2>1. net[<<k, n>>] \in Seq(Imq) /\ net[<<k, n>>] # << >>
    BY <1>2 DEF Waiting, TypeOK, TransportOK, Link
  <2> QED BY <2>1, RestOn, ThinsTail, ThinsSelf
<1>7. ASSUME ~Token(r, i), NEW l \in Link PROVE Thins(net'[l], net[l], i)
  <2>1. net'[l] = Rest(k, n)[l] \/ net'[l] = Append(Rest(k, n)[l], r)
    BY <1>4 DEF Adds
  <2> QED BY <1>2, <1>6, <1>7, <2>1, ThinsAppend
<1>8. \/ UNCHANGED handled
      \/ /\ m.sts = "REQ" /\ ForMe(n, m)
         /\ handled' = [handled EXCEPT ![m.id][n] = @ + 1]
  BY <1>1, ReceptionHandles
<1>9. handled \in [Id -> [Node -> Nat]]
  BY DEF TypeOK, HistoryOK
<1>10. CASE i # m.id \/ ~Token(m, i)
  <2>1. ~Token(r, i)
    BY <1>4, <1>10 DEF Token, ForOther, ForBroker
  <2>2. handled'[i] = handled[i]
    BY <1>8, <1>9, <1>10 DEF Token
  <2> QED BY <1>5, <1>7, <2>1, <2>2, ThinnedCopies
<1>11. CASE i = m.id /\ Token(m, i)
  <2>1. /\ \A l \in Link : \A x \in Tokens(Rest(k, n)[l], i) :
             /\ l # <<k, n>> /\ l[2] # n
             /\ ~m.broker /\ ForMany(i) /\ ~net[l][x].broker
        /\ handled[i][n] = 0
        /\ m.broker \/ ~ForMany(i) => \A x \in Node : handled[i][x] = 0
    BY <1>1, <1>2, <1>5, <1>11, ReceivedGone
  <2>2. CASE ~Token(r, i)
    <3>1. CopiesApart(i)' /\ OnlyCopy(i)'
      BY <1>5, <1>7, <2>2, ThinnedApart DEF Copies
    <3>2. NotYetHandled(i)'
      <4> SUFFICES ASSUME NEW l \in Link, NEW x \in Tokens(net'[l], i), NEW y \in Node,
                          y = l[2] \/ net'[l][x].broker \/ ~ForMany(i)
                   PROVE  handled'[i][y] = 0
        BY <1>5 DEF NotYetHandled
      <4>1. net'[l] = Rest(k, n)[l] \/ net'[l] = Append(Rest(k, n)[l], r)
        BY <1>4 DEF Adds
      <4>2. x \in Tokens(Rest(k, n)[l], i) /\ net'[l][x] = Rest(k, n)[l][x]
        BY <1>2, <2>2, <4>1, AppendTokens
      <4>3. l # <<k, n>> /\ l[2] # n /\ ForMany(i) /\ ~net[l][x].broker
        BY <2>1, <4>2
      <4>4. Rest(k, n)[l] = net[l]
        BY <4>3, RestOn
      <4>5. y = l[2] /\ y # n
        BY <4>2, <4>3, <4>4
      <4>6. handled[i][y] = 0
        BY <1>5, <4>2, <4>4, <4>5 DEF Copies, NotYetHandled
      <4> QED BY <1>8, <1>9, <4>5, <4>6
    <3> QED BY <3>1, <3>2 DEF Copies
  <2>3. CASE Token(r, i)
    <3>1. m.broker \/ (ForOther(n, m) /\ r = m)
      BY <1>4, <1>11, <2>3
    <3>2. UNCHANGED handled
      BY <1>8, <3>1 DEF ForMe, ForBroker
    <3>3. m.broker \/ ~ForMany(i)
      <4>1. CASE ForOther(n, m) /\ ~m.broker
        <5>1. m.sts = "REQ" /\ m.to # NoName
          BY <1>11, <4>1 DEF Token, ForOther
        <5>2. m.to = Request(i).to
          BY <1>3, <1>11, <5>1 DEF FaithfulTo, Faithful, Request
        <5> QED BY <1>3, <1>11, <5>1, <5>2 DEF OnceInv, TypesKept
      <4> QED BY <3>1, <4>1
    <3>4. m.broker => ForMany(i)
      <4>1. m.broker => Request(i).broker
        BY <1>3, <1>11 DEF FaithfulTo, Faithful, Request
      <4> QED BY <1>3, <1>11, <4>1 DEF OnceInv, TypesKept
    <3>5. \A l \in Link : Tokens(Rest(k, n)[l], i) = {}
      BY <2>1, <3>3
    <3>6. \A x \in Node : handled'[i][x] = 0
      BY <2>1, <3>2, <3>3
    <3>7. \/ \E o : AddsOnlyOn(o, Rest(k, n), r)
          \/ (\E x : Adds(Rest(k, n), x, r)) /\ ~r.broker /\ ForMany(i)'
      BY <1>4, <1>5, <1>11, <2>3, <3>4
    <3> QED BY <1>2, <3>5, <3>6, <3>7, FirstCopies
  <2> QED BY <2>2, <2>3
<1> QED BY <1>10, <1>11

(***************************************************************************)
(* Every step keeps OnceInv.                                               *)
(***************************************************************************)
LEMMA KnownIds ==
  ASSUME TypeOK
  PROVE  Known \subseteq Id
BY LenProperties, MaxIdAssumption DEF Known, Id, TypeOK, HistoryOK

\* A new identifier: its message is the first with it.
LEMMA IssueOnce ==
  ASSUME TypeOK, TypeOK', AnswerInv, OnceInv, NEW id \in Id, id \notin Known,
         NEW m \in Imq, m.id = id, WellAddressed(m),
         Known' = Known \cup {id}, \A i \in Known : issued'[i] = issued[i],
         Request(id)' = m, UNCHANGED handled,
         \/ \E o : AddsOnlyOn(o, net, m)
         \/ (\E n : Adds(net, n, m)) /\ m.type \in {"CAST", "QUEUE"} /\ ~m.broker
  PROVE  OnceInv'
<1>1. ASSUME NEW l \in Link
      PROVE  /\ net[l] \in Seq(Imq)
             /\ net'[l] = net[l] \/ net'[l] = Append(net[l], m)
  BY DEF AddsOnlyOn, Adds, TypeOK, TransportOK
<1>2. ASSUME NEW l \in Link, NEW x \in InFlight(net'[l])
      PROVE  x \in InFlight(net[l]) \/ x = m
  <2>1. InFlight(Append(net[l], m)) = InFlight(net[l]) \cup {m}
    BY <1>1, AppendInFlight
  <2>2. CASE net'[l] = net[l]
    BY <1>2, <2>2
  <2>3. CASE net'[l] = Append(net[l], m)
    <3>1. x \in InFlight(Append(net[l], m))
      BY <1>2, <2>3
    <3> QED BY <2>1, <3>1
  <2> QED BY <1>1, <2>2, <2>3
<1>3. ASSUME NEW i, i \notin Known, NEW l \in Link PROVE Tokens(net[l], i) = {}
  <2>1. \A x \in 1 .. Len(net[l]) : net[l][x].id \in Known
    BY InFlightFaithful DEF InFlight
  <2> QED BY <1>3, <2>1 DEF Tokens, Token
<1>4. TypesKept'
  <2>1. ASSUME NEW i \in Known'
        PROVE  (Request(i)'.broker => ForMany(i)') /\ (ForMany(i)' => Request(i)'.to = NoName)
    <3>1. CASE i \in Known
      BY <3>1 DEF OnceInv, TypesKept, ForMany, Request
    <3>2. CASE i = id
      BY <3>2 DEF WellAddressed, ForMany
    <3> QED BY <2>1, <3>1, <3>2
  <2>2. ASSUME NEW l \in Link, NEW x \in InFlight(net'[l]) PROVE x.type = Request(x.id)'.type
    <3>1. CASE x \in InFlight(net[l])
      BY <3>1, InFlightFaithful DEF OnceInv, TypesKept, Request
    <3> QED BY <1>2, <2>2, <3>1
  <2> QED BY <2>1, <2>2 DEF TypesKept
<1>5. ASSUME NEW i \in Id PROVE Copies(i)'
  <2>1. CASE i \in Known
    <3>1. ForMany(i)' <=> ForMany(i)
      BY <2>1 DEF ForMany, Request
    <3>2. \A l \in Link : Thins(net'[l], net[l], i)
      BY <1>1, <2>1, ThinsSelf, ThinsAppend DEF Token
    <3>3. Copies(i)
      BY <1>5 DEF OnceInv, Copies
    <3> QED BY <3>1, <3>2, <3>3, ThinnedCopies
  <2>2. CASE i = id
    <3>1. \A n \in Node : handled'[i][n] = 0
      BY <1>5, <2>2 DEF OnceInv
    <3>2. \A l \in Link : Tokens(net[l], i) = {}
      BY <1>3, <2>2
    <3>3. \/ \E o : AddsOnlyOn(o, net, m)
          \/ (\E n : Adds(net, n, m)) /\ ~m.broker /\ ForMany(i)'
      BY <2>2 DEF ForMany
    <3>4. net \in Queues
      BY <1>1 DEF Queues, TypeOK, TransportOK
    <3> QED BY <3>1, <3>2, <3>3, <3>4, FirstCopies
  <2>3. CASE i \notin Known /\ i # id
    <3>1. \A l \in Link : Tokens(net'[l], i) = {}
      <4> SUFFICES ASSUME NEW l \in Link, NEW x \in Tokens(net'[l], i) PROVE FALSE
        OBVIOUS
      <4>1. ~Token(m, i) /\ Tokens(net[l], i) = {}
        BY <1>3, <2>3 DEF Token
      <4>2. Tokens(Append(net[l], m), i) = {}
        BY <1>1, <4>1, NoTokenAppended
      <4> QED BY <1>1, <4>1, <4>2
    <3> QED BY <3>1 DEF Copies, CopiesApart, OnlyCopy, NotYetHandled
  <2> QED BY <2>1, <2>2, <2>3
<1>6. \A i \in Id : i \notin Known' => \A n \in Node : handled'[i][n] = 0
  BY DEF OnceInv
<1>7. HandledOnce'
  <2> SUFFICES ASSUME NEW i \in Known'
               PROVE  /\ \A n \in Node : handled'[i][n] <= 1
                      /\ Request(i)'.type = "SINGLE" =>
                           \A n, k \in Node : handled'[i][n] > 0 /\ handled'[i][k] > 0 => n = k
    BY DEF HandledOnce
  <2>1. CASE i \in Known
    BY <2>1 DEF OnceInv, HandledOnce, Request
  <2>2. CASE i = id
    <3>1. \A n \in Node : handled'[i][n] = 0
      BY <2>2 DEF OnceInv
    <3> QED BY <3>1
  <2> QED BY <2>1, <2>2
<1> QED BY <1>4, <1>5, <1>6, <1>7 DEF OnceInv, Copies

\* Nothing new is sent, and no handler runs.
LEMMA ThinningOnce ==
  ASSUME TypeOK, OnceInv, UNCHANGED <<issued, handled>>,
         \A l \in Link : InFlight(net'[l]) \subseteq InFlight(net[l]),
         \A l \in Link, i \in Id : Thins(net'[l], net[l], i)
  PROVE  OnceInv'
<1>1. TypesKept'
  BY DEF OnceInv, TypesKept, Known, ForMany, Request
<1>2. ASSUME NEW i \in Id PROVE Copies(i)'
  <2>1. Copies(i) /\ (ForMany(i)' <=> ForMany(i)) /\ handled'[i] = handled[i]
    BY DEF OnceInv, Copies, ForMany, Request
  <2> QED BY <2>1, ThinnedCopies
<1>3. HandledOnce' /\ \A i \in Id : i \notin Known' => \A n \in Node : handled'[i][n] = 0
  BY DEF OnceInv, HandledOnce, Known, Request
<1> QED BY <1>1, <1>2, <1>3 DEF OnceInv, Copies

LEMMA OnceReceive ==
  ASSUME TypeOK, AnswerInv, RegistryInv, OnceInv,
         NEW k \in Node, NEW n \in Node, RecieveMessage(k, n)
  PROVE  OnceInv'
<1>1. PICK m : m = Received(k, n)
  OBVIOUS
<1>2. Waiting(k, n) /\ UNCHANGED issued
  BY RecieveMessageAnswers
<1>3. /\ m \in FaithfulTo(issued) /\ m.id \in Known /\ m.id \in Id
      /\ m.type = Request(m.id).type
      /\ \A l \in Link : InFlight(Rest(k, n)[l]) \subseteq InFlight(net[l])
  <2>1. m \in InFlight(net[<<k, n>>]) /\ <<k, n>> \in Link
    BY <1>1, <1>2, RestInFlight DEF Link
  <2> QED BY <1>2, <2>1, RestInFlight, InFlightFaithful, KnownIds DEF OnceInv, TypesKept
<1>4. TypesKept'
  <2>1. PICK r \in Imq :
          /\ r.id = m.id
          /\ Adds(Rest(k, n), n, r)
          /\ \/ r.type = m.type
             \/ m.broker /\ r.type = IF m.type = "CAST" THEN "CAST" ELSE "QUEUE"
    BY <1>1, ReceptionAdds DEF RegistryInv
  <2>2. m.broker => m.type \in {"CAST", "QUEUE"}
    <3>1. m.broker => Request(m.id).broker
      BY <1>3 DEF FaithfulTo, Faithful, Request
    <3> QED BY <1>3, <3>1 DEF OnceInv, TypesKept, ForMany
  <2>3. r.type = Request(r.id).type
    BY <1>3, <2>1, <2>2
  <2>4. ASSUME NEW l \in Link, NEW x \in InFlight(net'[l]) PROVE x \in InFlight(net[l]) \/ x = r
    <3>1. Rest(k, n)[l] \in Seq(Imq)
      BY <1>2, RestTyped DEF TypeOK, Queues
    <3>2. net'[l] = Rest(k, n)[l] \/ net'[l] = Append(Rest(k, n)[l], r)
      BY <2>1 DEF Adds
    <3>3. InFlight(Append(Rest(k, n)[l], r)) = InFlight(Rest(k, n)[l]) \cup {r}
      BY <2>1, <3>1, AppendInFlight
    <3> QED BY <1>3, <2>4, <3>2, <3>3
  <2> QED BY <1>2, <2>3, <2>4 DEF OnceInv, TypesKept, Known, ForMany, Request
<1>5. \A i \in Id : Copies(i)'
  BY <1>2, ReceiveCopies
<1>6. \/ UNCHANGED handled
      \/ /\ m.sts = "REQ" /\ ForMe(n, m)
         /\ handled' = [handled EXCEPT ![m.id][n] = @ + 1]
  BY <1>1, ReceptionHandles
<1>7. handled \in [Id -> [Node -> Nat]]
  BY DEF TypeOK, HistoryOK
<1>8. \A i \in Id : i \notin Known' => \A x \in Node : handled'[i][x] = 0
  BY <1>2, <1>3, <1>6, <1>7 DEF OnceInv, Known
<1>9. HandledOnce'
  <2>1. CASE UNCHANGED handled
    BY <1>2, <2>1 DEF OnceInv, HandledOnce, Known, Request
  <2>2. CASE /\ m.sts = "REQ" /\ ForMe(n, m)
             /\ handled' = [handled EXCEPT ![m.id][n] = @ + 1]
    <3>1. Copies(m.id) /\ Token(Received(k, n), m.id)
      BY <1>1, <1>3, <2>2 DEF OnceInv, Copies, Token
    <3>2. /\ handled[m.id][n] = 0
          /\ ~ForMany(m.id) => \A x \in Node : handled[m.id][x] = 0
      BY <1>2, <3>1, ReceivedGone
    <3>3. ASSUME NEW i \in Known'
          PROVE  /\ \A x \in Node : handled'[i][x] <= 1
                 /\ Request(i)'.type = "SINGLE" =>
                      \A x, y \in Node : handled'[i][x] > 0 /\ handled'[i][y] > 0 => x = y
      <4>0. i \in Known /\ i \in Id /\ Request(i)' = Request(i)
        BY <1>2, KnownIds DEF Known, Request
      <4>1. CASE i # m.id
        <5>1. handled'[i] = handled[i]
          BY <1>7, <2>2, <4>0, <4>1
        <5> QED BY <4>0, <5>1 DEF OnceInv, HandledOnce
      <4>2. CASE i = m.id
        <5>1. \A x \in Node : handled'[i][x] = IF x = n THEN 1 ELSE handled[i][x]
          BY <1>3, <1>7, <2>2, <3>2, <4>2
        <5>2. \A x \in Node : handled[i][x] <= 1
          BY <4>0 DEF OnceInv, HandledOnce
        <5>3. Request(i).type = "SINGLE" => ~ForMany(i)
          BY DEF ForMany
        <5> QED BY <3>2, <4>0, <4>2, <5>1, <5>2, <5>3
      <4> QED BY <4>1, <4>2
    <3> QED BY <3>3 DEF HandledOnce
  <2> QED BY <1>6, <2>1, <2>2
<1> QED BY <1>4, <1>5, <1>8, <1>9 DEF OnceInv, Copies

LEMMA OnceCall ==
  ASSUME TypeOK, TypeOK', AnswerInv, RegistryInv, OnceInv, CallStep
  PROVE  OnceInv'
<1>1. PICK n, k \in Node, m \in Asked(NextId), cb, stored \in BOOLEAN :
        /\ Issue(n, k, m, cb, stored) /\ WellAddressed(m)
        /\ \/ net' = Send(net, n, k, m)
           \/ FansOut(net, n, m) /\ m.type \in {"CAST", "QUEUE"} /\ ~m.broker
        /\ UNCHANGED handled
  BY DEF CallStep
<1>2. PICK id : id = NextId
  OBVIOUS
<1>3. m \in Imq /\ m.id = id
  BY <1>2 DEF Asked
<1>4. /\ id \in Id /\ id \notin Known /\ Known' = Known \cup {id}
      /\ \A i \in Known : issued'[i] = issued[i]
      /\ Request(id)' = m
  <2>1. /\ NextId \in Id /\ NextId \notin Known /\ Known' = Known \cup {NextId}
        /\ \A i \in Known : issued'[i] = issued[i]
        /\ issued'[NextId] = [node |-> n, via |-> k, msg |-> m, cb |-> cb]
    BY <1>1, <1>3, IssueExtends, TypeParts
  <2>2. issued'[id].msg = m
    BY <1>2, <2>1
  <2> QED BY <1>2, <2>1, <2>2 DEF Request
<1>5. net \in Queues /\ conn \subseteq Link /\ net \in [Link -> Seq(Imq)]
  BY DEF TypeOK, TransportOK, Queues
<1>6. CASE net' = Send(net, n, k, m)
  <2>1. \A l \in Link : net'[l] = IF l = <<n, k>> /\ l \in conn THEN Append(net[l], m) ELSE net[l]
    BY <1>5, <1>6, SendOn
  <2>2. AddsOnlyOn(<<n, k>>, net, m)
    BY <2>1 DEF AddsOnlyOn
  <2> QED BY <1>1, <1>3, <1>4, <2>2, IssueOnce
<1>7. CASE FansOut(net, n, m) /\ m.type \in {"CAST", "QUEUE"} /\ ~m.broker
  <2>1. PICK clients \in SUBSET Name : net' = FanOut(net, n, clients, m)
    BY <1>7 DEF FansOut
  <2>2. Adds(net, n, m)
    BY <1>3, <1>5, <2>1, FanOutAdds DEF RegistryInv
  <2> QED BY <1>1, <1>3, <1>4, <1>7, <2>2, IssueOnce
<1> QED BY <1>1, <1>6, <1>7

LEMMA OnceConnect ==
  ASSUME TypeOK, TypeOK', AnswerInv, OnceInv, NEW n \in Node, NEW k \in Node, Connect(n, k)
  PROVE  OnceInv'
<1>1. UNCHANGED handled
  BY DEF Connect
<1>2. CASE UNCHANGED <<net, issued>>
  BY <1>1, <1>2, ThinsSelf, ThinningOnce
<1>3. CASE Syn(k, n, conn \cup {<<n, k>>, <<k, n>>})
  <2>1. PICK id : id = NextId
    OBVIOUS
  <2>2. PICK m : m = SynMsg(id, name[k])
    OBVIOUS
  <2>3. id \in Id /\ name[k] \in Name
    BY <1>3, <2>1 DEF Syn, Issue, TypeOK, TablesOK
  <2>4. m \in Imq /\ m.id = id /\ m.type = "CMD" /\ ~m.broker
    BY <2>2, <2>3, SynMsgTyped DEF SynMsg, makeImq
  <2>5. Issue(k, n, m, TRUE, TRUE) /\ net' = [net EXCEPT ![<<k, n>>] = Append(@, m)]
    BY <1>3, <2>1, <2>2 DEF Syn
  <2>6. /\ id \notin Known /\ Known' = Known \cup {id}
        /\ \A i \in Known : issued'[i] = issued[i]
        /\ Request(id)' = m
    <3>1. /\ NextId \notin Known /\ Known' = Known \cup {NextId}
          /\ \A i \in Known : issued'[i] = issued[i]
          /\ issued'[NextId] = [node |-> k, via |-> n, msg |-> m, cb |-> TRUE]
      BY <2>4, <2>5, IssueExtends, TypeParts
    <3>2. issued'[id].msg = m
      BY <2>1, <3>1
    <3> QED BY <2>1, <3>1, <3>2 DEF Request
  <2>7. AddsOnlyOn(<<k, n>>, net, m)
    BY <2>5 DEF AddsOnlyOn, TypeOK, TransportOK
  <2>8. WellAddressed(m)
    BY <2>4 DEF WellAddressed
  <2> QED BY <1>1, <2>3, <2>4, <2>6, <2>7, <2>8, IssueOnce
<1> QED BY <1>2, <1>3 DEF Connect

\* Messages lost or overtaken are not repeated.
LEMMA DisturbThins ==
  ASSUME TypeOK, "duplicate" \notin Faults, NEW o \in Link, Disturb(o), NEW l \in Link, NEW i
  PROVE  Thins(net'[l], net[l], i)
<1>1. PICK j \in 1 .. Len(net[o]) : Lose(o, j) \/ Overtake(o, j)
  BY DEF Disturb, Duplicate
<1>2. net \in [Link -> Seq(Imq)]
  BY DEF TypeOK, TransportOK
<1>3. CASE l = o
  <2> DEFINE q == net[o]
  <2>1. net'[l] = Without(q, j) \/ net'[l] = <<q[j]>> \o Without(q, j)
    BY <1>1, <1>2, <1>3 DEF Lose, Overtake
  <2>2. q \in Seq(Imq) /\ j \in 1 .. Len(q)
    BY <1>2
  <2> HIDE DEF q
  <2>3. Thins(Without(q, j), q, i) /\ Thins(<<q[j]>> \o Without(q, j), q, i)
    BY <2>2, ThinsWithout, ThinsOvertaken
  <2> QED BY <1>3, <2>1, <2>3 DEF q
<1>4. CASE l # o
  BY <1>1, <1>2, <1>4, ThinsSelf DEF Lose, Overtake
<1> QED BY <1>3, <1>4

LEMMA OnceStep ==
  ASSUME "duplicate" \notin Faults, TypeOK, TypeOK', AnswerInv, RegistryInv, OnceInv, [Next]_vars
  PROVE  OnceInv'
<1>1. CASE UNCHANGED vars
  BY <1>1, ThinsSelf, ThinningOnce DEF vars
<1>2. ASSUME NEW n \in Node, Call(n) PROVE OnceInv'
  BY <1>2, CallIsCallStep, OnceCall
<1>3. ASSUME NEW n \in Node, Configure(n) PROVE OnceInv'
  <2>1. UNCHANGED <<net, issued, handled>>
    BY <1>3 DEF Configure, SetName, SetHandler, DelHandler, SetBrokerHandler, SetRelayHandler,
       CallAddSubscriber, CallDelSubscriber, DelMessage, untabled
  <2> QED BY <2>1, ThinsSelf, ThinningOnce
<1>4. ASSUME NEW n \in Node, NEW k \in Node, RecieveMessage(k, n) PROVE OnceInv'
  BY <1>4, OnceReceive
<1>5. ASSUME NEW n \in Node, NEW k \in Node, Connect(n, k) PROVE OnceInv'
  BY <1>5, OnceConnect
<1>6. ASSUME NEW n \in Node, NEW k \in Node, Disconnect(n, k) PROVE OnceInv'
  <2>1. \A l \in Link : InFlight(net'[l]) \subseteq InFlight(net[l])
    <3>1. InFlight(<< >>) = {}
      BY EmptySeq DEF InFlight
    <3> QED BY <1>6, <3>1, DisconnectInFlight
  <2>2. \A l \in Link, i \in Id : Thins(net'[l], net[l], i)
    BY <1>6, DisconnectInFlight, ThinsSelf
  <2> QED BY <1>6, <2>1, <2>2, ThinningOnce DEF Disconnect
<1>7. ASSUME NEW o \in Link, Disturb(o) PROVE OnceInv'
  <2>1. UNCHANGED <<issued, handled>>
    BY <1>7 DEF Disturb
  <2> QED BY <1>7, <2>1, DisturbInFlight, DisturbThins, ThinningOnce
<1> QED BY <1>1, <1>2, <1>3, <1>4, <1>5, <1>6, <1>7 DEF Next

LEMMA OnceInit == Init => OnceInv
<1> SUFFICES ASSUME Init PROVE OnceInv
  OBVIOUS
<1>1. Known = {} /\ \A l \in Link : InFlight(net[l]) = {}
  BY EmptySeq DEF Init, Known, InFlight
<1>2. \A l \in Link, i \in Id : Tokens(net[l], i) = {}
  BY EmptySeq DEF Init, Tokens
<1>3. \A i \in Id, n \in Node : handled[i][n] = 0
  BY DEF Init
<1> QED BY <1>1, <1>2, <1>3 DEF OnceInv, TypesKept, HandledOnce, CopiesApart, OnlyCopy, NotYetHandled

\* On a transport that repeats nothing, OnceInv holds in every state: the
\* copies of a request a broker or a relay makes never meet.
THEOREM OnceInvariance ==
  ASSUME NamesKept, "duplicate" \notin Faults
  PROVE  Spec => []OnceInv
<1>1. TypeOK /\ TypeOK' /\ AnswerInv /\ RegistryInv /\ OnceInv /\ [Next]_vars => OnceInv'
  BY OnceStep
<1> QED BY <1>1, OnceInit, TypeCorrect, AnswerInvariance, RegistryInvariance, PTL DEF Spec

\* On such a transport no handler is run twice for a request, and a request
\* for one receiver runs the handler of one process only.
THEOREM Once ==
  ASSUME NamesKept, "duplicate" \notin Faults
  PROVE  Spec => []HandledOnce
<1>1. OnceInv => HandledOnce
  BY DEF OnceInv
<1> QED BY <1>1, OnceInvariance, PTL

(***************************************************************************)
(* Subscriptions: a client that subscribes over one reliable connection    *)
(* and the server's table agree once its orders have arrived.              *)
(***************************************************************************)

(***************************************************************************)
(* Who is among the subscribers after an operation on the table.           *)
(***************************************************************************)
LEMMA SubscribersAdd ==
  ASSUME NEW t, NEW client, NEW path, NEW p
  PROVE  Subscribers(AddSubscriber(t, client, path), p) =
           IF p = path THEN Subscribers(t, p) \cup {client} ELSE Subscribers(t, p)
BY DEF Subscribers, AddSubscriber

LEMMA SubscribersDel ==
  ASSUME NEW t, NEW client, NEW path, NEW p
  PROVE  Subscribers(DelSubscriber(t, client, path), p) =
           IF p = path THEN Subscribers(t, p) \ {client} ELSE Subscribers(t, p)
<1> DEFINE left == Subscribers(t, path) \ {client}
<1>1. CASE p # path
  BY <1>1 DEF Subscribers, DelSubscriber
<1>2. CASE p = path
  BY <1>2 DEF Subscribers, DelSubscriber
<1> QED BY <1>1, <1>2

LEMMA SubscribersQueued ==
  ASSUME NEW t, IsTable(t), NEW path \in Path \cup {NoPath}, NEW o \in QueueOutcomes(t, path), NEW p
  PROVE  Subscribers(o.table, p) = Subscribers(t, p)
<1>1. CASE Subscribers(t, path) = {}
  BY <1>1 DEF QueueOutcomes
<1>2. CASE Subscribers(t, path) # {}
  <2>1. path \in DOMAIN t /\ PartialFunction(t[path], Name, BOOLEAN)
    BY <1>2 DEF Subscribers, IsTable
  <2>2. PICK x \in sendQueue(t[path]) : o = [to |-> x.to, table |-> [t EXCEPT ![path] = x.marks]]
    BY <1>2 DEF QueueOutcomes
  <2>3. DOMAIN x.marks = DOMAIN t[path]
    BY <2>1, <2>2, sendQueueTyped
  <2> QED BY <2>1, <2>2, <2>3 DEF Subscribers
<1> QED BY <1>1, <1>2

(***************************************************************************)
(* How the orders for a path go through a queue.                           *)
(***************************************************************************)
OrderFor(m, p) == Order(m) /\ m.path = p

LEMMA AppendElements ==
  ASSUME NEW S, NEW q \in Seq(S), NEW r \in S
  PROVE  /\ Len(q) \in Nat /\ Len(Append(q, r)) = Len(q) + 1
         /\ \A x \in 1 .. Len(q) : Append(q, r)[x] = q[x]
         /\ Append(q, r)[Len(q) + 1] = r
BY AppendProperties, LenProperties

LEMMA AppendOther ==
  ASSUME NEW S, NEW q \in Seq(S), NEW r \in S, NEW p, ~OrderFor(r, p), NEW H, NEW c, NEW C,
         AgreedOn(q, p, H, c, C)
  PROVE  AgreedOn(Append(q, r), p, H, c, C)
<1> DEFINE w == Append(q, r)
<1>1. /\ Len(q) \in Nat /\ Len(w) = Len(q) + 1
      /\ \A x \in 1 .. Len(q) : w[x] = q[x]
      /\ w[Len(q) + 1] = r
  BY AppendElements
<1> HIDE DEF w
<1>2. OrdersFor(w, p) = OrdersFor(q, p)
  BY <1>1 DEF OrdersFor, OrderFor
<1>3. \A j \in OrdersFor(q, p) : w[j] = q[j]
  BY <1>1 DEF OrdersFor
<1> QED BY <1>2, <1>3 DEF AgreedOn, w

LEMMA AppendOrder ==
  ASSUME NEW S, NEW q \in Seq(S), NEW r \in S, NEW p, OrderFor(r, p), NEW H, NEW c, NEW C,
         p \in H <=> r.cmd = "SUB"
  PROVE  AgreedOn(Append(q, r), p, H, c, C)
<1> DEFINE w == Append(q, r)
<1>1. /\ Len(q) \in Nat /\ Len(w) = Len(q) + 1
      /\ w[Len(q) + 1] = r
  BY AppendElements
<1> HIDE DEF w
<1>2. Len(q) + 1 \in OrdersFor(w, p)
  BY <1>1 DEF OrdersFor, OrderFor
<1>3. ASSUME NEW j \in OrdersFor(w, p), \A x \in OrdersFor(w, p) : x <= j
      PROVE  w[j] = r
  <2>1. j \in 1 .. Len(q) + 1 /\ Len(q) + 1 <= j
    BY <1>1, <1>2, <1>3 DEF OrdersFor
  <2> QED BY <1>1, <2>1
<1> QED BY <1>2, <1>3 DEF AgreedOn, w

LEMMA TailElements ==
  ASSUME NEW S, NEW q \in Seq(S), q # << >>
  PROVE  /\ Len(q) \in Nat /\ 1 \in 1 .. Len(q) /\ Len(Tail(q)) = Len(q) - 1 /\ Head(q) = q[1]
         /\ \A x \in 1 .. Len(q) - 1 : Tail(q)[x] = q[x + 1]
BY HeadTailProperties, LenProperties, EmptySeq

LEMMA TailOrders ==
  ASSUME NEW S, NEW q \in Seq(S), q # << >>, NEW p
  PROVE  /\ \A x \in OrdersFor(Tail(q), p) :
              x \in Nat /\ x + 1 \in OrdersFor(q, p) /\ Tail(q)[x] = q[x + 1]
         /\ \A x \in OrdersFor(q, p) : x = 1 \/ (x \in Nat /\ x - 1 \in OrdersFor(Tail(q), p))
<1> DEFINE w == Tail(q)
<1>1. /\ Len(q) \in Nat /\ Len(w) = Len(q) - 1
      /\ \A x \in 1 .. Len(q) - 1 : w[x] = q[x + 1]
  BY TailElements
<1> HIDE DEF w
<1>2. ASSUME NEW x \in OrdersFor(w, p)
      PROVE  x \in Nat /\ x + 1 \in OrdersFor(q, p) /\ w[x] = q[x + 1]
  BY <1>1, <1>2 DEF OrdersFor
<1>3. ASSUME NEW x \in OrdersFor(q, p), x # 1
      PROVE  x \in Nat /\ x - 1 \in OrdersFor(w, p)
  <2>1. x \in 1 .. Len(q) /\ x - 1 \in 1 .. Len(q) - 1 /\ (x - 1) + 1 = x
    BY <1>1, <1>3 DEF OrdersFor
  <2>2. w[x - 1] = q[x]
    BY <1>1, <2>1
  <2> QED BY <1>1, <1>3, <2>1, <2>2 DEF OrdersFor
<1> QED BY <1>2, <1>3 DEF w

LEMMA TailOther ==
  ASSUME NEW S, NEW q \in Seq(S), q # << >>, NEW p, ~OrderFor(Head(q), p), NEW H, NEW c, NEW C,
         AgreedOn(q, p, H, c, C)
  PROVE  AgreedOn(Tail(q), p, H, c, C)
<1> DEFINE w == Tail(q)
<1>1. 1 \notin OrdersFor(q, p)
  BY TailElements DEF OrdersFor, OrderFor
<1>2. /\ \A x \in OrdersFor(w, p) :
           x \in Nat /\ x + 1 \in OrdersFor(q, p) /\ w[x] = q[x + 1]
      /\ \A x \in OrdersFor(q, p) : x \in Nat /\ x - 1 \in OrdersFor(w, p)
  BY <1>1, TailOrders
<1> HIDE DEF w
<1>3. ASSUME NEW j \in OrdersFor(w, p), \A x \in OrdersFor(w, p) : x <= j
      PROVE  p \in H <=> w[j].cmd = "SUB"
  <2>1. j + 1 \in OrdersFor(q, p) /\ w[j] = q[j + 1] /\ \A x \in OrdersFor(q, p) : x <= j + 1
    BY <1>2, <1>3
  <2> QED BY <2>1 DEF AgreedOn
<1>4. ASSUME OrdersFor(w, p) = {} PROVE p \in H <=> c \in C
  BY <1>2, <1>4 DEF AgreedOn
<1> QED BY <1>3, <1>4 DEF AgreedOn, w

LEMMA TailOrder ==
  ASSUME NEW S, NEW q \in Seq(S), q # << >>, NEW p, OrderFor(Head(q), p), NEW H, NEW c, NEW C,
         NEW D, AgreedOn(q, p, H, c, C), c \in D <=> Head(q).cmd = "SUB"
  PROVE  AgreedOn(Tail(q), p, H, c, D)
<1> DEFINE w == Tail(q)
<1>1. 1 \in OrdersFor(q, p) /\ Head(q) = q[1]
  BY TailElements DEF OrdersFor, OrderFor
<1>2. /\ \A x \in OrdersFor(w, p) :
           x \in Nat /\ x + 1 \in OrdersFor(q, p) /\ w[x] = q[x + 1]
      /\ \A x \in OrdersFor(q, p) : x = 1 \/ (x \in Nat /\ x - 1 \in OrdersFor(w, p))
  BY TailOrders
<1> HIDE DEF w
<1>3. ASSUME NEW j \in OrdersFor(w, p), \A x \in OrdersFor(w, p) : x <= j
      PROVE  p \in H <=> w[j].cmd = "SUB"
  <2>1. j + 1 \in OrdersFor(q, p) /\ w[j] = q[j + 1] /\ \A x \in OrdersFor(q, p) : x <= j + 1
    BY <1>2, <1>3
  <2> QED BY <2>1 DEF AgreedOn
<1>4. ASSUME OrdersFor(w, p) = {} PROVE p \in H <=> c \in D
  <2>1. \A x \in OrdersFor(q, p) : x <= 1
    BY <1>2, <1>4
  <2>2. p \in H <=> q[1].cmd = "SUB"
    BY <1>1, <2>1 DEF AgreedOn
  <2> QED BY <1>1, <2>2
<1> QED BY <1>3, <1>4 DEF AgreedOn, w

LEMMA AgreedSame ==
  ASSUME NEW q, NEW p, NEW H, NEW c, NEW C, NEW G, NEW D, AgreedOn(q, p, H, c, C),
         p \in G <=> p \in H, c \in D <=> c \in C
  PROVE  AgreedOn(q, p, G, c, D)
BY DEF AgreedOn

(***************************************************************************)
(* Messages that are no orders may be added to any queue, as many as there *)
(* are.                                                                    *)
(***************************************************************************)
Quiet == {m \in Imq : ~Order(m)}

AddsQuiet(queues) ==
  \A l \in Link : \E more \in Seq(Quiet) : net'[l] = queues[l] \o more

LEMMA NothingAdded ==
  ASSUME NEW q \in Seq(Imq)
  PROVE  \E more \in Seq(Quiet) : q = q \o more
<1>1. << >> \in Seq(Quiet) /\ q = q \o << >>
  BY EmptySeq, ConcatEmptySeq
<1> QED BY <1>1

LEMMA OneAdded ==
  ASSUME NEW q \in Seq(Imq), NEW m \in Quiet
  PROVE  \E more \in Seq(Quiet) : Append(q, m) = q \o more
<1>1. <<m>> \in Seq(Quiet) /\ m \in Imq
  BY DEF Quiet
<1>2. Append(q, m) = q \o <<m>>
  BY <1>1, AppendIsConcat
<1> QED BY <1>1, <1>2

LEMMA UnchangedQuiet ==
  ASSUME NEW queues \in Queues, net' = queues
  PROVE  AddsQuiet(queues)
BY NothingAdded DEF AddsQuiet, Queues

LEMMA SendQuiet ==
  ASSUME NEW queues \in Queues, conn \subseteq Link, NEW n \in Node, NEW k, NEW m \in Quiet,
         net' = Send(queues, n, k, m)
  PROVE  AddsQuiet(queues)
<1> SUFFICES ASSUME NEW l \in Link
             PROVE  \E more \in Seq(Quiet) : net'[l] = queues[l] \o more
  BY DEF AddsQuiet
<1>1. queues[l] \in Seq(Imq) /\ queues \in [Link -> Seq(Imq)]
  BY DEF Queues
<1>2. Send(queues, n, k, m)[l] = IF l = <<n, k>> /\ l \in conn THEN Append(queues[l], m)
                                 ELSE queues[l]
  BY <1>1, SendOn
<1>3. net'[l] = queues[l] \/ net'[l] = Append(queues[l], m)
  BY <1>2
<1> QED BY <1>1, <1>3, NothingAdded, OneAdded

LEMMA RepeatedIsASeq ==
  ASSUME NEW S, NEW m \in S, NEW N \in Nat
  PROVE  [j \in 1 .. N |-> m] \in Seq(S)
BY IsASeq

LEMMA FanOutQuiet ==
  ASSUME NEW queues \in Queues, NEW n, NEW clients \in SUBSET Name, NEW m \in Quiet,
         net' = FanOut(queues, n, clients, m)
  PROVE  AddsQuiet(queues)
<1> SUFFICES ASSUME NEW l \in Link
             PROVE  \E more \in Seq(Quiet) : net'[l] = queues[l] \o more
  BY DEF AddsQuiet
<1> DEFINE N == Cardinality({c \in clients : Socket(n, c) = l[2]})
           more == [j \in 1 .. N |-> m]
<1>1. IsFiniteSet({c \in clients : Socket(n, c) = l[2]})
  BY FiniteAssumption, FS_Subset
<1>2. N \in Nat
  BY <1>1, FS_CardinalityType
<1> HIDE DEF N
<1>3. more \in Seq(Quiet)
  <2> HIDE DEF Quiet
  <2> QED BY <1>2, RepeatedIsASeq
<1>4. net'[l] = queues[l] \/ net'[l] = queues[l] \o more
  BY DEF FanOut, N
<1>5. queues[l] \in Seq(Imq)
  BY DEF Queues
<1> HIDE DEF more
<1> QED BY <1>3, <1>4, <1>5, NothingAdded

LEMMA ConcatElements ==
  ASSUME NEW q \in Seq(Imq), NEW more \in Seq(Quiet)
  PROVE  /\ Len(q) \in Nat /\ Len(more) \in Nat /\ Len(q \o more) = Len(q) + Len(more)
         /\ \A x \in 1 .. Len(q) : (q \o more)[x] = q[x]
         /\ \A x \in 1 .. Len(q) + Len(more) : x > Len(q) => (q \o more)[x] \in Quiet
<1>1. more \in Seq(Imq) /\ Len(q) \in Nat /\ Len(more) \in Nat
  BY SeqMonotonic, LenProperties DEF Quiet
<1>2. /\ Len(q \o more) = Len(q) + Len(more)
      /\ \A x \in 1 .. Len(q) + Len(more) :
           (q \o more)[x] = IF x <= Len(q) THEN q[x] ELSE more[x - Len(q)]
  BY <1>1, ConcatProperties
<1>3. \A x \in 1 .. Len(more) : more[x] \in Quiet
  BY ElementOfSeq
<1> HIDE DEF Quiet
<1>4. ASSUME NEW x \in 1 .. Len(q) + Len(more), x > Len(q) PROVE (q \o more)[x] \in Quiet
  <2>1. x - Len(q) \in 1 .. Len(more) /\ ~(x <= Len(q))
    BY <1>1, <1>4
  <2> QED BY <1>2, <1>3, <2>1
<1>5. \A x \in 1 .. Len(q) : (q \o more)[x] = q[x]
  BY <1>1, <1>2
<1> QED BY <1>1, <1>2, <1>4, <1>5

LEMMA AgreedQuiet ==
  ASSUME NEW q \in Seq(Imq), NEW more \in Seq(Quiet), NEW p, NEW H, NEW c, NEW C,
         AgreedOn(q, p, H, c, C)
  PROVE  AgreedOn(q \o more, p, H, c, C)
<1> DEFINE w == q \o more
<1>1. /\ Len(q) \in Nat /\ Len(more) \in Nat /\ Len(w) = Len(q) + Len(more)
      /\ \A x \in 1 .. Len(q) : w[x] = q[x]
      /\ \A x \in 1 .. Len(q) + Len(more) : x > Len(q) => w[x] \in Quiet
  BY ConcatElements
<1> HIDE DEF w
<1>2. OrdersFor(w, p) = OrdersFor(q, p)
  <2>1. ASSUME NEW j \in OrdersFor(w, p) PROVE j \in OrdersFor(q, p)
    <3>1. j \in 1 .. Len(q) + Len(more) /\ Order(w[j]) /\ w[j].path = p
      BY <1>1, <2>1 DEF OrdersFor
    <3>2. j <= Len(q)
      BY <1>1, <3>1 DEF Quiet
    <3>3. j \in 1 .. Len(q)
      BY <1>1, <3>1, <3>2
    <3> QED BY <1>1, <3>1, <3>3 DEF OrdersFor
  <2>2. ASSUME NEW j \in OrdersFor(q, p) PROVE j \in OrdersFor(w, p)
    <3>1. j \in 1 .. Len(q) /\ Order(q[j]) /\ q[j].path = p
      BY <2>2 DEF OrdersFor
    <3>2. j \in 1 .. Len(w) /\ w[j] = q[j]
      BY <1>1, <3>1
    <3> QED BY <3>1, <3>2 DEF OrdersFor
  <2> QED BY <2>1, <2>2
<1>3. \A j \in OrdersFor(q, p) : w[j] = q[j]
  BY <1>1 DEF OrdersFor
<1> QED BY <1>2, <1>3 DEF AgreedOn, w

LEMMA InFlightQuiet ==
  ASSUME NEW q \in Seq(Imq), NEW more \in Seq(Quiet), NEW m \in InFlight(q \o more)
  PROVE  m \in InFlight(q) \/ m \in Quiet
<1>1. /\ Len(q) \in Nat /\ Len(more) \in Nat /\ Len(q \o more) = Len(q) + Len(more)
      /\ \A x \in 1 .. Len(q) : (q \o more)[x] = q[x]
      /\ \A x \in 1 .. Len(q) + Len(more) : x > Len(q) => (q \o more)[x] \in Quiet
  BY ConcatElements
<1>2. PICK x \in 1 .. Len(q) + Len(more) : m = (q \o more)[x]
  BY <1>1 DEF InFlight
<1>3. CASE x > Len(q)
  BY <1>1, <1>2, <1>3
<1>4. CASE x <= Len(q)
  <2>1. x \in 1 .. Len(q)
    BY <1>1, <1>4
  <2> QED BY <1>1, <1>2, <2>1 DEF InFlight
<1> QED BY <1>1, <1>3, <1>4

(***************************************************************************)
(* What a step does to orders, handlers and tables.                        *)
(***************************************************************************)
SameSubscribers ==
  \A k \in Node, p \in Path : Subscribers(subscribers'[k], p) = Subscribers(subscribers[k], p)

OrderCall(n, k, m) ==
  /\ <<n, k>> \in conn /\ net' = Send(net, n, k, m)
  /\ Order(m) /\ m.to = NoName /\ ~m.broker /\ m.from = name[n]
  /\ \/ m.cmd = "SUB" /\ handlers' = [handlers EXCEPT ![n] = @ \cup {m.path}]
     \/ m.cmd = "UNSUB" /\ handlers' = [handlers EXCEPT ![n] = @ \ {m.path}]
     \/ "SubNil" \in Program[n].calls /\ UNCHANGED handlers

OtherCall == AddsQuiet(net) /\ UNCHANGED handlers

LEMMA CallOrders ==
  ASSUME TypeOK, NEW n \in Node, Call(n)
  PROVE  /\ UNCHANGED <<conn, name>> /\ SameSubscribers
         /\ OtherCall \/ \E k \in Node, m \in Imq : OrderCall(n, k, m)
<1> USE DEF tables, transport
<1>0. /\ name[n] \in Name /\ net \in Queues /\ conn \subseteq Link
      /\ Program[n] \in ProgramType
  BY ProgramType_ DEF TypeOK, TablesOK, TransportOK, Queues
<1>1. PICK path \in Path, cb \in Program[n].callbacks :
        \/ MultLocal(n, path, cb)
        \/ QueueLocal(n, path, cb)
        \/ \E k \in Node :
             \/ \E to \in Program[n].to : Req(n, k, to, path, cb) \/ Ready(n, k, to, path, cb)
             \/ \E handler \in BOOLEAN : Sub(n, k, path, handler, cb)
             \/ UnSub(n, k, path, cb)
             \/ Mult(n, k, path, cb)
             \/ Queue(n, k, path, cb)
  BY DEF Call
<1>2. NextId \in Id /\ Program[n].to \subseteq Name \cup {NoName}
  BY <1>0, <1>1 DEF MultLocal, QueueLocal, Req, Ready, Sub, UnSub, Mult, Queue, Issue, ProgramType
<1>3. ASSUME NEW to \in Name \cup {NoName}
      PROVE  /\ ReadyMsg(NextId, name[n], to, path) \in Imq
             /\ ReqMsg(NextId, name[n], to, path) \in Imq
             /\ SubMsg(NextId, name[n], path) \in Imq
             /\ UnSubMsg(NextId, name[n], path) \in Imq
             /\ \A broker \in BOOLEAN : /\ MultMsg(NextId, name[n], broker, path) \in Imq
                                        /\ QueueMsg(NextId, name[n], broker, path) \in Imq
  BY <1>0, <1>2, RequestsTyped
<1>4. /\ \A to \in Program[n].to : /\ ReqMsg(NextId, name[n], to, path) \in Quiet
                                   /\ ReadyMsg(NextId, name[n], to, path) \in Quiet
      /\ \A broker \in BOOLEAN : /\ MultMsg(NextId, name[n], broker, path) \in Quiet
                                 /\ QueueMsg(NextId, name[n], broker, path) \in Quiet
  <2>1. \A to : ~Order(ReqMsg(NextId, name[n], to, path)) /\ ~Order(ReadyMsg(NextId, name[n], to, path))
    BY DEF ReqMsg, ReadyMsg, makeImq, Order
  <2>2. \A broker : /\ ~Order(MultMsg(NextId, name[n], broker, path))
                    /\ ~Order(QueueMsg(NextId, name[n], broker, path))
    BY DEF MultMsg, QueueMsg, makeImq, Order
  <2> QED BY <1>2, <1>3, <2>1, <2>2 DEF Quiet
<1>5. CASE MultLocal(n, path, cb)
  <2>1. Subscribers(subscribers[n], path) \in SUBSET Name
    BY SubscribersTyped DEF TypeOK, TablesOK
  <2>2. /\ net' = FanOut(net, n, Subscribers(subscribers[n], path),
                         MultMsg(NextId, name[n], FALSE, path))
        /\ UNCHANGED <<conn, name, handlers, subscribers>>
    BY <1>5 DEF MultLocal
  <2>3. AddsQuiet(net)
    BY <1>0, <1>4, <2>1, <2>2, FanOutQuiet
  <2> QED BY <2>2, <2>3 DEF OtherCall, SameSubscribers
<1>6. CASE QueueLocal(n, path, cb)
  <2>1. PICK o \in QueueOutcomes(subscribers[n], path) :
          /\ net' = FanOut(net, n, o.to, QueueMsg(NextId, name[n], FALSE, path))
          /\ subscribers' = [subscribers EXCEPT ![n] = o.table]
    BY <1>6 DEF QueueLocal
  <2>2. o.to \in SUBSET Name /\ IsTable(subscribers[n]) /\ DOMAIN subscribers = Node
    BY QueueOutcomesTyped DEF TypeOK, TablesOK
  <2>3. AddsQuiet(net)
    BY <1>0, <1>4, <2>1, <2>2, FanOutQuiet
  <2>4. SameSubscribers
    BY <2>1, <2>2, SubscribersQueued DEF SameSubscribers
  <2> QED BY <1>6, <2>3, <2>4 DEF QueueLocal, OtherCall
<1>7. ASSUME NEW k \in Node, NEW to \in Program[n].to,
             Req(n, k, to, path, cb) \/ Ready(n, k, to, path, cb)
      PROVE  OtherCall
  <2>1. PICK m \in Quiet : net' = Send(net, n, k, m)
    BY <1>4, <1>7 DEF Req, Ready
  <2> QED BY <1>0, <1>7, <2>1, SendQuiet DEF Req, Ready, OtherCall
<1>8. ASSUME NEW k \in Node, Mult(n, k, path, cb) \/ Queue(n, k, path, cb)
      PROVE  OtherCall
  <2>1. PICK m \in Quiet : net' = Send(net, n, k, m)
    BY <1>4, <1>8 DEF Mult, Queue
  <2> QED BY <1>0, <1>8, <2>1, SendQuiet DEF Mult, Queue, OtherCall
<1>9. ASSUME NEW k \in Node, NEW handler \in BOOLEAN, Sub(n, k, path, handler, cb)
      PROVE  \E m \in Imq : OrderCall(n, k, m)
  <2>1. PICK m : m = SubMsg(NextId, name[n], path)
    OBVIOUS
  <2>2. /\ m \in Imq /\ Order(m) /\ m.to = NoName /\ ~m.broker /\ m.from = name[n]
        /\ m.path = path /\ m.cmd = "SUB"
    <3>1. m \in Imq
      BY <1>0, <1>3, <2>1
    <3> QED BY <2>1, <3>1 DEF SubMsg, makeImq, Order
  <2> QED BY <1>9, <2>1, <2>2 DEF Sub, MayCall, OrderCall
<1>10. ASSUME NEW k \in Node, UnSub(n, k, path, cb)
       PROVE  \E m \in Imq : OrderCall(n, k, m)
  <2>1. PICK m : m = UnSubMsg(NextId, name[n], path)
    OBVIOUS
  <2>2. /\ m \in Imq /\ Order(m) /\ m.to = NoName /\ ~m.broker /\ m.from = name[n]
        /\ m.path = path /\ m.cmd = "UNSUB"
    <3>1. m \in Imq
      BY <1>0, <1>3, <2>1
    <3> QED BY <2>1, <3>1 DEF UnSubMsg, makeImq, Order
  <2> QED BY <1>10, <2>1, <2>2 DEF UnSub, OrderCall
<1>11. CASE ~(MultLocal(n, path, cb) \/ QueueLocal(n, path, cb))
  <2>1. UNCHANGED <<conn, name, subscribers>>
    BY <1>1, <1>11 DEF Req, Ready, Sub, UnSub, Mult, Queue
  <2>2. OtherCall \/ \E k \in Node, m \in Imq : OrderCall(n, k, m)
    BY <1>1, <1>7, <1>8, <1>9, <1>10, <1>11
  <2> QED BY <2>1, <2>2 DEF SameSubscribers
<1> QED BY <1>5, <1>6, <1>11

\* A reception sends no new orders.
LEMMA ReceptionOrders ==
  ASSUME TypeOK, NEW k \in Node, NEW n \in Node, RecieveMessage(k, n),
         OrderTraffic(<<k, n>>, Received(k, n))
  PROVE  AddsQuiet(Rest(k, n))
<1>1. PICK m : m = Received(k, n)
  OBVIOUS
<1>2. /\ Waiting(k, n)
      /\ Dropped(k, n) \/ Answered(k, n) \/ Relayed(k, n) \/ Replayed(k, n)
  BY ReceptionKinds
<1>3. m \in Imq /\ conn \subseteq Link /\ Rest(k, n) \in Queues
  BY <1>1, <1>2, RestTyped DEF TypeOK, TransportOK
<1>4. CASE Dropped(k, n)
  BY <1>3, <1>4, UnchangedQuiet DEF Dropped
<1>5. CASE Answered(k, n)
  <2>1. PICK r \in Answers(n, m) : net' = Send(Rest(k, n), n, k, r)
    BY <1>1, <1>5 DEF Answered
  <2>2. r \in Quiet
    BY <1>3, AnswersTyped DEF Quiet, Order
  <2> QED BY <1>3, <2>1, <2>2, SendQuiet
<1>6. CASE Relayed(k, n)
  <2>1. ForOther(n, m) /\ net' = Send(Rest(k, n), n, Socket(n, m.to), m)
    BY <1>1, <1>6 DEF Relayed
  <2>2. m \in Quiet
    BY <1>1, <1>3, <2>1 DEF OrderTraffic, ForOther, Quiet
  <2> QED BY <1>3, <2>1, <2>2, SendQuiet
<1>7. CASE Replayed(k, n)
  <2>1. PICK r : r = ReplayMsg(name[n], m)
    OBVIOUS
  <2>2. PICK clients \in SUBSET Name : net' = FanOut(Rest(k, n), n, clients, r)
    BY <1>1, <1>7, <2>1 DEF Replayed, FansOut
  <2>3. r \in Imq /\ r.type \in {"CAST", "QUEUE"}
    BY <1>3, <2>1, ReplayTyped
  <2>4. r \in Quiet
    BY <2>3 DEF Quiet, Order
  <2> QED BY <1>3, <2>2, <2>4, FanOutQuiet
<1> QED BY <1>2, <1>4, <1>5, <1>6, <1>7

\* The subscribers of j follow the order n received from k, if it was one.
TablesFollow(k, n) ==
  LET m == Received(k, n)
  IN  \A j \in Node, p \in Path :
        Subscribers(subscribers'[j], p) =
          IF j = n /\ OrderFor(m, p)
          THEN IF m.cmd = "SUB" THEN Subscribers(subscribers[j], p) \cup {m.from}
               ELSE Subscribers(subscribers[j], p) \ {m.from}
          ELSE Subscribers(subscribers[j], p)

\* Only an order changes who is subscribed.
LEMMA ReceptionTables ==
  ASSUME TypeOK, NEW k \in Node, NEW n \in Node, RecieveMessage(k, n),
         OrderTraffic(<<k, n>>, Received(k, n))
  PROVE  TablesFollow(k, n)
<1> SUFFICES ASSUME NEW m, m = Received(k, n), NEW j \in Node, NEW p \in Path, NEW old,
                    old = Subscribers(subscribers[j], p)
             PROVE  Subscribers(subscribers'[j], p) =
                      IF j = n /\ OrderFor(m, p)
                      THEN IF m.cmd = "SUB" THEN old \cup {m.from} ELSE old \ {m.from}
                      ELSE old
  BY DEF TablesFollow
<1>1. m = Received(k, n) /\ old = Subscribers(subscribers[j], p)
  OBVIOUS
<1>2. Waiting(k, n)
  BY ReceptionKinds
<1>3. m.path \in Path \cup {NoPath} /\ DOMAIN subscribers = Node /\ IsTable(subscribers[n])
  BY <1>1, <1>2, RestTyped DEF TypeOK, TablesOK, Imq
<1>4. Order(m) => RecvCmd(k, n)
  <2>1. Order(m) => ForMe(n, m)
    BY <1>1 DEF OrderTraffic, ForMe, ForOther, ForBroker
  <2> QED BY <1>1, <2>1 DEF Order, RecieveMessage, RecvBroker, RecvNotBroker, RecvRelay,
       RecvNotRelay, RecvRequest, RecvUnhandled, RecvReply, RecvStrayReply, ForMe
<1>5. CASE RecvCmd(k, n)
  <2> DEFINE new == CASE m.cmd = "SUB" -> AddSubscriber(subscribers[n], m.from, m.path)
                      [] m.cmd = "UNSUB" -> DelSubscriber(subscribers[n], m.from, m.path)
                      [] OTHER -> subscribers[n]
  <2>1. subscribers' = [subscribers EXCEPT ![n] = new] /\ m.type = "CMD" /\ m.sts = "REQ"
    BY <1>1, <1>5, Zenon DEF RecvCmd
  <2>2. CASE m.cmd = "SUB"
    <3>1. new = AddSubscriber(subscribers[n], m.from, m.path)
      BY <2>2
    <3>2. OrderFor(m, p) <=> m.path = p
      BY <2>1, <2>2 DEF OrderFor, Order
    <3> HIDE DEF new
    <3>3. Subscribers(new, p) =
            IF p = m.path THEN Subscribers(subscribers[n], p) \cup {m.from}
            ELSE Subscribers(subscribers[n], p)
      BY <3>1, SubscribersAdd
    <3>4. subscribers'[j] = IF j = n THEN new ELSE subscribers[j]
      BY <1>3, <2>1
    <3> QED BY <1>1, <2>2, <3>2, <3>3, <3>4
  <2>3. CASE m.cmd = "UNSUB"
    <3>1. new = DelSubscriber(subscribers[n], m.from, m.path)
      BY <2>3
    <3>2. OrderFor(m, p) <=> m.path = p
      BY <2>1, <2>3 DEF OrderFor, Order
    <3> HIDE DEF new
    <3>3. Subscribers(new, p) =
            IF p = m.path THEN Subscribers(subscribers[n], p) \ {m.from}
            ELSE Subscribers(subscribers[n], p)
      BY <3>1, SubscribersDel
    <3>4. subscribers'[j] = IF j = n THEN new ELSE subscribers[j]
      BY <1>3, <2>1
    <3> QED BY <1>1, <2>3, <3>2, <3>3, <3>4
  <2>4. CASE m.cmd \notin {"SUB", "UNSUB"}
    <3>1. new = subscribers[n]
      BY <2>4
    <3>2. ~OrderFor(m, p)
      BY <2>4 DEF OrderFor, Order
    <3> HIDE DEF new
    <3> QED BY <1>1, <1>3, <2>1, <3>1, <3>2
  <2> QED BY <2>2, <2>3, <2>4
<1>6. CASE ~RecvCmd(k, n)
  <2>1. ~OrderFor(m, p)
    BY <1>4, <1>6 DEF OrderFor
  <2>2. CASE RecvBroker(k, n)
    <3>1. \/ UNCHANGED subscribers
          \/ \E o \in QueueOutcomes(subscribers[n], m.path) :
               subscribers' = [subscribers EXCEPT ![n] = o.table]
      BY <1>1, <2>2 DEF RecvBroker
    <3> QED BY <1>1, <1>3, <2>1, <3>1, SubscribersQueued
  <2>3. CASE ~RecvBroker(k, n)
    <3>1. UNCHANGED subscribers
      BY <1>6, <2>3 DEF RecieveMessage, RecvNotBroker, RecvRelay, RecvNotRelay, RecvRequest,
         RecvUnhandled, RecvReply, RecvStrayReply
    <3> QED BY <1>1, <2>1, <3>1
  <2> QED BY <2>2, <2>3
<1> QED BY <1>5, <1>6

(***************************************************************************)
(* Every step keeps orders where they belong, and keeps the agreement      *)
(* about every path.                                                       *)
(***************************************************************************)
KeepsAgreedOf(S) ==
  \A x \in S : \A s \in Program[x].dials, p \in Path : Agreed(x, s, p) => Agreed(x, s, p)'

KeepsAgreed == KeepsAgreedOf(Node)

LEMMA TrafficQuiet ==
  ASSUME OrdersInv, UNCHANGED name, NEW queues \in Queues,
         \A l \in Link : InFlight(queues[l]) \subseteq InFlight(net[l]),
         AddsQuiet(queues), NEW l \in Link, NEW m \in InFlight(net'[l])
  PROVE  OrderTraffic(l, m)'
<1>1. PICK more \in Seq(Quiet) : net'[l] = queues[l] \o more
  BY DEF AddsQuiet
<1>2. m \in InFlight(queues[l]) \/ m \in Quiet
  <2>1. m \in InFlight(queues[l] \o more) /\ queues[l] \in Seq(Imq)
    BY <1>1 DEF Queues
  <2> QED BY <2>1, InFlightQuiet
<1> QED BY <1>2 DEF OrdersInv, OrderTraffic, Dialed, Quiet

LEMMA OrdersQuiet ==
  ASSUME OrdersInv, UNCHANGED name, NEW queues \in Queues,
         \A l \in Link : InFlight(queues[l]) \subseteq InFlight(net[l]),
         AddsQuiet(queues), \A l \in conn' : Dialed(l)
  PROVE  OrdersInv'
<1>1. \A l \in Link : \A m \in InFlight(net'[l]) : OrderTraffic(l, m)'
  BY TrafficQuiet
<1> QED BY <1>1 DEF OrdersInv, OwnNames, Dialed

\* A client dials one server, which is not the client.
LEMMA OneServer ==
  ASSUME Spokes, NEW x \in Node, NEW s \in Program[x].dials
  PROVE  /\ s \in Node /\ s # x /\ <<x, s>> \in Link
         /\ \A k \in Node : Dialed(<<x, k>>) => k = s
<1>1. /\ \E k \in Node : Program[x].dials = {k}
      /\ \A j \in Node : x \notin Program[j].dials
  BY DEF Spokes
<1>2. s \in Node /\ Program[x].dials = {s}
  BY <1>1
<1> QED BY <1>1, <1>2 DEF Dialed, Link

LEMMA OwnOrders ==
  ASSUME Star, OwnNames, NEW x \in Node, NEW s \in Program[x].dials,
         NEW k \in Node, Dialed(<<k, s>>), name[k] = name[x]
  PROVE  k = x
<1>1. /\ \E j \in Node : Program[x].dials = {j}
      /\ \A j \in Node : x \notin Program[j].dials
      /\ \A j \in Node : Program[j].dials = Program[x].dials
                         /\ Program[j].name = Program[x].name => j = x
  BY DEF Star, Spokes
<1>2. s \in Node /\ Program[x].dials = {s}
  BY <1>1
<1>3. s \in Program[k].dials
  <2>1. s \in Program[k].dials \/ k \in Program[s].dials
    BY DEF Dialed
  <2>2. Program[s].dials # {} => \A j \in Node : s \notin Program[j].dials
    BY <1>2 DEF Star, Spokes
  <2> QED BY <1>2, <2>1, <2>2
<1>4. Program[k].dials = {s}
  BY <1>3 DEF Star, Spokes
<1> QED BY <1>1, <1>2, <1>4 DEF OwnNames

LEMMA AgreedAdds ==
  ASSUME NEW queues \in Queues, AddsQuiet(queues), NEW l \in Link,
         NEW p, NEW H, NEW c, NEW C, AgreedOn(queues[l], p, H, c, C)
  PROVE  AgreedOn(net'[l], p, H, c, C)
<1>1. PICK more \in Seq(Quiet) : net'[l] = queues[l] \o more
  BY DEF AddsQuiet
<1>2. queues[l] \in Seq(Imq)
  BY DEF Queues
<1> QED BY <1>1, <1>2, AgreedQuiet

\* A program's calls disturb nobody's agreement but its own.
LEMMA CallAgrees ==
  ASSUME Spokes, TypeOK, OrdersInv, NEW n \in Node, Call(n)
  PROVE  OrdersInv' /\ KeepsAgreedOf({x \in Node : x = n => "SubNil" \notin Program[n].calls})
<1> DEFINE S == {x \in Node : x = n => "SubNil" \notin Program[n].calls}
<1>1. UNCHANGED <<conn, name>> /\ SameSubscribers
  BY CallOrders
<1>2. net \in Queues /\ net \in [Link -> Seq(Imq)] /\ conn \subseteq Link
      /\ handlers \in [Node -> SUBSET Path]
  BY DEF TypeOK, TransportOK, TablesOK, Queues
<1>3. \A l \in conn' : Dialed(l)
  BY <1>1 DEF OrdersInv
<1>4. ASSUME NEW x \in S, NEW s \in Program[x].dials, NEW p \in Path, Agreed(x, s, p)
      PROVE  /\ s \in Node /\ <<x, s>> \in Link /\ net[<<x, s>>] \in Seq(Imq)
             /\ AgreedOn(net[<<x, s>>], p, handlers[x], name[x], Subscribers(subscribers'[s], p))
  BY <1>1, <1>2, <1>4, OneServer DEF Agreed, SameSubscribers
<1>5. CASE OtherCall
  <2>1. OrdersInv'
    BY <1>1, <1>2, <1>3, <1>5, OrdersQuiet DEF OtherCall
  <2>2. ASSUME NEW x \in S, NEW s \in Program[x].dials, NEW p \in Path, Agreed(x, s, p)
        PROVE  Agreed(x, s, p)'
    <3>1. AgreedOn(net'[<<x, s>>], p, handlers[x], name[x], Subscribers(subscribers'[s], p))
      BY <1>2, <1>4, <1>5, <2>2, AgreedAdds DEF OtherCall
    <3> QED BY <1>1, <1>5, <3>1 DEF Agreed, OtherCall
  <2> QED BY <2>1, <2>2 DEF KeepsAgreedOf
<1>6. ASSUME NEW k \in Node, NEW m \in Imq, OrderCall(n, k, m) PROVE OrdersInv' /\ KeepsAgreedOf(S)
  <2>1. /\ <<n, k>> \in conn /\ <<n, k>> \in Link
        /\ Order(m) /\ m.to = NoName /\ ~m.broker /\ m.from = name[n]
    BY <1>6 DEF OrderCall, Link
  <2>2. \A l \in Link : net'[l] = IF l = <<n, k>> THEN Append(net[l], m) ELSE net[l]
    <3>1. \A l \in Link : Send(net, n, k, m)[l] = IF l = <<n, k>> /\ l \in conn
                                                  THEN Append(net[l], m) ELSE net[l]
      BY <1>2, SendOn
    <3> QED BY <1>6, <2>1, <3>1 DEF OrderCall
  <2>3. ASSUME NEW l \in Link, NEW y \in InFlight(net'[l]) PROVE OrderTraffic(l, y)'
    <3>1. CASE l # <<n, k>>
      BY <1>1, <2>2, <2>3, <3>1 DEF OrdersInv, OrderTraffic, Dialed
    <3>2. CASE l = <<n, k>>
      <4>1. InFlight(Append(net[l], m)) = InFlight(net[l]) \cup {m}
        BY <1>2, AppendInFlight
      <4>2. y \in InFlight(net[l]) \/ y = m
        BY <2>2, <2>3, <3>2, <4>1
      <4>3. OrderTraffic(l, m)
        BY <2>1, <3>2 DEF OrdersInv, OrderTraffic
      <4> QED BY <1>1, <4>2, <4>3 DEF OrdersInv, OrderTraffic, Dialed
    <3> QED BY <3>1, <3>2
  <2>4. ASSUME NEW x \in S, NEW s \in Program[x].dials, NEW p \in Path, Agreed(x, s, p)
        PROVE  Agreed(x, s, p)'
    <3> DEFINE D == Subscribers(subscribers'[s], p)
    <3>1. /\ <<x, s>> \in Link /\ net[<<x, s>>] \in Seq(Imq)
          /\ AgreedOn(net[<<x, s>>], p, handlers[x], name[x], D)
      BY <1>4, <2>4
    <3> HIDE DEF D
    <3>2. CASE x # n
      <4>1. net'[<<x, s>>] = net[<<x, s>>] /\ handlers'[x] = handlers[x]
        BY <1>2, <1>6, <2>2, <3>1, <3>2 DEF OrderCall
      <4> QED BY <1>1, <3>1, <4>1 DEF Agreed, D
    <3>3. CASE x = n
      <4>1. k = s /\ "SubNil" \notin Program[n].calls
        BY <2>1, <3>3, OneServer DEF OrdersInv
      <4>2. net'[<<x, s>>] = Append(net[<<x, s>>], m)
        BY <2>2, <3>1, <3>3, <4>1
      <4>3. \/ m.cmd = "SUB" /\ handlers'[x] = handlers[x] \cup {m.path}
            \/ m.cmd = "UNSUB" /\ handlers'[x] = handlers[x] \ {m.path}
        BY <1>2, <1>6, <3>3, <4>1 DEF OrderCall
      <4>4. AgreedOn(Append(net[<<x, s>>], m), p, handlers'[x], name[x], D)
        <5>1. CASE m.path = p
          <6>1. OrderFor(m, p) /\ (p \in handlers'[x] <=> m.cmd = "SUB")
            BY <2>1, <4>3, <5>1 DEF OrderFor
          <6> QED BY <3>1, <6>1, AppendOrder
        <5>2. CASE m.path # p
          <6>1. ~OrderFor(m, p) /\ (p \in handlers'[x] <=> p \in handlers[x])
            BY <4>3, <5>2 DEF OrderFor
          <6>2. AgreedOn(net[<<x, s>>], p, handlers'[x], name[x], D)
            BY <3>1, <6>1, AgreedSame
          <6> QED BY <3>1, <6>1, <6>2, AppendOther
        <5> QED BY <5>1, <5>2
      <4> QED BY <1>1, <4>2, <4>4 DEF Agreed, D
    <3> QED BY <3>2, <3>3
  <2>5. OrdersInv'
    BY <1>1, <1>3, <2>3 DEF OrdersInv, OwnNames, Dialed
  <2> QED BY <2>4, <2>5 DEF KeepsAgreedOf
<1> QED BY <1>5, <1>6, CallOrders

\* A reception of either library.
LEMMA ReceptionKeepsOrders ==
  ASSUME TypeOK, OrdersInv, NEW k \in Node, NEW n \in Node, Waiting(k, n),
         UNCHANGED <<conn, name>>, AddsQuiet(Rest(k, n))
  PROVE  /\ OrdersInv' /\ Rest(k, n) \in Queues
         /\ \A l \in Link : InFlight(Rest(k, n)[l]) \subseteq InFlight(net[l])
         /\ OrderTraffic(<<k, n>>, Received(k, n))
<1>1. /\ Rest(k, n) \in Queues
      /\ \A l \in Link : InFlight(Rest(k, n)[l]) \subseteq InFlight(net[l])
      /\ OrderTraffic(<<k, n>>, Received(k, n))
  <2>1. Received(k, n) \in InFlight(net[<<k, n>>]) /\ <<k, n>> \in Link
    BY RestInFlight DEF Link
  <2>2. Rest(k, n) \in Queues
    BY RestTyped DEF TypeOK
  <2> QED BY <2>1, <2>2, RestInFlight DEF OrdersInv
<1>2. \A l \in conn' : Dialed(l)
  BY DEF OrdersInv
<1> QED BY <1>1, <1>2, OrdersQuiet

\* A client's agreement survives what somebody else says under its name, if
\* it is what the client has said itself.
LEMMA AgreedToo ==
  ASSUME NEW q, NEW p, NEW H, NEW c, NEW C, NEW D, AgreedOn(q, p, H, c, C),
         \/ c \in D <=> c \in C
         \/ c \in D /\ p \in H
  PROVE  AgreedOn(q, p, H, c, D)
BY DEF AgreedOn

LEMMA ReceptionAgreesFor ==
  ASSUME Spokes, TypeOK, OrdersInv, NEW k \in Node, NEW n \in Node, Waiting(k, n),
         UNCHANGED <<conn, name, handlers>>, AddsQuiet(Rest(k, n)), TablesFollow(k, n),
         NEW x \in Node, NEW s \in Program[x].dials, NEW p \in Path, Agreed(x, s, p),
         NEW m, m = Received(k, n),
         n = s /\ k # x /\ OrderFor(m, p) =>
           m.from # name[x] \/ (m.cmd = "SUB" /\ p \in handlers[x])
  PROVE  Agreed(x, s, p)'
<1> DEFINE q == net[<<x, s>>]
           C == Subscribers(subscribers[s], p)
           D == Subscribers(subscribers'[s], p)
<1>1. /\ s \in Node /\ s # x /\ <<x, s>> \in Link /\ q \in Seq(Imq)
      /\ AgreedOn(q, p, handlers[x], name[x], C)
  BY OneServer DEF Agreed, TypeOK, TransportOK
<1>2. D = IF s = n /\ OrderFor(m, p) THEN IF m.cmd = "SUB" THEN C \cup {m.from} ELSE C \ {m.from}
          ELSE C
  BY <1>1 DEF TablesFollow
<1>3. /\ Rest(k, n) \in Queues /\ OrderTraffic(<<k, n>>, m)
  BY ReceptionKeepsOrders
<1>4. OrderFor(m, p) => Order(m) /\ m.from = name[k]
  BY <1>3 DEF OrderFor, OrderTraffic
<1> HIDE DEF C, D
<1>5. AgreedOn(Rest(k, n)[<<x, s>>], p, handlers[x], name[x], D)
  <2>1. CASE k = x /\ n = s
    <3>1. Rest(k, n)[<<x, s>>] = Tail(q) /\ m = Head(q) /\ q # << >>
      BY <1>1, <2>1, RestOn DEF Received, Waiting
    <3> HIDE DEF q
    <3>2. CASE OrderFor(m, p)
      <4>1. name[x] \in D <=> m.cmd = "SUB"
        BY <1>2, <1>4, <2>1, <3>2
      <4> QED BY <1>1, <3>1, <3>2, <4>1, TailOrder
    <3>3. CASE ~OrderFor(m, p)
      BY <1>1, <1>2, <3>1, <3>3, TailOther
    <3> QED BY <3>2, <3>3
  <2>2. CASE ~(k = x /\ n = s)
    <3>1. Rest(k, n)[<<x, s>>] = q
      BY <1>1, <2>2, RestOn
    <3>2. (name[x] \in D <=> name[x] \in C) \/ (name[x] \in D /\ p \in handlers[x])
      BY <1>2, <2>2
    <3> HIDE DEF q
    <3> QED BY <1>1, <3>1, <3>2, AgreedToo
  <2> QED BY <2>1, <2>2
<1>6. AgreedOn(net'[<<x, s>>], p, handlers[x], name[x], D)
  BY <1>1, <1>3, <1>5, AgreedAdds
<1> QED BY <1>6 DEF Agreed, D

LEMMA ReceptionAgrees ==
  ASSUME Star, TypeOK, OrdersInv, NEW k \in Node, NEW n \in Node, Waiting(k, n),
         UNCHANGED <<conn, name, handlers>>, AddsQuiet(Rest(k, n)), TablesFollow(k, n)
  PROVE  OrdersInv' /\ KeepsAgreed
<1>1. OrdersInv' /\ OrderTraffic(<<k, n>>, Received(k, n))
  BY ReceptionKeepsOrders
<1>2. ASSUME NEW x \in Node, NEW s \in Program[x].dials, NEW p \in Path, Agreed(x, s, p)
      PROVE  Agreed(x, s, p)'
  <2>1. PICK m : m = Received(k, n)
    OBVIOUS
  <2>2. n = s /\ k # x /\ OrderFor(m, p) => m.from # name[x]
    <3>1. OrderFor(m, p) => m.from = name[k] /\ Dialed(<<k, n>>)
      BY <1>1, <2>1 DEF OrderFor, OrderTraffic
    <3> QED BY <1>2, <3>1, OwnOrders DEF OrdersInv
  <2>3. Spokes
    BY DEF Star
  <2> QED BY <1>2, <2>1, <2>2, <2>3, ReceptionAgreesFor
<1> QED BY <1>1, <1>2 DEF KeepsAgreed, KeepsAgreedOf

LEMMA RecieveMessageAgrees ==
  ASSUME Star, TypeOK, OrdersInv, NEW k \in Node, NEW n \in Node, RecieveMessage(k, n)
  PROVE  OrdersInv' /\ KeepsAgreed
<1>1. UNCHANGED <<conn, name, handlers>>
  BY DEF RecieveMessage, RecvBroker, RecvNotBroker, RecvRelay, RecvNotRelay, RecvCmd,
     RecvRequest, RecvUnhandled, RecvReply, RecvStrayReply, tables, transport
<1>2. Waiting(k, n) /\ OrderTraffic(<<k, n>>, Received(k, n))
  <2>1. Waiting(k, n)
    BY ReceptionKinds
  <2>2. Received(k, n) \in InFlight(net[<<k, n>>]) /\ <<k, n>> \in Link
    BY <2>1, RestInFlight DEF Link
  <2> QED BY <2>1, <2>2 DEF OrdersInv
<1> QED BY <1>1, <1>2, ReceptionOrders, ReceptionTables, ReceptionAgrees

LEMMA ConnectAgrees ==
  ASSUME Spokes, TypeOK, OrdersInv, NEW n \in Node, NEW k \in Node, Connect(n, k)
  PROVE  OrdersInv' /\ KeepsAgreed /\ AddsQuiet(net)
<1>1. /\ UNCHANGED <<name, handlers, subscribers>>
      /\ conn' = conn \cup {<<n, k>>, <<k, n>>} /\ k \in Program[n].dials
  BY DEF Connect, Syn, tables
<1>2. \A l \in conn' : Dialed(l)
  BY <1>1 DEF OrdersInv, Dialed
<1>3. net \in Queues /\ net \in [Link -> Seq(Imq)]
  BY DEF TypeOK, TransportOK, Queues
<1>4. AddsQuiet(net)
  <2>1. CASE UNCHANGED net
    BY <1>3, <2>1, UnchangedQuiet
  <2>2. CASE Syn(k, n, conn \cup {<<n, k>>, <<k, n>>})
    <3>1. PICK m : m = SynMsg(NextId, name[k])
      OBVIOUS
    <3>2. NextId \in Id /\ name[k] \in Name
      BY <2>2 DEF Syn, Issue, TypeOK, TablesOK
    <3>3. m \in Quiet
      <4>1. m \in Imq
        BY <3>1, <3>2, SynMsgTyped
      <4> QED BY <3>1, <4>1 DEF SynMsg, makeImq, Order, Quiet
    <3>4. net' = [net EXCEPT ![<<k, n>>] = Append(@, m)]
      BY <2>2, <3>1 DEF Syn
    <3>5. \A l \in Link : net'[l] = net[l] \/ net'[l] = Append(net[l], m)
      BY <1>3, <3>4
    <3>6. ASSUME NEW l \in Link PROVE \E more \in Seq(Quiet) : net'[l] = net[l] \o more
      <4>1. net[l] \in Seq(Imq)
        BY <1>3
      <4>2. /\ \E more \in Seq(Quiet) : net[l] = net[l] \o more
            /\ \E more \in Seq(Quiet) : Append(net[l], m) = net[l] \o more
        BY <3>3, <4>1, NothingAdded, OneAdded
      <4>3. CASE net'[l] = net[l]
        BY <4>2, <4>3
      <4>4. CASE net'[l] = Append(net[l], m)
        BY <4>2, <4>4
      <4> QED BY <3>5, <4>3, <4>4
    <3> QED BY <3>6 DEF AddsQuiet
  <2> QED BY <2>1, <2>2 DEF Connect
<1>5. OrdersInv'
  BY <1>1, <1>2, <1>3, <1>4, OrdersQuiet
<1>6. ASSUME NEW x \in Node, NEW s \in Program[x].dials, NEW p \in Path, Agreed(x, s, p)
      PROVE  Agreed(x, s, p)'
  <2>1. /\ <<x, s>> \in Link
        /\ AgreedOn(net[<<x, s>>], p, handlers[x], name[x], Subscribers(subscribers[s], p))
    BY <1>6, OneServer DEF Agreed
  <2>2. AgreedOn(net'[<<x, s>>], p, handlers[x], name[x], Subscribers(subscribers[s], p))
    BY <1>3, <1>4, <2>1, AgreedAdds
  <2> QED BY <1>1, <2>2 DEF Agreed
<1> QED BY <1>4, <1>5, <1>6 DEF KeepsAgreed, KeepsAgreedOf

LEMMA ConfigureAgrees ==
  ASSUME Subscribing, TypeOK, OrdersInv, NEW n \in Node, Configure(n)
  PROVE  OrdersInv' /\ KeepsAgreed
<1>1. UNCHANGED <<net, conn, name>>
  BY DEF Configure, SetName, SetHandler, DelHandler, SetBrokerHandler, SetRelayHandler, MayCall,
     CallAddSubscriber, CallDelSubscriber, DelMessage, untabled, transport, tables,
     Subscribing, NamesKept
<1>2. \/ UNCHANGED handlers
      \/ /\ Program[n].calls \cap {"SetHandler", "DelHandler"} # {}
         /\ \E set : handlers' = [handlers EXCEPT ![n] = set]
  BY DEF Configure, SetName, SetHandler, DelHandler, SetBrokerHandler, SetRelayHandler, MayCall,
     CallAddSubscriber, CallDelSubscriber, DelMessage, tables
<1>3. \/ UNCHANGED subscribers
      \/ /\ Program[n].calls \cap {"AddSubscriber", "DelSubscriber"} # {}
         /\ \E t : subscribers' = [subscribers EXCEPT ![n] = t]
  BY DEF Configure, SetName, SetHandler, DelHandler, SetBrokerHandler, SetRelayHandler, MayCall,
     CallAddSubscriber, CallDelSubscriber, DelMessage
<1>4. ASSUME NEW x \in Node, NEW s \in Program[x].dials, NEW p \in Path, Agreed(x, s, p)
      PROVE  Agreed(x, s, p)'
  <2>0. /\ s \in Node
        /\ Program[x].calls \cap {"SetHandler", "DelHandler"} = {}
        /\ Program[s].calls \cap {"AddSubscriber", "DelSubscriber"} = {}
    BY OneServer DEF Subscribing, Star
  <2>1. handlers'[x] = handlers[x]
    <3>1. CASE x = n
      BY <1>2, <2>0, <3>1
    <3>2. CASE x # n
      BY <1>2, <3>2 DEF TypeOK, TablesOK
    <3> QED BY <3>1, <3>2
  <2>2. subscribers'[s] = subscribers[s]
    <3>1. CASE s = n
      BY <1>3, <2>0, <3>1
    <3>2. CASE s # n
      BY <1>3, <2>0, <3>2 DEF TypeOK, TablesOK
    <3> QED BY <3>1, <3>2
  <2> QED BY <1>1, <1>4, <2>1, <2>2 DEF Agreed
<1> QED BY <1>1, <1>4 DEF OrdersInv, OwnNames, OrderTraffic, Dialed, KeepsAgreed,
                           KeepsAgreedOf

\* At first clients have no handlers, and only those enrolled for good are
\* subscribed.
LEMMA InitOrders == Init => OrdersInv
<1>1. InFlight(<< >>) = {}
  BY EmptySeq DEF InFlight
<1> QED BY <1>1 DEF Init, OrdersInv, OwnNames

LEMMA InitAgrees ==
  ASSUME Spokes, Init, NEW x \in Node, NEW s \in Program[x].dials, NEW p \in Path,
         p \notin Program[x].handlers, Program[x].name \notin Program[s].standing
  PROVE  Agreed(x, s, p)
<1>1. OrdersFor(<< >>, p) = {}
  BY EmptySeq DEF OrdersFor
<1>2. s \in Node /\ <<x, s>> \in Link
  BY OneServer
<1>3. /\ p \notin handlers[x] /\ subscribers[s] = Enrolled(s) /\ net[<<x, s>>] = << >>
      /\ name[x] = Program[x].name
  BY <1>2 DEF Init
<1>4. Subscribers(Enrolled(s), p) \subseteq Program[s].standing
  BY DEF Subscribers, Enrolled
<1> QED BY <1>1, <1>3, <1>4 DEF Agreed, AgreedOn

LEMMA SubscriptionStep ==
  ASSUME Subscribing, Faults = {}, TypeOK, SubscriptionInv, [Next]_vars
  PROVE  SubscriptionInv'
<1>1. Star /\ Spokes /\ OrdersInv
  BY DEF Subscribing, Star, SubscriptionInv
<1>2. ASSUME OrdersInv', KeepsAgreed PROVE SubscriptionInv'
  BY <1>2 DEF KeepsAgreed, KeepsAgreedOf, SubscriptionInv
<1>3. CASE UNCHANGED vars
  BY <1>3 DEF vars, tables, transport, SubscriptionInv, OrdersInv, OwnNames, OrderTraffic, Dialed,
              Agreed
<1>4. ASSUME NEW n \in Node, NEW k \in Node PROVE ~Disconnect(n, k)
  BY DEF Disconnect
<1>5. ASSUME NEW l \in Link PROVE ~Disturb(l)
  BY DEF Disturb, Lose, Duplicate, Overtake
<1>6. ASSUME NEW n \in Node, Call(n) PROVE SubscriptionInv'
  <2>1. \A x \in Node : Program[x].dials # {} => "SubNil" \notin Program[x].calls
    BY DEF Subscribing
  <2>2. OrdersInv' /\ KeepsAgreedOf({x \in Node : x = n => "SubNil" \notin Program[n].calls})
    BY <1>1, <1>6, CallAgrees
  <2> QED BY <1>2, <2>1, <2>2 DEF KeepsAgreed, KeepsAgreedOf
<1> QED BY <1>1, <1>2, <1>3, <1>4, <1>5, <1>6, ConfigureAgrees,
           RecieveMessageAgrees, ConnectAgrees DEF Next

\* SubscriptionInv holds in every state of such programs on a reliable
\* transport.
THEOREM SubscriptionInvariance ==
  ASSUME Subscribing, Faults = {}
  PROVE  Spec => []SubscriptionInv
<1>1. Init => SubscriptionInv
  <2>1. ASSUME NEW x \in Node, NEW s \in Program[x].dials
        PROVE  Program[x].handlers = {} /\ Program[x].name \notin Program[s].standing
    BY DEF Subscribing
  <2>2. Spokes
    BY DEF Subscribing, Star
  <2> QED BY <2>1, <2>2, InitOrders, InitAgrees DEF SubscriptionInv
<1>2. TypeOK /\ SubscriptionInv /\ [Next]_vars => SubscriptionInv'
  BY SubscriptionStep
<1> QED BY <1>1, <1>2, TypeCorrect, PTL DEF Spec

\* Once its SUBs and UNSUBs for a path have arrived, a client has a handler
\* for the path exactly if its server counts it among the subscribers.
THEOREM Subscriptions ==
  ASSUME Subscribing, Faults = {}
  PROVE  Spec => []SubscriptionAgreement
<1>1. SubscriptionInv => SubscriptionAgreement
  <2> SUFFICES ASSUME SubscriptionInv, NEW n \in Node, NEW k \in Program[n].dials, NEW p \in Path,
                      \A m \in InFlight(net[<<n, k>>]) : m.cmd \in {"SUB", "UNSUB"} => m.path # p
               PROVE  p \in handlers[n] <=> name[n] \in Subscribers(subscribers[k], p)
    BY DEF SubscriptionAgreement
  <2>1. OrdersFor(net[<<n, k>>], p) = {}
    BY DEF OrdersFor, Order, InFlight
  <2> QED BY <2>1 DEF SubscriptionInv, Agreed, AgreedOn
<1> QED BY <1>1, SubscriptionInvariance, PTL
=============================================================================
