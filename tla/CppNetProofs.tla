---------------------------- MODULE CppNetProofs ----------------------------
(***************************************************************************)
(* Proofs about CppNet: networks of processes that use any of the three    *)
(* libraries.  The steps of the Go and TypeScript processes and of the     *)
(* transport are those of GoNet and TsNet, whose lemmas are used for them. *)
(***************************************************************************)
EXTENDS CppNet, TsNetProofs

(***************************************************************************)
(* The messages the library builds.                                        *)
(***************************************************************************)
\* What a program of any library poses under identifier i: an unSub of the
\* C++ library is no request.
Posed(i) == {m \in Imq : m.id = i /\ (m.broker => m.type # "CMD" /\ m.cmd # "SYN")}

LEMMA AskedPosed ==
  ASSUME NEW i
  PROVE  Asked(i) \subseteq Posed(i)
BY DEF Asked, Posed

LEMMA CppRequestsPosed ==
  ASSUME NEW i \in Id, NEW me \in Name, NEW to \in Name \cup {NoName}, NEW path \in Path
  PROVE  /\ Cpp!req(i, me, to, path) \in Posed(i) /\ Cpp!ready(i, me, to, path) \in Posed(i)
         /\ Cpp!sub(i, me, path) \in Posed(i) /\ Cpp!unSub(i, me) \in Posed(i)
         /\ \A broker \in BOOLEAN : /\ Cpp!Mult(i, me, broker, path) \in Posed(i)
                                    /\ Cpp!Queue(i, me, broker, path) \in Posed(i)
BY DEF Posed, Cpp!req, Cpp!ready, Cpp!sub, Cpp!unSub, Cpp!Mult, Cpp!Queue, Cpp!makeImq,
       Imq, MsgType, Cmd, Sts

\* Its replies are those of the TypeScript library.
LEMMA CppRepliesSame ==
  ASSUME NEW me, NEW m
  PROVE  Cpp!success(me, m) = success(me, m) /\ Cpp!rep(me, m) = success(me, m)
         /\ Cpp!err(me, m) = err(me, m)
BY DEF Cpp!success, Cpp!rep, Cpp!err, Cpp!makeImq, success, err, makeImq

LEMMA CppRepliesAre ==
  ASSUME NEW n, NEW m
  PROVE  /\ \A replies \in CppReplies(n, m) : replies \subseteq Replies(n, m)
         /\ {Cpp!err(name[n], m)} \subseteq Replies(n, m)
         /\ Cpp!handleCmd(name[n], m) \subseteq Replies(n, m)
BY CppRepliesSame DEF CppReplies, Replies, Cpp!handleCmd

(***************************************************************************)
(* The operations on the subscriber table.                                 *)
(***************************************************************************)
LEMMA AtTyped ==
  ASSUME NEW table, IsTable(table), NEW path \in Path \cup {NoPath}
  PROVE  IsTable(Cpp!At(table, path)) /\ path \in DOMAIN Cpp!At(table, path)
BY DEF IsTable, Cpp!At, Cpp!Clients, PartialFunction

LEMMA CppAddSubscriberTyped ==
  ASSUME NEW table, IsTable(table), NEW client \in Name, NEW path \in Path \cup {NoPath}
  PROVE  IsTable(Cpp!addSubscriber(table, client, path))
<1> DEFINE at == Cpp!At(table, path)
           entry == [c \in DOMAIN at[path] \cup {client} |-> IF c = client THEN FALSE ELSE at[path][c]]
<1>1. IsTable(at) /\ path \in DOMAIN at
  BY AtTyped
<1>2. Cpp!addSubscriber(table, client, path) = [at EXCEPT ![path] = entry]
  BY Zenon DEF Cpp!addSubscriber
<1> HIDE DEF at
<1>3. PartialFunction(entry, Name, BOOLEAN)
  BY <1>1 DEF IsTable, PartialFunction
<1> HIDE DEF entry
<1> QED BY <1>1, <1>2, <1>3 DEF IsTable

LEMMA CppDelSubscriberTyped ==
  ASSUME NEW table, IsTable(table), NEW client, NEW path
  PROVE  IsTable(Cpp!delSubscriber(table, client, path))
BY DEF IsTable, Cpp!delSubscriber, Cpp!Clients, PartialFunction

LEMMA CppSendQueueTyped ==
  ASSUME NEW marks, NEW o \in Cpp!sendQueue(marks)
  PROVE  o.to \subseteq DOMAIN marks /\ o.marks \in [DOMAIN marks -> BOOLEAN]
<1> DEFINE marked == {c \in DOMAIN marks : marks[c]}
           Outcome(b) == IF b = {} THEN [to |-> DOMAIN marks, marks |-> [c \in DOMAIN marks |-> TRUE]]
                         ELSE [to |-> b, marks |-> [c \in DOMAIN marks |-> c \in b \ marked]]
<1>1. PICK b \in SUBSET DOMAIN marks : o = Outcome(b)
  BY DEF Cpp!sendQueue
<1>2. CASE b = {}
  <2>1. o = [to |-> DOMAIN marks, marks |-> [c \in DOMAIN marks |-> TRUE]]
    BY <1>1, <1>2
  <2> QED BY <2>1
<1>3. CASE b # {}
  <2>1. o = [to |-> b, marks |-> [c \in DOMAIN marks |-> c \in b \ marked]]
    BY <1>1, <1>3
  <2> QED BY <2>1
<1> QED BY <1>2, <1>3

LEMMA DeliveriesTyped ==
  ASSUME NEW table, IsTable(table), NEW path \in Path \cup {NoPath}, NEW type,
         NEW o \in Cpp!Deliveries(table, path, type)
  PROVE  o.to \subseteq Name /\ IsTable(o.table)
<1> DEFINE at == Cpp!At(table, path)
<1>1. IsTable(at) /\ PartialFunction(at[path], Name, BOOLEAN)
  BY AtTyped DEF IsTable
<1>2. CASE type = "CAST"
  <2>1. o = [to |-> DOMAIN at[path], table |-> at]
    BY <1>2 DEF Cpp!Deliveries
  <2> QED BY <1>1, <2>1 DEF PartialFunction
<1>3. CASE type # "CAST"
  <2>1. PICK r \in Cpp!sendQueue(at[path]) :
          o = [to |-> r.to, table |-> [at EXCEPT ![path] = r.marks]]
    BY <1>3 DEF Cpp!Deliveries
  <2>2. r.to \subseteq DOMAIN at[path] /\ r.marks \in [DOMAIN at[path] -> BOOLEAN]
    BY CppSendQueueTyped
  <2> HIDE DEF at
  <2>3. PartialFunction(r.marks, Name, BOOLEAN)
    BY <1>1, <2>2 DEF PartialFunction
  <2> QED BY <1>1, <2>1, <2>2, <2>3 DEF IsTable, PartialFunction
<1> QED BY <1>2, <1>3

(***************************************************************************)
(* Calls of the library at n.                                              *)
(***************************************************************************)
\* Only the table of n changes, to another table.
OwnTable(n) ==
  /\ DOMAIN subscribers' = Node /\ IsTable(subscribers'[n])
  /\ \A x \in Node \ {n} : subscribers'[x] = subscribers[x]

LEMMA TablesTyped ==
  ASSUME StateOK, NEW n \in Node, OwnTable(n)
  PROVE  DOMAIN subscribers' = Node /\ \A x \in Node : IsTable(subscribers'[x])
<1>1. \A x \in Node : IsTable(subscribers[x])
  BY DEF StateOK, TablesOK
<1>2. \A x \in Node \ {n} : IsTable(subscribers'[x])
  BY <1>1 DEF OwnTable, IsTable, PartialFunction
<1> QED BY <1>2 DEF OwnTable

LEMMA TableKept ==
  ASSUME StateOK, NEW n \in Node, UNCHANGED subscribers
  PROVE  OwnTable(n)
BY DEF OwnTable, StateOK, TablesOK, IsTable, PartialFunction

LEMMA TableSet ==
  ASSUME StateOK, NEW n \in Node, NEW t, IsTable(t), subscribers' = [subscribers EXCEPT ![n] = t]
  PROVE  OwnTable(n)
<1>1. DOMAIN subscribers = Node
  BY DEF StateOK, TablesOK
<1>2. DOMAIN subscribers' = Node /\ subscribers'[n] = t
  BY <1>1
<1>3. \A x \in Node \ {n} : subscribers'[x] = subscribers[x]
  BY <1>1
<1>4. IsTable(subscribers'[n])
  BY <1>2 DEF IsTable, PartialFunction
<1> QED BY <1>2, <1>3, <1>4 DEF OwnTable

CppCallStep(n) ==
  \E k \in Node, m \in Posed(NextId), cb \in BOOLEAN :
    /\ Issue(n, k, m, cb, cb)
    /\ Sending(n, k, m)
    /\ handlers' \in [Node -> SUBSET Path]
    /\ OwnTable(n)
    /\ UNCHANGED <<name, brokerHandler, relayHandler, webSockets, conn, faults, answered, handled>>

LEMMA AskPosed ==
  ASSUME StateOK, NEW n \in Node, NEW k \in Node, NEW op, NEW m \in Posed(NextId),
         NEW cb \in BOOLEAN, Ask(n, k, op, m, cb), handlers' \in [Node -> SUBSET Path]
  PROVE  CppCallStep(n)
<1>1. OwnTable(n)
  BY TableKept DEF Ask
<1> QED BY <1>1 DEF Ask, CppCallStep, Sending, transport

LEMMA DeliverSends ==
  ASSUME StateOK, NEW queues, NEW n \in Node, NEW m, m.path \in Path \cup {NoPath},
         Deliver(queues, n, m)
  PROVE  /\ \E clients \in SUBSET Name : net' = FanOut(queues, n, clients, m)
         /\ OwnTable(n)
<1>1. PICK o \in Cpp!Deliveries(subscribers[n], m.path, m.type) :
        /\ net' = FanOut(queues, n, o.to, m)
        /\ subscribers' = [subscribers EXCEPT ![n] = o.table]
  BY DEF Deliver
<1>2. IsTable(subscribers[n])
  BY DEF StateOK, TablesOK
<1>3. o.to \in SUBSET Name /\ IsTable(o.table)
  BY <1>2, DeliveriesTyped
<1> QED BY <1>1, <1>3, TableSet

LEMMA CppCallSteps ==
  ASSUME StateOK, NEW n \in Node, CppCall(n)
  PROVE  CppCallStep(n)
<1>0. /\ name[n] \in Name /\ Program[n] \in ProgramType /\ TRUE \in BOOLEAN /\ FALSE \in BOOLEAN
      /\ handlers \in [Node -> SUBSET Path]
  BY ProgramType_ DEF StateOK, TablesOK
<1>1. PICK path \in Path, cb \in Program[n].callbacks :
        \/ CppMultLocal(n, path, cb)
        \/ CppQueueLocal(n, path, cb)
        \/ \E k \in Node :
             \/ \E to \in Program[n].to : CppReq(n, k, to, path, cb) \/ CppReady(n, k, to, path, cb)
             \/ \E handler \in BOOLEAN : CppSub(n, k, path, handler, cb)
             \/ CppUnSub(n, k, path, cb)
             \/ CppMult(n, k, path, cb)
             \/ CppQueue(n, k, path, cb)
  BY DEF CppCall
<1>2. cb \in BOOLEAN /\ Program[n].to \subseteq Name \cup {NoName}
  BY <1>0 DEF ProgramType
<1>3. NextId \in Id
  BY <1>1 DEF CppMultLocal, CppQueueLocal, CppReq, CppReady, CppSub, CppUnSub, CppMult, CppQueue,
              Ask, Issue
<1>4. ASSUME NEW to \in Name \cup {NoName}
      PROVE  /\ Cpp!req(NextId, name[n], to, path) \in Posed(NextId)
             /\ Cpp!ready(NextId, name[n], to, path) \in Posed(NextId)
             /\ Cpp!sub(NextId, name[n], path) \in Posed(NextId)
             /\ Cpp!unSub(NextId, name[n]) \in Posed(NextId)
             /\ \A broker \in BOOLEAN : /\ Cpp!Mult(NextId, name[n], broker, path) \in Posed(NextId)
                                        /\ Cpp!Queue(NextId, name[n], broker, path) \in Posed(NextId)
  BY <1>0, <1>3, CppRequestsPosed
<1>5. NoName \in Name \cup {NoName}
  OBVIOUS
<1>6. ASSUME NEW m \in Posed(NextId), Issue(n, n, m, cb, cb), Deliver(net, n, m),
             UNCHANGED <<tables, webSockets, transport, answered, handled>>
      PROVE  CppCallStep(n)
  <2>1. m.path \in Path \cup {NoPath}
    BY DEF Posed, Imq
  <2>2. OwnTable(n) /\ Sending(n, n, m)
    BY <1>6, <2>1, DeliverSends DEF Sending
  <2> QED BY <1>0, <1>2, <1>6, <2>2 DEF CppCallStep, tables, transport
<1>7. CASE CppMultLocal(n, path, cb)
  BY <1>0, <1>4, <1>5, <1>6, <1>7 DEF CppMultLocal
<1>8. CASE CppQueueLocal(n, path, cb)
  BY <1>0, <1>4, <1>5, <1>6, <1>8 DEF CppQueueLocal
<1>9. ASSUME NEW k \in Node, NEW to \in Program[n].to,
             CppReq(n, k, to, path, cb) \/ CppReady(n, k, to, path, cb)
      PROVE  CppCallStep(n)
  BY <1>0, <1>2, <1>4, <1>9, AskPosed DEF CppReq, CppReady
<1>10. ASSUME NEW k \in Node, NEW handler \in BOOLEAN, CppSub(n, k, path, handler, cb)
       PROVE  CppCallStep(n)
  <2>1. handlers' \in [Node -> SUBSET Path]
    BY <1>0, <1>10 DEF CppSub
  <2> QED BY <1>2, <1>4, <1>5, <1>10, <2>1, AskPosed DEF CppSub
<1>11. ASSUME NEW k \in Node, CppUnSub(n, k, path, cb)
       PROVE  CppCallStep(n)
  <2>1. handlers' \in [Node -> SUBSET Path]
    BY <1>0, <1>11 DEF CppUnSub
  <2> QED BY <1>2, <1>4, <1>5, <1>11, <2>1, AskPosed DEF CppUnSub
<1>12. ASSUME NEW k \in Node, CppMult(n, k, path, cb) \/ CppQueue(n, k, path, cb)
       PROVE  CppCallStep(n)
  BY <1>0, <1>2, <1>4, <1>5, <1>12, AskPosed DEF CppMult, CppQueue
<1> QED BY <1>1, <1>7, <1>8, <1>9, <1>10, <1>11, <1>12

LEMMA CppCallState ==
  ASSUME StateOK, NEW n \in Node, CppCall(n)
  PROVE  StateOK'
<1>1. PICK k \in Node, m \in Posed(NextId), cb \in BOOLEAN :
        /\ Issue(n, k, m, cb, cb)
        /\ handlers' \in [Node -> SUBSET Path]
        /\ OwnTable(n)
        /\ UNCHANGED <<name, brokerHandler, relayHandler, webSockets, conn, faults, handled>>
  BY CppCallSteps DEF CppCallStep
<1>2. /\ issued' \in Seq(CallRecord) /\ Len(issued') <= MaxId
      /\ messages' \in [Node -> SUBSET Id]
  BY <1>1, IssueTyped DEF Posed
<1>3. DOMAIN subscribers' = Node /\ \A x \in Node : IsTable(subscribers'[x])
  BY <1>1, TablesTyped
<1> QED BY <1>1, <1>2, <1>3 DEF StateOK, TablesOK, PartialFunction

\* The functions that only change the tables.
LEMMA CppConfigureState ==
  ASSUME StateOK, NEW n \in Node, CppConfigure(n)
  PROVE  StateOK' /\ OwnTable(n) /\ UNCHANGED <<net, issued, answered>>
<1> USE DEF tables, transport, untabled
<1>1. ASSUME NEW new \in Name, SetName(n, new) PROVE StateOK' /\ OwnTable(n)
  BY <1>1, ConfigureState, TableKept DEF Configure, SetName
<1>2. ASSUME NEW path \in Path, SetHandler(n, path) PROVE StateOK' /\ OwnTable(n)
  BY <1>2, ConfigureState, TableKept DEF Configure, SetHandler
<1>3. ASSUME NEW set \in BOOLEAN, SetBrokerHandler(n, set) \/ SetRelayHandler(n, set)
      PROVE  StateOK' /\ OwnTable(n)
  BY <1>3, ConfigureState, TableKept DEF Configure, SetBrokerHandler, SetRelayHandler
<1>4. ASSUME NEW client \in Name, NEW path \in Path,
             CppAddSubscriber(n, client, path) \/ CppDelSubscriber(n, client, path)
      PROVE  StateOK' /\ OwnTable(n)
  <2>1. /\ IsTable(Cpp!addSubscriber(subscribers[n], client, path))
        /\ IsTable(Cpp!delSubscriber(subscribers[n], client, path))
    BY CppAddSubscriberTyped, CppDelSubscriberTyped DEF StateOK, TablesOK
  <2>2. OwnTable(n)
    BY <1>4, <2>1, TableSet DEF CppAddSubscriber, CppDelSubscriber
  <2>3. DOMAIN subscribers' = Node /\ \A x \in Node : IsTable(subscribers'[x])
    BY <2>2, TablesTyped
  <2> QED BY <1>4, <2>2, <2>3 DEF CppAddSubscriber, CppDelSubscriber, StateOK, TablesOK,
                                  PartialFunction
<1>5. ASSUME NEW i \in messages[n], DelMessage(n, i) PROVE StateOK' /\ OwnTable(n)
  BY <1>5, ConfigureState, TableKept DEF Configure, DelMessage
<1>6. UNCHANGED <<net, issued, answered>>
  BY DEF CppConfigure, SetName, SetHandler, SetBrokerHandler, SetRelayHandler, DelMessage,
         CppAddSubscriber, CppDelSubscriber
<1> QED BY <1>1, <1>2, <1>3, <1>4, <1>5, <1>6 DEF CppConfigure

(***************************************************************************)
(* Receiving.                                                              *)
(***************************************************************************)
\* What recieveRawData does to the callbacks.
LEMMA CppRecieveAnswers ==
  ASSUME NEW k \in Node, NEW n \in Node, CppRecieve(k, n)
  PROVE  /\ Waiting(k, n) /\ UNCHANGED issued
         /\ \/ UNCHANGED <<messages, answered>>
            \/ LET m == Received(k, n)
               IN  /\ m.sts # "REQ" /\ m.id \in messages[n]
                   /\ answered' = [answered EXCEPT ![m.id] = Append(@, m)]
                   /\ messages' = [messages EXCEPT ![n] = @ \ {m.id}]
BY DEF CppRecieve, CppBroker, CppNotBroker, CppReplay, CppRelay, CppCmd, CppRequest, CppReply,
       HasCallback, CppStrayReply, Return

LEMMA CppRecieveState ==
  ASSUME StateOK, PendingOwned, NEW k \in Node, NEW n \in Node, CppRecieve(k, n),
         Acceptable(Received(k, n))
  PROVE  StateOK' /\ OwnTable(n)
<1> USE DEF tables, transport
<1> DEFINE m == Received(k, n)
<1>1. m.path \in Path \cup {NoPath} /\ m.id \in Id /\ (m.type = "CMD" => m.from \in Name)
  BY DEF Acceptable
<1>2. ASSUME UNCHANGED <<name, handlers, brokerHandler, relayHandler, messages, webSockets, conn,
                         faults, issued>>,
             OwnTable(n), handled' \in [Id -> [Node -> Nat]]
      PROVE  StateOK'
  <2>1. DOMAIN subscribers' = Node /\ \A x \in Node : IsTable(subscribers'[x])
    BY <1>2, TablesTyped
  <2> QED BY <1>2, <2>1 DEF StateOK, TablesOK, PartialFunction
<1>3. handled \in [Id -> [Node -> Nat]] /\ IsTable(subscribers[n])
  BY DEF StateOK, TablesOK
<1>4. CASE CppBroker(k, n) \/ CppNotBroker(k, n) \/ CppRelay(k, n) \/ CppStrayReply(k, n)
  <2>1. OwnTable(n)
    BY <1>4, TableKept DEF CppBroker, CppNotBroker, CppRelay, CppStrayReply
  <2> QED BY <1>2, <1>3, <1>4, <2>1 DEF CppBroker, CppNotBroker, CppRelay, CppStrayReply, Return
<1>5. CASE CppReplay(k, n)
  <2> DEFINE r == Cpp!brokerReplay(m)
  <2>1. r.path = m.path
    BY DEF Cpp!brokerReplay, Cpp!makeImq
  <2>2. Deliver(Rest(k, n), n, r)
    BY <1>5 DEF CppReplay
  <2> HIDE DEF r
  <2>3. OwnTable(n)
    BY <1>1, <2>1, <2>2, DeliverSends
  <2> QED BY <1>2, <1>3, <1>5, <2>3 DEF CppReplay
<1>6. CASE CppCmd(k, n)
  <2> DEFINE new == CASE m.cmd = "SUB" -> Cpp!addSubscriber(subscribers[n], m.from, m.path)
                      [] m.cmd = "UNSUB" -> Cpp!delSubscriber(subscribers[n], m.from, m.path)
                      [] OTHER -> subscribers[n]
  <2>1. m.from \in Name
    BY <1>1, <1>6 DEF CppCmd
  <2>2. /\ IsTable(Cpp!addSubscriber(subscribers[n], m.from, m.path))
        /\ IsTable(Cpp!delSubscriber(subscribers[n], m.from, m.path))
    BY <1>1, <1>3, <2>1, CppAddSubscriberTyped, CppDelSubscriberTyped
  <2>3. subscribers' = [subscribers EXCEPT ![n] = new]
    BY <1>6, Zenon DEF CppCmd
  <2>4. IsTable(new)
    BY <1>3, <2>2
  <2> HIDE DEF new
  <2>5. OwnTable(n)
    BY <2>3, <2>4, TableSet
  <2> QED BY <1>2, <1>3, <1>6, <2>5 DEF CppCmd, Return
<1>7. CASE CppRequest(k, n)
  <2>1. OwnTable(n)
    BY <1>7, TableKept DEF CppRequest
  <2>2. handled' \in [Id -> [Node -> Nat]]
    BY <1>1, <1>3, <1>7 DEF CppRequest
  <2> QED BY <1>2, <1>7, <2>1, <2>2 DEF CppRequest, Return
<1>8. CASE CppReply(k, n)
  <2>1. m.id \in messages[n] /\ webSockets' = Registered(n, m) /\ UNCHANGED subscribers
    BY <1>8 DEF CppReply, HasCallback
  <2>2. OwnTable(n)
    BY <2>1, TableKept
  <2>3. /\ DOMAIN webSockets' = Node
        /\ \A x \in Node : PartialFunction(webSockets'[x], Name, Node \cup {Closed})
    BY <2>1, RegisteredTyped
  <2>4. messages' \in [Node -> SUBSET Id]
    BY <1>8 DEF CppReply, StateOK, TablesOK
  <2> QED BY <1>8, <2>1, <2>2, <2>3, <2>4 DEF CppReply, StateOK, TablesOK, IsTable
<1> QED BY <1>4, <1>5, <1>6, <1>7, <1>8 DEF CppRecieve

\* Over any set S of messages that has what n may reply to the one received,
\* or send on, the queues stay sequences over S.
LEMMA CppRecieveNet ==
  ASSUME StateOK, NEW S, net \in [Link -> Seq(S)], NEW k \in Node, NEW n \in Node,
         CppRecieve(k, n), Received(k, n).path \in Path \cup {NoPath},
         Replies(n, Received(k, n)) \subseteq S,
         Received(k, n).broker => Cpp!brokerReplay(Received(k, n)) \in S
  PROVE  net' \in [Link -> Seq(S)]
<1> DEFINE m == Received(k, n)
<1>1. conn \subseteq Link
  BY DEF StateOK
<1>2. ASSUME NEW replies \in SUBSET Replies(n, m), Waiting(k, n), Return(k, n, replies)
      PROVE  net' \in [Link -> Seq(S)]
  BY <1>1, <1>2, ReturnKeeps
<1>3. /\ \A replies \in CppReplies(n, m) : replies \subseteq Replies(n, m)
      /\ {Cpp!err(name[n], m)} \subseteq Replies(n, m)
      /\ Cpp!handleCmd(name[n], m) \subseteq Replies(n, m)
      /\ {} \subseteq Replies(n, m)
  BY CppRepliesAre
<1>4. CASE CppBroker(k, n) \/ CppNotBroker(k, n) \/ CppRelay(k, n)
  BY <1>2, <1>3, <1>4 DEF CppBroker, CppNotBroker, CppRelay
<1>5. CASE CppReplay(k, n)
  <2> DEFINE r == Cpp!brokerReplay(m)
  <2>1. r.path = m.path /\ r \in S
    BY <1>5 DEF CppReplay, ForBroker, Cpp!brokerReplay, Cpp!makeImq
  <2>2. Deliver(Rest(k, n), n, r) /\ Waiting(k, n)
    BY <1>5 DEF CppReplay
  <2>3. Rest(k, n) \in [Link -> Seq(S)]
    BY <2>2, RestKeeps
  <2> HIDE DEF r
  <2>4. PICK clients \in SUBSET Name : net' = FanOut(Rest(k, n), n, clients, r)
    BY <2>1, <2>2, DeliverSends
  <2> QED BY <2>1, <2>3, <2>4, FanOutKeeps
<1>6. CASE CppCmd(k, n) \/ CppRequest(k, n) \/ CppStrayReply(k, n)
  BY <1>2, <1>3, <1>6 DEF CppCmd, CppRequest, CppStrayReply
<1>7. CASE CppReply(k, n)
  <2>1. /\ Waiting(k, n)
        /\ \/ net' = Rest(k, n)
           \/ \E replies \in CppReplies(n, m) : \E r \in replies : net' = Send(Rest(k, n), n, k, r)
    BY <1>7 DEF CppReply
  <2>2. Rest(k, n) \in [Link -> Seq(S)]
    BY <2>1, RestKeeps
  <2>3. ASSUME NEW r \in Replies(n, m) PROVE Send(Rest(k, n), n, k, r) \in [Link -> Seq(S)]
    BY <1>1, <2>2, SendKeeps
  <2> QED BY <1>3, <2>1, <2>2, <2>3
<1> QED BY <1>4, <1>5, <1>6, <1>7 DEF CppRecieve

(***************************************************************************)
(* The messages on the way.                                                *)
(***************************************************************************)
LEMMA MailAcceptable ==
  ASSUME BrokeredPlain, NEW m \in Mail(issued)
  PROVE  Acceptable(m)
<1>1. /\ m.id \in Known /\ m.id \in Id /\ m.path \in Path \cup {NoPath}
      /\ m.from \in Name \/ m.from = NoName
  BY DEF Mail, Known, Imq, Anonymous
<1>2. m.from = NoName => m.type # "CMD" /\ Request(m.id).cmd # "SYN"
  BY <1>1 DEF Mail, BrokeredPlain, Request
<1> QED BY <1>1, <1>2 DEF Acceptable

\* What is sent on receiving mail is mail.
LEMMA RepliesMail ==
  ASSUME StateOK, NEW n \in Node, NEW m \in Mail(issued)
  PROVE  /\ Replies(n, m) \subseteq Mail(issued)
         /\ {Err(name[n], m), Success(name[n], m), Rep(name[n], m), ReplayMsg(name[n], m)}
              \subseteq Mail(issued)
         /\ m.broker => Cpp!brokerReplay(m) \in Mail(issued)
<1>1. /\ name[n] \in Name /\ name[n] # NoName
      /\ m.id \in Id /\ m.from \in Name \cup {NoName} /\ m.to \in Name \cup {NoName}
      /\ m.broker \in BOOLEAN /\ m.path \in Path \cup {NoPath} /\ m.type \in MsgType
      /\ m.sts \in Sts /\ m.cmd \in Cmd
  BY SentinelAssumption DEF StateOK, TablesOK, Mail, Imq, Anonymous
<1>2. ASSUME NEW r \in Imq \cup Anonymous, r.id = m.id, r.path = m.path, r.broker => m.broker,
             r.from = NoName => m.broker, r.type = m.type \/ r.type # "CMD"
      PROVE  r \in Mail(issued)
  BY <1>2 DEF Mail
<1>3. /\ success(name[n], m) \in Mail(issued) /\ rep(name[n], m) \in Mail(issued)
      /\ err(name[n], m) \in Mail(issued)
  BY <1>1, <1>2 DEF success, rep, err, makeImq, Imq, Sts
<1>4. /\ Success(name[n], m) \in Mail(issued) /\ Rep(name[n], m) \in Mail(issued)
      /\ Err(name[n], m) \in Mail(issued)
  BY <1>1, <1>2 DEF Success, Rep, Err, makeImq, Imq, Sts, Cmd
<1>5. ReplayMsg(name[n], m) \in Mail(issued)
  <2> DEFINE r == ReplayMsg(name[n], m)
  <2>1. r \in Imq
    BY <1>1 DEF ReplayMsg, makeImq, Imq, Sts, Cmd, MsgType
  <2>2. /\ r.id = m.id /\ r.path = m.path /\ ~r.broker /\ r.from = name[n]
        /\ r.type \in {"CAST", "QUEUE"}
    BY DEF ReplayMsg, makeImq
  <2> QED BY <1>1, <2>1, <2>2 DEF Mail
<1>6. ASSUME m.broker PROVE Cpp!brokerReplay(m) \in Mail(issued)
  <2> DEFINE r == Cpp!brokerReplay(m)
  <2>1. r \in Imq \cup Anonymous
    BY <1>1 DEF Cpp!brokerReplay, Cpp!makeImq, Imq, Anonymous
  <2>2. r.id = m.id /\ r.path = m.path /\ ~r.broker /\ r.type = m.type
    BY DEF Cpp!brokerReplay, Cpp!makeImq
  <2> QED BY <1>6, <2>1, <2>2 DEF Mail
<1> QED BY <1>3, <1>4, <1>5, <1>6 DEF Replies

\* A call of any library, or the Syn of a process that accepts a connection.
PostStep ==
  \E n, k \in Node, m \in Posed(NextId), cb, stored \in BOOLEAN :
    Issue(n, k, m, cb, stored) /\ Sending(n, k, m) /\ UNCHANGED answered

LEMMA IssueIsPost == IssueStep => PostStep
BY AskedPosed DEF IssueStep, PostStep

LEMMA PostMails ==
  ASSUME StateOK, MailInv, PostStep
  PROVE  MailInv'
<1> DEFINE S == Mail(issued')
<1>1. PICK n, k \in Node, m \in Posed(NextId), cb, stored \in BOOLEAN :
        Issue(n, k, m, cb, stored) /\ Sending(n, k, m) /\ UNCHANGED answered
  BY DEF PostStep
<1>2. /\ Known' = Known \cup {NextId} /\ NextId \notin Known
      /\ \A i \in Known : issued'[i] = issued[i]
      /\ issued'[NextId].msg = m
  <2>1. /\ Known' = Known \cup {NextId} /\ NextId \notin Known
        /\ \A i \in Known : issued'[i] = issued[i]
        /\ issued'[NextId] = [node |-> n, via |-> k, msg |-> m, cb |-> cb]
    BY <1>1, IssueExtends DEF Posed
  <2> QED BY <2>1
<1>3. Mail(issued) \subseteq S /\ m \in S
  <2>1. m \in Imq /\ m.id = NextId /\ m.from # NoName /\ (m.broker => m.type # "CMD")
    BY SentinelAssumption DEF Posed, Imq
  <2> QED BY <1>2, <2>1 DEF Mail, Known
<1>4. BrokeredPlain'
  <2>1. \A i \in Known' : Request(i)' = IF i = NextId THEN m ELSE Request(i)
    BY <1>2 DEF Request
  <2> QED BY <1>2, <2>1 DEF BrokeredPlain, MailInv, Posed
<1>5. net' \in [Link -> Seq(S)]
  <2>1. Seq(Mail(issued)) \subseteq Seq(S)
    BY <1>3, SeqMonotonic
  <2>2. net \in [Link -> Seq(S)] /\ conn \subseteq Link
    BY <2>1 DEF MailInv, StateOK
  <2> HIDE DEF S
  <2> QED BY <1>1, <1>3, <2>2, SendingKeeps
<1>6. \A i \in Id : answered'[i] \in Seq(MailReply(issued', i))
  <2>1. \A i \in Id : Seq(MailReply(issued, i)) \subseteq Seq(MailReply(issued', i))
    BY <1>3, SeqMonotonic DEF MailReply
  <2> QED BY <1>1, <2>1 DEF MailInv
<1> QED BY <1>4, <1>5, <1>6 DEF MailInv

\* Any of the three libraries takes up a message.
Takes(k, n) == RecieveMessage(k, n) \/ recieveRawData(k, n) \/ CppRecieve(k, n)

LEMMA TakesAnswers ==
  ASSUME NEW k \in Node, NEW n \in Node, Takes(k, n)
  PROVE  /\ Waiting(k, n) /\ UNCHANGED issued
         /\ \/ UNCHANGED <<messages, answered>>
            \/ LET m == Received(k, n)
               IN  /\ m.sts # "REQ" /\ m.id \in messages[n]
                   /\ answered' = [answered EXCEPT ![m.id] = Append(@, m)]
                   /\ UNCHANGED messages \/ messages' = [messages EXCEPT ![n] = @ \ {m.id}]
<1>1. CASE RecieveMessage(k, n)
  BY <1>1 DEF RecieveMessage, RecvBroker, RecvNotBroker, RecvRelay, RecvNotRelay, RecvCmd,
              RecvRequest, RecvUnhandled, RecvReply, RecvStrayReply
<1>2. CASE recieveRawData(k, n)
  BY <1>2 DEF recieveRawData, TsBroker, TsRelay, TsCmd, TsRequest, TsReply, TsReplyThrows,
              RunCallback, TsStrayReply, Return
<1>3. CASE CppRecieve(k, n)
  BY <1>3, CppRecieveAnswers
<1> QED BY <1>1, <1>2, <1>3 DEF Takes

LEMMA TakesMails ==
  ASSUME StateOK, MessagesOK, PendingOwned, MailInv, NEW k \in Node, NEW n \in Node, Takes(k, n)
  PROVE  StateOK' /\ MailInv'
<1> DEFINE S == Mail(issued)
           m == Received(k, n)
<1>1. /\ Waiting(k, n) /\ UNCHANGED issued
      /\ UNCHANGED answered \/ (m.sts # "REQ" /\ answered' = [answered EXCEPT ![m.id] = Append(@, m)])
  BY TakesAnswers
<1>2. m \in S /\ net \in [Link -> Seq(S)]
  BY <1>1, RestKeeps DEF MailInv
<1>3. m.id \in Id /\ m.path \in Path \cup {NoPath}
  BY <1>2 DEF Mail, Imq, Anonymous
<1>4. Acceptable(m)
  BY <1>2, MailAcceptable DEF MailInv
<1>5. StateOK'
  BY <1>4, RecieveMessageState, recieveRawDataState, CppRecieveState DEF Takes
<1>6. net' \in [Link -> Seq(S)]
  <2>1. /\ Replies(n, m) \subseteq S
        /\ Err(name[n], m) \in S /\ Success(name[n], m) \in S /\ Rep(name[n], m) \in S
        /\ ReplayMsg(name[n], m) \in S
        /\ m.broker => Cpp!brokerReplay(m) \in S
    BY <1>2, RepliesMail
  <2> HIDE DEF S
  <2>2. CASE RecieveMessage(k, n)
    BY <1>2, <1>3, <2>1, <2>2, RecieveMessageNet
  <2>3. CASE recieveRawData(k, n)
    BY <1>2, <2>1, <2>3, recieveRawDataKeeps
  <2>4. CASE CppRecieve(k, n)
    BY <1>2, <1>3, <2>1, <2>4, CppRecieveNet
  <2> QED BY <2>2, <2>3, <2>4 DEF Takes
<1>7. \A i \in Id : answered'[i] \in Seq(MailReply(issued, i))
  <2>1. CASE UNCHANGED answered
    BY <2>1 DEF MailInv
  <2>2. CASE m.sts # "REQ" /\ answered' = [answered EXCEPT ![m.id] = Append(@, m)]
    <3>1. m \in MailReply(issued, m.id)
      BY <1>2, <2>2 DEF MailReply
    <3>2. Append(answered[m.id], m) \in Seq(MailReply(issued, m.id))
      BY <1>3, <3>1, AppendProperties DEF MailInv
    <3> QED BY <1>3, <2>2, <3>2 DEF MailInv, MessagesOK
  <2> QED BY <1>1, <2>1, <2>2
<1>8. BrokeredPlain'
  BY <1>1 DEF MailInv, BrokeredPlain, Known, Request
<1> QED BY <1>1, <1>5, <1>6, <1>7, <1>8 DEF MailInv

(***************************************************************************)
(* The steps of the network, as far as messages and callbacks go.          *)
(***************************************************************************)
\* A step that neither takes up a message nor makes a call.
Aside ==
  /\ UNCHANGED <<issued, answered>>
  /\ GiveUpStep \/ UNCHANGED messages
  /\ \A S : net \in [Link -> Seq(S)] => net' \in [Link -> Seq(S)]

LEMMA ConfigureAside ==
  ASSUME StateOK, NEW n \in Node, Configure(n) \/ TsConfigure(n) \/ CppConfigure(n)
  PROVE  StateOK' /\ Aside
<1>1. StateOK' /\ UNCHANGED <<net, issued, answered>>
  BY ConfigureState, TsConfigureState, CppConfigureState
<1>2. CASE \E i \in messages[n] : DelMessage(n, i)
  BY <1>1, <1>2 DEF DelMessage, GiveUpStep, Aside
<1>3. CASE ~ \E i \in messages[n] : DelMessage(n, i)
  <2>1. UNCHANGED messages
    BY <1>3 DEF Configure, TsConfigure, CppConfigure, setName, setHandler, setBrokerHandler,
         setRelayHandler, delMessage, SetName, SetHandler, DelHandler, SetBrokerHandler,
         SetRelayHandler, CallAddSubscriber, CallDelSubscriber, TsAddSubscriber, TsDelSubscriber,
         CppAddSubscriber, CppDelSubscriber
  <2> QED BY <1>1, <2>1 DEF Aside
<1> QED BY <1>2, <1>3

LEMMA CppSteps ==
  ASSUME StateOK, [CppNext]_vars
  PROVE  \/ \E k, n \in Node : Takes(k, n)
         \/ StateOK' /\ PostStep
         \/ StateOK' /\ Aside
<1>1. CASE UNCHANGED vars
  BY <1>1 DEF vars, tables, transport, StateOK, TablesOK, IsTable, PartialFunction, Aside
<1>2. ASSUME NEW n \in Node, TsCall(n) PROVE StateOK' /\ PostStep
  BY <1>2, TsCallSteps, AskState, IssueIsPost DEF AskStep, IssueStep
<1>3. ASSUME NEW n \in Node, CppCall(n) PROVE StateOK' /\ PostStep
  BY <1>3, CppCallSteps, CppCallState DEF CppCallStep, PostStep
<1>4. ASSUME NEW n \in Node, Call(n) PROVE StateOK' /\ PostStep
  BY <1>4, CallSteps, CallState, IssueIsPost
<1>5. ASSUME NEW n \in Node, Configure(n) \/ TsConfigure(n) \/ CppConfigure(n)
      PROVE  StateOK' /\ Aside
  BY <1>5, ConfigureAside
<1>6. ASSUME NEW n \in Node, NEW k \in Node, Connect(n, k)
      PROVE  StateOK' /\ (PostStep \/ Aside)
  BY <1>6, ConnectSteps, ConnectState, IssueIsPost DEF Aside
<1>7. ASSUME NEW n \in Node, NEW k \in Node, Disconnect(n, k) PROVE StateOK' /\ Aside
  BY <1>7, DisconnectState, DisconnectKeeps DEF Aside
<1>8. ASSUME NEW l \in Link, Disturb(l) PROVE StateOK' /\ Aside
  BY <1>8, DisturbState, DisturbKeeps DEF Aside
<1>9. Browser \subseteq Node /\ Native \subseteq Node
  BY BrowserAssumption, NativeAssumption
<1> QED BY <1>1, <1>2, <1>3, <1>4, <1>5, <1>6, <1>7, <1>8, <1>9 DEF CppNext, Takes

CppInv == StateOK /\ MessagesOK /\ PendingOwned /\ MailInv

LEMMA MailTyped ==
  ASSUME NEW calls
  PROVE  /\ Seq(Mail(calls)) \subseteq Seq(Imq \cup Anonymous)
         /\ \A i \in Id : Seq(MailReply(calls, i)) \subseteq Seq(Imq \cup Anonymous)
<1>1. /\ Mail(calls) \subseteq Imq \cup Anonymous
      /\ \A i \in Id : MailReply(calls, i) \subseteq Imq \cup Anonymous
  BY DEF Mail, MailReply
<1> QED BY <1>1, SeqMonotonic

\* What waits may go, and nothing is forgotten.
LEMMA OwnedKept ==
  ASSUME StateOK, PendingOwned, UNCHANGED issued,
         \/ UNCHANGED messages
         \/ \E n \in Node : \E i \in messages[n] : messages' = [messages EXCEPT ![n] = @ \ {i}]
  PROVE  PendingOwned'
<1>1. \A n \in Node : messages'[n] \subseteq messages[n]
  BY DEF StateOK, TablesOK
<1> QED BY <1>1 DEF PendingOwned, Known

LEMMA CppInvStep == CppInv /\ [CppNext]_vars => CppInv'
<1> SUFFICES ASSUME CppInv, [CppNext]_vars PROVE CppInv'
  OBVIOUS
<1>0. StateOK /\ MessagesOK /\ PendingOwned /\ MailInv
  BY DEF CppInv
<1>1. answered = [i \in Id |-> answered[i]]
  BY <1>0 DEF MessagesOK
<1>2. ASSUME StateOK', MailInv', PendingOwned', answered' = [i \in Id |-> answered'[i]]
      PROVE  CppInv'
  <2>1. net' \in [Link -> Seq(Mail(issued'))] /\ \A i \in Id : answered'[i] \in Seq(MailReply(issued', i))
    BY <1>2 DEF MailInv
  <2>2. MessagesOK'
    BY <1>2, <2>1, MailTyped DEF MessagesOK
  <2> QED BY <1>2, <2>2 DEF CppInv
<1>3. ASSUME NEW k \in Node, NEW n \in Node, Takes(k, n) PROVE CppInv'
  <2> DEFINE m == Received(k, n)
  <2>1. StateOK' /\ MailInv'
    BY <1>0, <1>3, TakesMails
  <2>2. /\ UNCHANGED issued
        /\ \/ UNCHANGED <<messages, answered>>
           \/ /\ m.id \in messages[n]
              /\ answered' = [answered EXCEPT ![m.id] = Append(@, m)]
              /\ UNCHANGED messages \/ messages' = [messages EXCEPT ![n] = @ \ {m.id}]
    BY <1>3, TakesAnswers
  <2>3. PendingOwned'
    BY <1>0, <2>2, OwnedKept
  <2>4. answered' = [i \in Id |-> answered'[i]]
    BY <1>1, <2>2
  <2> QED BY <1>2, <2>1, <2>3, <2>4
<1>4. CASE StateOK' /\ PostStep
  <2>1. MailInv'
    BY <1>0, <1>4, PostMails
  <2>2. PendingOwned'
    BY <1>0, <1>4, IssueOwned DEF PostStep, Posed
  <2>3. UNCHANGED answered
    BY <1>4 DEF PostStep
  <2> QED BY <1>1, <1>2, <1>4, <2>1, <2>2, <2>3
<1>5. CASE StateOK' /\ Aside
  <2>1. MailInv'
    BY <1>0, <1>5 DEF Aside, MailInv, BrokeredPlain, Known, Request
  <2>2. PendingOwned'
    BY <1>0, <1>5, OwnedKept DEF Aside, GiveUpStep
  <2> QED BY <1>1, <1>2, <1>5, <2>1, <2>2 DEF Aside
<1> QED BY <1>0, <1>3, <1>4, <1>5, CppSteps

\* CppInv holds in every state.
THEOREM CppInvariance == CppSpec => []CppInv
<1>1. Init => CppInv
  BY InitState, EmptySeq DEF Init, CppInv, MessagesOK, PendingOwned, MailInv, BrokeredPlain, Known
<1> QED BY <1>1, CppInvStep, PTL DEF CppSpec

\* Every variable keeps its type in a network of all three libraries, the
\* messages nobody sent included.
THEOREM CppTypeCorrect == CppSpec => []CppTypeOK
<1>1. CppInv => CppTypeOK
  BY DEF CppInv, CppTypeOK, StateOK
<1> QED BY <1>1, CppInvariance, PTL

\* What happens to the path and the sender on the way, a callback is only
\* run on a reply to the request it was passed with.
THEOREM CppRightRequest == CppSpec => []CallbackAnswersItsRequest
<1>1. CppInv => CallbackAnswersItsRequest
  <2> SUFFICES ASSUME CppInv, NEW i \in Known, NEW m \in InFlight(answered[i])
               PROVE  m.id = i /\ m.sts # "REQ" /\ m.path = Request(i).path
    BY DEF CallbackAnswersItsRequest
  <2>1. i \in Id
    BY LenProperties, MaxIdAssumption DEF Known, Id, CppInv, StateOK
  <2>2. PICK j \in 1 .. Len(answered[i]) : m = answered[i][j]
    BY DEF InFlight
  <2>3. m \in MailReply(issued, i)
    BY <2>1, <2>2, ElementOfSeq DEF CppInv, MailInv
  <2> QED BY <2>3 DEF MailReply, Mail, Request
<1> QED BY <1>1, CppInvariance, PTL

LEMMA CppNextImplements == CppInv /\ [CppNext]_vars => [T!Next]_<<outstanding, runs>>
<1> SUFFICES ASSUME CppInv, [CppNext]_vars
             PROVE  T!Next \/ UNCHANGED <<outstanding, runs>>
  OBVIOUS
<1>0. StateOK /\ PendingOwned /\ answered \in [Id -> Seq(Imq \cup Anonymous)]
      /\ net \in [Link -> Seq(Imq \cup Anonymous)]
  BY DEF CppInv, MessagesOK
<1>1. ASSUME UNCHANGED <<messages, issued, answered>> PROVE UNCHANGED <<outstanding, runs>>
  BY <1>1 DEF outstanding, runs, Known
<1>2. ASSUME NEW k \in Node, NEW n \in Node, Takes(k, n)
      PROVE  T!Next \/ UNCHANGED <<outstanding, runs>>
  <2> DEFINE m == Received(k, n)
  <2>1. /\ Waiting(k, n) /\ UNCHANGED issued
        /\ \/ UNCHANGED <<messages, answered>>
           \/ /\ m.id \in messages[n]
              /\ answered' = [answered EXCEPT ![m.id] = Append(@, m)]
              /\ UNCHANGED messages \/ messages' = [messages EXCEPT ![n] = @ \ {m.id}]
    BY <1>2, TakesAnswers
  <2>2. m \in Imq \cup Anonymous
    BY <1>0, <2>1, RestKeeps
  <2> HIDE DEF m
  <2> QED BY <1>0, <1>1, <2>1, <2>2, AnswerIsAnswer, ThrowIsThrow
<1>3. CASE PostStep
  BY <1>0, <1>3, IssueIsCall DEF PostStep, Posed
<1>4. CASE Aside
  BY <1>0, <1>1, <1>4, GiveUpIsGiveUp DEF Aside
<1> QED BY <1>0, <1>2, <1>3, <1>4, CppSteps

\* Whichever libraries the processes use, a request lives the life RpcThrows
\* describes.
THEOREM CppRefinement == CppSpec => ImplementsRpcThrows
<1>1. Init => T!Init
  BY DEF Init, T!Init, outstanding, runs, Known
<1> QED BY <1>1, CppNextImplements, CppInvariance, PTL DEF CppSpec, ImplementsRpcThrows, T!Spec

(***************************************************************************)
(* The subscriber tables.                                                  *)
(***************************************************************************)
\* What a process with the C++ library does touches its own table only.
LEMMA NativeKeepsOthers ==
  ASSUME EmptyPathIsNative, NEW n \in Native, OwnTable(n)
  PROVE  EmptyPathIsNative'
BY DEF EmptyPathIsNative, OwnTable

LEMMA OthersKeepNonEmpty ==
  ASSUME EmptyPathIsNative, NEW n \in Node \ Native, NonEmptyKept(n)
  PROVE  EmptyPathIsNative'
<1>1. NoEmpty(subscribers'[n])
  BY DEF EmptyPathIsNative, NonEmptyKept, NoEmpty
<1>2. \A x \in Node \ {n} : subscribers'[x] = subscribers[x]
  BY DEF NonEmptyKept
<1> QED BY <1>1, <1>2 DEF EmptyPathIsNative, NoEmpty

LEMMA EmptyPathStep ==
  ASSUME CppInv, EmptyPathIsNative, [CppNext]_vars
  PROVE  EmptyPathIsNative'
<1>0. StateOK /\ PendingOwned /\ MailInv
  BY DEF CppInv
<1>1. CASE UNCHANGED vars
  BY <1>1 DEF vars, EmptyPathIsNative
<1>2. ASSUME NEW n \in Native, CppCall(n) \/ CppConfigure(n) PROVE EmptyPathIsNative'
  <2>1. OwnTable(n)
    BY <1>0, <1>2, NativeAssumption, CppCallSteps, CppConfigureState DEF CppCallStep
  <2> QED BY <2>1, NativeKeepsOthers
<1>3. ASSUME NEW n \in Node \ Native,
             Call(n) \/ Configure(n) \/ TsCall(n) \/ TsConfigure(n)
      PROVE  EmptyPathIsNative'
  BY <1>0, <1>3, CallKeepsNonEmpty, ConfigureKeepsNonEmpty, TsCallKeepsNonEmpty,
     TsConfigureKeepsNonEmpty, OthersKeepNonEmpty
<1>4. ASSUME NEW n \in Node, NEW k \in Node, Takes(k, n)
      PROVE  /\ Acceptable(Received(k, n))
             /\ Received(k, n).path \in Path \cup {NoPath}
  <2>1. Received(k, n) \in Mail(issued)
    BY <1>0, <1>4, TakesAnswers, RestKeeps DEF MailInv
  <2>2. Acceptable(Received(k, n))
    BY <1>0, <2>1, MailAcceptable DEF MailInv
  <2> QED BY <2>2 DEF Acceptable
<1>5. ASSUME NEW n \in Native, NEW k \in Node, CppRecieve(k, n) PROVE EmptyPathIsNative'
  <2>1. OwnTable(n)
    BY <1>0, <1>4, <1>5, NativeAssumption, CppRecieveState DEF Takes
  <2> QED BY <2>1, NativeKeepsOthers
<1>6. ASSUME NEW n \in Node \ Native, NEW k \in Node, RecieveMessage(k, n) \/ recieveRawData(k, n)
      PROVE  EmptyPathIsNative'
  <2>1. NonEmptyKept(n)
    BY <1>0, <1>4, <1>6, RecieveMessageKeepsNonEmpty, recieveRawDataKeepsNonEmpty DEF Takes
  <2> QED BY <2>1, OthersKeepNonEmpty
<1>7. CASE UNCHANGED subscribers
  BY <1>7 DEF EmptyPathIsNative
<1>8. Browser \subseteq Node \ Native
  BY BrowserAssumption, NativeAssumption
<1> QED BY <1>1, <1>2, <1>3, <1>5, <1>6, <1>7, <1>8, TransportKeepsTables DEF CppNext

\* Only a process with the C++ library keeps a path without subscribers.
THEOREM CppEmptyPaths == CppSpec => []EmptyPathIsNative
<1>1. Init => EmptyPathIsNative
  BY EnrolledTyped DEF Init, EmptyPathIsNative
<1>2. CppInv /\ EmptyPathIsNative /\ [CppNext]_vars => EmptyPathIsNative'
  BY EmptyPathStep
<1> QED BY <1>1, <1>2, CppInvariance, PTL DEF CppSpec
=============================================================================
