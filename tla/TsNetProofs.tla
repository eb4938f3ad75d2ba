---------------------------- MODULE TsNetProofs ----------------------------
(***************************************************************************)
(* Proofs about TsNet: networks of processes that use either library,      *)
(* whatever their handlers and callbacks throw.  The steps of the Go       *)
(* processes and of the transport are those of GoNet, whose lemmas are     *)
(* used for them.                                                          *)
(***************************************************************************)
EXTENDS TsNet, GoNetProofs

(***************************************************************************)
(* The messages the library builds are well formed.                        *)
(***************************************************************************)
LEMMA TsRequestsTyped ==
  ASSUME NEW i \in Id, NEW me \in Name, NEW to \in Name \cup {NoName}, NEW path \in Path,
         NEW broker \in BOOLEAN
  PROVE  /\ req(i, me, to, path) \in Asked(i)
         /\ ready(i, me, path) \in Asked(i)
         /\ sub(i, me, to, path) \in Asked(i) /\ unSub(i, me, to, path) \in Asked(i)
         /\ subShipped(i, me, path) \in Asked(i) /\ unSubShipped(i, me, path) \in Asked(i)
         /\ mult(i, me, broker, path) \in Asked(i)
         /\ queue(i, me, broker, path) \in Asked(i)
BY DEF Asked, req, ready, sub, unSub, subShipped, unSubShipped, mult, queue, makeImq,
       Imq, MsgType, Cmd, Sts

LEMMA TsRepliesTyped ==
  ASSUME NEW me \in Name, NEW m \in Imq
  PROVE  err(me, m) \in Imq /\ success(me, m) \in Imq /\ rep(me, m) \in Imq
BY DEF err, success, rep, makeImq, Imq, MsgType, Cmd, Sts

LEMMA UserRepliesAre ==
  ASSUME NEW n, NEW m, NEW replies \in UserReplies(n, m), NEW r \in replies
  PROVE  r \in {success(name[n], m), rep(name[n], m), err(name[n], m)}
BY DEF UserReplies

LEMMA CmdRepliesAre ==
  ASSUME NEW me, NEW m, NEW r \in cmdReply(me, m) \cup cmdReplyShipped(me, m)
  PROVE  r \in {success(me, m), err(me, m)}
<1>1. CASE m.cmd \in {"SUB", "SYN", "UNSUB"}
  BY <1>1 DEF cmdReply, cmdReplyShipped
<1>2. CASE m.cmd = "READY"
  BY <1>2 DEF cmdReply, cmdReplyShipped
<1>3. CASE m.cmd \notin {"SUB", "SYN", "UNSUB", "READY"}
  BY <1>3 DEF cmdReply, cmdReplyShipped
<1> QED BY <1>1, <1>2, <1>3

(***************************************************************************)
(* The operations on the subscriber table do what those of GoImq do.       *)
(***************************************************************************)
LEMMA KeysAreSubscribers ==
  ASSUME NEW t, NEW path
  PROVE  Keys(t, path) = Subscribers(t, path)
BY DEF Keys, Subscribers

LEMMA addSubscriberTyped ==
  ASSUME NEW t, IsTable(t), NEW client \in Name, NEW path \in Path \cup {NoPath}
  PROVE  IsTable(addSubscriber(t, client, path))
<1>1. ASSUME NEW p \in DOMAIN t \cup {path}
      PROVE  PartialFunction(addSubscriber(t, client, path)[p], Name, BOOLEAN)
  BY DEF IsTable, addSubscriber, Keys, PartialFunction
<1>2. DOMAIN addSubscriber(t, client, path) = DOMAIN t \cup {path}
  BY DEF addSubscriber
<1> QED BY <1>1, <1>2 DEF IsTable

LEMMA delSubscriberTyped ==
  ASSUME NEW t, IsTable(t), NEW client \in Name, NEW path \in Path \cup {NoPath}
  PROVE  IsTable(delSubscriber(t, client, path))
BY DEF IsTable, delSubscriber, Keys, PartialFunction

LEMMA addSubscriberNoEmpty ==
  ASSUME NEW t, NoEmpty(t), NEW client, NEW path
  PROVE  NoEmpty(addSubscriber(t, client, path))
BY DEF NoEmpty, addSubscriber, Keys

LEMMA delSubscriberNoEmpty ==
  ASSUME NEW t, NoEmpty(t), NEW client, NEW path
  PROVE  NoEmpty(delSubscriber(t, client, path))
BY DEF NoEmpty, delSubscriber, Keys

(***************************************************************************)
(* Requests.  Every call of the library at n is a step of this form.       *)
(***************************************************************************)
AskStep(n) ==
  \E k \in Node, m \in Asked(NextId), cb, stored \in BOOLEAN :
    /\ Issue(n, k, m, cb, stored)
    /\ stored => cb
    /\ Sending(n, k, m)
    /\ handlers' \in [Node -> SUBSET Path]
    /\ UNCHANGED <<name, brokerHandler, relayHandler, subscribers, webSockets, conn, faults,
                   answered, handled>>

LEMMA AskSteps ==
  ASSUME StateOK, NEW n \in Node, NEW k \in Node, NEW op, NEW m \in Asked(NextId),
         NEW cb \in BOOLEAN, Ask(n, k, op, m, cb), handlers' \in [Node -> SUBSET Path]
  PROVE  AskStep(n)
BY DEF Ask, AskStep, Sending, transport

LEMMA TsCallSteps ==
  ASSUME StateOK, NEW n \in Node, TsCall(n)
  PROVE  AskStep(n)
<1>0. /\ name[n] \in Name /\ Program[n] \in ProgramType /\ TRUE \in BOOLEAN /\ FALSE \in BOOLEAN
      /\ handlers \in [Node -> SUBSET Path]
  BY ProgramType_ DEF StateOK, TablesOK
<1>1. PICK path \in Path, cb \in Program[n].callbacks :
        \/ TsMultLocal(n, path, cb)
        \/ TsQueueLocal(n, path, cb)
        \/ \E k \in Node :
             \/ \E to \in Program[n].to :
                  \/ TsReq(n, k, to, path, cb)
                  \/ TsUnSub(n, k, to, path, cb)
                  \/ \E handler \in BOOLEAN : TsSub(n, k, to, path, handler, cb)
             \/ \E handler \in BOOLEAN : TsReady(n, k, path, handler, cb)
             \/ TsMult(n, k, path, cb)
             \/ TsQueue(n, k, path, cb)
  BY DEF TsCall
<1>2. cb \in BOOLEAN /\ Program[n].to \subseteq Name \cup {NoName}
  BY <1>0 DEF ProgramType
<1>3. NextId \in Id
  BY <1>1 DEF TsMultLocal, TsQueueLocal, TsReq, TsUnSub, TsSub, TsReady, TsMult, TsQueue, Ask,
              Issue
<1>4. CASE TsMultLocal(n, path, cb)
  <2>1. mult(newUID, name[n], FALSE, path) \in Asked(NextId)
    <3>1. NoName \in Name \cup {NoName}
      OBVIOUS
    <3> QED BY <1>0, <1>3, <3>1, TsRequestsTyped DEF newUID
  <2>2. Keys(subscribers[n], path) \in SUBSET Name
    BY KeysAreSubscribers, SubscribersTyped DEF StateOK, TablesOK
  <2> QED BY <1>0, <1>2, <1>4, <2>1, <2>2 DEF TsMultLocal, AskStep, Sending, tables, transport
<1>5. CASE TsQueueLocal(n, path, cb)
  <2> DEFINE m == queue(newUID, name[n], FALSE, path)
  <2>1. m \in Asked(NextId)
    <3>1. NoName \in Name \cup {NoName}
      OBVIOUS
    <3> QED BY <1>0, <1>3, <3>1, TsRequestsTyped DEF newUID
  <2> QED BY <1>0, <1>2, <1>5, <2>1 DEF TsQueueLocal, AskStep, Sending, tables, transport
<1>6. ASSUME NEW k \in Node, NEW to \in Program[n].to,
             TsReq(n, k, to, path, cb) \/ TsUnSub(n, k, to, path, cb)
               \/ \E handler \in BOOLEAN : TsSub(n, k, to, path, handler, cb)
      PROVE  AskStep(n)
  <2>1. /\ req(newUID, name[n], to, path) \in Asked(NextId)
        /\ unSub(newUID, name[n], to, path) \in Asked(NextId)
        /\ unSubShipped(newUID, name[n], path) \in Asked(NextId)
        /\ sub(newUID, name[n], to, path) \in Asked(NextId)
        /\ subShipped(newUID, name[n], path) \in Asked(NextId)
    BY <1>0, <1>2, <1>3, TsRequestsTyped DEF newUID
  <2>2. CASE TsReq(n, k, to, path, cb)
    BY <1>0, <1>2, <2>1, <2>2, AskSteps DEF TsReq
  <2>3. CASE TsUnSub(n, k, to, path, cb)
    <3>1. handlers' \in [Node -> SUBSET Path]
      BY <1>0, <2>3 DEF TsUnSub, delHandler
    <3> QED BY <1>2, <2>1, <2>3, <3>1, AskSteps DEF TsUnSub
  <2>4. CASE \E handler \in BOOLEAN : TsSub(n, k, to, path, handler, cb)
    <3>1. handlers' \in [Node -> SUBSET Path]
      BY <1>0, <2>4 DEF TsSub
    <3> QED BY <1>2, <2>1, <2>4, <3>1, AskSteps DEF TsSub
  <2> QED BY <1>6, <2>2, <2>3, <2>4
<1>7. ASSUME NEW k \in Node,
             \/ \E handler \in BOOLEAN : TsReady(n, k, path, handler, cb)
             \/ TsMult(n, k, path, cb)
             \/ TsQueue(n, k, path, cb)
      PROVE  AskStep(n)
  <2>1. /\ ready(newUID, name[n], path) \in Asked(NextId)
        /\ mult(newUID, name[n], TRUE, path) \in Asked(NextId)
        /\ queue(newUID, name[n], TRUE, path) \in Asked(NextId)
    <3>1. NoName \in Name \cup {NoName}
      OBVIOUS
    <3> QED BY <1>0, <1>3, <3>1, TsRequestsTyped DEF newUID
  <2>2. CASE \E handler \in BOOLEAN : TsReady(n, k, path, handler, cb)
    <3>1. handlers' \in [Node -> SUBSET Path]
      BY <1>0, <2>2 DEF TsReady
    <3> QED BY <1>2, <2>1, <2>2, <3>1, AskSteps DEF TsReady
  <2>3. CASE TsMult(n, k, path, cb)
    BY <1>0, <1>2, <2>1, <2>3, AskSteps DEF TsMult
  <2>4. CASE TsQueue(n, k, path, cb)
    BY <1>0, <1>2, <2>1, <2>4, AskSteps DEF TsQueue
  <2> QED BY <1>7, <2>2, <2>3, <2>4
<1> QED BY <1>1, <1>4, <1>5, <1>6, <1>7

(***************************************************************************)
(* Type correctness.                                                       *)
(***************************************************************************)
LEMMA AskState ==
  ASSUME StateOK, NEW n \in Node, AskStep(n)
  PROVE  StateOK'
<1>1. PICK k \in Node, m \in Asked(NextId), cb, stored \in BOOLEAN :
        /\ Issue(n, k, m, cb, stored)
        /\ handlers' \in [Node -> SUBSET Path]
        /\ UNCHANGED <<name, brokerHandler, relayHandler, subscribers, webSockets, conn, faults,
                       handled>>
  BY DEF AskStep
<1>2. m \in Imq /\ m.id = NextId
  BY DEF Asked
<1>3. /\ issued' \in Seq(CallRecord) /\ Len(issued') <= MaxId
      /\ messages' \in [Node -> SUBSET Id]
  BY <1>1, <1>2, IssueTyped
<1> QED BY <1>1, <1>3 DEF StateOK, TablesOK, IsTable, PartialFunction

\* The functions that only change the tables.
LEMMA TsConfigureState ==
  ASSUME StateOK, NEW n \in Node, TsConfigure(n)
  PROVE  StateOK' /\ UNCHANGED <<net, issued, answered>>
<1> USE DEF tables, transport, untabled
<1>1. ASSUME NEW new \in Name, setName(n, new) PROVE StateOK'
  BY <1>1, ConfigureState DEF setName, Configure
<1>2. ASSUME NEW path \in Path, setHandler(n, path) PROVE StateOK'
  BY <1>2, ConfigureState DEF setHandler, Configure
<1>3. ASSUME NEW set \in BOOLEAN, setBrokerHandler(n, set) \/ setRelayHandler(n, set)
      PROVE  StateOK'
  BY <1>3, ConfigureState DEF setBrokerHandler, setRelayHandler, Configure
<1>4. ASSUME NEW client \in Name, NEW path \in Path,
             TsAddSubscriber(n, client, path) \/ TsDelSubscriber(n, client, path)
      PROVE  StateOK'
  <2>1. /\ IsTable(addSubscriber(subscribers[n], client, path))
        /\ IsTable(delSubscriber(subscribers[n], client, path))
    BY addSubscriberTyped, delSubscriberTyped DEF StateOK, TablesOK
  <2>2. DOMAIN subscribers' = Node /\ \A x \in Node : IsTable(subscribers'[x])
    BY <1>4, <2>1 DEF TsAddSubscriber, TsDelSubscriber, StateOK, TablesOK
  <2> QED BY <1>4, <2>2 DEF TsAddSubscriber, TsDelSubscriber, StateOK, TablesOK, IsTable,
                            PartialFunction
<1>5. ASSUME NEW i \in messages[n], delMessage(n, i) PROVE StateOK'
  BY <1>5, ConfigureState DEF delMessage, Configure
<1>6. UNCHANGED <<net, issued, answered>>
  BY DEF TsConfigure, setName, setHandler, setBrokerHandler, setRelayHandler, delMessage,
         SetName, SetHandler, SetBrokerHandler, SetRelayHandler, DelMessage,
         TsAddSubscriber, TsDelSubscriber
<1> QED BY <1>1, <1>2, <1>3, <1>4, <1>5, <1>6 DEF TsConfigure

(***************************************************************************)
(* Receiving.  Over any set S of messages that has the one received and    *)
(* what n may reply to it, the queues stay sequences over S.               *)
(***************************************************************************)
\* What n may reply to m.
Replies(n, m) == {success(name[n], m), rep(name[n], m), err(name[n], m)}

LEMMA ReturnKeeps ==
  ASSUME NEW S, net \in [Link -> Seq(S)], conn \subseteq Link, NEW k \in Node, NEW n \in Node,
         Waiting(k, n), NEW replies \in SUBSET S, Return(k, n, replies)
  PROVE  net' \in [Link -> Seq(S)]
<1>1. Rest(k, n) \in [Link -> Seq(S)]
  BY RestKeeps
<1>2. \A r \in replies : Send(Rest(k, n), n, k, r) \in [Link -> Seq(S)]
  BY <1>1, SendKeeps
<1> QED BY <1>1, <1>2 DEF Return

LEMMA recieveRawDataKeeps ==
  ASSUME StateOK, NEW S, net \in [Link -> Seq(S)], NEW k \in Node, NEW n \in Node,
         recieveRawData(k, n), Replies(n, Received(k, n)) \subseteq S
  PROVE  net' \in [Link -> Seq(S)]
<1> DEFINE m == Received(k, n)
<1>1. conn \subseteq Link
  BY DEF StateOK
<1>2. ASSUME NEW replies \in SUBSET Replies(n, m), Waiting(k, n), Return(k, n, replies)
      PROVE  net' \in [Link -> Seq(S)]
  BY <1>1, <1>2, ReturnKeeps
<1>3. \A replies \in UserReplies(n, m) : replies \subseteq Replies(n, m)
  BY UserRepliesAre DEF Replies
<1>4. /\ {} \subseteq Replies(n, m) /\ {err(name[n], m)} \subseteq Replies(n, m)
      /\ cmdReply(name[n], m) \subseteq Replies(n, m)
      /\ cmdReplyShipped(name[n], m) \subseteq Replies(n, m)
  BY CmdRepliesAre DEF Replies
<1>5. CASE TsBroker(k, n) \/ TsRelay(k, n)
  BY <1>2, <1>3, <1>4, <1>5 DEF TsBroker, TsRelay
<1>6. CASE TsCmd(k, n)
  BY <1>2, <1>4, <1>6 DEF TsCmd
<1>7. CASE TsRequest(k, n) \/ TsStrayReply(k, n)
  BY <1>2, <1>3, <1>4, <1>7 DEF TsRequest, TsStrayReply
<1>8. CASE TsReply(k, n) \/ TsReplyThrows(k, n)
  <2>1. Waiting(k, n) /\ net' = Rest(k, n)
    BY <1>8 DEF TsReply, TsReplyThrows, RunCallback
  <2> QED BY <2>1, RestKeeps
<1> QED BY <1>5, <1>6, <1>7, <1>8 DEF recieveRawData

\* What recieveRawData does to the callbacks.
LEMMA recieveRawDataAnswers ==
  ASSUME NEW k \in Node, NEW n \in Node, recieveRawData(k, n)
  PROVE  /\ Waiting(k, n) /\ UNCHANGED issued
         /\ \/ UNCHANGED answered
            \/ LET m == Received(k, n)
               IN  m.sts # "REQ" /\ answered' = [answered EXCEPT ![m.id] = Append(@, m)]
BY DEF recieveRawData, TsBroker, TsRelay, TsCmd, TsRequest, TsReply, TsReplyThrows, RunCallback,
       TsStrayReply, Return

\* The callback of a Syn registers somebody.
LEMMA RegisteredTyped ==
  ASSUME StateOK, PendingOwned, NEW n \in Node, NEW m, Acceptable(m), m.id \in messages[n]
  PROVE  /\ DOMAIN Registered(n, m) = Node
         /\ \A x \in Node : PartialFunction(Registered(n, m)[x], Name, Node \cup {Closed})
<1>1. m.id \in 1 .. Len(issued) /\ m.id \in Known
  BY DEF PendingOwned, Known
<1>2. issued[m.id] \in CallRecord
  BY <1>1, ElementOfSeq DEF StateOK
<1>3. issued[m.id].msg.cmd = "SYN" => m.from \in Name
  BY <1>1 DEF Acceptable, Request
<1> QED BY <1>2, <1>3 DEF Registered, StateOK, TablesOK, PartialFunction, CallRecord

LEMMA recieveRawDataState ==
  ASSUME StateOK, PendingOwned, NEW k \in Node, NEW n \in Node, recieveRawData(k, n),
         Acceptable(Received(k, n))
  PROVE  StateOK'
<1> USE DEF tables, transport
<1> DEFINE m == Received(k, n)
<1>1. m.path \in Path \cup {NoPath} /\ m.id \in Id /\ (m.type = "CMD" => m.from \in Name)
  BY DEF Acceptable
<1>2. ASSUME UNCHANGED <<name, handlers, brokerHandler, relayHandler, subscribers, messages,
                         webSockets, conn, faults, issued>>,
             handled' \in [Id -> [Node -> Nat]]
      PROVE  StateOK'
  BY <1>2 DEF StateOK, TablesOK, IsTable, PartialFunction
<1>3. handled \in [Id -> [Node -> Nat]]
  BY DEF StateOK
<1>4. CASE TsBroker(k, n) \/ TsRelay(k, n) \/ TsStrayReply(k, n)
  BY <1>2, <1>3, <1>4 DEF TsBroker, TsRelay, TsStrayReply, Return
<1>5. CASE TsRequest(k, n)
  <2>1. handled' \in [Id -> [Node -> Nat]]
    BY <1>1, <1>3, <1>5 DEF TsRequest
  <2> QED BY <1>2, <1>5, <2>1 DEF TsRequest, Return
<1>6. CASE TsCmd(k, n)
  <2>1. m.from \in Name
    BY <1>1, <1>6 DEF TsCmd
  <2>2. /\ IsTable(addSubscriber(subscribers[n], m.from, m.path))
        /\ IsTable(delSubscriber(subscribers[n], m.from, m.path))
    BY <1>1, <2>1, addSubscriberTyped, delSubscriberTyped DEF StateOK, TablesOK
  <2>3. DOMAIN subscribers' = Node /\ \A x \in Node : IsTable(subscribers'[x])
    BY <1>6, <2>2 DEF TsCmd, StateOK, TablesOK
  <2> QED BY <1>6, <2>3 DEF TsCmd, Return, StateOK, TablesOK, IsTable, PartialFunction
<1>7. CASE TsReply(k, n) \/ TsReplyThrows(k, n)
  <2>1. RunCallback(k, n) /\ m.id \in messages[n]
    BY <1>7 DEF TsReply, TsReplyThrows, RunCallback
  <2>2. webSockets' \in {webSockets, Registered(n, m)} /\ messages' \in [Node -> SUBSET Id]
    BY <1>7 DEF TsReply, TsReplyThrows, StateOK, TablesOK
  <2>3. /\ DOMAIN webSockets' = Node
        /\ \A x \in Node : PartialFunction(webSockets'[x], Name, Node \cup {Closed})
    BY <2>1, <2>2, RegisteredTyped DEF StateOK, TablesOK
  <2> QED BY <2>1, <2>2, <2>3 DEF RunCallback, StateOK, TablesOK, IsTable
<1> QED BY <1>4, <1>5, <1>6, <1>7 DEF recieveRawData

LEMMA recieveRawDataTyped ==
  ASSUME TypeOK, PendingOwned, NEW k \in Node, NEW n \in Node, recieveRawData(k, n)
  PROVE  TypeOK'
<1> DEFINE m == Received(k, n)
<1>1. StateOK /\ Waiting(k, n) /\ answered \in [Id -> Seq(Imq)] /\ net \in [Link -> Seq(Imq)]
  BY TypeParts, recieveRawDataAnswers DEF Queues
<1>2. m \in Imq /\ m.id \in Id /\ name[n] \in Name
  <2>1. m \in Imq
    BY <1>1, RestKeeps
  <2> QED BY <1>1, <2>1 DEF StateOK, TablesOK, Imq
<1>3. StateOK'
  BY <1>1, <1>2, ImqAcceptable, recieveRawDataState
<1>4. net' \in [Link -> Seq(Imq)]
  <2>1. Replies(n, m) \subseteq Imq
    BY <1>2, TsRepliesTyped DEF Replies
  <2> QED BY <1>1, <2>1, recieveRawDataKeeps
<1>5. answered' \in [Id -> Seq(Imq)]
  <2>1. Append(answered[m.id], m) \in Seq(Imq)
    BY <1>1, <1>2, AppendProperties
  <2>2. UNCHANGED answered \/ answered' = [answered EXCEPT ![m.id] = Append(@, m)]
    BY recieveRawDataAnswers
  <2> QED BY <1>1, <2>1, <2>2
<1> QED BY <1>3, <1>4, <1>5 DEF TypeOK, StateOK, TransportOK, HistoryOK

LEMMA TsNextTyped ==
  ASSUME TypeOK, PendingOwned, [TsNext]_vars
  PROVE  TypeOK'
<1>1. CASE UNCHANGED vars
  BY <1>1 DEF vars, tables, transport, TypeOK, TablesOK, TransportOK, HistoryOK, IsTable,
              PartialFunction
<1>2. ASSUME NEW n \in Node, TsCall(n) PROVE TypeOK'
  <2>1. StateOK' /\ IssueStep
    BY <1>2, TypeParts, TsCallSteps, AskState DEF AskStep, IssueStep
  <2>2. net' \in Queues /\ answered' \in [Id -> Seq(Imq)]
    BY <2>1, IssueStepTyped
  <2> QED BY <2>1, <2>2 DEF TypeOK, StateOK, TransportOK, HistoryOK, Queues
<1>3. ASSUME NEW n \in Node, TsConfigure(n) PROVE TypeOK'
  BY <1>3, TypeParts, TsConfigureState DEF TypeOK, StateOK, TransportOK, HistoryOK, Queues
<1>4. ASSUME NEW n \in Node, NEW k \in Node, Serve(k, n) PROVE TypeOK'
  BY <1>4, RecieveMessageTyped, recieveRawDataTyped DEF Serve
<1>5. ASSUME \/ \E n \in Node : Call(n) \/ Configure(n)
             \/ \E n, k \in Node : Connect(n, k) \/ Disconnect(n, k)
             \/ \E l \in Link : Disturb(l)
      PROVE  TypeOK'
  BY <1>5, OtherStepsTyped
<1> QED BY <1>1, <1>2, <1>3, <1>4, <1>5, BrowserAssumption DEF TsNext, Serve

(***************************************************************************)
(* Callbacks.  To the kinds of steps of GoNetProofs comes the run of a     *)
(* callback that throws.                                                   *)
(***************************************************************************)
ThrowStep ==
  \E n \in Node : \E m \in Imq :
    /\ m.id \in messages[n]
    /\ answered' = [answered EXCEPT ![m.id] = Append(@, m)]
    /\ UNCHANGED <<messages, issued>>

LEMMA TsStepKinds ==
  ASSUME TypeOK, [TsNext]_vars
  PROVE  \/ IssueStep
         \/ AnswerStep
         \/ ThrowStep
         \/ GiveUpStep
         \/ UNCHANGED <<messages, issued, answered>>
<1>1. ASSUME NEW n \in Node, TsCall(n) PROVE IssueStep
  BY <1>1, TsCallSteps, TypeParts DEF AskStep, IssueStep
<1>2. ASSUME NEW n \in Node, TsConfigure(n)
      PROVE  GiveUpStep \/ UNCHANGED <<messages, issued, answered>>
  BY <1>2 DEF TsConfigure, setName, setHandler, setBrokerHandler, setRelayHandler, delMessage,
              SetName, SetHandler, SetBrokerHandler, SetRelayHandler, DelMessage,
              TsAddSubscriber, TsDelSubscriber, untabled, GiveUpStep
<1>3. ASSUME NEW n \in Node, NEW k \in Node, recieveRawData(k, n)
      PROVE  AnswerStep \/ ThrowStep \/ UNCHANGED <<messages, issued, answered>>
  <2>1. CASE TsReply(k, n) \/ TsReplyThrows(k, n)
    <3>1. RunCallback(k, n) /\ Waiting(k, n)
      BY <2>1 DEF TsReply, TsReplyThrows, RunCallback
    <3>2. Received(k, n) \in Imq
      BY <3>1, RestTyped DEF TypeOK
    <3> QED BY <2>1, <3>2 DEF TsReply, TsReplyThrows, RunCallback, AnswerStep, ThrowStep
  <2> QED BY <1>3, <2>1 DEF recieveRawData, TsBroker, TsRelay, TsCmd, TsRequest, TsStrayReply,
                            Return
<1>4. ASSUME [Next]_vars
      PROVE  IssueStep \/ AnswerStep \/ GiveUpStep \/ UNCHANGED <<messages, issued, answered>>
  BY <1>4, StepKinds
<1> QED BY <1>1, <1>2, <1>3, <1>4, BrowserAssumption DEF TsNext, Serve, Next

TsInv == TypeOK /\ PendingOwned

LEMMA IssueOwned ==
  ASSUME StateOK, PendingOwned, NEW n \in Node, NEW k \in Node, NEW m \in Imq, m.id = NextId,
         NEW cb \in BOOLEAN, NEW stored \in BOOLEAN, Issue(n, k, m, cb, stored)
  PROVE  PendingOwned'
<1>1. /\ NextId \notin Known /\ Known' = Known \cup {NextId}
      /\ \A i \in Known : issued'[i] = issued[i]
      /\ issued'[NextId] = [node |-> n, via |-> k, msg |-> m, cb |-> cb]
  BY IssueExtends
<1> SUFFICES ASSUME NEW x \in Node, NEW i \in messages'[x]
             PROVE  i \in Known' /\ issued'[i].node = x
  BY DEF PendingOwned
<1>2. CASE i \in messages[x]
  BY <1>1, <1>2 DEF PendingOwned
<1>3. CASE i \notin messages[x]
  <2>1. x = n /\ i = NextId
    BY <1>3 DEF Issue, StateOK, TablesOK
  <2> QED BY <1>1, <2>1
<1> QED BY <1>2, <1>3

LEMMA OwnedStep ==
  ASSUME TypeOK, TypeOK', PendingOwned, [TsNext]_vars
  PROVE  PendingOwned'
<1>1. CASE IssueStep
  BY <1>1, IssueOwned, TypeParts DEF IssueStep, Asked
<1>2. CASE AnswerStep \/ ThrowStep \/ GiveUpStep \/ UNCHANGED <<messages, issued, answered>>
  BY <1>2 DEF AnswerStep, ThrowStep, GiveUpStep, PendingOwned, Known, TypeOK, TablesOK
<1> QED BY <1>1, <1>2, TsStepKinds

\* TsInv holds in every state.
THEOREM TsInvariance == TsSpec => []TsInv
<1>1. Init => TsInv
  BY InitTyped DEF Init, TsInv, PendingOwned
<1>2. TsInv /\ [TsNext]_vars => TsInv'
  BY TsNextTyped, OwnedStep DEF TsInv
<1> QED BY <1>1, <1>2, PTL DEF TsSpec

\* Every variable keeps its type in a network of both libraries.
THEOREM TsTypeCorrect == TsSpec => []TypeOK
<1>1. TsInv => TypeOK
  BY DEF TsInv
<1> QED BY <1>1, TsInvariance, PTL

(***************************************************************************)
(* Refinement.                                                             *)
(***************************************************************************)
LEMMA OutstandingValue ==
  ASSUME NEW i \in Id
  PROVE  /\ i \notin Known => outstanding[i] = "unused"
         /\ i \in Known /\ (\E n \in Node : i \in messages[n]) => outstanding[i] = "pending"
         /\ i \in Known /\ (\A n \in Node : i \notin messages[n]) => outstanding[i] = "over"
BY DEF outstanding

LEMMA OutstandingChange ==
  ASSUME NEW j \in Id, NEW v,
         \A i \in Id \ {j} : outstanding'[i] = outstanding[i], outstanding'[j] = v
  PROVE  outstanding' = [outstanding EXCEPT ![j] = v]
<1>1. /\ outstanding = [i \in Id |-> outstanding[i]]
      /\ outstanding' = [i \in Id |-> outstanding'[i]]
  BY Zenon DEF outstanding
<1> QED BY <1>1

LEMMA OutstandingKept ==
  ASSUME NEW i \in Id, i \in Known' <=> i \in Known,
         \A n \in Node : i \in messages'[n] <=> i \in messages[n]
  PROVE  outstanding'[i] = outstanding[i]
BY DEF outstanding

\* A callback was run once more, on a message of any set M.
LEMMA RunsOn ==
  ASSUME NEW M, answered \in [Id -> Seq(M)], NEW m \in M, m.id \in Id,
         answered' = [answered EXCEPT ![m.id] = Append(@, m)]
  PROVE  runs' = [runs EXCEPT ![m.id] = @ + 1]
<1>1. Len(answered'[m.id]) = Len(answered[m.id]) + 1
  BY AppendProperties
<1>2. \A i \in Id : i # m.id => answered'[i] = answered[i]
  OBVIOUS
<1> QED BY <1>1, <1>2 DEF runs

LEMMA IssueIsCall ==
  ASSUME StateOK, PendingOwned, UNCHANGED answered, NEW n \in Node, NEW k \in Node,
         NEW m \in Imq, m.id = NextId, NEW cb \in BOOLEAN, NEW stored \in BOOLEAN,
         Issue(n, k, m, cb, stored)
  PROVE  T!Next
<1>1. NextId \in Id /\ NextId \notin Known /\ Known' = Known \cup {NextId}
  BY IssueExtends
<1>2. \A i \in Id \ {NextId} : outstanding'[i] = outstanding[i]
  <2> SUFFICES ASSUME NEW i \in Id \ {NextId} PROVE outstanding'[i] = outstanding[i]
    OBVIOUS
  <2>1. \A x \in Node : i \in messages'[x] <=> i \in messages[x]
    BY DEF Issue, StateOK, TablesOK
  <2> QED BY <1>1, <2>1, OutstandingKept
<1>3. outstanding[NextId] = "unused" /\ outstanding'[NextId] \in {"pending", "over"}
  BY <1>1 DEF outstanding
<1>4. \E p \in {"pending", "over"} : outstanding' = [outstanding EXCEPT ![NextId] = p]
  BY <1>1, <1>2, <1>3, OutstandingChange
<1>5. T!Call(NextId)
  BY <1>3, <1>4 DEF T!Call, runs
<1> QED BY <1>1, <1>5 DEF T!Next

LEMMA ThrowIsThrow ==
  ASSUME StateOK, PendingOwned, NEW M, answered \in [Id -> Seq(M)], NEW m \in M,
         NEW n \in Node, m.id \in messages[n],
         answered' = [answered EXCEPT ![m.id] = Append(@, m)], UNCHANGED <<messages, issued>>
  PROVE  T!Next
<1>1. m.id \in Id /\ outstanding[m.id] = "pending"
  BY OutstandingValue DEF StateOK, TablesOK, PendingOwned
<1>2. UNCHANGED outstanding
  BY DEF outstanding, Known
<1>3. T!Throw(m.id)
  BY <1>1, <1>2, RunsOn DEF T!Throw
<1> QED BY <1>1, <1>3 DEF T!Next

\* An entry that goes is the only one of its identifier.
LEMMA EntryGoes ==
  ASSUME StateOK, PendingOwned, NEW n \in Node, NEW j \in messages[n],
         messages' = [messages EXCEPT ![n] = @ \ {j}], UNCHANGED issued
  PROVE  /\ j \in Id /\ outstanding[j] = "pending"
         /\ outstanding' = [outstanding EXCEPT ![j] = "over"]
<1>1. j \in Id /\ j \in Known /\ Known' = Known /\ \A x \in Node : j \in messages[x] => x = n
  BY DEF PendingOwned, Known, StateOK, TablesOK
<1>2. \A x \in Node : j \notin messages'[x]
  BY <1>1 DEF StateOK, TablesOK
<1>3. \A i \in Id \ {j} : outstanding'[i] = outstanding[i]
  <2> SUFFICES ASSUME NEW i \in Id \ {j} PROVE outstanding'[i] = outstanding[i]
    OBVIOUS
  <2>1. \A x \in Node : i \in messages'[x] <=> i \in messages[x]
    BY DEF StateOK, TablesOK
  <2> QED BY <1>1, <2>1, OutstandingKept
<1>4. outstanding'[j] = "over"
  BY <1>1, <1>2 DEF outstanding
<1> QED BY <1>1, <1>3, <1>4, OutstandingChange, OutstandingValue

LEMMA AnswerIsAnswer ==
  ASSUME StateOK, PendingOwned, NEW M, answered \in [Id -> Seq(M)], NEW m \in M,
         NEW n \in Node, m.id \in messages[n],
         answered' = [answered EXCEPT ![m.id] = Append(@, m)],
         messages' = [messages EXCEPT ![n] = @ \ {m.id}], UNCHANGED issued
  PROVE  T!Next
<1>1. m.id \in Id /\ T!Answer(m.id)
  BY EntryGoes, RunsOn DEF T!Answer
<1> QED BY <1>1 DEF T!Next

LEMMA GiveUpIsGiveUp ==
  ASSUME StateOK, PendingOwned, GiveUpStep
  PROVE  T!Next
<1>1. PICK n \in Node : \E j \in messages[n] :
        messages' = [messages EXCEPT ![n] = @ \ {j}] /\ UNCHANGED <<issued, answered>>
  BY DEF GiveUpStep
<1>2. PICK j \in messages[n] :
        messages' = [messages EXCEPT ![n] = @ \ {j}] /\ UNCHANGED <<issued, answered>>
  BY <1>1
<1>3. j \in Id /\ T!GiveUp(j)
  BY <1>2, EntryGoes DEF T!GiveUp, runs
<1> QED BY <1>3 DEF T!Next

LEMMA TsNextImplements == TsInv /\ [TsNext]_vars => [T!Next]_<<outstanding, runs>>
<1> SUFFICES ASSUME TsInv, [TsNext]_vars
             PROVE  T!Next \/ UNCHANGED <<outstanding, runs>>
  OBVIOUS
<1>0. StateOK /\ PendingOwned /\ answered \in [Id -> Seq(Imq)]
  BY TypeParts DEF TsInv
<1>1. CASE IssueStep
  BY <1>0, <1>1, IssueIsCall DEF IssueStep, Asked
<1>2. CASE ThrowStep
  BY <1>0, <1>2, ThrowIsThrow DEF ThrowStep
<1>3. CASE AnswerStep
  BY <1>0, <1>3, AnswerIsAnswer DEF AnswerStep
<1>4. CASE GiveUpStep
  BY <1>0, <1>4, GiveUpIsGiveUp
<1>5. CASE UNCHANGED <<messages, issued, answered>>
  BY <1>5 DEF outstanding, runs, Known
<1> QED BY <1>1, <1>2, <1>3, <1>4, <1>5, TsStepKinds DEF TsInv

\* Whatever callbacks throw, a request lives the life RpcThrows describes:
\* once a run of its callback returned, it is never run again.
THEOREM TsRefinement == TsSpec => ImplementsRpcThrows
<1>1. Init => T!Init
  BY DEF Init, T!Init, outstanding, runs, Known
<1> QED BY <1>1, TsNextImplements, TsInvariance, PTL DEF TsSpec, ImplementsRpcThrows, T!Spec

(***************************************************************************)
(* The subscriber tables.                                                  *)
(***************************************************************************)
LEMMA TsCallKeepsNonEmpty ==
  ASSUME StateOK, NEW n \in Node, TsCall(n)
  PROVE  NonEmptyKept(n)
BY TsCallSteps, SameKeeps DEF AskStep

LEMMA TsConfigureKeepsNonEmpty ==
  ASSUME StateOK, NEW n \in Node, TsConfigure(n)
  PROVE  NonEmptyKept(n)
<1>1. ASSUME NEW client \in Name, NEW path \in Path, TsAddSubscriber(n, client, path)
      PROVE  NonEmptyKept(n)
  BY <1>1, addSubscriberNoEmpty, SetKeeps DEF TsAddSubscriber
<1>2. ASSUME NEW client \in Name, NEW path \in Path, TsDelSubscriber(n, client, path)
      PROVE  NonEmptyKept(n)
  BY <1>2, delSubscriberNoEmpty, SetKeeps DEF TsDelSubscriber
<1>3. CASE UNCHANGED subscribers
  BY <1>3, SameKeeps
<1> QED BY <1>1, <1>2, <1>3
        DEF TsConfigure, setName, setHandler, setBrokerHandler, setRelayHandler, delMessage,
            SetName, SetHandler, SetBrokerHandler, SetRelayHandler, DelMessage

LEMMA recieveRawDataKeepsNonEmpty ==
  ASSUME StateOK, NEW k \in Node, NEW n \in Node, recieveRawData(k, n)
  PROVE  NonEmptyKept(n)
<1>1. CASE TsCmd(k, n)
  <2> DEFINE m == Received(k, n)
             new == CASE m.cmd = "SUB" -> addSubscriber(subscribers[n], m.from, m.path)
                      [] m.cmd = "UNSUB" -> delSubscriber(subscribers[n], m.from, m.path)
                      [] OTHER -> subscribers[n]
  <2>1. subscribers' = [subscribers EXCEPT ![n] = new]
    BY <1>1, Zenon DEF TsCmd
  <2>2. \/ new = addSubscriber(subscribers[n], m.from, m.path)
        \/ new = delSubscriber(subscribers[n], m.from, m.path)
        \/ new = subscribers[n]
    BY Zenon
  <2> HIDE DEF new
  <2>3. NoEmpty(subscribers[n]) => NoEmpty(new)
    BY <2>2, addSubscriberNoEmpty, delSubscriberNoEmpty
  <2> QED BY <2>1, <2>3, SetKeeps
<1>2. CASE UNCHANGED subscribers
  BY <1>2, SameKeeps
<1> QED BY <1>1, <1>2 DEF recieveRawData, TsBroker, TsRelay, TsRequest, TsReply, TsReplyThrows,
           RunCallback, TsStrayReply

\* No table of either library ever keeps a path without subscribers.
THEOREM TsNoEmptyPaths == TsSpec => []NoEmptyPath
<1>1. Init => NoEmptyPath
  BY EnrolledTyped DEF Init, NoEmptyPath
<1>2. TypeOK /\ NoEmptyPath /\ [TsNext]_vars => NoEmptyPath'
  <2> SUFFICES ASSUME TypeOK, NoEmptyPath, [TsNext]_vars PROVE NoEmptyPath'
    OBVIOUS
  <2>1. ASSUME NEW k \in Node, NEW n \in Node, RecieveMessage(k, n) PROVE NonEmptyKept(n)
    <3>1. Received(k, n).path \in Path \cup {NoPath}
      BY <2>1, RecieveMessageAnswers, RestTyped DEF TypeOK, Imq
    <3> QED BY <2>1, <3>1, TypeParts, RecieveMessageKeepsNonEmpty
  <2>2. ASSUME NEW n \in Node, Call(n) \/ Configure(n) \/ TsCall(n) \/ TsConfigure(n)
        PROVE  NonEmptyKept(n)
    BY <2>2, TypeParts, CallKeepsNonEmpty, ConfigureKeepsNonEmpty, TsCallKeepsNonEmpty,
       TsConfigureKeepsNonEmpty
  <2>3. ASSUME NEW k \in Node, NEW n \in Node, recieveRawData(k, n) PROVE NonEmptyKept(n)
    BY <2>3, TypeParts, recieveRawDataKeepsNonEmpty
  <2>4. CASE UNCHANGED vars
    BY <2>4, OneTableKeeps DEF vars
  <2> QED BY <2>1, <2>2, <2>3, <2>4, TransportKeepsTables, OneTableKeeps, BrowserAssumption
          DEF TsNext
<1> QED BY <1>1, <1>2, TsTypeCorrect, PTL DEF TsSpec

(***************************************************************************)
(* A callback is only run on replies to its own request, whatever is       *)
(* thrown.  A user's relay handler may answer in somebody else's place, so *)
(* that less is kept of a request than in GoNetProofs: the path it is   *)
(* about.                                                                  *)
(***************************************************************************)
\* m still speaks of the path of the call that took its identifier.
Tells(calls, m) == m.id \in 1 .. Len(calls) /\ m.path = calls[m.id].msg.path

TellingOf(calls) == {m \in Imq : Tells(calls, m)}

ReplyTo(calls, i) == {m \in TellingOf(calls) : m.id = i /\ m.sts # "REQ"}

TellInv ==
  /\ net \in [Link -> Seq(TellingOf(issued))]
  /\ \A i \in Id : answered[i] \in Seq(ReplyTo(issued, i))

\* Replies to a message that tells of its call tell of it too.
LEMMA RepliesTell ==
  ASSUME TypeOK, NEW n \in Node, NEW m \in TellingOf(issued)
  PROVE  /\ Replies(n, m) \subseteq TellingOf(issued)
         /\ {Err(name[n], m), Success(name[n], m), Rep(name[n], m), ReplayMsg(name[n], m)}
              \subseteq TellingOf(issued)
<1>1. m \in Imq /\ Tells(issued, m) /\ name[n] \in Name
  BY DEF TellingOf, TypeOK, TablesOK
<1>2. /\ err(name[n], m) \in Imq /\ success(name[n], m) \in Imq /\ rep(name[n], m) \in Imq
      /\ Err(name[n], m) \in Imq /\ Success(name[n], m) \in Imq /\ Rep(name[n], m) \in Imq
      /\ ReplayMsg(name[n], m) \in Imq
  BY <1>1, RepliesTyped, TsRepliesTyped
<1>3. /\ Tells(issued, err(name[n], m)) /\ Tells(issued, success(name[n], m))
      /\ Tells(issued, rep(name[n], m))
  BY <1>1 DEF Tells, err, success, rep, makeImq
<1>4. /\ Tells(issued, Err(name[n], m)) /\ Tells(issued, Success(name[n], m))
      /\ Tells(issued, Rep(name[n], m)) /\ Tells(issued, ReplayMsg(name[n], m))
  BY <1>1 DEF Tells, Err, Success, Rep, ReplayMsg, makeImq
<1> QED BY <1>2, <1>3, <1>4 DEF TellingOf, Replies

LEMMA IssueTells ==
  ASSUME TypeOK, TypeOK', TellInv, IssueStep
  PROVE  TellInv'
<1> DEFINE S == TellingOf(issued')
<1>1. PICK n, k \in Node, m \in Asked(NextId), cb, stored \in BOOLEAN :
        Issue(n, k, m, cb, stored) /\ Sending(n, k, m) /\ UNCHANGED answered
  BY DEF IssueStep
<1>2. /\ Known' = Known \cup {NextId} /\ NextId \notin Known
      /\ \A i \in Known : issued'[i] = issued[i]
      /\ issued'[NextId].msg = m
  <2>1. /\ Known' = Known \cup {NextId} /\ NextId \notin Known
        /\ \A i \in Known : issued'[i] = issued[i]
        /\ issued'[NextId] = [node |-> n, via |-> k, msg |-> m, cb |-> cb]
    BY <1>1, IssueExtends, TypeParts DEF Asked
  <2> QED BY <2>1
<1>3. TellingOf(issued) \subseteq S /\ m \in S
  BY <1>2 DEF Asked, TellingOf, Tells, Known
<1>4. \A i \in Id : ReplyTo(issued, i) \subseteq ReplyTo(issued', i)
  BY <1>3 DEF ReplyTo
<1>5. net' \in [Link -> Seq(S)]
  <2>1. Seq(TellingOf(issued)) \subseteq Seq(S)
    BY <1>3, SeqMonotonic
  <2>2. net \in [Link -> Seq(S)]
    BY <2>1 DEF TellInv
  <2> QED BY <1>1, <1>3, <2>2, SendingKeeps DEF TypeOK, TransportOK
<1>6. \A i \in Id : answered'[i] \in Seq(ReplyTo(issued', i))
  <2>1. \A i \in Id : Seq(ReplyTo(issued, i)) \subseteq Seq(ReplyTo(issued', i))
    BY <1>4, SeqMonotonic
  <2> QED BY <1>1, <2>1 DEF TellInv
<1> QED BY <1>5, <1>6 DEF TellInv

LEMMA ServeTells ==
  ASSUME TypeOK, TellInv, NEW k \in Node, NEW n \in Node, Serve(k, n)
  PROVE  TellInv'
<1> DEFINE S == TellingOf(issued)
           m == Received(k, n)
<1>1. /\ Waiting(k, n) /\ UNCHANGED issued
      /\ UNCHANGED answered \/ (m.sts # "REQ" /\ answered' = [answered EXCEPT ![m.id] = Append(@, m)])
  BY RecieveMessageAnswers, recieveRawDataAnswers DEF Serve
<1>2. m \in S
  BY <1>1, RestKeeps DEF TellInv
<1>3. net' \in [Link -> Seq(S)]
  <2>1. /\ Replies(n, m) \subseteq S
        /\ {Err(name[n], m), Success(name[n], m), Rep(name[n], m), ReplayMsg(name[n], m)} \subseteq S
    BY <1>2, RepliesTell
  <2>2. net \in [Link -> Seq(S)] /\ StateOK /\ m.path \in Path \cup {NoPath}
    BY <1>2, TypeParts DEF TellingOf, TellInv, Imq
  <2> HIDE DEF S
  <2>3. CASE recieveRawData(k, n)
    BY <2>1, <2>2, <2>3, recieveRawDataKeeps
  <2>4. CASE RecieveMessage(k, n)
    BY <2>1, <2>2, <2>4, RecieveMessageNet
  <2> QED BY <2>3, <2>4 DEF Serve
<1>4. \A i \in Id : answered'[i] \in Seq(ReplyTo(issued, i))
  <2>1. CASE UNCHANGED answered
    BY <2>1 DEF TellInv
  <2>2. CASE m.sts # "REQ" /\ answered' = [answered EXCEPT ![m.id] = Append(@, m)]
    <3>1. m.id \in Id /\ m \in ReplyTo(issued, m.id)
      BY <1>2, <2>2 DEF ReplyTo, TellingOf, Imq
    <3>2. Append(answered[m.id], m) \in Seq(ReplyTo(issued, m.id))
      BY <3>1, AppendProperties DEF TellInv
    <3> QED BY <2>2, <3>1, <3>2 DEF TellInv, TypeOK, HistoryOK
  <2> QED BY <1>1, <2>1, <2>2
<1> QED BY <1>1, <1>3, <1>4 DEF TellInv

LEMMA TellStep ==
  ASSUME TypeOK, TypeOK', TellInv, [TsNext]_vars
  PROVE  TellInv'
<1>1. ASSUME net' \in [Link -> Seq(TellingOf(issued))], UNCHANGED <<issued, answered>>
      PROVE  TellInv'
  BY <1>1 DEF TellInv
<1>2. net \in [Link -> Seq(TellingOf(issued))]
  BY DEF TellInv
<1>3. CASE UNCHANGED vars
  BY <1>1, <1>2, <1>3 DEF vars
<1>4. ASSUME NEW n \in Browser, TsCall(n) PROVE TellInv'
  BY <1>4, BrowserAssumption, TsCallSteps, TypeParts, IssueTells DEF AskStep, IssueStep
<1>5. ASSUME NEW n \in Browser, TsConfigure(n) PROVE TellInv'
  BY <1>1, <1>2, <1>5 DEF TsConfigure, setName, setHandler, setBrokerHandler, setRelayHandler,
     delMessage, SetName, SetHandler, SetBrokerHandler, SetRelayHandler, DelMessage,
     TsAddSubscriber, TsDelSubscriber, untabled
<1>6. ASSUME NEW n \in Node, Call(n) PROVE TellInv'
  BY <1>6, CallSteps, TypeParts, IssueTells
<1>7. ASSUME NEW n \in Node, Configure(n) PROVE TellInv'
  BY <1>1, <1>2, <1>7 DEF Configure, SetName, SetHandler, DelHandler, SetBrokerHandler,
     SetRelayHandler, CallAddSubscriber, CallDelSubscriber, DelMessage, untabled
<1>8. ASSUME NEW n \in Node, NEW k \in Node, Serve(k, n) PROVE TellInv'
  BY <1>8, ServeTells
<1>9. ASSUME NEW n \in Node, NEW k \in Node, Connect(n, k) PROVE TellInv'
  BY <1>1, <1>2, <1>9, ConnectSteps, TypeParts, IssueTells
<1>10. ASSUME NEW n \in Node, NEW k \in Node, Disconnect(n, k) PROVE TellInv'
  <2>1. net' \in [Link -> Seq(TellingOf(issued))]
    BY <1>2, <1>10, DisconnectKeeps
  <2> QED BY <1>1, <1>10, <2>1 DEF Disconnect
<1>11. ASSUME NEW l \in Link, Disturb(l) PROVE TellInv'
  <2>1. net' \in [Link -> Seq(TellingOf(issued))]
    BY <1>2, <1>11, DisturbKeeps
  <2> QED BY <1>1, <1>11, <2>1 DEF Disturb
<1> QED BY <1>3, <1>4, <1>5, <1>6, <1>7, <1>8, <1>9, <1>10, <1>11, BrowserAssumption DEF TsNext, Serve

\* TellInv holds in every state.
THEOREM TellInvariance == TsSpec => []TellInv
<1>1. Init => TellInv
  BY EmptySeq DEF Init, TellInv
<1>2. TsInv /\ TsInv' /\ TellInv /\ [TsNext]_vars => TellInv'
  BY TellStep DEF TsInv
<1> QED BY <1>1, <1>2, TsInvariance, PTL DEF TsSpec

LEMMA TellRight == TellInv /\ TsInv => CallbackAnswersItsRequest
<1> SUFFICES ASSUME TellInv, TypeOK, NEW i \in Known, NEW m \in InFlight(answered[i])
             PROVE  m.id = i /\ m.sts # "REQ" /\ m.path = Request(i).path
  BY DEF CallbackAnswersItsRequest, TsInv
<1>1. i \in Id
  BY LenProperties, MaxIdAssumption DEF Known, Id, TypeOK, HistoryOK
<1>2. PICK j \in 1 .. Len(answered[i]) : m = answered[i][j]
  BY DEF InFlight
<1>3. m \in ReplyTo(issued, i)
  BY <1>1, <1>2, ElementOfSeq DEF TellInv
<1> QED BY <1>3 DEF ReplyTo, TellingOf, Tells, Request

\* In a network of both libraries a callback is only run on a reply to the
\* request it was passed with.
THEOREM TsRightRequest == TsSpec => []CallbackAnswersItsRequest
BY TellRight, TellInvariance, TsInvariance, PTL
=============================================================================
