------------------------------- MODULE TsNet -------------------------------
(***************************************************************************)
(* The network of GoNet with some processes that run the TypeScript        *)
(* library instead, js/indisMQ.ts or its older compiled form indisMQ.js.   *)
(* Its package variables are those of the Go library, so they share the    *)
(* variables of GoNet; JavaScript runs each function to its end.           *)
(***************************************************************************)
EXTENDS GoNetProperties, TsImq

CONSTANTS
  Browser,  \* the processes that run the TypeScript library
  Shipped,  \* those of them that run the compiled form
  Throws    \* what may throw an exception: the user's handlers, callbacks

ASSUME BrowserAssumption == Shipped \subseteq Browser /\ Browser \subseteq Node

\* JavaScript has one thread.  Its sub and unSub take a receiver, and would
\* reach the tables of a Go process by way of a relay.
ASSUME ThreadsAssumption ==
  /\ Threaded \subseteq Node \ Browser
  /\ \A n \in Browser :
       Program[n].calls \cap {"Sub", "SubNil", "UnSub"} # {} => Threaded = {}

ASSUME ThrowsAssumption == Throws \subseteq {"handler", "callback"}

(***************************************************************************)
(* The functions that make a request; the program sends what they return.  *)
(***************************************************************************)
\* Sixteen random letters and digits, taken to be new every time.
newUID == NextId

Ask(n, k, op, m, cb) ==
  /\ MayCall(n, op) /\ <<n, k>> \in conn
  /\ Issue(n, k, m, cb, cb)
  /\ net' = Send(net, n, k, m)
  /\ UNCHANGED <<name, brokerHandler, relayHandler, subscribers, webSockets,
                 transport, answered, handled>>

TsReq(n, k, to, path, cb) ==
  /\ Ask(n, k, "Req", req(newUID, name[n], to, path), cb)
  /\ UNCHANGED handlers

\* handler tells whether ready or sub was given one.
TsReady(n, k, path, handler, cb) ==
  /\ n \notin Shipped
  /\ Ask(n, k, "Ready", ready(newUID, name[n], path), cb)
  /\ handlers' = IF handler THEN [handlers EXCEPT ![n] = @ \cup {path}] ELSE handlers

TsSub(n, k, to, path, handler, cb) ==
  /\ n \in Shipped => to = NoName
  /\ Ask(n, k, IF handler THEN "Sub" ELSE "SubNil",
         IF n \in Shipped THEN subShipped(newUID, name[n], path)
         ELSE sub(newUID, name[n], to, path), cb)
  /\ handlers' = IF handler THEN [handlers EXCEPT ![n] = @ \cup {path}] ELSE handlers

TsUnSub(n, k, to, path, cb) ==
  /\ n \in Shipped => to = NoName
  /\ Ask(n, k, "UnSub",
         IF n \in Shipped THEN unSubShipped(newUID, name[n], path)
         ELSE unSub(newUID, name[n], to, path), cb)
  /\ handlers' = [handlers EXCEPT ![n] = delHandler(@, path)]

TsMult(n, k, path, cb) ==
  /\ Ask(n, k, "Mult", mult(newUID, name[n], TRUE, path), cb)
  /\ UNCHANGED handlers

TsQueue(n, k, path, cb) ==
  /\ Ask(n, k, "Queue", queue(newUID, name[n], TRUE, path), cb)
  /\ UNCHANGED handlers

\* With broker = false the caller's own subscribers are served: mult passes
\* each of them to the program, which writes to the connection it has for
\* it; nothing is stored.
TsMultLocal(n, path, cb) ==
  LET m == mult(newUID, name[n], FALSE, path)
  IN  /\ MayCall(n, "MultLocal")
      /\ Issue(n, n, m, cb, FALSE)
      /\ net' = FanOut(net, n, Keys(subscribers[n], path), m)
      /\ UNCHANGED <<tables, subscribers, webSockets, transport, answered, handled>>

\* sendQueue enters its loops only if the path has no subscribers, so they
\* find nobody.
TsQueueLocal(n, path, cb) ==
  /\ MayCall(n, "QueueLocal")
  /\ Issue(n, n, queue(newUID, name[n], FALSE, path), cb, FALSE)
  /\ UNCHANGED <<tables, subscribers, webSockets, net, transport, answered, handled>>

TsCall(n) ==
  \E path \in Path, cb \in Program[n].callbacks :
    \/ TsMultLocal(n, path, cb)
    \/ TsQueueLocal(n, path, cb)
    \/ \E k \in Node :
         \/ \E to \in Program[n].to :
              \/ TsReq(n, k, to, path, cb)
              \/ TsUnSub(n, k, to, path, cb)
              \/ \E handler \in BOOLEAN : TsSub(n, k, to, path, handler, cb)
         \/ \E handler \in BOOLEAN : TsReady(n, k, path, handler, cb)
         \/ TsMult(n, k, path, cb)
         \/ TsQueue(n, k, path, cb)

(***************************************************************************)
(* The functions that only change the tables do what those of the Go       *)
(* library do.  delHandler is not exported.                                *)
(***************************************************************************)
setName(n, new) == SetName(n, new)

setHandler(n, path) == SetHandler(n, path)

setBrokerHandler(n, set) == SetBrokerHandler(n, set)

setRelayHandler(n, set) == SetRelayHandler(n, set)

delMessage(n, i) == DelMessage(n, i)

TsAddSubscriber(n, client, path) ==
  /\ MayCall(n, "AddSubscriber")
  /\ subscribers' = [subscribers EXCEPT ![n] = addSubscriber(@, client, path)]
  /\ UNCHANGED <<tables, messages, untabled>>

TsDelSubscriber(n, client, path) ==
  /\ MayCall(n, "DelSubscriber")
  /\ subscribers' = [subscribers EXCEPT ![n] = delSubscriber(@, client, path)]
  /\ UNCHANGED <<tables, messages, untabled>>

TsConfigure(n) ==
  \/ \E new \in Name : setName(n, new)
  \/ \E path \in Path : setHandler(n, path)
  \/ \E set \in BOOLEAN : setBrokerHandler(n, set) \/ setRelayHandler(n, set)
  \/ \E client \in Name, path \in Path :
       TsAddSubscriber(n, client, path) \/ TsDelSubscriber(n, client, path)
  \/ \E i \in messages[n] : delMessage(n, i)

(***************************************************************************)
(* recieveRawData at n of the next message from k, a branch at a time.     *)
(***************************************************************************)
\* n sends the reply to k, if there is one.
Return(k, n, replies) ==
  /\ \/ replies = {} /\ net' = Rest(k, n)
     \/ \E r \in replies : net' = Send(Rest(k, n), n, k, r)
  /\ UNCHANGED <<tables, messages, webSockets, transport, issued, answered>>

\* What a function of the user may return on m; one that throws takes
\* recieveRawData with it, so nothing is sent.
UserReplies(n, m) ==
  {{success(name[n], m)} : s \in Program[n].replies \cap {"SUCCESS"}} \cup
  {{rep(name[n], m)} : s \in Program[n].replies \cap {"REP"}} \cup
  {{err(name[n], m)} : s \in Program[n].replies \cap {"ERROR"}} \cup
  {{} : s \in (Program[n].replies \cap {"NIL"}) \cup (Throws \cap {"handler"})}

TsBroker(k, n) ==
  LET m == Received(k, n)
  IN  /\ Waiting(k, n) /\ ForBroker(m)
      /\ IF brokerHandler[n]
         THEN \E replies \in UserReplies(n, m) : Return(k, n, replies)
         ELSE Return(k, n, {err(name[n], m)})
      /\ UNCHANGED <<subscribers, handled>>

TsRelay(k, n) ==
  LET m == Received(k, n)
  IN  /\ Waiting(k, n) /\ ForOther(n, m)
      /\ IF relayHandler[n]
         THEN \E replies \in UserReplies(n, m) : Return(k, n, replies)
         ELSE Return(k, n, {err(name[n], m)})
      /\ UNCHANGED <<subscribers, handled>>

TsCmd(k, n) ==
  LET m == Received(k, n)
  IN  /\ Waiting(k, n) /\ ForMe(n, m) /\ m.type = "CMD" /\ m.sts = "REQ"
      /\ Return(k, n, IF n \in Shipped THEN cmdReplyShipped(name[n], m)
                      ELSE cmdReply(name[n], m))
      /\ subscribers' =
           [subscribers EXCEPT ![n] =
              CASE m.cmd = "SUB" -> addSubscriber(@, m.from, m.path)
                [] m.cmd = "UNSUB" -> delSubscriber(@, m.from, m.path)
                [] OTHER -> @]
      /\ UNCHANGED handled

TsRequest(k, n) ==
  LET m == Received(k, n)
  IN  /\ Waiting(k, n) /\ ForMe(n, m) /\ m.type # "CMD" /\ m.sts = "REQ"
      /\ IF m.path \in handlers[n]
         THEN /\ \E replies \in UserReplies(n, m) : Return(k, n, replies)
              /\ handled' = [handled EXCEPT ![m.id][n] = @ + 1]
         ELSE Return(k, n, {}) /\ UNCHANGED handled
      /\ UNCHANGED subscribers

\* The callback stored under the identifier is run.
RunCallback(k, n) ==
  LET m == Received(k, n)
  IN  /\ Waiting(k, n) /\ ForMe(n, m) /\ m.sts # "REQ" /\ m.id \in messages[n]
      /\ answered' = [answered EXCEPT ![m.id] = Append(@, m)]
      /\ net' = Rest(k, n)
      /\ UNCHANGED <<tables, subscribers, transport, issued, handled>>

\* The callback of a Syn registers the client, as testServer.go's does.
Registered(n, m) ==
  IF issued[m.id].msg.cmd = "SYN"
  THEN [webSockets EXCEPT ![n] =
          [x \in DOMAIN @ \cup {m.from} |->
             IF x = m.from THEN issued[m.id].via ELSE @[x]]]
  ELSE webSockets

\* Faulty variant: the entry stays.
TsReplyKeeping(k, n) ==
  /\ RunCallback(k, n)
  /\ webSockets' = Registered(n, Received(k, n))
  /\ UNCHANGED messages

\* It returns and delMessage drops the entry,
TsReply(k, n) ==
  /\ RunCallback(k, n)
  /\ webSockets' = Registered(n, Received(k, n))
  /\ messages' = [messages EXCEPT ![n] = @ \ {Received(k, n).id}]

\* or it throws, early or late, and the entry stays.
TsReplyThrows(k, n) ==
  /\ "callback" \in Throws
  /\ RunCallback(k, n)
  /\ webSockets' \in {webSockets, Registered(n, Received(k, n))}
  /\ UNCHANGED messages

TsStrayReply(k, n) ==
  LET m == Received(k, n)
  IN  /\ Waiting(k, n) /\ ForMe(n, m) /\ m.sts # "REQ" /\ m.id \notin messages[n]
      /\ Return(k, n, {})
      /\ UNCHANGED <<subscribers, handled>>

recieveRawData(k, n) ==
  \/ TsBroker(k, n) \/ TsRelay(k, n) \/ TsCmd(k, n) \/ TsRequest(k, n)
  \/ TsReply(k, n) \/ TsReplyThrows(k, n) \/ TsStrayReply(k, n)

(***************************************************************************)
(* Either library, according to the process.                               *)
(***************************************************************************)
Serve(k, n) == IF n \in Browser THEN recieveRawData(k, n) ELSE RecieveMessage(k, n)

TsNext ==
  \/ \E n \in Browser : TsCall(n) \/ TsConfigure(n)
  \/ \E n \in Node \ Browser : Call(n) \/ Configure(n)
  \/ \E n \in Browser, k \in Node : recieveRawData(k, n)
  \/ \E n \in Node \ Browser, k \in Node : RecieveMessage(k, n)
  \/ \E n, k \in Node : Connect(n, k) \/ Disconnect(n, k)
  \/ \E l \in Link : Disturb(l)

TsSpec == Init /\ [][TsNext]_vars

\* The event loop takes every message up, as the reading goroutines do, on
\* every link that can be open.
TsFairness ==
  \A k, n \in Node :
    n \in Program[k].dials \/ k \in Program[n].dials => WF_vars(Serve(k, n))

(***************************************************************************)
(* Refinement: a callback that throws leaves its request outstanding, so   *)
(* that it may be run again, see RpcThrows.                                *)
(***************************************************************************)
outstanding == [i \in Id |->
  IF i \notin Known THEN "unused"
  ELSE IF \E n \in Node : i \in messages[n] THEN "pending" ELSE "over"]

T == INSTANCE RpcThrows WITH phase <- outstanding

\* Every step of the network is a step of RpcThrows or leaves its state alone.
ImplementsRpcThrows == T!Spec
=============================================================================
