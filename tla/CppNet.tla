------------------------------- MODULE CppNet -------------------------------
(***************************************************************************)
(* The network of TsNet with some processes that run the C++ library       *)
(* instead, cpp/indis_rpc.h.  Its tables are members of one object or      *)
(* global, and play the part of the variables of GoNet; all its functions  *)
(* are called by one thread, the event loop of Qt.                         *)
(***************************************************************************)
EXTENDS TsNet

CONSTANT Native  \* the processes that run the C++ library

ASSUME NativeAssumption == Native \subseteq Node \ Browser

\* Nor does the C++ library start a thread: see above.
ASSUME UnthreadedAssumption == Threaded \cap Native = {}

Cpp == INSTANCE CppImq

(***************************************************************************)
(* The functions that make a request; the program sends what they return.  *)
(***************************************************************************)
CppReq(n, k, to, path, cb) ==
  /\ Ask(n, k, "Req", Cpp!req(NextId, name[n], to, path), cb)
  /\ UNCHANGED handlers

CppReady(n, k, to, path, cb) ==
  /\ Ask(n, k, "Ready", Cpp!ready(NextId, name[n], to, path), cb)
  /\ UNCHANGED handlers

\* handler tells whether sub was given one.
CppSub(n, k, path, handler, cb) ==
  /\ Ask(n, k, IF handler THEN "Sub" ELSE "SubNil", Cpp!sub(NextId, name[n], path), cb)
  /\ handlers' = IF handler THEN [handlers EXCEPT ![n] = @ \cup {path}] ELSE handlers

CppUnSub(n, k, path, cb) ==
  /\ Ask(n, k, "UnSub", Cpp!unSub(NextId, name[n]), cb)
  /\ handlers' = [handlers EXCEPT ![n] = @ \ {path}]

CppMult(n, k, path, cb) ==
  /\ Ask(n, k, "Mult", Cpp!Mult(NextId, name[n], TRUE, path), cb)
  /\ UNCHANGED handlers

CppQueue(n, k, path, cb) ==
  /\ Ask(n, k, "Queue", Cpp!Queue(NextId, name[n], TRUE, path), cb)
  /\ UNCHANGED handlers

\* m goes to subscribers of n, each by the connection the program has for it.
Deliver(queues, n, m) ==
  \E o \in Cpp!Deliveries(subscribers[n], m.path, m.type) :
    /\ net' = FanOut(queues, n, o.to, m)
    /\ subscribers' = [subscribers EXCEPT ![n] = o.table]

\* With broker = false the caller's own subscribers are served.  Unlike in
\* the other libraries the callback is stored all the same.
CppMultLocal(n, path, cb) ==
  LET m == Cpp!Mult(NextId, name[n], FALSE, path)
  IN  /\ MayCall(n, "MultLocal")
      /\ Issue(n, n, m, cb, cb)
      /\ Deliver(net, n, m)
      /\ UNCHANGED <<tables, webSockets, transport, answered, handled>>

CppQueueLocal(n, path, cb) ==
  LET m == Cpp!Queue(NextId, name[n], FALSE, path)
  IN  /\ MayCall(n, "QueueLocal")
      /\ Issue(n, n, m, cb, cb)
      /\ Deliver(net, n, m)
      /\ UNCHANGED <<tables, webSockets, transport, answered, handled>>

CppCall(n) ==
  \E path \in Path, cb \in Program[n].callbacks :
    \/ CppMultLocal(n, path, cb)
    \/ CppQueueLocal(n, path, cb)
    \/ \E k \in Node :
         \/ \E to \in Program[n].to : CppReq(n, k, to, path, cb) \/ CppReady(n, k, to, path, cb)
         \/ \E handler \in BOOLEAN : CppSub(n, k, path, handler, cb)
         \/ CppUnSub(n, k, path, cb)
         \/ CppMult(n, k, path, cb)
         \/ CppQueue(n, k, path, cb)

(***************************************************************************)
(* The functions that only change the tables.  There is none that removes  *)
(* a handler, and a name is not removed by setting it to "".               *)
(***************************************************************************)
CppAddSubscriber(n, client, path) ==
  /\ MayCall(n, "AddSubscriber")
  /\ subscribers' = [subscribers EXCEPT ![n] = Cpp!addSubscriber(@, client, path)]
  /\ UNCHANGED <<tables, messages, untabled>>

CppDelSubscriber(n, client, path) ==
  /\ MayCall(n, "DelSubscriber")
  /\ subscribers' = [subscribers EXCEPT ![n] = Cpp!delSubscriber(@, client, path)]
  /\ UNCHANGED <<tables, messages, untabled>>

CppConfigure(n) ==
  \/ \E new \in Name : SetName(n, new)
  \/ \E path \in Path : SetHandler(n, path)
  \/ \E set \in BOOLEAN : SetBrokerHandler(n, set) \/ SetRelayHandler(n, set)
  \/ \E client \in Name, path \in Path :
       CppAddSubscriber(n, client, path) \/ CppDelSubscriber(n, client, path)
  \/ \E i \in messages[n] : DelMessage(n, i)

(***************************************************************************)
(* recieveRawData at n of the next message from k, a branch at a time.     *)
(***************************************************************************)
\* What a function of the user may return on m.
CppReplies(n, m) ==
  {{Cpp!success(name[n], m)} : s \in Program[n].replies \cap {"SUCCESS"}} \cup
  {{Cpp!rep(name[n], m)} : s \in Program[n].replies \cap {"REP"}} \cup
  {{Cpp!err(name[n], m)} : s \in Program[n].replies \cap {"ERROR"}} \cup
  {{} : s \in Program[n].replies \cap {"NIL"}}

CppNotBroker(k, n) ==
  LET m == Received(k, n)
  IN  /\ Waiting(k, n) /\ ForBroker(m) /\ ~brokerHandler[n]
      /\ Return(k, n, {Cpp!err(name[n], m)})
      /\ UNCHANGED <<subscribers, handled>>

\* The user's broker handler answers m itself,
CppBroker(k, n) ==
  LET m == Received(k, n)
  IN  /\ Waiting(k, n) /\ ForBroker(m) /\ brokerHandler[n]
      /\ \E replies \in CppReplies(n, m) : Return(k, n, replies)
      /\ UNCHANGED <<subscribers, handled>>

\* brokerReplay dereferences StsMsg and Body.  Only the TypeScript library
\* writes a StsMsg into every message, and a body, if it is given one, into
\* requests and replies; on any other message the process crashes.
Replayable(k, m) == k \in Browser /\ m.sts \in {"REQ", "REP"}

\* or calls brokerReplay, as that of testServer.go does.
CppReplay(k, n) ==
  LET m == Received(k, n)
  IN  /\ Waiting(k, n) /\ ForBroker(m) /\ brokerHandler[n] /\ Replayable(k, m)
      /\ Deliver(Rest(k, n), n, Cpp!brokerReplay(m))
      /\ UNCHANGED <<tables, messages, webSockets, transport, issued, answered, handled>>

CppRelay(k, n) ==
  LET m == Received(k, n)
  IN  /\ Waiting(k, n) /\ ForOther(n, m)
      /\ IF relayHandler[n]
         THEN \E replies \in CppReplies(n, m) : Return(k, n, replies)
         ELSE Return(k, n, {Cpp!err(name[n], m)})
      /\ UNCHANGED <<subscribers, handled>>

CppCmd(k, n) ==
  LET m == Received(k, n)
  IN  /\ Waiting(k, n) /\ ForMe(n, m) /\ m.type = "CMD" /\ m.sts = "REQ"
      /\ Return(k, n, Cpp!handleCmd(name[n], m))
      /\ subscribers' =
           [subscribers EXCEPT ![n] =
              CASE m.cmd = "SUB" -> Cpp!addSubscriber(@, m.from, m.path)
                [] m.cmd = "UNSUB" -> Cpp!delSubscriber(@, m.from, m.path)
                [] OTHER -> @]
      /\ UNCHANGED handled

CppRequest(k, n) ==
  LET m == Received(k, n)
  IN  /\ Waiting(k, n) /\ ForMe(n, m) /\ m.type # "CMD" /\ m.sts = "REQ"
      /\ IF m.path \in handlers[n]
         THEN /\ \E replies \in CppReplies(n, m) : Return(k, n, replies)
              /\ handled' = [handled EXCEPT ![m.id][n] = @ + 1]
         ELSE Return(k, n, {}) /\ UNCHANGED handled
      /\ UNCHANGED subscribers

HasCallback(n, m) == m.sts # "REQ" /\ m.id \in messages[n]

\* The callback is run, then the entry goes.  What it returns is dropped,
\* but on the reply to a command it is sent to where the reply came from.
CppReply(k, n) ==
  LET m == Received(k, n)
  IN  /\ Waiting(k, n) /\ ForMe(n, m) /\ HasCallback(n, m)
      /\ answered' = [answered EXCEPT ![m.id] = Append(@, m)]
      /\ messages' = [messages EXCEPT ![n] = @ \ {m.id}]
      /\ webSockets' = Registered(n, m)
      /\ \/ net' = Rest(k, n)
         \/ /\ m.type = "CMD"
            /\ \E replies \in CppReplies(n, m) :
                 \E r \in replies : net' = Send(Rest(k, n), n, k, r)
      /\ UNCHANGED <<tables, subscribers, transport, issued, handled>>

CppStrayReply(k, n) ==
  LET m == Received(k, n)
  IN  /\ Waiting(k, n) /\ ForMe(n, m) /\ m.sts # "REQ" /\ ~HasCallback(n, m)
      /\ Return(k, n, {})
      /\ UNCHANGED <<subscribers, handled>>

CppRecieve(k, n) ==
  \/ CppBroker(k, n) \/ CppNotBroker(k, n) \/ CppReplay(k, n) \/ CppRelay(k, n)
  \/ CppCmd(k, n) \/ CppRequest(k, n) \/ CppReply(k, n) \/ CppStrayReply(k, n)

CppNext ==
  \/ \E n \in Browser : TsCall(n) \/ TsConfigure(n)
  \/ \E n \in Native : CppCall(n) \/ CppConfigure(n)
  \/ \E n \in Node \ (Browser \cup Native) : Call(n) \/ Configure(n)
  \/ \E n \in Browser, k \in Node : recieveRawData(k, n)
  \/ \E n \in Native, k \in Node : CppRecieve(k, n)
  \/ \E n \in Node \ (Browser \cup Native), k \in Node : RecieveMessage(k, n)
  \/ \E n, k \in Node : Connect(n, k) \/ Disconnect(n, k)
  \/ \E l \in Link : Disturb(l)

CppSpec == Init /\ [][CppNext]_vars

(***************************************************************************)
(* Properties.                                                             *)
(***************************************************************************)
\* A message brokerReplay sends on comes from whom it was addressed to: a
\* brokered message, from nobody.
Anonymous ==
  [id : Id, from : {NoName}, to : Name \cup {NoName}, broker : BOOLEAN,
   path : Path \cup {NoPath}, type : MsgType, sts : Sts, cmd : Cmd]

MessagesOK ==
  /\ net \in [Link -> Seq(Imq \cup Anonymous)]
  /\ answered \in [Id -> Seq(Imq \cup Anonymous)]

\* Every variable holds a value of its type.
CppTypeOK ==
  /\ TablesOK /\ MessagesOK
  /\ conn \subseteq Link /\ faults \in 0 .. MaxFaults
  /\ issued \in Seq(CallRecord) /\ Len(issued) <= MaxId
  /\ handled \in [Id -> [Node -> Nat]]

\* No process but one with the C++ library keeps a path without subscribers,
\* whatever it is sent.
EmptyPathIsNative ==
  \A n \in Node \ Native : \A p \in DOMAIN subscribers[n] : DOMAIN subscribers[n][p] # {}

(***************************************************************************)
(* Why they hold.  Every message, whoever is named as its sender, is about *)
(* the path of the call that took its identifier, and only a brokered      *)
(* call, which is no command and no Syn, leads to a brokered or an         *)
(* anonymous message: nobody is registered or subscribed anonymously.      *)
(***************************************************************************)
Mail(calls) ==
  {m \in Imq \cup Anonymous :
     /\ m.id \in 1 .. Len(calls)
     /\ m.path = calls[m.id].msg.path
     /\ m.broker \/ m.from = NoName => calls[m.id].msg.broker
     /\ calls[m.id].msg.broker => m.type # "CMD"}

MailReply(calls, i) == {m \in Mail(calls) : m.id = i /\ m.sts # "REQ"}

BrokeredPlain ==
  \A i \in Known : Request(i).broker => Request(i).type # "CMD" /\ Request(i).cmd # "SYN"

MailInv ==
  /\ BrokeredPlain
  /\ net \in [Link -> Seq(Mail(issued))]
  /\ \A i \in Id : answered[i] \in Seq(MailReply(issued, i))
=============================================================================
