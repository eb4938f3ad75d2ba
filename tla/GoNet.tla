------------------------------- MODULE GoNet -------------------------------
(***************************************************************************)
(* Processes that use the Go library, connected by websockets.  A process  *)
(* is the library's package state (go/indisMQ.go) together with the        *)
(* program around it: go/testServer/testServer.go for the nodes that       *)
(* accept connections, go/testClient/testClient1.go for those that dial.   *)
(* RecieveMessage is one action per branch, each with all it calls: the    *)
(* user's handler, the reply it returns and the program's sendMessage.     *)
(***************************************************************************)
EXTENDS GoImq, Sequences

CONSTANTS
  Node,      \* the processes
  Threaded,  \* those that read each connection in a goroutine of its own
  Program,   \* what the program of each process does, see ProgramType
  Closed,    \* a webSockets entry whose connection is gone
  Faults,    \* what the transport may do: a subset of FaultKind
  MaxFaults  \* how often it may do so

Op == {"Req", "Ready", "Sub", "SubNil", "UnSub", "Mult", "MultLocal",
       "Queue", "QueueLocal", "SetName", "SetHandler", "DelHandler",
       "SetBrokerHandler", "SetRelayHandler", "AddSubscriber",
       "DelSubscriber", "DelMessage"}

FaultKind == {"lose", "duplicate", "overtake", "disconnect"}

\* name, handlers, broker, relay: what main installs before it connects;
\* standing: the clients it adds to every path with AddSubscriber;
\* serves: it sends a Syn on every connection it accepts; dials: whom it
\* connects to; calls: the library functions it may call later; to: the
\* receivers it names; callbacks: whether it passes callbacks (TRUE) or nil;
\* replies: what its handlers return.
ProgramType ==
  [name : Name, handlers : SUBSET Path, standing : SUBSET Name,
   broker : BOOLEAN, relay : BOOLEAN,
   serves : BOOLEAN, dials : SUBSET Node, calls : SUBSET Op,
   to : SUBSET (Name \cup {NoName}), callbacks : SUBSET BOOLEAN,
   replies : SUBSET {"NIL", "SUCCESS", "REP", "ERROR"}]

ASSUME ProgramAssumption == Program \in [Node -> ProgramType]

ASSUME FaultAssumption == Faults \subseteq FaultKind /\ MaxFaults \in Nat

ASSUME ClosedAssumption == Closed \notin Node

ASSUME FiniteAssumption == IsFiniteSet(Name)

Link == Node \X Node

(***************************************************************************)
(* AddSubscriber, DelSubscriber, sendMult and sendQueue take no lock, and  *)
(* a server runs them in the goroutine of whoever asked.  They are one     *)
(* step each below, so the programs are restricted to those whose          *)
(* goroutines cannot cut into each other's calls, or where it makes no     *)
(* difference: GoSubRace shows that it makes none to AddSubscriber and     *)
(* DelSubscriber while somebody else stays subscribed.  A cast ranges over *)
(* the table: each subscriber gets it as if it had come before, or after,  *)
(* that subscriber's own SUB.                                              *)
(***************************************************************************)
Peer(j, k) == j \in Program[k].dials \/ k \in Program[j].dials

\* Whose goroutines at k may run a function: k's own, if it calls it, and
\* those of its peers who call what makes k run it.
Callers(k, own, sent) ==
  {j \in Node : \/ j = k /\ Program[k].calls \cap own # {}
                \/ Peer(j, k) /\ Program[j].calls \cap sent # {}}

Joining(k) == Callers(k, {"AddSubscriber"}, {"Sub", "SubNil"})

Leaving(k) == Callers(k, {"DelSubscriber"}, {"UnSub"})

\* A broker serves what it is sent with the Broker flag, which the replies
\* to its own brokered calls carry too.
Brokered(k, op) ==
  IF Program[k].broker \/ "SetBrokerHandler" \in Program[k].calls
  THEN {j \in Node : Peer(j, k) /\ op \in Program[j].calls \cup Program[k].calls}
  ELSE {}

Casting(k) == Callers(k, {"MultLocal"}, {}) \cup Brokered(k, "Mult")

Queueing(k) == Callers(k, {"QueueLocal"}, {}) \cup Brokered(k, "Queue")

AtMostOne(S) == \A x, y \in S : x = y

\* Somebody is subscribed to every path of k for good, while its clients
\* come and go, each under a name of its own.
Kept(k) ==
  LET clients == Joining(k) \cup Leaving(k)
  IN  /\ Program[k].standing # {} /\ k \notin clients
      /\ \A j \in clients : /\ Program[j].name \notin Program[k].standing
                            /\ "SetName" \notin Program[j].calls
      /\ \A i, j \in clients : Program[i].name = Program[j].name => i = j

Undivided(k) ==
  \/ AtMostOne(Joining(k) \cup Leaving(k) \cup Casting(k) \cup Queueing(k))
  \/ /\ Kept(k) /\ Queueing(k) = {}
     /\ Casting(k) = {} \/ AtMostOne(Leaving(k) \cup Casting(k))

ASSUME TableAssumption == \A k \in Threaded : Undivided(k)

VARIABLES
  \* the package variables of go/indisMQ.go
  name, handlers, subscribers, messages, brokerHandler, relayHandler,
  \* the program's own table from client names to connections
  webSockets,
  \* the transport: open connections, messages in flight, faults so far
  conn, net, faults,
  \* history: the calls that took an identifier, the replies each callback
  \* was run on, how often each handler was run for each identifier
  issued, answered, handled

tables == <<name, handlers, brokerHandler, relayHandler>>
transport == <<conn, faults>>
vars == <<tables, subscribers, messages, webSockets, net, transport,
          issued, answered, handled>>

\* Faulty variant: identifiers collide.
NextIdRepeats == 1

NextId == Len(issued) + 1

Known == 1 .. Len(issued)

\* The subscriber table main leaves behind before it connects.
Enrolled(n) ==
  [path \in {q \in Path : Program[n].standing # {}} |->
     [c \in Program[n].standing |-> FALSE]]

Init ==
  /\ name = [n \in Node |-> Program[n].name]
  /\ handlers = [n \in Node |-> Program[n].handlers]
  /\ subscribers = [n \in Node |-> Enrolled(n)]
  /\ messages = [n \in Node |-> {}]
  /\ brokerHandler = [n \in Node |-> Program[n].broker]
  /\ relayHandler = [n \in Node |-> Program[n].relay]
  /\ webSockets = [n \in Node |-> << >>]
  /\ conn = {}
  /\ net = [l \in Link |-> << >>]
  /\ faults = 0
  /\ issued = << >>
  /\ answered = [i \in Id |-> << >>]
  /\ handled = [i \in Id |-> [n \in Node |-> 0]]

(***************************************************************************)
(* Sending.  A write to a connection that is gone is logged and lost.      *)
(***************************************************************************)
\* Faulty variant: a send that is repeated.
SendTwice(queues, n, k, m) ==
  IF <<n, k>> \in conn
  THEN [queues EXCEPT ![<<n, k>>] = @ \o <<m, m>>]
  ELSE queues

Send(queues, n, k, m) ==
  IF <<n, k>> \in conn
  THEN [queues EXCEPT ![<<n, k>>] = Append(@, m)]
  ELSE queues

\* The connection n's webSockets table holds for client, Closed if none.
Socket(n, client) ==
  IF client \in DOMAIN webSockets[n] THEN webSockets[n][client] ELSE Closed

\* Faulty variant: every handler closure writes to every connection.
FanOutEverywhere(queues, n, clients, m) ==
  [l \in Link |->
     IF l[1] = n /\ l \in conn
     THEN queues[l] \o [j \in 1 .. Cardinality(clients) |-> m]
     ELSE queues[l]]

\* One copy of m for each of the clients, on the connection registered
\* for it: the handler closures of testServer.go.
FanOut(queues, n, clients, m) ==
  [l \in Link |->
     IF l[1] = n /\ l \in conn
     THEN queues[l] \o
          [j \in 1 .. Cardinality({c \in clients : Socket(n, c) = l[2]}) |-> m]
     ELSE queues[l]]

(***************************************************************************)
(* The library functions that make a request.  n sends it to k and, if the *)
(* call came with a callback, remembers it in messages.                    *)
(***************************************************************************)
MayCall(n, op) == op \in Program[n].calls

Issue(n, k, m, cb, stored) ==
  /\ NextId \in Id
  /\ issued' = Append(issued, [node |-> n, via |-> k, msg |-> m, cb |-> cb])
  /\ messages' = IF stored THEN [messages EXCEPT ![n] = @ \cup {m.id}]
                 ELSE messages

Syn(n, k, open) ==
  LET m == SynMsg(NextId, name[n])
  IN  /\ Issue(n, k, m, TRUE, TRUE)
      /\ conn' = open
      /\ net' = [net EXCEPT ![<<n, k>>] = Append(@, m)]

Req(n, k, to, path, cb) ==
  LET m == ReqMsg(NextId, name[n], to, path)
  IN  /\ MayCall(n, "Req") /\ <<n, k>> \in conn
      /\ Issue(n, k, m, cb, cb)
      /\ net' = Send(net, n, k, m)
      /\ UNCHANGED <<tables, subscribers, webSockets, transport, answered, handled>>

Ready(n, k, to, path, cb) ==
  LET m == ReadyMsg(NextId, name[n], to, path)
  IN  /\ MayCall(n, "Ready") /\ <<n, k>> \in conn
      /\ Issue(n, k, m, cb, cb)
      /\ net' = Send(net, n, k, m)
      /\ UNCHANGED <<tables, subscribers, webSockets, transport, answered, handled>>

\* handler tells whether Sub was given one ("SubNil": it was not).
Sub(n, k, path, handler, cb) ==
  LET m == SubMsg(NextId, name[n], path)
  IN  /\ MayCall(n, IF handler THEN "Sub" ELSE "SubNil") /\ <<n, k>> \in conn
      /\ Issue(n, k, m, cb, cb)
      /\ handlers' = IF handler THEN [handlers EXCEPT ![n] = @ \cup {path}]
                     ELSE handlers
      /\ net' = Send(net, n, k, m)
      /\ UNCHANGED <<name, brokerHandler, relayHandler, subscribers, webSockets,
                     transport, answered, handled>>

UnSub(n, k, path, cb) ==
  LET m == UnSubMsg(NextId, name[n], path)
  IN  /\ MayCall(n, "UnSub") /\ <<n, k>> \in conn
      /\ Issue(n, k, m, cb, cb)
      /\ handlers' = [handlers EXCEPT ![n] = @ \ {path}]
      /\ net' = Send(net, n, k, m)
      /\ UNCHANGED <<name, brokerHandler, relayHandler, subscribers, webSockets,
                     transport, answered, handled>>

\* Mult and Queue with broker = TRUE return the message for the caller to
\* send; the callback is stored.
Mult(n, k, path, cb) ==
  LET m == MultMsg(NextId, name[n], TRUE, path)
  IN  /\ MayCall(n, "Mult") /\ <<n, k>> \in conn
      /\ Issue(n, k, m, cb, cb)
      /\ net' = Send(net, n, k, m)
      /\ UNCHANGED <<tables, subscribers, webSockets, transport, answered, handled>>

Queue(n, k, path, cb) ==
  LET m == QueueMsg(NextId, name[n], TRUE, path)
  IN  /\ MayCall(n, "Queue") /\ <<n, k>> \in conn
      /\ Issue(n, k, m, cb, cb)
      /\ net' = Send(net, n, k, m)
      /\ UNCHANGED <<tables, subscribers, webSockets, transport, answered, handled>>

\* With broker = FALSE they serve the caller's own subscribers and return
\* nil before the callback is stored.
MultLocal(n, path, cb) ==
  LET m == MultMsg(NextId, name[n], FALSE, path)
  IN  /\ MayCall(n, "MultLocal")
      /\ Issue(n, n, m, cb, FALSE)
      /\ net' = FanOut(net, n, Subscribers(subscribers[n], path), m)
      /\ UNCHANGED <<tables, subscribers, webSockets, transport, answered, handled>>

QueueLocal(n, path, cb) ==
  LET m == QueueMsg(NextId, name[n], FALSE, path)
  IN  /\ MayCall(n, "QueueLocal")
      /\ Issue(n, n, m, cb, FALSE)
      /\ \E o \in QueueOutcomes(subscribers[n], path) :
           /\ net' = FanOut(net, n, o.to, m)
           /\ subscribers' = [subscribers EXCEPT ![n] = o.table]
      /\ UNCHANGED <<tables, webSockets, transport, answered, handled>>

Call(n) ==
  \E path \in Path, cb \in Program[n].callbacks :
    \/ MultLocal(n, path, cb)
    \/ QueueLocal(n, path, cb)
    \/ \E k \in Node :
         \/ \E to \in Program[n].to : Req(n, k, to, path, cb) \/ Ready(n, k, to, path, cb)
         \/ \E handler \in BOOLEAN : Sub(n, k, path, handler, cb)
         \/ UnSub(n, k, path, cb)
         \/ Mult(n, k, path, cb)
         \/ Queue(n, k, path, cb)

(***************************************************************************)
(* The library functions that only change the tables.                      *)
(***************************************************************************)
untabled == <<net, transport, issued, answered, handled, webSockets>>

SetName(n, new) ==
  /\ MayCall(n, "SetName")
  /\ name' = [name EXCEPT ![n] = new]
  /\ UNCHANGED <<handlers, brokerHandler, relayHandler, subscribers, messages, untabled>>

SetHandler(n, path) ==
  /\ MayCall(n, "SetHandler")
  /\ handlers' = [handlers EXCEPT ![n] = @ \cup {path}]
  /\ UNCHANGED <<name, brokerHandler, relayHandler, subscribers, messages, untabled>>

DelHandler(n, path) ==
  /\ MayCall(n, "DelHandler")
  /\ handlers' = [handlers EXCEPT ![n] = @ \ {path}]
  /\ UNCHANGED <<name, brokerHandler, relayHandler, subscribers, messages, untabled>>

SetBrokerHandler(n, set) ==
  /\ MayCall(n, "SetBrokerHandler")
  /\ brokerHandler' = [brokerHandler EXCEPT ![n] = set]
  /\ UNCHANGED <<name, handlers, relayHandler, subscribers, messages, untabled>>

SetRelayHandler(n, set) ==
  /\ MayCall(n, "SetRelayHandler")
  /\ relayHandler' = [relayHandler EXCEPT ![n] = set]
  /\ UNCHANGED <<name, handlers, brokerHandler, subscribers, messages, untabled>>

CallAddSubscriber(n, client, path) ==
  /\ MayCall(n, "AddSubscriber")
  /\ subscribers' = [subscribers EXCEPT ![n] = AddSubscriber(@, client, path)]
  /\ UNCHANGED <<tables, messages, untabled>>

CallDelSubscriber(n, client, path) ==
  /\ MayCall(n, "DelSubscriber")
  /\ subscribers' = [subscribers EXCEPT ![n] = DelSubscriber(@, client, path)]
  /\ UNCHANGED <<tables, messages, untabled>>

\* Faulty variant: giving up one request forgets them all.
DelMessageAll(n, i) ==
  /\ MayCall(n, "DelMessage")
  /\ messages' = [messages EXCEPT ![n] = {}]
  /\ UNCHANGED <<tables, subscribers, untabled>>

\* The application gives up waiting: the library has no timeouts of its own.
DelMessage(n, i) ==
  /\ MayCall(n, "DelMessage")
  /\ messages' = [messages EXCEPT ![n] = @ \ {i}]
  /\ UNCHANGED <<tables, subscribers, untabled>>

Configure(n) ==
  \/ \E new \in Name : SetName(n, new)
  \/ \E path \in Path : SetHandler(n, path) \/ DelHandler(n, path)
  \/ \E set \in BOOLEAN : SetBrokerHandler(n, set) \/ SetRelayHandler(n, set)
  \/ \E client \in Name, path \in Path :
       CallAddSubscriber(n, client, path) \/ CallDelSubscriber(n, client, path)
  \/ \E i \in messages[n] : DelMessage(n, i)

(***************************************************************************)
(* RecieveMessage at n of the next message from k.  The three predicates   *)
(* are the first three tests of its if-else chain.                         *)
(***************************************************************************)
Waiting(k, n) == net[<<k, n>>] # << >>

Received(k, n) == Head(net[<<k, n>>])

Rest(k, n) == [net EXCEPT ![<<k, n>>] = Tail(@)]

ForBroker(m) == m.broker

\* Faulty variant: the test for a receiver is inverted.
ForOtherInverted(n, m) == ~ForBroker(m) /\ m.to = NoName

ForOther(n, m) == ~ForBroker(m) /\ m.to # NoName /\ m.to # name[n]

ForMe(n, m) == ~ForBroker(m) /\ ~ForOther(n, m)

\* testServer.go's brokerHandler: BrokerReplay.  Its callback stays in the
\* replayed message and is not put into messages.
RecvBroker(k, n) ==
  LET m == Received(k, n)
      r == ReplayMsg(name[n], m)
  IN  /\ Waiting(k, n) /\ ForBroker(m) /\ brokerHandler[n]
      /\ \/ /\ r.type = "CAST"
            /\ net' = FanOut(Rest(k, n), n, Subscribers(subscribers[n], m.path), r)
            /\ UNCHANGED subscribers
         \/ /\ r.type = "QUEUE"
            /\ \E o \in QueueOutcomes(subscribers[n], m.path) :
                 /\ net' = FanOut(Rest(k, n), n, o.to, r)
                 /\ subscribers' = [subscribers EXCEPT ![n] = o.table]
      /\ UNCHANGED <<tables, messages, webSockets, transport, issued, answered, handled>>

RecvNotBroker(k, n) ==
  LET m == Received(k, n)
  IN  /\ Waiting(k, n) /\ ForBroker(m) /\ ~brokerHandler[n]
      /\ net' = Send(Rest(k, n), n, k, Err(name[n], m))
      /\ UNCHANGED <<tables, subscribers, messages, webSockets, transport,
                     issued, answered, handled>>

\* testServer.go's relayHandler: pass the message on unchanged.
RecvRelay(k, n) ==
  LET m == Received(k, n)
  IN  /\ Waiting(k, n) /\ ForOther(n, m) /\ relayHandler[n]
      /\ net' = IF m.to \in DOMAIN webSockets[n]
                THEN Send(Rest(k, n), n, Socket(n, m.to), m)
                ELSE Send(Rest(k, n), n, k, Err(name[n], m))
      /\ UNCHANGED <<tables, subscribers, messages, webSockets, transport,
                     issued, answered, handled>>

RecvNotRelay(k, n) ==
  LET m == Received(k, n)
  IN  /\ Waiting(k, n) /\ ForOther(n, m) /\ ~relayHandler[n]
      /\ net' = Send(Rest(k, n), n, k, Err(name[n], m))
      /\ UNCHANGED <<tables, subscribers, messages, webSockets, transport,
                     issued, answered, handled>>

\* handleCmd on a request: SYN, SUB and UNSUB are acknowledged; READY only
\* calls OnReady, which changes nothing here and has no reply.  The changes
\* of the table are one step on account of TableAssumption.
RecvCmd(k, n) ==
  LET m == Received(k, n)
  IN  /\ Waiting(k, n) /\ ForMe(n, m) /\ m.type = "CMD" /\ m.sts = "REQ"
      /\ net' = IF m.cmd \in {"SYN", "SUB", "UNSUB"}
                THEN Send(Rest(k, n), n, k, Success(name[n], m))
                ELSE Rest(k, n)
      /\ subscribers' =
           [subscribers EXCEPT ![n] =
              CASE m.cmd = "SUB" -> AddSubscriber(@, m.from, m.path)
                [] m.cmd = "UNSUB" -> DelSubscriber(@, m.from, m.path)
                [] OTHER -> @]
      /\ UNCHANGED <<tables, messages, webSockets, transport, issued, answered, handled>>

\* The user's handler for the path and the reply it returns, if any.
HandlerReplies(n, m) ==
  {Success(name[n], m) : s \in Program[n].replies \cap {"SUCCESS"}} \cup
  {Rep(name[n], m) : s \in Program[n].replies \cap {"REP"}} \cup
  {Err(name[n], m) : s \in Program[n].replies \cap {"ERROR"}}

RecvRequest(k, n) ==
  LET m == Received(k, n)
  IN  /\ Waiting(k, n) /\ ForMe(n, m) /\ m.type # "CMD" /\ m.sts = "REQ"
      /\ m.path \in handlers[n]
      /\ \/ "NIL" \in Program[n].replies /\ net' = Rest(k, n)
         \/ \E r \in HandlerReplies(n, m) : net' = Send(Rest(k, n), n, k, r)
      /\ handled' = [handled EXCEPT ![m.id][n] = @ + 1]
      /\ UNCHANGED <<tables, subscribers, messages, webSockets, transport,
                     issued, answered>>

RecvUnhandled(k, n) ==
  LET m == Received(k, n)
  IN  /\ Waiting(k, n) /\ ForMe(n, m) /\ m.type # "CMD" /\ m.sts = "REQ"
      /\ m.path \notin handlers[n]
      /\ net' = Rest(k, n)
      /\ UNCHANGED <<tables, subscribers, messages, webSockets, transport,
                     issued, answered, handled>>

\* Faulty variant: the callback is not deleted.
RecvReplyKeeping(k, n) ==
  LET m == Received(k, n)
  IN  /\ Waiting(k, n) /\ ForMe(n, m) /\ m.sts # "REQ"
      /\ m.id \in messages[n]
      /\ answered' = [answered EXCEPT ![m.id] = Append(@, m)]
      /\ net' = Rest(k, n)
      /\ UNCHANGED <<tables, subscribers, messages, webSockets, transport,
                     issued, handled>>

\* A reply, whether to a command or not: run the callback stored under its
\* identifier, then delete it.  The callback of a Syn registers the client.
RecvReply(k, n) ==
  LET m == Received(k, n)
      c == issued[m.id]
  IN  /\ Waiting(k, n) /\ ForMe(n, m) /\ m.sts # "REQ"
      /\ m.id \in messages[n]
      /\ answered' = [answered EXCEPT ![m.id] = Append(@, m)]
      /\ messages' = [messages EXCEPT ![n] = @ \ {m.id}]
      /\ webSockets' =
           IF c.msg.cmd = "SYN"
           THEN [webSockets EXCEPT ![n] =
                   [x \in DOMAIN @ \cup {m.from} |->
                      IF x = m.from THEN c.via ELSE @[x]]]
           ELSE webSockets
      /\ net' = Rest(k, n)
      /\ UNCHANGED <<tables, subscribers, transport, issued, handled>>

RecvStrayReply(k, n) ==
  LET m == Received(k, n)
  IN  /\ Waiting(k, n) /\ ForMe(n, m) /\ m.sts # "REQ"
      /\ m.id \notin messages[n]
      /\ net' = Rest(k, n)
      /\ UNCHANGED <<tables, subscribers, messages, webSockets, transport,
                     issued, answered, handled>>

RecieveMessage(k, n) ==
  \/ RecvBroker(k, n) \/ RecvNotBroker(k, n)
  \/ RecvRelay(k, n) \/ RecvNotRelay(k, n)
  \/ RecvCmd(k, n)
  \/ RecvRequest(k, n) \/ RecvUnhandled(k, n)
  \/ RecvReply(k, n) \/ RecvStrayReply(k, n)

(***************************************************************************)
(* Connections.  The accepting side sends its Syn before it reads.         *)
(***************************************************************************)
Connect(n, k) ==
  LET open == conn \cup {<<n, k>>, <<k, n>>}
  IN  /\ k \in Program[n].dials /\ <<n, k>> \notin conn
      /\ \/ Program[k].serves /\ Syn(k, n, open)
         \/ /\ ~Program[k].serves
            /\ conn' = open
            /\ UNCHANGED <<net, issued, messages>>
      /\ UNCHANGED <<tables, subscribers, webSockets, faults, answered, handled>>

\* What is in flight is lost; the tables keep entries for the dead
\* connection, which a new connection to the same client does not revive.
Disconnect(n, k) ==
  /\ "disconnect" \in Faults /\ faults < MaxFaults
  /\ <<n, k>> \in conn
  /\ conn' = conn \ {<<n, k>>, <<k, n>>}
  /\ net' = [net EXCEPT ![<<n, k>>] = << >>, ![<<k, n>>] = << >>]
  /\ webSockets' =
       [a \in Node |-> [c \in DOMAIN webSockets[a] |->
          IF {a, webSockets[a][c]} = {n, k} THEN Closed ELSE webSockets[a][c]]]
  /\ faults' = faults + 1
  /\ UNCHANGED <<tables, subscribers, messages, issued, answered, handled>>

(***************************************************************************)
(* A transport other than a websocket: the library leaves it to the user.  *)
(***************************************************************************)
Without(s, j) == SubSeq(s, 1, j - 1) \o SubSeq(s, j + 1, Len(s))

Lose(l, j) ==
  /\ "lose" \in Faults
  /\ net' = [net EXCEPT ![l] = Without(@, j)]

Duplicate(l, j) ==
  /\ "duplicate" \in Faults
  /\ net' = [net EXCEPT ![l] = Append(@, @[j])]

Overtake(l, j) ==
  /\ "overtake" \in Faults /\ j > 1
  /\ net' = [net EXCEPT ![l] = <<@[j]>> \o Without(@, j)]

Disturb(l) ==
  /\ faults < MaxFaults
  /\ \E j \in 1 .. Len(net[l]) : Lose(l, j) \/ Duplicate(l, j) \/ Overtake(l, j)
  /\ faults' = faults + 1
  /\ UNCHANGED <<tables, subscribers, messages, webSockets, conn,
                 issued, answered, handled>>

Next ==
  \/ \E n \in Node : Call(n) \/ Configure(n)
  \/ \E n, k \in Node : RecieveMessage(k, n) \/ Connect(n, k) \/ Disconnect(n, k)
  \/ \E l \in Link : Disturb(l)

Spec == Init /\ [][Next]_vars

\* Every connection has a goroutine that reads it for as long as it lasts.
Fairness == \A k, n \in Node : WF_vars(RecieveMessage(k, n))

FairSpec == Spec /\ Fairness
=============================================================================
