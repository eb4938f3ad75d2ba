-------------------------- MODULE GoNetProperties --------------------------
(***************************************************************************)
(* What the network of Go processes should do.  Each run says which of     *)
(* these it checks, and under which programs and transport.                *)
(***************************************************************************)
EXTENDS GoNet

InFlight(s) == {s[j] : j \in 1 .. Len(s)}

\* Every message on the way, on any link.
Flying == UNION {InFlight(net[l]) : l \in Link}

Request(i) == issued[i].msg

PartialFunction(f, S, T) == DOMAIN f \subseteq S /\ f \in [DOMAIN f -> T]

IsTable(t) ==
  /\ DOMAIN t \subseteq Path \cup {NoPath}
  /\ \A p \in DOMAIN t : PartialFunction(t[p], Name, BOOLEAN)

CallRecord == [node : Node, via : Node, msg : Imq, cb : BOOLEAN]

TablesOK ==
  /\ name \in [Node -> Name]
  /\ handlers \in [Node -> SUBSET Path]
  /\ brokerHandler \in [Node -> BOOLEAN]
  /\ relayHandler \in [Node -> BOOLEAN]
  /\ DOMAIN subscribers = Node /\ \A n \in Node : IsTable(subscribers[n])
  /\ messages \in [Node -> SUBSET Id]
  /\ DOMAIN webSockets = Node
  /\ \A n \in Node : PartialFunction(webSockets[n], Name, Node \cup {Closed})

TransportOK ==
  /\ conn \subseteq Link
  /\ net \in [Link -> Seq(Imq)]
  /\ faults \in 0 .. MaxFaults

HistoryOK ==
  /\ issued \in Seq(CallRecord) /\ Len(issued) <= MaxId
  /\ answered \in [Id -> Seq(Imq)]
  /\ handled \in [Id -> [Node -> Nat]]

\* Every variable holds a value of its type.
TypeOK == TablesOK /\ TransportOK /\ HistoryOK

(***************************************************************************)
(* Safety.                                                                 *)
(***************************************************************************)

\* A callback is run at most once, whatever the transport repeats and
\* however late an answer comes: the entry of messages is gone afterwards.
CallbackAtMostOnce == \A i \in Id : Len(answered[i]) <= 1

\* A callback is only run on a reply to the request it was passed with: the
\* reply speaks of the same path, and it is no request.
CallbackAnswersItsRequest ==
  \A i \in Known : \A m \in InFlight(answered[i]) :
    m.id = i /\ m.sts # "REQ" /\ m.path = Request(i).path

\* A request addressed by name is answered under that name; only an error
\* may come from somebody on the way who could not pass it on.
AnswerFromAddressee ==
  \A i \in Known : \A m \in InFlight(answered[i]) :
    Request(i).to # NoName /\ m.sts # "ERROR" => m.from = Request(i).to

\* A process only waits for identifiers it issued itself and whose callback
\* has not run: nothing answered is left in messages.
PendingUnanswered ==
  \A n \in Node : \A i \in messages[n] :
    i \in Known /\ issued[i].node = n /\ issued[i].cb /\ answered[i] = << >>

\* An identifier that was not handed out has not been answered.
FreshUnanswered == \A i \in Id : i \notin Known => answered[i] = << >>

\* DelSubscriber never leaves a path without subscribers behind.
NoEmptyPath ==
  \A n \in Node : \A p \in DOMAIN subscribers[n] : DOMAIN subscribers[n][p] # {}

\* webSockets, filled by the callbacks of the Syns, never maps a name to a
\* connection to somebody else: relayed and replayed messages go to their
\* addressees.
RegistryCorrect ==
  \A n \in Node : \A c \in DOMAIN webSockets[n] :
    webSockets[n][c] # Closed => name[webSockets[n][c]] = c

\* Once none of its SUBs and UNSUBs for a path is on the way to the server,
\* a client has a handler for the path exactly if the server counts it
\* among the subscribers.
SubscriptionAgreement ==
  \A n \in Node : \A k \in Program[n].dials, p \in Path :
    (\A m \in InFlight(net[<<n, k>>]) : m.cmd \in {"SUB", "UNSUB"} => m.path # p)
      => (p \in handlers[n] <=> name[n] \in Subscribers(subscribers[k], p))

\* On a faultless transport no handler sees a message twice, and a message
\* for one receiver is seen by one process only, relays and brokers included.
HandledOnce ==
  \A i \in Known :
    /\ \A n \in Node : handled[i][n] <= 1
    /\ Request(i).type = "SINGLE" =>
         \A n, k \in Node : handled[i][n] > 0 /\ handled[i][k] > 0 => n = k

(***************************************************************************)
(* Why answers are right.  Every message with an identifier still tells of *)
(* the call that took it: its path, and who was to answer.                 *)
(***************************************************************************)
Faithful(calls, m) ==
  /\ m.id \in 1 .. Len(calls)
  /\ LET req == calls[m.id].msg
     IN  /\ m.path = req.path
         /\ m.broker => req.broker
         /\ m.sts = "REQ" => m.to = req.to
         /\ m.sts \in {"REP", "SUCCESS"} /\ req.to # NoName => m.from = req.to

FaithfulTo(calls) == {m \in Imq : Faithful(calls, m)}

AnswerTo(calls, i) == {m \in FaithfulTo(calls) : m.id = i /\ m.sts # "REQ"}

BrokeredUnaddressed == \A i \in Known : Request(i).broker => Request(i).to = NoName

AnswerInv ==
  /\ BrokeredUnaddressed
  /\ net \in [Link -> Seq(FaithfulTo(issued))]
  /\ \A i \in Id : answered[i] \in Seq(AnswerTo(issued, i))

(***************************************************************************)
(* Why registered names are right, and why no handler sees a message       *)
(* twice.  Both are about processes that keep their names.                 *)
(***************************************************************************)
NamesKept == \A n \in Node : "SetName" \notin Program[n].calls

OwnNames == \A n \in Node : name[n] = Program[n].name

\* What is on the way because of a Syn is the Syn itself, on its way to the
\* client, or the client's answer, on its way back.
SynTraffic(l, m) ==
  LET c == issued[m.id]
  IN  c.msg.cmd = "SYN" =>
        /\ ~m.broker
        /\ \/ /\ l = <<c.node, c.via>> /\ m.sts = "REQ"
              /\ m.to = NoName /\ m.from = name[c.node]
           \/ /\ l = <<c.via, c.node>> /\ m.sts # "REQ"
              /\ m.to = name[c.node] /\ m.from = name[c.via]

RegistryInv ==
  /\ OwnNames
  /\ RegistryCorrect
  /\ \A l \in Link : \A m \in InFlight(net[l]) : SynTraffic(l, m)

\* A message that may still bring request i to a handler: i itself, or
\* anything a broker would replay as a request.
Token(m, i) == m.id = i /\ (m.broker \/ m.sts = "REQ")

Tokens(q, i) == {j \in 1 .. Len(q) : Token(q[j], i)}

ForMany(i) == Request(i).type \in {"CAST", "QUEUE"}

TypesKept ==
  /\ \A i \in Known : /\ Request(i).broker => ForMany(i)
                      /\ ForMany(i) => Request(i).to = NoName
  /\ \A l \in Link : \A m \in InFlight(net[l]) : m.type = Request(m.id).type

\* No two copies of a request are on their way to the same process.
CopiesApart(i) ==
  \A l, o \in Link : \A x \in Tokens(net[l], i), y \in Tokens(net[o], i) :
    l[2] = o[2] => l = o /\ x = y

\* A request for one receiver, or one no broker has replayed yet, is there
\* only once.
OnlyCopy(i) ==
  \A l, o \in Link : \A x \in Tokens(net[l], i), y \in Tokens(net[o], i) :
    net[l][x].broker \/ ~ForMany(i) => l = o /\ x = y

\* Nobody handled a request that is still on its way to him, or that is for
\* one receiver, or not replayed.
NotYetHandled(i) ==
  \A l \in Link : \A x \in Tokens(net[l], i), n \in Node :
    n = l[2] \/ net[l][x].broker \/ ~ForMany(i) => handled[i][n] = 0

OnceInv ==
  /\ TypesKept
  /\ \A i \in Id : CopiesApart(i) /\ OnlyCopy(i) /\ NotYetHandled(i)
  /\ \A i \in Id : i \notin Known => \A n \in Node : handled[i][n] = 0
  /\ HandledOnce

(***************************************************************************)
(* Why subscriptions agree.                                                *)
(***************************************************************************)
\* Clients open one connection each, to servers that dial nobody.
Spokes ==
  \A n \in Node : Program[n].dials # {} =>
    /\ \E k \in Node : Program[n].dials = {k}
    /\ \A j \in Node : n \notin Program[j].dials

\* They do so under names of their own.
Star ==
  /\ Spokes
  /\ \A n, j \in Node : /\ Program[n].dials # {} /\ Program[j].dials = Program[n].dials
                        /\ Program[j].name = Program[n].name => j = n

\* Programs whose clients subscribe with Sub and UnSub only, under names
\* that are not enrolled for good, and whose servers leave the tables to
\* the library, which no two goroutines make it change at once, unless
\* somebody is subscribed for good.
Subscribing ==
  /\ NamesKept /\ Star
  /\ \A n \in Node : Program[n].dials # {} =>
       /\ Program[n].handlers = {}
       /\ Program[n].calls \cap {"SubNil", "SetHandler", "DelHandler"} = {}
  /\ \A n \in Node : \A k \in Program[n].dials :
       /\ Program[k].calls \cap {"AddSubscriber", "DelSubscriber"} = {}
       /\ Program[n].name \notin Program[k].standing
       /\ Undivided(k)

Dialed(l) == l[2] \in Program[l[1]].dials \/ l[1] \in Program[l[2]].dials

\* A SUB or UNSUB the receiver of which has yet to act on it.
Order(m) == m.type = "CMD" /\ m.sts = "REQ" /\ m.cmd \in {"SUB", "UNSUB"}

OrdersFor(q, p) == {j \in 1 .. Len(q) : Order(q[j]) /\ q[j].path = p}

OrderTraffic(l, m) ==
  Order(m) => m.to = NoName /\ ~m.broker /\ m.from = name[l[1]] /\ Dialed(l)

\* The last order for the path in the client's queue tells whether the client
\* has a handler; if there is none, the table has followed.
AgreedOn(q, p, hasHandler, client, subscribed) ==
  LET orders == OrdersFor(q, p)
  IN  /\ \A j \in orders :
           (\A x \in orders : x <= j) => (p \in hasHandler <=> q[j].cmd = "SUB")
      /\ orders = {} => (p \in hasHandler <=> client \in subscribed)

Agreed(n, k, p) ==
  AgreedOn(net[<<n, k>>], p, handlers[n], name[n], Subscribers(subscribers[k], p))

\* An order is where its sender put it, and says who that is.
OrdersInv ==
  /\ OwnNames
  /\ \A l \in conn : Dialed(l)
  /\ \A l \in Link : \A m \in InFlight(net[l]) : OrderTraffic(l, m)

SubscriptionInv ==
  /\ OrdersInv
  /\ \A n \in Node : \A k \in Program[n].dials, p \in Path : Agreed(n, k, p)

(***************************************************************************)
(* Refinement: the life of an identifier is that of a request in Rpc.      *)
(***************************************************************************)
phase == [i \in Id |->
  CASE i \notin Known -> "unused"
    [] i \in Known /\ (\E n \in Node : i \in messages[n]) -> "pending"
    [] i \in Known /\ (\A n \in Node : i \notin messages[n]) ->
         IF answered[i] = << >> THEN "closed" ELSE "answered"]

runs == [i \in Id |-> Len(answered[i])]

R == INSTANCE Rpc

\* Every step of the network is a step of Rpc or leaves its state alone.
ImplementsRpc == R!Spec

(***************************************************************************)
(* Liveness.                                                               *)
(***************************************************************************)

\* The traffic caused by finitely many calls dies out: no message is passed
\* around or answered back and forth for ever.
Quiescence == <>[](\A l \in Link : net[l] = << >>)

\* Nobody who goes by the receiver's name of request i leaves it without an
\* answer.
AddresseeReplies(i) ==
  \A n \in Node : name[n] = Request(i).to \/ Request(i).to = NoName =>
    Request(i).path \in handlers[n] /\ "NIL" \notin Program[n].replies

\* A request that is on its way to a relay which already knows the caller
\* is answered, be it with an error.
RelayedRequestAnswered ==
  \A i \in Id :
    (/\ i \in Known /\ Request(i).type = "SINGLE" /\ issued[i].cb
     /\ Request(i) \in InFlight(net[<<issued[i].node, issued[i].via>>])
     /\ Socket(issued[i].via, name[issued[i].node]) = issued[i].node
     /\ AddresseeReplies(i))
      ~> (answered[i] # << >>)

=============================================================================
