------------------------------- MODULE TsPage -------------------------------
(***************************************************************************)
(* The page of js/testServer.html in the network: the script in            *)
(* js/testServer.ts with the compiled library, behind the server of        *)
(* go/testServer/testServer.go.  The page may be reloaded, which starts    *)
(* the script and the library anew while the server keeps its tables and   *)
(* goes on reading what it was sent.  Each load is a process of its own,   *)
(* under the name all of them have.                                        *)
(***************************************************************************)
EXTENDS TsNet

CONSTANTS
  Page,  \* the processes that are loads of such a page
  Root,  \* where the page greets the server: "/"
  What,  \* what it has a handler for: "/what"
  Hello, \* what it subscribes to: "/hello"
  MaxCalls  \* how many requests each of the other programs makes

ASSUME PageAssumption == Page \subseteq Shipped /\ {Root, What} \subseteq Path

\* What the script installs at once.  It sets its name too, and makes a
\* request that it sends nowhere.
Script == {What}

ASSUME ScriptAssumption == \A n \in Page : Program[n].handlers = Script

ASSUME HelloAssumption == Hello \in Path \ {Root, What} /\ MaxCalls \in Nat

\* Nobody but the loads of one page subscribes at k, and nobody unsubscribes.
OneSubscriber(k) ==
  /\ Joining(k) = {} /\ Leaving(k) = {} /\ Program[k].standing = {}
  /\ \A i, j \in Page : k \in Program[i].dials \cap Program[j].dials =>
       Program[i].name = Program[j].name

\* The SUB of one load may reach the server while it is still reading that
\* of another, in another goroutine.  The path has this one subscriber, whom
\* nobody takes out, so a call of sendQueue serves it whatever the marks.
\* But an AddSubscriber that found no path, and makes it after the other has
\* made it and is done, empties it until it adds the client itself: as long
\* as a SUB of another load has not been read to the end, nothing is claimed
\* of a page below.
ASSUME LoadsAssumption == \A n \in Page : \A k \in Program[n].dials : OneSubscriber(k)

\* All loads of page n, itself among them.
Loads(n) == {j \in Page : Program[j].name = Program[n].name}

\* Faulty variant: the handler is not installed.
onopenDeaf(n, k, i) ==
  LET hey == req(i, name[n], NoName, Root)
      hello == subShipped(i + 1, name[n], Hello)
  IN  /\ net' = [net EXCEPT ![<<n, k>>] = @ \o <<hey, hello>>,
                            ![<<k, n>>] = Append(@, SynMsg(NextId, name[k]))]
      /\ UNCHANGED handlers

\* The script sends two requests, the second with a callback, before it
\* reads anything; they take the identifiers from i on.
onopen(n, k, i) ==
  LET hey == req(i, name[n], NoName, Root)
      hello == subShipped(i + 1, name[n], Hello)
  IN  /\ net' = [net EXCEPT ![<<n, k>>] = @ \o <<hey, hello>>,
                            ![<<k, n>>] = Append(@, SynMsg(NextId, name[k]))]
      /\ handlers' = [handlers EXCEPT ![n] = @ \cup {Hello}]

\* A load opens one WebSocket, after the load before has lost its own.  The
\* processes that have not loaded yet are alike: one of them is next.
Load(n, k) ==
  LET i == NextId + 1
      call(x, y, m, cb) == [node |-> x, via |-> y, msg |-> m, cb |-> cb]
  IN  /\ k \in Program[n].dials /\ Program[k].serves
      /\ handlers[n] = Script /\ i + 1 \in Id
      /\ n = CHOOSE j \in Loads(n) : handlers[j] = Script
      /\ \A j \in Loads(n) : <<j, k>> \notin conn
      /\ conn' = conn \cup {<<n, k>>, <<k, n>>}
      /\ issued' = issued \o
           <<call(k, n, SynMsg(NextId, name[k]), TRUE),
             call(n, k, req(i, name[n], NoName, Root), FALSE),
             call(n, k, subShipped(i + 1, name[n], Hello), TRUE)>>
      /\ messages' = [messages EXCEPT ![k] = @ \cup {NextId}, ![n] = @ \cup {i + 1}]
      /\ onopen(n, k, i)
      /\ UNCHANGED <<name, brokerHandler, relayHandler, subscribers, webSockets, faults,
                     answered, handled>>

\* The browser ends load n and closes its connection.  What the page has not
\* read is lost; of what it has sent some more may reach the server, whose
\* goroutine for the connection reads it as ever and answers into the void.
Reload(n, k) ==
  /\ k \in Program[n].dials /\ Hello \in handlers[n]
  /\ handlers' = [handlers EXCEPT ![n] = {}]
  /\ messages' = [messages EXCEPT ![n] = {}]
  /\ conn' = conn \ {<<n, k>>, <<k, n>>}
  /\ \E sent \in 0 .. Len(net[<<n, k>>]) :
       net' = [net EXCEPT ![<<n, k>>] = SubSeq(@, 1, sent), ![<<k, n>>] = << >>]
  /\ UNCHANGED <<name, brokerHandler, relayHandler, subscribers, webSockets, faults,
                 issued, answered, handled>>

\* Whether process n may make another request.
MoreCalls(n) ==
  Cardinality({i \in Known : issued[i].node = n /\ Request(i).cmd # "SYN"}) < MaxCalls

\* The page sends what recieveRawData returns.
onmessage(k, n) == recieveRawData(k, n)

PageNext ==
  \/ \E n \in Page, k \in Node : Load(n, k) \/ Reload(n, k)
  \/ \E n \in Node \ Browser : MoreCalls(n) /\ Call(n)
  \/ \E n \in Node \ Browser, k \in Node : Connect(n, k)
  \/ \E n \in Page, k \in Node : onmessage(k, n)
  \/ \E n \in Browser \ Page, k \in Node : recieveRawData(k, n)
  \/ \E n \in Node \ Browser, k \in Node : RecieveMessage(k, n)

PageSpec == Init /\ [][PageNext]_vars

PageFairSpec == PageSpec /\ TsFairness

(***************************************************************************)
(* Properties.                                                             *)
(***************************************************************************)

\* Nothing of another load of the page is left for server k to read.
OthersRead(n, k) == \A j \in Loads(n) \ {n} : net[<<j, k>>] = << >>

\* HelloAgreement: while a page is connected and none of its SUBs for Hello
\* is on the way, nor any of another load, it handles Hello exactly if the
\* server counts it among the subscribers, whatever reloads came before.
HelloAgreement ==
  \A n \in Page : \A k \in Program[n].dials :
    /\ <<n, k>> \in conn
    /\ \A j \in Loads(n) : \A m \in InFlight(net[<<j, k>>]) :
         m.cmd \in {"SUB", "UNSUB"} => m.path # Hello
    => (Hello \in handlers[n] <=> name[n] \in Keys(subscribers[k], Hello))

\* PageAnswered: in the end a page waits for nothing: what it asked for has
\* come, or it was reloaded.
PageAnswered == <>[](\A n \in Page : messages[n] = {})

\* The server k reaches client n under its name.
Registers(k, n) == Socket(k, name[n]) = n /\ <<n, k>> \in conn

\* Request i is a cast on Hello, or asks page n for What.
Concerns(i, n) ==
  /\ i \in Known
  /\ \/ Request(i).type = "CAST" /\ Request(i).path = Hello
     \/ /\ Request(i).type = "SINGLE"
        /\ Request(i).to = name[n] /\ Request(i).path = What

\* It is on its way to a server that has registered the page, and can
\* register no load of before in its place any more.
OnItsWay(i, n) ==
  LET j == issued[i].node
      k == issued[i].via
  IN  /\ Request(i) \in InFlight(net[<<j, k>>]) /\ OthersRead(n, k)
      /\ Registers(k, n) /\ Registers(k, j)
      /\ Request(i).broker => name[n] \in Keys(subscribers[k], Hello)

\* PageServes: a cast on Hello that is on its way to the broker when the page
\* is registered and subscribed runs the page's handler, and a request for
\* What that is on its way to the relay is answered by the page; unless the
\* page is reloaded.
PageServes ==
  \A page \in {Loads(n) : n \in Page}, i \in Id :
    (\E n \in page : Concerns(i, n) /\ OnItsWay(i, n))
      ~> \/ \E n \in page : /\ handled[i][n] > 0
                            /\ Request(i).type = "CAST" \/ answered[i] # << >>
         \/ \A n \in page, k \in Node : <<n, k>> \notin conn

(***************************************************************************)
(* Why HelloAgreement holds: a page subscribes with its first messages on  *)
(* every connection and never unsubscribes, so that what other loads have  *)
(* sent can only say the same.                                             *)
(***************************************************************************)
\* Pages are clients of one server each, under a name of their own.
PageSubscribing ==
  /\ Spokes
  /\ \A n \in Page, j \in Node \ Page : Program[j].name # Program[n].name

PagesStay ==
  \A l \in Link : \A m \in InFlight(net[l]) : l[1] \in Page /\ Order(m) => m.cmd = "SUB"

HelloInv ==
  /\ OrdersInv /\ PagesStay
  /\ \A n \in Page : \A k \in Program[n].dials :
       <<n, k>> \in conn => Hello \in handlers[n] /\ Agreed(n, k, Hello)
=============================================================================
