------------------------------ MODULE MCGoNet ------------------------------
(***************************************************************************)
(* Programs for model checking GoNet.  The server is the one of            *)
(* testServer.go, the clients make the calls each run is about.            *)
(***************************************************************************)
EXTENDS GoNetProperties, TLC

CONSTANTS s, a, b,                    \* processes
          nameS, nameA, nameB, nameC,  \* names, the last nobody goes by
          p                            \* a path

\* A process that does nothing but what the library does for it.
Idle(own) ==
  [name |-> own, handlers |-> {}, standing |-> {},
   broker |-> FALSE, relay |-> FALSE, serves |-> FALSE, dials |-> {}, calls |-> {}, to |-> {},
   callbacks |-> {TRUE}, replies |-> {}]

Server == [Idle(nameS) EXCEPT !.broker = TRUE, !.relay = TRUE, !.serves = TRUE]

Client(own) == [Idle(own) EXCEPT !.dials = {s}]

\* The caller asks the client behind the relay, a client nobody knows, the
\* relay itself, and whoever is at the other end.  It queues messages, too,
\* for the client behind the relay, whom the server has enrolled.
RelayProgram ==
  (s :> [Server EXCEPT !.handlers = {p}, !.standing = {nameB}, !.replies = {"REP"}]) @@
  (a :> [Client(nameA) EXCEPT !.calls = {"Req", "Ready", "Queue"},
                              !.to = {nameB, nameC, nameS, NoName}]) @@
  (b :> [Client(nameB) EXCEPT !.handlers = {p}, !.replies = {"REP", "SUCCESS", "ERROR"}])

\* Two subscribers behind the broker, one of whom publishes and leaves, and
\* a third that is enrolled for good but never connects.
PubSubProgram ==
  (s :> [Server EXCEPT !.standing = {nameC}]) @@
  (a :> [Client(nameA) EXCEPT !.calls = {"Sub", "UnSub", "Mult"},
                              !.replies = {"SUCCESS"}]) @@
  (b :> [Client(nameB) EXCEPT !.calls = {"Sub"}, !.replies = {"SUCCESS"}])

\* Two clients whose transport misbehaves, without a server between them.
\* The caller may take the other for a relay, which it is not.
PeerProgram ==
  (a :> [Idle(nameA) EXCEPT !.dials = {b}, !.calls = {"Req", "Sub", "UnSub", "DelMessage"},
                            !.to = {nameB, nameA}]) @@
  (b :> [Idle(nameB) EXCEPT !.handlers = {p}, !.serves = TRUE,
                            !.replies = {"REP", "SUCCESS", "ERROR", "NIL"}])

=============================================================================
