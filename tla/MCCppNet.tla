------------------------------ MODULE MCCppNet ------------------------------
(***************************************************************************)
(* Programs for model checking CppNet: processes with the three libraries. *)
(***************************************************************************)
EXTENDS CppNet, TLC

CONSTANTS t, qt, a,      \* processes: TypeScript, C++ and Go
          nameT, nameC,  \* names
          p              \* a path

Idle(own) ==
  [name |-> own, handlers |-> {}, standing |-> {},
   broker |-> FALSE, relay |-> FALSE, serves |-> FALSE, dials |-> {}, calls |-> {}, to |-> {},
   callbacks |-> {TRUE}, replies |-> {}]

\* Everything that changes the tables of a process of each library, while a
\* request is on its way.  The Go client goes by the same name as the other.
ConfigureProgram ==
  (qt :> [Idle(nameC) EXCEPT !.calls = {"AddSubscriber", "DelSubscriber", "SetBrokerHandler",
                                       "Ready", "MultLocal", "QueueLocal"}, !.to = {nameT},
                            !.replies = {"REP", "NIL"}]) @@
  (t :> [Idle(nameT) EXCEPT !.dials = {qt}, !.to = {nameC},
                            !.calls = {"AddSubscriber", "DelSubscriber", "SetName",
                                       "MultLocal", "QueueLocal", "Mult", "Queue"},
                            !.replies = {"REP", "NIL"}]) @@
  (a :> [Idle(nameT) EXCEPT !.dials = {t}, !.to = {nameC},
                            !.calls = {"AddSubscriber", "DelSubscriber", "SetHandler", "DelHandler",
                                       "SetRelayHandler", "Req", "SubNil", "MultLocal", "QueueLocal"},
                            !.replies = {"REP"}])

\* All requests, of a receiver that may be the caller itself, with callbacks
\* that throw and messages that are repeated.
PeersProgram ==
  (t :> [Idle(nameT) EXCEPT !.dials = {qt}, !.to = {nameC, nameT},
                            !.calls = {"Req", "Ready", "Sub", "UnSub", "Mult", "Queue",
                                       "DelMessage"},
                            !.replies = {"SUCCESS"}]) @@
  (qt :> [Idle(nameC) EXCEPT !.serves = TRUE, !.handlers = {p}, !.to = {nameT},
                            !.broker = TRUE, !.relay = TRUE,
                            !.calls = {"Req", "Sub", "UnSub", "Mult", "Queue", "MultLocal",
                                       "DelMessage"},
                            !.replies = {"REP"}])
=============================================================================
