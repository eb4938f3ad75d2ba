------------------------------ MODULE MCTsPage ------------------------------
(***************************************************************************)
(* Programs for model checking TsPage: the server of testServer.go, the    *)
(* page, loaded twice, and a Go client.                                    *)
(***************************************************************************)
EXTENDS TsPage, TLC

CONSTANTS s, t1, t2, b,         \* server, loads of the page and client
          nameS, nameT, nameB  \* their names

Idle(own) ==
  [name |-> own, handlers |-> {}, standing |-> {},
   broker |-> FALSE, relay |-> FALSE, serves |-> FALSE, dials |-> {}, calls |-> {}, to |-> {},
   callbacks |-> {TRUE}, replies |-> {}]

Loaded ==
  [Idle(nameT) EXCEPT !.handlers = {What}, !.dials = {s}, !.replies = {"SUCCESS"}]

PageProgram ==
  (s :> [Idle(nameS) EXCEPT !.broker = TRUE, !.relay = TRUE, !.serves = TRUE]) @@
  (t1 :> Loaded) @@ (t2 :> Loaded) @@
  (b :> [Idle(nameB) EXCEPT !.dials = {s}, !.calls = {"Mult", "Queue", "Req"},
                            !.to = {nameT}, !.replies = {"SUCCESS"}])
=============================================================================
