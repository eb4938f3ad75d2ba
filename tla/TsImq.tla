------------------------------- MODULE TsImq -------------------------------
(***************************************************************************)
(* The TypeScript library, js/indisMQ.ts, without its state: the messages  *)
(* each function builds and the operations on the subscriber table.  The   *)
(* messages are the records of ImqSchema; module Wire is about their bytes.*)
(***************************************************************************)
EXTENDS GoImq

syn(id, me) == makeImq(id, me, NoName, FALSE, NoPath, "CMD", "REQ", "SYN")

\* Unlike the Go library's: no receiver can be named.
ready(id, me, path) == makeImq(id, me, NoName, FALSE, path, "CMD", "REQ", "READY")

req(id, me, to, dest) == makeImq(id, me, to, FALSE, dest, "SINGLE", "REQ", "NONE")

\* Unlike the Go library's: a receiver can be named.
sub(id, me, to, path) == makeImq(id, me, to, FALSE, path, "CMD", "REQ", "SUB")

unSub(id, me, to, path) == makeImq(id, me, to, FALSE, path, "CMD", "REQ", "UNSUB")

\* The compiled form is older: its sub and unSub cannot name a receiver.
subShipped(id, me, path) == makeImq(id, me, NoName, FALSE, path, "CMD", "REQ", "SUB")

unSubShipped(id, me, path) == makeImq(id, me, NoName, FALSE, path, "CMD", "REQ", "UNSUB")

\* Faulty variant: the sender is left out.
multUnnamed(id, me, broker, path) ==
  makeImq(id, NoName, NoName, broker, path, "CAST", "REQ", "NONE")

mult(id, me, broker, path) == makeImq(id, me, NoName, broker, path, "CAST", "REQ", "NONE")

queue(id, me, broker, path) == makeImq(id, me, NoName, broker, path, "QUEUE", "REQ", "NONE")

\* Replies go back to the sender of m and copy its Broker flag and command.
err(me, m) == makeImq(m.id, me, m.from, m.broker, m.path, m.type, "ERROR", m.cmd)

\* Faulty variant: the command is answered under another path.
successPathless(me, m) ==
  makeImq(m.id, me, m.from, m.broker, NoPath, m.type, "SUCCESS", m.cmd)

success(me, m) == makeImq(m.id, me, m.from, m.broker, m.path, m.type, "SUCCESS", m.cmd)

rep(me, m) == makeImq(m.id, me, m.from, m.broker, m.path, m.type, "REP", m.cmd)

(***************************************************************************)
(* The subscriber table: objects of objects, here functions of functions.  *)
(***************************************************************************)
Keys(subscribers, path) ==
  IF path \in DOMAIN subscribers THEN DOMAIN subscribers[path] ELSE {}

addSubscriber(subscribers, client, path) ==
  [p \in DOMAIN subscribers \cup {path} |->
     [c \in Keys(subscribers, p) \cup (IF p = path THEN {client} ELSE {}) |->
        IF p = path /\ c = client THEN FALSE ELSE subscribers[p][c]]]

\* Faulty variant: the path stays when its last subscriber goes.
delSubscriberKeepsPath(subscribers, client, path) ==
  [p \in DOMAIN subscribers |->
     [c \in Keys(subscribers, p) \ (IF p = path THEN {client} ELSE {}) |->
        subscribers[p][c]]]

\* The path goes with its last subscriber.
delSubscriber(subscribers, client, path) ==
  LET left(p) == Keys(subscribers, p) \ (IF p = path THEN {client} ELSE {})
  IN  [p \in {q \in DOMAIN subscribers : q = path => left(q) # {}} |->
         [c \in left(p) |-> subscribers[p][c]]]

\* What handleCmd returns on a request: a set with the reply, if there is
\* one.  READY calls onReady, which answers nothing: nobody sets it, so that
\* the call throws.
cmdReply(me, m) ==
  CASE m.cmd \in {"SUB", "SYN", "UNSUB"} -> {success(me, m)}
    [] m.cmd = "READY" -> {}
    [] OTHER -> {err(me, m)}

\* The compiled form does not know READY.
cmdReplyShipped(me, m) ==
  IF m.cmd \in {"SUB", "SYN", "UNSUB"} THEN {success(me, m)} ELSE {err(me, m)}

delHandler(handlers, path) == handlers \ {path}
=============================================================================
