------------------------------- MODULE GoImq -------------------------------
(***************************************************************************)
(* The Go library, go/indisMQ.go, without its state: the messages each     *)
(* exported function builds and the operations on the subscriber table.    *)
(* A subscriber table is a partial function from paths to partial          *)
(* functions from client names to the round-robin mark of sendQueue.       *)
(***************************************************************************)
EXTENDS ImqSchema, FiniteSets

(***************************************************************************)
(* Messages.  The last parameter of makeImq that matters, the callback, is *)
(* not part of the record: GoNet keeps it.                                 *)
(***************************************************************************)
makeImq(id, from, to, broker, path, type, sts, cmd) ==
  [id |-> id, from |-> from, to |-> to, broker |-> broker,
   path |-> path, type |-> type, sts |-> sts, cmd |-> cmd]

SynMsg(id, me) == makeImq(id, me, NoName, FALSE, NoPath, "CMD", "REQ", "SYN")

ReadyMsg(id, me, to, dest) ==
  makeImq(id, me, to, FALSE, dest, "CMD", "REQ", "READY")

ReqMsg(id, me, to, dest) ==
  makeImq(id, me, to, FALSE, dest, "SINGLE", "REQ", "NONE")

SubMsg(id, me, path) == makeImq(id, me, NoName, FALSE, path, "CMD", "REQ", "SUB")

\* Faulty variant: the path is forgotten.
UnSubMsgPathless(id, me, path) ==
  makeImq(id, me, NoName, FALSE, NoPath, "CMD", "REQ", "UNSUB")

UnSubMsg(id, me, path) ==
  makeImq(id, me, NoName, FALSE, path, "CMD", "REQ", "UNSUB")

MultMsg(id, me, broker, path) ==
  makeImq(id, me, NoName, broker, path, "CAST", "REQ", "NONE")

QueueMsg(id, me, broker, path) ==
  makeImq(id, me, NoName, broker, path, "QUEUE", "REQ", "NONE")

\* Faulty variants: replies that lose the path, name the wrong sender or
\* none, or have no receiver.
ErrPathless(me, m) ==
  makeImq(m.id, me, m.from, m.broker, NoPath, m.type, "ERROR", "NONE")

SuccessUnswapped(me, m) ==
  makeImq(m.id, m.from, m.from, m.broker, m.path, m.type, "SUCCESS", m.cmd)

SuccessFromAddressee(me, m) ==
  makeImq(m.id, m.to, m.from, m.broker, m.path, m.type, "SUCCESS", m.cmd)

RepPathless(me, m) ==
  makeImq(m.id, me, m.from, m.broker, NoPath, m.type, "REP", m.cmd)

RepUnaddressed(me, m) ==
  makeImq(m.id, me, NoName, m.broker, m.path, m.type, "REP", m.cmd)

\* Replies go back to the sender of m and copy its Broker flag.
Err(me, m) ==
  makeImq(m.id, me, m.from, m.broker, m.path, m.type, "ERROR", "NONE")

Success(me, m) ==
  makeImq(m.id, me, m.from, m.broker, m.path, m.type, "SUCCESS", m.cmd)

Rep(me, m) ==
  makeImq(m.id, me, m.from, m.broker, m.path, m.type, "REP", m.cmd)

\* Faulty variant: the Broker flag stays set.
ReplayMsgBrokered(me, m) ==
  makeImq(m.id, me, NoName, m.broker, m.path,
          IF m.type = "CAST" THEN "CAST" ELSE "QUEUE", "REQ", "NONE")

\* What BrokerReplay sends on: m again under its old identifier, from the
\* broker, with the Broker flag cleared; anything but a CAST is queued.
ReplayMsg(me, m) ==
  makeImq(m.id, me, NoName, FALSE, m.path,
          IF m.type = "CAST" THEN "CAST" ELSE "QUEUE", "REQ", "NONE")

(***************************************************************************)
(* The subscriber table.                                                   *)
(***************************************************************************)
Subscribers(table, path) ==
  IF path \in DOMAIN table THEN DOMAIN table[path] ELSE {}

AddSubscriber(table, client, path) ==
  [p \in DOMAIN table \cup {path} |->
     IF p # path THEN table[p]
     ELSE [c \in Subscribers(table, path) \cup {client} |->
             IF c = client THEN FALSE ELSE table[path][c]]]

\* Faulty variant: the path stays.
DelSubscriberKeeps(table, client, path) ==
  [p \in DOMAIN table |-> [c \in DOMAIN table[p] \ (IF p = path THEN {client} ELSE {}) |->
                            table[p][c]]]

\* Deletes the path together with its last subscriber.
DelSubscriber(table, client, path) ==
  LET left == Subscribers(table, path) \ {client}
  IN  [p \in {q \in DOMAIN table : q # path \/ left # {}} |->
         IF p # path THEN table[p] ELSE [c \in left |-> table[path][c]]]

(***************************************************************************)
(* sendQueue.  The two loops range over a Go map, so each sees the clients *)
(* in an order of its own choosing.  The first loop serves everybody after *)
(* the first marked client t and clears t's mark; a client it serves ends  *)
(* up marked unless it was marked already.  If it served nobody (no mark,  *)
(* or t came last and was the only mark) the second loop serves and marks  *)
(* whoever it meets first.                                                 *)
(***************************************************************************)
AfterMark(marks) ==
  LET clients == DOMAIN marks
      Later(t) == {after \in SUBSET (clients \ {t}) :
                     after # {} /\ \A c \in clients \ {t} : marks[c] => c \in after}
      Served(after) ==
        [to |-> after, marks |-> [c \in clients |-> c \in after /\ ~marks[c]]]
  IN  UNION {{Served(after) : after \in Later(t)} : t \in {c \in clients : marks[c]}}

FromStart(marks) ==
  {[to |-> {k}, marks |-> [c \in DOMAIN marks |-> c = k]] :
     k \in {k \in DOMAIN marks :
              \A c, d \in DOMAIN marks : marks[c] /\ marks[d] => c = d}}

\* The possible results of one call for a path with these marks: who is
\* sent the message and the marks the call leaves.
sendQueue(marks) == AfterMark(marks) \cup FromStart(marks)

\* The possible results on the whole table; nothing happens without
\* subscribers.
QueueOutcomes(table, path) ==
  IF Subscribers(table, path) # {}
  THEN {[to |-> o.to, table |-> [table EXCEPT ![path] = o.marks]] :
          o \in sendQueue(table[path])}
  ELSE {[to |-> {}, table |-> table]}
=============================================================================
