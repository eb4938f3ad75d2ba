------------------------------- MODULE CppImq -------------------------------
(***************************************************************************)
(* The C++ library, cpp/indis_rpc.h, without its state: the messages each  *)
(* function builds and the operations on the subscriber table.  A program  *)
(* gets these messages as shared_msg, with a callback that is not part of  *)
(* the record.                                                             *)
(***************************************************************************)
EXTENDS ImqSchema

makeImq(id, from, to, broker, path, type, sts, cmd) ==
  [id |-> id, from |-> from, to |-> to, broker |-> broker,
   path |-> path, type |-> type, sts |-> sts, cmd |-> cmd]

req(id, me, to, dest) == makeImq(id, me, to, FALSE, dest, "SINGLE", "REQ", "NONE")

ready(id, me, to, dest) == makeImq(id, me, to, FALSE, dest, "CMD", "REQ", "READY")

sub(id, me, path) == makeImq(id, me, NoName, FALSE, path, "CMD", "REQ", "SUB")

\* Unlike the other libraries': the message does not say which path, and it
\* says that it is an answer.
unSub(id, me) == makeImq(id, me, NoName, FALSE, NoPath, "CMD", "SUCCESS", "UNSUB")

Mult(id, me, broker, path) == makeImq(id, me, NoName, broker, path, "CAST", "REQ", "NONE")

Queue(id, me, broker, path) == makeImq(id, me, NoName, broker, path, "QUEUE", "REQ", "NONE")

\* Replies go back to the sender of m and copy its Broker flag and command.
err(me, m) == makeImq(m.id, me, m.from, m.broker, m.path, m.type, "ERROR", m.cmd)

\* Faulty variant: the answer does not say what it answers.
successPathless(me, m) ==
  makeImq(m.id, me, m.from, m.broker, NoPath, m.type, "SUCCESS", m.cmd)

success(me, m) == makeImq(m.id, me, m.from, m.broker, m.path, m.type, "SUCCESS", m.cmd)

\* A reply with a body; it differs from success in nothing else.
rep(me, m) == success(me, m)

\* What a broker sends on: m with sender and receiver exchanged and the
\* Broker flag cleared.
brokerReplay(m) == makeImq(m.id, m.to, m.from, FALSE, m.path, m.type, m.sts, m.cmd)

(***************************************************************************)
(* The subscriber table, an unordered_map of unordered_maps.               *)
(***************************************************************************)
Clients(subscribers, path) ==
  IF path \in DOMAIN subscribers THEN DOMAIN subscribers[path] ELSE {}

\* subscribers[path]: the path is made if there is none.
At(subscribers, path) ==
  [p \in DOMAIN subscribers \cup {path} |->
     [c \in Clients(subscribers, p) |-> subscribers[p][c]]]

addSubscriber(subscribers, client, path) ==
  [At(subscribers, path) EXCEPT ![path] =
     [c \in DOMAIN @ \cup {client} |-> IF c = client THEN FALSE ELSE @[c]]]

\* The path stays, also when its last subscriber goes.
delSubscriber(subscribers, client, path) ==
  [p \in DOMAIN subscribers |->
     [c \in Clients(subscribers, p) \ (IF p = path THEN {client} ELSE {}) |->
        subscribers[p][c]]]

(***************************************************************************)
(* sendQueue with these marks: who is sent the message, and the marks it   *)
(* leaves.  The first loop clears the first mark it meets and serves those *)
(* behind it in the order of the map; a client it serves ends up marked    *)
(* unless it was marked already.  If there is nobody behind the mark, or   *)
(* no mark, the second loop serves and marks everybody.                    *)
(***************************************************************************)
sendQueue(marks) ==
  LET clients == DOMAIN marks
      marked == {c \in clients : marks[c]}
      Behind == IF marked = {} THEN {{}}
                ELSE {b \in SUBSET clients : \E c \in marked : b \cap marked = marked \ {c}}
  IN  {IF b = {} THEN [to |-> clients, marks |-> [c \in clients |-> TRUE]]
       ELSE [to |-> b, marks |-> [c \in clients |-> c \in b \ marked]] : b \in Behind}

\* The outcomes of sending a message for path to subscribers, by the type of
\* the message: CAST goes to all of them, anything else is queued.
Deliveries(subscribers, path, type) ==
  LET table == At(subscribers, path)
  IN  IF type = "CAST" THEN {[to |-> DOMAIN table[path], table |-> table]}
      ELSE {[to |-> o.to, table |-> [table EXCEPT ![path] = o.marks]] :
              o \in sendQueue(table[path])}

(***************************************************************************)
(* handleCmd on a request: a set with the reply, if there is one.  UNSUB   *)
(* is done without a word, READY calls onReady.                            *)
(***************************************************************************)
handleCmd(me, m) == IF m.cmd \in {"SUB", "SYN"} THEN {success(me, m)} ELSE {}
=============================================================================
