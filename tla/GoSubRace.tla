----------------------------- MODULE GoSubRace -----------------------------
(***************************************************************************)
(* The writers of the subscriber table of go/indisMQ.go on one path:       *)
(* AddSubscriber, DelSubscriber and the sendQueue of the broker, called by *)
(* the goroutines of several connections (testServer.go's receive) with    *)
(* no lock between them: subLock is commented out.  Every access to a Go   *)
(* map is a step.  GoNet takes each call as one step; this module says     *)
(* when that is right.  The marks of sendQueue are left out: it may serve  *)
(* or reset any client it comes across (which ones it does is GoQueue's    *)
(* subject) and its two loops are one.                                     *)
(***************************************************************************)
EXTENDS Naturals, FiniteSets

CONSTANTS
  Client,     \* the connections that send SUB and UNSUB, by their clients' names
  Publisher,  \* the connections that send to the queue of the path
  Standing,   \* the clients that subscribed earlier and stay
  Map,        \* the inner maps that may be alive at a time
  NilMap,     \* the value of an absent entry
  Nobody      \* no client

ASSUME NilMapAssumption == NilMap \notin Map

ASSUME EnoughMaps ==
  /\ IsFiniteSet(Client) /\ IsFiniteSet(Publisher) /\ IsFiniteSet(Map)
  /\ Cardinality(Map) >= Cardinality(Client) + 2 * Cardinality(Publisher) + 1

ASSUME NobodyAssumption == Nobody \notin Client \cup Standing

ASSUME StandingAssumption == Client \cap Standing = {}

VARIABLES
  entry,    \* subscribers[path]: an inner map or NilMap
  inner,    \* the keys of each inner map
  pc, at,   \* of each goroutine: its next step, the inner map it looked up
  over,     \* of each publisher: the inner map its sendQueue ranges over,
  hand,     \*   and the client it serves or resets
  status,   \* of the process: "running", "panic" or "fatal"
  revived   \* history: the clients that sendQueue has put into a map they were
            \* not in, since their own last call began

vars == <<entry, inner, pc, at, over, hand, status, revived>>

Goroutine == Client \cup Publisher

Init ==
  /\ \E m \in Map :
       /\ entry = IF Standing = {} THEN NilMap ELSE m
       /\ inner = [x \in Map |-> IF x = m THEN Standing ELSE {}]
  /\ pc = [g \in Goroutine |-> "idle"]
  /\ at = [g \in Goroutine |-> NilMap]
  /\ over = [g \in Publisher |-> NilMap]
  /\ hand = [g \in Publisher |-> Nobody]
  /\ status = "running"
  /\ revived = {}

\* What reading the keys of a possibly nil map gives.
Keys(m) == IF m = NilMap THEN {} ELSE inner[m]

Unused ==
  Map \ ({entry} \cup {at[g] : g \in Goroutine} \cup {over[g] : g \in Publisher})

Goto(c, label) == pc' = [pc EXCEPT ![c] = label]

\* A step of g at one label that reads subscribers[path].
Lookup(g, from, to) ==
  /\ pc[g] = from
  /\ at' = [at EXCEPT ![g] = entry]
  /\ Goto(g, to)
  /\ UNCHANGED <<entry, inner, over, hand, status, revived>>

Receive(c) ==
  /\ pc[c] = "idle"
  /\ Goto(c, "addCheck") \/ Goto(c, "delCheck")
  /\ revived' = revived \ {c}
  /\ UNCHANGED <<entry, inner, at, over, hand, status>>

ReceiveQueued(g) ==
  /\ pc[g] = "idle"
  /\ Goto(g, "queueCheck")
  /\ UNCHANGED <<entry, inner, at, over, hand, status, revived>>

(***************************************************************************)
(* AddSubscriber.                                                          *)
(***************************************************************************)
\* Faulty variant: every subscription makes a new inner map.
AddCheckMakes(c) ==
  /\ pc[c] = "addCheck"
  /\ Goto(c, "addMake")
  /\ UNCHANGED <<entry, inner, at, over, hand, status, revived>>

AddCheck(c) ==
  /\ pc[c] = "addCheck"
  /\ Goto(c, IF entry = NilMap THEN "addMake" ELSE "addLookup")
  /\ UNCHANGED <<entry, inner, at, over, hand, status, revived>>

AddMake(c) ==
  /\ pc[c] = "addMake"
  /\ \E m \in Unused :
       /\ entry' = m
       /\ inner' = [inner EXCEPT ![m] = {}]
  /\ Goto(c, "addLookup")
  /\ UNCHANGED <<at, over, hand, status, revived>>

AddWrite(c) ==
  /\ pc[c] = "addWrite"
  /\ \/ /\ at[c] = NilMap
        /\ status' = "panic"
        /\ UNCHANGED <<inner, pc>>
     \/ /\ at[c] # NilMap
        /\ inner' = [inner EXCEPT ![at[c]] = @ \cup {c}]
        /\ Goto(c, "added")
        /\ UNCHANGED status
  /\ at' = [at EXCEPT ![c] = NilMap]
  /\ UNCHANGED <<entry, over, hand, revived>>

(***************************************************************************)
(* DelSubscriber.                                                          *)
(***************************************************************************)
DelCheck(c) ==
  /\ pc[c] = "delCheck"
  /\ Goto(c, IF entry = NilMap THEN "deleted" ELSE "delFindLookup")
  /\ UNCHANGED <<entry, inner, at, over, hand, status, revived>>

\* Faulty variant: the client is not looked for.
DelFindSkips(c) ==
  /\ pc[c] = "delFind"
  /\ Goto(c, "delLenLookup")
  /\ UNCHANGED <<entry, inner, at, over, hand, status, revived>>

DelFind(c) ==
  /\ pc[c] = "delFind"
  /\ Goto(c, IF c \in Keys(at[c]) THEN "delEraseLookup" ELSE "delLenLookup")
  /\ UNCHANGED <<entry, inner, at, over, hand, status, revived>>

DelErase(c) ==
  /\ pc[c] = "delErase"
  /\ inner' = [m \in Map |-> IF m = at[c] THEN inner[m] \ {c} ELSE inner[m]]
  /\ Goto(c, "delLenLookup")
  /\ UNCHANGED <<entry, at, over, hand, status, revived>>

\* Faulty variant: the path goes whoever is left.
DelLenDrops(c) ==
  /\ pc[c] = "delLen"
  /\ Goto(c, "delDrop")
  /\ at' = [at EXCEPT ![c] = NilMap]
  /\ UNCHANGED <<entry, inner, over, hand, status, revived>>

DelLen(c) ==
  /\ pc[c] = "delLen"
  /\ Goto(c, IF Keys(at[c]) = {} THEN "delDrop" ELSE "deleted")
  /\ at' = [at EXCEPT ![c] = NilMap]
  /\ UNCHANGED <<entry, inner, over, hand, status, revived>>

DelDrop(c) ==
  /\ pc[c] = "delDrop"
  /\ entry' = NilMap
  /\ Goto(c, "deleted")
  /\ UNCHANGED <<inner, at, over, hand, status, revived>>

(***************************************************************************)
(* sendQueue.  A handler call, at the end of which the message has been    *)
(* written to the client's connection, lies between the step that takes a  *)
(* client in hand and the one that writes its mark.                        *)
(***************************************************************************)
QueueCheck(g) ==
  /\ pc[g] = "queueCheck"
  /\ Goto(g, IF entry = NilMap THEN "queued" ELSE "queueLenLookup")
  /\ UNCHANGED <<entry, inner, at, over, hand, status, revived>>

QueueLen(g) ==
  /\ pc[g] = "queueLen"
  /\ Goto(g, IF Keys(at[g]) = {} THEN "queued" ELSE "queueLoop")
  /\ at' = [at EXCEPT ![g] = NilMap]
  /\ UNCHANGED <<entry, inner, over, hand, status, revived>>

QueueLoop(g) ==
  /\ pc[g] = "queueLoop"
  /\ over' = [over EXCEPT ![g] = entry]
  /\ Goto(g, "queueRange")
  /\ UNCHANGED <<entry, inner, at, hand, status, revived>>

QueueTake(g) ==
  /\ pc[g] = "queueRange"
  /\ \E k \in Keys(over[g]) : hand' = [hand EXCEPT ![g] = k]
  /\ Goto(g, "queueMarkLookup")
  /\ UNCHANGED <<entry, inner, at, over, status, revived>>

\* The loop ends: the second one begins, or the call returns.
QueueEnd(g) ==
  /\ pc[g] = "queueRange"
  /\ Goto(g, "queueLoop") \/ Goto(g, "queued")
  /\ over' = [over EXCEPT ![g] = NilMap]
  /\ UNCHANGED <<entry, inner, at, hand, status, revived>>

QueueMark(g) ==
  /\ pc[g] = "queueMark"
  /\ \/ /\ at[g] = NilMap
        /\ status' = "panic"
        /\ UNCHANGED <<inner, pc, hand, revived>>
     \/ /\ at[g] # NilMap
        /\ inner' = [inner EXCEPT ![at[g]] = @ \cup {hand[g]}]
        /\ revived' = IF hand[g] \in inner[at[g]] THEN revived
                                                 ELSE revived \cup {hand[g]}
        /\ hand' = [hand EXCEPT ![g] = Nobody]
        /\ Goto(g, "queueRange")
        /\ UNCHANGED status
  /\ at' = [at EXCEPT ![g] = NilMap]
  /\ UNCHANGED <<entry, over>>

\* The Success goes out and the connection is read again.
Acknowledge(g) ==
  /\ pc[g] \in {"added", "deleted", "queued"}
  /\ Goto(g, "idle")
  /\ UNCHANGED <<entry, inner, at, over, hand, status, revived>>

(***************************************************************************)
(* The Go runtime may notice that two goroutines access the same map and   *)
(* one of them writes; it then ends the process.                           *)
(***************************************************************************)
ReadsEntry == {"addCheck", "addLookup", "delCheck", "delFindLookup",
               "delEraseLookup", "delLenLookup", "queueCheck",
               "queueLenLookup", "queueLoop", "queueMarkLookup"}
WritesEntry == {"addMake", "delDrop"}
ReadsInner == {"delFind", "delLen", "queueLen", "queueRange"}
WritesInner == {"addWrite", "delErase", "queueMark"}

\* The inner map that g accesses next.
Accessed(g) == IF pc[g] = "queueRange" THEN over[g] ELSE at[g]

Racing(g, h) ==
  \/ pc[g] \in WritesEntry /\ pc[h] \in ReadsEntry \cup WritesEntry
  \/ /\ pc[g] \in WritesInner /\ pc[h] \in ReadsInner \cup WritesInner
     /\ Accessed(g) = Accessed(h) /\ Accessed(g) # NilMap

Fatal ==
  /\ \E g, h \in Goroutine : g # h /\ Racing(g, h)
  /\ status' = "fatal"
  /\ UNCHANGED <<entry, inner, pc, at, over, hand, revived>>

AddSubscriber(c) ==
  AddCheck(c) \/ AddMake(c) \/ Lookup(c, "addLookup", "addWrite") \/ AddWrite(c)

DelSubscriber(c) ==
  \/ DelCheck(c)
  \/ Lookup(c, "delFindLookup", "delFind") \/ DelFind(c)
  \/ Lookup(c, "delEraseLookup", "delErase") \/ DelErase(c)
  \/ Lookup(c, "delLenLookup", "delLen") \/ DelLen(c) \/ DelDrop(c)

sendQueue(g) ==
  \/ QueueCheck(g)
  \/ Lookup(g, "queueLenLookup", "queueLen") \/ QueueLen(g)
  \/ QueueLoop(g) \/ QueueTake(g) \/ QueueEnd(g)
  \/ Lookup(g, "queueMarkLookup", "queueMark") \/ QueueMark(g)

Next ==
  /\ status = "running"
  /\ \/ \E c \in Client : Receive(c) \/ AddSubscriber(c) \/ DelSubscriber(c)
     \/ \E g \in Publisher : ReceiveQueued(g) \/ sendQueue(g)
     \/ \E g \in Goroutine : Acknowledge(g)
     \/ Fatal

Spec == Init /\ [][Next]_vars

(***************************************************************************)
(* Properties.                                                             *)
(***************************************************************************)
Label ==
  {"idle", "addCheck", "addMake", "addLookup", "addWrite", "added",
   "delCheck", "delFindLookup", "delFind", "delEraseLookup", "delErase",
   "delLenLookup", "delLen", "delDrop", "deleted",
   "queueCheck", "queueLenLookup", "queueLen", "queueLoop", "queueRange",
   "queueMarkLookup", "queueMark", "queued"}

TypeOK ==
  /\ entry \in Map \cup {NilMap}
  /\ inner \in [Map -> SUBSET (Client \cup Standing)]
  /\ pc \in [Goroutine -> Label]
  /\ at \in [Goroutine -> Map \cup {NilMap}]
  /\ over \in [Publisher -> Map \cup {NilMap}]
  /\ hand \in [Publisher -> Client \cup Standing \cup {Nobody}]
  /\ \A g \in Publisher :
       pc[g] \in {"queueMarkLookup", "queueMark"} => hand[g] # Nobody
  /\ status \in {"running", "panic", "fatal"}
  /\ revived \subseteq Client \cup Standing

Members == Keys(entry)

\* The process is not ended by an assignment to an entry of a nil map: no
\* DelSubscriber drops the path between the check of an AddSubscriber or a
\* sendQueue and its use.
NoPanic == status # "panic"

\* When the Success for a SUB goes out the client is subscribed.
AcknowledgedIsSubscribed ==
  status = "running" => \A c \in Client : pc[c] = "added" => c \in Members

\* When the Success for an UNSUB goes out the client is not subscribed, unless
\* a sendQueue that had it in hand wrote its mark since the UNSUB began.  No
\* race of AddSubscribers and DelSubscribers undoes an UNSUB.
AcknowledgedIsUnsubscribed ==
  status = "running" =>
    \A c \in Client : pc[c] = "deleted" => c \notin Members \/ c \in revived

\* AddSubscriber and DelSubscriber are atomic as seen by everybody, until the
\* process ends, and the only other thing that happens to the table is that
\* sendQueue enters the client it has in hand.
doing == [c \in Client |->
  CASE pc[c] \in {"addCheck", "addMake", "addLookup", "addWrite", "added"} -> "add"
    [] pc[c] \in {"delCheck", "delFindLookup", "delFind", "delEraseLookup",
                  "delErase", "delLenLookup", "delLen", "delDrop", "deleted"} -> "del"
    [] OTHER -> "none"]

done == {c \in Client :
  pc[c] \in {"added", "delLenLookup", "delLen", "delDrop", "deleted"}}

Table == INSTANCE SubTable WITH members <- Members

ImplementsTable == Table!Spec
=============================================================================
