-------------------------- MODULE GoSubRaceProofs --------------------------
(***************************************************************************)
(* Proofs about GoSubRace for any number of connections.                   *)
(***************************************************************************)
EXTENDS GoSubRace, TLAPS

LEMMA InitTyped == Init => TypeOK
BY DEF Init, TypeOK, Label, Goroutine

LEMMA NextTyped == TypeOK /\ [Next]_vars => TypeOK'
<1> SUFFICES ASSUME TypeOK, [Next]_vars PROVE TypeOK'
  OBVIOUS
<1> USE NobodyAssumption DEF TypeOK, Label, Goto, Goroutine
<1>1. CASE UNCHANGED vars
  BY <1>1 DEF vars
<1>2. CASE Fatal
  BY <1>2 DEF Fatal
<1>3. ASSUME NEW c \in Client, Receive(c) PROVE TypeOK'
  BY <1>3 DEF Receive
<1>4. ASSUME NEW c \in Client, AddSubscriber(c) PROVE TypeOK'
  <2>1. CASE AddCheck(c) \/ Lookup(c, "addLookup", "addWrite")
    BY <2>1 DEF AddCheck, Lookup
  <2>2. CASE AddMake(c)
    BY <2>2 DEF AddMake, Unused
  <2>3. CASE AddWrite(c)
    BY <2>3 DEF AddWrite
  <2> QED BY <1>4, <2>1, <2>2, <2>3 DEF AddSubscriber
<1>5. ASSUME NEW c \in Client, DelSubscriber(c) PROVE TypeOK'
  <2>1. CASE DelCheck(c) \/ DelFind(c)
    BY <2>1 DEF DelCheck, DelFind
  <2>2. CASE \/ Lookup(c, "delFindLookup", "delFind")
             \/ Lookup(c, "delEraseLookup", "delErase")
             \/ Lookup(c, "delLenLookup", "delLen")
    BY <2>2 DEF Lookup
  <2>3. CASE DelErase(c)
    BY <2>3 DEF DelErase
  <2>4. CASE DelLen(c) \/ DelDrop(c)
    BY <2>4 DEF DelLen, DelDrop
  <2> QED BY <1>5, <2>1, <2>2, <2>3, <2>4 DEF DelSubscriber
<1>6. ASSUME NEW g \in Publisher, ReceiveQueued(g) \/ sendQueue(g) PROVE TypeOK'
  <2>1. CASE ReceiveQueued(g) \/ QueueCheck(g) \/ QueueEnd(g)
    BY <2>1 DEF ReceiveQueued, QueueCheck, QueueEnd
  <2>2. CASE \/ Lookup(g, "queueLenLookup", "queueLen")
             \/ Lookup(g, "queueMarkLookup", "queueMark")
    BY <2>2 DEF Lookup
  <2>3. CASE QueueLen(g) \/ QueueLoop(g)
    BY <2>3 DEF QueueLen, QueueLoop
  <2>4. CASE QueueTake(g)
    <3>1. PICK k \in Keys(over[g]) : hand' = [hand EXCEPT ![g] = k]
      BY <2>4 DEF QueueTake
    <3>2. k \in Client \cup Standing
      BY DEF Keys
    <3> QED BY <2>4, <3>1, <3>2 DEF QueueTake
  <2>5. CASE QueueMark(g)
    BY <2>5 DEF QueueMark
  <2> QED BY <1>6, <2>1, <2>2, <2>3, <2>4, <2>5 DEF sendQueue
<1>7. ASSUME NEW g \in Goroutine, Acknowledge(g) PROVE TypeOK'
  BY <1>7 DEF Acknowledge
<1> QED BY <1>1, <1>2, <1>3, <1>4, <1>5, <1>6, <1>7 DEF Next

\* Every variable keeps its type.
THEOREM TypeCorrect == Spec => []TypeOK
BY InitTyped, NextTyped, PTL DEF Spec

(***************************************************************************)
(* A deletion that has begun to look at the map sees the current one, or   *)
(* one that has been replaced by a map without its client, as long as no   *)
(* sendQueue puts the client back.                                         *)
(***************************************************************************)
Past == {"delLenLookup", "delLen", "delDrop", "deleted"}

Gone(c) == c \notin Members \/ c \in revived

DeleteInv ==
  \A c \in Client :
    /\ pc[c] \in Past => Gone(c)
    /\ pc[c] \in {"delFind", "delErase"} => at[c] = entry \/ Gone(c)

LEMMA DeleteStep == TypeOK /\ DeleteInv /\ [Next]_vars => DeleteInv'
<1> SUFFICES ASSUME TypeOK, DeleteInv, [Next]_vars, NEW c \in Client
             PROVE  /\ pc'[c] \in Past => Gone(c)'
                    /\ pc'[c] \in {"delFind", "delErase"} => at'[c] = entry' \/ Gone(c)'
  BY DEF DeleteInv
<1> USE NilMapAssumption DEF TypeOK, DeleteInv, Gone, Past, Members, Keys, Goto, Goroutine
<1>1. CASE UNCHANGED vars
  BY <1>1 DEF vars
<1>2. CASE Fatal
  BY <1>2 DEF Fatal
<1>3. ASSUME NEW d \in Client, Receive(d)
      PROVE  /\ pc'[c] \in Past => Gone(c)'
             /\ pc'[c] \in {"delFind", "delErase"} => at'[c] = entry' \/ Gone(c)'
  BY <1>3 DEF Receive
<1>4. ASSUME NEW d \in Client, AddSubscriber(d)
      PROVE  /\ pc'[c] \in Past => Gone(c)'
             /\ pc'[c] \in {"delFind", "delErase"} => at'[c] = entry' \/ Gone(c)'
  <2>1. CASE AddCheck(d) \/ Lookup(d, "addLookup", "addWrite")
    BY <2>1 DEF AddCheck, Lookup
  <2>2. CASE AddMake(d)
    BY <2>2 DEF AddMake, Unused
  <2>3. CASE AddWrite(d)
    BY <2>3 DEF AddWrite
  <2> QED BY <1>4, <2>1, <2>2, <2>3 DEF AddSubscriber
<1>5. ASSUME NEW d \in Client, DelSubscriber(d)
      PROVE  /\ pc'[c] \in Past => Gone(c)'
             /\ pc'[c] \in {"delFind", "delErase"} => at'[c] = entry' \/ Gone(c)'
  <2>1. CASE DelCheck(d) \/ DelFind(d)
    BY <2>1 DEF DelCheck, DelFind
  <2>2. CASE \/ Lookup(d, "delFindLookup", "delFind")
             \/ Lookup(d, "delEraseLookup", "delErase")
             \/ Lookup(d, "delLenLookup", "delLen")
    BY <2>2 DEF Lookup
  <2>3. CASE DelErase(d)
    BY <2>3 DEF DelErase
  <2>4. CASE DelLen(d) \/ DelDrop(d)
    BY <2>4 DEF DelLen, DelDrop
  <2> QED BY <1>5, <2>1, <2>2, <2>3, <2>4 DEF DelSubscriber
<1>6. ASSUME NEW g \in Publisher, ReceiveQueued(g) \/ sendQueue(g)
      PROVE  /\ pc'[c] \in Past => Gone(c)'
             /\ pc'[c] \in {"delFind", "delErase"} => at'[c] = entry' \/ Gone(c)'
  <2>1. CASE ReceiveQueued(g) \/ QueueCheck(g) \/ QueueEnd(g)
    BY <2>1 DEF ReceiveQueued, QueueCheck, QueueEnd
  <2>2. CASE \/ Lookup(g, "queueLenLookup", "queueLen")
             \/ Lookup(g, "queueMarkLookup", "queueMark")
    BY <2>2 DEF Lookup
  <2>3. CASE QueueLen(g) \/ QueueLoop(g)
    BY <2>3 DEF QueueLen, QueueLoop
  <2>4. CASE QueueTake(g)
    BY <2>4 DEF QueueTake
  <2>5. CASE QueueMark(g)
    BY <2>5 DEF QueueMark
  <2> QED BY <1>6, <2>1, <2>2, <2>3, <2>4, <2>5 DEF sendQueue
<1>7. ASSUME NEW g \in Goroutine, Acknowledge(g)
      PROVE  /\ pc'[c] \in Past => Gone(c)'
             /\ pc'[c] \in {"delFind", "delErase"} => at'[c] = entry' \/ Gone(c)'
  BY <1>7 DEF Acknowledge
<1> QED BY <1>1, <1>2, <1>3, <1>4, <1>5, <1>6, <1>7 DEF Next

\* Whatever races, an acknowledged UNSUB has taken effect unless a sendQueue
\* with the client in hand has entered it again.
THEOREM Unsubscribed == Spec => []AcknowledgedIsUnsubscribed
<1>1. Init => DeleteInv
  BY DEF Init, DeleteInv, Past, Goroutine
<1>2. DeleteInv => AcknowledgedIsUnsubscribed
  BY DEF DeleteInv, AcknowledgedIsUnsubscribed, Gone, Past
<1> QED BY <1>1, <1>2, DeleteStep, TypeCorrect, PTL DEF Spec

(***************************************************************************)
(* With a standing subscriber the inner map is never replaced, so that     *)
(* every look-up stays current.                                            *)
(***************************************************************************)
StandingInv ==
  /\ entry \in Map /\ Standing \subseteq inner[entry]
  /\ \A g \in Goroutine :
       /\ pc[g] \notin {"addMake", "delDrop"}
       /\ pc[g] \in {"addWrite", "delFind", "delErase", "delLen",
                    "queueLen", "queueMark"} => at[g] = entry
  /\ \A g \in Publisher :
       /\ pc[g] \in {"queueRange", "queueMarkLookup", "queueMark"} => over[g] = entry
       /\ pc[g] \notin {"queueMarkLookup", "queueMark"} => hand[g] = Nobody
  /\ NoPanic

LEMMA StandingStep ==
  ASSUME Standing # {}, TypeOK, StandingInv, [Next]_vars
  PROVE  StandingInv'
<1> USE NilMapAssumption, StandingAssumption
    DEF TypeOK, StandingInv, NoPanic, Keys, Goto, Goroutine
<1>1. CASE UNCHANGED vars
  BY <1>1 DEF vars
<1>2. CASE Fatal
  BY <1>2 DEF Fatal
<1>3. ASSUME NEW d \in Client, Receive(d) PROVE StandingInv'
  BY <1>3 DEF Receive
<1>4. ASSUME NEW d \in Client, AddSubscriber(d) PROVE StandingInv'
  <2>1. CASE AddCheck(d) \/ Lookup(d, "addLookup", "addWrite")
    BY <2>1 DEF AddCheck, Lookup
  <2>2. CASE AddMake(d)
    BY <2>2 DEF AddMake
  <2>3. CASE AddWrite(d)
    BY <2>3 DEF AddWrite
  <2> QED BY <1>4, <2>1, <2>2, <2>3 DEF AddSubscriber
<1>5. ASSUME NEW d \in Client, DelSubscriber(d) PROVE StandingInv'
  <2>1. CASE DelCheck(d) \/ DelFind(d)
    BY <2>1 DEF DelCheck, DelFind
  <2>2. CASE \/ Lookup(d, "delFindLookup", "delFind")
             \/ Lookup(d, "delEraseLookup", "delErase")
             \/ Lookup(d, "delLenLookup", "delLen")
    BY <2>2 DEF Lookup
  <2>3. CASE DelErase(d)
    BY <2>3 DEF DelErase
  <2>4. CASE DelLen(d) \/ DelDrop(d)
    BY <2>4 DEF DelLen, DelDrop
  <2> QED BY <1>5, <2>1, <2>2, <2>3, <2>4 DEF DelSubscriber
<1>6. ASSUME NEW g \in Publisher, ReceiveQueued(g) \/ sendQueue(g) PROVE StandingInv'
  <2>1. CASE ReceiveQueued(g) \/ QueueCheck(g) \/ QueueEnd(g)
    BY <2>1 DEF ReceiveQueued, QueueCheck, QueueEnd
  <2>2. CASE \/ Lookup(g, "queueLenLookup", "queueLen")
             \/ Lookup(g, "queueMarkLookup", "queueMark")
    BY <2>2 DEF Lookup
  <2>3. CASE QueueLen(g) \/ QueueLoop(g)
    BY <2>3 DEF QueueLen, QueueLoop
  <2>4. CASE QueueTake(g)
    BY <2>4 DEF QueueTake
  <2>5. CASE QueueMark(g)
    <3>1. at[g] = entry /\ entry \in Map /\ entry # NilMap
      BY <2>5 DEF QueueMark
    <3>2. /\ entry' = entry /\ over' = over /\ status' = status
          /\ inner' = [inner EXCEPT ![entry] = @ \cup {hand[g]}]
          /\ hand' = [hand EXCEPT ![g] = Nobody] /\ at' = [at EXCEPT ![g] = NilMap]
          /\ pc' = [pc EXCEPT ![g] = "queueRange"]
      BY <2>5, <3>1 DEF QueueMark
    <3>3. over[g] = entry
      BY <2>5 DEF QueueMark
    <3> QED BY <3>1, <3>2, <3>3
  <2> QED BY <1>6, <2>1, <2>2, <2>3, <2>4, <2>5 DEF sendQueue
<1>7. ASSUME NEW g \in Goroutine, Acknowledge(g) PROVE StandingInv'
  BY <1>7 DEF Acknowledge
<1> QED BY <1>1, <1>2, <1>3, <1>4, <1>5, <1>6, <1>7 DEF Next

LEMMA StandingInit == Standing # {} /\ Init => StandingInv
BY DEF Init, StandingInv, NoPanic, Goroutine

\* With a standing subscriber the path never leaves the map.
THEOREM StandingInvariance ==
  ASSUME Standing # {}
  PROVE  Spec => []StandingInv
BY StandingInit, StandingStep, TypeCorrect, PTL DEF Spec

\* No assignment to an entry of a nil map.
THEOREM Panicless ==
  ASSUME Standing # {}
  PROVE  Spec => []NoPanic
<1>1. StandingInv => NoPanic
  BY DEF StandingInv
<1> QED BY <1>1, StandingInvariance, PTL

(***************************************************************************)
(* With a standing subscriber the calls are atomic.  Each step of the      *)
(* program is a step of SubTable or changes nothing SubTable sees.         *)
(***************************************************************************)
Unseen == UNCHANGED <<Members, doing, done, hand>>

LEMMA TableInit == Standing # {} /\ Init => Table!Init
<1> SUFFICES ASSUME Standing # {}, Init PROVE Table!Init
  OBVIOUS
<1>1. Members = Standing
  BY NilMapAssumption DEF Init, Members, Keys
<1>2. doing = [c \in Client |-> "none"]
  BY DEF Init, doing, Goroutine
<1>3. done = {}
  BY DEF Init, done, Goroutine
<1>4. hand = [g \in Publisher |-> Nobody]
  BY DEF Init
<1> QED BY <1>1, <1>2, <1>3, <1>4 DEF Table!Init

LEMMA TableStep ==
  ASSUME Standing # {}, TypeOK, StandingInv, DeleteInv, [Next]_vars
  PROVE  Table!Next \/ Unseen
<1> USE DEF TypeOK, Goto, Goroutine
<1>0. Members = inner[entry] /\ entry # NilMap
  BY NilMapAssumption DEF Members, Keys, StandingInv
<1>1. CASE UNCHANGED vars
  BY <1>1 DEF vars, Unseen, Members, Keys, doing, done
<1>2. CASE Fatal
  BY <1>2 DEF Fatal, Unseen, Members, Keys, doing, done
<1>3. ASSUME NEW c \in Client, Receive(c) PROVE Table!Next
  <2>1. pc[c] = "idle" /\ Members' = Members /\ hand' = hand
    BY <1>3 DEF Receive, Members, Keys
  <2>2. PICK op \in {"add", "del"} :
          pc' = [pc EXCEPT ![c] = IF op = "add" THEN "addCheck" ELSE "delCheck"]
    BY <1>3 DEF Receive
  <2>3. doing[c] = "none" /\ doing' = [doing EXCEPT ![c] = op]
    BY <2>1, <2>2 DEF doing
  <2>4. done' = done
    BY <2>1, <2>2 DEF done
  <2>5. Table!Start(c, op)
    BY <2>1, <2>3, <2>4 DEF Table!Start
  <2> QED BY <2>5 DEF Table!Next
<1>4. ASSUME NEW g \in Goroutine, Acknowledge(g) PROVE Table!Next \/ Unseen
  <2>1. /\ pc[g] \in {"added", "deleted", "queued"} /\ pc' = [pc EXCEPT ![g] = "idle"]
        /\ Members' = Members /\ hand' = hand
    BY <1>4 DEF Acknowledge, Members, Keys
  <2>2. CASE g \in Client /\ pc[g] # "queued"
    <3>1. doing[g] # "none" /\ doing' = [doing EXCEPT ![g] = "none"]
      BY <2>1, <2>2 DEF doing
    <3>2. g \in done /\ done' = done \ {g}
      BY <2>1, <2>2 DEF done
    <3>3. Table!Return(g)
      BY <2>1, <3>1, <3>2 DEF Table!Return
    <3> QED BY <2>2, <3>3 DEF Table!Next
  <2>3. CASE g \notin Client \/ pc[g] = "queued"
    BY <2>1, <2>3 DEF Unseen, doing, done
  <2> QED BY <2>2, <2>3
<1>5. ASSUME NEW c \in Client, AddSubscriber(c) PROVE Table!Next \/ Unseen
  <2>1. CASE AddCheck(c)
    BY <1>0, <2>1 DEF AddCheck, Unseen, Members, Keys, doing, done
  <2>2. CASE Lookup(c, "addLookup", "addWrite")
    BY <2>2 DEF Lookup, Unseen, Members, Keys, doing, done
  <2>3. CASE AddMake(c)
    BY <2>3 DEF AddMake, StandingInv
  <2>4. CASE AddWrite(c)
    <3>1. at[c] = entry
      BY <2>4 DEF AddWrite, StandingInv
    <3>2. /\ inner' = [inner EXCEPT ![entry] = @ \cup {c}]
          /\ pc' = [pc EXCEPT ![c] = "added"] /\ pc[c] = "addWrite"
          /\ entry' = entry /\ hand' = hand
      BY <1>0, <2>4, <3>1 DEF AddWrite
    <3>3. Members' = Members \cup {c}
      BY <1>0, <3>2 DEF Members, Keys, StandingInv
    <3>4. doing' = doing /\ doing[c] = "add"
      BY <3>2 DEF doing
    <3>5. c \notin done /\ done' = done \cup {c}
      BY <3>2 DEF done
    <3>6. Table!Take(c)
      BY <3>2, <3>3, <3>4, <3>5 DEF Table!Take
    <3> QED BY <3>6 DEF Table!Next
  <2> QED BY <1>5, <2>1, <2>2, <2>3, <2>4 DEF AddSubscriber
<1>6. ASSUME NEW c \in Client, DelSubscriber(c) PROVE Table!Next \/ Unseen
  <2>0. ASSUME pc[c] \in {"delFind", "delErase"}, pc' = [pc EXCEPT ![c] = "delLenLookup"],
               Members' = Members \ {c}, hand' = hand
        PROVE  Table!Next
    <3>1. doing' = doing /\ doing[c] = "del"
      BY <2>0 DEF doing
    <3>2. c \notin done /\ done' = done \cup {c}
      BY <2>0 DEF done
    <3>3. Table!Take(c)
      BY <2>0, <3>1, <3>2 DEF Table!Take
    <3> QED BY <3>3 DEF Table!Next
  <2>1. CASE DelCheck(c)
    BY <1>0, <2>1 DEF DelCheck, Unseen, Members, Keys, doing, done
  <2>2. CASE \/ Lookup(c, "delFindLookup", "delFind")
             \/ Lookup(c, "delEraseLookup", "delErase")
             \/ Lookup(c, "delLenLookup", "delLen")
    BY <2>2 DEF Lookup, Unseen, Members, Keys, doing, done
  <2>3. CASE DelFind(c)
    <3>1. at[c] = entry /\ Keys(at[c]) = Members
      BY <2>3 DEF DelFind, StandingInv, Members
    <3>2. CASE c \in Members
      BY <2>3, <3>1, <3>2 DEF DelFind, Unseen, Members, Keys, doing, done
    <3>3. CASE c \notin Members
      <4>1. pc' = [pc EXCEPT ![c] = "delLenLookup"] /\ pc[c] = "delFind"
        BY <2>3, <3>1, <3>3 DEF DelFind
      <4>2. Members' = Members \ {c} /\ hand' = hand
        BY <2>3, <3>3 DEF DelFind, Members, Keys
      <4> QED BY <2>0, <4>1, <4>2
    <3> QED BY <3>2, <3>3
  <2>4. CASE DelErase(c)
    <3>1. at[c] = entry
      BY <2>4 DEF DelErase, StandingInv
    <3>2. Members' = Members \ {c} /\ hand' = hand
      BY <1>0, <2>4, <3>1 DEF DelErase, Members, Keys, StandingInv
    <3>3. pc' = [pc EXCEPT ![c] = "delLenLookup"] /\ pc[c] = "delErase"
      BY <2>4 DEF DelErase
    <3> QED BY <2>0, <3>2, <3>3
  <2>5. CASE DelLen(c)
    <3>1. Keys(at[c]) # {}
      BY <1>0, <2>5 DEF DelLen, StandingInv, Members
    <3> QED BY <2>5, <3>1 DEF DelLen, Unseen, Members, Keys, doing, done
  <2>6. CASE DelDrop(c)
    BY <2>6 DEF DelDrop, StandingInv
  <2> QED BY <1>6, <2>1, <2>2, <2>3, <2>4, <2>5, <2>6 DEF DelSubscriber
<1>7. ASSUME NEW g \in Publisher, ReceiveQueued(g) PROVE Unseen
  BY <1>7 DEF ReceiveQueued, Unseen, Members, Keys, doing, done
<1>8. ASSUME NEW g \in Publisher, sendQueue(g) PROVE Table!Next \/ Unseen
  <2>1. CASE QueueCheck(g) \/ QueueLoop(g) \/ QueueEnd(g)
    BY <2>1 DEF QueueCheck, QueueLoop, QueueEnd, Unseen, Members, Keys, doing, done
  <2>2. CASE \/ Lookup(g, "queueLenLookup", "queueLen")
             \/ Lookup(g, "queueMarkLookup", "queueMark") \/ QueueLen(g)
    BY <2>2 DEF Lookup, QueueLen, Unseen, Members, Keys, doing, done
  <2>3. CASE QueueTake(g)
    <3>1. Keys(over[g]) = Members /\ hand[g] = Nobody
      BY <2>3 DEF QueueTake, StandingInv, Members
    <3>2. Members' = Members /\ doing' = doing /\ done' = done
      BY <2>3 DEF QueueTake, Members, Keys, doing, done
    <3>3. Table!Serve(g)
      BY <2>3, <3>1, <3>2 DEF QueueTake, Table!Serve
    <3> QED BY <3>3 DEF Table!Next
  <2>4. CASE QueueMark(g)
    <3>1. at[g] = entry /\ hand[g] # Nobody
      BY <2>4 DEF QueueMark, StandingInv
    <3>2. /\ inner' = [inner EXCEPT ![entry] = @ \cup {hand[g]}] /\ entry' = entry
          /\ hand' = [hand EXCEPT ![g] = Nobody]
          /\ pc[g] = "queueMark" /\ pc' = [pc EXCEPT ![g] = "queueRange"]
      BY <1>0, <2>4, <3>1 DEF QueueMark
    <3>3. Members' = Members \cup {hand[g]}
      BY <1>0, <3>2 DEF Members, Keys, StandingInv
    <3>4. doing' = doing /\ done' = done
      BY <3>2 DEF doing, done
    <3>5. Table!Mark(g)
      BY <3>1, <3>2, <3>3, <3>4 DEF Table!Mark
    <3> QED BY <3>5 DEF Table!Next
  <2> QED BY <1>8, <2>1, <2>2, <2>3, <2>4 DEF sendQueue
<1> QED BY <1>1, <1>2, <1>3, <1>4, <1>5, <1>6, <1>7, <1>8 DEF Next

\* For a path that keeps a subscriber AddSubscriber and DelSubscriber may be
\* taken as single steps, as GoNet does; a sendQueue beside them enters the
\* client it has in hand and changes nothing else.
THEOREM AtomicWithStanding ==
  ASSUME Standing # {}
  PROVE  Spec => ImplementsTable
<1>1. TypeOK /\ StandingInv /\ DeleteInv /\ [Next]_vars
        => [Table!Next]_(Table!vars)
  BY TableStep DEF Unseen, Table!vars
<1>2. Init => DeleteInv
  BY DEF Init, DeleteInv, Past, Goroutine
<1> QED BY <1>1, <1>2, TableInit, DeleteStep, StandingInvariance, TypeCorrect, PTL
        DEF Spec, ImplementsTable, Table!Spec
=============================================================================
