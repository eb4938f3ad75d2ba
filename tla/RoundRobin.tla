----------------------------- MODULE RoundRobin -----------------------------
(***************************************************************************)
(* What sendQueue, AddSubscriber and DelSubscriber promise for one path:   *)
(* each call is one step, and a queued message has one of the outcomes of  *)
(* GoImq!sendQueue, which is what GoNet builds on.  If the table changes   *)
(* during a call of sendQueue, the call is torn: until it ends the marks   *)
(* are anything, and whoever is marked afterwards was served.              *)
(***************************************************************************)
EXTENDS GoImq

CONSTANTS Topic

VARIABLES
  table,   \* the subscriber table
  served,  \* whom the last queued message went to
  torn     \* a call of sendQueue is under way that somebody cut into

vars == <<table, served, torn>>

Init ==
  /\ table = << >>
  /\ served = {}
  /\ torn = FALSE

\* The table with any marks.
Remarked ==
  IF Topic \in DOMAIN table
  THEN {[table EXCEPT ![Topic] = marks] : marks \in [Subscribers(table, Topic) -> BOOLEAN]}
  ELSE {table}

Queue ==
  /\ ~torn /\ Subscribers(table, Topic) # {}
  /\ \E o \in QueueOutcomes(table, Topic) : table' = o.table /\ served' = o.to
  /\ UNCHANGED torn

\* t with one client more or less.
Change(t) ==
  \E c \in Name : \/ table' = AddSubscriber(t, c, Topic)
                 \/ table' = DelSubscriber(t, c, Topic)

Subscribe ==
  /\ Change(table)
  /\ UNCHANGED <<served, torn>>

\* A call has begun to move marks when somebody cuts into it.
CutInto ==
  /\ ~torn /\ Subscribers(table, Topic) # {}
  /\ \E t \in Remarked : Change(t)
  /\ torn' = TRUE
  /\ UNCHANGED served

GoOn ==
  /\ torn
  /\ table' \in Remarked
  /\ UNCHANGED <<served, torn>>

Return ==
  /\ torn
  /\ \E to \in SUBSET Name :
       /\ table' \in {t \in Remarked : \A c \in Subscribers(t, Topic) : t[Topic][c] => c \in to}
       /\ served' = to
  /\ torn' = FALSE

Next == Queue \/ Subscribe \/ CutInto \/ GoOn \/ Return

Spec == Init /\ [][Next]_vars
=============================================================================
