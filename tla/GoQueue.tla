------------------------------ MODULE GoQueue ------------------------------
(***************************************************************************)
(* The round-robin of go/indisMQ.go over the subscribers of one path:      *)
(* repeated calls of sendQueue, and the AddSubscribers and DelSubscribers  *)
(* of other goroutines between the calls and between the iterations of     *)
(* their loops.  The loops are modelled as they stand, each with its own   *)
(* order of the Go map, an iteration a step; what comes between the        *)
(* accesses of one iteration is GoSubRace's.  GoImq!sendQueue is the       *)
(* closed form of a call that nobody cuts into.                            *)
(***************************************************************************)
EXTENDS GoImq, SequencesExt

CONSTANTS
  Topic,   \* the path
  MaxCuts  \* bound on the changes of the table during one call

ASSUME TopicAssumption == Topic \in Path

VARIABLES
  subscribers,  \* the table, as in GoNet
  pc,           \* "idle", or the loop of sendQueue that runs; "gone" is the
                \* first loop over a map that has left the table
  todo,         \* the clients the first loop has still to visit
  takeNext,
  delivered,    \* whom the handler was called for since the call, in order
  start,        \* history: the table and the clients served before the call,
  cuts,         \*   the changes of the table during the call,
  stayed        \*   the clients that are subscribed since it began

vars == <<subscribers, pc, todo, takeNext, delivered, start, cuts, stayed>>

Members == Subscribers(subscribers, Topic)

Init ==
  /\ subscribers = << >>
  /\ pc = "idle" /\ todo = {} /\ takeNext = FALSE
  /\ delivered = << >>
  /\ start = [table |-> << >>, served |-> {}]
  /\ cuts = 0 /\ stayed = {}

(***************************************************************************)
(* The first loop.  Visit is its body: the mark it tests is the one read   *)
(* when the loop came to the client.                                       *)
(***************************************************************************)
Served(st, k) ==
  IF st.takeNext THEN [st EXCEPT !.to = Append(@, k), !.marks[k] = TRUE] ELSE st

\* Faulty variants: the mark is not taken away; one client ends the round.
VisitSticky(st, k) ==
  IF st.marks[k] THEN [Served(st, k) EXCEPT !.takeNext = TRUE] ELSE Served(st, k)

VisitOne(st, k) ==
  IF st.marks[k] THEN [Served(st, k) EXCEPT !.takeNext = TRUE, !.marks[k] = FALSE]
  ELSE [Served(st, k) EXCEPT !.takeNext = FALSE]

Visit(st, k) ==
  IF st.marks[k] THEN [Served(st, k) EXCEPT !.takeNext = TRUE, !.marks[k] = FALSE]
  ELSE Served(st, k)

\* Faulty variant: takeNext is still what the last call left.
CallStale ==
  /\ pc = "idle" /\ Members # {}
  /\ pc' = "first" /\ todo' = Members
  /\ delivered' = << >>
  /\ start' = [table |-> subscribers, served |-> ToSet(delivered)]
  /\ cuts' = 0 /\ stayed' = Members
  /\ UNCHANGED <<subscribers, takeNext>>

Call ==
  /\ pc = "idle" /\ Members # {}
  /\ pc' = "first" /\ todo' = Members /\ takeNext' = FALSE
  /\ delivered' = << >>
  /\ start' = [table |-> subscribers, served |-> ToSet(delivered)]
  /\ cuts' = 0 /\ stayed' = Members
  /\ UNCHANGED subscribers

\* The loop comes to the clients in any order.
First(k) ==
  /\ pc = "first" /\ k \in todo
  /\ LET st == Visit([takeNext |-> takeNext, to |-> delivered, marks |-> subscribers[Topic]], k)
     IN  /\ takeNext' = st.takeNext
         /\ delivered' = st.to
         /\ subscribers' = [subscribers EXCEPT ![Topic] = st.marks]
  /\ todo' = todo \ {k}
  /\ UNCHANGED <<pc, start, cuts, stayed>>

\* Faulty variant: without the second loop.
EndOnce ==
  /\ pc \in {"first", "gone"} /\ todo = {}
  /\ pc' = "idle"
  /\ UNCHANGED <<subscribers, todo, takeNext, delivered, start, cuts, stayed>>

End ==
  /\ pc \in {"first", "gone"} /\ todo = {}
  /\ pc' = IF delivered # << >> THEN "idle" ELSE "second"
  /\ UNCHANGED <<subscribers, todo, takeNext, delivered, start, cuts, stayed>>

\* The second loop returns from the first client it comes to.
Second(k) ==
  /\ pc = "second" /\ k \in Members
  /\ delivered' = Append(delivered, k)
  /\ subscribers' = [subscribers EXCEPT ![Topic][k] = TRUE]
  /\ pc' = "idle"
  /\ UNCHANGED <<todo, takeNext, start, cuts, stayed>>

\* There is nobody left for the second loop.
SecondNobody ==
  /\ pc = "second" /\ Members = {}
  /\ pc' = "idle"
  /\ UNCHANGED <<subscribers, todo, takeNext, delivered, start, cuts, stayed>>

(***************************************************************************)
(* The other goroutines, between the calls or in the middle of one.        *)
(***************************************************************************)
Cut ==
  IF pc = "idle" THEN UNCHANGED cuts ELSE cuts < MaxCuts /\ cuts' = cuts + 1

\* Who subscribes again loses its mark.  A client that the map gets while the
\* first loop ranges over it may be visited or not.
Join(c) ==
  /\ Cut
  /\ subscribers' = AddSubscriber(subscribers, c, Topic)
  /\ \/ UNCHANGED todo
     \/ pc = "first" /\ c \notin Members /\ todo' = todo \cup {c}
  /\ UNCHANGED <<pc, takeNext, delivered, start, stayed>>

\* The loop does not come to a client that has gone; with the last one the
\* map it ranges over leaves the table.
Leave(c) ==
  /\ Cut
  /\ subscribers' = DelSubscriber(subscribers, c, Topic)
  /\ todo' = todo \ {c}
  /\ pc' = IF pc = "first" /\ Members \subseteq {c} THEN "gone" ELSE pc
  /\ stayed' = IF pc = "idle" THEN stayed ELSE stayed \ {c}
  /\ UNCHANGED <<takeNext, delivered, start>>

Next ==
  \/ Call \/ End \/ SecondNobody
  \/ \E c \in Name : First(c) \/ Second(c) \/ Join(c) \/ Leave(c)

Spec == Init /\ [][Next]_vars

(***************************************************************************)
(* Both loops at once, for given orders of the clients.                    *)
(***************************************************************************)
FirstLoop(marks, order) ==
  FoldLeft(Visit, [takeNext |-> FALSE, to |-> << >>, marks |-> marks], order)

Loops(marks, order, again) ==
  LET first == FirstLoop(marks, order)
  IN  IF first.to # << >> THEN [to |-> first.to, marks |-> first.marks]
      ELSE [to |-> <<Head(again)>>, marks |-> [first.marks EXCEPT ![Head(again)] = TRUE]]

(***************************************************************************)
(* Properties.                                                             *)
(***************************************************************************)

\* Over all orders the loops have the outcomes GoImq!sendQueue says, no
\* other and no fewer, and none of them calls the handler twice for a client.
ClosedForm ==
  pc = "idle" /\ Members # {} =>
    LET marks == subscribers[Topic]
        outcomes == {Loops(marks, order, again) : order, again \in SetToSeqs(Members)}
    IN  /\ {[to |-> ToSet(o.to), marks |-> o.marks] : o \in outcomes} = sendQueue(marks)
        /\ \A o \in outcomes : IsInjective(o.to)

\* The clients the last call found.
Present == Subscribers(start.table, Topic)

\* A queued message is not swallowed if somebody is subscribed throughout the
\* call, whoever else comes and goes meanwhile.  A call that nobody cuts into
\* serves exactly one of one or two subscribers and leaves somebody out of
\* more; that one alone is served is not so.
DeliveryBounds ==
  pc = "idle" =>
    /\ stayed # {} => delivered # << >>
    /\ cuts = 0 /\ Present # {} =>
         Len(delivered) \in 1 .. (IF Cardinality(Present) < 3 THEN 1
                                 ELSE Cardinality(Present) - 1)

\* The mark, wherever subscribers come and go, is with the last call's
\* receivers and nobody else.
MarkedWereServed ==
  pc = "idle" => \A c \in Members : subscribers[Topic][c] => c \in ToSet(delivered)

\* The table before the call, until it is over or somebody cuts into it.
torn == pc # "idle" /\ cuts > 0

Table == IF pc = "idle" \/ torn THEN subscribers ELSE start.table

LastServed == IF pc = "idle" THEN ToSet(delivered) ELSE start.served

Atomic == INSTANCE RoundRobin WITH table <- Table, served <- LastServed

\* The loops, step by step, have the effect of one step of RoundRobin; a call
\* that somebody cuts into does nothing but deliver and move marks.
ImplementsRoundRobin == Atomic!Spec

(***************************************************************************)
(* Why they hold: what the first loop has done so far depends on whom it   *)
(* visited and on the marks the call found.                                *)
(***************************************************************************)
IsMarks(marks) == marks \in [DOMAIN marks -> BOOLEAN] /\ DOMAIN marks \subseteq Name

IsTable(t) ==
  /\ t = [p \in DOMAIN t |-> t[p]]
  /\ \A p \in DOMAIN t : IsMarks(t[p]) /\ IsFiniteSet(DOMAIN t[p])

TypeOK ==
  /\ IsTable(subscribers) /\ IsTable(start.table)
  /\ pc \in {"idle", "first", "gone", "second"}
  /\ todo \subseteq Name /\ takeNext \in BOOLEAN
  /\ delivered \in Seq(Name)
  /\ start = [table |-> start.table, served |-> start.served]
  /\ cuts \in Nat /\ stayed \subseteq Name

Got == ToSet(delivered)

\* Whoever the loop need not come to any more, and is marked, was served.
MarksInv ==
  /\ todo \subseteq Members
  /\ pc # "first" => todo = {}
  /\ \A c \in Members \ todo : subscribers[Topic][c] => c \in Got

\* Who stayed is there for the second loop.
StayInv ==
  /\ pc # "idle" => stayed \subseteq Members
  /\ pc = "idle" /\ stayed # {} => delivered # << >>

\* No handler is called twice in a call.
GotOnce == IsFiniteSet(Got) /\ Len(delivered) = Cardinality(Got)

\* The clients the first loop came to; everybody behind the first marked one
\* was served.
LoopInv(was, marks, seen) ==
  /\ DOMAIN marks = DOMAIN was
  /\ \A c \in todo : marks[c] = was[c]
  /\ \A c \in seen : marks[c] <=> c \in Got /\ ~was[c]
  /\ Got \subseteq seen
  /\ IF takeNext
     THEN \E t \in seen \ Got : was[t] /\ \A c \in seen \ {t} : was[c] => c \in Got
     ELSE Got = {} /\ \A c \in seen : ~was[c]

Running ==
  pc # "idle" =>
    /\ Topic \in DOMAIN start.table /\ Present # {} /\ todo \subseteq Present
    /\ subscribers = [start.table EXCEPT ![Topic] = subscribers[Topic]]
    /\ LoopInv(start.table[Topic], subscribers[Topic], Present \ todo)
    /\ pc \in {"first", "second"}
    /\ pc = "second" => todo = {} /\ delivered = << >>

\* The last call had an outcome of sendQueue.
Outcome ==
  pc = "idle" /\ Present # {} =>
    \E o \in sendQueue(start.table[Topic]) : o.to = Got

\* Of a call that nobody has cut into.
WholeInv == GotOnce /\ Running /\ Outcome

QueueInv == TypeOK /\ MarksInv /\ StayInv /\ (cuts = 0 => WholeInv)
=============================================================================
