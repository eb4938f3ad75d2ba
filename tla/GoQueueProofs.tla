--------------------------- MODULE GoQueueProofs ---------------------------
(***************************************************************************)
(* Proofs about the round-robin queue: the loops of sendQueue, visiting    *)
(* any number of clients in any order, do what GoImq!sendQueue says.       *)
(***************************************************************************)
EXTENDS GoQueue, FiniteSetTheorems, SequenceTheorems, WellFoundedInduction, TLAPS

(***************************************************************************)
(* sendQueue has an outcome for every path with subscribers, and each of   *)
(* its outcomes serves one of them.                                        *)
(***************************************************************************)
LEMMA OutcomeShape ==
  ASSUME NEW marks, marks \in [DOMAIN marks -> BOOLEAN], NEW o \in sendQueue(marks)
  PROVE  o.to \subseteq DOMAIN marks /\ DOMAIN o.marks = DOMAIN marks
         /\ o = [to |-> o.to, marks |-> o.marks]
<1>1. CASE o \in AfterMark(marks)
  BY <1>1 DEF AfterMark
<1>2. CASE o \in FromStart(marks)
  BY <1>2 DEF FromStart
<1> QED BY <1>1, <1>2 DEF sendQueue

THEOREM QueueServes ==
  ASSUME NEW marks, marks \in [DOMAIN marks -> BOOLEAN], DOMAIN marks # {}
  PROVE  /\ sendQueue(marks) # {}
         /\ \A o \in sendQueue(marks) : o.to # {} /\ o.to \subseteq DOMAIN marks
<1>1. ASSUME NEW o \in sendQueue(marks) PROVE o.to # {} /\ o.to \subseteq DOMAIN marks
  <2>1. o.to \subseteq DOMAIN marks
    BY <1>1, OutcomeShape
  <2>2. CASE o \in AfterMark(marks)
    <3>1. \E after : after # {} /\ o.to = after
      BY <2>2 DEF AfterMark
    <3> QED BY <2>1, <3>1
  <2>3. CASE o \in FromStart(marks)
    BY <2>1, <2>3 DEF FromStart
  <2> QED BY <1>1, <2>2, <2>3 DEF sendQueue
<1>2. CASE \A c, d \in DOMAIN marks : marks[c] /\ marks[d] => c = d
  <2>1. PICK k \in DOMAIN marks : TRUE
    OBVIOUS
  <2>2. [to |-> {k}, marks |-> [c \in DOMAIN marks |-> c = k]] \in FromStart(marks)
    BY <1>2 DEF FromStart
  <2> QED BY <1>1, <2>2 DEF sendQueue
<1>3. CASE ~ \A c, d \in DOMAIN marks : marks[c] /\ marks[d] => c = d
  <2>1. PICK t, d \in DOMAIN marks : marks[t] /\ marks[d] /\ t # d
    BY <1>3
  <2> DEFINE after == DOMAIN marks \ {t}
             Later(u) == {x \in SUBSET (DOMAIN marks \ {u}) :
                            x # {} /\ \A c \in DOMAIN marks \ {u} : marks[c] => c \in x}
             Serving(x) == [to |-> x, marks |-> [c \in DOMAIN marks |-> c \in x /\ ~marks[c]]]
             Marked == {c \in DOMAIN marks : marks[c]}
  <2>2. t \in Marked /\ after \in Later(t)
    BY <2>1
  <2>3. AfterMark(marks) = UNION {{Serving(x) : x \in Later(u)} : u \in Marked}
    BY Zenon DEF AfterMark
  <2> HIDE DEF after, Later, Serving, Marked
  <2>4. Serving(after) \in {Serving(x) : x \in Later(t)}
    BY <2>2
  <2>5. Serving(after) \in AfterMark(marks)
    BY <2>2, <2>3, <2>4, Zenon
  <2> QED BY <1>1, <2>5 DEF sendQueue
<1> QED BY <1>1, <1>2, <1>3

\* Whoever is marked after a call was served by it; one of one or two
\* subscribers gets the message, and not everybody of more.
THEOREM QueueBounds ==
  ASSUME NEW marks, marks \in [DOMAIN marks -> BOOLEAN], IsFiniteSet(DOMAIN marks),
         NEW o \in sendQueue(marks)
  PROVE  /\ \A c \in DOMAIN o.marks : o.marks[c] => c \in o.to
         /\ Cardinality(o.to) \in 1 .. (IF Cardinality(DOMAIN marks) < 3 THEN 1
                                        ELSE Cardinality(DOMAIN marks) - 1)
<1> DEFINE all == DOMAIN marks
<1>1. IsFiniteSet(all) /\ Cardinality(all) \in Nat
  BY FS_CardinalityType
<1>2. CASE o \in FromStart(marks)
  <2>1. PICK k \in all : o = [to |-> {k}, marks |-> [c \in all |-> c = k]]
    BY <1>2 DEF FromStart
  <2>2. Cardinality({k}) = 1
    BY FS_Singleton
  <2>3. o.to = {k} /\ \A c \in DOMAIN o.marks : o.marks[c] => c = k
    BY <2>1
  <2> QED BY <1>1, <2>2, <2>3
<1>3. CASE o \in AfterMark(marks)
  <2>1. PICK t \in all : \E after \in SUBSET (all \ {t}) :
          /\ after # {}
          /\ o = [to |-> after, marks |-> [c \in all |-> c \in after /\ ~marks[c]]]
    BY <1>3 DEF AfterMark
  <2>2. PICK after \in SUBSET (all \ {t}) :
          /\ after # {}
          /\ o = [to |-> after, marks |-> [c \in all |-> c \in after /\ ~marks[c]]]
    BY <2>1
  <2>3. IsFiniteSet(all \ {t}) /\ Cardinality(all \ {t}) = Cardinality(all) - 1
    BY <1>1, FS_RemoveElement
  <2>4. /\ IsFiniteSet(after) /\ Cardinality(after) \in Nat
        /\ Cardinality(after) <= Cardinality(all) - 1
    BY <2>3, FS_Subset, FS_CardinalityType
  <2>5. Cardinality(after) # 0
    BY <2>2, <2>4, FS_EmptySet
  <2>6. o.to = after /\ \A c \in DOMAIN o.marks : o.marks[c] => c \in after
    BY <2>2
  <2> QED BY <1>1, <2>4, <2>5, <2>6
<1> QED BY <1>2, <1>3 DEF sendQueue

(***************************************************************************)
(* The steps of the loops.                                                 *)
(***************************************************************************)
\* What a visit of k makes of the marks and of the loop's variables.
Visited(marks, k, st) ==
  /\ st.takeNext \in BOOLEAN /\ (st.takeNext <=> takeNext \/ marks[k])
  /\ st.to = IF takeNext THEN Append(delivered, k) ELSE delivered
  /\ st.marks = [marks EXCEPT ![k] = takeNext /\ ~marks[k]]

\* The loop's variables, as its body takes and leaves them.
IsState(st) ==
  /\ st = [takeNext |-> st.takeNext, to |-> st.to, marks |-> st.marks]
  /\ st.takeNext \in BOOLEAN /\ IsMarks(st.marks)

\* A visit takes the mark of k, and serves and marks k behind a marked one.
LEMMA VisitIs ==
  ASSUME NEW st, IsState(st), NEW k \in DOMAIN st.marks
  PROVE  LET sv == Visit(st, k)
         IN  /\ IsState(sv) /\ (sv.takeNext <=> st.takeNext \/ st.marks[k])
             /\ sv.to = IF st.takeNext THEN Append(st.to, k) ELSE st.to
             /\ sv.marks = [st.marks EXCEPT ![k] = st.takeNext /\ ~st.marks[k]]
<1> DEFINE t == st.takeNext
           to == st.to
           marks == st.marks
<1>1. /\ st = [takeNext |-> t, to |-> to, marks |-> marks]
      /\ t \in BOOLEAN /\ IsMarks(marks) /\ k \in DOMAIN marks
  BY DEF IsState
<1> HIDE DEF t, to, marks
<1>2. PICK sv : sv = Served(st, k)
  OBVIOUS
<1>3. sv = [takeNext |-> t, to |-> IF t THEN Append(to, k) ELSE to,
            marks |-> IF t THEN [marks EXCEPT ![k] = TRUE] ELSE marks]
  BY <1>1, <1>2 DEF Served
<1>4. Visit(st, k) = IF marks[k] THEN [sv EXCEPT !.takeNext = TRUE, !.marks[k] = FALSE] ELSE sv
  BY <1>1, <1>2 DEF Visit
<1> DEFINE left == [marks EXCEPT ![k] = t /\ ~marks[k]]
<1>5. Visit(st, k) = [takeNext |-> t \/ marks[k], to |-> IF t THEN Append(to, k) ELSE to,
                      marks |-> left]
  <2>1. CASE marks[k]
    <3>1. [sv.marks EXCEPT ![k] = FALSE] = left
      BY <1>1, <1>3, <2>1 DEF IsMarks
    <3>2. Visit(st, k) = [takeNext |-> TRUE, to |-> sv.to, marks |-> left]
      BY <1>3, <1>4, <2>1, <3>1
    <3> QED BY <1>3, <2>1, <3>2
  <2>2. CASE ~marks[k]
    <3>1. sv.marks = left
      BY <1>1, <1>3, <2>2 DEF IsMarks
    <3>2. (t \/ marks[k]) = t
      BY <1>1, <2>2
    <3> QED BY <1>3, <1>4, <2>2, <3>1, <3>2
  <2> QED BY <2>1, <2>2
<1>6. IsMarks(left) /\ (t \/ marks[k]) \in BOOLEAN
  BY <1>1 DEF IsMarks
<1>7. PICK next : next = (t \/ marks[k])
  OBVIOUS
<1>8. Visit(st, k) = [takeNext |-> next, to |-> IF t THEN Append(to, k) ELSE to, marks |-> left]
  BY <1>5, <1>7
<1>9. /\ Visit(st, k).takeNext = next /\ Visit(st, k).marks = left
      /\ Visit(st, k).to = IF t THEN Append(to, k) ELSE to
  BY <1>8
<1>10. IsState(Visit(st, k))
  <2> HIDE DEF left
  <2> QED BY <1>6, <1>7, <1>8, <1>9 DEF IsState
<1> QED BY <1>7, <1>9, <1>10 DEF t, to, marks

\* The same of the variables of the specification.
LEMMA VisitDoes ==
  ASSUME takeNext \in BOOLEAN, NEW marks, IsMarks(marks), NEW k \in DOMAIN marks, NEW st,
         st = [takeNext |-> takeNext, to |-> delivered, marks |-> marks]
  PROVE  Visited(marks, k, Visit(st, k))
<1>1. st.takeNext = takeNext /\ st.to = delivered /\ st.marks = marks
  OBVIOUS
<1>2. IsState(st) /\ k \in DOMAIN st.marks
  BY <1>1 DEF IsState
<1>3. PICK sv : sv = Visit(st, k)
  OBVIOUS
<1>4. /\ IsState(sv) /\ (sv.takeNext <=> st.takeNext \/ st.marks[k])
      /\ sv.to = IF st.takeNext THEN Append(st.to, k) ELSE st.to
      /\ sv.marks = [st.marks EXCEPT ![k] = st.takeNext /\ ~st.marks[k]]
  BY <1>2, <1>3, VisitIs
<1> QED BY <1>1, <1>3, <1>4 DEF Visited, IsState

LEMMA AppendServes ==
  ASSUME NEW q \in Seq(Name), NEW k \in Name
  PROVE  /\ Append(q, k) \in Seq(Name) /\ Len(Append(q, k)) = Len(q) + 1
         /\ ToSet(Append(q, k)) = ToSet(q) \cup {k} /\ Append(q, k) # << >>
<1>1. /\ Append(q, k) \in Seq(Name) /\ Len(q) \in Nat /\ Len(Append(q, k)) = Len(q) + 1
      /\ \A i \in 1 .. Len(q) : Append(q, k)[i] = q[i]
      /\ Append(q, k)[Len(q) + 1] = k
  BY AppendProperties, LenProperties
<1>2. DOMAIN q = 1 .. Len(q) /\ DOMAIN Append(q, k) = 1 .. Len(q) + 1
  BY <1>1, LenProperties
<1>3. Append(q, k) # << >>
  BY <1>1, EmptySeq
<1> QED BY <1>1, <1>2, <1>3 DEF ToSet

LEMMA NobodyServed == ToSet(<< >>) = {} /\ Len(<< >>) = 0 /\ << >> \in Seq(Name)
BY DEF ToSet

\* What the first loop did so far holds for one more client, k.
LEMMA VisitLoops ==
  ASSUME NEW was, NEW marks, IsMarks(was), IsMarks(marks), NEW k \in todo, NEW seen,
         seen \cap todo = {}, seen \cup todo = DOMAIN was, takeNext \in BOOLEAN,
         delivered \in Seq(Name), LoopInv(was, marks, seen), NEW st, Visited(marks, k, st),
         todo' = todo \ {k}, takeNext' = st.takeNext, delivered' = st.to
  PROVE  LoopInv(was, st.marks, seen \cup {k})'
<1> DEFINE left == st.marks
           more == seen \cup {k}
<1>0. /\ takeNext' \in BOOLEAN /\ (takeNext' <=> takeNext \/ marks[k])
      /\ delivered' = IF takeNext THEN Append(delivered, k) ELSE delivered
      /\ left = [marks EXCEPT ![k] = takeNext /\ ~marks[k]]
  BY DEF Visited
<1>1. Got' = IF takeNext THEN Got \cup {k} ELSE Got
  <2>1. k \in Name
    BY DEF IsMarks
  <2>2. ToSet(Append(delivered, k)) = ToSet(delivered) \cup {k}
    BY <2>1, AppendServes
  <2>3. Got' = ToSet(delivered')
    BY DEF Got
  <2> QED BY <1>0, <2>2, <2>3 DEF Got
<1>2. /\ DOMAIN marks = DOMAIN was /\ marks[k] = was[k] /\ was[k] \in BOOLEAN
      /\ k \in DOMAIN was /\ k \notin seen /\ k \notin Got
  BY DEF LoopInv, IsMarks
<1>3. /\ DOMAIN left = DOMAIN marks
      /\ \A c \in DOMAIN marks : left[c] = IF c = k THEN takeNext /\ ~marks[k] ELSE marks[c]
  BY <1>0 DEF IsMarks
<1> HIDE DEF left
<1>4. Got \subseteq seen /\ \A c \in seen : c # k /\ (left[c] <=> c \in Got /\ ~was[c])
  BY <1>2, <1>3 DEF LoopInv
<1>5. \A c \in todo' : c # k /\ left[c] = was[c]
  BY <1>2, <1>3 DEF LoopInv
<1>6. CASE takeNext
  <2>1. PICK t \in seen \ Got : was[t] /\ \A c \in seen \ {t} : was[c] => c \in Got
    BY <1>6 DEF LoopInv
  <2>2. t \in more \ Got' /\ \A c \in more \ {t} : was[c] => c \in Got'
    BY <1>1, <1>2, <1>6, <2>1
  <2>3. left[k] <=> k \in Got' /\ ~was[k]
    BY <1>1, <1>2, <1>3, <1>6
  <2> QED BY <1>0, <1>1, <1>2, <1>3, <1>4, <1>5, <1>6, <2>2, <2>3 DEF LoopInv, left
<1>7. CASE ~takeNext
  <2>1. Got' = {} /\ \A c \in seen : ~was[c]
    BY <1>1, <1>7 DEF LoopInv
  <2>2. ~left[k]
    BY <1>2, <1>3, <1>7
  <2> QED BY <1>0, <1>1, <1>2, <1>3, <1>4, <1>5, <1>7, <2>1, <2>2 DEF LoopInv, left
<1> QED BY <1>6, <1>7

\* The first loop served somebody,
LEMMA FirstServes ==
  ASSUME NEW was, NEW marks, IsMarks(was), IsMarks(marks), LoopInv(was, marks, DOMAIN was),
         takeNext \in BOOLEAN, Got # {}
  PROVE  [to |-> Got, marks |-> marks] \in sendQueue(was)
<1> DEFINE Later(u) == {x \in SUBSET (DOMAIN was \ {u}) :
                          x # {} /\ \A c \in DOMAIN was \ {u} : was[c] => c \in x}
           Serving(x) == [to |-> x, marks |-> [c \in DOMAIN was |-> c \in x /\ ~was[c]]]
           Marked == {c \in DOMAIN was : was[c]}
<1>1. marks = [c \in DOMAIN was |-> c \in Got /\ ~was[c]]
  BY DEF LoopInv, IsMarks
<1>2. Got \subseteq DOMAIN was
  BY DEF LoopInv
<1>3. PICK t \in DOMAIN was \ Got : was[t] /\ \A c \in DOMAIN was \ {t} : was[c] => c \in Got
  BY DEF LoopInv
<1>4. t \in Marked /\ Got \in Later(t)
  BY <1>2, <1>3
<1>5. AfterMark(was) = UNION {{Serving(x) : x \in Later(u)} : u \in Marked}
  BY Zenon DEF AfterMark
<1>6. [to |-> Got, marks |-> marks] = Serving(Got)
  BY <1>1
<1> HIDE DEF Later, Serving, Marked
<1>7. Serving(Got) \in {Serving(x) : x \in Later(t)}
  BY <1>4
<1>8. Serving(Got) \in AfterMark(was)
  BY <1>4, <1>5, <1>7, Zenon
<1> QED BY <1>6, <1>8 DEF sendQueue

\* or nobody, and the second loop serves k.
LEMMA SecondServes ==
  ASSUME NEW was, NEW marks, IsMarks(was), IsMarks(marks), LoopInv(was, marks, DOMAIN was),
         takeNext \in BOOLEAN, Got = {}, NEW k \in DOMAIN was
  PROVE  [to |-> {k}, marks |-> [marks EXCEPT ![k] = TRUE]] \in sendQueue(was)
<1>1. DOMAIN marks = DOMAIN was /\ \A c \in DOMAIN marks : ~marks[c]
  BY DEF LoopInv
<1>2. [marks EXCEPT ![k] = TRUE] = [c \in DOMAIN was |-> c = k]
  BY <1>1 DEF IsMarks
<1>3. \A c, d \in DOMAIN was : was[c] /\ was[d] => c = d
  BY DEF LoopInv
<1> QED BY <1>2, <1>3 DEF sendQueue, FromStart

(***************************************************************************)
(* The invariant.                                                          *)
(***************************************************************************)
LEMMA CallKeeps ==
  ASSUME QueueInv, Call
  PROVE  QueueInv'
<1> USE DEF QueueInv
<1>1. Members \subseteq Name /\ Topic \in DOMAIN subscribers /\ Members = DOMAIN subscribers[Topic]
  BY DEF TypeOK, IsTable, IsMarks, Members, Subscribers, Call
<1>2. /\ start'.table = subscribers /\ Present' = Members /\ Members' = Members
      /\ todo' = Members /\ Got' = {}
  BY NobodyServed DEF Call, Present, Members, Got
<1>3. TypeOK'
  BY <1>1, <1>2, NobodyServed DEF TypeOK, Call
<1>4. GotOnce'
  BY <1>2, NobodyServed, FS_EmptySet DEF GotOnce, Call
<1>5. Running'
  <2>1. LoopInv(subscribers[Topic], subscribers[Topic], {})'
    BY <1>1, <1>2 DEF LoopInv, Call
  <2>2. subscribers' = [subscribers EXCEPT ![Topic] = subscribers[Topic]]
    BY <1>1 DEF Call, TypeOK, IsTable
  <2> QED BY <1>1, <1>2, <2>1, <2>2 DEF Running, Call
<1>6. Outcome'
  BY DEF Outcome, Call
<1>7. MarksInv' /\ StayInv'
  BY <1>2 DEF MarksInv, StayInv, Call
<1> QED BY <1>3, <1>4, <1>5, <1>6, <1>7 DEF WholeInv

LEMMA FirstKeeps ==
  ASSUME QueueInv, NEW k \in Name, First(k)
  PROVE  QueueInv'
<1>0. PICK marks : marks = subscribers[Topic]
  OBVIOUS
<1>1. pc = "first" /\ k \in todo /\ TypeOK /\ MarksInv /\ StayInv
  BY DEF QueueInv, First
<1>2. IsMarks(marks) /\ Topic \in DOMAIN subscribers /\ Members = DOMAIN marks /\ k \in Members
  BY <1>0, <1>1 DEF TypeOK, IsTable, Members, Subscribers, MarksInv
<1>3. PICK at : at = [takeNext |-> takeNext, to |-> delivered, marks |-> marks]
  OBVIOUS
<1>4. PICK st : st = Visit(at, k)
  OBVIOUS
<1>5. Visited(marks, k, st)
  BY <1>1, <1>2, <1>3, <1>4, VisitDoes DEF TypeOK
<1>6. /\ takeNext' = st.takeNext /\ delivered' = st.to
      /\ subscribers' = [subscribers EXCEPT ![Topic] = st.marks]
      /\ todo' = todo \ {k} /\ UNCHANGED <<pc, start, cuts, stayed>>
  BY <1>0, <1>3, <1>4 DEF First
<1>7. /\ takeNext' \in BOOLEAN /\ (takeNext' <=> takeNext \/ marks[k])
      /\ delivered' = IF takeNext THEN Append(delivered, k) ELSE delivered
      /\ st.marks = [marks EXCEPT ![k] = takeNext /\ ~marks[k]]
  BY <1>5, <1>6 DEF Visited
<1>8. delivered' \in Seq(Name) /\ Got' = (IF takeNext THEN Got \cup {k} ELSE Got)
      /\ Len(delivered') = IF takeNext THEN Len(delivered) + 1 ELSE Len(delivered)
  <2>1. /\ Append(delivered, k) \in Seq(Name) /\ Len(Append(delivered, k)) = Len(delivered) + 1
        /\ ToSet(Append(delivered, k)) = ToSet(delivered) \cup {k}
    BY <1>1, AppendServes DEF TypeOK
  <2>2. Got' = ToSet(delivered')
    BY DEF Got
  <2> QED BY <1>1, <1>7, <2>1, <2>2 DEF TypeOK, Got
<1>9. IsMarks(st.marks) /\ DOMAIN st.marks = DOMAIN marks
  BY <1>1, <1>2, <1>7 DEF IsMarks, TypeOK
<1>10. subscribers'[Topic] = st.marks /\ Members' = Members /\ Present' = Present
  BY <1>2, <1>6, <1>9 DEF Present, Members, Subscribers
<1>11. TypeOK'
  <2>1. IsTable(subscribers)'
    BY <1>0, <1>1, <1>2, <1>6, <1>9 DEF TypeOK, IsTable
  <2> QED BY <1>1, <1>6, <1>7, <1>8, <2>1 DEF TypeOK, IsTable
<1>12. MarksInv' /\ StayInv'
  <2>1. ASSUME NEW c \in Members, c \notin todo', st.marks[c] PROVE c \in Got'
    <3>1. CASE c = k
      BY <1>2, <1>7, <1>8, <2>1, <3>1 DEF IsMarks
    <3>2. CASE c # k
      BY <1>0, <1>1, <1>2, <1>6, <1>7, <1>8, <2>1, <3>2 DEF IsMarks, MarksInv
    <3> QED BY <3>1, <3>2
  <2> QED BY <1>1, <1>6, <1>10, <2>1 DEF MarksInv, StayInv
<1>13. ASSUME cuts = 0 PROVE WholeInv'
  <2>0. PICK was, seen : was = start.table[Topic] /\ seen = Present \ todo
    OBVIOUS
  <2>1. /\ GotOnce /\ Topic \in DOMAIN start.table
        /\ Present # {} /\ todo \subseteq Present /\ LoopInv(was, marks, seen)
        /\ subscribers = [start.table EXCEPT ![Topic] = marks]
    BY <1>0, <1>1, <1>13, <2>0 DEF QueueInv, WholeInv, Running
  <2>2. IsMarks(was) /\ Present = DOMAIN was
    BY <1>1, <2>0, <2>1 DEF TypeOK, IsTable, Present, Subscribers
  <2>3. LoopInv(was, st.marks, seen \cup {k})'
    <3>1. seen \cap todo = {} /\ seen \cup todo = DOMAIN was
      BY <2>0, <2>1, <2>2
    <3>2. takeNext \in BOOLEAN /\ delivered \in Seq(Name)
      BY <1>1 DEF TypeOK
    <3> QED BY <1>1, <1>2, <1>5, <1>6, <2>1, <2>2, <3>1, <3>2, VisitLoops
  <2>4. GotOnce'
    <3>1. k \notin Got
      BY <1>1, <2>0, <2>1 DEF LoopInv
    <3> QED BY <1>1, <1>8, <2>1, <3>1, FS_AddElement DEF GotOnce
  <2>5. Running'
    <3>1. Present \ todo' = seen \cup {k} /\ todo' \subseteq Present
      BY <1>1, <1>6, <2>0, <2>1
    <3>2. LoopInv(start.table[Topic], subscribers[Topic], Present \ todo)'
      BY <1>6, <1>10, <2>0, <2>3, <3>1
    <3>3. subscribers' = [start.table EXCEPT ![Topic] = st.marks]
      BY <1>1, <1>2, <1>6, <2>1 DEF TypeOK, IsTable
    <3> QED BY <1>1, <1>6, <1>10, <2>1, <3>1, <3>2, <3>3 DEF Running
  <2>6. Outcome'
    BY <1>1, <1>6 DEF Outcome
  <2> QED BY <2>4, <2>5, <2>6 DEF WholeInv
<1> QED BY <1>6, <1>11, <1>12, <1>13 DEF QueueInv

\* At the end of the first loop and in the second one.
LEMMA AfterFirst ==
  ASSUME TypeOK, Running, pc # "idle", todo = {}, NEW was, NEW marks,
         was = start.table[Topic], marks = subscribers[Topic]
  PROVE  /\ IsMarks(was) /\ IsMarks(marks) /\ Present = DOMAIN was /\ Present # {}
         /\ DOMAIN marks = DOMAIN was /\ Members = DOMAIN marks
         /\ Topic \in DOMAIN start.table /\ Topic \in DOMAIN subscribers
         /\ subscribers = [start.table EXCEPT ![Topic] = marks]
         /\ LoopInv(was, marks, DOMAIN was)
<1>1. /\ TypeOK /\ Topic \in DOMAIN start.table /\ Present # {}
      /\ subscribers = [start.table EXCEPT ![Topic] = marks]
      /\ LoopInv(was, marks, Present)
  BY DEF Running
<1>2. Topic \in DOMAIN subscribers /\ Present = DOMAIN was /\ Members = DOMAIN marks
  BY <1>1 DEF TypeOK, IsTable, Present, Members, Subscribers
<1> QED BY <1>1, <1>2 DEF TypeOK, IsTable, LoopInv

LEMMA GotSomebody ==
  ASSUME TypeOK, GotOnce
  PROVE  delivered # << >> <=> Got # {}
BY FS_EmptySet, LenProperties, EmptySeq, NobodyServed DEF GotOnce, TypeOK, Got

LEMMA EndKeeps ==
  ASSUME QueueInv, End
  PROVE  QueueInv'
<1>1. /\ pc \in {"first", "gone"} /\ todo = {} /\ TypeOK /\ MarksInv /\ StayInv
      /\ pc' = (IF delivered # << >> THEN "idle" ELSE "second")
      /\ UNCHANGED <<subscribers, todo, takeNext, delivered, start, cuts, stayed>>
  BY DEF QueueInv, End
<1>2. Present' = Present /\ Members' = Members /\ Got' = Got
  BY <1>1 DEF Present, Members, Got
<1>3. TypeOK' /\ MarksInv' /\ StayInv'
  BY <1>1, <1>2 DEF TypeOK, MarksInv, StayInv
<1>4. ASSUME cuts = 0 PROVE WholeInv'
  <2>0. PICK was, marks : was = start.table[Topic] /\ marks = subscribers[Topic]
    OBVIOUS
  <2>1. GotOnce /\ Running
    BY <1>4 DEF QueueInv, WholeInv
  <2>2. IsMarks(was) /\ IsMarks(marks) /\ LoopInv(was, marks, DOMAIN was)
    BY <1>1, <2>0, <2>1, AfterFirst
  <2>3. GotOnce'
    BY <1>1, <1>2, <2>1 DEF GotOnce
  <2>4. Running'
    <3>1. LoopInv(start.table[Topic], subscribers[Topic], Present \ todo)'
      BY <1>1, <1>2, <2>1 DEF LoopInv, Running
    <3> QED BY <1>1, <1>2, <2>1, <3>1 DEF Running
  <2>5. Outcome'
    <3>1. SUFFICES ASSUME pc' = "idle" PROVE Outcome'
      BY DEF Outcome
    <3>2. Got # {}
      BY <1>1, <2>1, <3>1, GotSomebody
    <3>3. [to |-> Got, marks |-> marks] \in sendQueue(was)
      BY <1>1, <2>2, <3>2, FirstServes DEF TypeOK
    <3> QED BY <1>1, <1>2, <2>0, <3>3 DEF Outcome
  <2> QED BY <2>3, <2>4, <2>5 DEF WholeInv
<1> QED BY <1>1, <1>3, <1>4 DEF QueueInv

LEMMA SecondKeeps ==
  ASSUME QueueInv, NEW k \in Name, Second(k)
  PROVE  QueueInv'
<1>0. PICK marks : marks = subscribers[Topic]
  OBVIOUS
<1>1. /\ pc = "second" /\ k \in Members /\ TypeOK /\ MarksInv /\ StayInv
      /\ pc' = "idle" /\ delivered' = Append(delivered, k) /\ todo = {}
      /\ subscribers' = [subscribers EXCEPT ![Topic][k] = TRUE]
      /\ UNCHANGED <<todo, takeNext, start, cuts, stayed>>
  BY DEF QueueInv, Second, MarksInv
<1>2. IsMarks(marks) /\ Members = DOMAIN marks /\ Topic \in DOMAIN subscribers
  BY <1>0, <1>1 DEF TypeOK, IsTable, Members, Subscribers
<1>3. PICK left : left = [marks EXCEPT ![k] = TRUE]
  OBVIOUS
<1>4. subscribers' = [subscribers EXCEPT ![Topic] = left]
  BY <1>0, <1>1, <1>2, <1>3
<1>5. IsMarks(left) /\ DOMAIN left = DOMAIN marks
  BY <1>2, <1>3 DEF IsMarks
<1>6. /\ delivered' \in Seq(Name) /\ Len(delivered') = Len(delivered) + 1
      /\ Got' = Got \cup {k} /\ delivered' # << >>
  <2>1. Got = ToSet(delivered) /\ Got' = ToSet(delivered')
    BY DEF Got
  <2> QED BY <1>1, <2>1, AppendServes DEF TypeOK
<1>7. TypeOK'
  <2>1. IsTable(subscribers)'
    BY <1>0, <1>1, <1>2, <1>4, <1>5 DEF TypeOK, IsTable
  <2> QED BY <1>1, <1>6, <2>1 DEF TypeOK
<1>8. Members' = DOMAIN left /\ subscribers'[Topic] = left
  BY <1>2, <1>4 DEF Members, Subscribers
<1>9. MarksInv' /\ StayInv'
  <2>1. \A c \in Members : left[c] => c \in Got'
    BY <1>0, <1>1, <1>2, <1>3, <1>6 DEF MarksInv, IsMarks
  <2> QED BY <1>1, <1>2, <1>5, <1>6, <1>8, <2>1 DEF MarksInv, StayInv
<1>10. ASSUME cuts = 0 PROVE WholeInv'
  <2>0. PICK was : was = start.table[Topic]
    OBVIOUS
  <2>1. Running /\ delivered = << >>
    BY <1>1, <1>10 DEF QueueInv, WholeInv, Running
  <2>2. IsMarks(was) /\ DOMAIN marks = DOMAIN was /\ LoopInv(was, marks, DOMAIN was)
    BY <1>0, <1>1, <2>0, <2>1, AfterFirst
  <2>3. Got = {} /\ Got' = {k} /\ Len(delivered') = 1
    BY <1>6, <2>1, NobodyServed DEF Got
  <2>4. GotOnce'
    BY <2>3, FS_Singleton DEF GotOnce
  <2>5. Running'
    BY <1>1 DEF Running
  <2>6. [to |-> {k}, marks |-> left] \in sendQueue(was)
    BY <1>1, <1>2, <1>3, <2>2, <2>3, SecondServes DEF TypeOK
  <2>7. Outcome'
    BY <1>1, <2>0, <2>3, <2>6 DEF Outcome
  <2> QED BY <2>4, <2>5, <2>7 DEF WholeInv
<1> QED BY <1>1, <1>7, <1>9, <1>10 DEF QueueInv

LEMMA NobodyKeeps ==
  ASSUME QueueInv, SecondNobody
  PROVE  QueueInv' /\ cuts # 0
<1>1. /\ pc = "second" /\ Members = {} /\ TypeOK /\ MarksInv /\ StayInv /\ pc' = "idle"
      /\ UNCHANGED <<subscribers, todo, takeNext, delivered, start, cuts, stayed>>
  BY DEF QueueInv, SecondNobody
<1>2. TypeOK' /\ MarksInv' /\ StayInv'
  BY <1>1 DEF TypeOK, MarksInv, StayInv, Members, Got
<1>3. cuts # 0
  <2> SUFFICES ASSUME cuts = 0 PROVE FALSE
    OBVIOUS
  <2>1. Running /\ todo = {}
    BY <1>1 DEF QueueInv, WholeInv, MarksInv
  <2> QED BY <1>1, <2>1, AfterFirst
<1> QED BY <1>1, <1>2, <1>3 DEF QueueInv

\* Only a call under way is cut into.
LEMMA CutKeeps ==
  ASSUME QueueInv, Cut, (pc = "idle") <=> (pc' = "idle"), UNCHANGED <<delivered, start>>
  PROVE  cuts' \in Nat /\ (cuts' = 0 => WholeInv')
<1>1. cuts \in Nat
  BY DEF QueueInv, TypeOK
<1>2. CASE pc = "idle"
  BY <1>1, <1>2 DEF Cut, QueueInv, WholeInv, GotOnce, Got, Running, Outcome, Present
<1>3. CASE pc # "idle"
  BY <1>1, <1>3 DEF Cut
<1> QED BY <1>2, <1>3

LEMMA JoinKeeps ==
  ASSUME QueueInv, NEW c \in Name, Join(c)
  PROVE  QueueInv'
<1>1. /\ UNCHANGED <<pc, takeNext, delivered, start, stayed>> /\ Cut
      /\ TypeOK /\ MarksInv /\ StayInv
      /\ subscribers' = AddSubscriber(subscribers, c, Topic)
      /\ todo' = todo \/ (pc = "first" /\ c \notin Members /\ todo' = todo \cup {c})
  BY DEF QueueInv, Join
<1>2. IsFiniteSet(Members)
  BY <1>1, FS_EmptySet DEF TypeOK, IsTable, Members, Subscribers
<1>3. IsFiniteSet(Members \cup {c})
  BY <1>2, FS_AddElement
<1> DEFINE marks == [d \in Members \cup {c} |-> IF d = c THEN FALSE ELSE subscribers[Topic][d]]
<1>4. subscribers' = [p \in DOMAIN subscribers \cup {Topic} |->
                        IF p # Topic THEN subscribers[p] ELSE marks]
  BY <1>1 DEF AddSubscriber, Members
<1>5. IsMarks(marks) /\ DOMAIN marks = Members \cup {c}
  BY <1>1 DEF TypeOK, IsTable, IsMarks, Members, Subscribers
<1>6. subscribers'[Topic] = marks /\ Members' = Members \cup {c} /\ Got' = Got
  BY <1>1, <1>4, <1>5 DEF Members, Subscribers, Got
<1>7. cuts' \in Nat /\ (cuts' = 0 => WholeInv')
  BY <1>1, CutKeeps
<1>8. TypeOK'
  <2>1. IsTable(subscribers)'
    BY <1>1, <1>3, <1>4, <1>5 DEF TypeOK, IsTable
  <2> QED BY <1>1, <1>7, <2>1 DEF TypeOK
<1>9. MarksInv'
  <2>1. todo' \subseteq Members' /\ (pc' # "first" => todo' = {}) /\ todo \subseteq todo'
    BY <1>1, <1>6 DEF MarksInv
  <2>2. \A d \in Members' \ todo' : subscribers'[Topic][d] => d \in Got'
    BY <1>1, <1>6, <2>1 DEF MarksInv
  <2> QED BY <2>1, <2>2 DEF MarksInv
<1>10. StayInv'
  BY <1>1, <1>6 DEF StayInv
<1> QED BY <1>7, <1>8, <1>9, <1>10 DEF QueueInv

LEMMA LeaveKeeps ==
  ASSUME QueueInv, NEW c \in Name, Leave(c)
  PROVE  QueueInv'
<1>1. /\ UNCHANGED <<takeNext, delivered, start>> /\ Cut
      /\ TypeOK /\ MarksInv /\ StayInv
      /\ subscribers' = DelSubscriber(subscribers, c, Topic)
      /\ todo' = todo \ {c}
      /\ pc' = (IF pc = "first" /\ Members \subseteq {c} THEN "gone" ELSE pc)
      /\ stayed' = IF pc = "idle" THEN stayed ELSE stayed \ {c}
  BY DEF QueueInv, Leave
<1>2. IsFiniteSet(Members)
  BY <1>1, FS_EmptySet DEF TypeOK, IsTable, Members, Subscribers
<1>3. IsFiniteSet(Members \ {c})
  BY <1>2, FS_RemoveElement
<1> DEFINE marks == [d \in Members \ {c} |-> subscribers[Topic][d]]
<1>4. subscribers' = [p \in {q \in DOMAIN subscribers : q # Topic \/ Members \ {c} # {}} |->
                        IF p # Topic THEN subscribers[p] ELSE marks]
  BY <1>1 DEF DelSubscriber, Members
<1>5. IsMarks(marks) /\ DOMAIN marks = Members \ {c}
  BY <1>1 DEF TypeOK, IsTable, IsMarks, Members, Subscribers
<1>6. /\ Members' = Members \ {c} /\ Got' = Got
      /\ \A d \in Members' : subscribers'[Topic][d] = subscribers[Topic][d]
  <2>1. CASE Members \ {c} = {}
    BY <1>1, <1>4, <2>1 DEF Members, Subscribers, Got
  <2>2. CASE Members \ {c} # {}
    <3>1. Topic \in DOMAIN subscribers
      BY <2>2 DEF Members, Subscribers
    <3> QED BY <1>1, <1>4, <1>5, <2>2, <3>1 DEF Members, Subscribers, Got
  <2> QED BY <2>1, <2>2
<1>7. cuts' \in Nat /\ (cuts' = 0 => WholeInv')
  BY <1>1, CutKeeps
<1>8. TypeOK'
  <2>1. IsTable(subscribers)'
    BY <1>1, <1>3, <1>4, <1>5 DEF TypeOK, IsTable
  <2> QED BY <1>1, <1>7, <2>1 DEF TypeOK
<1>9. MarksInv'
  <2>1. todo' \subseteq Members' /\ (pc' # "first" => todo' = {})
    BY <1>1, <1>6 DEF MarksInv
  <2>2. \A d \in Members' \ todo' : subscribers'[Topic][d] => d \in Got'
    BY <1>1, <1>6 DEF MarksInv
  <2> QED BY <2>1, <2>2 DEF MarksInv
<1>10. StayInv'
  BY <1>1, <1>6 DEF StayInv
<1> QED BY <1>7, <1>8, <1>9, <1>10 DEF QueueInv

LEMMA InitKeeps == Init => QueueInv
<1> SUFFICES ASSUME Init PROVE QueueInv
  OBVIOUS
<1>1. Got = {} /\ Members = {} /\ Present = {}
  BY NobodyServed DEF Init, Got, Members, Present, Subscribers
<1>2. IsTable(<< >>)
  BY DEF IsTable
<1>3. TypeOK
  BY <1>2, NobodyServed DEF Init, TypeOK
<1>4. GotOnce
  BY <1>1, NobodyServed, FS_EmptySet DEF Init, GotOnce
<1> QED BY <1>1, <1>3, <1>4
        DEF Init, QueueInv, WholeInv, Running, Outcome, MarksInv, StayInv

THEOREM QueueInvariance == Spec => []QueueInv
<1>1. QueueInv /\ [Next]_vars => QueueInv'
  <2> SUFFICES ASSUME QueueInv, [Next]_vars PROVE QueueInv'
    OBVIOUS
  <2>1. CASE Call
    BY <2>1, CallKeeps
  <2>2. CASE End
    BY <2>2, EndKeeps
  <2>3. CASE SecondNobody
    BY <2>3, NobodyKeeps
  <2>4. ASSUME NEW c \in Name, First(c) \/ Second(c) \/ Join(c) \/ Leave(c) PROVE QueueInv'
    BY <2>4, FirstKeeps, SecondKeeps, JoinKeeps, LeaveKeeps
  <2>5. CASE UNCHANGED vars
    BY <2>5 DEF vars, QueueInv, WholeInv, TypeOK, GotOnce, Got, Running, LoopInv, Outcome,
               MarksInv, StayInv, Members, Present
  <2> QED BY <2>1, <2>2, <2>3, <2>4, <2>5 DEF Next
<1> QED BY <1>1, InitKeeps, PTL DEF Spec

\* A queued message reaches somebody if somebody stays subscribed while it is
\* queued; if nobody else comes or goes either, one of one or two subscribers
\* gets it and not everybody of more.
THEOREM QueueDelivers == Spec => []DeliveryBounds
<1>1. QueueInv => DeliveryBounds
  <2> SUFFICES ASSUME QueueInv, pc = "idle", cuts = 0, Present # {}
               PROVE  Len(delivered) \in 1 .. (IF Cardinality(Present) < 3 THEN 1
                                               ELSE Cardinality(Present) - 1)
    BY DEF DeliveryBounds, QueueInv, StayInv
  <2>1. PICK was : was = start.table[Topic]
    OBVIOUS
  <2>2. PICK o \in sendQueue(was) : o.to = Got
    BY <2>1 DEF QueueInv, WholeInv, Outcome
  <2>3. IsMarks(was) /\ Present = DOMAIN was /\ IsFiniteSet(DOMAIN was)
    BY <2>1 DEF QueueInv, TypeOK, IsTable, Present, Subscribers
  <2>4. Cardinality(o.to) \in 1 .. (IF Cardinality(DOMAIN was) < 3 THEN 1
                                    ELSE Cardinality(DOMAIN was) - 1)
    BY <2>2, <2>3, QueueBounds DEF IsMarks
  <2> QED BY <2>2, <2>3, <2>4 DEF QueueInv, WholeInv, GotOnce
<1> QED BY <1>1, QueueInvariance, PTL

\* The mark of the next in turn is with a receiver of the last message,
\* whatever cut into the call.
THEOREM MarkFollowsDelivery == Spec => []MarkedWereServed
<1>1. QueueInv => MarkedWereServed
  BY DEF QueueInv, MarksInv, MarkedWereServed, Got
<1> QED BY <1>1, QueueInvariance, PTL

(***************************************************************************)
(* The refinement: the step that ends a whole call is RoundRobin's Queue,  *)
(* that of a torn one its Return.                                          *)
(***************************************************************************)
LEMMA SameTable ==
  ASSUME NEW t, NEW c
  PROVE  /\ Atomic!Subscribers(t, Topic) = Subscribers(t, Topic)
         /\ Atomic!AddSubscriber(t, c, Topic) = AddSubscriber(t, c, Topic)
         /\ Atomic!DelSubscriber(t, c, Topic) = DelSubscriber(t, c, Topic)
         /\ Atomic!QueueOutcomes(t, Topic) = QueueOutcomes(t, Topic)
<1>1. Atomic!Subscribers(t, Topic) = Subscribers(t, Topic)
  BY DEF Atomic!Subscribers, Subscribers
<1>2. Atomic!AddSubscriber(t, c, Topic) = AddSubscriber(t, c, Topic)
  BY <1>1 DEF Atomic!AddSubscriber, AddSubscriber
<1>3. Atomic!DelSubscriber(t, c, Topic) = DelSubscriber(t, c, Topic)
  BY <1>1 DEF Atomic!DelSubscriber, DelSubscriber
<1>4. ASSUME NEW marks PROVE Atomic!sendQueue(marks) = sendQueue(marks)
  <2>1. Atomic!AfterMark(marks) = AfterMark(marks)
    BY Zenon DEF Atomic!AfterMark, AfterMark
  <2>2. Atomic!FromStart(marks) = FromStart(marks)
    BY Zenon DEF Atomic!FromStart, FromStart
  <2> QED BY <2>1, <2>2 DEF Atomic!sendQueue, sendQueue
<1>5. Atomic!QueueOutcomes(t, Topic) = QueueOutcomes(t, Topic)
  BY <1>1, <1>4 DEF Atomic!QueueOutcomes, QueueOutcomes
<1> QED BY <1>1, <1>2, <1>3, <1>5

Hidden == UNCHANGED Atomic!vars

\* The end of a whole call is one step of RoundRobin.
LEMMA CallEnds ==
  ASSUME QueueInv, cuts = 0, pc # "idle", pc' = "idle",
         UNCHANGED <<start, cuts>>,
         subscribers' = [start.table EXCEPT ![Topic] = subscribers'[Topic]],
         [to |-> Got', marks |-> subscribers'[Topic]] \in sendQueue(start.table[Topic])
  PROVE  Atomic!Queue
<1>1. Topic \in DOMAIN start.table /\ Present # {}
  BY DEF QueueInv, WholeInv, Running
<1>2. /\ Table = start.table /\ Table' = subscribers' /\ LastServed' = Got'
      /\ ~torn /\ ~torn'
  BY DEF Table, LastServed, torn, Got
<1>3. [to |-> Got', table |-> subscribers'] \in QueueOutcomes(start.table, Topic)
  <2>1. Subscribers(start.table, Topic) # {}
    BY <1>1 DEF Present
  <2>2. PICK o \in sendQueue(start.table[Topic]) :
          o = [to |-> Got', marks |-> subscribers'[Topic]]
    OBVIOUS
  <2>3. o.to = Got' /\ [start.table EXCEPT ![Topic] = o.marks] = subscribers'
    BY <2>2
  <2>4. [to |-> o.to, table |-> [start.table EXCEPT ![Topic] = o.marks]]
          \in QueueOutcomes(start.table, Topic)
    BY <2>1 DEF QueueOutcomes
  <2> QED BY <2>3, <2>4
<1>4. Subscribers(Table, Topic) # {}
  BY <1>1, <1>2 DEF Present
<1> QED BY <1>2, <1>3, <1>4, SameTable DEF Atomic!Queue, torn

\* A table is the same with its own marks.
LEMMA RemarkedNot ==
  ASSUME IsTable(Table)
  PROVE  Table \in Atomic!Remarked
<1>1. CASE Topic \in DOMAIN Table
  <2>1. /\ Table[Topic] \in [Subscribers(Table, Topic) -> BOOLEAN]
        /\ Table = [Table EXCEPT ![Topic] = Table[Topic]]
    BY <1>1 DEF IsTable, IsMarks, Subscribers
  <2> QED BY <1>1, <2>1, SameTable DEF Atomic!Remarked
<1>2. CASE Topic \notin DOMAIN Table
  BY <1>2 DEF Atomic!Remarked
<1> QED BY <1>1, <1>2

\* The end of a torn call.
LEMMA TornEnds ==
  ASSUME QueueInv', torn, pc' = "idle", UNCHANGED <<start, cuts>>,
         subscribers' \in Atomic!Remarked
  PROVE  Atomic!Return
<1>1. /\ Table' = subscribers' /\ LastServed' = Got' /\ ~torn'
  BY DEF Table, LastServed, torn, Got
<1>2. Got' \in SUBSET Name
  BY DEF QueueInv, TypeOK, Got, ToSet
<1>3. \A c \in Subscribers(subscribers', Topic) : subscribers'[Topic][c] => c \in Got'
  BY DEF QueueInv, MarksInv, Members
<1>4. \A c \in Atomic!Subscribers(subscribers', Topic) : subscribers'[Topic][c] => c \in Got'
  BY <1>3, SameTable
<1> QED BY <1>1, <1>2, <1>4 DEF Atomic!Return, torn

LEMMA EndRefines ==
  ASSUME QueueInv, QueueInv', End
  PROVE  Atomic!Next \/ Hidden
<1>1. PICK was, marks : was = start.table[Topic] /\ marks = subscribers[Topic]
  OBVIOUS
<1>2. /\ todo = {} /\ Got' = Got /\ pc \in {"first", "gone"} /\ TypeOK
      /\ UNCHANGED <<subscribers, todo, takeNext, delivered, start, cuts, stayed>>
  BY DEF End, Got, QueueInv
<1>3. CASE pc' # "idle"
  BY <1>2, <1>3 DEF Hidden, Atomic!vars, Table, LastServed, torn
<1>4. CASE pc' = "idle" /\ cuts = 0
  <2>1. GotOnce /\ Running
    BY <1>4 DEF QueueInv, WholeInv
  <2>2. /\ IsMarks(was) /\ IsMarks(marks) /\ LoopInv(was, marks, DOMAIN was)
        /\ subscribers = [start.table EXCEPT ![Topic] = marks]
    BY <1>1, <1>2, <2>1, AfterFirst
  <2>3. Got # {}
    BY <1>2, <1>4, <2>1, GotSomebody DEF End
  <2>4. [to |-> Got, marks |-> marks] \in sendQueue(was)
    BY <1>2, <2>2, <2>3, FirstServes DEF TypeOK
  <2>5. Atomic!Queue
    BY <1>1, <1>2, <1>4, <2>2, <2>4, CallEnds
  <2> QED BY <2>5 DEF Atomic!Next
<1>5. CASE pc' = "idle" /\ cuts # 0
  <2>1. torn /\ Table = subscribers
    BY <1>2, <1>5 DEF torn, Table, TypeOK
  <2>2. subscribers' \in Atomic!Remarked
    BY <1>2, <2>1, RemarkedNot DEF TypeOK
  <2>3. Atomic!Return
    BY <1>2, <1>5, <2>1, <2>2, TornEnds
  <2> QED BY <2>3 DEF Atomic!Next
<1> QED BY <1>3, <1>4, <1>5

LEMMA FirstRefines ==
  ASSUME QueueInv, NEW k \in Name, First(k)
  PROVE  Atomic!Next \/ Hidden
<1>1. /\ pc = "first" /\ k \in todo /\ TypeOK /\ MarksInv
      /\ UNCHANGED <<pc, start, cuts, stayed>>
  BY DEF First, QueueInv
<1>2. CASE cuts = 0
  BY <1>1, <1>2 DEF Hidden, Atomic!vars, Table, LastServed, torn
<1>3. CASE cuts # 0
  <2>1. PICK marks, at, st :
          /\ marks = subscribers[Topic]
          /\ at = [takeNext |-> takeNext, to |-> delivered, marks |-> marks]
          /\ st = Visit(at, k)
    OBVIOUS
  <2>2. subscribers' = [subscribers EXCEPT ![Topic] = st.marks]
    BY <2>1 DEF First
  <2>3. IsMarks(marks) /\ Topic \in DOMAIN subscribers /\ Members = DOMAIN marks /\ k \in Members
    BY <1>1, <2>1 DEF TypeOK, IsTable, Members, Subscribers, MarksInv
  <2>4. Visited(marks, k, st)
    BY <1>1, <2>1, <2>3, VisitDoes DEF TypeOK
  <2>5. st.marks \in [Members -> BOOLEAN]
    BY <1>1, <2>3, <2>4 DEF Visited, IsMarks, TypeOK
  <2>6. torn /\ torn' /\ Table = subscribers /\ Table' = subscribers' /\ LastServed' = LastServed
    BY <1>1, <1>3 DEF torn, Table, LastServed, TypeOK
  <2>7. Table' \in Atomic!Remarked
    BY <2>2, <2>3, <2>5, <2>6, SameTable DEF Atomic!Remarked, Members
  <2>8. Atomic!GoOn
    BY <2>6, <2>7 DEF Atomic!GoOn, torn
  <2> QED BY <2>8 DEF Atomic!Next
<1> QED BY <1>2, <1>3

LEMMA SecondRefines ==
  ASSUME QueueInv, QueueInv', NEW k \in Name, Second(k)
  PROVE  Atomic!Next
<1>1. PICK was, marks, left :
        /\ was = start.table[Topic] /\ marks = subscribers[Topic]
        /\ left = [marks EXCEPT ![k] = TRUE]
  OBVIOUS
<1>2. /\ pc = "second" /\ k \in Members /\ pc' = "idle" /\ delivered' = Append(delivered, k)
      /\ subscribers' = [subscribers EXCEPT ![Topic][k] = TRUE]
      /\ TypeOK /\ todo = {} /\ UNCHANGED <<todo, takeNext, start, cuts, stayed>>
  BY DEF Second, QueueInv, MarksInv
<1>3. IsMarks(marks) /\ Members = DOMAIN marks /\ Topic \in DOMAIN subscribers
  BY <1>1, <1>2 DEF TypeOK, IsTable, Members, Subscribers
<1>4. subscribers' = [subscribers EXCEPT ![Topic] = left] /\ subscribers'[Topic] = left
  BY <1>1, <1>2, <1>3
<1>5. CASE cuts = 0
  <2>1. Running /\ delivered = << >>
    BY <1>2, <1>5 DEF QueueInv, WholeInv, Running
  <2>2. /\ IsMarks(was) /\ LoopInv(was, marks, DOMAIN was) /\ DOMAIN marks = DOMAIN was
        /\ Topic \in DOMAIN start.table /\ subscribers = [start.table EXCEPT ![Topic] = marks]
    BY <1>1, <1>2, <2>1, AfterFirst
  <2>3. Got = {} /\ Got' = {k}
    <3>1. ToSet(Append(<< >>, k)) = ToSet(<< >>) \cup {k}
      BY NobodyServed, AppendServes
    <3>2. Got = ToSet(delivered) /\ Got' = ToSet(delivered')
      BY DEF Got
    <3> QED BY <1>2, <2>1, <3>1, <3>2, NobodyServed
  <2>4. [to |-> {k}, marks |-> left] \in sendQueue(was)
    BY <1>1, <1>2, <1>3, <2>2, <2>3, SecondServes DEF TypeOK
  <2>5. subscribers' = [start.table EXCEPT ![Topic] = left]
    BY <1>4, <2>2
  <2>6. Atomic!Queue
    BY <1>1, <1>2, <1>4, <1>5, <2>3, <2>4, <2>5, CallEnds
  <2> QED BY <2>6 DEF Atomic!Next
<1>6. CASE cuts # 0
  <2>1. torn /\ Table = subscribers
    BY <1>2, <1>6 DEF torn, Table, TypeOK
  <2>2. left \in [Members -> BOOLEAN]
    BY <1>1, <1>2, <1>3 DEF IsMarks
  <2>3. subscribers' \in Atomic!Remarked
    BY <1>3, <1>4, <2>1, <2>2, SameTable DEF Atomic!Remarked, Members
  <2>4. Atomic!Return
    BY <1>2, <2>1, <2>3, TornEnds
  <2> QED BY <2>4 DEF Atomic!Next
<1> QED BY <1>5, <1>6

LEMMA NobodyRefines ==
  ASSUME QueueInv, QueueInv', SecondNobody
  PROVE  Atomic!Next
<1>1. /\ pc = "second" /\ pc' = "idle" /\ TypeOK /\ cuts # 0
      /\ UNCHANGED <<subscribers, start, cuts>>
  BY NobodyKeeps DEF SecondNobody, QueueInv
<1>2. torn /\ Table = subscribers
  BY <1>1 DEF torn, Table, TypeOK
<1>3. subscribers' \in Atomic!Remarked
  BY <1>1, <1>2, RemarkedNot DEF TypeOK
<1>4. Atomic!Return
  BY <1>1, <1>2, <1>3, TornEnds
<1> QED BY <1>4 DEF Atomic!Next

LEMMA ChangeRefines ==
  ASSUME QueueInv, NEW c \in Name, Join(c) \/ Leave(c)
  PROVE  Atomic!Next
<1>1. /\ Cut /\ (pc = "idle" <=> pc' = "idle") /\ UNCHANGED <<delivered, start>>
      /\ TypeOK
      /\ \/ subscribers' = AddSubscriber(subscribers, c, Topic)
         \/ subscribers' = DelSubscriber(subscribers, c, Topic)
  BY DEF Join, Leave, QueueInv
<1>2. Atomic!Change(subscribers) <=> \E d \in Name :
        \/ Table' = Atomic!AddSubscriber(subscribers, d, Topic)
        \/ Table' = Atomic!DelSubscriber(subscribers, d, Topic)
  BY DEF Atomic!Change
<1>3. CASE pc = "idle" \/ cuts # 0
  <2>1. /\ Table = subscribers /\ Table' = subscribers' /\ torn' = torn
        /\ LastServed' = LastServed
    BY <1>1, <1>3 DEF Cut, Table, LastServed, torn, TypeOK
  <2>2. Atomic!Change(Table)
    BY <1>1, <1>2, <2>1, SameTable
  <2>3. Atomic!Subscribe
    BY <2>1, <2>2 DEF Atomic!Subscribe, torn
  <2> QED BY <2>3 DEF Atomic!Next
<1>4. CASE pc # "idle" /\ cuts = 0
  <2>1. /\ Table = start.table /\ Table' = subscribers' /\ ~torn /\ torn'
        /\ LastServed' = LastServed
    BY <1>1, <1>4 DEF Cut, Table, LastServed, torn
  <2>2. /\ Topic \in DOMAIN start.table /\ Present # {}
        /\ subscribers = [start.table EXCEPT ![Topic] = subscribers[Topic]]
        /\ DOMAIN subscribers[Topic] = DOMAIN start.table[Topic]
    BY <1>4 DEF QueueInv, WholeInv, Running, LoopInv
  <2>3. Topic \in DOMAIN subscribers /\ IsMarks(subscribers[Topic])
    BY <1>1, <2>2 DEF TypeOK, IsTable
  <2>4. subscribers[Topic] \in [Subscribers(Table, Topic) -> BOOLEAN]
    BY <2>1, <2>2, <2>3 DEF IsMarks, Subscribers
  <2>5. subscribers \in Atomic!Remarked
    BY <2>1, <2>2, <2>4, SameTable DEF Atomic!Remarked
  <2>6. Atomic!Change(subscribers)
    BY <1>1, <1>2, <2>1, SameTable
  <2>7. Atomic!Subscribers(Table, Topic) # {}
    BY <2>1, <2>2, SameTable DEF Present
  <2>8. Atomic!CutInto
    BY <2>1, <2>5, <2>6, <2>7 DEF Atomic!CutInto, torn
  <2> QED BY <2>8 DEF Atomic!Next
<1> QED BY <1>3, <1>4 DEF QueueInv, TypeOK

\* One call is one step, and a torn call moves marks and delivers.
THEOREM QueueRefinesRoundRobin == Spec => ImplementsRoundRobin
<1>1. Init => Atomic!Init
  BY NobodyServed DEF Init, Atomic!Init, Table, LastServed, torn
<1>2. QueueInv /\ QueueInv' /\ [Next]_vars => [Atomic!Next]_(Atomic!vars)
  <2> SUFFICES ASSUME QueueInv, QueueInv', [Next]_vars
               PROVE  Atomic!Next \/ Hidden
    BY DEF Hidden
  <2>1. CASE Call
    BY <2>1 DEF Call, Hidden, Atomic!vars, Table, LastServed, torn
  <2>2. CASE End
    BY <2>2, EndRefines
  <2>3. CASE SecondNobody
    BY <2>3, NobodyRefines
  <2>4. ASSUME NEW c \in Name, First(c) \/ Second(c) \/ Join(c) \/ Leave(c)
        PROVE  Atomic!Next \/ Hidden
    BY <2>4, FirstRefines, SecondRefines, ChangeRefines
  <2>5. CASE UNCHANGED vars
    BY <2>5 DEF vars, Hidden, Atomic!vars, Table, LastServed, torn
  <2> QED BY <2>1, <2>2, <2>3, <2>4, <2>5 DEF Next
<1> QED BY <1>1, <1>2, QueueInvariance, PTL DEF Spec, ImplementsRoundRobin, Atomic!Spec

(***************************************************************************)
(* The closed form: GoImq!sendQueue has the outcomes of the loops over all *)
(* orders of the clients, and no other.                                    *)
(***************************************************************************)
\* Induction over the natural numbers, with a set for the predicate,
LEMMA NatInd ==
  ASSUME NEW S, 0 \in S, \A n \in Nat : n \in S => n + 1 \in S
  PROVE  Nat \subseteq S
<1> SUFFICES ASSUME Nat \ S # {} PROVE FALSE
  OBVIOUS
<1>1. IsWellFoundedOn({ss \in Nat \X Nat : ss[1] < ss[2]}, Nat)
  BY NatLessThanWellFounded DEF OpToRel
<1>2. PICK x \in Nat \ S : \A y \in Nat \ S : ~(<<y, x>> \in {ss \in Nat \X Nat : ss[1] < ss[2]})
  BY <1>1, WFMin
<1>3. x # 0 /\ x - 1 \in Nat /\ x - 1 < x
  OBVIOUS
<1>4. x - 1 \notin S
  BY <1>3
<1>5. <<x - 1, x>> \in {ss \in Nat \X Nat : ss[1] < ss[2]}
  BY <1>3
<1> QED BY <1>2, <1>3, <1>4, <1>5

\* and the least of some of them.
LEMMA Least ==
  ASSUME NEW S, S \subseteq Nat, S # {}
  PROVE  \E x \in S : \A y \in S : x <= y
<1>1. IsWellFoundedOn({ss \in Nat \X Nat : ss[1] < ss[2]}, Nat)
  BY NatLessThanWellFounded DEF OpToRel
<1>2. PICK x \in S : \A y \in S : ~(<<y, x>> \in {ss \in Nat \X Nat : ss[1] < ss[2]})
  BY <1>1, WFMin
<1>3. ASSUME NEW y \in S PROVE x <= y
  <2>1. x \in Nat /\ y \in Nat
    OBVIOUS
  <2>2. ~(y < x)
    BY <1>2, <2>1
  <2> QED BY <2>1, <2>2
<1> QED BY <1>3

\* The largest of some numbers up to k + 1 is k + 1 if it is one of them.
LEMMA MaxIs ==
  ASSUME NEW k \in Nat, NEW S, k + 1 \in S, S \subseteq 1 .. k + 1
  PROVE  Max(S) = k + 1
<1>1. \A x \in S : (\A y \in S : x >= y) <=> x = k + 1
  OBVIOUS
<1> QED BY <1>1 DEF Max

(***************************************************************************)
(* The first loop as a fold over an order of the clients: FoldLeft is a    *)
(* function of the sets of places, and there is one as it says.            *)
(***************************************************************************)
Unvisited(marks) == [takeNext |-> FALSE, to |-> << >>, marks |-> marks]

\* The function by which FoldLeft is defined.
Folding(g, marks, order, D) ==
  g = [S \in D |-> IF S = {} THEN Unvisited(marks) ELSE Visit(g[S \ {Max(S)}], order[Max(S)])]

LEMMA FoldExists ==
  ASSUME NEW marks, NEW n \in Nat, NEW order
  PROVE  \E g : Folding(g, marks, order, SUBSET (1 .. n))
<1> DEFINE Value(g, S) == IF S = {} THEN Unvisited(marks) ELSE Visit(g[S \ {Max(S)}], order[Max(S)])
           Sat(g, k) == \A S \in SUBSET (1 .. k) : g[S] = Value(g, S)
           Good == {k \in Nat : \E g : g = [S \in SUBSET (1 .. k) |-> g[S]] /\ Sat(g, k)}
<1>1. 0 \in Good
  <2>1. 1 .. 0 = {}
    OBVIOUS
  <2>2. Sat([S \in SUBSET (1 .. 0) |-> Unvisited(marks)], 0)
    BY <2>1
  <2> QED BY <2>2
<1>2. ASSUME NEW k \in Nat, k \in Good PROVE k + 1 \in Good
  <2>1. PICK g : Sat(g, k)
    BY <1>2
  <2> DEFINE D == SUBSET (1 .. k + 1)
             h == [S \in D |-> IF k + 1 \in S THEN Visit(g[S \ {k + 1}], order[k + 1])
                               ELSE g[S]]
  <2>2. ASSUME NEW S \in D, k + 1 \notin S PROVE h[S] = Value(h, S)
    <3>1. S \in SUBSET (1 .. k) /\ h[S] = g[S]
      BY <2>2
    <3>2. ASSUME NEW x PROVE h[S \ {x}] = g[S \ {x}]
      <4>1. S \ {x} \in D /\ k + 1 \notin S \ {x}
        BY <2>2
      <4> QED BY <4>1
    <3>3. g[S] = Value(g, S)
      BY <2>1, <3>1
    <3> HIDE DEF h
    <3> QED BY <3>1, <3>2, <3>3
  <2>3. ASSUME NEW S \in D, k + 1 \in S PROVE h[S] = Value(h, S)
    <3>1. Max(S) = k + 1
      BY <2>3, MaxIs
    <3>2. S \ {k + 1} \in D /\ k + 1 \notin S \ {k + 1}
      OBVIOUS
    <3>3. h[S \ {k + 1}] = g[S \ {k + 1}]
      BY <3>2
    <3>4. h[S] = Visit(g[S \ {k + 1}], order[k + 1])
      BY <2>3
    <3>5. S # {}
      BY <2>3
    <3> HIDE DEF h
    <3> QED BY <3>1, <3>3, <3>4, <3>5
  <2>4. h = [S \in D |-> h[S]]
    OBVIOUS
  <2> HIDE DEF h, Value
  <2>5. Sat(h, k + 1)
    BY <2>2, <2>3
  <2> HIDE DEF Sat
  <2> QED BY <2>4, <2>5
<1>3. n \in Good
  <2> HIDE DEF Good
  <2> QED BY <1>1, <1>2, NatInd
<1>4. PICK g : g = [S \in SUBSET (1 .. n) |-> g[S]] /\ Sat(g, n)
  BY <1>3
<1>5. g = [S \in SUBSET (1 .. n) |-> Value(g, S)]
  BY <1>4
<1> QED BY <1>5 DEF Folding

\* The states of the loop, one for each number of clients visited.
Visits(f, marks, order, n) ==
  /\ f[0] = Unvisited(marks)
  /\ \A m \in 1 .. n : f[m] = Visit(f[m - 1], order[m])

LEMMA FirstLoopVisits ==
  ASSUME NEW marks, NEW n \in Nat, NEW order, DOMAIN order = 1 .. n
  PROVE  \E f : Visits(f, marks, order, n) /\ f[n] = FirstLoop(marks, order)
<1> DEFINE it == CHOOSE g : Folding(g, marks, order, SUBSET (1 .. n))
<1>1. Folding(it, marks, order, SUBSET (1 .. n))
  BY FoldExists
<1>2. FirstLoop(marks, order) = it[1 .. n]
  BY DEF FirstLoop, FoldLeft, MapThenFoldSet, Folding, Unvisited
<1> HIDE DEF it
<1> DEFINE f == [m \in 0 .. n |-> it[1 .. m]]
<1>3. f[0] = Unvisited(marks)
  <2>1. 1 .. 0 = {} /\ {} \in SUBSET (1 .. n)
    OBVIOUS
  <2> QED BY <1>1, <2>1 DEF Folding
<1>4. ASSUME NEW m \in 1 .. n PROVE f[m] = Visit(f[m - 1], order[m])
  <2>1. 1 .. m \in SUBSET (1 .. n) /\ 1 .. m # {} /\ (1 .. m) \ {m} = 1 .. m - 1
    <3>1. m \in Nat /\ 1 <= m /\ m <= n
      OBVIOUS
    <3>2. (1 .. m) \ {m} = 1 .. m - 1
      BY <3>1
    <3> QED BY <3>1, <3>2
  <2>2. Max(1 .. m) = m
    <3>1. m - 1 \in Nat /\ m - 1 + 1 \in 1 .. m /\ 1 .. m \subseteq 1 .. m - 1 + 1
      OBVIOUS
    <3>2. Max(1 .. m) = m - 1 + 1
      BY <3>1, MaxIs
    <3> QED BY <3>2
  <2>3. f[m] = it[1 .. m] /\ f[m - 1] = it[1 .. m - 1]
    OBVIOUS
  <2> HIDE DEF f
  <2> QED BY <1>1, <2>1, <2>2, <2>3 DEF Folding
<1>5. f[n] = it[1 .. n]
  OBVIOUS
<1> HIDE DEF f
<1>6. Visits(f, marks, order, n)
  BY <1>3, <1>4 DEF Visits
<1> QED BY <1>2, <1>5, <1>6

(***************************************************************************)
(* What the first loop has done once it came to the first m clients.       *)
(***************************************************************************)
\* The client at place j has a marked one before it.
Behind(marks, order, j) == \E i \in 1 .. j - 1 : marks[order[i]]

\* Those of the first m who have.
Late(marks, order, m) == {order[j] : j \in {j \in 1 .. m : Behind(marks, order, j)}}

\* They are served, and marked unless they were.
Looped(marks, order, n, m, st) ==
  /\ IsState(st) /\ (st.takeNext <=> Behind(marks, order, m + 1))
  /\ st.to \in Seq(Name) /\ IsInjective(st.to) /\ ToSet(st.to) = Late(marks, order, m)
  /\ DOMAIN st.marks = DOMAIN marks
  /\ \A j \in 1 .. n : st.marks[order[j]] <=>
       IF j <= m THEN Behind(marks, order, j) /\ ~marks[order[j]] ELSE marks[order[j]]

\* An order of the n members of S.
Ordered(order, S, n) ==
  /\ n \in Nat /\ order \in [1 .. n -> S]
  /\ \A i, j \in 1 .. n : order[i] = order[j] => i = j
  /\ \A c \in S : \E i \in 1 .. n : order[i] = c

\* Who was not served yet may be, without being served twice.
LEMMA AppendNew ==
  ASSUME NEW q \in Seq(Name), IsInjective(q), NEW k \in Name, k \notin ToSet(q)
  PROVE  IsInjective(Append(q, k))
<1>1. PICK more, l : more = Append(q, k) /\ l = Len(q)
  OBVIOUS
<1>2. /\ l \in Nat /\ DOMAIN q = 1 .. l /\ DOMAIN more = 1 .. l + 1
      /\ \A i \in 1 .. l : more[i] = q[i]
      /\ more[l + 1] = k
  BY <1>1, AppendProperties, LenProperties
<1>3. \A i \in 1 .. l : more[i] # k
  BY <1>2 DEF ToSet
<1>4. \A i, j \in 1 .. l : more[i] = more[j] => i = j
  BY <1>2 DEF IsInjective
<1>5. ASSUME NEW i \in 1 .. l + 1, NEW j \in 1 .. l + 1, more[i] = more[j] PROVE i = j
  <2>1. (i \in 1 .. l \/ i = l + 1) /\ (j \in 1 .. l \/ j = l + 1)
    BY <1>2
  <2> QED BY <1>2, <1>3, <1>4, <1>5, <2>1
<1> QED BY <1>1, <1>2, <1>5 DEF IsInjective

\* One more client.
LEMMA LoopStep ==
  ASSUME NEW marks, IsMarks(marks), NEW order, NEW n, Ordered(order, DOMAIN marks, n),
         NEW m \in Nat, m + 1 <= n, NEW st, Looped(marks, order, n, m, st), NEW sv,
         sv = Visit(st, order[m + 1])
  PROVE  Looped(marks, order, n, m + 1, sv)
<1> DEFINE k == order[m + 1]
<1>1. /\ n \in Nat /\ m + 1 \in 1 .. n /\ k \in DOMAIN marks /\ k \in Name
      /\ \A j \in 1 .. n : order[j] = k => j = m + 1
  BY DEF Ordered, IsMarks
<1>2. /\ IsState(sv) /\ (sv.takeNext <=> st.takeNext \/ st.marks[k])
      /\ sv.to = IF st.takeNext THEN Append(st.to, k) ELSE st.to
      /\ sv.marks = [st.marks EXCEPT ![k] = st.takeNext /\ ~st.marks[k]]
  BY <1>1, VisitIs DEF Looped
<1>3. st.marks[k] <=> marks[k]
  BY <1>1 DEF Looped
<1>4. Behind(marks, order, m + 2) <=> Behind(marks, order, m + 1) \/ marks[k]
  <2>1. 1 .. m + 2 - 1 = (1 .. m + 1 - 1) \cup {m + 1}
    OBVIOUS
  <2> QED BY <2>1 DEF Behind
<1>5. k \notin Late(marks, order, m)
  BY <1>1 DEF Late
<1>6. Late(marks, order, m + 1) = IF st.takeNext THEN Late(marks, order, m) \cup {k}
                                  ELSE Late(marks, order, m)
  <2>1. 1 .. m + 1 = (1 .. m) \cup {m + 1} /\ (st.takeNext <=> Behind(marks, order, m + 1))
    BY DEF Looped
  <2> QED BY <2>1 DEF Late
<1>7. sv.to \in Seq(Name) /\ IsInjective(sv.to) /\ ToSet(sv.to) = Late(marks, order, m + 1)
  <2>1. st.to \in Seq(Name) /\ IsInjective(st.to) /\ ToSet(st.to) = Late(marks, order, m)
    BY DEF Looped
  <2>2. ASSUME st.takeNext
        PROVE  /\ sv.to \in Seq(Name) /\ IsInjective(sv.to)
               /\ ToSet(sv.to) = Late(marks, order, m + 1)
    <3>1. /\ Append(st.to, k) \in Seq(Name) /\ ToSet(Append(st.to, k)) = ToSet(st.to) \cup {k}
      BY <1>1, <2>1, AppendServes
    <3>4. IsInjective(Append(st.to, k))
      BY <1>1, <1>5, <2>1, AppendNew
    <3>5. sv.to = Append(st.to, k)
      BY <1>2, <2>2
    <3>6. Late(marks, order, m + 1) = Late(marks, order, m) \cup {k}
      BY <1>6, <2>2
    <3>7. ToSet(Append(st.to, k)) = Late(marks, order, m + 1)
      BY <2>1, <3>1, <3>6, Zenon
    <3> QED BY <3>1, <3>4, <3>5, <3>7, Zenon
  <2> QED BY <1>2, <1>6, <2>1, <2>2
<1>8. IsMarks(sv.marks) /\ DOMAIN sv.marks = DOMAIN marks
  BY <1>2 DEF Looped, IsState
<1>9. ASSUME NEW j \in 1 .. n
      PROVE  sv.marks[order[j]] <=>
               IF j <= m + 1 THEN Behind(marks, order, j) /\ ~marks[order[j]] ELSE marks[order[j]]
  <2>1. order[j] \in DOMAIN st.marks /\ (order[j] = k <=> j = m + 1)
    BY <1>1 DEF Looped, Ordered
  <2>2. st.marks[order[j]] <=>
          IF j <= m THEN Behind(marks, order, j) /\ ~marks[order[j]] ELSE marks[order[j]]
    BY DEF Looped
  <2>3. sv.marks[order[j]] = IF j = m + 1 THEN st.takeNext /\ ~st.marks[k] ELSE st.marks[order[j]]
    <3> DEFINE value == st.takeNext /\ ~st.marks[k]
               c == order[j]
    <3>1. sv.marks = [st.marks EXCEPT ![k] = value] /\ c \in DOMAIN st.marks /\ (c = k <=> j = m + 1)
      BY <1>2, <2>1
    <3> HIDE DEF value, c, k
    <3>2. sv.marks[c] = IF j = m + 1 THEN value ELSE st.marks[c]
      BY <3>1
    <3> QED BY <3>2 DEF value, c
  <2>4. CASE j = m + 1
    <3>1. (st.takeNext <=> Behind(marks, order, j)) /\ (st.marks[k] <=> marks[order[j]])
      BY <1>3, <2>4 DEF Looped
    <3>2. sv.marks[order[j]] <=> st.takeNext /\ ~st.marks[k]
      BY <2>3, <2>4
    <3> QED BY <2>4, <3>1, <3>2
  <2>5. CASE j # m + 1
    <3>1. j <= m <=> j <= m + 1
      BY <2>5
    <3> QED BY <2>2, <2>3, <2>5, <3>1
  <2> QED BY <2>4, <2>5
<1>10. sv.takeNext \in BOOLEAN /\ (sv.takeNext <=> Behind(marks, order, m + 1 + 1))
  <2>1. m + 1 + 1 = m + 2
    OBVIOUS
  <2> QED BY <1>2, <1>3, <1>4, <2>1 DEF Looped, IsState
<1> QED BY <1>2, <1>7, <1>8, <1>9, <1>10 DEF Looped

\* After all of them.
LEMMA FirstLoopIs ==
  ASSUME NEW marks, IsMarks(marks), NEW order, NEW n, Ordered(order, DOMAIN marks, n)
  PROVE  Looped(marks, order, n, n, FirstLoop(marks, order))
<1>1. n \in Nat /\ DOMAIN order = 1 .. n
  BY DEF Ordered
<1>2. PICK f : Visits(f, marks, order, n) /\ f[n] = FirstLoop(marks, order)
  BY <1>1, FirstLoopVisits
<1> DEFINE Good == {m \in Nat : m <= n => Looped(marks, order, n, m, f[m])}
<1>3. 0 \in Good
  <2>1. f[0] = Unvisited(marks)
    BY <1>2 DEF Visits
  <2>2. /\ Unvisited(marks) = [takeNext |-> FALSE, to |-> << >>, marks |-> marks]
        /\ Unvisited(marks).takeNext = FALSE /\ Unvisited(marks).to = << >>
        /\ Unvisited(marks).marks = marks
    BY DEF Unvisited
  <2>3. IsState(Unvisited(marks))
    BY <2>2 DEF IsState
  <2>4. ~Behind(marks, order, 0 + 1) /\ Late(marks, order, 0) = {}
    BY DEF Behind, Late
  <2>5. << >> \in Seq(Name) /\ IsInjective(<< >>) /\ ToSet(<< >>) = {}
    BY NobodyServed DEF IsInjective
  <2>6. \A j \in 1 .. n : ~(j <= 0) /\ (Unvisited(marks).marks[order[j]] <=> marks[order[j]])
    BY <1>1, <2>2
  <2>7. Looped(marks, order, n, 0, Unvisited(marks))
    BY <2>2, <2>3, <2>4, <2>5, <2>6 DEF Looped
  <2> QED BY <2>1, <2>7
<1>4. ASSUME NEW m \in Nat, m \in Good PROVE m + 1 \in Good
  <2> SUFFICES ASSUME m + 1 <= n PROVE Looped(marks, order, n, m + 1, f[m + 1])
    OBVIOUS
  <2>1. Looped(marks, order, n, m, f[m])
    BY <1>1, <1>4
  <2>2. f[m + 1] = Visit(f[m], order[m + 1])
    <3>1. m + 1 \in 1 .. n /\ m + 1 - 1 = m
      BY <1>1
    <3> QED BY <1>2, <3>1 DEF Visits
  <2> QED BY <2>1, <2>2, LoopStep
<1>5. n \in Good
  <2> HIDE DEF Good
  <2> QED BY <1>1, <1>3, <1>4, NatInd
<1> QED BY <1>1, <1>2, <1>5

(***************************************************************************)
(* What both loops have done, and that sendQueue says so.                  *)
(***************************************************************************)
\* The orders are those of the community module.
LEMMA OrderedAll ==
  ASSUME NEW S, IsFiniteSet(S), NEW order
  PROVE  order \in SetToSeqs(S) <=> Ordered(order, S, Cardinality(S))
<1> DEFINE n == Cardinality(S)
<1>1. n \in Nat /\ IsFiniteSet(1 .. n) /\ Cardinality(1 .. n) = n
  BY FS_CardinalityType, FS_Interval
<1> HIDE DEF n
<1>2. ASSUME order \in [1 .. n -> S], \A i, j \in 1 .. n : order[i] = order[j] => i = j
      PROVE  \A c \in S : \E i \in 1 .. n : order[i] = c
  <2>1. order \in Injection(1 .. n, S)
    BY <1>2 DEF Injection, IsInjective
  <2>2. order \in Surjection(1 .. n, S)
    BY <1>1, <2>1, FS_Injection DEF n
  <2> QED BY <2>2 DEF Surjection
<1>3. order \in SetToSeqs(S) <=>
        order \in [1 .. n -> S] /\ \A i, j \in 1 .. n : i # j => order[i] # order[j]
  BY DEF SetToSeqs, n
<1>4. Ordered(order, S, n) =>
        order \in [1 .. n -> S] /\ \A i, j \in 1 .. n : order[i] = order[j] => i = j
  BY DEF Ordered
<1>5. order \in SetToSeqs(S) => Ordered(order, S, n)
  BY <1>1, <1>2, <1>3 DEF Ordered
<1>6. Ordered(order, S, n) => order \in SetToSeqs(S)
  BY <1>3, <1>4
<1> QED BY <1>5, <1>6 DEF n

\* With the clients of late behind a marked one, they are served, or k is.
RunIs(o, marks, late, k) ==
  /\ IsInjective(o.to)
  /\ late # {} => /\ ToSet(o.to) = late
                  /\ o.marks = [c \in DOMAIN marks |-> c \in late /\ ~marks[c]]
  /\ late = {} => ToSet(o.to) = {k} /\ o.marks = [c \in DOMAIN marks |-> c = k]

LEMMA LoopsAre ==
  ASSUME NEW marks, IsMarks(marks), NEW order, NEW again, NEW n, n >= 1,
         Ordered(order, DOMAIN marks, n), Ordered(again, DOMAIN marks, n),
         NEW o, o = Loops(marks, order, again), NEW late, late = Late(marks, order, n),
         NEW k, k = again[1]
  PROVE  RunIs(o, marks, late, k)
<1> DEFINE st == FirstLoop(marks, order)
<1>1. Looped(marks, order, n, n, st)
  BY FirstLoopIs
<1>2. o = IF st.to # << >> THEN [to |-> st.to, marks |-> st.marks]
          ELSE [to |-> <<Head(again)>>, marks |-> [st.marks EXCEPT ![Head(again)] = TRUE]]
  BY DEF Loops
<1>3. n \in Nat /\ 1 \in 1 .. n /\ Head(again) = k /\ k \in DOMAIN marks /\ k \in Name
  <2>1. n \in Nat /\ 1 \in 1 .. n /\ again \in [1 .. n -> DOMAIN marks]
    BY DEF Ordered
  <2>2. again \in Seq(DOMAIN marks) /\ again[1] \in DOMAIN marks
    BY <2>1, IsASeq
  <2>3. Head(again) = again[1]
    BY <2>2
  <2> QED BY <2>1, <2>2, <2>3 DEF IsMarks
<1>4. /\ st.to \in Seq(Name) /\ IsInjective(st.to) /\ ToSet(st.to) = late
      /\ IsMarks(st.marks) /\ DOMAIN st.marks = DOMAIN marks
  BY <1>1 DEF Looped, IsState
<1>5. \A j \in 1 .. n : st.marks[order[j]] <=> Behind(marks, order, j) /\ ~marks[order[j]]
  BY <1>1, <1>3 DEF Looped
<1>6. \A j \in 1 .. n : Behind(marks, order, j) <=> order[j] \in late
  <2>1. ASSUME NEW j \in 1 .. n, order[j] \in late PROVE Behind(marks, order, j)
    <3>1. PICK i \in 1 .. n : Behind(marks, order, i) /\ order[i] = order[j]
      BY <2>1 DEF Late
    <3>2. i = j
      BY <3>1 DEF Ordered
    <3> QED BY <3>1, <3>2
  <2> QED BY <2>1 DEF Late
<1> HIDE DEF st
<1>7. \A c \in DOMAIN marks : st.marks[c] <=> c \in late /\ ~marks[c]
  <2> TAKE c \in DOMAIN marks
  <2>1. PICK j \in 1 .. n : order[j] = c
    BY DEF Ordered
  <2> QED BY <1>5, <1>6, <2>1
<1>8. st.to # << >> <=> late # {}
  <2>1. ASSUME st.to # << >> PROVE late # {}
    <3>1. DOMAIN st.to = 1 .. Len(st.to) /\ Len(st.to) \in Nat /\ Len(st.to) # 0
      BY <1>4, <2>1, LenProperties, EmptySeq
    <3>2. st.to[1] \in ToSet(st.to)
      BY <3>1 DEF ToSet
    <3> QED BY <1>4, <3>2
  <2>2. ASSUME st.to = << >> PROVE late = {}
    BY <1>4, <2>2, NobodyServed
  <2> QED BY <2>1, <2>2
<1>9. ASSUME late # {}
      PROVE  /\ ToSet(o.to) = late /\ IsInjective(o.to)
             /\ o.marks = [c \in DOMAIN marks |-> c \in late /\ ~marks[c]]
  <2>1. o = [to |-> st.to, marks |-> st.marks]
    BY <1>2, <1>8, <1>9
  <2>2. st.marks = [c \in DOMAIN marks |-> c \in late /\ ~marks[c]]
    BY <1>4, <1>7 DEF IsMarks
  <2> QED BY <1>4, <2>1, <2>2
<1>10. ASSUME late = {}
       PROVE  /\ ToSet(o.to) = {k} /\ IsInjective(o.to)
              /\ o.marks = [c \in DOMAIN marks |-> c = k]
  <2> DEFINE left == [st.marks EXCEPT ![k] = TRUE]
  <2>1. o = [to |-> <<k>>, marks |-> left]
    BY <1>2, <1>3, <1>8, <1>10
  <2>2. ToSet(<<k>>) = {k} /\ IsInjective(<<k>>)
    BY DEF ToSet, IsInjective
  <2>3. \A c \in DOMAIN marks : ~st.marks[c]
    BY <1>7, <1>10
  <2>4. left = [c \in DOMAIN marks |-> c = k]
    BY <1>3, <1>4, <2>3 DEF IsMarks
  <2> HIDE DEF left
  <2> QED BY <2>1, <2>2, <2>4
<1> QED BY <1>9, <1>10 DEF RunIs

LEMMA OrderExists ==
  ASSUME NEW S, IsFiniteSet(S)
  PROVE  \E order : Ordered(order, S, Cardinality(S))
<1>1. Cardinality(S) \in Nat /\ ExistsBijection(1 .. Cardinality(S), S)
  BY FS_CardinalityType
<1>2. PICK order : order \in Bijection(1 .. Cardinality(S), S)
  BY <1>1 DEF ExistsBijection
<1>3. Ordered(order, S, Cardinality(S))
  BY <1>1, <1>2 DEF Bijection, Injection, Surjection, IsInjective, Ordered
<1> QED BY <1>3

LEMMA OrderCounts ==
  ASSUME NEW S, NEW order, NEW n, Ordered(order, S, n)
  PROVE  Cardinality(S) = n
<1>1. order \in Bijection(1 .. n, S)
  BY DEF Bijection, Injection, Surjection, IsInjective, Ordered
<1>2. n \in Nat /\ ExistsBijection(1 .. n, S)
  BY <1>1 DEF ExistsBijection, Ordered
<1> QED BY <1>2, FS_CountingElements

\* The clients of A come first, then x, then those of B.
LEMMA Arranged ==
  ASSUME NEW A, NEW B, NEW x, IsFiniteSet(A), IsFiniteSet(B),
         A \cap B = {}, x \notin A, x \notin B, NEW S, S = A \cup {x} \cup B
  PROVE  \E order, n, a :
           /\ Ordered(order, S, n) /\ n = Cardinality(S) /\ a \in 1 .. n /\ order[a] = x
           /\ \A i \in 1 .. n : (i < a <=> order[i] \in A) /\ (i > a <=> order[i] \in B)
<1>1. PICK p, k : Ordered(p, A, k)
  BY OrderExists
<1>2. PICK q, l : Ordered(q, B, l)
  BY OrderExists
<1>3. k \in Nat /\ l \in Nat
  BY <1>1, <1>2 DEF Ordered
<1> DEFINE a == k + 1
           n == k + 1 + l
           order == [i \in 1 .. n |-> IF i < a THEN p[i] ELSE IF i = a THEN x ELSE q[i - a]]
<1>4. ASSUME NEW i \in 1 .. n
      PROVE  /\ i < a => i \in 1 .. k /\ order[i] = p[i] /\ order[i] \in A
             /\ i = a => order[i] = x
             /\ i > a => i - a \in 1 .. l /\ order[i] = q[i - a] /\ order[i] \in B
  <2>1. order[i] = IF i < a THEN p[i] ELSE IF i = a THEN x ELSE q[i - a]
    OBVIOUS
  <2>2. CASE i < a
    <3>1. i \in 1 .. k
      BY <1>3, <2>2
    <3> QED BY <1>1, <2>1, <2>2, <3>1 DEF Ordered
  <2>3. CASE i = a
    BY <2>1, <2>3
  <2>4. CASE i > a
    <3>1. i - a \in 1 .. l /\ ~(i < a) /\ i # a
      BY <1>3, <2>4
    <3> QED BY <1>2, <2>1, <3>1 DEF Ordered
  <2> QED BY <1>3, <2>2, <2>3, <2>4
<1>5. a \in 1 .. n /\ n \in Nat /\ DOMAIN order = 1 .. n /\ order = [i \in 1 .. n |-> order[i]]
  BY <1>3
<1>6. ASSUME NEW c \in S PROVE \E i \in 1 .. n : order[i] = c
  <2>1. CASE c \in A
    <3>1. PICK i \in 1 .. k : p[i] = c
      BY <1>1, <2>1 DEF Ordered
    <3>2. i \in 1 .. n /\ i < a
      BY <1>3
    <3> QED BY <1>4, <3>1, <3>2
  <2>2. CASE c = x
    BY <1>4, <1>5, <2>2
  <2>3. CASE c \in B
    <3>1. PICK i \in 1 .. l : q[i] = c
      BY <1>2, <2>3 DEF Ordered
    <3>2. PICK j : j = i + a
      OBVIOUS
    <3>3. j \in 1 .. n /\ j > a /\ j - a = i
      BY <1>3, <3>2
    <3>4. order[j] = q[i]
      <4> HIDE DEF order, a, n
      <4> QED BY <1>4, <3>3
    <3> QED BY <3>1, <3>3, <3>4
  <2> QED BY <2>1, <2>2, <2>3
<1>7. ASSUME NEW i \in 1 .. n PROVE (i < a <=> order[i] \in A) /\ (i > a <=> order[i] \in B)
  <2>1. i < a \/ i = a \/ i > a
    BY <1>3
  <2>2. i < a => ~(i > a) /\ i # a
    BY <1>3
  <2>3. i > a => i # a
    BY <1>3
  <2> HIDE DEF order, a
  <2> QED BY <1>4, <2>1, <2>2, <2>3
<1>8. ASSUME NEW i \in 1 .. n, NEW j \in 1 .. n, order[i] = order[j] PROVE i = j
  <2>1. (i < a <=> j < a) /\ (i > a <=> j > a)
    <3> HIDE DEF order, a, n
    <3> QED BY <1>7, <1>8
  <2>2. CASE i < a
    <3>1. i \in 1 .. k /\ j \in 1 .. k /\ p[i] = p[j]
      <4> HIDE DEF order, a, n
      <4> QED BY <1>4, <1>8, <2>1, <2>2
    <3> QED BY <1>1, <3>1 DEF Ordered
  <2>3. CASE i > a
    <3>1. i - a \in 1 .. l /\ j - a \in 1 .. l /\ q[i - a] = q[j - a]
      <4> HIDE DEF order, a, n
      <4> QED BY <1>4, <1>8, <2>1, <2>3
    <3>2. i - a = j - a
      BY <1>2, <3>1 DEF Ordered
    <3> QED BY <1>3, <3>2
  <2>4. CASE ~(i < a) /\ ~(i > a)
    <3>1. i = a /\ j = a
      BY <1>3, <2>1, <2>4
    <3> QED BY <3>1
  <2> QED BY <2>2, <2>3, <2>4
<1>9. ASSUME NEW i \in 1 .. n PROVE order[i] \in S
  <2>1. i < a \/ i = a \/ i > a
    BY <1>3
  <2> HIDE DEF order, a, n
  <2> QED BY <1>4, <2>1
<1> HIDE DEF order
<1>10. order \in [1 .. n -> S]
  BY <1>5, <1>9
<1>11. Ordered(order, S, n)
  <2> HIDE DEF n
  <2> QED BY <1>5, <1>6, <1>8, <1>10 DEF Ordered
<1>12. n = Cardinality(S)
  BY <1>11, OrderCounts
<1>13. order[a] = x
  BY <1>4, <1>5
<1> HIDE DEF a, n
<1> QED BY <1>5, <1>7, <1>11, <1>12, <1>13

\* Any order of the clients gives an outcome of sendQueue,
LEMMA LoopsSound ==
  ASSUME NEW marks, IsMarks(marks), NEW order, NEW again, NEW n, n >= 1,
         Ordered(order, DOMAIN marks, n), Ordered(again, DOMAIN marks, n),
         NEW o, o = Loops(marks, order, again), NEW late, late = Late(marks, order, n),
         NEW k, k = again[1]
  PROVE  [to |-> ToSet(o.to), marks |-> o.marks] \in sendQueue(marks)
<1>0. n \in Nat /\ 1 \in 1 .. n /\ k \in DOMAIN marks
  BY DEF Ordered
<1>1. /\ late # {} => /\ ToSet(o.to) = late
                      /\ o.marks = [c \in DOMAIN marks |-> c \in late /\ ~marks[c]]
      /\ late = {} => ToSet(o.to) = {k} /\ o.marks = [c \in DOMAIN marks |-> c = k]
  <2>1. RunIs(o, marks, late, k)
    BY LoopsAre
  <2> QED BY <2>1 DEF RunIs
<1> DEFINE Marked == {i \in 1 .. n : marks[order[i]]}
<1>2. \A j \in 1 .. n, i \in Marked : i < j => order[j] \in late
  <2> TAKE j \in 1 .. n, i \in Marked
  <2> HAVE i < j
  <2>1. i \in 1 .. j - 1
    OBVIOUS
  <2> QED BY <2>1 DEF Behind, Late
<1>3. late \subseteq DOMAIN marks
  BY DEF Late, Ordered
<1>4. CASE late # {}
  <2>1. Marked # {} /\ Marked \subseteq Nat
    <3>1. PICK j \in 1 .. n : Behind(marks, order, j)
      BY <1>4 DEF Late
    <3>2. PICK i \in 1 .. j - 1 : marks[order[i]]
      BY <3>1 DEF Behind
    <3>3. i \in 1 .. n
      BY <1>0
    <3> QED BY <3>2, <3>3
  <2>2. PICK p \in Marked : \A i \in Marked : p <= i
    <3> HIDE DEF Marked
    <3> QED BY <2>1, Least
  <2> DEFINE t == order[p]
  <2>3. p \in 1 .. n /\ marks[t] /\ t \in DOMAIN marks
    BY <2>2 DEF Ordered
  <2>4. t \notin late
    <3> SUFFICES ASSUME t \in late PROVE FALSE
      OBVIOUS
    <3>1. PICK j \in 1 .. n : Behind(marks, order, j) /\ order[j] = order[p]
      BY DEF Late
    <3>2. j = p
      BY <2>3, <3>1 DEF Ordered
    <3>3. PICK i \in 1 .. p - 1 : marks[order[i]]
      BY <3>1, <3>2 DEF Behind
    <3>4. i \in Marked /\ i < p
      BY <1>0, <2>3, <3>3
    <3> QED BY <2>2, <2>3, <3>4
  <2>5. ASSUME NEW c \in DOMAIN marks \ {t}, marks[c] PROVE c \in late
    <3>1. PICK j \in 1 .. n : order[j] = c
      BY <2>5 DEF Ordered
    <3>2. j \in Marked /\ j # p
      BY <2>5, <3>1
    <3>3. p < j
      BY <2>2, <2>3, <3>2
    <3> QED BY <1>2, <2>2, <3>1, <3>3
  <2> DEFINE Later(u) == {x \in SUBSET (DOMAIN marks \ {u}) :
                            x # {} /\ \A c \in DOMAIN marks \ {u} : marks[c] => c \in x}
             Serving(x) == [to |-> x, marks |-> [c \in DOMAIN marks |-> c \in x /\ ~marks[c]]]
             Holders == {c \in DOMAIN marks : marks[c]}
  <2> HIDE DEF t, Marked
  <2>6. t \in Holders /\ late \in Later(t)
    BY <1>3, <1>4, <2>3, <2>4, <2>5
  <2>7. AfterMark(marks) = UNION {{Serving(x) : x \in Later(u)} : u \in Holders}
    BY Zenon DEF AfterMark
  <2>8. [to |-> ToSet(o.to), marks |-> o.marks] = Serving(late)
    BY <1>1, <1>4
  <2> HIDE DEF Later, Serving, Holders
  <2>9. Serving(late) \in {Serving(x) : x \in Later(t)}
    BY <2>6
  <2>10. Serving(late) \in AfterMark(marks)
    BY <2>6, <2>7, <2>9, Zenon
  <2> QED BY <2>8, <2>10 DEF sendQueue
<1>5. CASE late = {}
  <2>1. ASSUME NEW c \in DOMAIN marks, NEW d \in DOMAIN marks, marks[c], marks[d] PROVE c = d
    <3>1. PICK i \in 1 .. n : order[i] = c
      BY DEF Ordered
    <3>2. PICK j \in 1 .. n : order[j] = d
      BY DEF Ordered
    <3>3. i \in Marked /\ j \in Marked
      BY <2>1, <3>1, <3>2
    <3>4. ~(i < j) /\ ~(j < i)
      <4> HIDE DEF Marked
      <4> QED BY <1>2, <1>5, <3>3
    <3> QED BY <1>0, <3>1, <3>2, <3>4
  <2>2. [to |-> ToSet(o.to), marks |-> o.marks]
          = [to |-> {k}, marks |-> [c \in DOMAIN marks |-> c = k]]
    BY <1>1, <1>5
  <2>3. [to |-> {k}, marks |-> [c \in DOMAIN marks |-> c = k]] \in FromStart(marks)
    BY <1>0, <2>1 DEF FromStart
  <2> QED BY <2>2, <2>3 DEF sendQueue
<1> QED BY <1>4, <1>5

\* and every outcome of sendQueue comes from some order.
LEMMA LoopsComplete ==
  ASSUME NEW marks, IsMarks(marks), IsFiniteSet(DOMAIN marks), NEW o \in sendQueue(marks)
  PROVE  \E order, again \in SetToSeqs(DOMAIN marks) :
           LET run == Loops(marks, order, again)
           IN  o = [to |-> ToSet(run.to), marks |-> run.marks]
<1> DEFINE all == DOMAIN marks
           N == Cardinality(all)
<1>1. CASE o \in AfterMark(marks)
  <2>1. PICK t \in {c \in all : marks[c]} : \E after \in SUBSET (all \ {t}) :
          /\ after # {} /\ \A c \in all \ {t} : marks[c] => c \in after
          /\ o = [to |-> after, marks |-> [c \in all |-> c \in after /\ ~marks[c]]]
    BY <1>1 DEF AfterMark
  <2>2. PICK after \in SUBSET (all \ {t}) :
          /\ after # {} /\ \A c \in all \ {t} : marks[c] => c \in after
          /\ o = [to |-> after, marks |-> [c \in all |-> c \in after /\ ~marks[c]]]
    BY <2>1
  <2> DEFINE before == (all \ after) \ {t}
  <2>3. /\ IsFiniteSet(before) /\ IsFiniteSet(after) /\ before \cap after = {}
        /\ t \notin before /\ t \notin after /\ all = before \cup {t} \cup after
    <3>1. before \subseteq all /\ after \subseteq all
      OBVIOUS
    <3> QED BY <3>1, FS_Subset
  <2>4. PICK order, n, a :
          /\ Ordered(order, all, n) /\ n = N /\ a \in 1 .. n /\ order[a] = t
          /\ \A i \in 1 .. n : (i < a <=> order[i] \in before) /\ (i > a <=> order[i] \in after)
    <3> HIDE DEF before, N, all
    <3>1. \E order, n, a :
            /\ Ordered(order, all, n) /\ n = Cardinality(all) /\ a \in 1 .. n /\ order[a] = t
            /\ \A i \in 1 .. n : (i < a <=> order[i] \in before) /\ (i > a <=> order[i] \in after)
      BY <2>3, Arranged
    <3> QED BY <3>1 DEF N
  <2>5. n \in Nat /\ n >= 1 /\ DOMAIN order = 1 .. n
    BY <2>4 DEF Ordered
  <2>6. ASSUME NEW j \in 1 .. n PROVE Behind(marks, order, j) <=> order[j] \in after
    <3>1. order[j] \in after <=> j > a
      BY <2>4
    <3>2. ASSUME j > a PROVE Behind(marks, order, j)
      <4>1. a \in 1 .. j - 1 /\ marks[order[a]]
        BY <2>1, <2>4, <2>5, <3>2
      <4> QED BY <4>1 DEF Behind
    <3>3. ASSUME Behind(marks, order, j) PROVE j > a
      <4>1. PICK i \in 1 .. j - 1 : marks[order[i]]
        BY <3>3 DEF Behind
      <4>2. i \in 1 .. n /\ order[i] \in all
        BY <2>4, <2>5, <4>1 DEF Ordered
      <4>3. order[i] \notin before
        BY <2>2, <4>1
      <4>4. ~(i < a)
        BY <2>4, <4>2, <4>3
      <4> QED BY <2>4, <2>5, <4>2, <4>4
    <3> QED BY <3>1, <3>2, <3>3
  <2>7. Late(marks, order, n) = after
    <3>1. \A c \in after : \E j \in 1 .. n : order[j] = c
      BY <2>4 DEF Ordered
    <3> QED BY <2>6, <3>1 DEF Late
  <2>8. PICK run : run = Loops(marks, order, order)
    OBVIOUS
  <2>9. ToSet(run.to) = after /\ run.marks = [c \in all |-> c \in after /\ ~marks[c]]
    <3>1. PICK k : k = order[1]
      OBVIOUS
    <3>2. Ordered(order, DOMAIN marks, n) /\ after # {}
      BY <2>2, <2>4
    <3>3. RunIs(run, marks, after, k)
      BY <2>5, <2>7, <2>8, <3>1, <3>2, LoopsAre
    <3> QED BY <3>2, <3>3 DEF RunIs
  <2>10. order \in SetToSeqs(all)
    BY <2>4, OrderedAll
  <2>11. o = [to |-> ToSet(run.to), marks |-> run.marks]
    BY <2>2, <2>9
  <2> QED BY <2>8, <2>10, <2>11
<1>2. CASE o \in FromStart(marks)
  <2>1. PICK k \in all : /\ o = [to |-> {k}, marks |-> [c \in all |-> c = k]]
                         /\ \A c, d \in all : marks[c] /\ marks[d] => c = d
    BY <1>2 DEF FromStart
  <2>2. PICK x \in all : \A c \in all : marks[c] => c = x
    BY <2>1
  <2>3. /\ \A S \in SUBSET all : IsFiniteSet(S)
        /\ IsFiniteSet({})
    BY FS_Subset
  <2>4. PICK order, n, a :
          /\ Ordered(order, all, n) /\ n = N /\ a \in 1 .. n /\ order[a] = x
          /\ \A i \in 1 .. n : (i < a <=> order[i] \in all \ {x}) /\ (i > a <=> order[i] \in {})
    <3> DEFINE others == all \ {x}
               none == {}
    <3>1. /\ IsFiniteSet(others) /\ IsFiniteSet(none) /\ others \cap none = {}
          /\ x \notin others /\ x \notin none /\ all = others \cup {x} \cup none
      BY <2>3
    <3> HIDE DEF all, N, others, none
    <3>2. \E order, n, a :
            /\ Ordered(order, all, n) /\ n = Cardinality(all) /\ a \in 1 .. n /\ order[a] = x
            /\ \A i \in 1 .. n : (i < a <=> order[i] \in others) /\ (i > a <=> order[i] \in none)
      BY <3>1, Arranged
    <3> QED BY <3>2 DEF N, others, none
  <2>5. PICK again, m, b :
          /\ Ordered(again, all, m) /\ m = N /\ b \in 1 .. m /\ again[b] = k
          /\ \A i \in 1 .. m : (i < b <=> again[i] \in {}) /\ (i > b <=> again[i] \in all \ {k})
    <3> DEFINE others == all \ {k}
               none == {}
    <3>1. /\ IsFiniteSet(none) /\ IsFiniteSet(others) /\ none \cap others = {}
          /\ k \notin none /\ k \notin others /\ all = none \cup {k} \cup others
      BY <2>3
    <3> HIDE DEF all, N, others, none
    <3>2. \E again, m, b :
            /\ Ordered(again, all, m) /\ m = Cardinality(all) /\ b \in 1 .. m /\ again[b] = k
            /\ \A i \in 1 .. m : (i < b <=> again[i] \in none) /\ (i > b <=> again[i] \in others)
      BY <3>1, Arranged
    <3> QED BY <3>2 DEF N, others, none
  <2>6. n \in Nat /\ n >= 1 /\ m = n
    BY <2>4, <2>5 DEF Ordered
  <2>7. again[1] = k
    <3>1. 1 \in 1 .. m /\ ~(1 < b)
      BY <2>5, <2>6
    <3>2. b = 1
      BY <2>5, <2>6, <3>1
    <3> QED BY <2>5, <3>2
  <2>8. Late(marks, order, n) = {}
    <3> SUFFICES ASSUME NEW j \in 1 .. n, Behind(marks, order, j) PROVE FALSE
      BY DEF Late
    <3>1. PICK i \in 1 .. j - 1 : marks[order[i]]
      BY DEF Behind
    <3>2. i \in 1 .. n /\ order[i] \in all
      BY <2>4, <2>6 DEF Ordered
    <3>3. order[i] = x
      BY <2>2, <3>1, <3>2
    <3>4. i = a
      BY <2>4, <3>2, <3>3 DEF Ordered
    <3>5. j > a
      BY <2>4, <2>6, <3>4
    <3> QED BY <2>4, <3>5
  <2>9. PICK run : run = Loops(marks, order, again)
    OBVIOUS
  <2>10. ToSet(run.to) = {k} /\ run.marks = [c \in all |-> c = k]
    <3>1. Ordered(order, DOMAIN marks, n) /\ Ordered(again, DOMAIN marks, n)
      BY <2>4, <2>5, <2>6
    <3>2. PICK none : none = {}
      OBVIOUS
    <3>3. PICK z : z = again[1]
      OBVIOUS
    <3>4. Late(marks, order, n) = none
      BY <2>8, <3>2
    <3>5. RunIs(run, marks, none, z)
      BY <2>6, <2>9, <3>1, <3>3, <3>4, LoopsAre
    <3> QED BY <2>7, <3>2, <3>3, <3>5 DEF RunIs
  <2>11. order \in SetToSeqs(all) /\ again \in SetToSeqs(all)
    BY <2>4, <2>5, OrderedAll
  <2>12. o = [to |-> ToSet(run.to), marks |-> run.marks]
    BY <2>1, <2>10
  <2> QED BY <2>9, <2>11, <2>12
<1> QED BY <1>1, <1>2 DEF sendQueue

\* Whatever the orders in which the two loops come to the clients, the call
\* ends as GoImq!sendQueue says, serving nobody twice, and each outcome
\* sendQueue has is that of some orders.
THEOREM LoopsHaveClosedForm == Spec => []ClosedForm
<1>1. QueueInv => ClosedForm
  <2> SUFFICES ASSUME QueueInv PROVE ClosedForm
    OBVIOUS
  <2>0. CASE ~(pc = "idle" /\ Members # {})
    BY <2>0 DEF ClosedForm
  <2> SUFFICES ASSUME Members # {} PROVE ClosedForm
    BY <2>0
  <2>1. PICK marks : marks = subscribers[Topic]
    OBVIOUS
  <2>2. IsMarks(marks) /\ Members = DOMAIN marks /\ IsFiniteSet(DOMAIN marks)
    BY <2>1 DEF QueueInv, TypeOK, IsTable, Members, Subscribers
  <2> DEFINE n == Cardinality(DOMAIN marks)
             Seen(o) == [to |-> ToSet(o.to), marks |-> o.marks]
  <2>3. n \in Nat /\ n >= 1
    <3>1. n \in Nat /\ n # 0
      BY <2>2, FS_CardinalityType, FS_EmptySet
    <3> QED BY <3>1
  <2>4. ASSUME NEW order \in SetToSeqs(DOMAIN marks), NEW again \in SetToSeqs(DOMAIN marks),
               NEW o, o = Loops(marks, order, again)
        PROVE  IsInjective(o.to) /\ Seen(o) \in sendQueue(marks)
    <3>1. Ordered(order, DOMAIN marks, n) /\ Ordered(again, DOMAIN marks, n)
      BY <2>2, OrderedAll
    <3>2. PICK late, k : late = Late(marks, order, n) /\ k = again[1]
      OBVIOUS
    <3> HIDE DEF n
    <3>3. RunIs(o, marks, late, k)
      BY <2>2, <2>3, <2>4, <3>1, <3>2, LoopsAre
    <3>4. [to |-> ToSet(o.to), marks |-> o.marks] \in sendQueue(marks)
      BY <2>2, <2>3, <2>4, <3>1, <3>2, LoopsSound
    <3> QED BY <3>3, <3>4 DEF RunIs
  <2>5. ASSUME NEW o \in sendQueue(marks)
        PROVE  \E order, again \in SetToSeqs(DOMAIN marks) : o = Seen(Loops(marks, order, again))
    BY <2>2, LoopsComplete
  <2> HIDE DEF Seen
  <2> DEFINE outcomes == {Loops(subscribers[Topic], order, again) :
                            order, again \in SetToSeqs(Members)}
  <2>6. \A o \in outcomes : IsInjective(o.to) /\ Seen(o) \in sendQueue(marks)
    BY <2>1, <2>2, <2>4
  <2>7. {Seen(o) : o \in outcomes} = sendQueue(subscribers[Topic])
    BY <2>1, <2>2, <2>5, <2>6
  <2>8. \A o \in outcomes : IsInjective(o.to)
    BY <2>6
  <2> QED BY <2>7, <2>8 DEF ClosedForm, Seen
<1> QED BY <1>1, QueueInvariance, PTL
=============================================================================
