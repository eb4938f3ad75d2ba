---------------------------- MODULE TsPageProofs ----------------------------
(***************************************************************************)
(* Proofs about TsPage.  All but the loading and reloading of a page are   *)
(* steps that TsNetProofs and GoOnceProofs know.                           *)
(***************************************************************************)
EXTENDS TsPage, TsNetProofs, GoOnceProofs

LEMMA PagesAreNodes == Page \subseteq Browser /\ Browser \subseteq Node
BY PageAssumption, BrowserAssumption

LEMMA PageSteps ==
  ASSUME [PageNext]_vars
  PROVE  \/ [TsNext]_vars
         \/ \E n \in Page, k \in Node : Load(n, k) \/ Reload(n, k)
BY PagesAreNodes DEF PageNext, onmessage, TsNext

(***************************************************************************)
(* Loading a page makes three requests at once: the Syn of the server and  *)
(* the two of the script.                                                  *)
(***************************************************************************)
LoadSyn(k) == SynMsg(NextId, name[k])

LoadHey(n) == req(NextId + 1, name[n], NoName, Root)

LoadHello(n) == subShipped(NextId + 1 + 1, name[n], Hello)

LoadCall(n, k, m, cb) == [node |-> n, via |-> k, msg |-> m, cb |-> cb]

LoadCalls(n, k) ==
  <<LoadCall(k, n, LoadSyn(k), TRUE), LoadCall(n, k, LoadHey(n), FALSE),
    LoadCall(n, k, LoadHello(n), TRUE)>>

LEMMA LoadIs ==
  ASSUME NEW n, NEW k, Load(n, k)
  PROVE  /\ k \in Program[n].dials /\ NextId + 1 + 1 \in Id
         /\ conn' = conn \cup {<<n, k>>, <<k, n>>}
         /\ issued' = issued \o LoadCalls(n, k)
         /\ messages' = [messages EXCEPT ![k] = @ \cup {NextId}, ![n] = @ \cup {NextId + 1 + 1}]
         /\ net' = [net EXCEPT ![<<n, k>>] = @ \o <<LoadHey(n), LoadHello(n)>>,
                               ![<<k, n>>] = Append(@, LoadSyn(k))]
         /\ handlers' = [handlers EXCEPT ![n] = @ \cup {Hello}]
         /\ UNCHANGED <<name, brokerHandler, relayHandler, subscribers, webSockets, faults,
                        answered, handled>>
BY DEF Load, onopen, LoadCalls, LoadCall, LoadSyn, LoadHey, LoadHello

LEMMA LoadMessages ==
  ASSUME StateOK, NEW n \in Node, NEW k \in Node, NextId + 1 + 1 \in Id
  PROVE  /\ NextId \in Id /\ NextId + 1 \in Id
         /\ LoadSyn(k) \in Asked(NextId) /\ LoadHey(n) \in Asked(NextId + 1)
         /\ LoadHello(n) \in Asked(NextId + 1 + 1)
<1>1. Len(issued) \in Nat
  BY LenProperties DEF StateOK
<1>2. NextId \in Id /\ NextId + 1 \in Id
  BY <1>1, MaxIdAssumption DEF Id, NextId
<1>3. name[n] \in Name /\ name[k] \in Name /\ Root \in Path /\ Hello \in Path
  BY PageAssumption, HelloAssumption DEF StateOK, TablesOK
<1>4. LoadSyn(k) \in Asked(NextId)
  BY <1>2, <1>3, SynMsgAsked DEF LoadSyn
<1>5. LoadHey(n) \in Asked(NextId + 1)
  BY <1>2, <1>3, TsRequestsTyped DEF LoadHey
<1>6. LoadHello(n) \in Asked(NextId + 1 + 1)
  BY <1>3, TsRequestsTyped DEF LoadHello
<1> QED BY <1>2, <1>4, <1>5, <1>6

LEMMA LoadIssues ==
  ASSUME StateOK, NEW n \in Node, NEW k \in Node, Load(n, k)
  PROVE  /\ issued' \in Seq(CallRecord) /\ Len(issued') <= MaxId
         /\ \A i \in Known : i \in Known' /\ issued'[i] = issued[i]
         /\ {NextId, NextId + 1, NextId + 1 + 1} \subseteq Known'
         /\ issued'[NextId] = LoadCall(k, n, LoadSyn(k), TRUE)
         /\ issued'[NextId + 1] = LoadCall(n, k, LoadHey(n), FALSE)
         /\ issued'[NextId + 1 + 1] = LoadCall(n, k, LoadHello(n), TRUE)
<1> DEFINE three == LoadCalls(n, k)
<1>1. /\ LoadSyn(k) \in Imq /\ LoadHey(n) \in Imq /\ LoadHello(n) \in Imq
      /\ NextId + 1 + 1 \in Id /\ issued' = issued \o three
  <2>1. NextId + 1 + 1 \in Id /\ issued' = issued \o three
    BY LoadIs
  <2>2. /\ LoadSyn(k) \in Asked(NextId) /\ LoadHey(n) \in Asked(NextId + 1)
        /\ LoadHello(n) \in Asked(NextId + 1 + 1)
    BY <2>1, LoadMessages
  <2> QED BY <2>1, <2>2 DEF Asked
<1>2. three \in Seq(CallRecord)
  BY <1>1 DEF LoadCalls, LoadCall, CallRecord
<1>3. /\ Len(three) = 3 /\ three[1] = LoadCall(k, n, LoadSyn(k), TRUE)
      /\ three[2] = LoadCall(n, k, LoadHey(n), FALSE)
      /\ three[3] = LoadCall(n, k, LoadHello(n), TRUE)
  BY DEF LoadCalls
<1> HIDE DEF three
<1>4. issued \in Seq(CallRecord) /\ Len(issued) \in Nat
  BY LenProperties DEF StateOK
<1>5. /\ issued' \in Seq(CallRecord) /\ Len(issued') = Len(issued) + 3
      /\ \A i \in 1 .. Len(issued) + 3 :
           issued'[i] = IF i <= Len(issued) THEN issued[i] ELSE three[i - Len(issued)]
  <2>1. /\ issued \o three \in Seq(CallRecord) /\ Len(issued \o three) = Len(issued) + Len(three)
        /\ \A i \in 1 .. Len(issued) + Len(three) :
             (issued \o three)[i] = IF i <= Len(issued) THEN issued[i] ELSE three[i - Len(issued)]
    BY <1>2, <1>4, ConcatProperties
  <2> QED BY <1>1, <1>3, <2>1
<1>6. /\ NextId = Len(issued) + 1 /\ NextId + 1 = Len(issued) + 2
      /\ NextId + 1 + 1 = Len(issued) + 3 /\ Len(issued) + 3 <= MaxId
  BY <1>1, <1>4, MaxIdAssumption DEF NextId, Id
<1>7. /\ issued'[Len(issued) + 1] = three[1] /\ issued'[Len(issued) + 2] = three[2]
      /\ issued'[Len(issued) + 3] = three[3]
  BY <1>4, <1>5
<1>8. /\ issued'[NextId] = LoadCall(k, n, LoadSyn(k), TRUE)
      /\ issued'[NextId + 1] = LoadCall(n, k, LoadHey(n), FALSE)
      /\ issued'[NextId + 1 + 1] = LoadCall(n, k, LoadHello(n), TRUE)
  BY <1>3, <1>6, <1>7
<1>9. {NextId, NextId + 1, NextId + 1 + 1} \subseteq Known'
  BY <1>4, <1>5, <1>6 DEF Known
<1>10. \A i \in Known : i \in Known' /\ issued'[i] = issued[i]
  BY <1>4, <1>5 DEF Known
<1> QED BY <1>5, <1>6, <1>8, <1>9, <1>10

LEMMA TwoAppended ==
  ASSUME NEW S, NEW q \in Seq(S), NEW a \in S, NEW b \in S
  PROVE  q \o <<a, b>> = Append(Append(q, a), b)
<1>1. <<a>> \in Seq(S) /\ <<b>> \in Seq(S) /\ <<a>> \o <<b>> = <<a, b>>
  <2>1. <<a>> \in Seq(S) /\ <<b>> \in Seq(S) /\ <<a, b>> \in Seq(S)
    OBVIOUS
  <2>2. /\ <<a>> \o <<b>> \in Seq(S) /\ Len(<<a>> \o <<b>>) = 2
        /\ (<<a>> \o <<b>>)[1] = a /\ (<<a>> \o <<b>>)[2] = b
    BY <2>1, ConcatProperties
  <2>3. \A i \in 1 .. 2 : (<<a>> \o <<b>>)[i] = <<a, b>>[i]
    BY <2>2
  <2> QED BY <2>1, <2>2, <2>3, SeqEqual
<1>2. Append(q, a) = q \o <<a>> /\ Append(q, a) \in Seq(S)
  BY AppendIsConcat, AppendProperties
<1>3. Append(Append(q, a), b) = (q \o <<a>>) \o <<b>>
  BY <1>2, AppendIsConcat
<1>4. (q \o <<a>>) \o <<b>> = q \o (<<a>> \o <<b>>)
  BY <1>1, ConcatAssociative
<1> QED BY <1>1, <1>3, <1>4

LEMMA LoadNet ==
  ASSUME NEW S, net \in [Link -> Seq(S)], NEW n \in Node, NEW k \in Node, Load(n, k),
         LoadSyn(k) \in S, LoadHey(n) \in S, LoadHello(n) \in S
  PROVE  net' \in [Link -> Seq(S)]
<1>1. net' = [net EXCEPT ![<<n, k>>] = @ \o <<LoadHey(n), LoadHello(n)>>,
                         ![<<k, n>>] = Append(@, LoadSyn(k))]
  BY LoadIs
<1>2. \A q \in Seq(S) : q \o <<LoadHey(n), LoadHello(n)>> \in Seq(S) /\ Append(q, LoadSyn(k)) \in Seq(S)
  <2>1. <<LoadHey(n), LoadHello(n)>> \in Seq(S)
    OBVIOUS
  <2> QED BY <2>1, ConcatProperties, AppendProperties
<1>3. <<n, k>> \in Link /\ <<k, n>> \in Link
  BY DEF Link
<1> QED BY <1>1, <1>2, <1>3

(***************************************************************************)
(* Type correctness.                                                       *)
(***************************************************************************)
LEMMA LoadTyped ==
  ASSUME TsInv, NEW n \in Node, NEW k \in Node, Load(n, k)
  PROVE  TsInv'
<1>1. StateOK /\ net \in Queues /\ answered \in [Id -> Seq(Imq)] /\ PendingOwned
  BY TypeParts DEF TsInv
<1>2. /\ NextId + 1 + 1 \in Id /\ NextId \in Id
      /\ LoadSyn(k) \in Imq /\ LoadHey(n) \in Imq /\ LoadHello(n) \in Imq
  <2>1. NextId + 1 + 1 \in Id
    BY LoadIs
  <2>2. /\ NextId \in Id /\ LoadSyn(k) \in Asked(NextId) /\ LoadHey(n) \in Asked(NextId + 1)
        /\ LoadHello(n) \in Asked(NextId + 1 + 1)
    BY <1>1, <2>1, LoadMessages
  <2> QED BY <2>1, <2>2 DEF Asked
<1>3. /\ messages' = [messages EXCEPT ![k] = @ \cup {NextId}, ![n] = @ \cup {NextId + 1 + 1}]
      /\ handlers' = [handlers EXCEPT ![n] = @ \cup {Hello}]
      /\ conn' = conn \cup {<<n, k>>, <<k, n>>}
      /\ UNCHANGED <<name, brokerHandler, relayHandler, subscribers, webSockets, faults,
                     answered, handled>>
  BY LoadIs
<1>4. messages' \in [Node -> SUBSET Id] /\ handlers' \in [Node -> SUBSET Path]
  BY <1>1, <1>2, <1>3, HelloAssumption DEF StateOK, TablesOK
<1>5. conn' \subseteq Link /\ issued' \in Seq(CallRecord) /\ Len(issued') <= MaxId
  <2>1. issued' \in Seq(CallRecord) /\ Len(issued') <= MaxId
    BY <1>1, LoadIssues
  <2> QED BY <1>1, <1>3, <2>1 DEF StateOK, Link
<1>6. net' \in Queues
  BY <1>1, <1>2, LoadNet DEF Queues
<1>7. TypeOK'
  BY <1>1, <1>3, <1>4, <1>5, <1>6 DEF StateOK, TypeOK, TablesOK, TransportOK, HistoryOK, IsTable,
     PartialFunction, Queues
<1>8. ASSUME NEW x \in Node, NEW i \in messages'[x]
      PROVE  i \in Known' /\ issued'[i].node = x
  <2>1. /\ \A j \in Known : j \in Known' /\ issued'[j] = issued[j]
        /\ {NextId, NextId + 1 + 1} \subseteq Known'
        /\ issued'[NextId].node = k /\ issued'[NextId + 1 + 1].node = n
    <3>1. /\ \A j \in Known : j \in Known' /\ issued'[j] = issued[j]
          /\ {NextId, NextId + 1 + 1} \subseteq Known'
          /\ issued'[NextId] = LoadCall(k, n, LoadSyn(k), TRUE)
          /\ issued'[NextId + 1 + 1] = LoadCall(n, k, LoadHello(n), TRUE)
      BY <1>1, LoadIssues
    <3> QED BY <3>1 DEF LoadCall
  <2>2. i \in messages[x] \/ (x = k /\ i = NextId) \/ (x = n /\ i = NextId + 1 + 1)
    BY <1>1, <1>3, <1>8 DEF StateOK, TablesOK
  <2> QED BY <1>1, <2>1, <2>2 DEF PendingOwned
<1> QED BY <1>7, <1>8 DEF TsInv, PendingOwned

LEMMA PrefixOf ==
  ASSUME NEW S, NEW q \in Seq(S), NEW sent \in 0 .. Len(q)
  PROVE  /\ SubSeq(q, 1, sent) \in Seq(S)
         /\ InFlight(SubSeq(q, 1, sent)) \subseteq InFlight(q)
<1>1. /\ SubSeq(q, 1, sent) \in Seq(S) /\ Len(SubSeq(q, 1, sent)) = sent
      /\ \A i \in 1 .. sent : SubSeq(q, 1, sent)[i] = q[i]
  OBVIOUS
<1> QED BY <1>1 DEF InFlight

LEMMA ReloadNet ==
  ASSUME NEW S, net \in [Link -> Seq(S)], NEW n \in Node, NEW k \in Node, Reload(n, k)
  PROVE  /\ net' \in [Link -> Seq(S)]
         /\ \A l \in Link : InFlight(net'[l]) \subseteq InFlight(net[l])
         /\ \A l \in Link : l # <<n, k>> /\ l # <<k, n>> => net'[l] = net[l]
<1>1. PICK sent \in 0 .. Len(net[<<n, k>>]) :
        net' = [net EXCEPT ![<<n, k>>] = SubSeq(@, 1, sent), ![<<k, n>>] = << >>]
  BY DEF Reload
<1>2. <<n, k>> \in Link /\ <<k, n>> \in Link
  BY DEF Link
<1>3. \A l \in Link : l # <<n, k>> /\ l # <<k, n>> => net'[l] = net[l]
  BY <1>1
<1>4. << >> \in Seq(S) /\ InFlight(<< >>) = {}
  BY EmptySeq DEF InFlight
<1>5. CASE <<n, k>> # <<k, n>>
  <2>1. net'[<<k, n>>] = << >> /\ net'[<<n, k>>] = SubSeq(net[<<n, k>>], 1, sent)
    BY <1>1, <1>2, <1>5
  <2>2. /\ SubSeq(net[<<n, k>>], 1, sent) \in Seq(S)
        /\ InFlight(SubSeq(net[<<n, k>>], 1, sent)) \subseteq InFlight(net[<<n, k>>])
    BY <1>2, PrefixOf
  <2> QED BY <1>1, <1>2, <1>3, <1>4, <2>1, <2>2
<1>6. CASE <<n, k>> = <<k, n>>
  <2>1. net'[<<n, k>>] = << >>
    BY <1>1, <1>2, <1>6
  <2> QED BY <1>1, <1>2, <1>3, <1>4, <1>6, <2>1
<1> QED BY <1>5, <1>6

LEMMA ReloadTyped ==
  ASSUME TsInv, NEW n \in Node, NEW k \in Node, Reload(n, k)
  PROVE  TsInv'
<1>1. StateOK /\ net \in Queues /\ answered \in [Id -> Seq(Imq)] /\ PendingOwned
  BY TypeParts DEF TsInv
<1>2. net' \in Queues
  BY <1>1, ReloadNet DEF Queues
<1>3. handlers' \in [Node -> SUBSET Path] /\ messages' \in [Node -> SUBSET Id]
  BY <1>1 DEF Reload, StateOK, TablesOK
<1>4. conn' \subseteq Link
  BY <1>1 DEF Reload, StateOK
<1>5. TypeOK'
  BY <1>1, <1>2, <1>3, <1>4 DEF Reload, StateOK, TypeOK, TablesOK, TransportOK, HistoryOK,
     IsTable, PartialFunction, Queues
<1>6. PendingOwned'
  BY <1>1 DEF Reload, PendingOwned, Known, StateOK, TablesOK
<1> QED BY <1>5, <1>6 DEF TsInv

\* Every variable keeps its type in a network with pages, however often they
\* are reloaded, and nobody waits for the answer to somebody else's request.
THEOREM PageInvariance == PageSpec => []TsInv
<1>1. Init => TsInv
  BY InitTyped DEF Init, TsInv, PendingOwned
<1>2. TsInv /\ [PageNext]_vars => TsInv'
  <2> SUFFICES ASSUME TsInv, [PageNext]_vars PROVE TsInv'
    OBVIOUS
  <2>1. CASE [TsNext]_vars
    BY <2>1, TsNextTyped, OwnedStep DEF TsInv
  <2>2. CASE \E n \in Page, k \in Node : Load(n, k) \/ Reload(n, k)
    BY <2>2, PagesAreNodes, LoadTyped, ReloadTyped
  <2> QED BY <2>1, <2>2, PageSteps
<1> QED BY <1>1, <1>2, PTL DEF PageSpec

\* Every variable keeps its type in a network with pages.
THEOREM PageTypeCorrect == PageSpec => []TypeOK
<1>1. TsInv => TypeOK
  BY DEF TsInv
<1> QED BY <1>1, PageInvariance, PTL

(***************************************************************************)
(* Callbacks.  The calls of the load before are forgotten by the page, but *)
(* their answers may still come.                                           *)
(***************************************************************************)
LEMMA LoadTells ==
  ASSUME TypeOK, TellInv, NEW n \in Node, NEW k \in Node, Load(n, k)
  PROVE  TellInv'
<1> DEFINE S == TellingOf(issued')
<1>1. StateOK /\ NextId + 1 + 1 \in Id /\ UNCHANGED answered
  BY TypeParts, LoadIs
<1>2. /\ LoadSyn(k) \in Asked(NextId) /\ LoadHey(n) \in Asked(NextId + 1)
      /\ LoadHello(n) \in Asked(NextId + 1 + 1)
  BY <1>1, LoadMessages
<1>3. /\ \A i \in Known : i \in Known' /\ issued'[i] = issued[i]
      /\ {NextId, NextId + 1, NextId + 1 + 1} \subseteq Known'
      /\ issued'[NextId].msg = LoadSyn(k) /\ issued'[NextId + 1].msg = LoadHey(n)
      /\ issued'[NextId + 1 + 1].msg = LoadHello(n)
  <2>1. /\ \A i \in Known : i \in Known' /\ issued'[i] = issued[i]
        /\ {NextId, NextId + 1, NextId + 1 + 1} \subseteq Known'
        /\ issued'[NextId] = LoadCall(k, n, LoadSyn(k), TRUE)
        /\ issued'[NextId + 1] = LoadCall(n, k, LoadHey(n), FALSE)
        /\ issued'[NextId + 1 + 1] = LoadCall(n, k, LoadHello(n), TRUE)
    BY <1>1, LoadIssues
  <2> QED BY <2>1 DEF LoadCall
<1>4. LoadSyn(k) \in S /\ LoadHey(n) \in S /\ LoadHello(n) \in S
  BY <1>2, <1>3 DEF Asked, TellingOf, Tells, Known
<1>5. TellingOf(issued) \subseteq S
  BY <1>3 DEF TellingOf, Tells, Known
<1>6. net' \in [Link -> Seq(S)]
  <2>1. Seq(TellingOf(issued)) \subseteq Seq(S)
    BY <1>5, SeqMonotonic
  <2>2. net \in [Link -> Seq(S)]
    BY <2>1 DEF TellInv
  <2> HIDE DEF S
  <2> QED BY <1>4, <2>2, LoadNet
<1>7. \A i \in Id : answered'[i] \in Seq(ReplyTo(issued', i))
  <2>1. \A i \in Id : ReplyTo(issued, i) \subseteq ReplyTo(issued', i)
    BY <1>5 DEF ReplyTo
  <2>2. \A i \in Id : Seq(ReplyTo(issued, i)) \subseteq Seq(ReplyTo(issued', i))
    BY <2>1, SeqMonotonic
  <2> QED BY <1>1, <2>2 DEF TellInv
<1> QED BY <1>6, <1>7 DEF TellInv

\* TellInv holds in every state.
THEOREM PageTellInvariance == PageSpec => []TellInv
<1>1. Init => TellInv
  BY EmptySeq DEF Init, TellInv
<1>2. TsInv /\ TsInv' /\ TellInv /\ [PageNext]_vars => TellInv'
  <2> SUFFICES ASSUME TypeOK, TypeOK', TellInv, [PageNext]_vars PROVE TellInv'
    BY DEF TsInv
  <2>1. CASE [TsNext]_vars
    BY <2>1, TellStep
  <2>2. ASSUME NEW n \in Page, NEW k \in Node, Reload(n, k) PROVE TellInv'
    <3>1. net' \in [Link -> Seq(TellingOf(issued))]
      BY <2>2, PagesAreNodes, ReloadNet DEF TellInv
    <3> QED BY <2>2, <3>1 DEF Reload, TellInv
  <2>3. ASSUME NEW n \in Page, NEW k \in Node, Load(n, k) PROVE TellInv'
    BY <2>3, PagesAreNodes, LoadTells
  <2> QED BY <2>1, <2>2, <2>3, PageSteps
<1> QED BY <1>1, <1>2, PageInvariance, PTL DEF PageSpec

\* A callback is only run on a reply to the request it was passed with, also
\* when replies to the load before reach a page that was reloaded.
THEOREM PageRightRequest == PageSpec => []CallbackAnswersItsRequest
<1>1. TellInv /\ TsInv => CallbackAnswersItsRequest
  BY TellRight
<1> QED BY <1>1, PageTellInvariance, PageInvariance, PTL

(***************************************************************************)
(* Subscriptions.  recieveRawData sends no orders.                         *)
(***************************************************************************)
LEMMA RepliesQuiet ==
  ASSUME TypeOK, NEW n \in Node, NEW m \in Imq
  PROVE  Replies(n, m) \subseteq Quiet
<1>1. name[n] \in Name
  BY DEF TypeOK, TablesOK
<1>2. \A r \in Replies(n, m) : r \in Imq /\ r.sts # "REQ"
  <2>1. success(name[n], m) \in Imq /\ rep(name[n], m) \in Imq /\ err(name[n], m) \in Imq
    BY <1>1, TsRepliesTyped
  <2> QED BY <2>1 DEF Replies, success, rep, err, makeImq
<1> QED BY <1>2 DEF Quiet, Order

LEMMA recieveRawDataQuiet ==
  ASSUME TypeOK, NEW k \in Node, NEW n \in Node, recieveRawData(k, n)
  PROVE  AddsQuiet(Rest(k, n))
<1>1. PICK m : m = Received(k, n)
  OBVIOUS
<1>2. Waiting(k, n) /\ conn \subseteq Link /\ TransportOK
  BY recieveRawDataAnswers DEF TypeOK, TransportOK
<1>3. Rest(k, n) \in Queues /\ m \in Imq
  BY <1>1, <1>2, RestTyped
<1>4. Replies(n, m) \subseteq Quiet
  BY <1>3, RepliesQuiet
<1>5. \/ net' = Rest(k, n)
      \/ \E r \in Replies(n, m) : net' = Send(Rest(k, n), n, k, r)
  <2>1. ASSUME NEW replies \in SUBSET Replies(n, m), Return(k, n, replies)
        PROVE  \/ net' = Rest(k, n)
               \/ \E r \in Replies(n, m) : net' = Send(Rest(k, n), n, k, r)
    BY <2>1 DEF Return
  <2>2. \A replies \in UserReplies(n, m) : replies \subseteq Replies(n, m)
    BY UserRepliesAre DEF Replies
  <2>3. /\ {} \subseteq Replies(n, m) /\ {err(name[n], m)} \subseteq Replies(n, m)
        /\ cmdReply(name[n], m) \subseteq Replies(n, m)
        /\ cmdReplyShipped(name[n], m) \subseteq Replies(n, m)
    BY CmdRepliesAre DEF Replies
  <2>4. CASE TsBroker(k, n) \/ TsRelay(k, n)
    BY <1>1, <2>1, <2>2, <2>3, <2>4 DEF TsBroker, TsRelay
  <2>5. CASE TsCmd(k, n)
    BY <1>1, <2>1, <2>3, <2>5 DEF TsCmd
  <2>6. CASE TsRequest(k, n) \/ TsStrayReply(k, n)
    BY <1>1, <2>1, <2>2, <2>3, <2>6 DEF TsRequest, TsStrayReply
  <2>7. CASE TsReply(k, n) \/ TsReplyThrows(k, n)
    BY <2>7 DEF TsReply, TsReplyThrows, RunCallback
  <2> QED BY <2>4, <2>5, <2>6, <2>7 DEF recieveRawData
<1> QED BY <1>2, <1>3, <1>4, <1>5, UnchangedQuiet, SendQuiet

LEMMA SubscribersAdded ==
  ASSUME NEW t, NEW client, NEW path, NEW p
  PROVE  Subscribers(addSubscriber(t, client, path), p) =
           IF p = path THEN Subscribers(t, p) \cup {client} ELSE Subscribers(t, p)
BY DEF Subscribers, addSubscriber, Keys

LEMMA SubscribersDeleted ==
  ASSUME NEW t, NEW client, NEW path, NEW p
  PROVE  Subscribers(delSubscriber(t, client, path), p) =
           IF p = path THEN Subscribers(t, p) \ {client} ELSE Subscribers(t, p)
BY DEF Subscribers, delSubscriber, Keys

LEMMA recieveRawDataTables ==
  ASSUME TypeOK, NEW k \in Node, NEW n \in Node, recieveRawData(k, n),
         OrderTraffic(<<k, n>>, Received(k, n))
  PROVE  TablesFollow(k, n)
<1> SUFFICES ASSUME NEW m, m = Received(k, n), NEW j \in Node, NEW p \in Path, NEW old,
                    old = Subscribers(subscribers[j], p)
             PROVE  Subscribers(subscribers'[j], p) =
                      IF j = n /\ OrderFor(m, p)
                      THEN IF m.cmd = "SUB" THEN old \cup {m.from} ELSE old \ {m.from}
                      ELSE old
  BY DEF TablesFollow
<1>1. m = Received(k, n) /\ old = Subscribers(subscribers[j], p) /\ DOMAIN subscribers = Node
  BY DEF TypeOK, TablesOK
<1>2. CASE TsCmd(k, n)
  <2> DEFINE new == CASE m.cmd = "SUB" -> addSubscriber(subscribers[n], m.from, m.path)
                      [] m.cmd = "UNSUB" -> delSubscriber(subscribers[n], m.from, m.path)
                      [] OTHER -> subscribers[n]
  <2>1. subscribers' = [subscribers EXCEPT ![n] = new] /\ m.type = "CMD" /\ m.sts = "REQ"
    BY <1>1, <1>2, Zenon DEF TsCmd
  <2>2. CASE m.cmd = "SUB"
    <3>1. new = addSubscriber(subscribers[n], m.from, m.path)
      BY <2>2
    <3>2. OrderFor(m, p) <=> m.path = p
      BY <2>1, <2>2 DEF OrderFor, Order
    <3> HIDE DEF new
    <3> QED BY <1>1, <2>1, <2>2, <3>1, <3>2, SubscribersAdded
  <2>3. CASE m.cmd = "UNSUB"
    <3>1. new = delSubscriber(subscribers[n], m.from, m.path)
      BY <2>3
    <3>2. OrderFor(m, p) <=> m.path = p
      BY <2>1, <2>3 DEF OrderFor, Order
    <3> HIDE DEF new
    <3> QED BY <1>1, <2>1, <2>3, <3>1, <3>2, SubscribersDeleted
  <2>4. CASE m.cmd \notin {"SUB", "UNSUB"}
    <3>1. new = subscribers[n]
      BY <2>4
    <3>2. ~OrderFor(m, p)
      BY <2>4 DEF OrderFor, Order
    <3> HIDE DEF new
    <3> QED BY <1>1, <2>1, <3>1, <3>2
  <2> QED BY <2>2, <2>3, <2>4
<1>3. CASE ~TsCmd(k, n)
  <2>1. UNCHANGED subscribers
    BY <1>3 DEF recieveRawData, TsBroker, TsRelay, TsRequest, TsReply, TsReplyThrows, RunCallback,
       TsStrayReply
  <2>2. ~Order(m)
    <3>1. Order(m) => ForMe(n, m)
      BY <1>1 DEF OrderTraffic, ForMe, ForOther, ForBroker
    <3> QED BY <1>1, <1>3, <3>1 DEF Order, recieveRawData, TsBroker, TsRelay, TsRequest, TsReply,
       TsReplyThrows, RunCallback, TsStrayReply, ForMe
  <2> QED BY <1>1, <2>1, <2>2 DEF OrderFor
<1> QED BY <1>2, <1>3

\* Other clients do not dial who dials.
LEMMA OtherLinks ==
  ASSUME Spokes, NEW n \in Node, NEW k \in Program[n].dials, NEW x \in Node, x # n,
         NEW y \in Program[x].dials
  PROVE  y # n /\ <<x, y>> # <<n, k>> /\ <<x, y>> # <<k, n>>
<1>1. \A j \in Node : n \notin Program[j].dials
  BY DEF Spokes
<1> QED BY <1>1

LEMMA LoadQueues ==
  ASSUME Spokes, TypeOK, NEW n \in Node, NEW k \in Node, Load(n, k)
  PROVE  /\ k \in Program[n].dials /\ <<n, k>> \in Link /\ <<k, n>> \in Link /\ <<n, k>> # <<k, n>>
         /\ net'[<<n, k>>] = Append(Append(net[<<n, k>>], LoadHey(n)), LoadHello(n))
         /\ net'[<<k, n>>] = Append(net[<<k, n>>], LoadSyn(k))
         /\ \A l \in Link : l # <<n, k>> /\ l # <<k, n>> => net'[l] = net[l]
         /\ LoadSyn(k) \in Quiet /\ LoadHey(n) \in Quiet
         /\ LoadHello(n) \in Imq /\ OrderFor(LoadHello(n), Hello)
         /\ LoadHello(n).cmd = "SUB" /\ LoadHello(n).to = NoName /\ ~LoadHello(n).broker
         /\ LoadHello(n).from = name[n]
<1>1. /\ k \in Program[n].dials /\ NextId + 1 + 1 \in Id /\ StateOK /\ net \in [Link -> Seq(Imq)]
      /\ net' = [net EXCEPT ![<<n, k>>] = @ \o <<LoadHey(n), LoadHello(n)>>,
                            ![<<k, n>>] = Append(@, LoadSyn(k))]
  BY LoadIs, TypeParts DEF Queues
<1>2. LoadSyn(k) \in Imq /\ LoadHey(n) \in Imq /\ LoadHello(n) \in Imq
  <2>1. /\ LoadSyn(k) \in Asked(NextId) /\ LoadHey(n) \in Asked(NextId + 1)
        /\ LoadHello(n) \in Asked(NextId + 1 + 1)
    BY <1>1, LoadMessages
  <2> QED BY <2>1 DEF Asked
<1>3. <<n, k>> \in Link /\ <<k, n>> \in Link /\ <<n, k>> # <<k, n>>
  BY <1>1, OneServer DEF Link
<1>4. net[<<n, k>>] \o <<LoadHey(n), LoadHello(n)>>
        = Append(Append(net[<<n, k>>], LoadHey(n)), LoadHello(n))
  <2>1. net[<<n, k>>] \in Seq(Imq)
    BY <1>1, <1>3
  <2> QED BY <1>2, <2>1, TwoAppended
<1>5. LoadSyn(k) \in Quiet /\ LoadHey(n) \in Quiet
  BY <1>2 DEF LoadSyn, LoadHey, SynMsg, req, makeImq, Order, Quiet
<1>6. /\ OrderFor(LoadHello(n), Hello) /\ LoadHello(n).cmd = "SUB" /\ LoadHello(n).to = NoName
      /\ ~LoadHello(n).broker /\ LoadHello(n).from = name[n]
  BY DEF LoadHello, subShipped, makeImq, Order, OrderFor
<1> QED BY <1>1, <1>2, <1>3, <1>4, <1>5, <1>6

LEMMA LoadOrders ==
  ASSUME Spokes, TypeOK, OrdersInv, NEW n \in Node, NEW k \in Node, Load(n, k)
  PROVE  OrdersInv'
<1>1. UNCHANGED name /\ conn' = conn \cup {<<n, k>>, <<k, n>>} /\ k \in Program[n].dials
  BY LoadIs
<1>2. \A l \in conn' : Dialed(l)
  BY <1>1 DEF OrdersInv, Dialed
<1>3. ASSUME NEW l \in Link, NEW y \in InFlight(net'[l]) PROVE OrderTraffic(l, y)
  <2>0. net \in [Link -> Seq(Imq)] /\ net[l] \in Seq(Imq)
    BY DEF TypeOK, TransportOK
  <2>1. CASE l = <<n, k>>
    <3>1. /\ net'[l] = Append(Append(net[l], LoadHey(n)), LoadHello(n))
          /\ LoadHey(n) \in Quiet /\ LoadHello(n) \in Imq
          /\ LoadHello(n).to = NoName /\ ~LoadHello(n).broker /\ LoadHello(n).from = name[n]
      BY <2>1, LoadQueues
    <3>2. LoadHey(n) \in Imq /\ ~Order(LoadHey(n))
      BY <3>1 DEF Quiet
    <3>3. Append(net[l], LoadHey(n)) \in Seq(Imq)
      BY <2>0, <3>2, AppendProperties
    <3>4. InFlight(net'[l]) = (InFlight(net[l]) \cup {LoadHey(n)}) \cup {LoadHello(n)}
      <4>1. InFlight(Append(net[l], LoadHey(n))) = InFlight(net[l]) \cup {LoadHey(n)}
        BY <2>0, <3>2, AppendInFlight
      <4>2. InFlight(Append(Append(net[l], LoadHey(n)), LoadHello(n)))
              = InFlight(Append(net[l], LoadHey(n))) \cup {LoadHello(n)}
        <5>1. PICK w \in Seq(Imq) : w = Append(net[l], LoadHey(n))
          BY <3>3
        <5>2. PICK z \in Imq : z = LoadHello(n)
          BY <3>1
        <5>3. InFlight(Append(w, z)) = InFlight(w) \cup {z}
          BY AppendInFlight
        <5> QED BY <5>1, <5>2, <5>3
      <4> QED BY <3>1, <4>1, <4>2
    <3>5. Dialed(l)
      BY <1>1, <2>1 DEF Dialed
    <3> QED BY <1>3, <2>1, <3>1, <3>2, <3>4, <3>5 DEF OrdersInv, OrderTraffic
  <2>2. CASE l = <<k, n>>
    <3>1. net'[l] = Append(net[l], LoadSyn(k)) /\ LoadSyn(k) \in Quiet
      BY <2>2, LoadQueues
    <3>2. LoadSyn(k) \in Imq /\ ~Order(LoadSyn(k))
      BY <3>1 DEF Quiet
    <3>3. InFlight(net'[l]) = InFlight(net[l]) \cup {LoadSyn(k)}
      BY <2>0, <3>1, <3>2, AppendInFlight
    <3> QED BY <1>3, <3>2, <3>3 DEF OrdersInv, OrderTraffic
  <2>3. CASE l # <<n, k>> /\ l # <<k, n>>
    <3>1. net'[l] = net[l]
      BY <2>3, LoadQueues
    <3> QED BY <1>3, <3>1 DEF OrdersInv
  <2> QED BY <2>1, <2>2, <2>3
<1> QED BY <1>1, <1>2, <1>3 DEF OrdersInv, OwnNames, OrderTraffic, Dialed

\* What a step adds besides orders does not make a page unsubscribe.
LEMMA StayQuiet ==
  ASSUME PagesStay, NEW queues \in Queues, AddsQuiet(queues),
         \A l \in Link : InFlight(queues[l]) \subseteq InFlight(net[l])
  PROVE  PagesStay'
<1> SUFFICES ASSUME NEW l \in Link, NEW m \in InFlight(net'[l]), l[1] \in Page, Order(m)
             PROVE  m.cmd = "SUB"
  BY DEF PagesStay
<1>1. PICK more \in Seq(Quiet) : net'[l] = queues[l] \o more
  BY DEF AddsQuiet
<1>2. m \in InFlight(queues[l]) \/ m \in Quiet
  <2>1. m \in InFlight(queues[l] \o more) /\ queues[l] \in Seq(Imq)
    BY <1>1 DEF Queues
  <2> QED BY <2>1, InFlightQuiet
<1> QED BY <1>2 DEF PagesStay, Quiet

\* Other programs' calls are no orders of a page.
LEMMA CallStays ==
  ASSUME TypeOK, PagesStay, NEW n \in Node \ Page, Call(n)
  PROVE  PagesStay'
<1>1. net \in Queues /\ net \in [Link -> Seq(Imq)] /\ conn \subseteq Link
  BY DEF TypeOK, TransportOK, Queues
<1>2. CASE OtherCall
  BY <1>1, <1>2, StayQuiet DEF OtherCall
<1>3. ASSUME NEW k \in Node, NEW m \in Imq, OrderCall(n, k, m) PROVE PagesStay'
  <2>1. \A l \in Link : l # <<n, k>> => net'[l] = net[l]
    BY <1>1, <1>3, SendOn DEF OrderCall
  <2> QED BY <2>1 DEF PagesStay
<1> QED BY <1>2, <1>3, CallOrders

\* A reception of either library: what a page hears said under its name is
\* said by a load of it.
LEMMA ReceptionHello ==
  ASSUME PageSubscribing, TypeOK, HelloInv, NEW k \in Node, NEW n \in Node, Waiting(k, n),
         UNCHANGED <<conn, name, handlers>>, AddsQuiet(Rest(k, n)), TablesFollow(k, n)
  PROVE  HelloInv'
<1>1. Spokes /\ OrdersInv /\ PagesStay
  BY DEF PageSubscribing, HelloInv
<1>2. /\ OrdersInv' /\ Rest(k, n) \in Queues
      /\ \A l \in Link : InFlight(Rest(k, n)[l]) \subseteq InFlight(net[l])
      /\ OrderTraffic(<<k, n>>, Received(k, n))
  BY <1>1, ReceptionKeepsOrders
<1>3. PagesStay'
  BY <1>1, <1>2, StayQuiet
<1>4. ASSUME NEW x \in Page, NEW s \in Program[x].dials, <<x, s>> \in conn'
      PROVE  Hello \in handlers'[x] /\ Agreed(x, s, Hello)'
  <2>1. x \in Node /\ Hello \in handlers[x] /\ Agreed(x, s, Hello) /\ Hello \in Path
    BY <1>4, PagesAreNodes, HelloAssumption DEF HelloInv
  <2>2. PICK m : m = Received(k, n)
    OBVIOUS
  <2>3. OrderFor(m, Hello) /\ m.from = name[x] => m.cmd = "SUB"
    <3> SUFFICES ASSUME OrderFor(m, Hello), m.from = name[x] PROVE m.cmd = "SUB"
      OBVIOUS
    <3>1. Order(m) /\ name[k] = name[x]
      BY <1>2, <2>2 DEF OrderFor, OrderTraffic
    <3>2. k \in Page
      BY <1>1, <2>1, <3>1 DEF PageSubscribing, OrdersInv, OwnNames
    <3>3. m \in InFlight(net[<<k, n>>]) /\ <<k, n>> \in Link
      BY <2>2, RestInFlight DEF Link
    <3> QED BY <1>1, <3>1, <3>2, <3>3 DEF PagesStay
  <2>4. Agreed(x, s, Hello)'
    BY <1>1, <2>1, <2>2, <2>3, ReceptionAgreesFor
  <2> QED BY <2>1, <2>4
<1> QED BY <1>2, <1>3, <1>4 DEF HelloInv

\* A page that was just loaded agrees with the server about Hello, whatever
\* the server's table says; the others are not concerned.
LEMMA LoadAgrees ==
  ASSUME Spokes, TypeOK, HelloInv, NEW n \in Page, NEW k \in Node, Load(n, k)
  PROVE  HelloInv'
<1>1. n \in Node /\ OrdersInv /\ PagesStay
  BY PagesAreNodes DEF HelloInv
<1>2. /\ conn' = conn \cup {<<n, k>>, <<k, n>>}
      /\ handlers' = [handlers EXCEPT ![n] = @ \cup {Hello}]
      /\ UNCHANGED <<name, subscribers>> /\ k \in Program[n].dials
  BY LoadIs
<1>3. ASSUME NEW x \in Page, NEW y \in Program[x].dials, <<x, y>> \in conn'
      PROVE  Hello \in handlers'[x] /\ Agreed(x, y, Hello)'
  <2> DEFINE C == Subscribers(subscribers[y], Hello)
  <2>1. /\ x \in Node /\ y \in Node /\ <<x, y>> \in Link /\ net[<<x, y>>] \in Seq(Imq)
        /\ handlers \in [Node -> SUBSET Path]
    <3>1. net \in [Link -> Seq(Imq)] /\ handlers \in [Node -> SUBSET Path]
      BY DEF TypeOK, TransportOK, TablesOK
    <3>2. x \in Node /\ y \in Node /\ <<x, y>> \in Link
      BY PagesAreNodes, OneServer
    <3> QED BY <3>1, <3>2
  <2> HIDE DEF C
  <2>2. CASE x = n
    <3>1. Dialed(<<n, k>>)
      BY <1>2 DEF Dialed
    <3>2. y = k
      BY <1>1, <1>2, <2>2, <3>1, OneServer
    <3>3. /\ net'[<<x, y>>] = Append(Append(net[<<x, y>>], LoadHey(n)), LoadHello(n))
          /\ LoadHey(n) \in Quiet /\ LoadHello(n) \in Imq
          /\ OrderFor(LoadHello(n), Hello) /\ LoadHello(n).cmd = "SUB"
      BY <1>1, <2>2, <3>2, LoadQueues
    <3>4. Append(net[<<x, y>>], LoadHey(n)) \in Seq(Imq)
      <4>1. LoadHey(n) \in Imq
        BY <3>3 DEF Quiet
      <4> QED BY <2>1, <4>1, AppendProperties
    <3>5. Hello \in handlers'[x]
      BY <1>1, <1>2, <2>1, <2>2
    <3>6. AgreedOn(net'[<<x, y>>], Hello, handlers'[x], name[x], C)
      BY <3>3, <3>4, <3>5, AppendOrder
    <3> QED BY <1>2, <3>5, <3>6 DEF Agreed, C
  <2>3. CASE x # n
    <3>1. <<x, y>> # <<n, k>> /\ <<x, y>> # <<k, n>>
      BY <1>1, <1>2, <2>1, <2>3, OtherLinks
    <3>2. net'[<<x, y>>] = net[<<x, y>>]
      <4>1. \A l \in Link : l # <<n, k>> /\ l # <<k, n>> => net'[l] = net[l]
        BY <1>1, LoadQueues
      <4> QED BY <2>1, <3>1, <4>1
    <3>3. handlers'[x] = handlers[x] /\ <<x, y>> \in conn
      BY <1>2, <1>3, <2>1, <2>3, <3>1
    <3>4. Hello \in handlers[x] /\ Agreed(x, y, Hello)
      BY <3>3 DEF HelloInv
    <3> QED BY <1>2, <3>2, <3>3, <3>4 DEF Agreed
  <2> QED BY <2>2, <2>3
<1>4. OrdersInv'
  BY <1>1, LoadOrders
<1>5. PagesStay'
  <2> SUFFICES ASSUME NEW l \in Link, NEW m \in InFlight(net'[l]), l[1] \in Page, Order(m)
               PROVE  m.cmd = "SUB"
    BY DEF PagesStay
  <2>1. m \in InFlight(net[l]) \/ m \in Quiet \/ m = LoadHello(n)
    <3>1. PICK q \in Seq(Imq) : q = net[l]
      BY DEF TypeOK, TransportOK
    <3>2. /\ LoadHey(n) \in Quiet /\ LoadSyn(k) \in Quiet /\ LoadHello(n) \in Imq
          /\ \/ net'[l] = Append(Append(q, LoadHey(n)), LoadHello(n))
             \/ net'[l] = Append(q, LoadSyn(k))
             \/ net'[l] = q
      BY <1>1, <3>1, LoadQueues
    <3>3. LoadHey(n) \in Imq /\ LoadSyn(k) \in Imq
      BY <3>2 DEF Quiet
    <3>4. PICK w \in Seq(Imq) : w = Append(q, LoadHey(n)) /\ InFlight(w) = InFlight(q) \cup {LoadHey(n)}
      BY <3>3, AppendInFlight, AppendProperties
    <3>5. /\ InFlight(Append(q, LoadSyn(k))) = InFlight(q) \cup {LoadSyn(k)}
          /\ InFlight(Append(w, LoadHello(n))) = InFlight(w) \cup {LoadHello(n)}
      BY <3>2, <3>3, AppendInFlight
    <3> QED BY <3>1, <3>2, <3>4, <3>5
  <2>2. LoadHello(n).cmd = "SUB"
    BY <1>1, LoadQueues
  <2> QED BY <1>1, <2>1, <2>2 DEF PagesStay, Quiet
<1> QED BY <1>3, <1>4, <1>5 DEF HelloInv

\* A page that is reloaded has lost its connection; the others keep theirs.
LEMMA ReloadAgrees ==
  ASSUME Spokes, TypeOK, HelloInv, NEW n \in Page, NEW k \in Node, Reload(n, k)
  PROVE  HelloInv'
<1>1. n \in Node /\ OrdersInv /\ PagesStay
  BY PagesAreNodes DEF HelloInv
<1>2. /\ conn' = conn \ {<<n, k>>, <<k, n>>} /\ k \in Program[n].dials
      /\ handlers' = [handlers EXCEPT ![n] = {}]
      /\ UNCHANGED <<name, subscribers>>
  BY DEF Reload
<1>3. /\ \A l \in Link : InFlight(net'[l]) \subseteq InFlight(net[l])
      /\ \A l \in Link : l # <<n, k>> /\ l # <<k, n>> => net'[l] = net[l]
  BY <1>1, ReloadNet DEF TypeOK, TransportOK
<1>4. OrdersInv' /\ PagesStay'
  BY <1>1, <1>2, <1>3 DEF OrdersInv, OwnNames, OrderTraffic, Dialed, PagesStay
<1>5. ASSUME NEW x \in Page, NEW y \in Program[x].dials, <<x, y>> \in conn'
      PROVE  Hello \in handlers'[x] /\ Agreed(x, y, Hello)'
  <2>1. <<x, y>> \in conn /\ Hello \in handlers[x] /\ Agreed(x, y, Hello)
    BY <1>2, <1>5 DEF HelloInv
  <2>2. x \in Node /\ <<x, y>> \in Link
    BY PagesAreNodes, OneServer
  <2>3. x # n
    <3> SUFFICES ASSUME x = n PROVE FALSE
      OBVIOUS
    <3>1. Dialed(<<n, k>>)
      BY <1>2 DEF Dialed
    <3>2. k = y
      BY <1>1, <3>1, OneServer
    <3> QED BY <1>2, <1>5, <3>2
  <2>4. <<x, y>> # <<n, k>> /\ <<x, y>> # <<k, n>>
    BY <1>1, <1>2, <2>2, <2>3, OtherLinks
  <2>5. net'[<<x, y>>] = net[<<x, y>>] /\ handlers'[x] = handlers[x]
    BY <1>2, <1>3, <2>2, <2>3, <2>4 DEF TypeOK, TablesOK
  <2> QED BY <1>2, <2>1, <2>5 DEF Agreed
<1> QED BY <1>4, <1>5 DEF HelloInv

LEMMA HelloStep ==
  ASSUME PageSubscribing, TypeOK, HelloInv, [PageNext]_vars
  PROVE  HelloInv'
<1>1. Spokes /\ OrdersInv /\ PagesStay
  BY DEF PageSubscribing, HelloInv
<1>2. net \in Queues /\ \A l \in Link : InFlight(net[l]) \subseteq InFlight(net[l])
  BY DEF TypeOK, TransportOK, Queues
<1>3. CASE UNCHANGED vars
  BY <1>3 DEF vars, tables, transport, HelloInv, OrdersInv, OwnNames, OrderTraffic, Dialed, Agreed,
     PagesStay
<1>4. ASSUME NEW n \in Page, NEW k \in Node, Load(n, k) \/ Reload(n, k) PROVE HelloInv'
  BY <1>1, <1>4, LoadAgrees, ReloadAgrees
<1>5. ASSUME NEW n \in Node \ Browser, Call(n) PROVE HelloInv'
  <2>1. /\ OrdersInv'
        /\ KeepsAgreedOf({x \in Node : x = n => "SubNil" \notin Program[n].calls})
    BY <1>1, <1>5, CallAgrees
  <2>2. PagesStay' /\ UNCHANGED conn
    BY <1>1, <1>5, PagesAreNodes, CallStays, CallOrders
  <2>3. ASSUME NEW x \in Page, NEW s \in Program[x].dials, <<x, s>> \in conn'
        PROVE  Hello \in handlers'[x] /\ Agreed(x, s, Hello)'
    <3>1. Hello \in handlers[x] /\ Agreed(x, s, Hello) /\ x \in Node /\ x # n /\ Hello \in Path
      BY <1>5, <2>2, <2>3, PagesAreNodes, HelloAssumption DEF HelloInv
    <3>2. handlers'[x] = handlers[x]
      <4>1. OtherCall \/ \E y \in Node, m \in Imq : OrderCall(n, y, m)
        BY <1>5, CallOrders
      <4>2. CASE OtherCall
        BY <4>2 DEF OtherCall
      <4>3. ASSUME NEW y \in Node, NEW m \in Imq, OrderCall(n, y, m)
            PROVE  handlers'[x] = handlers[x]
        BY <3>1, <4>3 DEF OrderCall, TypeOK, TablesOK
      <4> QED BY <4>1, <4>2, <4>3
    <3> QED BY <2>1, <3>1, <3>2 DEF KeepsAgreedOf
  <2> QED BY <2>1, <2>2, <2>3 DEF HelloInv
<1>6. ASSUME NEW n \in Node \ Browser, NEW k \in Node, Connect(n, k) PROVE HelloInv'
  <2>1. OrdersInv' /\ KeepsAgreed /\ AddsQuiet(net)
    BY <1>1, <1>6, ConnectAgrees
  <2>2. /\ conn' = conn \cup {<<n, k>>, <<k, n>>} /\ k \in Program[n].dials
        /\ UNCHANGED handlers
    BY <1>6 DEF Connect, Syn, tables
  <2>3. PagesStay'
    BY <1>1, <1>2, <2>1, StayQuiet
  <2>4. ASSUME NEW x \in Page, NEW y \in Program[x].dials, <<x, y>> \in conn'
        PROVE  Hello \in handlers'[x] /\ Agreed(x, y, Hello)'
    <3>1. x \in Node /\ x # n /\ Hello \in Path
      BY <1>6, PagesAreNodes, HelloAssumption
    <3>2. <<x, y>> # <<n, k>> /\ <<x, y>> # <<k, n>>
      BY <1>1, <2>2, <3>1, OtherLinks
    <3>3. Hello \in handlers[x] /\ Agreed(x, y, Hello)
      BY <2>2, <2>4, <3>2 DEF HelloInv
    <3> QED BY <2>1, <2>2, <3>1, <3>3 DEF KeepsAgreed, KeepsAgreedOf
  <2> QED BY <2>1, <2>3, <2>4 DEF HelloInv
<1>7. ASSUME NEW n \in Browser, NEW k \in Node, recieveRawData(k, n) PROVE HelloInv'
  <2>1. UNCHANGED <<conn, name, handlers>>
    BY <1>7 DEF recieveRawData, TsBroker, TsRelay, TsCmd, TsRequest, TsReply, TsReplyThrows,
       RunCallback, TsStrayReply, Return, tables, transport
  <2>2. Waiting(k, n) /\ OrderTraffic(<<k, n>>, Received(k, n))
    <3>1. Waiting(k, n)
      BY <1>7, PagesAreNodes, recieveRawDataAnswers
    <3>2. Received(k, n) \in InFlight(net[<<k, n>>]) /\ <<k, n>> \in Link
      BY <1>7, <3>1, PagesAreNodes, RestInFlight DEF Link
    <3> QED BY <1>1, <3>1, <3>2 DEF OrdersInv
  <2>3. AddsQuiet(Rest(k, n)) /\ TablesFollow(k, n)
    BY <1>7, <2>2, PagesAreNodes, recieveRawDataQuiet, recieveRawDataTables
  <2> QED BY <1>7, <2>1, <2>2, <2>3, PagesAreNodes, ReceptionHello
<1>8. ASSUME NEW n \in Node \ Browser, NEW k \in Node, RecieveMessage(k, n) PROVE HelloInv'
  <2>1. UNCHANGED <<conn, name, handlers>>
    BY <1>8 DEF RecieveMessage, RecvBroker, RecvNotBroker, RecvRelay, RecvNotRelay, RecvCmd,
       RecvRequest, RecvUnhandled, RecvReply, RecvStrayReply, tables, transport
  <2>2. Waiting(k, n) /\ OrderTraffic(<<k, n>>, Received(k, n))
    <3>1. Waiting(k, n)
      BY <1>8, ReceptionKinds
    <3>2. Received(k, n) \in InFlight(net[<<k, n>>]) /\ <<k, n>> \in Link
      BY <1>8, <3>1, RestInFlight DEF Link
    <3> QED BY <1>1, <3>1, <3>2 DEF OrdersInv
  <2>3. AddsQuiet(Rest(k, n)) /\ TablesFollow(k, n)
    BY <1>8, <2>2, ReceptionOrders, ReceptionTables
  <2> QED BY <1>8, <2>1, <2>2, <2>3, ReceptionHello
<1> QED BY <1>3, <1>4, <1>5, <1>6, <1>7, <1>8, PagesAreNodes DEF PageNext, onmessage

\* HelloInv holds in every state.
THEOREM HelloInvariance ==
  ASSUME PageSubscribing
  PROVE  PageSpec => []HelloInv
<1>1. Init => HelloInv
  <2>1. InFlight(<< >>) = {}
    BY EmptySeq DEF InFlight
  <2> QED BY <2>1, InitOrders DEF Init, HelloInv, PagesStay
<1>2. TypeOK /\ HelloInv /\ [PageNext]_vars => HelloInv'
  BY HelloStep
<1> QED BY <1>1, <1>2, PageTypeCorrect, PTL DEF PageSpec

\* However often pages are reloaded, one that is connected handles Hello
\* exactly if the server counts it among the subscribers, once no SUB for
\* Hello is on the way, be it of an earlier load.
THEOREM PageHello ==
  ASSUME PageSubscribing
  PROVE  PageSpec => []HelloAgreement
<1>1. HelloInv => HelloAgreement
  <2> SUFFICES ASSUME HelloInv, NEW n \in Page, NEW k \in Program[n].dials, <<n, k>> \in conn,
                      \A m \in InFlight(net[<<n, k>>]) :
                        m.cmd \in {"SUB", "UNSUB"} => m.path # Hello
               PROVE  Hello \in handlers[n] <=> name[n] \in Keys(subscribers[k], Hello)
    BY DEF HelloAgreement, Loads
  <2>1. OrdersFor(net[<<n, k>>], Hello) = {}
    BY DEF OrdersFor, Order, InFlight
  <2>2. Agreed(n, k, Hello)
    BY DEF HelloInv
  <2> QED BY <2>1, <2>2, KeysAreSubscribers DEF Agreed, AgreedOn
<1> QED BY <1>1, HelloInvariance, PTL
=============================================================================
