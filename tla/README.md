# IndisMQ in TLA+

IndisMQ is a small messaging library: it builds and interprets messages of one
wire record and leaves sending them to its user. There are three
implementations (Go, TypeScript, C++), a FlatBuffers schema they share, and a few
demonstration programs that connect them by websockets. This directory models
the three libraries in one network, the programs around them, and the
JavaScript code that turns a message into bytes and back; it checks the models
with TLC and proves the main results with TLAPS.

All paths are relative to the repository; `go:110` is line 110 of
`go/indisMQ.go`, `srv:36` line 36 of `go/testServer/testServer.go`, `ts:209` of
`js/indisMQ.ts`, `page:12` of `js/testServer.ts`, `cpp:328` of
`cpp/indis_rpc.h`, `gen:218` of `schema/IndisMQ_generated.ts`, `fbs:24` of
`schema/IndisMQ.fbs`, `bundle:1451` of `js/testServer.bundle.js`.

## 1. The system

### Components, their state and their operations

| Component | State | Operations |
|---|---|---|
| Go library `go/indisMQ.go` | `name`, `handlers`, `brokerHandler`, `relayHandler`, `messages` (pending callbacks by identifier), `subscribers` (path -> client -> round-robin mark) | requests: `Syn`, `Req`, `Ready`, `Sub`, `UnSub`, `Mult`, `Queue`; answers: `Rep`, `Success`, `Err`; broker: `BrokerReplay`, `sendMult`, `sendQueue`; tables: `SetName`, `SetHandler`, `DelHandler`, `SetBrokerHandler`, `SetRelayHandler`, `AddSubscriber`, `DelSubscriber`, `DelMessage`; reception: `RecieveMessage`, `handleCmd` |
| TypeScript library `js/indisMQ.ts`, compiled `js/indisMQ.js` | the same | the same, in lower case; `recieveRawData` receives; the compiled file is older than the source |
| C++ library `cpp/indis_rpc.h` | the same, in class `Imq` or global | the same; `recieveRawData` receives |
| Go server `go/testServer/testServer.go` | `webSockets` (client name -> connection) | `upgrade` (sends a `Syn` whose callback registers the client), `receive` (one goroutine per connection), `relayHandler`, `brokerHandler`, `callHandler` |
| Go clients `go/testClient*/` | one connection | dial, read in a goroutine, `SetHandler`, `Sub` and other requests |
| Browser page `js/testServer.ts`, `js/testServer.html` | one connection, until it is reloaded | `onopen` (a request and a SUB), `onmessage`, handlers for two paths |
| Qt client `cpp/QtTestClient` | one connection | connect, `onMessage`, calls of its library |
| FlatBuffers runtime, in `js/testServer.bundle.js` | a byte buffer; a builder with its buffer, the table under construction and the vtables so far | `ByteBuffer`: reading and writing numbers, strings, vectors; `Builder`: `prep`, `pad`, `add*`, `startObject`, `addField*`, `endObject`, `finish`, `createString`, `growByteBuffer`, ... |
| Generated code `schema/IndisMQ_generated.*`, Go and C++ likewise | - | accessors, mutators and `add*` of table `Imq` and struct `Ver` |
| Schema `schema/IndisMQ.fbs` | - | the wire record `Imq` and its enumerations |
| Performance test `go/perfTest`, build files | - | - |

There are no automated tests in the repository.

### How they interact

A program calls a request function, gets a message, and sends it. If it passed
a callback, the library keeps the message in `messages` under its identifier.
The receiver hands the bytes to `RecieveMessage` (`recieveRawData`), which tests in this order:
is it for a broker; is it for somebody else (a relay); is it a command; is it a
request (run the handler of its path); else it is a reply (run the callback kept
under its identifier and delete the entry). What it returns goes
back on the same connection. Broker and relay handlers belong to the program:
the Go server passes relayed messages on unchanged to the connection `webSockets`
has for the receiver's name, and gives broker messages to `BrokerReplay`, which
sends them to one or all subscribers of their path under their old identifier.

A message is a FlatBuffers table. `makeImq` fills a `Builder` through the generated
code, the receiver reads fields through the generated accessors, and replies
are made from what was read.

### What is hard, and what would be correct

| Component | Hard | Correct when |
|---|---|---|
| Pending callbacks | answers that are late, repeated, reordered, from the wrong process; the application gives up; a callback throws | a callback is run at most once to its end, on an answer to its own request, from whom the request was addressed to |
| Relay | the server learns a client's name from a reply that races with the client's first requests; names change; connections break | relayed messages go to the client of that name; an answerable request is answered |
| Broker | subscriptions change while casts are on their way; replies carry identifiers of the publisher | clients and server agree on subscriptions, no handler sees a message twice, the traffic ends |
| Page | sends before it reads; reloaded while the server keeps its subscription and its socket and still reads what the load before has sent | server and page agree again; what reaches the page is served and answered |
| Languages together | each library answers commands, keeps callbacks and writes tables in its own way | none breaks the promises of another |
| Subscriber table | one goroutine per connection, all locks commented out; `sendQueue` writes to it after it wrote to the network | what is acknowledged is in the table, or out of it; no path without subscribers; no assignment to a nil map |
| Round robin | Go iterates over a map in an order of its own for each loop; marks instead of a position; subscribers come and go meanwhile | no message is swallowed while somebody stays, only who was served is marked |
| Bytes | a buffer filled backwards that grows in the middle of an operation; alignment from the far end; shared vtables; defaults left out; an edited generator output | what is written reads back, in place and at the receiver |

`PROJECT.json` lists each hazard with its line under `hazards`.

## 2. Modules

| Module | What it is |
|---|---|
| `ImqSchema` | the wire record, its enumerations, the constants |
| `GoImq`, `TsImq`, `CppImq` | each library without its state: what each function puts into a message, the subscriber table, the outcomes of `sendQueue` |
| `GoNet` | processes that use the Go library, connected by websockets: the library's package state, the server's and clients' programs, the transport and its faults |
| `GoNetProperties` | the properties of `GoNet`, and the mapping of its state to `Rpc` |
| `TsNet` | `GoNet` with some processes that run the TypeScript library, and the mapping to `RpcThrows` |
| `CppNet` | `TsNet` with some processes that run the C++ library |
| `TsPage` | the browser page in `TsNet`, each of its loads a process |
| `Rpc`, `RpcThrows` | abstract: what a caller is promised about an identifier; the same when callbacks may throw |
| `GoQueue` | the loops of `sendQueue` as they stand, one client a step, over several calls, with `AddSubscriber` and `DelSubscriber` of other goroutines between the steps |
| `RoundRobin` | abstract: each call as one step, except a `sendQueue` that somebody cuts into |
| `GoSubRace` | `AddSubscriber`, `DelSubscriber` and `sendQueue` of concurrent goroutines, one step per access to a map |
| `SubTable` | abstract: adding and deleting as atomic operations, and a `sendQueue` that enters its client again |
| `ByteBuffer`, `Builder` | the two halves of the JavaScript FlatBuffers runtime, pure operators on records of their fields |
| `ImqTable` | the generated accessors, mutators and `add*` functions, over these |
| `Tables` | a program that fills one `Builder` with strings, vectors and tables in every order |
| `Wire` | `makeImq`, `parseMsg` and the replies of the TypeScript library, byte by byte |
| `MCGoNet`, `MCCppNet`, `MCTsPage`, `MCGoQueue`, `MCGoSubRace`, `MCTables`, `MCWire` | programs and values for TLC |
| `GoNetProofs`, `GoOnceProofs` | theorems about `GoNet` |
| `GoQueueProofs`, `GoSubRaceProofs` | theorems about `GoQueue` and `GoSubRace` |
| `TsNetProofs`, `CppNetProofs`, `TsPageProofs` | theorems about networks of the TypeScript library and the Go one, of all three, and with pages |
| `TablesProofs` | theorems about `Builder` and `Tables` |

Definitions whose comment begins with "Faulty variant" are not part of a model:
each is a definition changed the way a mistake in the code would change it, and
there is a property that does not survive it.

### GoNet and the code

* The variables `name`, `handlers`, `subscribers`, `messages`, `brokerHandler`
  and `relayHandler` are the package variables of go:26-33 and go:465, one for
  each process. A handler or callback is a function of the program; which ones
  exist is state, what they do is in the process's `Program`. `webSockets` is
  srv:15. `conn` and `net` are the websockets: a FIFO queue in each direction.
  `issued`, `answered` and `handled` are history variables: no action reads them
  except `issued`, from which `RecvReply` takes the closure that was passed with
  the request (only the one of `Syn` changes anything: srv:93-97) and which
  hands out identifiers.
* Each branch of `RecieveMessage` and `handleCmd` is one action with everything
  it calls: `RecvBroker` and `RecvRelay` include the server's handlers,
  `RecvRequest` the user's handler and the reply it returns, `RecvReply` the
  callback and the `DelMessage` after it.
* Each request function is one action that also sends the message it returns
  (what all the programs do). `MultLocal` and `QueueLocal` are `Mult` and `Queue`
  with `broker` false: they serve the caller's own subscribers and return before
  the callback is stored (go:273-276, go:301-304).
* `Connect` is the dialling client together with the server's `upgrade`, which
  sends its `Syn` before it reads. `Disconnect` is a connection that breaks:
  `receive` ends, nothing is cleaned up. The model then replaces the dead
  connection in `webSockets` by `Closed`, a value to which all sends are lost.
* A position in the sequence of `newUID` calls stands for an identifier. The
  identifiers of the libraries are 16 random characters, compared for
  equality only; that two of them never coincide is assumed.
* Left out here: bodies, status texts, error codes, the `Callback` and `Ver` fields
  (no branch of the libraries reads them; `Wire` has them), `OnReady` (a hook that
  does nothing by default), `Debug`, `GetMessageSize` and printing.

`testServer.go` does not compile at this commit (it still uses `RawData`, and
`sendMessage` is called with one and with two arguments). It is read as what its
call sites and the README's wiring say: `sendMessage(data, w)` writes to the
connection `w`, and `messageRecieved` answers on the connection the message came
from. Its `send` function is never called and is not modelled.

`RecieveMessage` is one step of `GoNet` although the server runs it in one
goroutine per connection without locks. For the subscriber table that is not
right of every program: `sublost` shows a SUB that two goroutines lose, and
`GoSubRace` has a `sendQueue` that brings an unsubscribed client back. So `GoNet`
is a model only of the programs that `TableAssumption` lets through. At each process in
`Threaded` (those whose connections are read by goroutines of their own) one of
two things must be so (`Undivided`):

* at most one goroutine, the process's own or that of one of its peers, runs
  `AddSubscriber`, `DelSubscriber`, `sendMult` or `sendQueue` at all; or
* some client is enrolled for good on every path (`standing`, clients `main` adds
  before it connects), clients come and go under names of their own, nobody queues, and only one
  goroutine casts or lets clients leave. `AtomicWithStanding` says that adding and deleting
  are then as good as atomic. A cast that ranges over the map meanwhile
  serves a client that joins, or does not, which one step before or after the
  SUB does too.

What these leave out is in section 6. The other tables are only written by
`RecieveMessage` at a key of its own message.

### GoQueue and GoImq

`GoQueue` runs the two loops of go:311-345 one client at a time. `First(k)` is the
body of the first loop for the client `k`, any of those in `todo`, since the loop ranges
over a Go map; `End` is the test of `success` (go:332), `Second(k)` the second loop, which
returns from the first client it comes to (go:337). Other goroutines subscribe and
unsubscribe clients at any time (`Join`, `Leave`), between the steps of a call too: the
first loop may or may not come to a client that joins, it does not come to one that has left, and
when the last one leaves it goes on over a map that the table no longer has (pc `"gone"`).
`start`, `cuts` and `stayed` are history variables: the table the call found, how often
somebody cut into it, and the clients that were subscribed throughout.
An iteration is one step here; what comes between its accesses to the map, the handler call
above all, is the subject of `GoSubRace`.

`GoImq!sendQueue`, which `GoNet` uses, gives the outcomes of a whole call in closed
form, for calls nobody cuts into. `ImplementsRoundRobin` says that the loops do no more than
that, `ClosedForm` that for every reachable table they can do all of it; there
`FirstLoop` and `Loops` are the same bodies folded over an order of the clients. Of a torn
call `RoundRobin` only says that it moves marks, takes nobody in or out, and leaves
no mark on anybody it did not serve.

### GoSubRace

One path, any number of connections, a program counter each. The entry of
`subscribers` and the inner map it refers to are separate, so a goroutine can hold a
map that was replaced. `Client` are the connections that send SUB and UNSUB, `Publisher`
those whose messages are queued; a connection may be both. Between the step in which
`sendQueue` takes a client in hand and the one that writes its mark (go:321-322, 334-335)
lies the handler call; should an UNSUB of the client be processed meanwhile, the
write enters it again. `revived` is a history variable that holds these clients until their own next call. The
marks themselves are left out, so any client the loop comes to may be served or reset, and the
two loops are one that may be run twice. `Standing` are clients that subscribed earlier and stay.
`Fatal` is the Go runtime that notices concurrent accesses to one map and ends
the process: it may happen, it does not have to, so the other interleavings are
explored as well.

### TsNet

The TypeScript library has the Go library's package variables, so `TsNet` extends
`GoNet` and gives the processes in `Browser` actions of their own. JavaScript
runs a function to its end, so one action per function is exact.

* `Shipped` are the processes with the compiled `indisMQ.js`: it has no `ready`,
  answers READY with an error, and its `sub` and `unSub` name no receiver.
* `Throws` says which of the user's functions may throw. A handler that throws
  takes `recieveRawData` with it, so nothing is sent. A callback that throws
  leaves its entry in `messages`, since `delMessage` comes after the call
  (ts:297): `TsReplyThrows`.
* Broker and relay handlers of such a process answer the message or do nothing:
  `brokerReplay` is not exported and nobody calls it (ts:164-172).
* `TsQueueLocal` serves nobody (ts:209). `cmdReply` has no reply to READY:
  `onReady` is undefined unless the program sets it, and none does (ts:321).

### TsPage

Each load of the page is a process of its own (`Page`), under the name all of them
have: what the server reads from the connection of one load comes in another goroutine than what it
reads from the next. `Load` is the script together with `onopen`, which sends both requests
before it reads anything (page:14), and with the server's `upgrade`, whose `Syn` is then
already on its way; the load before must be over. `Reload` ends a load:
`messages` and `handlers` of the page are lost, the server's subscription and its
`webSockets` entry are not. What the page has not read is gone, but of what it has
sent any first part may still reach the server, whose goroutine reads it whenever it is
scheduled (srv:125-135): after the next load's answer to its own `Syn`, too, and then
`webSockets` has the dead connection again (srv:94). What is sent to a page
that is gone is lost.

`LoadsAssumption` plays the part of `TableAssumption`: nobody but the loads of one page subscribes at
a server, and nobody unsubscribes. Two of them may still be in `AddSubscriber` at once, which
is why the properties claim nothing while a SUB of another load is on its way.

### CppNet

The processes in `Native` run the C++ library. The header is read as the Qt
build (`QT_CORE_LIB`) for MSVC would take it. The C++ functions do not throw.
`cpp/QtTestClient` was written against an older header; only its wiring is taken
from it (what `recieveRawData` returns is sent), and the calls are made in any
order. `CppImq` names what each function does otherwise than the other libraries:

* `unSub` sends a SUCCESS without a path (cpp:282). UNSUB is not answered
  (cpp:454).
* `subscribers[path]` makes a path that is looked up and `delSubscriber`
  keeps it (cpp:185, cpp:291).
* `sendQueue` serves and marks everybody in its second loop (cpp:314).
* `brokerReplay` exchanges sender and receiver and clears the Broker flag (cpp:328).
  The sender is empty then, which is why `CppTypeOK` allows `Anonymous` messages. It
  dereferences the status text and the body, and crashes on messages without (cpp:329). Go's and
  C++'s own `Mult` and `Queue` write no status text (go:272, go:299), so only messages of
  the TypeScript library can be replayed, of those the ones that may have a body (`Replayable`).
* `Mult` and `Queue` keep their callbacks with `broker` false too (cpp:352).
* What the callback of a command returns is sent back: `CppReply`.

`CppSpec` with `Native = {}` is `TsSpec`, and that with `Browser = {}` is `Spec`.

### Bytes

`ByteBuffer` and `Builder` translate the runtime's classes method by method. A
buffer is the sequence of its bytes; a builder is the record of the class's fields; a
number is the integer its bits say, a 64-bit one a pair of halves (`Long`), a float
its bits, since turning them into a number is left to the platform's typed arrays.
The loops are folds or intervals. An assertion of the code
(`nested`, `notNested`, `endObject`'s) is a predicate that guards the program's
step in `Tables`, because a program that violates it gets an exception. `finish` asserts
nothing (bundle:1531-1546): a program may finish a buffer while a table is open, and
what was made before must read back all the same. After that `Tables` adds nothing to the open table.

`Wire` takes a message through `makeImq`, and then through up to `MaxHops`
replies and changes in place; the variable `meant` says what the
receiver should read.

## 3. Runs

Each run is a `.cfg` with a module; `tlc -config X.cfg M` repeats it. States are
distinct states.

| Run | Module | States | Checks |
|---|---|---|---|
| `relay` | `MCGoNet` | 47 300 | Three processes: a caller, the server with a handler of its own, a client behind it. Requests go to that client, to the server, to a name nobody has and to no name; the caller sends READYs too, and queues messages for the client, which the server has enrolled. Four identifiers: two `Syn` and two requests. `CallbackAnswersItsRequest`, `AnswerFromAddressee`, `RegistryCorrect`, `HandledOnce`, and under fairness `RelayedRequestAnswered`. |
| `pubsub` | `MCGoNet` | 355 500 | The server, on which a third client is enrolled for good, and two clients: one subscribes, unsubscribes and casts in every order, the other subscribes. Six identifiers: two `Syn` and four calls, enough for two subscribers, a cast and an UNSUB, or for SUB, UNSUB, SUB and a cast. `SubscriptionAgreement`, `HandledOnce`, and under fairness `Quiescence`. |
| `peers` | `MCGoNet` | 257 800 | Two processes, one of which takes the other for a relay too, and subscribes and unsubscribes; three identifiers, two faults of any kind (lost, repeated, overtaking message, broken connection) and `DelMessage` at any time. `TypeOK`, `CallbackAtMostOnce`, `CallbackAnswersItsRequest`, `PendingUnanswered`, `RegistryCorrect`, `NoEmptyPath`, `ImplementsRpc`. |
| `configure` | `MCCppNet` | 230 900 | A process of each library; names, handlers, subscribers, broker and relay handlers change at any time while one message is on its way. The Go client goes by the page's name. `CppTypeOK`, `EmptyPathIsNative`. |
| `languages` | `MCCppNet` | 473 600 | All requests between a TypeScript process and a C++ one that is a broker and a relay. Three identifiers, one repeated message, TypeScript handlers and callbacks that throw, `DelMessage` at any time. `CallbackAnswersItsRequest`, `ImplementsRpcThrows`. |
| `browser` | `MCTsPage` | 124 000 | Two loads of the page behind the Go server, the second after a reload, with a Go client that casts, queues or asks. Eight identifiers: the two loads and the client's connection and call. `HelloAgreement`, `HandledOnce`, and under fairness `PageAnswered`, `PageServes`. |
| `queue` | `MCGoQueue` | 119 500 | Four interchangeable clients are served in every order; they join and leave between calls and up to twice within one. `ClosedForm`, `DeliveryBounds`, `MarkedWereServed`, `ImplementsRoundRobin`. |
| `subrace` | `MCGoSubRace` | 332 800 | Two connections that subscribe and unsubscribe, one of which also queues messages, a third that only queues, and a standing subscriber. `NoPanic`, `AcknowledgedIsUnsubscribed`, `ImplementsTable`. |
| `tables` | `MCTables` | 220 500 | A builder that starts with one byte is given objects and fields in every order, with and without forced defaults, and finished at any time. `TypeOK`, `ReadsBack`, `ReceiverReads`, `Aligned`, `SharedVtables`, `WrittenStays`. |
| `wire` | `MCWire` | 10 800 | Messages with empty and non-ASCII names, no body, an empty body and a body, with and without version, then replies and overwritten fields. `TypeOK`, `RoundTrip`, `BodyReads`, `StampReads`. |
| `sublost` | `MCGoSubRace` | violation (84) | `AcknowledgedIsSubscribed`, two connections, nobody standing |
| `wirebody` | `MCWire` | violation | `NoBodyIsNull` |

**Bounds.** `MaxId` bounds the calls, `MaxFaults` the faults. `Name` has one name
nobody uses where the run is about relaying; one path is enough in the network
because no operation relates two (the page's three are told apart by its script).
`configure` has one identifier because the tables, and not the traffic, are its
subject; `languages` has three so that a request, its repeated answer and a
message of the other process overlap. Four clients in `queue` give a marked one, one before and
two behind it, and several marks at once; states remember one call only, not how often `sendQueue` ran.
`MaxCuts` bounds the changes of the table within a call: two are enough for a client that leaves and one that
joins, or leaves and joins again. In `GoSubRace` each goroutine runs any number of calls; three of
them let two disturb a third at every step, and the assumption `EnoughMaps` says
that an unused inner map always exists (one referred to by `subscribers` and one
held by each goroutine, two by one that ranges over a map). In `browser` the number of loads
bounds the reloads: with two of them what the first has sent meets everything the second does. In `tables` the layout has a field of each type, in an order
that makes `prep` pad in front of each size, two table sizes, so that vtables of
equal entries and different lengths meet, a required field, a string with
characters of one to four UTF-8 bytes, the default value of each type
and values whose bytes all matter. Three objects are enough
for a table between two that share a vtable and for references to strings, vectors and
other tables; growth, padding and defaults need no more than two fields.
`CHECK_DEADLOCK FALSE` where the calls are bounded, or where the process may end.

**Fairness.** `Fairness` and `TsFairness` are weak fairness of `RecieveMessage` or
`recieveRawData` on each link: the
program reads each connection in a loop of its own (srv:125-135, the clients'
`recieve`) or in the event loop (page:`onmessage`) for as long as the connection
lasts, so a message that arrived is
processed in the end. `TsFairness` leaves out links nobody can open, where it would say
nothing. Nothing makes a program call a function, connect, reload or
install a handler, and the transport has no fairness beyond delivering what it
holds; the liveness properties are checked on faultless transports only, but for
the reloads of `browser`. There the links from the loads to the server are read to their
end also after the load is over, as the goroutine of that connection does.

### What the violations show

* `sublost` - two goroutines in `AddSubscriber` and `DelSubscriber` lose a
  subscription that is then acknowledged. The lock is there in comments. Without
  a standing subscriber the run would find `NoPanic` violated as well.
* `wirebody` - `BodyArray` of a message without a body does not return null at
  the receiver: `createBodyVector`, edited by hand, returns null, which
  is not the default 0, so the field is written with a reference to the end of
  the message, and the view behind it throws a RangeError.

`RelayedRequestAnswered` and `PageServes` have a premise that is easily
overlooked: the server must have processed the client's answer to its `Syn` when
the request is on its way. Without it the answer meets a server that does not
know its addressee: the answerer gets an error it does not expect, and the caller
waits for ever. `PageServes` has another (`OthersRead`): what earlier loads have sent must
have been read. As long as an old answer to a `Syn` has not, it may come last, and the
server then takes the connection of a page that is gone for the living one, for ever.

`RoundTrip`, `BodyReads` and `StampReads` are about bytes that came from a socket and
fill their `ArrayBuffer`. `BodyArray` ignores the offset of the message in its buffer
(gen:218): of a message the process built itself it would read the
wrong bytes. `mutate_Major` and `mutate_Minor` find no field to change (gen:102),
which `StampReads` states as it is.

## 4. Proofs

| Module | Theorem | Says |
|---|---|---|
| `GoNetProofs` | `TypeCorrect` | `Spec => []TypeOK` |
| | `AtMostOnce` | `Spec => []CallbackAtMostOnce` |
| | `Pending` | `Spec => []PendingUnanswered` |
| | `Refinement` | `Spec => ImplementsRpc` |
| | `RightRequest` | `Spec => []CallbackAnswersItsRequest` |
| | `RightAnswerer` | `Spec => []AnswerFromAddressee` |
| | `NoEmptyPaths` | `Spec => []NoEmptyPath` |
| `GoQueueProofs` | `QueueServes` | on a path with subscribers `sendQueue` has an outcome, and each serves some of them |
| | `QueueBounds` | such a whole call serves one of up to two, at most all but one of more, and marks only whom it served |
| | `QueueDelivers` | `Spec => []DeliveryBounds`: the same of the loops, and that no call, torn or not, swallows a message while somebody stays |
| | `MarkFollowsDelivery` | `Spec => []MarkedWereServed`, torn calls included |
| | `QueueRefinesRoundRobin` | `Spec => ImplementsRoundRobin`: a whole call is one step, a torn one delivers and moves marks |
| | `LoopsHaveClosedForm` | `Spec => []ClosedForm` |
| `GoOnceProofs` | `Registry` | with `NamesKept`, `Spec => []RegistryCorrect` |
| | `Once` | with `NamesKept` and no repeated messages, `Spec => []HandledOnce` |
| | `Subscriptions` | with `Subscribing` and no faults, `Spec => []SubscriptionAgreement` |
| `GoSubRaceProofs` | `Unsubscribed` | `Spec => []AcknowledgedIsUnsubscribed`: only a `sendQueue` that had the client in hand undoes an UNSUB |
| | `Panicless` | with a standing subscriber, `Spec => []NoPanic` |
| | `AtomicWithStanding` | with a standing subscriber, `Spec => ImplementsTable`: adding and deleting are atomic, and `sendQueue` does nothing but enter again the client it has in hand |
| `TsNetProofs` | `TsTypeCorrect` | `TsSpec => []TypeOK` |
| | `TsRefinement` | `TsSpec => ImplementsRpcThrows` |
| | `TsNoEmptyPaths` | `TsSpec => []NoEmptyPath` |
| | `TsRightRequest` | `TsSpec => []CallbackAnswersItsRequest` |
| `CppNetProofs` | `CppTypeCorrect` | `CppSpec => []CppTypeOK` |
| | `CppRightRequest` | `CppSpec => []CallbackAnswersItsRequest` |
| | `CppRefinement` | `CppSpec => ImplementsRpcThrows` |
| | `CppEmptyPaths` | `CppSpec => []EmptyPathIsNative` |
| `TsPageProofs` | `PageTypeCorrect` | `PageSpec => []TypeOK` |
| | `PageRightRequest` | `PageSpec => []CallbackAnswersItsRequest` |
| | `PageHello` | with `PageSubscribing`, `PageSpec => []HelloAgreement` |
| `TablesProofs` | `BuilderTyped` | `Spec => []TypeOK` |
| | `BytesWrittenStay` | `Spec => WrittenStays` |
| | `VtablesAreShared` | `Spec => []SharedVtables` |
| | `FinishedAligned` | `Spec /\ []Bounded => []Aligned` |

They hold for every set of processes, names and paths, every choice of libraries,
any number of connections, calls and reloads, and, where the table says no more, for
every program and every transport with any number of faults. The
assumptions are those the modules name: the programs are of `ProgramType`, the
empty receiver and path are no names and paths, `Closed` is no process, `Name`
is finite (a set of subscribers can be counted), and enough inner maps. `TableAssumption` and
`LoadsAssumption` keep out programs whose goroutines could cut into each other's table calls. No
proof cites them, since the steps of the models are what they are; they say for which
programs these steps are the code's, and so of which programs the theorems speak. Those of
`Tables` hold for every layout of fields, every value and any number of objects and
fields; `ValueAssumption` says what values are, and `SizeAssumption` that a vtable
is shorter than 32768 bytes: it keeps its length as a signed number of 16 bits,
and one of 16382 fields or more would start with a negative one, which
`SameVtable` takes for equal to every other. What
some theorems assume of programs besides is in their statements:

* `NamesKept`: nobody calls `SetName` once it is connected. The server and the clients
  of the repository set their names before they listen or dial. It is needed:
  `SetName` tells nobody (go:469), so a name the server has registered may be another
  process's afterwards.
* `Subscribing`: names are kept; each client dials one server under a name no other
  client of that server has, and that is not enrolled for good; clients subscribe with `Sub` and `UnSub`, which change
  their handlers too, and use neither `SetHandler` and `DelHandler` nor a SUB without a
  handler; servers leave `AddSubscriber` and `DelSubscriber` to the library, and are `Undivided`:
  one goroutine works on the table, or somebody stays subscribed and nobody queues. Without the
  last clause the theorem would be about atomic calls the code does not have: `sublost` is a
  counterexample in the code. The programs of the run `pubsub` are such.
* `PageSubscribing`: each client dials one server, and no program but the loads of a page has
  the page's name. The rest follows from what a page's script does, and from `LoadsAssumption`: at a
  page's server nobody else subscribes or unsubscribes. The programs of the run `browser` are such.

Each inductive invariant below was checked by TLC on the run of its property before it
was proved.

**Callbacks.** `CallbackAtMostOnce` is not inductive: nothing in it says that an
identifier whose callback ran is no longer waited for. `IInv` adds `TypeOK`,
`PendingUnanswered` (what is in `messages` is unanswered, was issued there and has a
callback) and `FreshUnanswered` (an identifier that was not handed out is
unanswered). The step that matters is `RecvReply`: it needs the identifier in
`messages`, hence unanswered, and removes it. The refinement reads the phase of an
identifier off `messages` and `answered` and follows from the same invariant:
calls are `Call` or `Post`, `RecvReply` is `Answer`, `DelMessage` is `GiveUp`, all
else stutters.

**Callbacks that throw.** In `TsNet` neither `CallbackAtMostOnce` nor
`PendingUnanswered` holds: a callback that throws is run again on a repeated answer. What
is left is `RpcThrows`, in which a request is outstanding until a callback
returned or the caller gave up. Its phase is read off `messages` alone, and the
invariant `TsInv` needs besides `TypeOK` only `PendingOwned`: an entry of
`messages` was issued by that process, so that removing it there ends the
request everywhere.

**Three libraries.** The C++ library makes messages the other two do not:
a SUCCESS that answers nothing, replays that come from nobody, errors about these.
`CppInv` says how far they reach. `MailInv` follows an identifier to the call that took it: a
message that is brokered or has no sender stems from a call with the Broker flag, which is no
command and above all no `Syn`; so the callback of a `Syn`, the only one that writes to
`webSockets` the sender of its reply, is never run on an anonymous message. The path of a
reply is still that of its request: the new SUCCESS takes an identifier of its own, so what
comes back under that has no path either. Refinement and invariant need no assumption on the programs.
The types of state and of messages are separate conjuncts (`StateOK`, `MessagesOK`), so that the lemmas
about Go and TypeScript processes, which need only `StateOK`, serve here as well.

**Answers.** That an answer belongs to its request depends on every message on the
way, those in the hands of relays and brokers included. `AnswerInv` says of each
of them that it is `Faithful`: it has the path of the call that took its
identifier; if it is a request, it has its receiver; if it is an answer to an addressed
request, it comes from the addressee; if it has the Broker flag, so had the call. The last
clause is what the broker needs: `ReplayMsg` drops the receiver, which
is right because brokered calls have none. `Err` may come from anybody on
the way, which is why `AnswerFromAddressee` excepts errors. In `TsNet` the user's
relay handler may answer a message itself, in somebody else's place: the
invariant there is the weaker `TellInv` (a message tells the path of its call),
and `AnswerFromAddressee` is not claimed.

**The table.** `NoEmptyPath` is inductive given `TypeOK`: `TableOf` lists the three
ways in which a step changes a table, and a lemma for each (`AddSubscriber`,
`DelSubscriber`, `QueueOutcomes`) says that no path is left without subscribers.
`QueueServes` is what makes the invariant worth having: a queued message goes to nobody
only when the path has no entry, since `sendQueue` always serves somebody of a nonempty
map, whatever its marks. In a network with C++ processes paths without
subscribers remain, but only with those (`CppEmptyPaths`).

**The queue.** `QueueInv` adds to the types what the first loop has done so far
(`LoopInv`), from the marks the call found and the set of clients the loop has come to:
those not visited yet have their old mark; one visited is marked exactly if it was served
and had no mark; if `takeNext` is set there is a first marked client, not served, and
every other marked one visited was served; if it is not, nobody visited was marked and nobody was
served. That is enough to read off, at the end of either loop, an element of the closed
form (`FirstServes`, `SecondServes`), whatever the order and however many clients; the mapping
shows the table as it was at the call until the call is over, so that the
step that ends it is the one step of `RoundRobin` (`QueueRefinesRoundRobin`). For a call nobody cuts
into, and no other, this entitles `GoNet` to take `sendQueue` as one step, which is why
`TableAssumption` lets no other goroutine touch the table of a process that queues. `GotOnce`, no client served twice
in a call, is needed to count the deliveries; `QueueBounds` counts the closed
form's (section 5 has what the documents say of them).

All of that is `WholeInv`, and is given up with the first change within a call. What is left does not
depend on it: whoever is marked and need not be come to any more was served (`MarksInv`), and who stays is
there for the second loop if the first served nobody (`StayInv`).

`LoopsHaveClosedForm` adds the other direction, that `sendQueue` promises no more than the
loops can do, for any number of clients; the specification must not allow `GoNet` steps
the code cannot make. There the first loop is a fold over an order of the clients.
`FirstLoopVisits` takes the fold apart into its states, and `FirstLoopIs` says, by
induction over the places, that whoever has a marked one before it (`Late`)
is served, once, and marked unless it was. `LoopsSound` reads an outcome
off, with the first marked client, found by `Least`, as the one whose turn has passed. For
`LoopsComplete` each outcome gets its order (`Arranged`): those not served, then the one
whose turn has passed, then those served; for a single client served by the second loop,
the marked one, if any, comes last.

**Registered names.** `webSockets` is filled from the reply to a `Syn`, under the
name the reply says it is from. `RegistryInv` says that whatever is on its way under the
identifier of a `Syn` is on its own connection, between the two processes, and
carries their names: no relay or broker ever passes it on. So the reply comes from
the process at the other end, whatever the transport repeats or reorders.

**Messages handled once.** A broker turns one message into many, a relay takes one from
a connection and puts it on another, all under one identifier. `OnceInv` counts
the messages that can still bring a request to a handler, its tokens: requests, and
what a broker would replay. Two tokens of one request never wait at the same process
(`CopiesApart`), a request for one receiver or one that was not replayed has a single token
(`OnlyCopy`), and where a token goes the request was not handled (`NotYetHandled`). The
replay needs `RegistryInv`: `sendMult` goes through the subscribers' names, and the copies come to
different processes because names lead to different connections. Without `NamesKept` they
need not; on a transport that repeats messages the property is false.

**Subscriptions.** Between a call of `Sub` and the server's table lies a queue.
`SubscriptionInv` says that the last SUB or UNSUB for a path in the client's queue
decides whether the client has a handler for it, and that with none in the queue the
server's table agrees already; and (`OrdersInv`) that such orders are where their sender
put them, under his name, since relays and brokers pass on no commands without a
receiver. A lost or overtaken order breaks the property, hence `Faults = {}`. That the table
follows in one step is what `Undivided`, in `Subscribing`, restricts the programs for.

**Reloads.** A reload empties the page's tables and leaves the server's
table, so page and server disagree; and the server may still read what the load before
has sent. `HelloInv` claims nothing of a load without a connection; for one that has a connection it says of the
page's path what `SubscriptionInv` does: `onopen` puts a SUB into the new connection's queue with the first
messages (page:14), so the order there decides, whatever the table says of the load before.
`PagesStay`, that no page sends an UNSUB, is why what is left of other loads can only say the
same. This is why the property holds after any number of reloads, and why a page that sent its SUB
later would break it.

**Subscribers.** `DeleteInv` in `GoSubRaceProofs` follows a DelSubscriber step by
step, for a client that no `sendQueue` has put back (`revived`): once it is past looking for its client
and erasing it, the client is not in the current map; before that, the map it holds is the current one,
or one that was replaced by a map without the client, since only the client's own goroutine and a `sendQueue`
that has it in hand add it. With a standing subscriber `StandingInv` says
that the entry never changes and every goroutine that looked it up holds the same map,
so nobody writes to a nil or dropped map; `TableStep` then maps each access to a
step of `SubTable` or to a stuttering step: a step of `sendQueue` that takes a client in
hand is `Serve`, the one that writes its mark is `Mark`. Where nobody queues, `SubTable` is the
two operations as single steps, and this is the condition under which `GoNet` may take them so;
without a standing subscriber `sublost` shows that it may not.

**Bytes.** A buffer is filled from its end, and moves when it grows; so the
proofs speak of places counted from the end (`FromEnd`). A builder `Extends` another if the
bytes written to that one are still in their places. Every operation is
shown to do that, and to leave a builder whose free space lies in its buffer
(`IsBuilder`). The argument rests on `prep` (`PrepIs`): its loop has
made the room for what is written next, and the alignment it pads to leaves no gap
in a run of numbers, so a struct, a vtable or a string is written without `prep`
moving anything in between. `StateOK`, the invariant, adds that every field of an open
table has an entry in `vtable`, which is what `endObject` reads. Two steps are not obvious:
`endObject` fills in the table's reference to its vtable after other bytes were written,
and drops bytes again when it finds an old vtable; both lie above what was
written before the call (`PatchedIs`, `EndObjectIs`).

**Vtables.** `SharedVtables` needs that a vtable remembered is still what it was when
the search compares the next one with it, and that it lies within what was written
and starts with a positive length (`VtablesOK`): a comparison over no entries would take any two
for equal. `WithVtableIs` says which numbers the new vtable consists of, and
`Int16Back` that they read back from their bytes. That the search found nothing was said
of the buffer before the reference is filled in; it stays true afterwards, because
the four bytes of the reference lie behind the new vtable, and in front of all the
older ones.

**Alignment.** `prep` pads so that the distance from the end is a multiple of what is
written next; a reader counts from the beginning, and the two agree only when the length
of the whole is a multiple of the largest alignment used, which is what `finish` sees to.
The invariant (`AllAligned`) says it of the places from the end: of the fields `vtable` has
entries for while a table is open (`OpenAligned`), of what `__offset` finds in every table
made (`TablesAligned`), and of the objects references may lead to (`MadeAligned`); for a
finished buffer it adds the length (`RootAligned`). `minalign` is part of it: every size
that was written is at most that, so one length fits them all. Such an invariant survives later
operations because what it reads was written before (`ReadsStay`), and `endObject`
establishes it from `OpenAligned` with `VtableReads`: whether the new vtable is kept or an old
one found, the reference leads to one with the new one's numbers. `SentIs` takes the buffer that is sent
for a builder's without free space, so that the facts about places carry over.
`FinishedAligned` assumes `Bounded`: numbers that do not fit
the 32 bits of a reference or the 16 of a vtable's entry do not read back. The first bound the code keeps,
for `growByteBuffer` throws before 2 gigabytes (js/testServer.bundle.js:1429); the
second it does not check: a table's fields take at most 8 bytes each, and those of the
schema 40 or so in all, since strings and tables lie outside. In the `tables` run both
always hold.

The loops of the runtime are folds and recursive functions here. `NatInd`, there and for the
queue, is induction over
the naturals in a form the provers can use, for sets instead of predicates; `FoldSteps` and
`GrownIs` get from it what a fold and `prep`'s loop do.

**Only model-checked.** Liveness (`RelayedRequestAnswered`, `Quiescence`,
`PageAnswered`, `PageServes`) is out of
the prover's reach. `ReadsBack`, `ReceiverReads`
and the properties of `Wire` say what a reader makes of the bytes of a whole
buffer: that needs, besides the theorems above, the bytes of every kind of field,
64-bit and floating-point numbers, strings and structs included, read back through the tables of
the vtable. `HandledOnce` is proved for networks of Go
processes; with pages it is checked in `browser`.

## 5. Where the code and its documents differ

Besides the two violations there are these, met while modelling. The models
have them as the code has them; the runs' programs avoid some, as
noted.

* *Cast callbacks.* The README promises a publisher its subscribers' replies. The
  broker rewrites From and keeps the identifier (go:252), so the replies come to the
  broker, which knows no such identifier and drops them. A cast with `broker`
  false never stores its callback (go:273-276), with the same effect.
* *Errors of a process that is no broker.* `Err` copies the Broker flag (go:174).
  The caller, no broker itself, takes the error for a broker message and
  answers with an error, and so on for ever; its callback is not run. The programs
  of `pubsub` give broker messages to a broker, which is what `Quiescence` needs.
* *Queue.* fbs:8 speaks of one of the active subscribers, and the README (src/README.md:162) of a single
  one in round-robin fashion. With three or more `sendQueue` may serve several (`DeliveryBounds`: one of up
  to two, at most all but one of more). Turns are not kept either: each loop has an order of its own, and if
  the client marked by the last call comes last in the first loop, the second loop may serve
  it again. In TypeScript the length test is the wrong way
  round (ts:209) and nobody is served; in C++ the second loop serves everybody.
* *UNSUB during a queued message.* fbs:25 says that UNSUB is processed automatically and returns success.
  `sendQueue` writes the mark of its client after the handler call (go:321-322), so an UNSUB processed in
  between returns success and is undone: the client is a subscriber again, and gets
  messages it has no handler for. `AcknowledgedIsUnsubscribed` excepts exactly these
  clients, `ImplementsTable` says that nothing else happens to others.
* *The last answer wins.* `webSockets` is set by whatever answer to a `Syn` is read last (srv:94). After a
  quick reconnection that may be the answer of the old connection; the living one is
  then never used again.
* *UNSUB in C++.* fbs:25 says that UNSUB is processed automatically. The C++ client
  sends a SUCCESS without a path (cpp:282), which the receiver takes for an answer to
  a call it never made: the subscription stays, and the handler for it
  is gone.
* *Replay in C++.* What `brokerReplay` sends on is addressed to the publisher
  (cpp:328); subscribers take it for a message to relay, and their error or answer goes to
  nobody.
* *READY.* Go and C++ call a hook and answer nothing, TypeScript throws
  (ts:321), the compiled JavaScript answers with an error.
* *The bundle* was built from an older schema: its SUCCESS is 5, which the others
  read as CANCEL. No library branches on a status other than REQ. `testServer.ts` calls
  `sub` with the three arguments of the compiled library, and passes a text where the
  library expects bytes: its letters arrive as zeros.

## 6. Not modelled, and the plan

Not modelled: `go/perfTest` (one process that hands its messages to itself);
build files; the Go and C++ generated code, which `flatc` makes from the same
schema; in the runtime the check of a buffer's growth beyond two gigabytes,
`Long.toFloat64`, the encoding parameter of `__string`, `startBodyVector`; the
unfinished C++ build without Qt; the concurrency of `messages`, `handlers` and
`webSockets` inside the Go server; testClient1's handler that is installed after
reading began; two tabs of the page open at once. Of the subscriber table: networks in which goroutines cut into
each other's calls in a way that matters (`TableAssumption`): a path whose last subscriber
leaves while another joins, a `sendQueue` while others subscribe, both of which are modelled on one path,
in `GoSubRace` and `GoQueue`, and not in the network; two calls of `sendQueue` at once, access by access with
their marks (`GoSubRace` has them without); and a cast during which a client leaves and joins again,
which the range over the map may come to twice.

In this order:

1. `HandledOnce` and `RegistryCorrect` as theorems about `PageSpec`: `OnceInv` and
   `RegistryInv` are to be followed through `recieveRawData`, `Load` and `Reload`.
2. `sendMult` in `GoSubRace`: its range over a map that changes, for casts and for the programs
   `TableAssumption` keeps out of `GoNet`.
3. `GoReplyRace`: `RecieveMessage` of two goroutines on `messages`, access by
   access, as `GoSubRace` does for `subscribers`; `Rpc` is its abstract
   specification.
