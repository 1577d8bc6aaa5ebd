# A verification of noise

noise is a peer-to-peer networking library in Go. This directory holds TLA+
models of it, the TLC configurations that check them on small instances, and
TLAPS proofs of the central properties for every instance. `PROJECT.json` lists
components, runs, mutants, hazards, findings and theorems, and maps every
definition to the lines it models.

## The system

| Part | State | Operations | What is hard about it |
|---|---|---|---|
| receive window (`network/recv_window.go`) | ring of slots, `lastNonce`, `once` | `Push`, `Pop`, `Range` | slot arithmetic modulo the size, a full ring, the first push fixing the start |
| message delivery (`Write`, `sendMessage`, `flushLoop`, `Accept`, `Submit`, `executeJobs`) | `ConnState` (nonce, bufio writer), job queue, one goroutine per message | write, flush, read, push, pop, submit, execute | nonce taken outside the mutex, sticky write errors, goroutines overtaking each other, full queue |
| peer clients (`Client`, `Accept`, `PeerClient.Close`, `Network.Close`) | `peers`, `connections`, the fields of `PeerClient` | look up or dial, wait, `Init`, `client.Do`, close | shared client objects, entries deleted by address, failed dials |
| requests (`Request`, `Reply`, `dispatchMessage`) | `Requests`, `RequestNonce`, channels | ask, track, hand over, time out | reply before tracking, second reply, reconnection |
| byte streams (`handleBytes`, `Read`, `Write`, deadlines) | buffer, signal channel, deadlines | append, read, wait | missed signals, concurrent readers, an error together with bytes |
| routing table (`dht/routes.go`, `peer/identity.go`) | buckets of peer IDs | `Update`, `RemovePeer`, `FindClosestPeers` | bucket limit, a table that changes while it is read |
| discovery (`network/discovery`) | routing table, lookup queues | `Receive`, `PeerDisconnect`, `FindNode` | WaitGroup order, pending counters, peers that come back after they left |
| backoff (`network/backoff`) | `backoffs` map, attempt counters | `startBackoff` | check and store are two steps, entries deleted by whoever ends first |
| messages (`message.go`, `stream.go`, `opcode.go`, generated code) | opcode tables, a frame | register, marshal, sign, frame, cut, unmarshal, dispatch | length boundaries, a connection that breaks inside a frame |
| node (`builder.go`, `plugin_list.go`, `nat`, `Listen`, `Bootstrap`, `address.go`, `lru`) | plugins, address and ID, listening state, lookup cache | add, sort, start up, listen, bootstrap, close | plugins that depend on each other's start, a name service that changes |
| transports, cryptography, example programs | outside the process, or none | | pure I/O or arithmetic |

Interactions: a message goes from `Write` over a connection of `connections` into
the peer's `Accept`, which finds its client through `Client` (and so dials back),
puts the message through the window into the client's job queue, and
`dispatchMessage` gives it to a waiting `Request`, the byte stream or the
plugins. Discovery and backoff are plugins: they call `Client` and `Request`
themselves and react to `PeerDisconnect`.

What should hold, by part: the window hands out everything once and in order; a
connection that works delivers every message and duplicates none; channels are
closed once, plugins hear of one disconnect per client, closed clients and dead
sockets do not stay registered; a `Request` returns its own reply and never
blocks the client's executor; a stream is a FIFO; buckets stay well formed and a
lookup asks nobody twice and ends; a message arrives as it was sent or not at
all; a lost peer is dialled as often as configured; a node bootstraps when it is
ready. The hazards in `PROJECT.json` name the line where each of these could go
wrong.

## Modules

| Module | Models | Extends |
|---|---|---|
| `RecvWindow` | the window, `Push` and `Pop` as atomic actions (each runs under the mutex) | |
| `Delivery` | one direction of one connection, from `Write` to `dispatchMessage` | `RecvWindow` |
| `PeerClients` | client objects and the two maps of one node | |
| `Requests` | requests to one peer over consecutive client objects ("sessions") | |
| `ByteStream` | abstract: a FIFO of bytes | |
| `Stream` | the stream of a client; implements `ByteStream` | (instance of `ByteStream`) |
| `RoutingTable` | identities, distances and buckets, as operators | |
| `Discovery` | the callbacks of the discovery plugin on one table | `RoutingTable` |
| `Lookup` | one `FindNode` with its goroutines and queries | |
| `Protobuf` | what gogo/protobuf generates for a message type | |
| `StreamPb`, `ExamplePb` | the message types of the library, of the examples and tests | `Protobuf` |
| `Opcodes` | the two opcode tables and their registrars | |
| `Messages` | one message from value to value | `Opcodes`, `StreamPb`, `ExamplePb` |
| `Backoff` | the workers of the backoff plugin | |
| `Addresses` | unified addresses and the LRU cache, as operators | |
| `Node` | Builder, plugins, `Listen`, `Bootstrap`, `Close`, with backoff and addresses | `Backoff`, `Addresses` |
| `MC*` | instances for TLC | the module of that name |
| `*Proofs` | theorems and their proofs | the module of that name (`DeliveryProofs` has those of `RecvWindow` too, `RequestsProofs` those of `Opcodes`) |

**RecvWindow.** A message is its nonce. `Range` is modelled by where its loop
stops: `RangeStops(fn, k)` says that it leaves after `k` slots, and
`RangeLast`, `RangeBuf`, `RangeResult` are the resulting `lastNonce`, slots and
return value. `pushed`, `popped`, `first`, `overrun` are history. The window
promises order only if it is *aligned*: the first push was message 1 and no
push was a whole ring ahead of the next message. Both conditions can fail in the
code, and `Delivery` lets them fail.

**Delivery.** `call`, `writer`, `wire`, `handler`, `batch`, `jobs` are the places
a message passes. `TakeNonce` and `SendMessage` are the two halves of `Write`
(the atomic add, then the critical section of `sendMessage`); `Flushed` and `Put`
are what bufio's `Flush` and `Write` may do, including a failure after some
frames. `Receive` is one round of Accept's loop; `HandlerPush`, `HandlerPop`,
`HandlerSubmit` are the goroutine it starts, which is preempted between any two.
`Break` (connection lost), `Kill` (`Network.Close` of the sender) and
`CloseClient` (`PeerClient.Close` of the receiver) happen at any time. Frames are
whole or lost (`Messages` has the frame that is cut); between nodes of this code
a frame passes the checks of `receiveMessage`, and all messages of a connection
carry one identity.

**PeerClients.** Every goroutine makes one call of `Client`, and the client object
the call may create is named after it. `pc` is the place in the code, `held` the
client the goroutine works on, `obj` the objects. The steps are the operations
on `sync.Map`, channels and atomics. An `Incoming` goroutine runs `Accept`: it
calls `Client`, passes `client.Do`, serves, and closes its client; `Shutdown` runs
`Network.Close`. `PeerClient.Close` is public and a method of `net.Conn`, so a
program or plugin may call it as well: a goroutine of `Users` closes some client
that was handed out, by `Client` or by `PeerConnect`, at any time (`CallClose`).
`closer` and `kept` are history: who ran Close, and whether it found no ID and so
left the entries. The address a peer announces is its unified address, so `Client`
and `Close` use the same key.

**Requests.** A call takes a nonce of its client (`TakeNonce`), writes the request
into the current connection, is tracked, waits, and cleans up in the order of the
deferred calls. The peer sends up to `MaxReplies` replies, each into the
connection that is current then. `DispatchReply` looks the nonce up in the client
of that connection; `HandOver` and `GiveUp` are the two cases of its `select`.

**Stream, ByteStream.** `handleBytes` is `AppendBytes` under the lock and then a
send that finds a reader in its `select` (`Signal`) or nobody (`SignalNobody`).
A Read is `Copy` under the lock, then `Return` or `Select` on what it saw there:
the flag `isClosed` and the deadline may have changed in between. The clock is
a small counter. `returned` and `inHand` are history: the bytes, by their place in
`taken`, that callers got, and that a Read has copied and not yet returned.
`ByteStream` says that what was handed out is a prefix of what
came in; the refinement maps `in` to `received` and `out` to `taken`.

**RoutingTable, Discovery.** An Id is a sequence of a few bits, most significant
first; two peers are equal if their Ids are. `Updated`, `RemovePeer` and the rest
are operators from table to table, each within one lock of a bucket. `Discovery`
runs a `Receive` per handler: the update of the sender, then by the kind of the
message nothing, the peers that `FindNode` returned one after the other, or
`FindClosestPeers`, which reads one bucket per step outwards (`ReadFirst`,
`ReadDown`, `ReadUp`). `PeerDisconnect` is two steps, since `PeerExists` and
`RemovePeer` lock separately. `sort.Slice` is defined by ranks: an element stands
at one plus the number of those before it (`Place`, `SortedBy`). `stable` and
`strangers` are history.

**Lookup.** `Spawn` and `Add` are separate because the code starts the goroutine
before `wait.Add(1)`; a lookup that ends in between takes the counter below zero
(`pc = "panic"`). `Ask` sends the queries for the front of the queue and drops
the rest, as `performLookup` does. A query either is at the peer or blocks on the
channel with its answer; an error, a timeout or a wrong message is an empty
answer. What peers answer is any of `Answers`.

**Protobuf, StreamPb, ExamplePb, Messages.** The generated files repeat the same
code per type. `Protobuf` has it once, as operators on a list of fields, at the
level of bytes; the other two give each type's fields and functions. `Messages`
takes a value through `PrepareMessage`, `SerializeMessage`, `Sign`, the length
prefix, a connection that loses any number of bytes at the end, `receiveMessage`
(which goes on with a buffer of zeros after a read that failed) and the decoding of
`dispatchMessage`. The hash is deliberately weak, length and last byte: the
properties hold without relying on it. `Opcodes` has the registry: registrations
interleave with all this in the two steps of `RegisterMessageType`.

**Backoff.** A worker per disconnect. `LoadEntry` and `StoreEntry` are the check
and the store of `backoffs`; `Loop` reads the attempts of whatever Backoff the map
holds by then and `NextDuration` writes them back, unlocked. `attempts` of an
address is the counter of the Backoff that the map holds; one that is not there
any more is written by a worker that still holds it, and read by nobody.
Clients and `peers` are not modelled here: what the plugin sees of them is the map
`connections`, which any call of `Client` may fill at any time, and the Closes.
A Close calls `PeerDisconnect`, for a client with or without a connection, and later
deletes the entry of the address, if the client has an ID. Any number of Closes run
at once: `closes` counts those that have called the plugins since the present
connection was stored and will delete its entry, `older` those that had called them
before and will delete it all the same. `PeerClients` has the steps of `Client` and
`Close`, which allow less than this: there `peers` decides who dials.
`tries` and `causes` are history since the last connection was stored.

**Addresses, Node.** A text of an address is empty, malformed or a record. The
domain name system answers with any of `Lookups` at each call, while the cache
keeps old answers. `Node` follows `Builder.Build`, the Startup of the plugins in
the order of their priorities (`SortByPriority`, by ranks as above),
`startListening`, `Bootstrap` and `Close`, with the backoff workers beside it,
before, during and after a shutdown. `FilterPeers` looks at one address per step,
so other users of the cache come in between: `given` is what it has still to look
at, `contacts` what it found.

## Runs

| Run | Instance | States | Shows |
|---|---|---|---|
| `window` | 3 slots, 7 messages | 12 thousand | at most once; aligned: in order, lossless, maximal pops |
| `delivery` | 3 messages, 2 slots, frames of 1 or 3 bytes, buffer of 2, queue of 1 | 112 thousand | no duplicates, losses have a cause, an undisturbed connection delivers everything, refinement of `WindowSpec` |
| `delivery_order` | the same | | violated: messages are dispatched out of order |
| `peers` | 1 caller, 2 incoming connections, 1 user, shutdown, 1 address | 288 thousand | channels closed once, one disconnect, connect before disconnect, registered sockets open, closed clients leave `peers` unless closed without an ID, which no Accept does |
| `single_dial` | 3 callers, 1 incoming connection | | violated: two goroutines dial the same address |
| `requests` | 2 calls (one without deadline), 2 sessions, 2 replies each | 165 thousand | entries kept while waiting, replies of the same session match, none missed, executor never stuck |
| `request_mismatch` | the same, 1 reply each | | violated: a call returns the reply to another request |
| `stream` | 2 readers with slices of 1, and of 0 or 3 bytes, 2 packets, deadlines, clock of 2 | 91 thousand | refinement of `ByteStream`; no copied byte goes unreported; a Read whose signal met nobody still returns |
| `discovery` | Ids of 3 bits, 3 contacts (two with one Id), buckets of 1 (+1), 2 handlers, 2 sessions, 3 messages | 412 thousand | buckets well formed, only a disconnect forgets, entries have a session or came without one, closest peers from a changing table |
| `lookup` | 6 peers, 2 lookups, alpha 2, 6 possible answers | 32 thousand | nobody asked twice, queries bounded, the wait covers all lookups, `FindNode` ends |
| `messages` | 14 message types, 3 ways of sending, every cut, 2 registrars | 96 thousand | tables agree, a whole frame arrives as sent, a cut one is accepted only if the cut is in the opcode |
| `node` | nat and discovery added in any order, 4 addresses to bootstrap from, cache of 2, 2 disconnects, 2 attempts | 1.8 million | bootstrap only after a startup in the right order, to resolved and distinct addresses; a peer is given up for a cause |

**Bounds.** 7 messages through 3 slots go round the ring twice, with full rings,
overruns and late starts. 3 messages in 2 slots suffice for a wrap, an overrun,
two competing handlers and a submit that finds the queue full; frames of 1 and 3
against a buffer of 2 give buffered, flushed-first and unbuffered writes. Two
incoming connections and a caller give every pair of roles that share a client
(creator, waiter, two Accepts, a user, two closers); one address is enough because calls
for different addresses touch different entries (the proofs have any number).
`single_dial` needs three dialling calls, none of the passing properties does.
Two readers suffice for one to take what the other was signalled for. Three Ids in
a bucket that takes two make it overflow; one Id at two addresses gives the session
that outlives its entry. The answers of `lookup` name the target's neighbours,
peers already asked, one peer twice, and enough to exceed `BucketSize`. The values
of `messages` include the first length whose varint takes two bytes, nested and
repeated messages, and opcodes of one and two bytes. Two workers are every pair of
places in `startBackoff` and two overlapping Closes; that a worker loses its entry to
another and gives up for that cause takes a third, and `BackoffProofs` has any
number. The addresses to bootstrap from are a malformed one, the node's own,
which is a foreign one behind a gateway, and a peer's under its IP address and under
a name, which may not resolve. The place of the backoff plugin in the list, whose
Startup sets nothing that is modelled, would double the states and is left to
`NodeProofs`; its workers run in this instance too. `MaxNonce`, `MaxSessions`, `MaxReplies`,
`MaxMessages`, `MaxLearned`, `MaxPackets`, `MaxTime` bound what the code leaves
unbounded.

**Fairness.** Weak fairness of goroutines that can run (the Go scheduler), of the
ticker of `flushLoop`, of `Dial`'s return and of plugin callbacks' return; in
`Stream` of the steps of a Read, its one-second timeout included; in `Lookup` of
the goroutines of `FindNode` and of queries, which end by their timeout of three
seconds at the latest. Nothing is assumed of new calls, packets, replies,
contexts, failures, shutdown, the end of an incoming connection, or users that
close a client; a Close that has begun goes on.
`EventuallyDispatched` is conditional on a connection that is undisturbed and a
window that is aligned; without the second condition it fails, because a message
overtaken by a later first push is stranded.

**Deadlock** checking is off where the system may come to rest (all messages
delivered, all calls returned): everywhere but in `stream`, where reads and
deadlines can always be called.

**Mutants.** For each property of a passing run there is a faulty variant of a
definition that violates it: for instance a Pop that does not clear its slots, a
submit that drops when the queue is full, an Accept without `client.Do`, a
`client.Do` that does not set the ID, a `Close` that ignores the result of the swap,
a request that leaves `closeSignal` open, a failed Read that reports no bytes, a
query that sends nothing when it fails, a backoff that ends with the first dial that
fails, plugins that are not sorted.

## Findings

1. *Order* (`delivery_order`). The popped run is submitted after the window's lock
   was released; two handlers can submit in the other order. The byte stream of
   `PeerClient` ("implement net.Conn") is built on this queue.
2. *Dials* (`single_dial`). A failed dial still closes `outgoingReady`, so an
   `Accept` that waited takes the client for connected; its `Close` deletes by
   address, and removes the entry of a newer client that is still dialling.
3. *Replies* (`request_mismatch`). `RequestNonce` starts again with every client
   object, while a reply goes over whatever connection is current.

Smaller things met while modelling; the properties say what does hold:

* `FindClosestPeers` "returns a list of k(count) peers with smallest XorID
  distance", but stops searching buckets once it has `count`: nearest among those
  searched (`ClosestOfStable`).
* `FindNode` is to "Sort resulting peers by XOR distance", but compares the Ids of
  what `Xor` returns, which has none: the peers kept are any of the results. Its
  lookups hold one mutex throughout and so run one after the other. `wait.Add(1)`
  comes after the start of the goroutine, which can make the WaitGroup panic.
* A bucket takes `BucketSize + 1` peers (`Len() <= BucketSize`).
* A peer that closes its session can come back into the routing table by a
  `Receive` that is still running (`strangers` in `GoneAfterDisconnect`).
* Backoff workers go on dialling after `Network.Close`.
* A client that its user or `Network.Close` closes before the first message of the
  peer has no ID: it stays in `peers`, and `Client` hands it out closed
  (`kept` in `ClosedLeavesPeers`; `AcceptCleansUp` says that no Accept does this).
* A Close that called the plugins before a new connection was stored deletes that
  connection afterwards. A backoff worker that saw it has ended by then, and nobody
  dials the peer again (`"overtaken"` among the causes of `GivenUpForACause`).
* A frame cut inside a two-byte opcode can be dispatched as another type: 1034
  reads as 10, 1025 as 1 (`CutOnlyInOpcode` allows just that).
* `nat` registers with priority -99999, its comment says -999999.
* A node behind a gateway filters its external address out of the bootstrap list,
  not its internal one.

## Proofs

All theorems hold for every value of the constants under the named assumptions
of the modules: positive sizes, `Nil` and `None` different from the values they
stand beside, `Target` a function to addresses, disjoint sets of goroutines, Ids
of one length, no contact with the node's own Id; `FindNode` starts with at most
alpha different peers, as `FindClosestPeers` gives them; registered types are
not those of the package; a host is an IP address or a name that can be looked
up, and a lookup answers with IP addresses. TLC evaluates each of them.

* `DeliveryProofs`, the window: `WindowTypeCorrect`, `AtMostOnce`, `InOrder`,
  `Lossless`, `PopsAreMaximal`. None of the properties is inductive: that the run
  Pop returns is the right one depends on where `lastNonce` stands. `WindowInv`
  adds that `lastNonce` equals the next nonce modulo `Size`, that filled slots hold
  nonces of the next `Size`, and that slots hold pushed, unpopped nonces of their
  own index. The lemmas `Idx*` are the modular arithmetic: two nonces in one slot
  are a whole ring apart.
* `DeliveryProofs`, the connection: `DeliveryTypeCorrect`, `DeliveredAtMostOnce`,
  `LossesHaveACause`, and the refinement `UsesWindowAsSpecified`. `DeliveryInv`
  divides a message's way into stages: before the link (`LinkInv`), in the window
  (`PushInv` with `WindowInv`), popped (`SubmitInv`: batches, queue and dispatched
  messages are pairwise disjoint and free of repetition), and says that none
  disappears before the push or after the pop (`KeptBefore`, `KeptAfter`) while
  nothing is broken. The lemmas on elements say what Append, Tail and cutting do to
  a sequence without repetition; there is a lemma per action. The refinement needs
  the invariant: a `HandlerPush` is a `Push` because its nonce was not pushed yet.
* `PeerClientsProofs`: `ClientTypeCorrect`, `ChannelsClosedOnce`, `OneDisconnect`,
  `ConnectComesFirst`, `RegisteredIsOpen`, `AcceptsCleanUp`. `ClientInv` ties positions to objects: a
  dialling goroutine holds its own client, whose `outgoingReady` is open; an Accept
  holds a client whose `outgoingReady` is closed, and once past `client.Do` one that
  has an ID (`NamedOK`); one goroutine at a time runs the
  `sync.Once`, one is past the swap of `closed`; a registered connection was
  dialled by a client of that address. There is a lemma per conjunct, with a step
  per action.
* `RequestsProofs`, the calls: `RequestTypeCorrect`, `WaitingIsTracked`,
  `RepliesMatchInSession`, `RepliesNotMissed`. `RequestInv` follows a reply through map, executor and
  channel: wherever it is, the call it is going to has the nonce of the call it
  answers and belongs to the session it came in; nonces of a session are unique.
* `StreamProofs`: `StreamConserves`, the refinement `ImplementsByteStream` and
  `NothingDropped`. What came in is what was taken followed by the buffer; the
  bytes taken are those returned and those in the hand of a Read, each in one
  place. A `Copy` takes the next numbers behind all that were taken before, so
  they cannot be in another hand; the lemmas are about splitting and concatenating
  sequences.
* `DiscoveryProofs`, the table: `TableStaysWellFormed`, `DisconnectedAreGone`,
  `ForgottenByDisconnectOnly`. Lemmas say what moving to the front, pushing and
  removing do to a list without equal Ids, then what `Updated` and `RemovePeer` do
  to a well-formed table; `NextIsTableStep` reduces every step of the plugin to one
  of these. `DiscoveryInv` adds the types and that the node's own entry stays.
* `DiscoveryProofs`, the search: `ClosestAnswered`. `ReadInv` says of a
  `FindClosestPeers` that has come to distance `i` what its list holds: different
  peers of the buckets read so far (`Span`, or `HalfSpan` in the middle of a
  round), and all of those that were in the table throughout; at the end it has
  `Count` or the span is the whole table. It takes the well-formed table: a peer is
  in the bucket of its distance, so a bucket read later brings nobody a second time.
  `ClosestFacts` then is about the answer: sorting keeps everybody and puts the
  nearer ones in front, and two peers of the same distance have the same Id.
* `LookupProofs`: `PeersAskedOnce`, `AlphaQueries`, `WaitCoversLookups`. `LookupInv`
  says that the counter of the WaitGroup is what was added minus the lookups that
  are done, that queries are out only for the lookup which holds the mutex, whose
  `pending` is their number, that whoever was asked is in `visited` and not in the
  queue of a lookup which has not begun, and that what was visited is among the
  results. The lemmas are about the shares of the lookups, which are disjoint, and
  about what is new in an answer. `MayAsk` is what has to hold of a list of peers
  for which queries may go out; a lookup that begins and one that got an answer
  both establish it, and `AskKeeps` shows once that sending keeps the invariant.
* `RequestsProofs`, the opcodes: `RegistryAgrees`, `OpcodesAreKept`. `RegistryInv` says that a
  registrar between its two stores holds an opcode which `opcodeTbl` gives to its
  type already.
* `BackoffProofs`: `GivesUpForACause`. `BackoffInv` says that an entry of
  `backoffs` is that of a worker which will delete it, that nobody holds a Backoff
  which is not stored yet, and that for a lost address with attempts left, no cause,
  and no connection but one whose Close called the plugins already, *somebody goes
  on*: a worker that has not stored its Backoff yet,
  or the one whose Backoff is in the map, with counters that are not ahead of
  `tries`. That worker changes, when another one's store overtakes its own;
  this is why the invariant has to name the owner of the entry.
* `NodeProofs`: `BootstrapsWhenStarted`. `PluginInv` says that the list has
  every plugin once, after `Build` with nat before discovery, and that a discovery
  plugin which was started has the node's ID: nat, which changes the ID, comes
  earlier. `BootInv` says that the cache holds IP addresses only, whatever was
  evicted, and that the addresses to dial are resolved ones, different from one
  another and from the node's own.

*Two arguments that recur.* The library's induction theorems have an operator as
parameter and cannot be used. Where a proof about numbers needs an induction
(every set of numbers can be listed in increasing order; the first bit in which two
Ids differ), it takes a least counterexample instead: `LeastNat`, from the
well-foundedness of the numbers. Sorting needs no induction at all: an order on
`1..n` gives every element a rank, ranks are different and at most `n`, so every
place is taken once (`PlacesInOrder`, by counting).

Only model-checked:

* liveness (`EventuallyDispatched`, `ClosedLeavesPeers`, `ExecutorFreed`,
  `ReadersWakeUp`, `Terminates`), out of TLAPS's reach;
* `DispatchedAsSent` and `CutOnlyInOpcode`: they say what the recursive operators
  of `Protobuf` compute, of which TLAPS has no account.

## Plan

1. A composition of `PeerClients` with `Backoff`, where `Dial` is the steps of
   `Network.Client` and not one.
2. Two directions of a connection at once (`Delivery` twice, with `Reply` of
   `Requests` on top).

## Not modelled

* Curve arithmetic and hashing (`crypto/ed25519`, `crypto/blake2b`): out of reach;
  an ideal signature and a weak hash stand in for them.
* Transports and the gateway's protocol: pure I/O.
* The example programs and mocks: users of the library; their message types are
  modelled.
* `Broadcast*`: loops of `Write` over `eachPeer` without state of their own.
* `ForAttempt` of a Backoff: floating point, and only the length of a sleep.
* `PluginContext`, its accessors and its pool: no plugin of the repository keeps one.
* The check of the private key's length in `Sign`: key pairs come from the policy.
  The difference of nil and empty byte slices in a decoded message.
* `NewPopulated*`, `GoString`, `String` of the generated code: tests and logging.
* `SetLocalNonce`, `LocalNonce` of the window and `Reset` of a Backoff (no
  callers outside tests); option setters; the wrap of 64-bit nonces.
