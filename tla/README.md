# Verification of kadpeer

TLA+ specifications of kadpeer, a Kademlia peer with a chat over UDT, an Ogg
player and an RTMP client, checked with TLC and, where it matters most, proved
with TLAPS. Paths are relative to the repository's directories `src/`,
`include/`, `udt/`, `librtmp/` and `tinyxml/`; line numbers refer to the commit
this directory is kept beside.

Contents: 1 the system; 2 the modules; 3 the runs; 4 fairness; 5 the proofs;
6 what is only model-checked; 7 what the work showed about the code; 8 what is
not modelled; 9 the plan.

## 1. The system

| Component | State | Operations | Used by |
|---|---|---|---|
| `DataStore` (`kademlia/datastore.*`) | a multi_index container of tuples, unique in (key, value): refresh time, expiry time, time to live, hashable, delete status, delete request; `mutex_` | StoreItem, LoadItem, RefreshItem, MarkForDeletion, MarkAsDeleted, UpdateItem, DeleteItem, DeleteKey, DeleteExpiredValues, Clear, ValuesToRefresh, queries | `KadService`, the maintenance of a node |
| `KadService` (`kademlia/kadservice.*`) | `node_joined_`, the node's information, callbacks into the node | the RPC handlers Ping, FindValue, FindNode, Store, Downlist, Bootstrap, Delete, Update; set_node_joined | the Thrift server |
| `RoutingTable`, `KBucket` (`kademlia/kadroutingtable.*`, `kbucket.*`) | buckets with ranges and contacts in the order they were seen; a map of upper addresses; the indices of the holder's bucket and of its brother | AddContact (split, ForceKAcceptNewPeer), RemoveContact, GetContact, FindCloseNodes, GetFurthestContacts, GetRefreshList, TouchKBucket, Clear | the callbacks of `KadService` |
| `KadID`, `Contact`, `BigInt` | an identifier; identifier, address and port | order, XOR distance, SplitRange, conversions | everything in `kademlia/` |
| `KadRpcs` (`kademlia/kadrpc.*`), Thrift interface (`thrift/gen-cpp/`) | a transport, protocol and client; structs with optional fields | one call per request of the service | nothing yet |
| `KNodeImpl` (`kademlia/knodeimpl.*`) | declarations, mostly commented out | - | - |
| thread pool, `TThread` (`common/`) | the workers, the list of idle ones, per worker its job, two condition variables; per job a mutex; per thread `_running` and its id | run, sync, sync_all, init, done; create, join, cancel, detach | `main.cpp` |
| `sll`, `HandleClass`, `HashMap`, `Singleton` | linked items, reference counts | push, pop, remove; copy, assign, destroy | pool, table |
| UDT sockets (`UDTSocket.*`, ...) | a UDT handle | create, bind, listen, accept, send, recv, destroy | `main.cpp` |
| player (`oggplayer/`) | the decoder thread, `mCompleted`, the play loop, the seek bar | start, stop, seek, play | - |
| UDT (`udt/`) | per connection: buffers, loss lists, numbers of both directions, timers, windows; per port: a send queue with its worker | send, recv, sendmsg, recvmsg; the handling of data, ACK, ACK-2, NAK, drop and keep-alive packets; timers | sockets |
| librtmp (`librtmp/`) | a connection with its channels, pending calls, stream, pause state, and the buffer of a reader | ConnectStream, ReconnectStream, Read, Pause, Seek, DeleteStream, Close; the handling of every kind of packet | - |
| TinyXML (`tinyxml/`) | a tree of nodes, attributes in a ring | print, parse, insert, replace, remove, clone | `main.cpp` |
| `main.cpp` | a server, a client and the pool | - | - |
| `sha1`, `crypto`, `TTimer`, `blah` | values, the log | - | everything |

How they interact. The Thrift server calls the handlers of `KadService`, one
after another or in several threads. A handler makes several calls of
`DataStore`, each of which takes the store's mutex for itself, and reports the
sender of the request to the routing table through a callback. The maintenance
of the node calls the same store from other threads. The routing table and
its buckets, which it holds by counted handles, are plain objects without a
lock. `main` starts a server or a client as a job of the thread pool, whose
callers and workers meet in a list of idle threads (an `sll`), in the workers'
condition variables and in the mutex of each job; server and client exchange
XML documents, which TinyXML prints and parses, through UDT sockets. Inside UDT
the application's threads, the worker of the send queue and that of the receive
queue share a connection under several locks. The player and librtmp stand
beside these.

What is hard in each, and what makes it correct:

* **DataStore.** Two operations work outside the lock: DeleteItem looks its
  tuple up before it locks, StoreItem takes its time stamp and builds its tuple
  before it locks. Leases end by 32-bit clock arithmetic that mixes unsigned
  times with signed times to live, -1 meaning for ever. A deletion leaves a
  tombstone, which publications, refreshes, purges and updates may pass in any
  order. Correct: no erase through a dangling iterator; a value is
  returned only while a lease runs; republishing prolongs no lease; a deleted
  value comes back only under a lease that outlives the deleted one; the first
  delete request wins; maintenance changes nothing a client sees.
* **KadService.** Between two calls of the store another handler or the
  maintenance may run. Correct: every answer is true of the store when it is
  given; a value that hashes to its key stays alone under it; a deletion is
  undone by a publication only.
* **Thread pool.** A worker moves between the list, a caller's hand and its
  work in different critical sections; all callers share one condition
  variable; a thread object is deleted while its thread is still ending.
  Correct: one owner per worker; sync returns when the job has run; sync_all
  returns when no worker has a job; no call sleeps for ever; no job or thread
  is used after it has been destroyed.
* **Routing table.** A split passes the two ends of its halves the wrong way
  round, so ranges overlap, and still every contact has to be found where it
  was put; the indices of the holder's bucket have to follow every split;
  AddContact recurses. Correct: contacts findable and not duplicated, seen
  order kept, an addition gives up a contact only in the exchange, the
  searches complete, the recursion ends.
* **KadRpcs.** An exception leaves the transport open; messages carry no number
  that is compared. Correct: a call ends by its own answer, or an exception.
* **UDT.** Packets are lost, repeated and reordered, in both directions; numbers
  wrap; two workers and the applications interleave; timers are all that
  recovers. Correct: the receiver reads what the sender wrote; what the sender
  forgets was received; nothing strands; late packets are not taken for an
  attack; loss lists answer as sets of numbers do.
* **librtmp.** One thread, but a protocol: headers compressed against the last packet of a
  channel, a connection that can break inside any send, pauses that race with
  packets under way, tags handed out in pieces. Correct: the packets, values
  and tags that arrive are those that were sent; the session's calls and
  answers belong together; the stream goes on.
* **The rest.** Ownership: of threads, list items, buckets, handles of sockets,
  nodes of a tree; a decoder that has to be stopped while it waits for a
  buffer; text that may be cut on the way.

The list of hazards, each at its line and with the properties that would catch
it, is in `PROJECT.json`.

## 2. The modules

| Module | Models | Extends or instantiates |
|---|---|---|
| `DataStore` | the store and its callers | |
| `KadService` | the RPC handlers over the store | `DataStore` |
| `JobPool` | what a thread pool promises (abstract) | |
| `ThreadPool` | the pool, its workers and callers | `JobPool` |
| `KBucket`, `RoutingTable` | a bucket, ranges, halves, distances; the table | |
| `BigInt` | the numbers behind the identifiers, in units of a machine word | |
| `TThread` | a thread object and its POSIX thread | |
| `Sll` | the list at the level of its items | |
| `Handles` | the counted handles of the table's buckets | |
| `ChatSockets` | the sockets of main's jobs | |
| `KadRpcs` | the structs of the interface; client and server over a transport | |
| `Surroundings` | `TThread`, `Handles`, `ChatSockets` and `KadRpcs` side by side: their properties, with theorems | these four |
| `Player` | play loop and decoder | |
| `XmlForest` | what a tree of nodes promises (abstract) | |
| `TinyXmlTree`, `TinyXmlAttributes`, `TinyXmlText` | the nodes' pointers; the ring of attributes; printing and parsing | `XmlForest` |
| `UdtSeqNo`, `UdtCounter` | numbers that wrap; two peers that hold them, with theorems | |
| `UdtLossSet`, `AckHistory`, `ByteStream` | what loss lists, the ring of ACKs and a stream promise (abstract) | |
| `UdtSndLossList`, `UdtRcvLossList`, `UdtAckWindow` | the arrays that implement them | `UdtLossSet`, `AckHistory` |
| `UdtSndQueue` | heap, worker and timer of the send queue | |
| `UdtTransfer` | one direction of a stream | `ByteStream` |
| `UdtMessages` | the ring of a receiver; a connection in message mode | |
| `RtmpChunks`, `RtmpAmf`, `RtmpSession`, `RtmpMedia`, `FlvReader` | packets and chunks; values; calls; pauses; RTMP_Read | |
| `KadServiceProofs`, `ThreadPoolProofs`, `RoutingTableProofs`, `HandlesProofs`, `UdtTransferProofs` | theorems; the first has those of `DataStore` too | the module each is named after |
| `MCKadService`, `MCThreadPool`, `MCRoutingTable`, `MCUdt`, `MCUdtTransfer`, `MCOwn`, `MCRtmp` | instances for TLC | |

The modules for TLC that name several components put them side by side: a
variable `part`, chosen at the start, says which component moves in this
behaviour, the others keep their initial state. Components that share no state
in the program are so checked in one run, and none multiplies the states of
another. Their properties are conjunctions of the components' properties, named there.

Definitions introduced by a comment that begins with *Faulty* are variants of
the definition below them with one plausible bug. No specification uses them;
substituted for the definition, each makes the property it is meant for fail,
which shows that the property depends on that part of the code.

### DataStore

`datastore[<<key, value>>]` is the tuple the container holds for a pair, or
`Absent`; uniqueness in (key, value) is the shape of this function. A call that
holds `mutex_` throughout is one action. `StoreItem` is `StoreItemStamp`
(clock and tuple) and `StoreItemCommit` (lock, insert, replace); `DeleteItem` is
`DeleteItemFind` and `DeleteItemErase`. Between its two steps DeleteItem holds an
iterator: it designates the node it found (`pair` follows it when UpdateItem
gives the node another value, because replace keeps the node), or the end, or
an erased node (`dangling`). Since the lookup is unsynchronised it may also
miss a tuple that another thread is changing: `Return` lets each such lookup
come out as *not found*. Using a dangling iterator is undefined behaviour;
the model sets `corrupt` and stops.

Times are `0 .. 2 * Half - 1` with wrap-around (`U32`), differences are read as
signed (`Remaining`). `Half` is 2^31 in the program.

`revoked` is a history variable: where the lease ended that was deleted last.

### KadService

A handler is a sequence of calls of the store. What it does up to and
including one call is one step, because everything else it looks at is its
own. `rpc[t]` is the request thread `t` is handling and what it has learnt so far,
`answer` is what was answered in the very step. `Store` is `StorePublish` or
`StoreRefresh`/`StoreDeleted`/`StoreMissing`, then `StoreCheck`
(CanStoreSignedValueHashable), `StoreStamp` and `StoreCommit` (the two steps of
StoreItem); `Delete` is `DeleteLoad` and `DeleteMark`; `Update` is `UpdateLoad`
and `UpdateReplace`. A value with its signature is one model value; the
signature check is membership of `Verified`, the hash the operator `Hash`.
The other threads (`Threads \ RpcThreads`) maintain the store; the node joins and
leaves at any time. The only RPC server in the repository is the generated skeleton,
which is a `TSimpleServer` and handles one request at a time; `RpcThreads` is a
parameter so that both cases can be checked.

Left out: the contacts in the answer of FindNode, and the pings that Downlist
starts (their callback is empty).

### ThreadPool, JobPool and TThread

`wpc[w]` is where a worker is in `TPoolThr::run`, `cpc[c]` where a caller is in
`run`, `sync`, `sync_all` or the destructor. A critical section that does not
wait is one step; a thread that waits on a condition variable is in `asleep` or
`idleWait` until it is signalled, or wakes spuriously. `signal` wakes one waiter,
whichever. Executing a job is one step. `submitted`, `ran` and `synced` are
history. `MaxRuns` bounds how often a job is run.

`JobPool` is the promise: each run that was asked for is executed, one at a time
for one job, at most as many at a time as there are workers, each exactly once,
and eventually. `KeepsPromise` states that `ThreadPool` implements it, with

    waiting[j] = the callers that are in run(j) before the worker has it
    stage[j]   = free while j's mutex is unlocked, executed between the run and
                 the unlock, taken otherwise

`TThread` has the same object outside a pool: every access of the plain flag
`_running` is a step of its owner or of its thread, and the thread may end at
any moment, before create has set the flag included.

### RoutingTable, KBucket and Handles

`k_buckets` is the vector, `bucket_upper_address` the map, as a function. Indices
are the code's plus one. A call is one step, AddContact one step per round of its
recursion (`adding`). Searches are operators over the state. `HalfOf` is
`operator>>` of BigInt including the unit it reads past the end (`StrayBits`);
`MinIds` is what `KadID()` may return, which is the hash of the time of day and
not the smallest identifier. Identifiers are small numbers; `Distance` is XOR in
the instances. The loops over a bucket's contacts (`Keep`, `Refill`) are recursive functions. `Handles` takes a split apart into the copies, assignments and
destructions of counted handles that `std::vector` performs, each a step.

### BigInt

`units` is the `m_units` of one object, `number` the natural number that the calls so
far should have made of it. The loops over units with their carries and borrows
are folds over the indices; the loops of `*` and `divide`
and the reading of digits are recursive functions. An ASSERTION that fails sets
`stopped`. A text is a sequence of digits. The initial states are the hashes, `KMinID` and
`KMaxID`; each action assigns one operator's result to the object. Each operator
and its assigning twin (`Sum` and `Add`, `BitAnd` and `AndWith`, ...) have the same loop in the code.

### Sll, ChatSockets, KadRpcs, Player

`Sll` has the items as numbered nodes with `_next`, and freed nodes may be taken again:
`IsAQueue` maps the walk along the pointers to a sequence. remove(iterator)
compares with the item it has freed; every outcome of such a comparison is
allowed.

`ChatSockets` follows the objects of `Server::run`, `Client::run` and main on
each path by which they can end, with any number in the uninitialised `m_usock`.

`KadRpcs` is one client object, a connection and the generated processor. A wait can
be given up, the connection can break, and the answer may come later; a second open() throws or returns at
once (`reopen`), as the library has it. Its first half says which fields of
a struct are written: an optional one only when it was marked, which
assignment does not do.

`Player` has the play loop and the decoding thread over a list of `Buffers`
buffers. A frame is the number of the seek it was decoded after.

### UDT

`UdtTransfer` is one direction of a stream. The sending endpoint's application, send
worker (`PackStart`, `PackResend`, `PackNew`, `SendPacket`) and receive worker (`ReceiveAck`,
`AckData`, `AckWake`, `ReceiveNak`, timers) interleave where the code holds no
common lock. packData returns a pointer to a block, and the worker calls sendto after it has left
every lock (`queue.cpp:525-528`): `SendPacket` is therefore a step of its own, and reads what the memory of
the block holds then (`InMemory`). The block may have been acknowledged meanwhile, and `send` have
come round the ring of the send buffer (`SndRingSize`) and be filling it: then the packet carries
`Overwritten`, which stands for any contents. The receiving endpoint is `ReceiveData`, `SendAck`, `SendLightAck`,
`SendNak`, its timer and `Recv`. The network `net` keeps or loses each packet
that is sent and delivers in any order; timers may fire whenever their guard in
the code allows. Loss lists are sets, which `UdtSndLossList` and
`UdtRcvLossList` implement with their linked ranges in an array
(`ImplementsLossSet`). `UdtMessages` is message mode: a packet that was sent may
arrive at any time and any number of times, a message may expire; its first half is
the ring of the receive buffer. Its `Resend` still reads the block and sends it in one step; the packets that
this leaves out carry numbers that are acknowledged, as `UdtTransfer` shows of a stream. `UdtSndQueue` is the heap of sockets and its worker; the signal
of insert_ and that of the destructor are steps of their own.

### librtmp

`RtmpChunks` sends packets through `RTMP_SendPacket` into chunks and rebuilds
them with `RTMP_ReadPacket`, one chunk a step. `RtmpAmf` has the encoder and the
decoder as recursive operators over bytes, and a state machine that builds the
options of the connect packet. `RtmpSession` has a stack of what is left to do,
because a send that fails closes the connection from inside. `RtmpMedia` is the
pausing of a stream, `FlvReader` is `RTMP_Read` with its buffer, resumption
and seeking.

### TinyXML

`TinyXmlText`: text is a sequence of tokens; both printers and the parser are
operators; a document is printed, perhaps cut, and parsed. `TinyXmlTree`: the
five pointers of a node, and `XmlForest`, sequences of children, as what they
implement. `TinyXmlAttributes`: the ring around the sentinel.

## 3. The runs

Sizes are distinct states.

| Run | Question | Size |
|---|---|---|
| `ds` | may two threads, one of which erases, use the store in any interleaving, and do leases and tombstones behave? `DeleteItemSafe`, `LeaseRuns`, `NoReplay`, `LeasesKept` (`TypeOK`, `RepublishKeepsLease`, `FirstDeleteWins`), `MaintenanceInvisible` | 3.43M |
| `svc` | does the service keep its word, with one request at a time and with two, while the store is maintained and the node joins and leaves? `ServiceTypeOK`, `HashedValueAlone` (one), `NoRevival` (`NoReplay`, and with one `DeletionStands`), `AnswersTrue` | 721k |
| `tp` | what is safe however two threads use the pool, and, beside them, does one thread that uses it as `main` does, through its destructor, get all it promises? `OneOwner`, `SyncIsRight` (`TypeOK`, `SyncMeansDone`), `SyncAllMeansQuiet`, `NothingFreedIsUsed` (`JobsAlive`, `DeletedHasLeft`), `KeepsPromise` (the steps of `JobPool`), `EverythingEnds` (the fairness of `JobPool`, `CallsReturn`, `ThreadsEnd`; of the one thread) | 317k |
| `tp_lost_wakeup` | can a caller of run starve when another calls sync_all? Violated, see 7 | - |
| `rt` | splits, with a low and with a hashed lower end: `ContactsAreFindable` (`EveryContactFindable`, `IndexInBounds`, `AnswerIsTrue`), `AddDisturbsNone` (`SeenOrderKept`, `AddOnlyExchanges`), `AddContactReturns`; lookups and indices: `SearchesAreRight` (`FindCloseNodesComplete`, `FurthestContactsRight`, `TouchedAreListed`; `RefreshHitsItsBucket`, `TypeOK`, `HolderBucketsKnown`); the numbers: `NumbersAreRight` (`StandsForNumber`, `ComparesAsNumbers`, `TextsReadBack`, `DivisionAndLog`) | 134k |
| `rt_ranges` | are the ranges a split leaves disjoint? Violated, see 7 | - |
| `udt` | the parts of a connection: `ComparesByDistance`, `LengthAndJump`, `ListsAndQueuesRight`, `MessagesRight`, `ImplementSetAndHistory`, `QueueServes` | 173k |
| `udt_transfer` | does a stream arrive as it was sent? `EachIsSound` (`TransferIsSound` of two instances: `TypeOK`, `BlocksMatchNumbers`, `AckedIsReceived`, `ReadableIsStored`, `NeverTakenForAttack`, `FlightFits`), `NothingStrands`, `ImplementsByteStream` | 3.74M |
| `udt_transfer_live` | and does all of it arrive? `DataGoesThrough` (`EverythingArrives`, `SendWakes`) | 98k |
| `own` | what surrounds the core: `ObjectsOutlast` (threads, buckets, sockets), `LinksAreSound` (list, tree, attributes), `StepsAreTheirs` (`IsAQueue`, `IsForest`, `OneExceptionEndsIt`), `CallsEndTheirOwn`, `XmlIsReadBack` (what is printed comes back; a cut is an error unless it is inside a text), `PlaysOn` | 193k |
| `xml_cut` | does every document that is cut set an error? Violated, see 7 | - |
| `rtmp` | the RTMP client, layer by layer: `DataArrives` (packets, tags, and what a pause may skip), `ValuesArrive`, `SessionRight`, `StreamGoesOn` | 2.15M |

Bounds, and why they are enough:

* *Store.* One key and two values: operations on different keys do not touch
  one another, and an update or a hash check relates two values of one key.
  The clock runs for three ticks (1 to 4) and the times to live are -1, for
  ever, and 2, so that a lease ends, is purged and is raced by one stamped
  earlier, with time left before and after. `Half` = 8 keeps the wrap away from ordinary times, as
  2^31 does until 2038, while -1 and its sums are still next to the
  boundary. `RefreshAge` = 1 puts a refresh into every interval. Two threads suffice
  for each race: it takes one in the middle of a call and one that changes the
  store.
* *Service.* The same store with times to live 0 (which StoreItem refuses), 1
  and 2; one value hashes to the key and one does not. The part with two
  handlers has one value and no deletions by request, since the races between two handlers are about
  one value.
* *Pool.* Two workers and two jobs, so that the list has an order and a job can
  wait for the other; each job is run up to twice, so that a second run meets
  the first. A third job is one that the pool deletes. The part with one thread has two workers and two jobs of its own, one of which the pool
  deletes. Workers, callers and the jobs of the program are symmetric in the part with two threads only, which no
  liveness property is about. One worker in `tp_lost_wakeup`, which is enough for it.
* *Table.* `K` = 3 is the smallest size at which neither the splitting of every
  full bucket nor the recursion (see 7) gets in the way; nine contacts around a
  holder in the middle fill two levels of buckets and the exchange. The part with a hashed lower end
  has four contacts, one with the holder's identifier, and three lower ends, below all of them, between them and above them,
  with and without a stray bit at every split; four contacts are enough for a split of a full bucket of which some lie
  below the range.
* *Numbers.* Units of 4 bits, hexadecimal digits of 2, decimal units of two
  digits: the numbers up to 1200, all of which occur, have up to three units and two
  decimal ones, so that there is a unit in the middle, a carry into and out of it, and every value of two units.
  Operands are 0, 1, an odd digit, numbers on and beside the boundaries of units, and one of three full units.
* *UDT's parts.* Numbers of 16 values that start three before the wrap; windows
  of three to five numbers, so that ranges coalesce, split and wrap around their
  array (`DropsWrap` = FALSE keeps drop requests from wrapping, see 7); a ring of three
  ACKs with five numbers; three sockets for the queue, four
  for the heap, which has three levels then; messages of one, two and three packets,
  some to be read in order.
* *Transfer.* Four blocks. One instance ("reordered") has two packets in flight, so that they overtake one
  another, a send buffer of two, so that send blocks, memory for three, so that the fourth block takes the place of
  the first, and a receive buffer of three (two usable), which fills and goes round. The other
  ("windowed") has all three larger by one and one packet in flight: blocks then wait for a window that closes and widens, and
  both exceptions of `NothingStrands` occur. The first number is the last before the wrap. Larger buffers are left
  to the proof, see 5. `ExpLimit` = 0 lets the connection break at every expiration, where the program waits for 16
  of them: it only adds behaviours. The live run has three blocks, a send buffer of two and one packet in flight.
* *Ownership.* Three threads by one object, four list items in two lists, two splits
  of the table (four buckets at most), two jobs and five handles, three calls, two buffers with
  four frames and two seeks, four tree nodes, three attributes of three names,
  and documents of up to two children out of sixteen kinds.
* *RTMP.* Three packets in two channels with bodies of up to two bytes, so that
  a chunk can be a whole body or a part; timestamps that need the extended field
  and wrap; up to four connect options, which nest; six calls over two
  connections, three calls of RTMP_Close inside one another; five media packets, some of which end or start at the same time, three waits of the server, two pauses by the
  program; three packets of tags, one seek.

`CHECK_DEADLOCK FALSE` is set where the system really may stop: at the bound of
the clock, when a dangling iterator has been used, when a wakeup has been lost,
in a table that has come upon a cramped bucket, when a connection is broken
and everything was read, and at the end of what a part has to do. `svc` checks deadlock.

## 4. Fairness

* `ThreadPool`: weak fairness of each worker and of each caller that is in a call.
  They are threads of an operating system that schedules them; a job's `run`
  returns (assumed of the jobs, as the pool can do nothing about it). No
  fairness is assumed of *entering* a call, nor of spurious wakeups, nor of which waiter a
  signal chooses.
* `RoutingTable`: weak fairness of the next round of an AddContact, which is
  one function calling itself.
* `UdtSndQueue`: the worker, a signal that is under way, the destructor that has
  begun, and the clock go on. Nothing is assumed of the callers.
* `UdtTransfer`: the workers, the application and the timers go on
  (`WorkersRun`); where two threads contend for a lock, neither is passed over for ever
  (strong fairness of `AckWake` and `SenderExpires`). `NetworkIsFair`: the network may lose any
  packet, but not every copy of one that is sent again and again. Neither light
  acknowledgements nor loss reports are assumed to arrive.
* `Player`: the two threads run; decoding comes to the end of the stream.
* `RtmpMedia`: the server sends or waits, the client reads. That a client uses its
  pauses to make a waiting server go on is what is checked.

## 5. The proofs

All statements hold for every value of the constants that satisfies the named
`ASSUME`s, which give their types and, for counters, their sizes.

**KadServiceProofs, the store.**
`TypeCorrect`: every state is typed, for all sizes and word widths.
`FoundTupleIsThere`, for any number of threads that erase: between DeleteItem's lookup outside the lock and its
erase, the tuple that its iterator designates is in the container, unless another thread has erased that
very tuple; so neither a store, a refresh, a mark, an update that renames the tuple nor an erasure of
another one can leave it dangling. What remains is the case of section 7. The invariant is needed because the
property at the erase depends on what all the other operations did in between.
`LeasesRun`, under `ClockFits` (the clock stays below 2^31): the invariant
bounds every expiry by the clock plus the time to live, also for the tuple that
a StoreItem carries with an earlier stamp.
`NoReplayHolds`, under `ClockFits`: the invariant adds that a tombstone and its
history agree, and that once the tombstone is gone without having been removed
by name its lease is over and the value not loadable (`Remembered`).
`LeasesKeptHolds`, under `ClockFits`: what is left of a running lease is positive and adds
up to its old end (`WhatIsLeft`), and the only operations that write a tombstone are
those that keep its request (`FirstWinsNext`).
`MaintenanceIsInvisible`, under `ClockFits`: a tuple that a purge takes or a refresh rewrites
was loadable before exactly when it is after; this needs that an expiry of 0 stands for
the everlasting only, which the invariant of `LeasesRun` gives.

**KadServiceProofs, the service.**
`ServiceTypeCorrect`: service and store are typed, and a thread is inside
StoreItem exactly when its handler is. `ServiceUsesStore`: the service
implements `DataStore`, step by step: every handler step is one operation of the
store or leaves it alone. `ServiceNoReplay` follows from this and
`NoReplayHolds`, for any number of RPC threads and all interleavings.
`AnswersAreTrue`, for any number of RPC threads: the invariant says that the
StoreItem a thread is inside is the one its request asked for (`Linked`).
`HashedValueIsAlone` and `NoRevivalHolds` hold with one RPC thread (`OneHandler`), as the
generated server has it, since their checks and the StoreItem they allow are two calls. The
invariants say what a handler that is about to store still knows of the pair:
that CanStoreSignedValueHashable would still agree (`Fits`), and that a value which a refresh
found missing is absent still, or a tombstone without a delete request (`Missing`). The maintenance
of the other threads only removes, so it keeps both.

**ThreadPoolProofs.**
`TypeCorrect`; `OneOwnerHolds`; `SyncAllIsQuiet`. The inductive invariant
(`Ownership`) describes who knows of a worker at every point of its loop: one
that starts or is about to announce itself is in nobody's hands, without a job
and not in the list (`Fresh`); one at the head of its loop is untouched too,
and in the list only if it has been told to end (`Looping`); one that works is
neither listed nor held and has a job (`Working`); one that wakes without a job
has been told to end, which happens only while the pool is being closed
(`Told`); whoever closes the pool is the only caller (`Alone`) and finds every
worker in the list (`Quiet`). `OneOwner` alone is not inductive, since it says
nothing of a worker that has finished its job and is not yet in the list.
For sync_all the list is compared by length with the number of workers: a
list without duplicates of that length contains every worker
(`LongListIsFull`, a pigeonhole argument), and a listed worker has no job.
`SyncIsRightHolds` counts: the runs submitted of a job are those executed and one for every caller or
worker that has one in hand, whoever holds the job's mutex; whoever has locked it
for sync has thus nobody left to wait for. `NothingFreedIsUsedHolds`: a job that the pool deletes is in
one worker's hands from run to the end, and a worker that quit() has not told to end, or that has not left the
list, is not freed. `KeepsPromiseHolds`: under the mapping given in section 2
every step of the pool is one of `JobPool` or none.

**RoutingTableProofs**, for every set of contacts and keys, every bucket size and any distance.
`TypesHold`, with no hypothesis: whatever lower end `KadID()` hashes and whatever bit `operator>>` reads past
its units, no bucket holds more than K contacts or one twice. `HolderBucketsKnownHolds`, for K > 2, as in the program.

`ContactsAreFindableHolds`: each contact from the lower end of the table on is in the one bucket where GetContact looks, as long as
the ends of the buckets ascend; `k_buckets` is never indexed out of bounds but in the two cases `IndexInBounds` names;
and AddContact answers truly. The statement alone is not inductive: that a
contact is found says nothing of where the halves of a later split put it. The invariant (`Ordered`) says
how ranges touch: those of neighbours meet in two identifiers, of which the lower bucket has both
(`Meet`), and every contact of the table's range is above the end of the bucket before its own (`AllBelong`). Of contacts
below the lower end nothing is said, and a stray bit makes the premise of `Ordered` false, after which a
further split cannot make it true again (`SplitAscends`). `Answered` and `AnswerIsTrue` follow the call
through its recursion. `RefreshHitsItsBucketHolds` is a consequence of `Ordered`.

`AddDisturbsNoneHolds` has two halves. Order: every bucket after a step is a part of one before, in its order, with
the new contact possibly in front (`Comes`, `Derived`); so whoever was seen after another still is, when the one
bucket alone had them. The splitting step is where it could go wrong, since it empties the bucket and adds the
contacts again. Exchange: `ByDistance` gives each contact the number of those that are
closer as its place (`RanksCount`), so the furthest that ForceKAcceptNewPeer looks for is the last, and a
newcomer that is closer pushes out that one only (`NewcomerRanks`).

Two hypotheses are left, and the code secures both. `LowerEndInside`: the lower end, a hash of 160 bits, is below
`KMaxID`, which has 532 (`kadid.cpp:22-31, 66-70`); it may lie above contacts, keys and the holder.
`DistancesDiffer`: different contacts are at different distances, as those of XOR are. `TouchedAreListedHolds`
needs `UsualClock` instead: the time of day is further from both ends of an `unsigned int` than the
refresh time. Since the library's induction takes an operator, facts about recursive functions over sequences
are proved from a shortest counterexample (`ShortestAppended`, `ShortestPrefixed`).

**UdtCounter.** `CounterCompares` and `CounterJumps`: for every size of the
counter and every threshold that `CSeqNo` may be given, two numbers that are less than
the threshold apart are compared, subtracted, counted, advanced and stepped
back rightly, whether or not the counter has wrapped between them. The invariant is that
the second number is the first advanced by their distance, modulo the size;
each operator of `CSeqNo` is then a case distinction on who has wrapped.

**UdtTransferProofs.** `TransferIsSoundHolds`, `NothingStrandsHolds` and
`ImplementsByteStreamHolds`, for every size of the two buffers, of the network and of the
counter, and for every first number, so wherever the numbers wrap. The hypothesis
`StreamFits` says that the stream is shorter than the threshold of the counter (2^30
packets). The network of the model may hold a packet for ever, and one that
is late by more than the threshold would stand for a number of the future; the code has no other
protection than the time this takes. Under it every number is an index of the stream
(`Before`), and lemmas turn each operator of `CSeqNo` into plain arithmetic once and for all.

The invariant `IInv` has three parts. Of the sender (`SndInv`): forgotten, acknowledged, sent and
written come in this order; the send buffer holds exactly what lies between the first and the
last, and `m_pCurrBlock` stands at what is sent; lost numbers are sent and not forgotten;
a retransmission whose block has gone in between is one whose acknowledgement still has to put the
socket back on the list (`PackingRight`), without which `NothingStrands` is not inductive; and the block that a
packet on its way out of the locks points to is that of its number, so that its memory can only have been filled again
when more than a ring of blocks was written since, hence after the number was acknowledged (`SndRingSize` >
`SndBufSize`, which `addBuffer` secures by growing, `buffer.cpp:126`). Of the receiver (`RcvInv`):
everything below an acknowledged number is `Known`, received without a gap; slot j of the ring
holds block j from the next to be read exactly if it is received (`RcvRing`), so that
the position of an accepted packet is free and is no other's, although positions wrap (`SlotIs`,
`SlotsDiffer`). Of the network (`Packets`): every packet is `Honest`, that is, what it
says is true now, or, of a packet that left with other contents, that its number is acknowledged; since the numbers of both ends only grow, it stays true however
long the packet is under way, which is what makes late, repeated and overtaken packets
harmless. There is one lemma per action, and the refinement follows from the one about `Recv`:
the block at `m_iStartPos` is the next of the stream.

**UdtAckWindow.** `TypeCorrect` and `ImplementsAckHistoryHolds`, for every ring with at least one slot
(`RingSizes`). One lemma turns the remainders of the code into plain arithmetic (`GoesRound`, `RecordsAre`):
the k-th record is at `Slot(k)`, there are `Count` of them, fewer than slots. Storing then appends a record
and, in a ring that is full, takes the first away; acknowledging takes a prefix away.
The proof shows that the second test of `window.cpp:139` never holds.

**HandlesProofs.** `BucketsAreCountedHolds`, for every capacity of the vector and any number of splits and
clearings (`HandleSizes`: the vector may hold one bucket, and 0 stands for no object). That counts are numbers of
handles (`Counted`) is not inductive: a constructor that worked on a slot which still points to an object
would lose a reference uncounted, and that a finished split leaves one handle per bucket depends on
the operations that are still to come. The invariant therefore adds `Foreseen`: the
rest of `todo` leads, by operations of which none loses a reference in this way, from what the slots
hold now to a vector with different buckets in its first places and nothing elsewhere. `Leads` is stated over a
table of contents, the objects in it being names only (`Alike`), and is composed: of the operations that erase a
bucket, that insert one with room and without, and that end a split, each shown once for a vector of any size.

**Surroundings**, four components that share nothing.

*TThread.* `JoinableIsSafeHolds`, for any number of threads that an object starts one after the other
and an owner that never detaches. The invariant: only the thread that the object names may still touch it,
and `_running` errs on one side only (`OwnThread`). It may be set for a thread that has ended, by the write of create
that comes too late, but is never unset for one that is active, except while the owner is inside
create or join; so a join that returns at once since the flag is unset has no thread to wait for.

*ChatSockets.* `EachClosesItsOwnHolds`, for any number of jobs and of handles. The handles
that are open are one to one with the objects that have been given one (`Paired`), since UDT gives no number twice;
the number in an object that has none yet is arbitrary, and is looked at by `create` alone.

*KadRpcs.* `CallsEndTheirOwnHolds` and `OneExceptionEndsItHolds`, for any number of calls. `EndedByItsOwn` says
nothing of what is still on the connection; the invariant (`RpcInv`) does: as long as no wait was given up, there is
one message, of the call in progress, and none between two calls (`Alone`), also after an exception, which
is why nothing has to be compared. Every message is one that the generated code writes (`Requests`, `Answers`), and the
fields it always writes are among those the other side knows (`Fits`), so what is read of a
struct is exactly what is always written.

`ObjectsOutlastHolds` puts threads, handles and sockets together: it assumes that each behaves as its specification
says, which holds in every behaviour of `MCOwn`, where one part moves and the others stutter.

## 6. Model-checked only

Liveness: it is outside the reach of the prover, and so is the part of `JobPool` that
states fairness, and `AddContactReturns`. That DeleteItem never erases through a dangling iterator when one
thread does the erasing is checked; the theorem says what holds for any number of them.
Everything that rests on recursive definitions (AMF, XML and BigInt): what they compute for every
input is an induction over data, which the library states with an operator for a parameter.

All safety properties of the store, the service, the pool, UDT's counters and UDT's transfer
that the runs check are proved, those of the routing table but for its searches, and of the parts of runs `own` and
`udt` those about threads, handles, sockets, client calls and the ring of sent ACKs.
FindCloseNodes and the selection of the furthest contacts (`FindCloseNodesComplete`,
`FurthestContactsRight`) sort and merge the contacts of several buckets: what they return is a fold over
sequences whose length is data. The statements about the lists of `sll`, the tree and the attributes of
TinyXML, the loss lists, the heap of the send queue and the ring of message mode are about heaps, chains of pointers and rings
walked by folds; they, the player and librtmp are model-checked only.

## 7. What the work showed about the code

Disagreements with what the repository says of itself, each shown by a run that
finds the violation:

* `tp_lost_wakeup`: `append_idle` signals one waiter of `_idle_cond`
  (`TThreadPool.cpp:253`), on which get_idle and sync_all both wait with
  different conditions. When sync_all takes the signal, a caller of get_idle sleeps on
  although the list holds an idle thread. With `SyncAllers` = {} the same run finds no violation.
* `rt_ranges`: `SplitKbucket` (`kadroutingtable.cpp:110`) takes the two results
  of SplitRange the wrong way round; neighbouring ranges share two identifiers
  after every split, while `kadid.h:46-51` describes disjoint ones. `rt`
  shows that contacts are found all the same.
* `xml_cut`: a document that is cut inside a text makes ReadValue loop for ever, because TiXmlText::Parse steps
  back by one character also at the end of the text (`tinyxmlparser.cpp:1536`); the comment at
  1109 says of ReadValue that it "will set the error if one happens". `XmlIsReadBack` shows that these
  are the only cuts inside the root element that set no error.

Facts that the properties state as exceptions or assumptions, or that were met
while translating the code.

*Store and service*

* Two threads that erase can leave DeleteItem with a dangling iterator
  (`datastore.cpp:86-93`); with one it is safe.
* UpdateItem with time to live -1 sets an expiry in the past: LoadItem takes
  the value for everlasting and DeleteExpiredValues erases it
  (`UpdatedForever`). A time to live below -1 makes a value that is never
  returned and never purged.
* The arithmetic of leases holds while the clock is below 2^31 (`ClockFits`).
* Delete and Update change the store before they look at the sender; a
  request with a bad sender is answered with *Failure* after it has taken
  effect (`AnswersTrue` names this case).
* An Update does not look at other values under its key, so it can
  put a second value beside a hashed one or replace the hashed one
  (`HashedValueAlone` excepts it). With several RPC threads the check of
  CanStoreSignedValueHashable can be stale when StoreItem runs.

*Threads, table*

* A pool thread calls `reset_running` on its object after the destructor may
  have deleted it; the comment at `TThreadPool.cpp:145` says so
  (`DeletedHasLeft` shows how far it is certain to have come). A detached `TThread` outside a pool has no
  protection at all, and join does nothing when the thread has ended already, which leaks it.
* The lower end of the table is `KadID()`, a hash of the time of day
  (`kadroutingtable.cpp:30`). A split puts a contact that lies below it into the right half, where it is not looked
  for, and it may be added a second time. `EveryContactFindable` is about the contacts from `LowerEnd` on;
  run `rt` and the theorem hold for any lower end, also above the holder.
* `operator>>` of BigInt reads one unit too many (`BigInt.cpp:1210`), which may set a bit above the number it
  returns. A build with g++ and glibc finds it set at the first split: the end of the left half is then above
  `KMaxID`, and its contacts are looked for in the right half. `EndsAscend` says when this
  has not happened, and is the premise of what the table promises.
* The recursion of AddContact does not end when it comes upon a bucket that may be split and has so few identifiers
  that its left half is the same bucket (`Cramped`). It takes a `K_` of three or less, and members that are all in the bucket's range: the
  calls for contacts below the lower end return.
* `Clear` leaves the indices of the holder's buckets stale until the next split. A table that is filled again
  uses them before when its new lower end is above the holder: a full bucket is then not split, and
  ForceKAcceptNewPeer reads them (`IndexInBounds` names the case). KBucketIndex returns -1 as an unsigned short,
  which callers keep in an int (65535) and use as an index.
* FindCloseNodes skips the first bucket of a sorted list on the assumption that
  it is the key's own (`FindCloseNodesComplete` is stated for those keys).
* GetRefreshList compares CPU time with wall-clock time, unsigned: a touched bucket
  counts as old at once (`TouchedAreListed`).
* remove(iterator) of `sll` compares with freed memory (`sll.hh:185`);
  a list assigned to itself reads the items it has freed. The count of `HandleClass.h:47` is for one thread.

* BigInt: `operator<<` always ends the program, because its ASSERTION has the two sizes
  the wrong way round (`BigInt.cpp:1235`), and `operator--` does when it needs a borrow
  (`BigInt.cpp:1552`); -- makes the largest unit of 0. Unary minus is a complement to the units the number
  happens to have. Nothing in the program uses these three.
* `KadID(std::string)` asks for base 8 (`kadid.cpp:41`), which initViaString refuses
  with an ASSERTION: every contact that arrives in a message (`ParseFromThrift`) ends the program, while
  `ParseToThrift` compares with `KadID(0)`, which is `KadID(std::string)` of a
  null pointer (`contact.cpp:110`). The identifier would be written in decimal.

*Clients, sockets, player*

* The value of a Store request is an optional field that KadRpcs never marks, so
  it does not arrive, nor do the sender's local and rendezvous addresses. A response object that is
  used again keeps its old optional fields. After one exception, with a library whose open() throws on an
  open transport, a KadRpcs never completes a call again.
* `UDTSocket` leaves `m_usock` uninitialised; main's paths all set it before the destructor
  looks. The exception of accept stands outside the try of `Server::run`, so it ends the process.
* The player shows no frame that is still buffered when the decoder reaches the
  end of the stream, and `mJustSeeked` is read before it is set.

*UDT*

* The heap of the send queue loses its order when an inner entry is removed and
  the last one comes from another branch, which takes six sockets
  (`queue.cpp:403`). A socket whose time has not come is served when the one
  the worker slept for has left; one rescheduled for now may wait for its old time.
* A drop request whose range wraps leaves the number `m_iMaxSeqNo` in the loss
  list (`list.cpp:647`).
* Message mode: giving up a message of several packets moves the numbers further than
  the blocks (`core.cpp:2008`), and later retransmissions carry other blocks; a drop request
  marks almost no packet in the ring (`buffer.cpp:490`); of a message larger
  than the ring nothing is returned, where `buffer.cpp:642` speaks of a part.
* A repeated acknowledgement with a larger window returns before the socket is
  put back on the send list (`core.cpp:1741-1746`), and new blocks that would now fit stay behind; the same happens when
  packData goes by the window from before it. `NothingStrands` names these two steps
  (`EndsRepeatedAck`, `GoesByOldWindow`) as the only ones; the timer makes up for both.
* sendto reads a block after every lock has been left. When the block has been acknowledged and its
  memory filled again, the packet carries contents that are not those of its number; the receiver has passed
  that number and drops it (`BlocksMatchNumbers`, `ImplementsByteStream`).
* `addBufferFromFile` counts the whole size even if the file ends early; CUnitQueue's count is changed
  by two threads without a lock.

*librtmp*

* RTMP_Close of a writer enters itself without an end when every write fails
  (`rtmp.c:3387-3394`; `CloseComesToAnEnd` excludes writers). After Play.Complete
  `m_bPlaying` is set on a connection that is closed, and the next ConnectStream returns at once
  (`rtmp.c:1083`). A late answer to createStream after ReconnectStream leaks a stream. Pause and seek calls stay in
  `m_methodCalls`.
* A packet that was sent without a timestamp of its own makes the reader add the
  last difference once more (`rtmp.c:3003`).
* After a pause, packets are skipped that start at or before the last timestamp (`rtmp.c:1067`). One that was never
  given is lost when it starts at the time at which an earlier one ended, or at time 0 before any packet came;
  `NothingNewIsSkipped` names these as the only ones. A stream that ends before its first timestamp above 0,
  or before both kinds of packets were seen, is thrown away
  (`rtmp.c:4214-4222`). A leftover that a seek drops can cut a tag. A
  keyframe is recognised at time 0 only (`rtmp.c:3770`), where the comments at 3942 and 3974 count on one at a later
  position: a program that resumes there is given nothing, and an error after `MAX_IGNORED_FRAMES`
  packets. `GetsItsTags` states this as it is (`KeyCameLate`).
* AMF: an object is cut without an error when the buffer is short; a null
  without a name, or an unnamed value inside an object, does not come back; AMF3ReadInteger
  extends the sign of its fourth byte (`amf.c:431`); the loop over sealed
  members (`amf.c:991`) does not end; a duration that is a string is read as a number.

*TinyXML*

* An unknown entity loses its `&`.
  A declaration that is cut sets no error.

## 8. Not modelled

* `KNodeImpl`: there is no code, only declarations. What would join the parts
  (who calls the maintenance operations, from which threads) is therefore a
  parameter of the models.
* UDT: connection setup and rendezvous, the table of sockets with its garbage
  collection (`api.cpp`), the receive queue's dispatch, and rates (`ccc.cpp`, which never
  reaches below the windows of the models). Two readers of one buffer, which the code does not
  protect, are left out.
* librtmp: the handshake and its cryptography, RTMPT over HTTP, `RTMP_Write`,
  URL parsing, SWF hashing.
* Thrift: the bytes of the protocol. TinyXML: encodings, locations in the text, queries.
* BigInt's `sqrt`, `maximize` and `toUlong`, and the comparisons of `Vin`, a copy of Rossi's; a
  contact's conversions (see 7); `crypto` and `sha1`, pure functions of bytes of which only
  equality matters; `blah`, output only.
* `HashMap`, `Singleton`, `Socket` and its subclasses: not used by the program.
* Queries of the store that return one field, and formatting throughout.

## 9. The plan

1. Done: the core (`RoutingTable`, `DataStore`, `KadService`, `ThreadPool`, with
   proofs); what surrounds it (`TThread`, `Sll`, `Handles`, `ChatSockets`, `KadRpcs`,
   `Player`, `BigInt`); librtmp's client; TinyXML; UDT's counters and transfer with proofs.
2. The handshake of UDT and the life of a socket in `api.cpp`: connect, accept,
   close and the garbage collector's threads; the receive queue.
3. `RTMP_Write` and the handshake's state machine; RTMPT.
4. Contacts over the wire, once `KadID(std::string)` accepts what `ParseToThrift` writes.
5. Proofs: the pointers of `Sll` and of TinyXML's tree, the ring of message mode, and `Player`.
