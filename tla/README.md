# A TLA+ model of azulejo-common-lib

This directory holds TLA+ specifications of the library's stateful components, TLC
configurations that model-check them on small instances, and proofs that TLAPS checks
for instances of any size. `PROJECT.json` lists the components, the runs, the mutants
(plausible bugs each property is known to catch), the source lines behind every definition,
the findings, the hazards and the theorems. Paths below are relative to the repository root.

To run: `tlc -config MCThreadPool.cfg MCThreadPool` checks one instance;
`tlapm ThreadPoolProofs.tla` checks one module of proofs.

## 1. Inventory

| Component | State | Operations | Hard because | Correct when |
|---|---|---|---|---|
| **ThreadPool** `src/Intraprocess/ThreadPool.cpp`, `include/Intraprocess/ThreadPool.h*` | queue, mutex, condition variable, flags `keepRunning_` and `die_`, thread counter | constructor, `Post`, `GetTaskCount`, `Stop`, `Join`, destructor; the workers' `RunTask` | flags are read outside the mutex; lost and spurious wake-ups; spins on a counter | FIFO, each task once; no lost wake-up; `Join` drains and returns; `Stop` gives up but returns |
| **IConnectionHandler** and **AsioAdapter** `include/Interprocess/` | outgoing and incoming queue, the outstanding read | `PostOutgoingMessage`, `SendMessageStart/Done`, `PostReceiveMessages`, `QueueReceivedMessage`, `GetOneMessage`, `Connect`, `Close` | several io threads, partial writes, a connection that breaks at any time | the queue drains; what arrives is whole and in order |
| **TCPServer** `include/Interprocess/TCPServer.h*` | acceptor, io_context, threads | `Start`, `Join`, `HandleNewConnection` | handlers on several threads; failures in the middle; stop and join | one chain of accepts; applications start one at a time; `Join` returns and leaves nothing running |
| **RESTServer** and **RESTClient** `include/Interprocess/` | a dictionary; the requests on their way | GET, HEAD, PUT, POST, DEL; blocking calls | handlers on library threads, no lock; callers that give up; unusable bodies | an atomic dictionary while handlers do not race; every call returns |
| **ISharedMemory** `src/Interprocess/ISharedMemory.cpp` | a named segment, its owner | `Create`, `Open`, `Destroy`, destructor | two-step creation between processes; processes that die | an owner's name is its own segment |
| **EventChannel**, EventEmitter, EventConsumer `src/Events`, `include/Events` | two maps of weak pointers; the slots of the emitters' signals | register, unregister, copy, move; emit | callbacks that change what is iterated; lifetimes; exceptions in the middle | a registered pair is connected; an emission reaches everyone registered and nobody released |
| **IResource**, **ResourceSerializer/Deserializer** `src/Resources`, `src/FilesystemAdapters` | content, checksum, dirty flag; files and temporary files; registered constructors | `Serialize`, `Unserialize`, `Deserialize`, registration | crash, failing calls, two threads on one file, a checksum stored early | a file is whole, the old version or the new |
| **ResourcePersister/Loader**, Sqlite, SqliteBlob `src/DatabaseAdapters` | the rows of a table, two connections, the checksum of IResource | open, close, `Persist`, `Load` of both, registration | a load takes two statements while others write; failures leave connections and statements | a load is a snapshot; a skipped `Persist` had nothing to do |
| **EntityPersister/Loader** `src/DatabaseAdapters` | four connections, two hierarchies | open, close, `Persist`, `LoadEntity`, `ResetInstance` | four singletons that open each other's databases | a loader finds what was persisted |
| **EntitySerializer/Deserializer**, EntityHierarchy, EntityRegistry `src/FilesystemAdapters` | the tree in memory, the JSON file, the constructors by key | `Serialize`, `LoadEntity`, lazy `GetAggregatedMember`, load structure | partial failure; lists out of step with data; lazy members | what is loaded is what was saved last |
| **Entity** `src/Entities` | the members' map and, beside it, the map of their copying functions | aggregate, remove, rename, copy, assign, move | nothing keeps the two maps in step; shared and lazy members | what was filled member by member copies; copies share nothing |
| IStreamableEntity, IOMPRunnable, Python and Java bindings | none between calls | | | not modelled: see section 6 |

How they interact:

* A `ThreadPool` is used by applications only. The library's other threads are
  TCPServer's, each of which runs the io_context, and those of the REST listener.
* `TCPServer` calls a connection's `StartApplication` inside its accept handler;
  `IConnectionHandler` posts its own handlers to the same io_context. `TCPServer`
  models the io_context's stopping and its threads and abstracts a connection to
  "live"; `Connection` models the handlers and keeps of the io_context only how many
  threads run them. The chat program of the tests (`chat_server.h`, `main_tcp.cpp`)
  uses both.
* `RESTClient` blocks until `RESTServer` has answered; `RESTServer` (the module) has both.
* `EventChannel` holds weak pointers to emitters and consumers that the application owns,
  and connects them through `boost::signals2`.
* An entity saves itself (application code), usually by resources: `EntitySerializer` with
  `ResourceSerializer`, `EntityPersister` with `ResourcePersister`. `EntityPersister` also
  uses `ResourcePersister` itself, for the blob of the hierarchy; `EntityDatabase` models
  that interplay. The file and the database adapters share a resource's checksum.

## 2. The modules and the code

Every definition that stands for code has its lines under `map` in `PROJECT.json`. Operators
named `Bug...` stand beside the action they corrupt; no specification uses them, they are the
mutants. Variables under "only records the past" have no counterpart in the code and no
action's guard reads them, except `joined` and `owed` in the mapping to TaskExecutor.
`TCPServer`, `EntityDatabase` and `EntityFiles` call their specifications `ServerSpec`,
`DatabaseSpec` and `EntityFilesSpec`: `ConnectionProofs`, `EntityProofs` and
`ResourceFilesProofs` extend two modules each.

**ThreadPool.** One action per section under `lock_` and per access to an atomic outside of
it. `pc` is a worker's place in `RunTask`; the loop condition `!Die() && (KeepRunning() ||
HasWorkThreadSafe())` takes three actions (`CheckDie`, `CheckKeep`, `CheckWork`), and
`Wait`, `Take` and `PassThrough` are the three outcomes under the mutex. `Post` takes three
(`PostCheckKeep`, `PostCheckDie`, `PostPush`), since it checks the flags before it locks. The
owner constructs the pool, then calls `Stop` and `Join` any number of times in any
order. `NotifyOne` wakes any waiter or is lost; `SpuriousWakeup` may always happen.
`TaskExecutor` is the abstract specification: a log of accepted tasks, begun in order, with
modes open, draining and drained; `ImplementsTaskExecutor` is the refinement (`begun` is the
number of tasks popped, `mode` comes from `keepRunning` and `joined`).

**Connection.** One direction, sender to receiver. The size of a message is what the code
tells apart: no body, fits the 512-byte buffer, longer, more than four digits. A frame on
the wire is a header piece and a body piece; a write puts pieces on the wire one at a
time, and writes in flight take turns (external). `Push`/`Dispatch` are the halves of
`PostOutgoingMessage`, `StartPop`/`StartWrite` those of `SendMessageStart`, `WriteDone`
is `SendMessageDone` with the error test before it; `ReadHeader` and `ReadBody` are the
receive loop. "garbled" stands for whatever follows when a header is read where
there is none.

**TCPServer.** `StartReturns` and `StartThrows` (with the acceptor never opened, half open,
or some threads created), `JoinCall`/`JoinReturn`, `HandleNewConnection`, `AcceptFails`,
`ApplicationStarted`, `ApplicationThrows`, `RunReturns`. The io_context (external) stops when
told to or when it has no work, and is never restarted. The owner may run it too, as
`main_tcp.cpp` does. An exception out of a server's thread ends the process.

**RESTServer.** A slot is a request: on its way, with its handler at one of the keys of its
body (`pc` = keys, and erase for the second pass of DEL), or answered. A handler takes one
key per step. When two handlers overlap and one of them writes, the behaviour of the
dictionary is undefined: `raced` is set for good, the contents are no longer followed and
the server may end (`Crash`). A caller may give up and its request go on, or be dropped before
its handler has begun. `RESTDictionary` is the abstract specification: one instant at which
the whole request takes effect. The mapping puts it where the handler begins:
`FinalDictionary` is the dictionary as the writer inside will leave it.

**SharedMemory.** Several objects, each in a process that may die. `Create` is two steps
(`creating` is set between them); a truncate that fails leaves the name. Segments live on
without a name as long as an object has them open. `SegmentOwnership` is the abstract
specification: who holds each name, with names abandoned by holders that never removed them.

**EventChannel.** `emitterMap` and `consumerMap` of each channel, the slots of each emitter
in order of connection. `RegisterEmitter` connects the waiting consumers in the order of
the map; `RegisterEmitterThrows` stops at the first of another signature and leaves the
ones before it connected. An emission is a list of slots still to call; between two calls any
operation may happen, which models subscribers that use the channels or release objects.

**ResourceFiles.** A thread's `job` is its place in `Serialize` (locked, opening, writing,
renaming) or `Deserialize` (reading); the file lock is held from `UpdateChecksum` to the end. `Crash`
may come between any two steps and leaves the directory as it is. `KeyValueStore` is the
abstract specification: a store of whole values; `ImplementsStore` maps the files to it.

**ResourceRows.** One table of rows by number, whose numbers are never used twice
(AUTOINCREMENT). `Persist` inserts, `ResourcePersister::Load` deletes the rows of its key,
`ResourceLoader::Load` selects the number of the newest row in one step and reads its blob
in another, between which other processes and the persister may do anything that SQLite
lets them. The checksum decides whether `Persist` skips. `SnapshotStore` is the abstract
specification: what a load returns is what its key held when it began.

**EntityDatabase.** The four connections (`conn`, `Broken` after a failed `sqlite3_open`),
`path` as EntityPersister remembers it, the hierarchy in the newest row of each database and
the entities saved there, the two trees. In a tree the node of an entity is absent, partial
or whole: `put_child` empties it before `Save`, so a `Persist` that throws in a `Save` leaves
it partial, even if it was whole (`SaveThrows`), and a later `Persist` of another entity
writes it so. `SendThrows` has the ways in which sending the tree fails, each with what it
leaves. `home` records where the last `Persist` of each entity put it, and `due` which of
these a loader has read. `Outcome` is how a load would end in a state; a load changes nothing
but the application's entity.

**EntityFiles.** `files` is what entities and members have saved, `json` the tree in the
JSON file, `saveTree` and `loadTree` the two singletons' trees. `Put` is `put_child`,
`Holder` the depth-first search of `GetKeyPath`. `SerializeThrows` has a disjunct for the
entity's own `Save`, a member's, and the JSON file's writing.

**EntityCopies.** `members` and `ctors` are the two maps of an entity, `objects` the members
they point to, with the type and key each has now. A copy walks the members in order and
looks each one's function up under the key the member itself has; it may throw half way
(a function missing or empty, or of another class) or dereference a null pointer (`crashed`).
An assignment that throws leaves what it has copied so far, a copy leaves nothing.

## 3. The runs

Runs that must pass. The states are distinct ones.

| Run | Instance | What it shows |
|---|---|---|
| `thread_pool` | 2 workers, 3 posts; 49,000 states | the safety properties, the refinement of TaskExecutor, and under fairness that `Join` returns and that accepted tasks run |
| `connection` | 2 messages of any size, 2 io threads; 22,000 | delivery in order unless writes overlapped; the queue drains; what was written arrives |
| `tcp_server` | 3 clients, 2 threads and the owner; 5,200 | one accept at a time, serial starts, clients are served unless the chain broke, `Join` returns and nothing runs after it |
| `rest_server` | 2 clients, 2 requests at once, 2 keys, 2 values, 12 requests; 223,000 | the refinement of RESTDictionary while handlers do not race; every call returns |
| `shared_memory` | 3 objects, 2 names, 5 segments; 766 | an owner has its name; unsized segments are explained; the refinement of SegmentOwnership |
| `event_channel` | a channel and its copy, 2 emitters, 2 consumers of two signatures, 1 emitter key, 2 consumer keys, at most 2 slots per emitter; 247,000 | registered pairs are connected; an emission reaches whom it must and nobody released |
| `resource_files` | 2 threads, 2 resources, 1 key, 2 values; 96,000 | files are whole under concurrency, faults and crashes; the refinement of KeyValueStore |
| `resource_rows` | 1 resource with 2 contents, 2 keys, 3 rows; 232,000 | a `Persist` that does nothing had nothing to do; the refinement of SnapshotStore |
| `entity_database` | 2 databases, 2 entities; 2.5 million | a loader fills what the present persister's last `Persist` of it wrote, whatever fails for others |
| `entity_files` | 2 roots, 1 member key that both use; 2.25 million | eager and lazy loading give what was saved last |
| `entity_copies` | 2 entities, 2 member keys, 1 class beside Entity, 4 objects; 216,000 | an entity filled member by member can always be copied; copies share no member |

One run must find a violation, and is the finding: `thread_pool_stop`. `Stop` on a pool with
an idle worker never returns: nobody is notified and the wait does not look at `die_`. The
text it contradicts is quoted in `PROJECT.json`.

### Why the bounds are enough

* `thread_pool`: two workers suffice for a wake-up to hit the wrong one and for
  one to leave while another works; three tasks let two be in flight and one queued. An
  instance of 3 workers and 3 tasks (306,000 states) was checked as well. The safety
  properties are proved for any numbers.
* `connection`: overlap, misordering and stranding need two messages. The safety
  property also holds with three (4.9 million states), and the safety properties are proved.
* `tcp_server`: serial starts need two clients and two threads; the third client
  waits while one is started and one is live. The safety properties are proved.
* `rest_server`: atomicity fails between two handlers, over two keys. The requests are one of
  each kind that the handlers tell apart, unusable bodies and values that are no strings
  among them. The refinement is proved for any numbers.
* `shared_memory`: an owner, an object that has the old segment open and one that makes a new
  one under the same name. Five segments: one per object and two that the dead left. Everything
  is interchangeable (symmetry; no liveness). The properties are proved for any numbers.
* `event_channel`: two of everything that can be confused; `MaxSlots` allows a double
  connection, which only repeats after that. Only one key for emitters: keys do not
  interact except through the objects registered under them. The properties are proved for
  any numbers.
* `resource_files`: one key, because keys meet only through the lock and the checksum.
  `Faults` leaves "write" out: with it `SavesItsResource` fails, since a full disk
  leaves a truncated temporary file that replaces a good one and the code does not look at
  the stream. `CrcOf` gives different values different checksums; collisions are a hazard of
  any checksum. The proofs assume nothing of the checksum.
* `resource_rows`: `MaxRows` = 3 lets a row go between the statements of a load and two more
  come; a row that is wider than high shows which size is which. The process's own resource
  is one: another would share nothing with it but the table, which other processes write
  anyway. Keys are interchangeable (symmetry). The properties are proved for any numbers.
* `entity_database`: the second database is the one the hierarchy goes to by mistake; the
  second entity is the one a later save could hide or, after a failed one, write in part.
  `Faults` lets the `Save` of one entity throw, the insert fail, and `sqlite3_open` fail for all
  but EntityPersister. Databases are interchangeable (symmetry). The properties are
  proved for any numbers and any faults.
* `entity_files`: one member key used by two roots is the smallest instance in which
  the search can find the wrong holder. Roots are interchangeable (symmetry; the run has
  action properties and no liveness). Members have no members: the code is recursive with
  the same steps at each level. The properties are proved for any numbers.
* `entity_copies`: a copy meets one member that it can and one that it cannot copy, in both
  orders. Four objects are as many as two entities can hold. A member's key changes to `k1`; the model
  also allows the empty key (`None` in `NewKeys`). Objects and entities are interchangeable. The
  properties are proved for any numbers.

`CHECK_DEADLOCK FALSE` stands where the system may really stop: a closed connection has nothing
more to do (`connection`), an exception may end a server's process (`tcp_server`), racing
handlers may end the server (`rest_server`), a null pointer may end the process
(`entity_copies`), and when every name is abandoned and every process dead nobody can do
anything (`shared_memory`). All other systems never stop.

### Fairness

* ThreadPool: weak fairness of each worker, of the spawning of threads and of the owner's
  waits. The operating system schedules threads, tasks are assumed to return, and a
  mutex is not withheld for ever. No fairness for calls, none for spurious wake-ups.
* Connection: weak fairness of the handlers and of the kernel's writes; the
  io_contexts are run. No fairness of connecting, sending or taking messages.
* TCPServer: weak fairness of each thread's handlers, assuming `StartApplication` returns,
  and of the owner's return from `Join`. Clients and the owner's calls are free.
* RESTServer: weak fairness of each request's steps in the server: the listener runs every
  handler that arrives, and the loops of the handlers are finite as long as they do not race
  (`CallsReturn` promises nothing after a race). Clients are free, and a request that has
  been given up may be dropped.
* The other modules have safety only: their operations are calls that nobody has to make.

## 4. What is proved

`ThreadPoolProofs` (any finite non-empty set of workers, any set of tasks; assumption
`PoolAssumption`; the constructor refuses zero threads):

| Theorem | States |
|---|---|
| `TypingAndCount` | types, and `numThreads_` is the number of workers in the loop |
| `Fifo` | tasks are popped in the order of acceptance, none lost or twice |
| `Wakeups` | no notification is lost |
| `LateStarts` | after `Stop` a worker begins at most one more task |
| `Drains` | a `Join` that returned left nothing running and everything owed done |
| `Implements` | every behaviour of the pool is one of TaskExecutor |

`TypeOK /\ ThreadCountExact` is inductive: a counter decremented by a worker is at
least one because that worker is counted. `NoLostWakeup` is inductive with types: it counts
the workers on their way to the mutex against the queue, so each push either wakes one more
or finds nobody asleep. `AtMostOneLateStart` needs `LateInv`: a worker that popped late is
past the mutex and on its way to a check of `die_`. `JoinDrains` needs `DrainInv`, the
conjunction of the above with `PostedOnce` (a call of `Post` enters the log once), `HeldOnce`
(what has begun is finished or in exactly one worker's hands) and `LeaveInv` (a worker
leaves only after `die_`, or after `keepRunning_` was cleared and everything owed was popped).
`Implements` uses `DrainInv`: a `Join` that returns while a task runs would not map to a
step of TaskExecutor. `ThreadCountExact`, `FifoExactlyOnce` and `AtMostOneLateStart` are
proved and no run lists them: the refinement covers them on the small instance.

`SharedMemoryProofs` (any objects, names and segments; assumption `SharedMemoryAssumption`):

| Theorem | States |
|---|---|
| `TypeCorrect` | types; an object has a name exactly when it has a segment |
| `OwnersKeepTheirNames` | the name of an owner stands for its own sized segment |
| `SizesExplained` | a segment without a size is being created, or its creation failed or its process died |
| `Refinement` | every behaviour of the objects is one of SegmentOwnership |

Inductive are the three properties with `NamesDistinct` (no segment has two names, so what
is removed or sized under one name is nobody else's) and `NamedUnsizedExplained` (the same
explanation for the segment that an object is going to open next). The refinement maps a name to its
owner or creator, who is unique by the same invariant.

`ResourceRowsProofs` (any resources, keys, shapes, contents and number of rows; assumption
`RowsAssumption`):

| Theorem | States |
|---|---|
| `TypeCorrect` | types; no row has a number that was never given out |
| `LoadsItsOwnRow` | between the statements of a load its row holds its key, or nothing |
| `SkippedIsThere` | if the checksum tells contents apart (`CrcTellsApart`), a `Persist` that does nothing finds the resource in the newest row |
| `Refinement` | every behaviour of the table and its adapters is one of SnapshotStore |

`IInv` is `TypeOK` with `NewestIsThere` (the maximum that names the newest row exists and is
a row of the key: the last one inserted), `LoadKnowsItsRow` (row numbers are not used
again, so the row a load selected is its own or gone) and `HomeIsThere` (what a resource was
last inserted as is still the newest of its key, as long as nobody else wrote or removed it).

`ConnectionProofs`, first part (any finite set of messages of any sizes, any number of io threads;
assumption `ConnectionAssumption`):

| Theorem | States |
|---|---|
| `TypeCorrect` | types; a write that is complete has put its whole frame on the wire |
| `ReceivedAsQueued` | if no writes overlapped, the i-th message received is the i-th one queued whose write has not failed |
| `QueueIsServed` | no message waits in the queue without a `SendMessageStart` to take it |

The invariant has two halves. `Sender` holds always: what was taken from the queue is a
prefix of what was queued (`Fifo`), and a write is as far as what it sent (`Writes`).
`Stream` holds until two writes overlap: only the message taken last is in flight, the wire
holds whole frames except perhaps the last (`Whole`), in the order of queueing
(`Ordered`), and what the receiver has is what it has read from the wire (`Receives`).
`DeliveredInOrder` counts: as many queued messages before the i-th one have not failed
as were received before it. `QueueIsServed` counts too: the messages still queued are no
more than the `SendMessageStart`s that the io_context holds and those that the calls which
pushed a message are about to post. It is the safety half of `OutgoingDrains`, and no run lists it.

`ConnectionProofs`, last part (the server that makes the connections: any clients, threads and
faults; assumption `ServerAssumption`: the owner is none of the server's threads):

| Theorem | States |
|---|---|
| `OneAccept` | types; in particular at most one accept is outstanding |
| `StartsAreSerial` | never two applications are being started at once |
| `JoinQuiesces` | after `Join` the io_context is stopped and no thread is in a handler |
| `ChainIsKept` | without an error, a listening server has an accept outstanding or is starting the one client whose handler issues the next |
| `OnlyJoinStops` | without an error, the io_context of a listening server never runs out of work |

The invariant `ServerInv` is a token argument. The chain of accepts is one token: before the
acceptor listens it does not exist, afterwards it is an outstanding accept or a thread inside
`StartApplication`, and an error destroys it (`OneChain`). While `Join` waits, the io_context
is stopped and the owner is in no handler (`InJoin`), so no handler begins. `ChainIsKept` is
the safety half of `ClientsServed`: that there is one token at least. `OnlyJoinStops` follows,
since an accept and a handler are work. No run lists these two.

`RESTServerProofs` (any clients, keys, values and requests, any number of handlers at once;
assumption `RESTAssumption`):

| Theorem | States |
|---|---|
| `TypeCorrect` | types; a request has one client waiting for it at most |
| `Refinement` | every behaviour of clients and handlers is one of RESTDictionary, until handlers race |

`IInv` is `TypeOK` with `Fine` (what a handler can have done and have left to do at each
place of its loops) and `WriterAlone` (without a race, a handler that writes is alone
inside). The refinement lets a request take effect where its handler begins.
A writer's later steps must leave `FinalDictionary` as it is, which they do because the key
it writes now is one it had still to write; a reader that goes over its keys one by one finds
at each what was there when it began, because no writer is inside.

`EventChannelProofs` (any channels, emitters, consumers, keys and slots; assumption
`ChannelAssumption`):

| Theorem | States |
|---|---|
| `TypeCorrect` | types; no signal has a slot of another signature |
| `RegisteredAreConnected` | what a channel holds under keys that belong together is connected |
| `AllRegisteredHear` | an emission that ends has called all that were registered when it began and still live |
| `ReleasedAreNotCalled` | no emission calls a consumer that was released |

Inductive are `TypeOK`, `Wired` and `Coming`: a consumer that an emission owes a call was
called, or is among the slots still to call, or has been released. `Wired` survives
every operation because an emitter's slots only grow while it lives, and a registration that
throws half way leaves its key unregistered.

`ResourceFilesProofs`, first part (any threads, resources, keys, data, checksum function and
faults; assumption `FilesAssumption`):

| Theorem | States |
|---|---|
| `TypeCorrect` | types; a thread has a resource exactly while it serializes |
| `LocksExclude` | one thread works on files, one has a resource, and a reader keeps the file it opened |
| `SavesItsOwnOrTears` | whatever fails, the file that a `Serialize` renames holds its own resource, or is torn because its write failed |
| `SavesItsOwn` | if writes succeed, it holds its own resource |
| `Atomicity` | whatever fails, every behaviour of the files is one of KeyValueStore in which "torn" is a value |
| `Refinement` | if writes succeed, every behaviour of the files is one of KeyValueStore |

`Locks` (`TypeOK`, `OneAtFiles`, `OnePerResource`, `ReadsTheFile`) is inductive whatever
fails. `IInv` adds `WritesTheResource` (between opening and renaming the temporary file is what
the thread that has the lock made it, and nobody can change either the file or the resource) and
`FilesWhole`. `SavesItsOwn` and `Refinement` assume `WritesSucceed` ("write" is not among
`Faults`), as the run does: without it they are false, since the code never looks at the state
of the stream it wrote. `SavesItsOwnOrTears` and `Atomicity`, which no run lists, say what is left then:
a file may be torn, but never mixed, another thread's, or seen half way through a call.

`ResourceFilesProofs`, second part (the files of entities: any entities, members and faults;
assumption `EntityFilesAssumption`: members are numbered from one, in the order of their keys,
and nothing that is saved looks like "nothing saved"):

| Theorem | States |
|---|---|
| `EntityFilesTypeCorrect` | types; no hierarchy lists an entity twice; what was saved last stays in the files |
| `HierarchiesAgree` | the JSON file and the serializer's tree list with an entity exactly the members of its last `Serialize` |
| `LoadsAsSaved` | a new entity becomes what was serialized last, with exactly its members |
| `LoadIsPossible` | such a load never throws, whichever members are registered |
| `LazyLoadsAsSaved` | a lazy member that only its own entity lists becomes what was serialized last |

`FilesAgree` is `EntityFilesTypeOK` with the two halves of `HierarchiesAgree`. The tree and the
file may each be older than the other (a restart, a reset, a failed write, a structure read
again), and neither needs to list an entity that was saved. But what either does list is
right, for every entity whose last `Serialize` returned: a success writes node and file together, a failure
disturbs the node of one entity, about which nothing is promised until its next success, and
putting a node leaves the others alone (`PutTree`, `PutAgrees`). `HolderIsThere` is about the
search: that some node lists the key means that there is a first.

`EntityProofs`, first part (entities in memory: any finite sets of entities and of addresses,
any member keys and classes; assumption `RoomAssumption`: as many addresses as entries, so that
memory does not run out):

| Theorem | States |
|---|---|
| `TypeCorrect` | types; an object lives exactly as long as some entity's entry holds it |
| `CopiesShareNothing` | no copy, assignment or move makes two entities share a member |
| `PlainIsCopyable` | an entity that was only filled member by member can be copied |

`IInv` has the first two, `Kept` and `Apart`, as they are, with `VacantIsEmpty` (what is not
constructed has no members) and `PlainIsInStep`: in an entity filled member by member each member's
function is that of the member's class, under the member's own key. The difficulty is a copy,
which makes many objects at once. Since the objects in use are no more than the entries in
use, the entries that are vacant leave enough addresses (`RoomForOne`, `RoomForCopy`). The
copies are then shown to be new, different from each other and with no entry but their own
(`CopiesAreNew`), also when the copy stops half way.

`EntityProofs`, second part (entities in databases: any databases and entities, any faults;
assumption `DatabaseAssumption`: no path stands for an absent or a broken connection):

| Theorem | States |
|---|---|
| `DatabaseTypeCorrect` | types; an open EntityPersister knows its path, and only an open connection has a leaked statement |
| `PersistedAreFound` | a loader that read the database itself fills every entity whose last `Persist`, by the present persister, had put it there, whatever is persisted or fails for others |

`Persistence` is `DatabaseTypeOK` with `HomesHold` (what the last `Persist` of an entity has put
into a database is whole in the persister's tree and in the newest hierarchy there, and
saved there; a later `Persist` of another writes the whole tree and leaves its node alone,
whether it fails or not: `OthersPersistence`) and `DueAreThere` (an open loader read at least what
is due). Nothing is promised of an entity whose own last `Persist` threw, nor, of a loader
that was open, of an entity persisted since.

**Only model-checked**: liveness (`JoinReturns` of the pool and of the server,
`AcceptedTasksRun`, `OutgoingDrains`, `WrittenArrives`, `ClientsServed`, `CallsReturn`), which is
out of the prover's reach. Of some the safety half is proved: `Wakeups`, `QueueIsServed`,
`ChainIsKept`. What a recursive definition computes for every input cannot be proved either: the
modules write such things as quantifiers and folds. All other properties of the runs are proved.

## 5. Behaviour a user should know that no property states

* Two messages posted back to back are written by two overlapping asynchronous writes: the
  strand orders completions only, so their frames can interleave (`IConnectionHandler.hpp:162`).
  `DeliveredInOrder` is about writes that did not overlap.
* A `Post` whose checks passed before `Join` may push after the workers left. `Post` returns
  normally and the task never runs. `JoinDrains` is about the tasks accepted before the call.
* `Post` captures its arguments by reference: they must outlive the task.
* `UnregisterConsumer` forgets the entry and leaves the slot: the consumer still hears
  (`EventChannel.cpp:93`; `EventChannel.h:90-92` reads otherwise). A released emitter stays
  registered until its key is unregistered. `EventChannel` locks nothing.
* Both adapters store the checksum before they write: after a failed save the retry is a
  silent no-op (`ResourceSerializer.cpp:50`, `ResourcePersister.cpp:87`). Copies of a resource
  share its mutex.
* `ResourceLoader` exchanges the two dimensions of a resource (`ResourceLoader.cpp:134` against
  `ResourcePersister.cpp:93-94`), as the tests expect.
* A new `EntityPersister` or `EntitySerializer` starts with an empty hierarchy, and its
  first save hides all earlier entities unless the application fills the hierarchy first.
* The key enters the hierarchy before `Save`: after an exception the JSON file can list an
  entity that was never saved (`EntitySerializer.cpp:55`). A failed write of the JSON file
  leaves one that cannot be parsed, for all entities.
* An entity that was persisted or serialized well loses its node to an empty one when it
  is saved again and `Save` throws (`EntityPersister.cpp:90`, `EntitySerializer.cpp:55`). The
  next save of another entity writes that, and a loader that reads it fills the entity in part or not at all.
* An entity persisted into one database and then into another has one node for both: the
  next hierarchy written to the first describes the entity as it is in the second.
* `LoadSerializationStructure` of a missing file clears the path of the JSON file
  (`EntityHierarchy.cpp:32`): until it is set again `Serialize` saves entities relative to the
  working directory and throws at the JSON file.
* Persisting an empty resource throws after its checksum was stored
  (`ResourcePersister.cpp:87`, `SqliteBlob.cpp:69-72`).
* A lazy member that was never asked for is not among what `Serialize` saves; serializing
  an entity again makes that member's data unreachable. A member key listed under two
  entities is loaded, lazily, from the first of them.
* Copying an entity with a lazy member dereferences a null pointer (`Entity.cpp:25`). A copy
  has no copying functions, so a copy of a copy that has members throws. A member that was
  removed and aggregated again under its key as another class makes copying throw `bad_cast`.
* A failed `Create` and a dead owner leave a name that no object of the class can take or
  remove.
* A server's `Join` inside one of its handlers would wait for itself.
* `RESTServer::HandleRequest` lets `json_exception` pass; the listener then answers.
* `Sqlite::Execute` on a connection that failed to open builds a string from an uninitialised
  pointer (`Sqlite.cpp:80`).

## 6. What is not modelled

* In the modelled components: the lifetime of a task's arguments; message elements of more
  than one byte (the library instantiates `char` only; with others header and receiver would
  disagree about the length); several servers on one io_context; nested emissions and moves
  of emitters; permissions, endianness and layout of files; members of members; serializing with
  no path set, as after a `LoadSerializationStructure` that found no file; what an
  entity's own `Save` and `Load` store, beyond one value; handlers of RESTServer that an
  application overrides; `SqliteBlob::Write`, which the library does not use.
* EntityLoader's walk down the tree and its registry: `EntityFiles` has the same algorithm
  on files.
* IStreamableEntity prints an entity's members; IOMPRunnable sets three options of the
  OpenMP runtime; the Python bindings and JavaApp have no logic of their own; build files,
  configuration headers and tests have no behaviour to model.
* boost::asio, boost::signals2, boost::interprocess, cpprest, SQLite, the file system and
  std::thread are external and modelled from how the code uses them.

## 7. Plan

The order of writing was: the pool (the only component with threads of its own and the
tightest interleavings), the connection and the server (handlers on several threads), the
channel (callbacks), storage (crash and partial failure), and then the components between
processes (shared memory, the table, the REST server) and the copies of entities.

Every safety and every action property of a run is proved. What is left is a composition of
Connection and TCPServer: a server that joins while connections write.
