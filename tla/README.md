# Verification of the systems-programming components

The repository is a course: markdown texts with small, self-contained C++
programs. Under `src/system-level-programming` those programs are real
components: lock-free queues, a futex mutex, shared-memory rings, a buffer pool,
a transactional engine, an LSM database, a fiber runtime, echo servers, a B+tree,
allocators. This directory holds
TLA+ models of them, TLC configurations that check the models on small
instances, and TLAPS proofs of what matters most.

## 1. Inventory

`SLP` stands for `src/system-level-programming`. State, operations and the
properties that make each component correct:

| Component | State | Operations | Hard behaviour | Correct when |
|---|---|---|---|---|
| SPSC ring, `SLP/04-*/projects/lockfree_ring_buffers/spsc_queue.hpp` | `head_`, `tail_`, a cached copy of each, raw storage | `emplace`, `push`, `pop`, destructor | two threads without locks, stale loads, wrapping indices | bounded FIFO, no race on a slot, every object destroyed once, everything published is delivered |
| MPMC ring, `mpmc_queue.hpp` beside it | `enqueue_pos_`, `dequeue_pos_`, a sequence number per cell | `emplace`, `push`, `pop` | claims by compare-exchange, laps | shared FIFO, one thread per cell, cells handed on one lap later |
| Futex mutex, `SLP/06-*/exercises/futex_mutex.hpp` and its client `shm_futex_sync.cpp` | `state_` in {0, 1, 2}, the kernel's wait queue, a counter | `lock`, `try_lock`, `unlock` | release in two steps, one wake-up for many sleepers | mutual exclusion, no lost wake-up, exact counter |
| Buffer pool, `SLP/07-*/projects/concurrent_buffer_pool_manager/` | frames, page table, free list, LRU-K histories, disk | `new_page`, `fetch_page`, `unpin_page`, `flush_page`, `flush_all_pages`, destructor | clients write without a latch between calls; a disk write may throw half way | pointers stay valid while pinned, no change is lost, no frame leaks, LRU-K victim |
| Transactional engine, `SLP/09-*` | transaction manager, read views, undo chains, WAL | `begin_transaction`, `get`, `put`, `commit`, `abort`, `recover_from_wal` | two latches, crash between any two steps | snapshot isolation, atomic and durable commits |
| WAL store, `SLP/12-*/02-*/wal_storage_engine.hpp` | file of checksummed blocks, index | `open`, `put`, `del`, `get`, `close`, recovery | short writes, torn tail, writes that are not synced | acknowledged operations in front of a torn block come back, in order |
| Embedded LSM database beside it | WAL, memtable, tables, compactor thread | `put`, `get`, `flush`, `close`, recovery | WAL written outside the latch, tables overwritten after a restart | acknowledged puts survive a kill, newest value wins |
| LSM engine, `SLP/08-*/projects/concurrent_lsm_tree_engine` | skip list, tables, bloom filters | `put`, `get`, `flush` | memtable reset when building a table fails | no key is lost, no false negatives |
| B+tree, `SLP/08-*/exercises/latch_crabbing_btree.hpp` | nodes with latches | `search`, `insert` | latch coupling, root split | no deadlock, inserted keys found |
| Fiber runtime, `SLP/12-*/03-*` | ready queue, fiber states, waiters | `spawn`, `yield`, `run`, mutex, channel | waiters nobody wakes | exclusion, FIFO channel, no fiber forgotten |
| Market feed and order book, `SLP/12-*/01-*` | shared ring, sorted levels | `publish`, `consume`, `update_level` | attach before creation, full side of the book | FIFO, sorted sides, best price right |
| IPC bus, `SLP/06-*/projects/low_latency_shm_ipc_bus` | shared ring | `create`, `attach`, `publish`, `consume` | creation races with attachment | FIFO between processes |
| Slotted page, `SLP/07-*/exercises/slotted_page.hpp` | header, slots, tuples | insert, get, update, delete, compact | slot reuse, compaction at the boundary | live tuples never overlap or change |
| Epoll echo server, `SLP/05-*/exercises/epoll_server.hpp` | listener, epoll set, one buffer on the stack | `run`, `handle_accept`, `handle_read`, `stop` | events that come once, partial writes, clients that do not read | bytes come back unchanged and all of them |
| io_uring reactor, `SLP/05-*/projects/iouring_echo_reactor` | two rings shared with the kernel, a context per connection | `run`, `submit_*`, `handle_completion`, `stop` | full ring, short writes, ignored results | one operation per connection at any time, bytes come back |
| Buddy and slab allocators, `SLP/02-*/projects/slab_and_buddy_allocator` | free lists per order; intrusive free list | `allocate`, `deallocate`, `construct`, `destroy` | any order of frees, full pool, throwing constructors | memory is partitioned, merged and never handed out twice |
| Fast logger, acquire-release channel, utilities | see "Not modelled" | | | |

Components interact little: the buffer pool calls the replacer and the disk
manager and hands out slotted pages; the transactional engine calls the
transaction manager; the embedded database is made of WAL, memtable and tables
of the LSM engine; the trading engine applies what it consumes from the feed to its
book. `PROJECT.json` lists every component with its status, and
the hazards of each at the line where they bite.

## 2. What is modelled

Constants are parameters of every module, with named assumptions; the `MC*`
modules only choose values (and symmetries), and say in a comment why the
bounds are enough.

### BoundedFifo
The abstract specification of a ring: a sequence of at most `Capacity` items and
the item handed out last. Both ring modules implement it.

### SpscQueue
One action performs at most one access to shared memory. The producer's
`EmplaceCached`/`EmplaceReload` are the two ways through the full test,
`Construct` is the placement new, `PublishTail` the release store; the consumer
has `PopCached`/`PopReload`, `Read` and `PublishHead`; `Destroy` starts the
drain of `~SPSCQueue`. An acquire load of the other side's index may return any
value the index has had since this thread last saw it. Indices wrap at `Width`,
the stand-in for 2^64. Because plain accesses to a slot are steps of their own,
`NoSlotRace` says exactly that the program has no data race there.
Refinement mapping: the items are the slots from the consumer's index to the
producer's; an item leaves when it has been read out of its slot.
Not modelled: `empty()` and `size()`, which change nothing. (`size()` reads the
two indices one after the other, so from a third thread it may exceed Capacity.)

### MpmcQueue
The threads are those of `test_lockfree_queues.cpp`: producers retry every push,
consumers pop until everything is consumed. Loads of positions may be stale, the
load of a sequence number may return any value it has had (more than C++
allows), and `compare_exchange_weak` may fail spuriously. A push takes effect
at its claim and a pop at its own. Positions do not wrap in the model; the
code's signed difference makes a wrap harmless as long as fewer than 2^63
positions lie between two threads.

### FutexMutex
`pc` holds the position in `lock`, `unlock` and the client's loop; "asleep" is
the kernel's wait queue. `FUTEX_WAIT` compares and queues in one step, may
return spuriously (`Interrupt`), and `FUTEX_WAKE` wakes one sleeper.
The client's `counter += 1` is a load and a store.

### LruKReplacer and BufferPool
Every method of the pool runs under `bpm_latch_`, so it is one action; the
replacer is a record and its methods are operators on it. `Scan` is the loop of
`victim()` over the evictable frames in an arbitrary order, as an `unordered_map`
lists them (the loop skips the nodes that are not evictable). Between the calls,
clients change pages through the pointers they hold (`Change`). A page is its
header id and the number of changes to its tuples. A failing `pwrite` leaves the old page or a part of the new one
(`Partial`); each method that writes has a second action for the exception,
with everything the method had done before the throw. Calls that return
`nullptr` or `false` change nothing and have no action.
Not modelled: failing reads, reopening a file, a client with two pins on one
page, a client that unpins a page it does not hold.

### TransactionalEngine
The undo chain of a key is a sequence, newest version first: its head is the
slot, the rest the undo records. `commit` and `abort` are two actions each,
because `begin_transaction` takes only the manager's latch and may run between
their halves. `Crash` may interrupt every method: it keeps the synced part of
the WAL and any prefix of the rest, a COMMIT being written included.
Every history of begins, puts, commits, aborts and crashes is followed, also those
in which the engine fails, and `get` tells `nullopt` (`Absent`) from the empty string.
The history variables say where it fails: `spoiled` has the keys of which an
`abort` has removed another transaction's version since the last crash, and `lost` the
puts of transactions whose commit had returned and whose COMMIT record recovery does
not reach. `Readable` is what recovery reads: everything behind a torn PUT is taken
for part of its value, or read at the wrong offset.
A slot that `put` creates starts with an empty version of transaction 0, which every
view admits, so the answer for a key nobody has committed changes from `nullopt` to
`""` when somebody puts it (`Answer`).
The code ignores the results of `write()` and `fdatasync()` in `put`, `commit` and
`abort`; the model takes them for success as long as the process lives. A full disk
or an I/O error without a crash is outside of it: a commit would then return although
nothing was logged.

### SsTable, SkipListMemTable and LsmEngine
The memtable is a record and the table an immutable one; their methods hold a
latch or change nothing, so they are operators (`mem_put`, `mem_get`,
`to_vector`, `build`, `table_get`). The level of a new node is any level
`random_level` can return, and the two hashes of a key are any pair of a given
set, chosen at the start: nothing depends on the hash functions of the code.
`LsmEngine` puts them together: every method holds `engine_latch_` and is one
action, `put` includes the flush it causes. Building or opening a table may
fail; the memtable is dropped all the same, and the history variable `lost` says
which keys this affects. A short write that `build` ignores is folded into the failed
flush.
Not modelled: the bytes of the file; a second engine on the same directory.

### EmbeddedLsm
Memtable and tables are maps from keys to puts; what happens inside them is the
business of `LsmEngine`. `put` is two actions, `PutLog` (the append to the log,
without a latch) and `PutApply` (under `db_latch_`, with the flush it causes), so
puts of several threads overlap. `Kill` ends the process between any two steps and
`KillInFlush` while a table file is written; `Construct` begins the next life,
in which table numbers start at 0 again and old files are truncated in place.
`recover` opens the complete files in any order and replays the whole log.
`close` is three actions, with the compactor's loop beside them; its unlatched
read of `sstables_.size()` has either outcome, and `compact_level0` changes
nothing. A table object whose file has been overwritten is `Stale`: a lookup
that reaches it may return anything (`Garbage`).
A flush may fail to build or to open its table: as in the code, the memtable is
emptied and the number used all the same, the file may be left as it was, cut short or
complete, and `lost` has the dropped keys until they are put again or `recover` has
replayed the log.
The result of `write()` in `put` is ignored by the code and taken for success by
`PutLog`; a put that did not reach the log would not survive the process.
The properties order puts by call and return (`pre`): what `get` returns must not
have been over before a put that has itself returned was called.
A lookup of a key that was never put may reach a stale table; the code then
compares with the bytes of another file, and the model claims nothing.

### FiberRuntime
One thread, so a fiber's call is one action, or one action per turn of its
`while` loop when it suspends; `pc` remembers the call a suspended fiber is in.
`Run` is one turn of `run()`. The fibers are arbitrary clients that unlock only
what they have locked. The channel's values do not matter to the runtime, so
`queue` is their number.
The runtime promises no fairness: a fiber that unlocks and locks again without
yielding starves the waiters it wakes, so no liveness is claimed beyond
`NothingForgotten`.

### ShmIpcBus, L2OrderBook and TickToTrade
`ShmIpcBus` has the objects a name in shared memory has referred to (`seg`, their
size, header and ring), the creator's process and the attached one, each with the
locals of `publish` or `consume`; one action per access to shared memory. `create`
is three actions: the truncating `shm_open`, `ftruncate`, and the header's stores,
so that a consumer can attach in between; touching an object of size 0 is a
SIGBUS, after which only `ConsumerDies` is possible. Either process may die
anywhere. The kernel frees an object once it has neither a name nor a mapping
(`Free`). A slot that is being written reads as `Torn`. `spoiled` marks objects
that were truncated while a `consume` was under way: there the old `read_index`
ends up in the new ring, messages are skipped and zeros are read, which the model
follows but for which nothing is claimed.
`L2OrderBook` is the book's arithmetic as operators on a sorted sequence of
levels. `TickToTrade` composes the two: `shm_feed.hpp` is the same ring with
market events for messages (`FeedCreate` ... `FeedPoll`), and `FeedConsume` is the
end of `consume` with the engine's loop of `bench_tick_to_trade.cpp`, which
applies the event to its book and computes the mid price. Book and signal go with
the engine's process.

### EchoSockets, EpollEchoServer, IoUringReactor and EchoServers
`EchoSockets` is external: what the two servers' system calls can see of their
clients, who connect, send numbered bytes, read, half-close, close and reset.
`EpollEchoServer` has the kernel's ready list and the server thread's position:
`EpWait` takes a batch with the events of that moment, `EpDispatch` its next
event in any order, `handle_accept`, `EpRead` and `EpWrite` one system call each.
`IoUringReactor` has the two rings and the requests in the kernel; the operators
`get_sqe` and `submit_*` are the code's, `handle_completion` one completion. The size
of the submission ring is any of `SqSizes`; a request that `get_sqe` has no entry for
is gone, and `dropped` remembers for whom. The
ring's plain stores are taken to be in order, as the kernel reads them inside
`io_uring_enter`. `EchoServers` states the requirements once for both. Nothing
is followed after `stop()` or a SIGPIPE (`up` is false then). Of `init` only the
registration of the listener and the first accept are modelled; if a step of it fails
there is no server.

### BuddyAllocator, SlabAllocator, SlottedPage, WalStorageEngine and ConcurrentBTree
The allocators' methods hold a
mutex and are one action each; `held` and `live` are what callers hold. The slab's
links are kept in the chunks (`mem`), where an object overwrites them.
`SlottedPage` moves bytes: `compact`, `Stored` and `Copy` are the code's `memcpy`s
on `page.data`; `tuples` is what callers stored. `WalStorageEngine` has the file
as half blocks, so that a short write leaves every later block out of step;
`WalPowerLoss` cuts it anywhere behind the last `fdatasync`. `kept`, `torn` and
`durable` are history: how many acknowledged operations lie in front of the first
torn block, and how many did at the last `close`. `acked` has every operation that was
acknowledged and that no power failure took from the file; those that followed a short
write in the same life are dropped from it at the next `open` (`ragged`), so that
`AcknowledgedSurvive` speaks only of what `recover` says it truncates.
`ConcurrentBTree` has one action per latch that is acquired. The code splits only
a leaf that is the root, although `SLP/08-*/README.md` describes splits at any
level: from then on the tree has an inner root and two leaves, which outgrow
`MaxKeys`; latches are held as if they could split.

## 3. What the runs show

Related components share a run, in which a variable (`program`, `part`, `system` or
`unit`) says which one is running; the others keep their initial state. So a property
of one component is checked on exactly the states of that component.

| Run | Instance | Checks |
|---|---|---|
| `spsc` | 2 slots, index width 8, 2 values | `NoSlotRace`, `ObjectLifetime`, `ImplementsFifo`, `Delivered` |
| `mpmc` | 2 producers and 2 consumers, 2 cells, 2 pushes each | `NoCellRace`, `DeliveredInOrder`, `QuiescentReady`, `ImplementsFifo` |
| `kernel` | mutex: 3 processes, 2 rounds | `MutualExclusion`, `NoLostWakeup`, `CounterExact`, `AllTerminate` |
| | echo servers: 2 clients with 2 bytes each, send buffer of 1 byte, 1 failing call, 2 submission entries | `EchoFaithful`, `OneOperation`, `EveryByteEchoed` |
| `database` | buffer pool: 2 clients, 2 frames, 3 pages, 5 accesses, 1 failing write | `PointersValid`, `NoLostChange`, `FramesAccounted`, `VictimIsLruK` |
| | slotted page of 8 bytes | `TuplesIntact` |
| | 3 transactions, 3 puts, 2 keys, 2 crashes, also inside a PUT | `CommittedState`, `SnapshotStable`, `IdsFresh` |
| `fibers` | 4 fibers with 4 calls each, a channel of 2 values | `MutualExclusion`, `OnePlace`, `NothingForgotten` |
| `capstone` | ring of 2 slots with 2-bit indices, book 2 levels deep; "crashes": 2 creations, 2 attachments, 3 messages of 3 events; "book": 1 creation, 1 attachment, 4 messages of 7 events | `RingSafe`, `BookIsFeed`, `Consumed` |
| | embedded database: 3 puts of 2 keys, 2 lives, a table per life and one at close, 2 recoveries | `NoStaleRead`, `RecoveryNotOlder`, `CloseReturns` |
| `stores` | buddy: 8 blocks; slab: 3 slabs of 2; WAL: 3 writes of 2 keys, 1 power failure; B+tree: 2 threads, 4 keys, 4 inserts, `MaxKeys` 2 | `BuddyPartition`, `SlabChain`, `WalRecovers`, `IndexSound` |
| | LSM engine: 3 keys, 2 levels, blocks of 2 records, 2 flushes, 3 filter bits | `LevelsNested`, `ReadsLatest`, `TableLookup` |
| `transactions_dirty` | no crash | violates `NoDirtyRead` |
| `transactions_durability` | 2 crashes | violates `Durability` |
| `transactions_snapshot` | no crash | violates `SnapshotExact` |
| `wal_truncation` | no power failure | violates `AcknowledgedSurvive` |
| `echo_half_close` | 1 client, no failing call | violates `FullyDrained` |

Each property has a mutant in
`PROJECT.json`: a plausible slip in a modelled operation (the operators whose
names and comments say so, such as `IsFullOffByOne`) under which TLC finds the
property violated.

Bounds. The ring indices wrap several times. Four items through two cells make
MPMC threads a lap apart and both ends of the queue occur. Three processes are
the least with which one can barge in between a release and the wake-up it
causes. Five accesses are enough for a page to be evicted, fetched and evicted
again while a frame has K accesses and another has fewer. Three transactions
allow a reader that spans the puts and ends of two writers, two crashes a commit
between a torn PUT and the crash that loses it. Three keys in blocks
of two give tables with a short block, a full one and one of each, and two
tables are enough for an old value to lie behind a new one. Two lives allow a
table of the first to be overwritten in the second, and `RecoveryNotOlder` asks in
every state what a third one would recover. With
four fibers two may wait while one wakes them and one barges in. Two creations
and two attachments let either process be replaced while the other stays; three
messages fill a ring of two and lap it, four wrap the index. Four events push a
level off a book of two and then remove one; since the book's arithmetic does not
depend on crashes, the run has sessions with crashes and few events and sessions
with many events and no restart. Two clients are the least with which one
connection can wait for another, two bytes the least for a partial write, and
two submission entries are fewer than the two connections and the accept may need at
once, so that `get_sqe` refuses some requests (the code asks for 512 entries and puts
no limit on connections). Eight buddy blocks have merges over
three orders. A page of eight bytes holds two slots and four bytes of tuples, so
that almost every second insert compacts. Four keys split a root of two and fill
a leaf again.

Fairness. `spsc`: a started `emplace` finishes, the consumer keeps polling, and
a polling thread eventually loads a stored index (C++ requires stores to become
visible in finite time). `kernel`: the system keeps scheduling every process that
is not asleep, nothing is assumed of signals; the thread of an echo server and the
kernel's side of io_uring make progress, but no client need read, send or hang up.
`capstone`: the compactor and
the thread in `close` are scheduled, and 50 ms pass; the trading engine keeps
polling, and nothing is assumed of the exchange. The other runs check safety only.
MPMC liveness is not checked: it needs strong fairness of every thread's loads
and claims, which is more than TLC handles at a useful size; `QuiescentReady`
says instead that a queue at rest refuses no call it should accept.

Deadlock is not checked in any run but `mpmc`, whose queue always ends with everything
consumed: a destroyed queue, a stopped server, a closed pool or database, fibers that
have all ended or wait for a call nobody makes, and clients that have used up their
bounds do nothing more. That B+tree threads never block each other is part of
`IndexSound`, that mutex processes do not is `AllTerminate`.

Findings. Five runs show a disagreement of the code with what the repository says of
it; `PROJECT.json` quotes the lines.
- `transactions_dirty`: `abort` pops the newest version of a key, whoever put it; after
  another transaction's put it leaves its own aborted value, which everybody reads.
- `transactions_durability`: recovery does not cut a torn PUT off the WAL; what commits
  behind it is lost at the next crash, although it was synced.
- `transactions_snapshot`: a key that a transaction found missing turns into the empty
  string when another one puts it.
- `wal_truncation`: recovery says it truncates a torn block and does not; what is
  acknowledged behind it is gone at the next open.
- `echo_half_close`: the epoll server closes a connection whose client has shut down
  its sending side without reading what the client had sent before.

What `EveryByteEchoed` claims, and what it does not. For every client, again and again
all it has sent has come back, so each byte does, in whatever pieces it was sent and
whatever other clients do. A connection may be lost (`Lost`): the server was stopped or
killed, the client closed, a write came up short, `get_sqe` had no entry for it,
registering it failed, or the epoll server met a half-close. Or it may be stuck for
ever (`Stuck`): its client reads nothing, the epoll server spins on another client
that reads nothing, a failed `accept4` left it in the backlog, or a failed
`io_uring_enter` left its entry in the ring. Each excuse holds for the connections it
concerns; a client that starts to read again ends the first two.

Behaviours the models have and the properties leave room for, because the code
does not prevent them:
- A page that its creator unpins unchanged is evicted unwritten (`new_page` leaves
  `is_dirty` false) and comes back with `page_id` 0 in its header.
- The keys of a memtable whose flush failed are gone from `LsmEngine`, and from the
  embedded database until the next `recover` (`lost`).
- Two puts of one key that overlap may be in the log and in the memtable of the
  embedded database in different orders, so that recovery turns one into the other.
- Operations of the WAL store that follow a short write in the same life are lost at
  the next `open`.
- A restarted creator of a shared ring empties it under its consumer (`spoiled`).
- A side of the order book that was full once may lack levels from then on.
- The echo servers lose or block connections as listed above.
- A chunk whose object's constructor throws is lost to the slab allocator.

## 4. What is proved

Eight modules hold theorems, one `Spec => []Property` for each invariant they
cover, for every value of the constants that satisfies the named assumptions
(capacities and bounds positive, sets of threads, frames or fibers finite, the ring
capacity a divisor of the index range). The bounds that keep TLC's instances small,
such as `MaxPages` or `MaxStarts`, are arbitrary numbers here. In each module
`IndInv` (`BuddyInv`, `SlabInv`, `WalInv`, `PageInv`, `BTreeInv`, `EngineInv`, `BookInv`,
`DbInv`, `EchoInv`) is inductive, and TLC has checked it on the instance of the run.

`SpscQueueProofs`: `RaceFree`, `LifetimeSafe` and `Refinement`. The
inductive invariant adds to the types the order of the four indices
(cached_head, head, cached_tail and tail lie in this order, at most Capacity
apart, as distances modulo Width: `IndexOrder`), what the passed tests
still guarantee (`ChecksHold`: a stale cached index errs on the safe side),
which slots hold objects (`Contents`), and what the destructor sees
(`Shutdown`). Without `Contents` neither the lifetimes nor the refinement is
inductive: nothing would say that the slot about to be read is constructed.

`MpmcQueueProofs`: `TypeCorrect`, `RaceFree`, `RestIsReady`, `Delivery` and
`Refinement`. Every cell is either waiting for the push or for the pop of one
position (`Cells`), and the thread that has claimed it still finds it so
(`Owners`). A thread between its loads and its compare-exchange has seen a sequence
number that only grows (`Seen`); so a claim that succeeds finds the cell in the state
it saw, although the position and the number were stale when they were compared.
`Contents` and `ClaimsInOrder` tie the cells to the claimed items and the items
of a producer to the order of its pushes, and `Deliveries` to what consumers got.
The types of positions are bounded by counting: claims are an injection into the items.

`KernelProofs`: `TypeCorrect`, `Exclusion`, `WakeupNotLost`, `UpdatesNotLost` and
`CounterCorrect` of the futex mutex, `OneOperationEach` and `BytesComeBack` of the echo servers.
For the mutex the invariant adds that a mutex whose `state_` is 0 has no holder (without it,
nothing stops a second process at the exchange), that a process between its load
and its store has the current counter, and that a process which has not exited
has a round left. The counter is counted as a set of pairs of
process and round, so that its value follows from the cardinality of that set.

For the echo servers, `RingInv` says that each open connection, and the listener, has
exactly one place in the submission ring, the kernel and the completion ring together,
unless it is in `dropped`, and nobody else has one. Nothing is assumed of the size of
the ring; instead `Drops` says that once `get_sqe` has refused somebody, as many
connections have been accepted as the ring has entries. It holds because the ring is
then full of entries with different owners: those are accepted connections, or all but
one of them and the listener, in which case the refused one is another connection.
`IoFits` says that the bytes an operation in flight carries are the next ones
the client has to get, and so `EpFits` of the epoll server's buffer between `recv` and
the last `send`. A place that outlived its connection would echo bytes to another
client; that the descriptor is freed only where no place is left is what makes the
invariant inductive.

`BufferPoolProofs`: `TypeCorrect`, `PointersStayValid`, `ChangesKept`,
`NoFrameLeaks` and `VictimByPolicy`. `Mapping`, `FreeFrames` and `Pins` say that page
table, frames, free list and pointers describe one assignment of pages to frames;
`Evictables` that the replacer offers only unpinned frames and that a pinned
frame has a node, without which the last `unpin_page` would mark nothing and the
frame would leak; `Saved` that a page which differs from the disk is dirty or held by
a client who has changed it and will say so. `VictimByPolicy` is about the loop of
`victim()`: `BestOf` is its loop invariant, for the frames met so far.

`CapstoneProofs`: `Exclusion`, `FiberInOnePlace` and `NoLostWakeup` of the fibers,
`AcknowledgedPutsRead` and `RecoveryKeepsReads` of the embedded LSM database.
`NothingForgotten` speaks of the moment `run()` returns; what is inductive is
`WakeupsUnderWay`: who waits for a free mutex has a resumed fiber in front of it, and
for a channel with n free places or values n resumed fibers. Counting the resumed
fibers is needed: one of them may find its place taken by a fiber that barged in.

For the database, `LogInv` says that puts are logged in the order of their calls and know
as over only earlier ones, `DataInv` that whatever memtable, tables and files hold is
a logged put of its key, and `ReadyInv` that there is a position above which the tables
were flushed since the last recovery and are not stale, and below which no search for a
key of a returned put gets, unless a failed flush dropped the key. `NoStaleRead` needs
all of
`NoStaleRead` needs all of them, also for states in which the process has been killed: what the next life reads
is decided by what lies on disk in this one. A failed flush leaves a file that belongs
to no table, complete or not; the keys it dropped are exempt, all others are not.

`TickToTradeProofs`: `RingIsSafe`, for the ring in its composition with the trading
engine. `Places` says that a living process has an object and a living producer the
one with the name, so that only the consumer can outlive its object's name; `Rings`
that indices, contents and log agree in every object; `Writer` that from the check for
room to the store of `write_index` nobody moves that index or takes the room away;
`Reader` that nobody else moves `read_index` and that the message `consume` saw stays
unread, in an object that was not truncated under it. The proof needs the indices modulo
`Word` and the messages' numbers side by side, hence the lemmas on remainders.

`BookFollowsFeed`, in the same module, is about the engine's book, for every depth and
all events with a side, an integer price and a natural quantity. Its invariant
`BookInv` states for each side that the levels are sorted throughout with the quantity
of the last event of their price (`Levels`), that no quoted price is missing as long as
the events never quoted more prices than the side has levels (`Shallow`, `Complete`),
and that the signal is the mid price of the levels it was computed from. It has one
lemma for each branch of `update_side`. The insertion needs a count: a full side into
which one more price is inserted holds as many prices as it has levels, so the feed is
then too deep and nothing is claimed of the price that falls off.

`TransactionalEngineProofs`: `IdsNeverReused`, `ReadsFromSnapshot` and
`CommitsSurvive`, for every number of transactions, keys, puts, aborts and crashes, and
without a hypothesis on them: the exceptions are in the properties, as the keys of
`spoiled` and the puts of `lost`, and `CommitsSurvive` also says that a put is in `lost`
only if it lies behind a torn PUT.
The heart of the invariant is `Chains`: the chain of a key consists of the puts of the
transactions that are committed or active and not aborting, newest first, down to the
empty version of transaction 0 or to the one version that recovery left, which every
active transaction sees. `Views` says that a view admits what had ended when it was
taken, `Snapshots` that what a transaction sees was put before its own puts. `Logged`,
`Ends` and `Tears` relate the puts to the WAL: those of a committed transaction lie in
front of its COMMIT, which has been forced to disk, and torn PUTs were there when
the last crash came; `Known` are the records that recovery reads or that are younger
than that crash, and `Fresh` says that the two have no transaction in common.
For `abort` the proof counts: `Counts` gives as many undo entries as puts of the key,
so that, where `OnTop` holds for the key, the popped versions are exactly those of the
transaction; where it does not, the key is spoiled and leaves the invariant.

`StoresProofs`: `FreeListSound`, `RecoversAcknowledged`, `TuplesSurvive`,
`IndexIsSound`, `SkipListOrdered`, `LatestPutRead`, `TablesFindTheirRecords` and
`BlocksPartitionPool`.
`SlabChain` follows the links; the invariant says that there is a sequence of distinct
free chunks along them (`FreeChain`), and a separate lemma that following finds it. For the WAL the invariant describes the
file: the blocks of the acknowledged operations up to `kept`, then nothing, or halves
that no checksum accepts (`Blocks`); what a close made durable lies in front of that
(`Durability`), and an open engine shows what it acknowledged (`Shown`). The
recovery loop is shown to stop exactly at the first torn block. For the slotted page,
`Layout` adds to the property that live tuples lie behind `free_space_ptr` without
overlapping (`Apart`) and that their bytes fit there (`Fits`): so a compaction, which
may write a tuple over the old bytes of another, ends with `free_space_ptr` no lower
than before. `PartWay` is the invariant of its loop.

For the B+tree, `Tree` gives its two shapes and `KeysHome` what a search from the root
finds; `Latched` says which latches a thread has at each step and `Stands` that on its
way down it is at the root or in the leaf where its key belongs (`Home`). So whoever has
locked the only leaf is alone under way, and the split, which gives keys other homes,
moves no key away from a running search. That the split divides the keys at the
separator is a fact about counting (`SplitKeys`). Some thread can always move: one at a
leaf, else one at the inner root, whose children nobody holds, else any.

For the LSM tree engine, `EngineInv` says that there are sets of nodes, one per level,
each within the one below, through which the links of the level run in order
(`MemInv`, `Links`); that every table is what `build` makes of sorted records
(`TablesBuilt`); and that a key's last value is in the memtable or else in the newest
table that has the key (`Newest`). From the links it follows that the search leaves
each level in the last node before the key (`UpdateIs`), so that a new node is linked
in its place on each level (`LinkIn`) and `get` misses nothing. A table is a matter of
its own (`TableFinds`): the bisection returns the first position whose key is not
below the key sought (`LowerBoundIs`), the blocks partition the records, the last one
short (`RecordBlocks`), and the first block whose last key is not below the key is the
only one that can hold it; the filter only ever rules out keys that are absent. The
proofs assume that the token for a missing key, `NotFound`, is no value.

For the buddy allocator, `BuddyInv` states the partition for aligned blocks and, in
place of the last part of `BuddyPartition`, what single steps can keep: no block below
the highest order is free together with its buddy (`NoFreeBuddies`). From it a wholly
free block lies in one free block (`FreeMaximal`), by the least order at which that
fails: both halves would be free blocks, hence free buddies. The geometry is that of
multiples: two aligned blocks that meet lie one in the other (`BlocksNest`), and a
block and its buddy are the halves of one block of the next order (`Halves`). A split
and a merge exchange blocks for others on the same bytes (`Replace`). `allocate` takes
the lowest order that has a block, so the lists it appends to are empty; `Merging` is
the invariant of the loop in `deallocate`, which ends at the highest order or at a block
whose buddy is not free. The sizes are defined by doubling, as the shift in
`order_to_size` does, so that nothing about powers is needed.

Recursive functions (`Scan`, `order_to_size`, the loops of `recover`, `compact` and `deallocate`, the walks along the
free list and the skip list, the bisections, the searches through the tables) are
handled with the least-number principle for sets (`LeastNumber`): the functions
exist, and a least position at which a claim fails leads to a contradiction.

Every safety property of the passing runs is proved. Only model-checked are the
liveness properties (`Delivered`, `AllTerminate`, `CloseReturns`, `Consumed`,
`EveryByteEchoed`): liveness under fairness is out of TLAPS's reach.

## 5. Not modelled

- Fast logger (`SLP/common/logger.hpp`): with one logging thread its ring is that of
  `SpscQueue` without cached indices; the rest formats numbers and text. Its comment
  says "SPSC / MPMC", but two threads that log at once load the same `tail_` and
  write the same entry. Only `test_common.cpp` uses it, with one thread.
- Acquire-release channel (`memory_order_drills.hpp`): the publication pattern of
  the SPSC ring with one slot.
- ELF inspector, cycle counters, memory helpers, SIMD pipelines, benchmarks, eBPF
  and crash probes, course texts: I/O, printing or measurement, no state machine.
- In modelled components: the parts named in their sections and in the notes of
  `PROJECT.json` (moves of shared-memory handles, failing `init`s, getters).

## 6. Plan

1. Done: all components that keep state of their own, except for those of section 5,
   and proofs of every safety property: the rings, the locks, the buffer pool, the
   fibers, the transactional engine, both allocators, the WAL store, the slotted page,
   the B+tree, the LSM tree engine, the embedded database, the echo servers, the
   shared-memory ring and the order book.
2. Left: the restart of the disk manager (`next_page_id_` begins at 0 again), which no
   property covers; failing `write()` and `fdatasync()` calls in a process that goes on;
and the fast logger, should more than one thread use it.
