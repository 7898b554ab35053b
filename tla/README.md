# A TLA+ model of the key-value server

The repository is a multi-threaded key-value server: clients send GET, PUT and
DELETE over TCP, worker threads answer them from a write-back LRU cache, and the
cache reads and writes a directory of database files. This directory holds TLA+
modules of that program, TLC runs over them, and TLAPS proofs about them. Line
numbers below are those of the files in `src/`.

## 1. The system

| part | state it keeps | operations | talks to |
|---|---|---|---|
| `KVServer.cpp` main thread | `thread_pool`, `listIter` | accept a client, hand it to a worker round robin, start more workers when all are full | workers, through `client_fds_new` under `mutex_new_client_fds` |
| `KVServer.cpp` `worker_thread` | its epoll set, `client_fds_count`, one reused `KVMessage` | wait for events, serve one request per event, take over new clients | clients (sockets), `KVCache` |
| `KVServer.cpp` `signal_callback_handler` | - | on SIGINT lock every worker's `mutex_serving_clients`, clean the cache, exit | workers, `KVCache` |
| `KVCache.hpp` | `hashTable` and `lruEvictionTable` (lists with a reader-writer lock each), the nodes, two round-robin counters | `cache_GET`, `cache_PUT`, `cache_DELETE`, and below them `cache_PUT_new_entry`, `cache_eviction`, `cache_clean` | `MemoryPool`, `KVStore` |
| `MyMemoryPool.hpp` | blocks, a vector of free objects and its length, a mutex | `init`, `acquire_instance`, `release_instance` | - |
| `KVStore.hpp` | 1021 files, a lock each; a bitset of the files that exist; in each file rings of entries linked by index | `read_from_db`, `write_to_db`, `delete_from_db` | the file system |
| `KVMessage.hpp` | code, key, value, two hashes | hashing, validity of a code | - |
| `KVClientLibrary.hpp`, `KVClient.cpp` | a socket, the last result | `GET`, `PUT`, `DELETE`; replaying files of requests against expected answers | the server |
| `ServerConfig`, `MyDebugger.hpp`, `KVStoreFileNames.cpp`, tests, generators | - | start-up parameters, logging, a table of names | - |

What is hard in it:

* **Interleaving.** A search holds a bucket's shared lock; a hit that writes
  releases it and then asks for the exclusive one; a miss releases it and comes
  back with a node. Eviction looks at the LRU queues without any lock, picks a
  bucket from what it saw, and only then locks. Nodes are recycled in place, so
  a pointer kept across any of these gaps may lead to another key's entry.
* **Three levels of locks** (bucket, LRU queue, file) on four paths, with ten
  ways out of the calls.
* **Two lists per node**, whose link fields belong to the node and not to a list.
* **Two copies of a value**, the cache's and the file's, and a key that for the
  time of a write-back is in neither list.
* **Shutdown and restart**: what a clean shutdown leaves in the files is all the
  next process has.
* **Files**: several writes per update, with links between entries; one bitset
  shared by all files.
* **Distribution of clients**: counters read by one thread and written by
  another, limits, growth of the pool, a signal handler on top of a running
  thread.

What makes each part correct:

* *Cache*: the answers are those of one map; every list is proper; every node is
  at exactly one place; one node per key; eviction takes the least recently used
  key of a queue; no null pointer is followed; locks exclude what they are meant
  to exclude, are given back on every path, and cannot deadlock; requests end;
  a clean shutdown changes no value and ends.
* *Pool*: an object is never handed out twice, and none is lost.
* *Store*: a file implements a map from keys to values; every ring can be walked
  to its end, also after a crash between two writes; files do not disturb each
  other.
* *Server*: no more than `clients_per_thread` clients per worker; every accepted
  client is served; a signal ends the process.
* *Protocol*: client and server agree on how many bytes belong to what, and no
  answer belongs to another request.

`PROJECT.json` lists the components, and under `hazards` each of these dangers at
the line where it bites, with the properties that cover it.

## 2. Plan

The order is that of importance to a client of the server.

1. **The cache** (done; section 3). `LinkedLists`, `MemoryPool`, `KVRequests`, the
   abstract `KVMap`, and `KVCache` with its properties, runs and proofs.
2. **The store** (done; section 3). `KVStore`: several files with their locks and
   bits, each an array of entries, written seek by seek, with failing opens and the
   death of the process between two writes; `KVStoreViews`: that it implements
   `KVMap`, and the shape of its rings. This justifies the one-step `db` of
   `KVCache`, within the limits section 4 names.
3. **The service** (done; section 3). `Sockets`, `KVServer`, `KVClients`: main thread,
   workers, the handler of SIGINT and the clients, joined by connections, and composed
   in `KVService` with what they owe each other. One composition takes the place of the
   two modules first planned (dispatch and protocol): which worker has a connection,
   whose bytes its message holds and who is answered belong together.
4. **Proofs** (section 6): the locks of the cache, for any calls; its lists, nodes and
   keys, the order of its queues, the shutdown and the refinement of `KVMap`, for calls
   that do not overlap; the locks, types, right links and rings of the files, and that the
   files are one map; the
   round-robin counters, taken apart in `RoundRobin`; of the service, every invariant its runs check and the action property
   about answers.

Left for later: reads that return part of a piece.

The abstract specification is `KVMap`, for the cache and for the files. Runs stay at two
workers or clients, two or three keys and two or three nodes. No single run meets every
case of the code: section 4 says for each which cases it has and which it leaves to others.

## 3. The modules

| module | what it is |
|---|---|
| `LinkedLists` | the doubly linked lists of `KVCache.hpp` (598-672), pointer by pointer; `ProperList` says what they are meant to be |
| `MemoryPool` | `MyMemoryPool.hpp`: free vector and blocks, `acquire_instance`, `allocate_one_block` |
| `KVRequests` | requests, answers, and what a request means on a map |
| `KVMap` | the abstract specification: one map, requests take effect at one instant |
| `KVCache` | the cache under any number of worker threads and the cleaning thread |
| `KVCacheLocks` | what the locks guarantee: `TypeOK`, `MutualExclusion`, `LocksMatchPlaces`, `NoLockDeadlock`, `OnlyLocksBlock`, `NeverMarkedOut`, `UpdatesOwnEntry`, `HeadsGuarded`, and the inductive invariant `LockInv` |
| `KVCacheViews` | what the state means: `Visible`, the refinement `ImplementsMap`, `ListsProper`, `NodesAccounted`, `OneNodePerKey`, `CleaningKeepsSingles`, shutdown and liveness |
| `KVCacheLRU` | with a history of use: `InOrderOfUse` |
| `KVCacheLin` | with a history of possible worlds: `Linearizable`, `LinearizableUntilLate` |
| `KVStore` | the database files under any number of threads, write by write |
| `KVStoreViews` | what the files mean: `TypeOK`, `LocksMatchCalls`, `FilesGuarded`, the map `settled`, `StoreIsMap`, `RingsWhole`, `KeysAreLinked`, `LockGivenBack` |
| `RoundRobin` | one of the cache's two lock-free counters, increment, load and compare-and-swap apart |
| `AtomicCounter` | its abstract specification: the four lines with a mutex in its comment |
| `Sockets` | the connections, as either side can tell them: what is written and not read yet, ends, resets |
| `KVServer` | `KVServer.cpp`: main thread, workers, handler of SIGINT |
| `KVClients` | `KVClientLibrary.hpp` and `auto_testing` of `KVClient.cpp` |
| `KVService` | server and clients composed, their fairness, and the properties of the whole |
| `LinkedListsProofs` | what the list operations do to links in any shape, to lists given by sequences, and to `Walk` and `ProperList` |
| `KVCacheProofs` | of any calls: types, locks, nodes that are reused |
| `KVCacheListProofs` | of calls that do not overlap: lists, nodes, keys, null pointers |
| `KVCacheMapProofs` | of these calls: the shutdown, that the cache implements `KVMap`, and the order of its queues |
| `RoundRobinProofs`, `KVStoreProofs`, `KVServiceProofs`, `KVProtocolProofs` | the proofs of the counters, the files and the service |
| `MCCache*`, `MCStore*`, `MCService` | instances for TLC |

### How `KVCache` corresponds to the code

A thread's place in the code is `pc[t]`; an action takes it from one place to the
next. A step ends where another thread can make a difference: before a lock that
has to be waited for, at an atomic counter, or at a read of shared memory without
a lock.

| code | actions |
|---|---|
| `worker_thread` calls the cache | `Begin` |
| search of a bucket under `reader_lock` (169-182, 250-263, and the same in `cache_DELETE`) | `LockForSearch`, `WalkOn` |
| `cache_GET_ptr` 184-210 | `GetHit`, `GetTouch`, `GetMissFound`, `GetMissAbsent` |
| `cache_PUT` 264-313 | `PutHit`, `Relock`, `PutUpdate`, `PutMiss` |
| `cache_DELETE` 340-380 | `DeleteHitDeleted`, `DeleteHit`, `Relock`, `DeleteMark`, `DeleteMiss` |
| `cache_PUT_new_entry` 218-242 | `NewEntry`, `Acquire`, `Fill`, `LockForInsert`, `Insert` |
| `cache_eviction` 397-441 | `EvictBegin`, `ScanOn`, `ScanFound`, `ScanNothing`, `Peek`, `LockVictimBucket`, `UnlinkVictim`, `WriteBack` |
| `signal_callback_handler`, `cache_clean` 492 | `StartCleaning`, then the eviction actions by `Main`, ended by `ScanNothing` |
| a new process on the same files | `Restart` |

The bucket locks are `htReaders` and `htWriter`. An LRU queue's lock is only ever
taken exclusively; where the code takes it and releases it with nothing to wait
for in between, taking it, the work and the release are one step that waits until
the lock is free. Only the write-back keeps it across steps (`lruOwner`).

What is abstracted, and why that is safe:

* Keys and values are atoms; the hash is a constant function from keys to
  buckets. `entry_equals` compares hashes and key, which is comparing the key.
* `db` is one map and each call on the store is one step: every call runs under
  its file's lock, and a key belongs to one file. `StoreIsMap` shows that the calls
  of `KVStore` are such steps; that bits get lost (`store_bits`) and opens fail is
  left out of `KVCache`.
* The pool's operations run under its mutex, so each is one step; `is_full`,
  which does not take it, is a step of its own.
* The two round-robin counters are kept modulo the number of queues, and
  returning one and stepping it is one step. In the code that is an increment, a load
  and a loop of compare-and-swap (534-595): `RoundRobin` has these steps, and
  `WorksLikeTheMutex` proves that they come to the one step. The increment is the
  instant that counts; nothing else reads the counters.
* `set_all` is one step. The node it writes is not linked, but another thread may
  still hold a pointer to it: that one sees the node before or after, not half
  written. Two writes to one node at once, a data race, are covered only so far.
* The branches for a node marked `NOT_IN_CACHE` (272-288, 345-359, 369-372,
  419-424) are left out. `NeverMarkedOut` says that they cannot be taken; it is
  checked by TLC and proved.
* `TableLen` is `CACHE_TABLE_LEN` only in its role as bound of the victim scan;
  `Buckets` are the buckets.
* Memory that runs out (`MaxBlocks`) ends the process, as `new` does.
* Where a null pointer is followed the process ends (`Crash`).

### How `KVStore` corresponds to the code

A file is a sequence of entries, index 0 of the code being 1 here and
`MAX_UINT64` being 0. A step is a group of writes between two seeks: `std::fstream`
gathers what is written and passes it on at the next seek or at `close`, so these
groups are what a killed process may have left. Reading and the write that follows
it are one step, since the file's lock keeps others away.

| code | actions |
|---|---|
| lock, bit, `open` (66-90, 165-201, 324-336) | `ReadOpen`, `UpdateOpen`, `UpdateRefused`, `DeleteNoFile` |
| creation of a file (167-192) | `CreateBegin`, `SetBit` (load and store of the word apart), `Create`, `CreateRefused`, `Fill` (entry by entry) |
| first entry and loop, the same in the three functions | `Found`, `NotFound`, `WalkOn`; with a failed stream `WalkBlind`, `WalkAstray` |
| `read_from_db` | `ReadFound`, `ReadNone` |
| `write_to_db` 216-315 | `WriteFound`, `WriteFirst`, `WriteAppend`, `LinkBoth`, `LinkRight`, `LinkLeft`; with a failed stream `WriteNothing` |
| `delete_from_db` 348-463 | `DeleteNone`, `DeleteOnly`; `DeleteHead`, `RelinkThird`, `CopySecond`; `DeleteEntry`, `UnlinkRight`, `UnlinkLeft` |
| the process is killed, `init_kvstore` | `Crash` |

What is abstracted: hashes are the constant functions `FileOf` and `SlotOf`, an
entry with cleared hashes has the key `NoKey`, and its old key and value, which
nothing compares any more, are not kept. Nobody's hash is `MAX_UINT64` or 0.
`Files` are files whose bits share a word. The blank entries of a new file arrive
one at a time (the stream passes them on in blocks that do not end with an entry:
files cut off inside an entry are not distinguished). What the operating system
was given is not lost: a loss of power is not modelled. Links that were never read
(`RightUnread`) are arbitrary, and all that matters is whether they end the loop.

### How `Sockets`, `KVServer` and `KVClients` correspond to the code

`KVService` extends the three modules. `Sockets` is the state both sides share: the
backlog of `listen`, and for each connection what has been written and not been read,
up and down. The other variables belong to one side, and a step of one side leaves
those of the other alone.

| code | actions |
|---|---|
| `main_thread` 361-376 | `Accept` |
| round robin 378-393, 395-397: wrap `listIter`, lock, compare `client_fds_count`, hand over | `TryNext`, `Assign` |
| nobody has room, 398-417 | `Grow` |
| `epoll_wait` 159 and `mutex_serving_clients.lock()` 161 | `Wait`, `Enter` |
| the loop over the events 163-244, read by read | `DropEvents`, `ReadCode`, `Close`, `Refuse`, `ReadKey`, `ReadValue`, `Call` |
| unlock, taking over new clients 246-265 | `TakeOverAll`, `TakeOverFails` |
| SIGINT 425-453 | `Signal`, `HandlerLock`, `HandlerClean`, `HandlerExit` |
| `ClientServerConnection`, `GET`, `PUT`, `DELETE` | `Connect`, `Ask`, `SendKey`, `SendValue`, `ReadStatus`, `ReadText` |
| `auto_testing` 95-173 | the choice in `Ask`, `Passes` and `Return`, `Leave` |
| a client is killed; a connection is reset | `Die`, `Reset` |

What is abstracted, and why that is safe:

* What one `write` passes on is one piece, and a `read` of that length gets all of it.
  A `read` that gets a part of a piece is left out: the code does not ask how many
  bytes it got, and would lose its place in the stream for good. Pieces have at most
  256 bytes, and a `read` waits only until there is something.
* The calls on the cache are one step on one map, `dict`: `ImplementsMap` (one call at a
  time), `LinearizableUntilLate` (nothing is evicted and no GET fills late) and the runs
  that violate `Linearizable` say within which limits they are. The reply is part of that step, since
  nothing but the client sees it, except where a write may end the process.
* Where `epoll_wait` times out, the lock, the empty loop and the unlock change nothing
  and are one step with the taking over. Each section of `mutex_new_client_fds`
  is one step, which waits while a thread that ended holds that mutex (`newLocked`).
* `epoll_wait` reports `Limit` ready connections of the set `watched` at most, in any
  order (`Report`). The kernel's ready list rotates; what the properties need of that is
  that a connection that was ready and left out (`due`) is reported before those that
  became ready later, so that none is left out for ever. A connection that has been reset
  stays ready.
* `epoll_create1` at 141 is tested for a result below -1, which it never has. If it
  failed, the first `epoll_ctl` would fail, as in `TakeOverFails`.
* POSIX lets a signal interrupt any thread (`SignalTargets`); Linux takes the main
  thread as long as that does not block it.
* A file descriptor is the client it belongs to; that the number is used again after
  `close` is left out.
* A worker that has not been started is at the place `"unborn"`. `Workers` is as many as
  the clients can make the pool grow to.
* `Frail` are the clients that may be killed, and whose connections may be reset; the
  others end after a whole request. `start_sending_requests` (25-70) differs from
  `auto_testing` in that it compares nothing.
* `Nulled` is what `fix_key_nulling` does to a key; two keys that differ behind the first
  zero are two keys, since the server compares 256 bytes.

## 4. The runs

All constants are given in the `.cfg` files; the sets of requests and the hash are
operators of the `MC` modules. Bounds: number of workers, keys, values, nodes
(`BlockSize`, `MaxBlocks`), buckets, queues, and what the files hold when the first server
starts (`InitialDbs`): nothing, except in `cache_shared` and `cache_late`, where the one key
may be there. In `cache_seq` and `cache_locks` the files are filled by evictions, and in
`cache_seq` and `cache_shared` by shutdowns and restarts. Nothing else is bounded in the
cache: a passing run explores all reachable states, of servers that never stop being used.

| run | instance | what it shows |
|---|---|---|
| `cache_seq` | 1 worker, 3 keys (two of them in one bucket), 2 values for one key, 2 nodes, 1 queue, shutdowns and restarts | With one caller at a time the cache, eviction and files implement `KVMap`; the lists stay proper; every node is accounted for; one node per key; LRU order; an eviction finds a victim; `cache_clean` changes no value; every request is answered and `cache_clean` ends. With three keys and two nodes every kind of hit and miss meets every kind of victim (clean, dirty, deleted). |
| `cache_shared` | 2 workers on 1 key that the file may hold, each with a value of its own; 2 nodes, never full; shutdowns and restarts | Searches, relocks and inserts interleave, a GET finds the key in the file, a DELETE removes it there, and two misses may leave two nodes for it (so `OneNodePerKey` is not asked here). Until a GET fills the cache late the answers are linearizable, also with two nodes; the lists stay proper and every node is accounted for; a shutdown changes the value only of a key with two nodes. A process that finds nothing in the file never fills late. |
| `cache_late` | the instance of `cache_shared` | **violated** `Linearizable` |
| `cache_locks` | 2 workers with keys of their own (the second also looks for an absent key in the first's bucket), 2 buckets, 2 queues, 1 node and memory for 2 | Lock discipline, deadlock freedom, the unlocked reads, through crashes and restarts, with a cache that always evicts and a pool that grows. |
| `cache_disjoint` | 2 workers with keys of their own, 3 keys, 2 nodes | **violated** `Linearizable` |
| `cache_reuse` | the workers of `cache_locks`, 1 node | **violated** `UpdatesOwnEntry` |
| `cache_null` | 2 workers, 1 key, 1 node | **violated** `NeverCrashes` |
| `store` | 1 file, 1 slot, 3 keys in it, 2 values for one; one thread makes every call, one reads; up to 4 entries, 1 crash, opens may fail | The file is a map; crashes outside a DELETE or a creation lose nothing that was finished; rings stay whole; walks end. Rings of one, two and three entries, deletion at every place, growth behind cleared entries, and every crash point occur. |
| `store_bits` | 2 files, 2 threads, no crash, no failing open | **violated** `StoreIsMap` |
| `service` | 2 clients with keys of their own, 2 requests each out of PUT, GET and DELETE; one worker for both; one client may die and be reset; `epoll_ctl` may fail; SIGINT on the main thread or the worker | Whole requests are applied once, as meant, and answered once and rightly, though one message object serves both clients; both ends stay in step; no connection is lost; a shutdown on the main thread is quiet. |
| `service_live` | 2 clients that GET, at most one or two times, 1 client per worker, a pool that grows by one; one client may die and be reset; `epoll_ctl` may fail; SIGINT on the main thread | Every connection is taken over and every request answered, through growth of the pool and with more connections on a worker than `epoll_wait` reports at once; a shutdown ends. |
| `service_growth` | 3 silent clients, 1 per worker, a pool that grows by two | **violated** `TakenOver` |

Why two workers are enough for what is found and what is claimed: every lock and
every pointer of the code involves a thread and at most one other that acts in its
gap; what holds of the locks for two threads is proved for any number (section 6).

In `KVStore` three things are bounded: `MaxEntries` (no PUT into a file that long;
cleared entries are never used again, so files would grow for ever), `MaxCrashes`,
and `TableLen`, which only matters as the place where appended entries begin.

In `KVService` the clients are bounded: `MaxRequests` requests each. Two clients are what
the hazards need: one whose bytes are left in the message, and one who is served next; one
who fills a worker, and one who makes the pool grow. The third of `service_growth` is the
one that meets the worker that was not started. `CHECK_DEADLOCK` is off in the three
runs, since the process ends and clients stop asking.

The properties in a few words:

* `ImplementsMap`: `Visible(k)` is the value of the first node of the bucket that
  holds `k`, or of a victim on its way to the file, or of the file. Seen so, every
  step is a step of `KVMap` or changes nothing a client can see: evictions,
  shutdown and restart included.
* `Linearizable`: `worlds` collects every map and set of served requests that
  agrees with all the answers so far. It is empty when no order explains them.
  `LinearizableUntilLate` claims it until a GET that read the file inserts a value the file
  no longer has, or one for a key that has got a node meanwhile (`LateFill`).
* `CleaningKeepsSingles`: `cache_clean` evicts in the order of the LRU queues, while a
  search goes by the bucket. Of two nodes of one key the search finds the first, and the
  other, an older value, may be written last. The property says that, while nothing had to
  be evicted, this is the only way in which a shutdown loses a value, however calls
  overlapped before it.
* `InOrderOfUse`: `recency` holds the pairs of keys of which the first was used after
  the second; each LRU queue lists its keys in that order, also in the middle of a call. A
  DELETE that answers "not found" uses no entry.
* `NoLockDeadlock` and `OnlyLocksBlock` belong together: the first says that some
  busy thread waits for no lock, the second that a thread that waits for no lock
  can go on.

* `StoreIsMap`: `settled` is what the files held when the last writer of each let
  go. Calls are steps of `KVMap` on it; a crash cuts calls off, each of which has
  taken effect or has not (`Recovered`). Two flags limit the claim. `torn`: the
  process died inside a DELETE of a ring with several entries, or while a file was
  created. `refused`: an open failed, and the call answered as if the key were
  absent or written.
* `RingsWhole` needs no such limit on opens, `KeysAreLinked` none at all. The latter is
  about the right link alone, which is the one every walk follows: after several deaths
  inside a DELETE the stream may fail before a left link is written.
* `LocksMatchCalls` and `FilesGuarded` say what the atomic steps of the store rest on:
  who is between open and return holds the lock, in the right mode, and a file only
  changes in the hands of one call while nobody reads it.

* `AppliesWhatWasSent` and `AnswersExpected` belong together: the first compares every
  effect and every answer with the request of the client that waits, the second
  compares what the library hands out with what the client has done so far. Both are
  claimed while the server has read whole requests only (`Whole`).
* `InStep` says it of the streams: nothing left over between requests.
* `ConnectionsAccounted` relates the variables of the main thread to those of the
  workers: a connection has one home, and `client_fds_count` is right whenever the main
  thread may look at it.
* `TakenOver` and `Answered` name what frees the server from its promise (`Failing`,
  a reset).

Why `Whole` is needed: a client that is killed behind the code of its PUT leaves the
worker with that code and the key and value of the request before, which may be another
client's: it is served again, and the PUT of an earlier value undoes a later one. A
reset has the same effect with all three. Why `Answered` excludes resets: the worker does
not close a connection with an error but leaves the loop at it (168), in every wakeup
from then on, and clients behind it in the list of events wait on. What ends with the
server is left open too: a read of the library that gets nothing keeps the status of
the request before, so a PUT the server never saw is reported as a success.

Why `torn` is needed: without it TLC finds a DELETE that cleared an entry and died
before it unlinked it. The next walk follows the link to the cleared entry, seeks
index `MAX_UINT64`, has a failed stream, and turns for ever with the file's lock
held. A left link of the slot that is stale after a crash between `LinkRight` and
`LinkLeft` does no harm: only the test for a single entry and the insertion
behind a single entry read it, and `RingsWhole` with `StoreIsMap` show that neither is
misled.

### What the violations show

1. `cache_disjoint`. Eviction reads the tail of a queue to find its bucket (414),
   then locks (415-416), then reads the tail again (418). A GET in between moves
   the tail to the front. The new tail is unlinked from the bucket of the old one:
   when it was the first of its own bucket, that bucket's head still leads to it
   while the named bucket's head is changed to its successor. A key of another
   client is lost from the cache before it was written. The client library's test
   driver expects right answers "if all clients are making request for different
   keys" (`KVClient.cpp` 126-128).
2. `cache_reuse`. The comment at `KVCache.hpp` 273-276 describes the node that is
   evicted and reused between two locks, and the test above it means to notice. No
   evicted node is marked, so the value goes to another key's entry.
3. `cache_null`. `is_full` means "no free node", not "something to evict". With the
   node in another worker's hands the queues are empty and `set_all` follows the
   null pointer of `cache_eviction`.
4. `cache_late`. A GET that misses in the cache reads the file (204), gives its bucket
   back (206), and inserts what it read at the head of the bucket (239), marked `DIRTY`,
   without another look. A DELETE that removes the key from the file (380) or a PUT that
   inserts a newer value may have answered in between: the old value comes back, and the
   next eviction or shutdown writes it to the file again. Nothing has to be evicted for it.
   `LinearizableUntilLate` says that while nothing is evicted no other order of steps
   makes the answers wrong.
5. `store_bits`. `file_exists_status` is one bitset for all files, changed under the
   lock of one file. Two creations at once lose one of the two bits: GET answers
   that a key just written is absent, and the next PUT truncates the file. `FilesAreAMap`
   (section 6) shows that nothing else comes between two files.
6. `service_growth`. When all workers are full `thread_pool_growth` workers join the
   list, of which only the first is started (410). The others have no clients, so the
   round robin finds room with them first, and what it hands them nobody serves. In
   the run: `c1` fills worker 1, `c2` makes workers 2 and 3 and fills 2, `c3` goes to
   worker 3.

Three departures have no run of their own, since no property claims the contrary:

* `is_full` (222) and `acquire_instance` (225) are two steps. Two misses that both see the
  last free node make the pool grow by a block of `cache_size` nodes, which it keeps.
* `cache_PUT` locks the LRU queue its node is in (270) and looks the queue up again to move
  the node (300); `cache_DELETE` does the same (365, 374). After the reuse `cache_reuse`
  shows, it relinks a queue whose lock another thread may hold.
* The main thread compares `clients_per_thread` with the clients a worker has taken over
  (383). Those handed to it since are not counted, so a burst of connections can land on
  one worker. They are served: `service_live` has such a worker.

## 5. Fairness

`Fairness` is weak fairness of every thread's `Step`: the operating system runs a
thread that can run. It is assumed for `EveryRequestAnswered` and `CleaningEnds`,
which are checked with one worker. There no step of another thread can take a lock
away again and again, so weak fairness is enough. With several workers a writer
that waits for a bucket could be passed by readers for ever unless the
reader-writer lock prevents it, which the standard does not promise; no liveness
is claimed there. In `KVService` every thread has weak fairness, and so has a client in
the middle of a request (`Talk`): the library goes on from one write or read to the next
by itself. Clients need not begin a request, close their connection or die, and the signal
need not come. The handler's lock on `mutex_serving_clients` has strong fairness: a worker
that is busy takes the mutex again and again, but waits in `epoll_wait` in between, so
that the handler gets its turn. `LockGivenBack` of the store is claimed with two threads, because it
starts when the lock is held. No fairness is assumed of clients (`Begin`), of the signal
(`StartCleaning`) or of a restart.

## 6. The proofs

`tlapm` checks, for every number of workers, keys, values, nodes, buckets and LRU
queues, and from `CacheAssumption`, `BlockAssumption` and `ValueAssumption` alone
(the null pointer is no node and no thread, there is a queue, the scan bound is at
least the number of queues, the hash maps keys to buckets, blocks are not empty):

| theorem | says |
|---|---|
| `LockInvariant` | `Spec => []LockInv` |
| `TypeCorrect` | `Spec => []TypeOK` |
| `LocksAreHeldWhereUsed` | `Spec => []LocksMatchPlaces` |
| `SectionsExclude` | `Spec => []MutualExclusion` |
| `DeadlockFree` | `Spec => []NoLockDeadlock` |
| `BucketsAreGuarded` | `Spec => HeadsGuarded` |
| `EvictionGoesUnnoticed` | `Spec => []NeverMarkedOut` |

as long as calls do not overlap (`OneAtATime`: no two workers are inside a call), from the
same assumptions and for the same numbers:

| theorem | says |
|---|---|
| `MapInvariant` | `Spec /\ []OneAtATime => []MapInv` |
| `ListsStayProper` | `Spec /\ []OneAtATime => []ListsProper` |
| `EveryNodeHasOnePlace` | `Spec /\ []OneAtATime => []NodesAccounted` |
| `KeysStayUnique` | `Spec /\ []OneAtATime => []OneNodePerKey` |
| `NoNullPointer` | `Spec /\ []OneAtATime => []NeverCrashes` |
| `CleaningKeeps` | `Spec /\ []OneAtATime => CleaningKeepsValues` |
| `WorksLikeAMap` | `Spec /\ []OneAtATime => ImplementsMap`, that is, cache, eviction and files implement `KVMap` |
| `OneWorkerIsAMap` | if there is one worker, `Spec` alone implies each of the six properties |
| `QueuesAreInOrderOfUse` | `LRUSpec /\ []OneAtATime => []InOrderOfUse` |
| `OneWorkerKeepsOrder` | if there is one worker, `LRUSpec` alone implies `[]InOrderOfUse` |

for any number of threads, files, keys and slots, from `StoreAssumption`:

| theorem | says |
|---|---|
| `FilesAreLocked` | `Spec => []LocksMatchCalls` |
| `FilesChangeUnderLock` | `Spec => FilesGuarded` |
| `StoreTypes` | `Spec => []TypeOK` |
| `KeysHaveLinks` | `Spec => []KeysAreLinked` |
| `RingsStayWhole` | `Spec => []RingsWhole` |
| `FilesAreAMap` | `HistorySpec /\ []SetsApart => StoreIsMap` |
| `OneFileIsAMap` | if there is one file, `HistorySpec => StoreIsMap` |
| `OneThreadIsAMap` | if there is one thread, `HistorySpec => StoreIsMap` |

where `SetsApart` says that no two threads are inside `set()` of `file_exists_status` at
once, between its read and its write of the word. The code does not see to that when they
create different files (finding `store_bits`); with one file its lock does, and with one
thread there is nothing to see to.

for any number of threads and queues, from `CounterAssumption`, a hypothesis of the
theorems (there is a queue, and queues and threads together are no more than 2^64):

| theorem | says |
|---|---|
| `CounterNeverWraps` | `Spec => []NeverWraps` |
| `WorksLikeTheMutex` | `Spec => HandsOutInTurn`, that is, `RoundRobin` implements `AtomicCounter` |

and, for any number of clients, initial workers, growth and limit, any requests, and
whatever `epoll_ctl` fails and whichever thread a signal interrupts, from
`ServerAssumption` and `ClientAssumption`:

| theorem | says |
|---|---|
| `ShutdownIsQuiet` | `Spec => []QuietShutdown` |
| `EveryConnectionHasAHome` | `Spec => []ConnectionsAccounted` |
| `ServiceTypes` | `Spec => []TypeOK` |
| `StreamsInStep` | `Spec => []InStep` |
| `RequestsAreApplied` | `Spec => AppliesWhatWasSent` |
| `AnswersAreExpected` | `KeysOfTheirOwn` implies `Spec => []AnswersExpected` |

`KeysOfTheirOwn` is a condition on the files of requests, the one `auto_testing` needs: no
client changes a key another one uses. `MCService` assumes it, so TLC sees that its
instances meet it.

*The lock argument.* None of the properties is inductive alone. `LockInv` is the
conjunction of `TypeOK`; `PointersHeld` (where the code follows a pointer without a
test, there is one: without it a step could leave the types); `LocksMatchPlaces`
(the owners of a lock are the threads at a place that holds it: it ties the lock
variables to `pc`, so that the exclusion of locks becomes an exclusion of places);
`NoReaderBesideWriter`; and `MainWaits` (the cleaning thread is idle until the
signal: otherwise it could be at a place when `StartCleaning` moves it). Each part
has a lemma that every step keeps it, with one case per action. `MutualExclusion`
follows, because two different threads cannot both own a lock. `NoLockDeadlock`
follows by descending the order of the locks: a thread at the write-back waits for
nothing, so if all wait no queue is owned; then nobody waits for a queue; so nobody
is inside a bucket; so nobody waits for a bucket.

*The reuse argument.* `NeverMarkedOut` speaks of tails and of nodes a thread
searches with. A tail may become any predecessor, and a search follows any link,
so the invariant `ReuseInv` has to say it of every link of both families of lists
(`LinksInUse`) and of the nodes that are about to be linked (`HandsInUse`). It rests
on lemmas about `LinkedLists`: no list operation makes a pointer lead to a place no
pointer led to before, except to the node it inserts, *whatever shape the lists are
in and whatever list it is applied to*. That matters, because with several threads
the lists do not keep their shape.

*Why `OneAtATime`.* Without it these properties are false; the runs show the reasons: two
misses on one key leave two nodes (so that `CleaningKeepsValues` fails in the instance of
`cache_shared`), a worker finds the queues empty because the only node is in another's
hands (`cache_null`), a GET brings back a deleted value (`cache_late`), and an eviction
unlinks a node from the wrong bucket, after which `ListsProper` and `NodesAccounted` fail
too (`cache_disjoint`).
The condition is one on the clients: with one worker it always holds, and with several it
holds when no request is sent before the answer to the last one, whoever asked. Eviction,
shutdown, restart and any sequence of calls by any of the workers remain. The pool does not
grow then: that takes two callers at its last node. These theorems are one argument about
the data of a call, where `LockInv` is one about the interleaving of calls.

*The argument of the lists.* `MapInv` gives the lists by sequences of nodes, `bt` for the
buckets and `qu` for the queues (`Shape`): each list's links lead along its sequence, both
ways, and the sequences of a family share no node (`InOrder` in `LinkedListsProofs`). What
inserting, moving to the front and unlinking do to the links is then an insertion into a
sequence or a removal from one, proved once for both families. On top of it `Shelved` says
what is in a linked node: it hangs in the bucket of its key and in the queue it remembers,
and no second node holds its key. `Pooled` says where the nodes are that are not linked. The
third part, `AtWork`, goes through the places of a call and says what the code relies on
there: that a search has passed no node with its key; that after a hit the node is still the one
found; that a miss has no node with its key anywhere, and for a GET holds the value of the
file; that the scan has seen only empty queues so far; that the victim's bucket, computed
from its key before the lock, is still the one it is in. Each of these is what another
thread could spoil in the gap the code leaves, and what `OneAtATime` protects.

`ListsProper`, `NodesAccounted` and `OneNodePerKey` speak of what a walk of `NodeCount` steps
meets (`Members`), not of sequences. `WalkInOrder` shows by induction over the natural
numbers that the walk follows the sequence, and an injection into `Node` that a list has no
more nodes than there are. `NodesAccounted` compares cardinalities: the nodes of the
blocks are split into linked, free and held ones. `NeverCrashes` needs two facts. The
free vector is empty when a worker asks for an eviction and all it can hold is a node it has
linked since; so some queue is not empty. And the scan, which takes
`CACHE_TABLE_LEN` values of a counter modulo the number of queues, meets every queue
(`RoundMeetsAll`): that is where `TableLen >= NumQueues` is needed.

*The argument of the refinement.* `Visible` looks at the first match of a walk. `Shows(k, x)`
says the same without a walk: every linked node of `k`, every victim that holds `k`, and,
if there is none, the file, has the value `x`. With `MapInv` there is exactly one such `x`,
`Visible(k)` (`VisibleShows`, `ShownOnce`). A call takes effect on `KVMap` at its
last step (`Returning`); the proof has one case per such step, which compares its answer
and what it leaves to show with `Outcome` and `Effect`. `Begin` is `KVMap`'s `Send`. All
other steps are stutters: in particular `UnlinkVictim` takes the value from the list to the
hands of the evicting thread, `WriteBack` from there to the file, and the last step of
`cache_clean` leaves nothing linked (`ScanEndsEmpty`), so that a restart finds in the files
all there was. `CleaningKeeps` is the part of this about the cleaning thread.

*The argument of the order of use.* `UseInv` says of whatever sequences of nodes the
queues are given by that they are sorted by `recency`; since there is only one such family
(`OrderIsUnique`), a step may be followed with the sequences it makes out of the old ones.
A call changes a queue and uses its key at the same step, its last: moving or inserting a
node at the head is sorted because its key is now used after all others, and because no
second node holds that key (`OneNodePerKey`). Unlinking leaves a sorted sequence sorted.
Every other step changes neither the queues nor the keys in them nor `recency`, or empties
the queues.

*The argument of the file locks.* `LocksMatchCalls` is inductive with the few types it
needs (`StoreShape`). The steps of three functions do only six things to a call and its
lock: go on, begin or end without a lock, take it shared, take it exclusively, give it
back, or nothing. A lemma for each shows that it keeps the invariant; the rest of the proof
sorts every action under one of them. One case needs more: `Fill` comes to the place where
a reader would stand, so the invariant says that only a PUT creates files.
`FilesChangeUnderLock` adds that a step changes its own call's file at most, and only in a
place that holds the lock exclusively.

*The argument of the files' contents.* `StoreTypes` has to say of every local variable
of a call which index it may hold: one inside the file, or `MAX_UINT64`, with which the
next seek fails and the write behind it does nothing (`ThenWrite`). `KeysHaveLinks` goes by
the writes: each of them puts down an entry that is blank or has a right link. It needs
the types, and that the entry a PUT or DELETE copies is one it has read from the ring
under the lock, that is, `FilesAreLocked`.

*The argument of the rings.* A ring is given by the sequence of its entries, from the slot
on (`IsRing`). The left link of the slot is left out but for a ring of one: with more
entries nothing depends on it, and a death before the last write of a PUT leaves it old.
`Whole` says that each slot is empty or has a ring. `RingInv` says that of every file no
call writes; of one that a call writes it says what that call takes it for (`Underway`),
place by place: that a walk has come to the next entry of the ring and passed no entry
with its key; that the new entry is at the end of the file, with a left link to the last
of the ring; and for a deletion, that the file had been `Whole` before its entry was
cleared, that `hold` is that entry, and how many of the writes that link its neighbours
have been made. So the state between two writes is described by the contents before the
first, and the last write is compared with those (`HeadOutWhole`, `EntryOutWhole`). A step
of another call leaves this alone, because it does not have the lock (`WritesOwnFile`). A
death of the process leaves `Whole` files where no call was at a place of `TearingPlaces`;
between the append and the links of a PUT the new entry is in no ring, and between the two
links only the left link of the slot is old. `RingsWhole` speaks of a walk of as many
steps as the file has entries (`Chain`): that it follows the sequence and is back in time
is an induction over the natural numbers, and a ring has no more entries than its file,
because its places are different entries (`RingIsShort`).

*The argument of the map of the files.* `StoreIsMap` compares answers with `settled`, which
changes when a writer lets its file go; the files change before. `MapTold` relates the two.
Of a file nobody writes, what the entries of its rings say is the map (`Shows`). Of one a
call writes, `Means` says that it shows the map still, or the map with the effect of
the call: a PUT takes effect with the first write after which the walk meets its value, the
right link to a new entry, the creation's last write or the new value in an old entry; for a
DELETE, what its remaining writes will make of the file (`Rest`) shows the effect. Each
write is compared with this (`Tells`), and the last returns what `KVMap` answers (a GET
reads the file under the shared lock, so what it answers is what the file showed all along).
The rings are what makes it work: an entry that is relinked is in one ring, so no key of
another slot is touched, and a ring has no key twice, so what the walk meets first is all
there is. The rest of the invariant says that a file that is there has its bit
(`BitsKept`), that one that is not has no contents (`FilesThere`), and that what a call
that reads walks is a whole ring (`ReadersWell`). A death of the process cuts the writers off; each file then shows the map
with or without their effect, which is `Recovered`. Only `BitsKept` needs `SetsApart`.

*The argument of the counters.* Whatever exchanges fail, a successful one leaves the
counter below the number of queues, and until then each caller has raised it once. So the
counter is below the number of queues plus that of callers between increment and return
(`Low`), and never wraps. Taken modulo the number of queues it steps on with each increment
and stays with each exchange, also when the value it finds is one that has come back: that
is the refinement. The proof covers these two modules for all constants; no run repeats it
on small ones.

*The shutdown argument.* `QuietShutdown` speaks of the handler and of places of
workers; what relates them is the mutex of each worker. `Quiet` says that a worker is
inside the loop over its events exactly when the mutex is its own, that the handler holds
the mutexes of the first `cleaned` workers of the list, that workers behind the list
have not been started, and that once it cleans, with the main thread underneath it, the
list is as long as it found it. A growing pool is the interesting case: a worker could be
started behind the handler's back, and the last part rules that out for the main
thread. On a worker's thread it is not so, and `QuietShutdown` does not claim it.

*The argument of the connections.* `Accounts` says where a connection can be. It is in
the backlog, in the main thread's hand, handed to one worker or in one worker's epoll set,
and in one of these only (`OneHome`), for as long as the server has not closed it
(`Somewhere`). What `epoll_wait` has reported is of connections in the worker's own set,
each once (`EventsWatched`); therefore `close` for one event takes away a connection no
later event is about, and no event is served for a connection that is gone. The bound on
the pool (`PoolBound`) counts the connections that have been handed over: it grows at most
once for each but the first. That part is what keeps the new worker's number in `Workers`,
and shows that the model's set of threads cuts nothing off.

*The argument of the protocol.* `InStep` and `AppliesWhatWasSent` are about the two ends of
a connection, the piece between them and the one `KVMessage` of a worker, which serves
one client after another. The invariant (`Protocol`) says of every client that it is
`Exact` or `Lost`. `Exact` goes through the places of the client. At each it says what has
been sent and not read yet; whether a worker serves the client and at which place; what of
the request that worker's message already holds; and what of the answer is to come. The
fields that are not read yet may hold anything, such as the last client's key, and
`Exact` says nothing of them: that is the reuse of the message. `OneServes`, which rests on
`OneHome`, makes sure that a second worker does not read from the same stream. A client that
has left in the middle, or whose connection is reset, is `Lost` when a read has come back
empty: its worker goes on with a stale message, but nothing of it is ever read again and
nothing is written to it. With `Whole` nobody is lost, and each call of a worker is what a
waiting client means (`CallIsMeant`). `AnswersExpected` adds `Agreed`: what a client knows of
its keys is what the map holds, up to the request on its way.

Only model-checked:

* `LinearizableUntilLate`, which compares the cache with every order of the calls so far,
  and what `cache_shared` asks of the lists and nodes while calls overlap. Both are asked of
  a cache that is never full: with evictions and overlapping calls they are false.
* `StoreIsMap` where two threads create different files at once. It does not hold there
  (`store_bits`).
* `OnlyLocksBlock`, which uses `ENABLED`, and liveness: both are out of the prover's reach.

## 7. Variants with a mistake

`KVCache`, `MemoryPool`, `KVStore`, `KVServer` and `KVClients` define, next to the operators of the code, variants with
a plausible mistake in them (a guard object that is a temporary, a forgotten
relinking, an index one past the end). No action uses them. `PROJECT.json`
(`mutants`) pairs each property with one: put in place of the operator it is named
after, the property fails in its run.

## 8. Not modelled

* `cache_eviction_simple`, `is_not_full`, `is_empty`, the code after the `return` in
  `cache_clean`, `release_instance`, `acquire_instance_strict_limit`: nothing calls
  them.
* Reads that return part of a piece (section 2).
* Failures that end the server or a client before it has begun: no socket, no port, no
  host, no file of requests. A failing `accept` is tried again.
* `pool_manager` of a worker: nothing uses it.
* Configuration, logging, file names, test programs, request generators.
