# A verification of enso_eval's key-value store in TLA+

The repository holds the applications that evaluate Ensō, a streaming interface
to a NIC: the MICA2 key-value store, the Maglev load balancer, NitroSketch, a
log monitor, two packet-forwarding benchmarks and the scripts that run them.
Nearly all shared state, and nearly all code whose correctness depends on an
order of events, is in MICA2 (`mica2/src/mica`). This project models its
storage and the huge pages under it, its hash table, the hand-over of tables
between cores, the server's path from packet to packet and the client, checks
the models with TLC and proves with TLAPS, for every size of them, what matters most
about the log, the hash table over it, the lossless table's chains and pool, the queue, the ownership of
tables, the server's worker and the client.

Paths below are relative to `src/`; `mica/` stands for `mica2/src/mica/`.

## 1. Inventory

### The parts that are modelled

**CircularLog** (`mica/pool/circular_log{,_impl}.h`). State: `head_`, `tail_`,
the ring `data_`, a lock. `allocate` pushes at the tail and pops items at the
head until there is room; nobody is told of an eviction. Callers hold 48-bit
offsets; `is_valid` compares an offset with the tail. Hard: copies made without
the lock while the ring is overwritten; the wrap of the ring and the wrap of the
offset space. Correct when the live region is a sequence of whole items, never
longer than the ring, and an offset that `is_valid` accepts still names the
bytes it was given for.

**LTable** (`mica/table/ltable.h`, `mica/table/ltable_impl/`). State: buckets of
a version word and item vectors (tag, offset), optional extra buckets in chains
with one free list. Writers make the version odd while they work on a bucket;
readers take no lock and start again when the version has changed. Two
configurations are in use:
*lossy* (CircularLog below it, no extra buckets, stale item vectors swept by
`cleanup_bucket` before the offset space comes round, `get` may move an old item
to the head) and *lossless* (SegregatedFit below it, extra buckets). Correct
when a `get` returns a value the key had during the call, "not found" only when
the key was absent (or, in the lossy table, could have been evicted) during the
call, and the table's structure survives every sequence of calls.

**SegregatedFit** (`mica/pool/segregated_fit{,_impl}.h`). A boundary-tag
allocator with a free list per size class. Hard: coalescing on both sides, the
last class that takes every larger chunk, and which thread holds the lock when.
Correct when chunks tile the memory, free lists hold exactly the free chunks,
items never overlap and a request is refused only when no chunk fits.

**Queue** (`mica/util/queue.h`). A bounded ring with an optional lock at each
end. Correct when it is a FIFO with at most `Capacity - 1` items.

**Partitions** (`mica/processor/partitions.h`, `partitions_impl/`). State:
`owner_lcore_ids_`, per-core queues of pending ownership changes, load figures.
Every core serves requests for the tables it owns; a change of owner is sent to
the present owner's queue, which applies it between two batches. The directory
thread (`datagram_server_impl.h`, `directory_proc`) rebalances and waits. Correct
when, in the exclusive mode, no two threads work on one table at a time, only
its owner gives a table away, and the wait ends.

**DatagramClient** (`mica/datagram/datagram_client{,_impl}.h`). State, per
thread: a table of request descriptors (list links, a 16-bit epoch, the time of
expiry) in an active and an unused list, packets that wait to be sent, and for
each partition of the server the endpoint its requests go to; shared: the
partitions' owners, which a directory thread refreshes, and one flag per thread.
A response brings back its request's descriptor and epoch. Hard: late and
duplicated responses, time-outs that race with them, epochs that come round, the
refresh of the routes without a lock. Correct when a response completes only
the request it answers, every request is completed or timed out, none is sent
after it was reported as timed out, and requests follow their partition's owner.

**DatagramServer** (`mica/datagram/datagram_server{,_impl}.h`, with
`partitions_impl/process.h` and `mica/network/dpdk/`). State, per worker: the
burst of received packets, a ring of parsed requests with three 16-bit indices
(prepare, process, retire), the response packet being filled, per endpoint the
responses waiting to be sent; shared with the card: two rings of descriptors and
the pool of packet buffers. Hard: requests are parsed a pipeline's depth ahead
of the answers, across packets; a request packet's buffer is released with its
last request; responses leave when there are enough, when there are too many, or
by age; a full transmit ring drops what it cannot take. Correct when every
request of a valid packet gets its own response exactly once, in order, no
buffer is lost or used twice, `allocate` never fails with the pool the code
reserves, and every response leaves.

**HugeTLBFS_SHM** (`mica/alloc/hugetlbfs_shm.{h,cc}`). State: files in a
hugetlbfs, which outlive the process; pages sorted by physical address; entries
(lists of pages with a count of their mappings); mappings; one lock. A block is
made by `alloc`, `find_free_address`, one or more `map`s and `schedule_release`,
and every `map` may fail. Hard: left-over files, pages given back to the kernel
by the largest regions first, blocks of several mappings undone and tried again,
release that waits for the last mapping. Correct when pages and files
correspond, a page is in use exactly while an entry that lives lists it, a
block shows the pages it was given for as long as its owner holds it, and every call ends.

How they interact: DatagramServer's worker parses packets into a request batch
and calls `Partitions::process`; that calls LTable's operations on the table of
the request's partition; LTable calls its pool. The directory thread calls
`rebalance_load` and `wait_for_pending_owner_lcore_changes`; Partitions uses one
Queue per core. The tables' buckets, the pools and the log are blocks of
HugeTLBFS_SHM. All of it is shared memory; there are no messages between cores
but the queues'. Clients and server exchange UDP packets, and the owners reach
the clients through the directory (etcd).

### The parts that are not modelled (yet)

| Part | What it is | Why it is not here |
|---|---|---|
| The rest of DatagramServer | the Ensō build's RequestAccessor, statistics, registration | the Ensō library is not part of the repository; the rest prints or is I/O |
| The rest of the datagram protocol | byte layout of packets | accessors without state; packets are records of what client and server compare |
| The rest of the network back ends (`mica/network/`) | start-up of DPDK and of Ensō, steering rules | I/O |
| SimpleProcessor (`mica/processor/simple_processor.h`) | one table, requests in order | adds no state to LTable |
| DirectoryClient (`mica/directory/`) | HTTP requests to etcd | I/O; failures are printed |
| SQLite table, utilities, tests, benchmarks of MICA | | sequential helpers, drivers and a wrapper of a library |
| Maglev (`maglev/src/`) | table population at start, 4-entry cache of connections | a closed algorithm apart from the store; see the plan |
| NitroSketch (`nitrosketch/`) | randomised sketch, min-heap of heavy keys | the estimate is statistical; the heap is a textbook heap |
| Packet copy (`pktcopy/`) | ring allocator over a NIC pipe | sixty lines that rely on the order of the NIC's completions, which is in the Ensō library |
| Log monitor, DPDK echo | stateless packet functions | nothing to check |
| `experiment.py`, `paper_plots.py`, `set_constants.py`, set-up scripts | drive machines, plot results | no protocol |
| rapidjson, etcdcpp, SafeInt, pcg, cityhash, siphash, philox, rte_memcpy, xxhash, `tools/ddio-bench` | third-party | vendored |

About 37,000 of the implementation's 54,800 lines are the third-party code of the
last row, and most of the others print, parse options or set up devices; so the
share of lines that the definitions map stays small however completely the rest
is modelled.

The hazards of all parts, each with the line where it bites, are listed in
`PROJECT.json`.

## 2. The modules

| Module | Models | Composes |
|---|---|---|
| `CircularLog` | the pool with its writers and lock-free readers, one store per step | |
| `LTable` | the lossy table over the log | the log's operations, a push as one step |
| `LTableChains` | the lossless table with its chains and free list | an abstract pool |
| `SegregatedFit` | the lossless table's pool | |
| `Fifo` | what Queue promises | |
| `Queue` | the ring, one shared access per step | implements `Fifo` |
| `Partitions` | owners, pending changes, worker loops, directory thread | `Fifo`'s behaviour for its queues |
| `Server` | a worker of the server: receive, parse, process, retire, send, over the card's rings and the pool of buffers | the card and the clients as "a packet may arrive, a packet may leave" |
| `HugeTLBFS_SHM` | start-up, entries, mappings and the blocks built from them | the kernel as files, free huge pages and a page table |
| `DatagramClient` | a client thread, its directory thread and the network | the server as "a request may be answered" |
| `CircularLogProofs`, `LTableProofs`, `LTableChainsProofs`, `SegregatedFitProofs`, `QueueProofs`, `PartitionsProofs`, `ServerProofs`, `DatagramClientProofs` | the theorems on the module of that name | that module |
| `MC*` | instances for TLC | |

The names follow the code: variables carry the code's field names without the
trailing underscore, actions the names of the calls or of the stretch of code
between two points where other threads may get in. `PROJECT.json` maps each
definition to its lines.

### CircularLog

The unit is one 8-byte word. `head` and `tail` are the code's 64-bit counters,
offsets are reduced `% OffsetMod`. A writer goes through
`LockPool`, `Allocate` (with the pops in `PopHead`), `PushHeader`, `AdvanceTail`,
`WriteItem` word by word, `Publish`, `Unlock`; or through `CheckInPlace`, the overwriting of an
item that the log still holds. `Abandon` is `move_to_head`'s change of mind after
the allocation. A reader notes an offset some table could hold
(`BeginRead`), copies word by word, asks `is_valid`, ends.

What a caller of the log must do, and the model assumes, is in `Referable`: an
offset that may be looked up is less than half the offset space old. The table
secures it by `cleanup_bucket`, and LTable's run checks that it does
(`ValidSlotIsCurrent`). Likewise `AdvanceTail` does not go on while a reader
still holds a copy so old that the offset space would come round under it: a
reader would have to be stopped for 2^47 bytes of writes.

### LTable

One variable `pc` entry per thread, and one action for each stretch between
accesses other threads can observe: lock of the bucket, search, pool lock,
allocation (with the eviction it causes), copying word by word, publishing the item
vector, the sweep, unlock. A word that is read as something it is not gives an
arbitrary number (`SizesAt`, `LensAt`), because the bytes of a value are the
client's. `cur` is a ghost: the value last stored under each key, at the point
where the store takes effect.

`crew` is the set of threads that share the table; it is chosen in the initial
state from `Teams`, so that one run covers two mutators and each mutator with a
getter.

The log's push is a single step here (CircularLog takes it apart); a bucket
holds a few item vectors; values are a number and a length in words.

### LTableChains

Chains of extra buckets, `alloc_extra_bucket` and `free_extra_bucket` with the
free list's lock, `fill_hole`, and readers that may be anywhere in the chain when
it changes. Versions are only ever compared with an earlier reading of
themselves, so the model keeps the lock bit and, per reader, whether the version is still the one it
read. The pool gives out the smallest free offset: offsets are
interchangeable, and which one is reused first is not part of any property.
`setting`, chosen in the initial state, is who shares the table and how many offsets the
pool has.

### SegregatedFit

Memory is modelled word by word (tags at both ends of a chunk, list pointers
inside a free chunk), so that a lost pointer or a tag in the wrong place has the
effect it has in the code. `allocate` is taken apart into its steps because
`set.h:72` locks the pool for the circular log only; so is `release`, which holds the lock
from its first step to its last in mode 2.

### Queue and Fifo

Every shared load and store of `enqueue` and `dequeue` is a step, stores in
program order. `Fifo` is the bounded queue they implement; the refinement maps
the contents to the cells from `head` to `tail`.

### Partitions

Worker: receive a batch, accept or reject each request by owner and mode, visit
the table, then drain the pending queue and apply each change or pass it on.
Directory thread: `rebalance_load` over arbitrary loads, the changes sent one by
one, then the wait that polls each queue. A table visit is an interval (`table`)
so that two visits can be seen to overlap. The queues are the bounded FIFO that
`Queue` is shown to implement. `rebalance_load` reads `owner_lcore_ids_` once
per partition; loads are arbitrary numbers up to `MaxLoad`, and
`Packing` says of an assignment that the greedy loop over them may have chosen it.

### Server

One worker's loop, endpoint after endpoint: `Receive` takes a burst from the
card's ring; then `Partitions::process` drives the stages `Fetch` (which asks
`prepare` and so `parse_request_batch`: `PassOver` packets that are not request
batches or hold no requests, `Parse` the next that does), `Index`, `Answer` and
`Advance`, each on a request a few places behind the one before, as
`process.h:15-120` staggers them; `Retire` writes the response, starts a response packet when
there is none, releases the request's packet with its last request and hands a
full packet to the transmit buffer; `RetireLast` flushes. `CheckPending` is the
end of an iteration (`check_pending_tx_min`, `check_pending_tx_timeout`).
`Arrive` and `Transmit` are the card; a buffer is taken from the pool when a
packet arrives, an abstraction of the descriptors the driver fills beforehand.

The indices are counters reduced modulo the ring as in the code. `stage_gap_` is
the configured value (`kAutoStageGap` is off). `stopping_` is set only after
the workers have returned, so the clean-up behind the loop is never reached and
has no action. The requests are numbers in the order they are parsed,
which is what lets `RepliesRight` tell one answer from another.

### HugeTLBFS_SHM

Sizes and addresses are counted in pages. `Reuse`, `Create`, `Sort`, `Surplus` and
`Ready` are `initialize()`; `Crash` throws away everything but the files (and
those too with `clean_files_on_init`). After that each call under `state_lock_` is one action: `Alloc`,
`Map` and `MapFails`, the calls of `unmap` in `Undo` and `Free`, of
`schedule_release` in `GiveUp` and `Release`; `Find` is outside the lock. The
three kinds of block are the three loops in the code that build one:
`malloc_contiguous` (and the constructors of SegregatedFit and LTable, which are the
same), `malloc_striped`, and the constructor of CircularLog, which maps the
first page a second time behind the last (*mirrored*). `map()` opens a page's
file, so the model shows the frame behind the file, not the one the page is
thought to have. The mappings through which `initialize()` touched the pages stay for ever and are
not part of the address space modelled.

Not part of any property: `get_memuse`, which never goes down because
`check_release` multiplies by a count it has just set to zero
(`hugetlbfs_shm.cc:672`); the page of address space each `find_free_address` loses
(it unmaps `size` of the `size + kPageSize` it mapped);
`malloc_contiguous_any`, private and never called, whose test is the wrong way
round (`:902`): it would return the first failure and forget every success;
names of files that merely start like the prefix.

### DatagramClient

`append_request` is one action (allocation of the descriptor, the packet, the
burst); `handle_response` is taken apart into `HandleBegin` (the time is noted,
packets that are due are sent), `Receive` for each response of the bursts,
`ReceiveEnd`, `Expire` for each request that has timed out, `ExpireEnd`, and
`UpdateRemoteEid` for each endpoint that `update_remote_eid` looks at. Packets in flight are
a set: any of them may be received next, a step that takes a packet may leave a
copy, `Lose` drops one. `Tick` may fall inside a call; `due` keeps what had
expired at the time the call started from, as the code's `now` does. The expiry time is
kept as the ticks that remain.

`held` (the descriptors handed out) and a packet's `old` (the releases of its
descriptor since it was made) are ghosts. A packet is taken to live for less
than `EpochMod` uses of its descriptor: with 2^16 epochs, that is what the code
relies on. One local endpoint is enough, since `pending_tx` and the receive
loop of one endpoint do not touch another's; every owner has an endpoint on the server
(`datagram_client_impl.h:423` prints a message where not), but not all of them
can be reached from here. The directory thread may find any owners at any refresh.

Left out: the Ensō build, which returns before it allocates a descriptor when
no endpoint is found; discovery and probing; requests spread over all endpoints
(`append_request` asserts that there are none).

## 3. The runs

| Run | Question | Result |
|---|---|---|
| `log_shared` | Two writers and a lock-free reader over a ring of 4 words that wraps several times and whose offset space (8) wraps once: types, bound, tiling, validity, torn reads, and that every allocation ends | holds |
| `ltable_one` | One mutator, two keys that share a bucket, a second bucket to sweep, log of 6 words, offset space 24, tail to 30: structure of the table and of the log when the offset space comes round | holds |
| `ltable_shared` | Two mutators, and each of them with a getter, two buckets, moves to the head: what a `get` may return | holds |
| `ltable_overflow` | A value grows by one word in place | **violated**: finding |
| `chains` | Two mutators, and a mutator beside a getter, five keys over two buckets of one slot and two extra buckets: chains that grow, shrink and move while they are read | holds |
| `segfit_single` | One thread allocates and releases, chunks split and merge | holds |
| `segfit_shared` | Two threads, as LTable calls the pool in mode 2 | **violated**: finding |
| `queue_many` | Two producers and two consumers over a ring of three cells, both locks | holds, refines `Fifo` |
| `partitions_handoff` | Three workers, the directory thread, two NUMA domains, queues of one place, two rebalances, with and without concurrent read | holds |
| `datagram_client` | Two descriptors with two epochs, bursts of two, packets lost, duplicated, reordered and late, a directory thread that moves a partition between two lcores (one of them out of reach) | holds |
| `server_worker` | Two endpoints, bursts of two packets of 0, 1 or 5 requests and an invalid one, a ring of 8 parsed requests that is filled exactly and wraps, five buffers, transmit rings of one | holds |
| `shm_alloc` | Start-up over no files and over two of an earlier process, a crash at any point, then one thread that allocates and two that free blocks of all three kinds out of five pages on two nodes, `mmap` failing anywhere | holds |

The two findings are described in `PROJECT.json`:

* `set.h:79-83` compares the log's item size (which counts the log's header)
  with the new item's size (which does not), so a value that grows by no more
  than the header is written in place over the header of the next item. The
  passing LTable runs use lengths that differ by two words, so that everything
  else is checked.
* `set.h:72` takes the pool lock only for the circular log. In mode 2 two `set`s of
  different buckets allocate from SegregatedFit at once and can be given the
  same memory.

### Properties

* *Types*: one `TypeOK` per module; where it needs no mutant of its own it is a conjunct of
  the structural invariant (`TableSound`, `ChainsSound`, `PoolSound`, `CellsOwned`, `OwnersSound`).
* *Log*: `Bounded`, `Tiled`, `ValidIntact`, `ReadIntact`, `AllocateEnds`.
* *Table*: `OneSlotPerTag` (no key is twice in a bucket), `ValidSlotIsCurrent`
  (an item vector with a valid offset names an item with that tag, whose value is the
  key's present value: a stale offset never looks valid), `LogInBounds`, `TableSound` (all of
  the structure),
  `GetIsRight` (an action property over the answer of a `get`: the value was the
  key's during the call, and "not found" was true, or the item evicted).
* *Chains*: `ExtrasPartitioned` (each extra bucket is in one chain, in one
  thread's hand or free, and free ones are empty) and `ChainsPacked`, together
  `ChainsSound`; `ChainsHoldKeys`, and `GetIsRight`.
* *Pool*: `ChunksTile` (and no two free neighbours) and `FreeListsExact`, together `PoolSound`; `ItemsApart`,
  `RefusesOnlyIfFull`.
* *Queue*: `LoadsQueuedItem` and `StoresFreeCell`, together `CellsOwned`; `IsFifo`.
* *Partitions*: `SoleMutator` (in the exclusive mode nobody else is in a table
  that is being changed; with the types, `OwnersSound`), `OwnerGives` (only its owner's thread changes a
  table's owner), `StaysInDomain` (a table never leaves its NUMA domain),
  `WaitEnds`.
* *Client*: `DescriptorsListed` (two sound lists, the active one in the order of the
  time-outs), `OwnResponse` (a response that would be accepted answers the present request),
  `SentBeforeTimeout`, `RoutesSettled` (no change of owner is missed),
  `RequestEnds`.
* *Server*: `BuffersAccounted` (every buffer is in exactly one place: pool, card, burst,
  ring, response, transmit buffer, or lost with an invalid packet), `WindowIntact` (the ring
  holds the requests of the packets still held, in order: none is overwritten before it is retired),
  `RepliesRight` (responses carry the requests' own answers, in order, each once),
  `AllocSucceeds` (a response packet can always be had), `RepliesLeave` (every
  response reaches the card or is dropped by a full ring).
* *Pages*: `PagesSound` (pages and files agree after any crash; each node gives
  back what it is asked for, largest regions first), `PagesAccounted` (a page is
  in use while one living entry lists it, counts are the numbers of mappings),
  `BlocksBacked` (what the owner of a block sees through its addresses, and that
  nobody else sees it), `CallsEnd`.

Every property has a mutant in `PROJECT.json`: a change of one definition, of the kind a slip in
that code would be, that makes the property fail in the same run.

### Bounds

`MaxTail`, `MaxVersion`, `MaxRounds`, `MaxBatch`, `MaxLoad` and the log sizes
are the only bounds.

* The log's ring is as small as two items; `MaxTail` lets the tail run about
  twice round it and, in `log_shared` and `ltable_one`, once round the offset
  space: both wraps are where the arithmetic could go wrong. `OffsetMod` keeps the code's
  proportions (at least twice the ring for the log, four times for the table).
* `MaxVersion` stops a thread's writes after enough changes of a bucket for one
  reader to be overtaken repeatedly. Versions move by two, and do not wrap.
* Two keys of different tags in a bucket and one in each of two buckets cover
  the sharing of a bucket and of the log. Two keys of one tag are the table's
  lossy case by design.
* `ltable_shared` uses one length: with two, `move_to_head` may copy a length
  that an in-place `set` has changed since (see below).
* Chains: up to two extra buckets for one main bucket, and a second main bucket that
  competes for them.
* Queues: capacity 3 in `Queue` (two items, so full and empty and every position
  of the wrap occur); one place in `Partitions`, so that full queues occur.
* Server: two endpoints so that one's packets meet the other's in the shared
  response buffers; batches of 0, 1 and 5 requests so that a batch ends anywhere in
  the pipeline, two packets fill the ring and a third wraps it; five buffers
  are just enough for three packets, their responses and the two that a burst holds.
  The comment at `datagram_server.h:55-58` asks the ring to hold the larger of two
  numbers; what is needed is their sum, and the default of 128 suffices for both.
* Pages: six frames of two nodes in runs of one and two; one page of node 0 is
  surplus, which leaves two, enough for one of the two kinds of block that need
  them; at most two blocks beside the one being made; one crash, whose successor is followed through
  its start-up only, since files are all it finds. The kernel hands out frames,
  directory entries and addresses in order (or the last entry first).
* Partitions: the domains have two workers and one, so that a change can be stale when
  it is applied; that it is never stale across domains is proved for any of them.

* Client: two descriptors, so that one is reused while the other is outstanding
  and both lists are empty, whole and mixed; two epochs, so that they come
  round; time-outs of one tick and bursts of two, so that a burst is filled and is
  left to its time-out; at most two packets in flight, so a late response can meet
  the next use of its descriptor. One partition and two endpoints are enough for
  TLC (routes do not depend on each other); the proofs cover any number.

### Fairness

`CircularLog`: weak fairness of `PopHead` and `PushHeader`, the two steps of the
loop `while (v > head_ + size_) pop_head()` and what follows it: a thread inside
`push_tail` runs on, nothing in the loop waits. `Partitions`: weak fairness of
each thread's own steps: the worker loops and the directory thread are pinned
threads that never block. No fairness between messages or choices is assumed: a
worker may receive packets in every round. `DatagramClient`: weak fairness of the
steps of `handle_response`, which the drivers call in their loops without end
(`test/netbench.cc`), and of time. Nothing is assumed of the network or the server:
a request without a response ends by its time-out. `Server`: weak fairness of
the worker's loop, and of time as it is seen once per iteration (`Age` strongly, since
it is enabled only at the end of one); nothing of the card or the clients.
`HugeTLBFS_SHM`: weak fairness of a thread inside a call, and `mmap` does not
fail at the same segment of a block for ever (strong fairness of `Map` for
each number of segments mapped): the retry loops never give up (the "TODO: Give
up after some trials" of the constructors), so without it no call would have to end.

Deadlock is checked in all runs but `shm_alloc`, where a program that holds its
blocks has nothing more to do. A bound is a guard on the step that begins an
operation (`Budget` in LTable, `Allocate` in CircularLog, `Rebalance` in
Partitions), so it never stops a thread inside one; a thread that may not begin a
`set` any more may still `test`, unlock or poll.

### Behaviour outside the passing runs

These were met while modelling. They follow from one line each, so they are
recorded here and under "hazards" rather than as runs.

* With the directory thread on the lcore of a worker
  (the default when every lcore serves, `datagram_server_impl.h:22-24`), two threads drain one
  queue that has no consumer lock (`info.h:61`), and `OwnerGives` fails.
* In the Ensō build an idle worker does not reach its pending changes
  (`datagram_server_impl.h:236`): `WaitEnds` fails with `UseEnso = TRUE`.
* `kReset` resets the tables of all cores (`process.h:157`): `SoleMutator` fails
  with `"reset"` among the kinds.
* An invalid request packet's buffer is never released (`datagram_server_impl.h:745`);
  `BuffersAccounted` counts it as lost. In the Ensō build the same branch does not even advance
  (`:683`) and the worker never leaves it.
* `check_pending_tx_min` compares with `!=` (`:322`) and misses a count that steps
  over the minimum; `RepliesLeave` holds because the time-out sends the packets later.
* `remaining_space_` is set once and never reduced (`datagram_protocol.h:300`), so
  a response packet is never flushed early for want of space.
* Two threads that allocate at once may be given the same address
  (`hugetlbfs_shm.cc:580`, `MAP_FIXED` at `:763`): `BlocksBacked` fails with a second
  allocator. All programs of the repository allocate from one thread.
* `move_to_head.h:20` takes the length before the locks, and the recheck at line
  40 does not notice an in-place change of length.
* `get_empty_or_oldest` (`bucket.h:212`) measures an item's age modulo the size of
  the log; an older item can look younger than it is, which makes the choice of
  the victim worse and nothing wrong.

## 4. The proofs

### The log

`CircularLogProofs` proves for every size of the log, every set of item sizes,
any number of writers and readers and every `MaxTail`:

| Theorem | Statement |
|---|---|
| `TypeCorrect` | `Spec => []TypeOK` |
| `Inductive` | `Spec => []IInv` |
| `LogBounded` | `Spec => []Bounded` |
| `LogTiled` | `Spec => []Tiled` |
| `ValidOffsetsIntact` | `Spec => []ValidIntact` |
| `LockFreeReads` | `Spec => []ReadIntact` |

They rest on the named assumptions of `CircularLog`: the sizes of ring and
offset space (`SizeAssumption`), items that fit with the next header
(`ItemAssumption`), one writer in mode 1 (`ModeAssumption`), a bound
(`BoundAssumption`). TLC evaluates them in `log_shared`.

None of the four properties is inductive. `Tiled` says that from `head` on there
are whole items; that a pop finds a header needs the writer in `push_tail` to
have left the ring's contents alone so far, that the push keeps the tiling needs
the amount it may write before `tail` moves to be bounded by the room it made.
`ValidIntact` speaks of complete items, so the invariant must describe the items
being written, per writer and program point, and that no other writer can be
there (the lock in mode 2, the assumption in mode 1). `ReadIntact` speaks of
what a reader has copied: the invariant says that each copied word is the
item's, *or* that the tail has moved so far that the item will never be valid
again while the reader holds it. The inductive invariant is the conjunction of
these. Each action preserves it in a step of its own; the module begins with the
arithmetic of offsets (two positions less than a ring apart have different addresses,
`(tail - off) % OffsetMod` is the true distance as long as it is less than `OffsetMod`).

### The client

`DatagramClientProofs` proves for every number of descriptors, epochs,
partitions and endpoints, and all bursts and time-outs with
`TXTimeout <= RequestTimeout` (10 and 1000 µs in the code):

| Theorem | Statement |
|---|---|
| `TypeCorrect` | `Spec => []TypeOK` |
| `Inductive` | `Spec => []IInv` |
| `ResponsesOwn` | `Spec => []OwnResponse` |
| `TimeoutAfterSend` | `Spec => []SentBeforeTimeout` |
| `ListsAreWhole` | `Spec => []DescriptorsListed` |
| `RoutesFollowOwners` | `Spec => []RoutesSettled` |

The assumptions are `RouteAssumption` and `ClientAssumption`; TLC evaluates them in
`datagram_client`. The invariant has five parts.
`Stamped`: a packet's epoch plus the releases since is the descriptor's epoch modulo
`EpochMod`; a response that matches then has age 0 (`EpochOnce`), which is
`OwnResponse`. `Waiting`: a packet in `pending_tx` is the first of its use and its request's
time runs no faster than the burst's, so `handle_response` sends it before it
looks for time-outs. `Lists`: the links of both lists stay inside them, each link of the active
list has its counterpart, and the unused list is injective; it gives that
`allocate_rd` hands out a descriptor nobody holds. `Ordered` says that the links of a
list pass all its descriptors: they can be numbered from 0 such that the first has 0,
each link leads to the next number, and the last number is one below the list's length;
along the active list the time left never falls. Every push and removal gives such a
numbering of the new list, and `ListIsAll` turns it into `Active = held` and
`Unused = Rds \ held`: the walk that defines them has reached the descriptor numbered n
after n steps, or there would be a least n where it has not. `Routing`: a route that is not the owner's has the flag set, or the
directory thread has noted the change and will set it, or the client's
`update_remote_eid` has not yet come to it and none of the endpoints it has passed over is the
owner's. That case is why the flag must be cleared before the owners are read.

### The hash table

`LTableProofs` speaks of any threads, keys, buckets, slots, log, offset space and lengths.
What concerns the buckets alone holds without any condition:

| Theorem | Statement |
|---|---|
| `Inductive` | `Spec => []Basic` |
| `TagsApart` | `Spec => []OneSlotPerTag` |
| `LocksHold` | `Spec => []Locked`: a version is odd while exactly one thread works on the bucket, and one thread at most is in the pool |

What depends on where an offset leads holds under conditions that the code does not
enforce, and that the theorems therefore name:

| Theorem | Conditions | Statement |
|---|---|---|
| `TableStaysSound` | `LengthsApart` | `Spec /\ []Young => []TableSound` |
| `FilledWhileYoung` | `LengthsApart`, `OneLength` | `Spec /\ []Young => [](Sound /\ Filled)` |
| `ValidSlotsAreCurrent` | the same | `Spec /\ []Young => []ValidSlotIsCurrent` |
| `GetsAreRight` | the same | `Spec /\ []Young => GetIsRight` |

`Young` is `tail < OffsetMod`: the first 2^48 bytes of writes. After that an offset is a position
only as long as `cleanup_bucket` keeps up, and with many writers nothing makes it: a
thread may be stopped between its push and its sweep while the others
write on. TLC follows one mutator through the wrap in `ltable_one`. `LengthsApart` (no value
one word longer than another) excludes the in-place overwriting of `set.h:79-83`, the first
finding above, without which the log's items are destroyed. `OneLength` (with
many mutators all values are equally long) excludes that `move_to_head` copies a length
that has changed since it was read. No condition is asked of the readers or of the
number of threads.

`Basic` says which call a thread may be in at each point (`Flow`), who holds
which lock (`Locked`), that the slot a writer has settled on is still the only one
its tag may go to (`Settled`, with `Tagged`), and that a reader whose version has not changed still
sees the slot it compared. `Sound` adds positions: there is a set `P` of item starts such that the log
from `head` on is tiled by them (`Tiling`), every slot leads to one of them, and every thread's
`at` is one (`Within`). The set is a witness in the invariant and no variable of the model:
`push_tail` adds the tail to it. `Filled` says what is stored there: the item behind a recent slot has
that bucket and tag and, unless somebody holds the bucket, the value last
stored (`Content`); what a thread has written so far, before any slot leads there
(`Writing`); what it aims at, has deleted, loaded or measured. `Knows`, for readers,
says that as long as the version is the one the reader began with, each slot it has
passed leads to no item of the key and the words it has copied are the value.

### The lossless table's chains

`LTableChainsProofs` proves for any number of mutators and getters, keys, buckets, extra
buckets, slots of a bucket and offsets of the pool:

| Theorem | Statement |
|---|---|
| `Invariance` | `Spec => []IInv` |
| `ChainsStaySound` | `Spec => []ChainsSound` |
| `ChainsKeepKeys` | `Spec => []ChainsHoldKeys` |
| `GetsAreRight` | `Spec => []GetIsRight` |

The only assumption is `ChainsAssumption`: buckets are numbers other than 0, a main bucket is no extra
bucket, there are finitely many extra buckets, and a key belongs to one bucket. That threads exclude
each other is not assumed; `Locks` derives it from the buckets' versions and the free list's lock.

The properties speak of what a walk along the links finds when nobody holds a bucket. The invariant has to
describe the same at every step of a call:

* *Where a bucket is.* The walk from each main bucket and from the free list's head comes to an end
  (`Paths`), two walks meet nowhere (`Apart`), and a bucket that a thread moves from one to the other is in
  neither, and known to no other thread (`Hands`). What is in no chain is free or in a hand,
  and empty (`Cover`).
* *What is in a chain.* Its items are the ones last stored under the keys of its bucket, all of them
  (`Items`), each in one place (`Once`), and all buckets but the last are full (`Packed`). `fill_hole`
  breaks the last two for a moment, at the place its thread knows: the item is in two slots between the copy
  and the clearing of the source, so that a reader can miss no key, and a slot is empty before the copy.
* *What a mutator knows* (`Mut`): the place it has found is in its chain, what is there, that a key it did
  not find is not stored, and, at the end of `fill_hole`, that the bucket it detaches is empty.
* *Items in a thread's hands* (`Pool`): between `allocate` and the store of the item vector, and between its removal
  and `release`, an item belongs to that thread alone.
* *What a reader knows* (`Reader`): as long as the version is the one it began with, nobody holds the
  bucket, the reader is at some position of the chain, and the key is at none of the earlier ones. When
  the version has changed it may be anywhere, and nothing is claimed: it will retry.

A chain is defined by a recursive function on the links, cut off after as many extra buckets as there
are. `ChainIs` shows that where any path exists, the walk is that path, and `PathOnce` and
`PathShort` that a path visits no bucket twice and is no longer than the cut-off. Six lemmas then say
what each change of a link does to the walks: nothing to those that do not pass it
(`ChainStays`), one bucket more at the end (`ChainGrows`), one less at the end (`ChainShrinks`), the first one gone
(`ChainBehind`), one more in front (`ChainPushed`), one alone (`ChainOfOne`). The inductions are by the least
counterexample. Everything else is one lemma per action, named after it.

### The lossless table's pool

`SegregatedFitProofs` proves for every size of the pool, any number of classes and any
lengths of items, when one thread uses the pool (`Mode = 1`):

| Theorem | Statement |
|---|---|
| `Inductive` | `Spec => []IInv` |
| `PoolStaysSound` | `Spec => []PoolSound` |
| `ItemsStayApart` | `Spec => []ItemsApart` |
| `RefusalsRight` | `Spec => RefusesOnlyIfFull` |

The condition is the second finding of section 3: with two threads the code breaks `ItemsApart`. The
assumptions are `SizeAssumption`, `LengthAssumption` and `ModeAssumption`.

The properties hold between the calls; the invariant must hold at every step inside one.
It says that there are the chunks' bounds `C` and sizes `Z`, the free chunks `F` and the order `st` in
which they came to the lists, such that the chunks tile the pool (`Tiling`), all but the chunk in the
thread's hand (`InHand`) have the same tag at both ends (`EndsTagged`), each free chunk is linked to
its neighbours in the list of its class, which are linked back to it (`Linked`, `Headed`), no two
free chunks are neighbours (`Coalesced`), and each item has a chunk of its own that is not free
(`Placed`). `Held` is what the thread knows of its chunk: after `CoaleseLeft` no free chunk ends
where it starts, after `CoaleseRight` none starts where it ends. The four witnesses are no
variables of the model: a split adds a bound, a merge takes one away, an insertion gets the
next number in `st`.

From there to the walks that the properties are stated with: `StartsAre` shows that the walk
along the tags passes every bound and comes to the end within `MaxChunks` steps, `ListedAre` that the
walk along a list's links passes every free chunk of its class. The second needs `st`, without which
chunks linked in a ring beside the list would satisfy all the rest, and a count: no more than
`MaxChunks` chunks fit into the pool. Both walks are recursive functions, and the inductions are by the
least counterexample. `RefusalsRight` adds that outside the last class all chunks have one size
(`ClassOrder`), so that the first class that is not empty has a chunk that is large enough whenever
any class has.

### The queue

`QueueProofs` proves for every capacity, any number of producers and consumers, and
each end with its lock or with one thread (`QueueAssumption`):

| Theorem | Statement |
|---|---|
| `Inductive` | `Spec => []IInv` |
| `CellsApart` | `Spec => []CellsOwned` |
| `ImplementsFifo` | `Spec => IsFifo`, that is, `Spec => Atomic!Spec` |

The invariant says that the thread inside an end's section has seen the present
index, that a producer past the full test still has a free cell whatever the consumers have
done since, and likewise at the other end. The refinement maps the store of
`tail_` to `Put` and the store of `head_` to `Take`; a failing test is `Refuse` or `Miss`
at the load of the other end's index; every other step stutters. That the cells from `head` to `tail`
are the same sequence with one item added or taken away is arithmetic modulo the
capacity, proved once for both ends.

### The ownership protocol

`PartitionsProofs` proves for any cores, workers, domains, partitions,
loads and rebalances and queues of any size (`PartitionsAssumption`):

| Theorem | Conditions | Statement |
|---|---|---|
| `MovesInvariant` | | `Spec => []Moves` |
| `DomainsKept` | | `Spec => StaysInDomain` |
| `OwnersAlone` | `DirLcore \notin Workers`, `"reset" \notin Kinds` | `Spec => []OwnersSound` |
| `OwnersGive` | `DirLcore \notin Workers` | `Spec => OwnerGives` |

The conditions are the two cases of section 3 in which the code does break the property: the
directory thread on a worker's lcore, and `kReset`. `Moves` says that every change, whether planned,
queued or in a thread's hand, and however stale, names a configured lcore of its partition's
domain, and that no queue outgrows its room; `rebalance_load` needs for that
that the lists it packs are per domain, whatever the loads. `Visits` says that a worker in a table, or between
the check of the mode and the table, still has the right to be there: only
the worker itself gives the table away, and it does so between two batches.

### The server's worker

`ServerProofs` proves for any number of endpoints, buffers, packets and requests, any
bursts, stage gaps and ring sizes of `ServerAssumption`, which asks of the ring that a
packet's requests and three stage gaps fit in it:

| Theorem | Statement |
|---|---|
| `Inductive` | `Spec => []IInv` |
| `Shapes` | `Spec => []TypeOK`: no array and no descriptor ring is written past its end |
| `NoBufferTwice` | `Spec => []BuffersAccounted` |
| `RingHolds` | `Spec => []WindowIntact` |
| `AnswersBelong` | `Spec => []RepliesRight` |
| `AllocNeverFails` | `Spec => []AllocSucceeds`, if `Spare` |

Four of the invariant's parts are about places: the card's rings (`Network`), what is in a buffer
(`Packet`), the arrays of `RequestAccessor` and `process()` (`Arrays`), and that a
buffer is in one place, once (`Placed`). `Progress` ties the three indices to the loop's
counter: what is retired is three stage gaps behind what is fetched, up to the ends of the
batch. `InWindow` says that consecutive entries of the ring between retire and prepare are
consecutive requests of a packet, or the last of one and the first of the next: `last_in_packet` is exact, and so
the packet is released with its last request. `Answering` says that the pending response answers what
is retired of the packet at hand, and that the slots of `process()` hold the partitions of the
requests the first stages have passed. `Numbered`
says that packets not yet answered differ from those that are, so that no packet is answered twice.

`AllocNeverFails` needs `Spare`: the pool has more buffers than `NumEndpoints` times the two descriptor
rings and a burst less one, one burst received, the batch in hand, and one for each invalid packet
(`MaxBad`), which `parse_request_batch` leaves behind. With the code's constants (4096
buffers for each endpoint) that holds for up to 3391 invalid packets at one endpoint. The proof adds `Counted` to the
invariant: what the window holds comes from the burst, and the buffers that invalid packets occupy,
in the rings or for good, are no more than there have been invalid packets. Then with an empty pool the
places would hold fewer than `NumBuffers`, against `Placed`.

### What is only model-checked

* Liveness: `AllocateEnds`, `WaitEnds`, `RequestEnds`, `RepliesLeave`, `CallsEnd`. What is enabled under
  fairness is out of the prover's reach.
* `PagesSound`, `PagesAccounted` and `BlocksBacked` of `HugeTLBFS_SHM`: start-up sorts the files, and a
  block's pages are picked by sorting and choosing from sets. What those recursive definitions compute
  would have to be proved first; not done.
* `SegregatedFit` with more than one thread: `ItemsApart` fails there (the second finding).
* The table after the offsets have come round, with one mutator.

## 5. Plan

1. *Done*: the log, the two table configurations, the lossless pool, the queue, the ownership
   protocol, the client, the server's worker with its pipeline, buffers and rings, the
   allocator of huge pages.
2. *Done*: the proofs of section 4.
3. *Prove*: the table across the wrap of the offsets with one mutator (an item's age
   instead of its position, and how far the sweep is behind the tail); `PagesAccounted` of
   `HugeTLBFS_SHM`.
4. *Left*, each apart from the store: Maglev's population (shares differ by at
   most one) and its cache; the ring allocator of `pktcopy`; NitroSketch's
   min-heap; MICA's RateLimiter.

## 6. Running it

```
tlc -workers 2 -config MCCircularLogShared.cfg MCCircularLog
tlapm LTableProofs.tla
```

and likewise for the other pairs of module and configuration in
`PROJECT.json`, and for the other `*Proofs` modules. `LTableProofs` and
`ServerProofs` take several minutes each, `LTableChainsProofs` about two.
