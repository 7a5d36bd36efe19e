------------------------------- MODULE LTable -------------------------------
(***************************************************************************)
(* The lossy hash table of MICA (mica/table/ltable.h, ltable_impl/) over   *)
(* the circular log pool, as several threads use one table at once.        *)
(*                                                                         *)
(* A bucket is a version word and BucketSize item vectors; an item vector  *)
(* is a tag and a 48-bit log offset, or 0.  A writer makes the version odd *)
(* while it works on the bucket (lock_bucket).  A reader takes no lock: it *)
(* notes an even version, finds and copies the item, asks the log whether  *)
(* the offset is still valid, and starts again if the version has changed. *)
(* The log evicts behind the table's back, so an item vector may be stale. *)
(*                                                                         *)
(* An item of n words is the log's header, one word for Item (key, hash    *)
(* and lengths) and the words of the value.  The stores of the log's own   *)
(* push_tail() are one step here; CircularLog.tla takes them apart.        *)
(***************************************************************************)
EXTENDS Integers, FiniteSets, Sequences

CONSTANTS
  Mutators,    \* threads that set, delete, increment and get with allow_mutation
  Getters,     \* threads that only get (allow_mutation = false) and test
  Teams,       \* the sets of threads that may share the table
  Nobody,      \* the free pool lock
  Mode,        \* concurrent_access_mode_: 1 = one mutator, 2 = many
  Keys,
  BucketOf,    \* calc_bucket_index: key -> bucket
  TagOf,       \* calc_tag: key -> tag, never 0
  NumBuckets,  \* num_buckets_
  BucketSize,  \* kBucketSize
  Lens,        \* value lengths exercised, in words
  MaxValue,    \* values are 0 .. MaxValue; an increment wraps
  Size,        \* size_ of the log in words
  OffsetMod,   \* kOffsetMask + 1 in words
  Threshold,   \* mth_threshold_
  MaxTail,     \* bound on the log's tail
  MaxVersion   \* bound on the versions

Threads == Mutators \cup Getters
Buckets == 0 .. NumBuckets - 1
Indices == 1 .. BucketSize

ASSUME TableAssumption ==
  /\ NumBuckets \in Nat \ {0} /\ BucketSize \in Nat \ {0}
  /\ BucketOf \in [Keys -> Buckets]
  /\ TagOf \in [Keys -> Nat \ {0}]
  /\ Mutators \cap Getters = {} /\ Nobody \notin Threads
  /\ Mode \in {1, 2}
  /\ Teams \subseteq SUBSET Threads /\ Teams # {}
  /\ Mode = 1 => \A team \in Teams : \A s, t \in team \cap Mutators : s = t

ASSUME LogAssumption ==
  /\ Size \in Nat \ {0} /\ OffsetMod \in Nat /\ Threshold \in Nat
  /\ OffsetMod >= 4 * Size           \* size_ is a power of two <= kOffsetMask >> 1
  /\ OffsetMod % Size = 0
  /\ OffsetMod % (2 * NumBuckets) = 0
  /\ Lens # {} /\ \A l \in Lens : l \in Nat \ {0} /\ l + 3 <= Size

ASSUME BoundAssumption == MaxTail \in Nat /\ MaxVersion \in Nat /\ MaxValue \in Nat

VARIABLES
  crew,             \* the threads that share the table
  version,          \* Bucket::version
  slots,            \* Bucket::item_vec
  head, tail, mem,  \* the log: head_, tail_, data_
  plock,            \* the log's lock_: the thread inside
  pc,               \* where each thread is
  call,             \* its request
  idx, vec,         \* item_index, and the item vector found there (0: none)
  ver,              \* version_start of a get
  at,               \* the log offset being written
  step,             \* how many words of the item are written
  buf,              \* the value a get has copied
  sweep,            \* the buckets cleanup_bucket() has still to visit
  cur               \* ghost: the value last stored under each key

log == <<head, tail, mem, plock>>
table == <<version, slots>>
locals == <<call, idx, vec, ver, at, step, buf, sweep>>
vars == <<crew, version, slots, head, tail, mem, plock, pc, call, idx, vec, ver, at,
          step, buf, sweep, cur>>

-----------------------------------------------------------------------------
(* Item vectors, words and offsets.                                        *)

Empty == [tag |-> 0, off |-> 0]
NoValue == [v |-> 0, len |-> 0]
NoCall == [op |-> "none", key |-> CHOOSE k \in Keys : TRUE, v |-> 0, len |-> 0]

Header(n) == <<"header", n, 0>>
Meta(k, l) == <<"item", k, l>>
Word(v, i) == <<"value", v, i>>
Words(x) == [i \in 1 .. x.len |-> Word(x.v, i)]

\* get_item(): word j of the allocation at an offset.
Addr(off, j) == (off + j) % Size

\* is_valid()
IsValid(off) == (tail - off) % OffsetMod <= Size

\* The item at an offset has this key (find_item_index's comparison).
Holds(off, k) == LET w == mem[Addr(off, 1)] IN w[1] = "item" /\ w[2] = k

\* What may be read as a size or as a length from a word: the bytes of any
\* other word are an arbitrary number.
SizesAt(a) == IF mem[a][1] = "header" THEN {mem[a][2]} ELSE 0 .. Size + 1
TooLong == Size   \* a length above kMaxValueLength
LensAt(a) == IF mem[a][1] = "item" THEN {mem[a][3]} ELSE Lens \cup {TooLong}

\* A thread's key, bucket and tag.
Key(t) == call[t].key
B(t) == BucketOf[Key(t)]
Tag(t) == TagOf[Key(t)]

First(I) == CHOOSE i \in I : \A j \in I : i <= j

\* find_item_index() under the bucket's lock; 0 stands for kBucketSize.
Located(b, k) ==
  LET I == { i \in Indices : slots[b][i].tag = TagOf[k] /\ Holds(slots[b][i].off, k) }
  IN  IF I = {} THEN 0 ELSE First(I)

\* get_empty_or_oldest() uses get_mask(), the mask of the log's size.
Distance(off) == (tail - off) % Size

EmptyOrOldest(b) ==
  LET E == { i \in Indices : slots[b][i] = Empty }
      O == { i \in Indices : \A j \in Indices :
                               Distance(slots[b][j].off) <= Distance(slots[b][i].off) }
  IN  IF E # {} THEN First(E) ELSE First(O)

\* Victim without the search for an item with the same tag.
Victim_AnySlot(b, k) == EmptyOrOldest(b)

\* The slot a set() takes for a key it has not found: find_same_tag() first.
Victim(b, k) ==
  LET S == { i \in Indices : slots[b][i].tag = TagOf[k] }
  IN  IF S # {} THEN First(S) ELSE EmptyOrOldest(b)

\* The bucket the sweep has reached at a tail.
SweepAt(pos) == (pos \div (OffsetMod \div (2 * NumBuckets))) % NumBuckets

Init ==
  /\ crew \in Teams
  /\ version = [b \in Buckets |-> 0]
  /\ slots = [b \in Buckets |-> [i \in Indices |-> Empty]]
  /\ head = 0 /\ tail = 0 /\ plock = Nobody
  /\ mem = [a \in 0 .. Size - 1 |-> Header(0)]
  /\ pc = [t \in Threads |-> "idle"]
  /\ call = [t \in Threads |-> NoCall]
  /\ idx = [t \in Threads |-> 0]
  /\ vec = [t \in Threads |-> Empty]
  /\ ver = [t \in Threads |-> 0]
  /\ at = [t \in Threads |-> 0]
  /\ step = [t \in Threads |-> 0]
  /\ buf = [t \in Threads |-> <<>>]
  /\ sweep = [t \in Threads |-> <<0, 0>>]
  /\ cur = [k \in Keys |-> NoValue]

-----------------------------------------------------------------------------
(* Locks and control.                                                      *)

Goto(t, from, to) == pc[t] = from /\ pc' = [pc EXCEPT ![t] = to]

Odd(n) == n % 2 = 1
LockBucket(b) == ~Odd(version[b]) /\ version' = [version EXCEPT ![b] = @ + 1]
UnlockBucket(b) == version' = [version EXCEPT ![b] = @ + 1]

\* Only mode 2 takes the pool's lock.
LockPool(t) ==
  /\ Mode = 2 => plock = Nobody
  /\ plock' = IF Mode = 2 THEN t ELSE plock
FreePool == plock' = IF Mode = 2 THEN Nobody ELSE plock

\* A thread that returns forgets its locals.
Return(t) ==
  /\ pc' = [pc EXCEPT ![t] = "idle"]
  /\ call' = [call EXCEPT ![t] = NoCall]
  /\ idx' = [idx EXCEPT ![t] = 0]
  /\ vec' = [vec EXCEPT ![t] = Empty]
  /\ ver' = [ver EXCEPT ![t] = 0]
  /\ at' = [at EXCEPT ![t] = 0]
  /\ step' = [step EXCEPT ![t] = 0]
  /\ buf' = [buf EXCEPT ![t] = <<>>]
  /\ sweep' = [sweep EXCEPT ![t] = <<0, 0>>]

\* The bounds: an operation starts only if it and those under way can end.
Budget ==
  LET busy == Cardinality({ t \in Mutators : pc[t] # "idle" })
      item == 2 + First({ l \in Lens : \A m \in Lens : m <= l })
  IN  /\ tail + (busy + 1) * item <= MaxTail
      /\ \A b \in Buckets : version[b] <= MaxVersion

\* set, del and increment start by locking the key's bucket.
Begin(t, op, k, v, l) ==
  /\ t \in Mutators /\ Budget
  /\ Goto(t, "idle", "find")
  /\ LockBucket(BucketOf[k])
  /\ call' = [call EXCEPT ![t] = [op |-> op, key |-> k, v |-> v, len |-> l]]
  /\ UNCHANGED <<slots, log, idx, vec, ver, at, step, buf, sweep, cur>>

\* A mutator's bucket lock is released; what it stored or deleted now counts.
Unlock(t) ==
  LET k == Key(t)
      stored == call[t].op \in {"set", "add", "increment"} /\ step[t] > 0
      deleted == call[t].op = "del" /\ idx[t] # 0
      new == [v |-> call[t].v, len |-> call[t].len]
  IN
  /\ pc[t] = "unlock"
  /\ UnlockBucket(B(t))
  /\ cur' = IF stored THEN [cur EXCEPT ![k] = new]
            ELSE IF deleted THEN [cur EXCEPT ![k] = NoValue] ELSE cur
  /\ IF sweep[t][1] = sweep[t][2]
     THEN Return(t)
     ELSE pc' = [pc EXCEPT ![t] = "sweep"] /\ UNCHANGED locals
  /\ UNCHANGED <<slots, log>>

\* The cleanup sweep that forgets to look at the last slot.
SweepBucket_NotLast(t) ==
  LET b == sweep[t][1]
      next == (b + 1) % NumBuckets
  IN
  /\ pc[t] = "clear"
  /\ slots' = [slots EXCEPT ![b] = [i \in Indices |->
                 IF i # BucketSize /\ ~IsValid(slots[b][i].off) THEN Empty ELSE slots[b][i]]]
  /\ UnlockBucket(b)
  /\ IF next = sweep[t][2]
     THEN Return(t)
     ELSE /\ pc' = [pc EXCEPT ![t] = "sweep"]
          /\ sweep' = [sweep EXCEPT ![t] = <<next, sweep[t][2]>>]
          /\ UNCHANGED <<call, idx, vec, ver, at, step, buf>>
  /\ UNCHANGED <<log, cur>>

\* cleanup_bucket(): one bucket for every stretch of log written, so that no
\* item vector outlives half a turn of the offset space.
SweepLock(t) ==
  /\ Goto(t, "sweep", "clear")
  /\ LockBucket(sweep[t][1])
  /\ UNCHANGED <<slots, log, locals, cur>>

SweepBucket(t) ==
  LET b == sweep[t][1]
      next == (b + 1) % NumBuckets
  IN
  /\ pc[t] = "clear"
  /\ slots' = [slots EXCEPT ![b] = [i \in Indices |->
                 IF IsValid(slots[b][i].off) THEN slots[b][i] ELSE Empty]]
  /\ UnlockBucket(b)
  /\ IF next = sweep[t][2]
     THEN Return(t)
     ELSE /\ pc' = [pc EXCEPT ![t] = "sweep"]
          /\ sweep' = [sweep EXCEPT ![t] = <<next, sweep[t][2]>>]
          /\ UNCHANGED <<call, idx, vec, ver, at, step, buf>>
  /\ UNCHANGED <<log, cur>>

-----------------------------------------------------------------------------
(* set, del and increment under the bucket's lock.                         *)

SetExists(t) ==
  /\ Goto(t, "find", "unlock")
  /\ call[t].op = "add" /\ Located(B(t), Key(t)) # 0
  /\ UNCHANGED <<table, log, locals, cur>>

SetLocate(t) ==
  LET i == Located(B(t), Key(t))
      j == IF i # 0 THEN i ELSE Victim(B(t), Key(t))
  IN
  /\ Goto(t, "find", "pool")
  /\ call[t].op = "set" \/ (call[t].op = "add" /\ i = 0)
  /\ idx' = [idx EXCEPT ![t] = j]
  /\ vec' = [vec EXCEPT ![t] = IF i # 0 THEN slots[B(t)][i] ELSE Empty]
  /\ UNCHANGED <<table, log, call, ver, at, step, buf, sweep, cur>>

\* old_item_size includes the log's header, new_item_size does not.
Reusable(t, n) == IsValid(vec[t].off) /\ n >= 1 + call[t].len

SetInPlace(t) ==
  /\ Goto(t, "pool", "inplace")
  /\ call[t].op \in {"set", "add"} /\ vec[t] # Empty
  /\ LockPool(t)
  /\ \E n \in SizesAt(Addr(vec[t].off, 0)) : Reusable(t, n)
  /\ at' = [at EXCEPT ![t] = vec[t].off]
  /\ UNCHANGED <<table, head, tail, mem, call, idx, vec, ver, step, buf, sweep, cur>>

SetNew(t) ==
  /\ Goto(t, "pool", "alloc")
  /\ call[t].op \in {"set", "add"}
  /\ LockPool(t)
  /\ vec[t] = Empty \/ \E n \in SizesAt(Addr(vec[t].off, 0)) : ~Reusable(t, n)
  /\ UNCHANGED <<table, head, tail, mem, locals, cur>>

Del(t) ==
  LET i == Located(B(t), Key(t)) IN
  /\ Goto(t, "find", "unlock")
  /\ call[t].op = "del"
  /\ idx' = [idx EXCEPT ![t] = i]
  /\ slots' = IF i = 0 THEN slots ELSE [slots EXCEPT ![B(t)][i] = Empty]
  /\ UNCHANGED <<version, log, call, vec, ver, at, step, buf, sweep, cur>>

IncrementLocate(t) ==
  LET i == Located(B(t), Key(t)) IN
  /\ call[t].op = "increment" /\ pc[t] = "find"
  /\ pc' = [pc EXCEPT ![t] = IF i = 0 THEN "unlock" ELSE "pool"]
  /\ vec' = [vec EXCEPT ![t] = IF i = 0 THEN Empty ELSE slots[B(t)][i]]
  /\ UNCHANGED <<table, log, call, idx, ver, at, step, buf, sweep, cur>>

\* The item has been evicted, or its value is not one word long: kError.
IncrementFails(t) ==
  /\ Goto(t, "pool", "unlock")
  /\ call[t].op = "increment"
  /\ Mode = 2 => plock = Nobody
  /\ IsValid(vec[t].off) => \E l \in LensAt(Addr(vec[t].off, 1)) : l # 1
  /\ UNCHANGED <<table, log, locals, cur>>

Increment(t) ==
  LET old == mem[Addr(vec[t].off, 2)] IN
  /\ Goto(t, "pool", "inplace")
  /\ call[t].op = "increment"
  /\ LockPool(t)
  /\ IsValid(vec[t].off) /\ 1 \in LensAt(Addr(vec[t].off, 1))
  /\ call' = [call EXCEPT ![t].v = (old[2] + 1) % (MaxValue + 1), ![t].len = 1]
  /\ at' = [at EXCEPT ![t] = vec[t].off]
  /\ step' = [step EXCEPT ![t] = 1]
  /\ UNCHANGED <<table, head, tail, mem, idx, vec, ver, buf, sweep, cur>>

\* allocate(), whose steps are those of CircularLog.
Need(t) == 2 + call[t].len
Fits(t) == tail + 1 + Need(t) <= head + Size

PopHead(t) ==
  /\ pc[t] = "alloc" /\ ~Fits(t)
  /\ \E n \in SizesAt(head % Size) : head' = head + n
  /\ UNCHANGED <<table, tail, mem, plock, pc, locals, cur>>

PushTail(t) ==
  /\ Goto(t, "alloc", IF call[t].op = "get" THEN "copy" ELSE "fill")
  /\ Fits(t)
  /\ mem' = [mem EXCEPT ![tail % Size] = Header(Need(t))]
  /\ tail' = tail + Need(t)
  /\ at' = [at EXCEPT ![t] = tail % OffsetMod]
  /\ sweep' = [sweep EXCEPT ![t] = <<SweepAt(tail), SweepAt(tail + Need(t))>>]
  /\ UNCHANGED <<table, head, plock, call, idx, vec, ver, step, buf, cur>>

\* set_item() and set_item_value(): the lengths first, then the value.
WriteWord(t) ==
  LET j == step[t] + 1 IN
  /\ pc[t] \in {"inplace", "fill"} /\ j < Need(t)
  /\ mem' = [mem EXCEPT ![Addr(at[t], j)] =
               IF j = 1 THEN Meta(Key(t), call[t].len) ELSE Word(call[t].v, j - 1)]
  /\ step' = [step EXCEPT ![t] = j]
  /\ UNCHANGED <<table, head, tail, plock, pc, call, idx, vec, ver, at, buf, sweep, cur>>

\* UnlockPool before the value is written.
UnlockPool_Early(t) ==
  /\ pc[t] \in {"inplace", "fill"}
  /\ FreePool
  /\ pc' = [pc EXCEPT ![t] = IF pc[t] = "inplace" THEN "unlock" ELSE "publish"]
  /\ UNCHANGED <<table, head, tail, mem, locals, cur>>

UnlockPool(t) ==
  /\ pc[t] \in {"inplace", "fill"} /\ step[t] + 1 = Need(t)
  /\ FreePool
  /\ pc' = [pc EXCEPT ![t] = IF pc[t] = "inplace" THEN "unlock" ELSE "publish"]
  /\ UNCHANGED <<table, head, tail, mem, locals, cur>>

Publish(t) ==
  /\ Goto(t, "publish", "unlock")
  /\ slots' = [slots EXCEPT ![B(t)][idx[t]] = [tag |-> Tag(t), off |-> at[t]]]
  /\ UNCHANGED <<version, log, locals, cur>>

-----------------------------------------------------------------------------
(* get and test, without a lock.                                           *)

BeginRead(t, op, k) ==
  /\ (t \in Mutators /\ op = "get") => Budget
  /\ Goto(t, "idle", "scan")
  /\ ~Odd(version[BucketOf[k]])
  /\ ver' = [ver EXCEPT ![t] = version[BucketOf[k]]]
  /\ call' = [call EXCEPT ![t] = [op |-> op, key |-> k, v |-> 0, len |-> 0]]
  /\ UNCHANGED <<table, log, idx, vec, at, step, buf, sweep, cur>>

ReadAgain(t) ==
  /\ Goto(t, "begin", "scan")
  /\ ~Odd(version[B(t)])
  /\ ver' = [ver EXCEPT ![t] = version[B(t)]]
  /\ UNCHANGED <<table, log, call, idx, vec, at, step, buf, sweep, cur>>

\* find_item_index(): the next slot with the tag, then the key behind it.
Scan(t) ==
  LET I == { i \in Indices : i > idx[t] /\ slots[B(t)][i].tag = Tag(t) } IN
  /\ pc[t] = "scan"
  /\ IF I = {}
     THEN pc' = [pc EXCEPT ![t] = "miss"] /\ UNCHANGED <<idx, vec>>
     ELSE /\ pc' = [pc EXCEPT ![t] = "compare"]
          /\ idx' = [idx EXCEPT ![t] = First(I)]
          /\ vec' = [vec EXCEPT ![t] = slots[B(t)][First(I)]]
  /\ UNCHANGED <<table, log, call, ver, at, step, buf, sweep, cur>>

Compare(t) ==
  LET next == IF ~Holds(vec[t].off, Key(t)) THEN "scan"
              ELSE IF call[t].op = "test" THEN "hit" ELSE "load"
  IN
  /\ Goto(t, "compare", next)
  /\ UNCHANGED <<table, log, locals, cur>>

\* The item vector is read a second time, and the item's lengths.
Load(t) ==
  LET x == slots[B(t)][idx[t]] IN
  /\ pc[t] = "load"
  /\ \E l \in LensAt(Addr(x.off, 1)) :
       /\ pc' = [pc EXCEPT ![t] = IF l = TooLong THEN "stale" ELSE "value"]
       /\ call' = [call EXCEPT ![t].len = l]
  /\ vec' = [vec EXCEPT ![t] = x]
  /\ UNCHANGED <<table, log, idx, ver, at, step, buf, sweep, cur>>

CopyValue(t) ==
  /\ Goto(t, "value", "validate")
  /\ buf' = [buf EXCEPT ![t] = [i \in 1 .. call[t].len |-> mem[Addr(vec[t].off, i + 1)]]]
  /\ UNCHANGED <<table, log, call, idx, vec, ver, at, step, sweep, cur>>

\* Validate trusting every offset.
Validate_Always(t) ==
  /\ Goto(t, "validate", "found")
  /\ UNCHANGED <<table, log, locals, cur>>

Validate(t) ==
  /\ Goto(t, "validate", IF IsValid(vec[t].off) THEN "found" ELSE "stale")
  /\ UNCHANGED <<table, log, locals, cur>>

\* version_start == read_version_end()
Unchanged(t) == version[B(t)] = ver[t]

Retry(t) ==
  /\ pc[t] \in {"miss", "stale", "found", "hit"} /\ ~Unchanged(t)
  /\ pc' = [pc EXCEPT ![t] = "begin"]
  /\ call' = [call EXCEPT ![t].len = 0]
  /\ idx' = [idx EXCEPT ![t] = 0]
  /\ vec' = [vec EXCEPT ![t] = Empty]
  /\ ver' = [ver EXCEPT ![t] = 0]
  /\ buf' = [buf EXCEPT ![t] = <<>>]
  /\ UNCHANGED <<table, log, at, step, sweep, cur>>

\* kNotFound, after a stale item was removed if mutation is allowed.
NotFound(t) ==
  /\ pc[t] \in {"miss", "stale"} /\ Unchanged(t)
  /\ IF pc[t] = "stale" /\ t \in Mutators
     THEN pc' = [pc EXCEPT ![t] = "remove"] /\ UNCHANGED locals
     ELSE Return(t)
  /\ UNCHANGED <<table, log, cur>>

\* By now the slot may hold another item, which is then lost.
RemoveStale(t) ==
  /\ Goto(t, "remove", "unlock")
  /\ LockBucket(B(t))
  /\ slots' = [slots EXCEPT ![B(t)][idx[t]] = Empty]
  /\ UNCHANGED <<log, locals, cur>>

TestFound(t) ==
  /\ pc[t] = "hit" /\ Unchanged(t)
  /\ Return(t)
  /\ UNCHANGED <<table, log, cur>>

Found(t) ==
  /\ pc[t] = "found" /\ Unchanged(t)
  /\ IF t \in Mutators
     THEN pc' = [pc EXCEPT ![t] = "move"] /\ UNCHANGED locals
     ELSE Return(t)
  /\ UNCHANGED <<table, log, cur>>

-----------------------------------------------------------------------------
(* move_to_head(): a get that may mutate saves an old item from eviction.  *)

MoveNeeded(t) ==
  /\ pc[t] = "move"
  /\ IF Distance(vec[t].off) > Threshold
     THEN pc' = [pc EXCEPT ![t] = "move_lock"] /\ UNCHANGED locals
     ELSE Return(t)
  /\ UNCHANGED <<table, log, cur>>

MoveLock(t) ==
  /\ Goto(t, "move_lock", "move_pool")
  /\ LockBucket(B(t))
  /\ UNCHANGED <<slots, log, locals, cur>>

\* Is the original item still in its slot?
MoveCheck(t) ==
  /\ pc[t] = "move_pool"
  /\ Mode = 2 => plock = Nobody
  /\ IF slots[B(t)][idx[t]] = vec[t]
     THEN pc' = [pc EXCEPT ![t] = "alloc"] /\ LockPool(t)
     ELSE pc' = [pc EXCEPT ![t] = "unlock"] /\ UNCHANGED plock
  /\ UNCHANGED <<table, head, tail, mem, locals, cur>>

\* allocate() itself may have evicted the original.
MoveItem(t) ==
  LET new == [tag |-> vec[t].tag, off |-> at[t]]
      target == { Addr(at[t], j) : j \in 1 .. call[t].len + 1 }
      From(a) == Addr(vec[t].off, (a - at[t]) % Size)
  IN
  /\ Goto(t, "copy", "unlock")
  /\ IF IsValid(vec[t].off)
     THEN /\ mem' = [a \in DOMAIN mem |-> IF a \in target THEN mem[From(a)] ELSE mem[a]]
          /\ slots' = [slots EXCEPT ![B(t)][idx[t]] = new]
     ELSE UNCHANGED <<mem, slots>>
  /\ FreePool
  /\ UNCHANGED <<version, head, tail, locals, cur>>

-----------------------------------------------------------------------------
Start(t) ==
  \/ \E op \in {"set", "add"}, k \in Keys, v \in 0 .. MaxValue, l \in Lens : Begin(t, op, k, v, l)
  \/ \E op \in {"del", "increment"}, k \in Keys : Begin(t, op, k, 0, 0)
  \/ \E op \in {"get", "test"}, k \in Keys : BeginRead(t, op, k)

Continue(t) ==
  \/ Unlock(t) \/ SweepLock(t) \/ SweepBucket(t)
  \/ SetExists(t) \/ SetLocate(t) \/ SetInPlace(t) \/ SetNew(t)
  \/ Del(t) \/ IncrementLocate(t) \/ IncrementFails(t) \/ Increment(t)
  \/ PopHead(t) \/ PushTail(t) \/ WriteWord(t) \/ UnlockPool(t) \/ Publish(t)
  \/ ReadAgain(t) \/ Scan(t) \/ Compare(t) \/ Load(t) \/ CopyValue(t) \/ Validate(t)
  \/ Retry(t) \/ NotFound(t) \/ RemoveStale(t) \/ TestFound(t) \/ Found(t)
  \/ MoveNeeded(t) \/ MoveLock(t) \/ MoveCheck(t) \/ MoveItem(t)

Next == UNCHANGED crew /\ \E t \in crew : Start(t) \/ Continue(t)

Spec == Init /\ [][Next]_vars

-----------------------------------------------------------------------------
Item == [tag : Nat, off : Nat]
Locations == {"idle", "find", "pool", "alloc", "inplace", "fill", "publish", "unlock",
              "sweep", "clear", "begin", "scan", "compare", "load", "value", "validate",
              "miss", "stale", "found", "hit", "remove", "move", "move_lock", "move_pool",
              "copy"}

\* Type correctness of the buckets, the log and the threads.
TypeOK ==
  /\ version \in [Buckets -> Nat]
  /\ slots \in [Buckets -> [Indices -> Item]]
  /\ head \in Nat /\ tail \in Nat /\ plock \in Threads \cup {Nobody}
  /\ DOMAIN mem = 0 .. Size - 1
  /\ pc \in [Threads -> Locations]
  /\ idx \in [Threads -> 0 .. BucketSize] /\ vec \in [Threads -> Item]
  /\ ver \in [Threads -> Nat] /\ at \in [Threads -> Nat] /\ step \in [Threads -> Nat]
  /\ sweep \in [Threads -> Buckets \X Buckets]

\* set() replaces an item of the same tag before it takes another slot, so a
\* bucket never holds two items of one tag and never two versions of one key.
OneSlotPerTag ==
  \A b \in Buckets : \A i, j \in Indices :
    (slots[b][i] # Empty /\ slots[b][i].tag = slots[b][j].tag) => i = j

\* check_invariants() in pop_head() and push_tail(): the headers in the log
\* lead from the head to the tail, so that no pop overshoots.
LogInBounds == head <= tail /\ tail - head <= Size

\* The buckets and the log, whatever the slots lead to.
TableSound == TypeOK /\ OneSlotPerTag /\ LogInBounds

\* An item vector that is_valid() accepts leads to an item of its own bucket
\* and tag, whose value, unless the bucket is locked, is the last one stored
\* under that item's key: nothing stale, torn or overwritten can be reached,
\* even after the offsets have wrapped.
ValidSlotIsCurrent ==
  \A b \in Buckets, i \in Indices :
    LET x == slots[b][i]
        m == mem[Addr(x.off, 1)]
    IN  (x # Empty /\ IsValid(x.off)) =>
          /\ m[1] = "item" /\ BucketOf[m[2]] = b /\ TagOf[m[2]] = x.tag
          /\ ~Odd(version[b]) =>
               /\ m[3] = cur[m[2]].len
               /\ \A j \in 1 .. m[3] : mem[Addr(x.off, j + 1)] = Words(cur[m[2]])[j]

Present(k) ==
  \E i \in Indices :
    LET x == slots[BucketOf[k]][i]
    IN  x.tag = TagOf[k] /\ IsValid(x.off) /\ Holds(x.off, k)

\* A get that reports success returns, whole, the value that was last stored
\* under its key and not deleted, though it copied it without any lock.  A get
\* or test that reports "not found" is right too: no valid item of the key is in
\* its bucket at that moment, wherever sets have moved it meanwhile.
GetIsRight ==
  [][\A t \in Threads :
       /\ (pc[t] = "found" /\ pc'[t] \in {"idle", "move"}) =>
            cur[Key(t)] # NoValue /\ buf[t] = Words(cur[Key(t)])
       /\ (pc[t] \in {"miss", "stale"} /\ pc'[t] \in {"idle", "remove"}) => ~Present(Key(t))]_vars
=============================================================================
