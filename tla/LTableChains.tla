---------------------------- MODULE LTableChains ----------------------------
(***************************************************************************)
(* The hash table of MICA in its lossless configuration                    *)
(* (BasicLosslessLTableConfig in mica/table/ltable.h): nothing is evicted, *)
(* and a full bucket grows a chain of extra buckets that are shared by all *)
(* buckets through a free list.                                            *)
(*                                                                         *)
(* The bucket's version word locks its whole chain; readers walk the chain *)
(* without a lock, and may wander into a bucket that is already free or    *)
(* belongs to another chain.  A version is only compared with an earlier   *)
(* reading of itself, so it is kept as its low bit (locked) and as each    *)
(* reader's answer to that comparison (same); its 32 bits do not wrap.     *)
(* The pool here is what set() and del() use of SegregatedFit: an item at  *)
(* an offset that is live or free, and memory that keeps its bytes until   *)
(* it is allocated again.                                                  *)
(***************************************************************************)
EXTENDS Integers, FiniteSets, Sequences

CONSTANTS
  Mutators, Getters,
  Settings,    \* who shares a table, and how large its pool is
  Nobody,      \* the free list lock when free
  Keys, BucketOf,
  Main,        \* the buckets of the hash table, numbered from 1
  Extra,       \* the extra buckets, numbered on from there
  BucketSize,  \* kBucketSize
  Offsets,     \* places for items in the pool
  Values

Threads == Mutators \cup Getters
Buckets == Main \cup Extra
Indices == 1 .. BucketSize
Nil == 0       \* no extra bucket; an empty item vector; no item

ASSUME ChainsAssumption ==
  /\ Main \subseteq Nat \ {Nil} /\ Extra \subseteq Nat \ {Nil} /\ Main \cap Extra = {}
  /\ IsFiniteSet(Extra) /\ Offsets \subseteq Nat \ {Nil}
  /\ BucketOf \in [Keys -> Main]
  /\ BucketSize \in Nat \ {0} /\ Nil \notin Values
  /\ Nobody \notin Threads /\ Mutators \cap Getters = {}
  /\ Settings \subseteq [threads : SUBSET Threads, room : SUBSET Offsets]
  /\ Settings # {}

VARIABLES
  setting,   \* the threads that share the table, the offsets of its pool
  locked,    \* the main buckets whose version is odd
  next,      \* Bucket::next_extra_bucket_index
  slots,     \* Bucket::item_vec: the offset of an item or Nil
  free,      \* extra_bucket_free_list_.head
  flock,     \* extra_bucket_free_list_.lock
  mem, live, \* the pool: the item at each offset, the offsets in use
  pc, call,
  loc,       \* located_bucket and item_index; a reader's place in the chain
  hand,      \* an extra bucket between a chain and the free list
  item,      \* the offset a set() has allocated, a reader has found
  old,       \* the offset to be released after the unlock
  same,      \* is the version still the reader's version_start?
  buf,       \* the value a reader has copied
  cur        \* ghost: the value under each key

pool == <<mem, live>>
chains == <<next, slots, free, flock>>
locals == <<call, loc, hand, item, old, same, buf>>
vars == <<setting, locked, chains, pool, pc, locals, cur>>

NoCall == [op |-> "none", key |-> Nil, v |-> Nil]
Start(b) == [b |-> b, i |-> 1]

Smallest(S) == CHOOSE x \in S : \A y \in S : x <= y

\* reset() strings all extra buckets together.
FreeNext(b) ==
  IF b \in Main \/ {e \in Extra : e > b} = {} THEN Nil
  ELSE Smallest({e \in Extra : e > b})

Init ==
  /\ setting \in Settings
  /\ locked = {}
  /\ next = [b \in Buckets |-> FreeNext(b)]
  /\ slots = [b \in Buckets |-> [i \in Indices |-> Nil]]
  /\ free = IF Extra = {} THEN Nil ELSE Smallest(Extra)
  /\ flock = Nobody
  /\ mem = [o \in Offsets |-> [key |-> Nil, v |-> Nil]] /\ live = {}
  /\ pc = [t \in Threads |-> "idle"]
  /\ call = [t \in Threads |-> NoCall]
  /\ loc = [t \in Threads |-> Start(Nil)]
  /\ hand = [t \in Threads |-> Nil]
  /\ item = [t \in Threads |-> Nil]
  /\ old = [t \in Threads |-> Nil]
  /\ same = [t \in Threads |-> TRUE]
  /\ buf = [t \in Threads |-> Nil]
  /\ cur = [k \in Keys |-> Nil]

Key(t) == call[t].key
B(t) == BucketOf[Key(t)]
At(t, l) == pc[t] = l
Goto(t, l) == pc' = [pc EXCEPT ![t] = l]

\* The buckets from b on, as next_extra_bucket_index links them.
Chain(b) ==
  LET walk[n \in 0 .. Cardinality(Extra)] ==
        IF n = 0 THEN <<b>>
        ELSE LET w == walk[n - 1]
             IN  IF next[w[Len(w)]] = Nil THEN w ELSE Append(w, next[w[Len(w)]])
  IN  walk[Cardinality(Extra)]

LastOf(c) == c[Len(c)]

\* The first place of a chain, in the order of the scan, that satisfies P.
Places(b, P(_)) ==
  LET c == Chain(b)
      S == { x \in (1 .. Len(c)) \X Indices : P(slots[c[x[1]]][x[2]]) }
      first == CHOOSE x \in S : \A y \in S : x[1] < y[1] \/ (x[1] = y[1] /\ x[2] <= y[2])
  IN  IF S = {} THEN {} ELSE {[b |-> c[first[1]], i |-> first[2]]}

\* Found that looks at the main bucket only.
Found_MainOnly(b, k) ==
  { [b |-> b, i |-> i] : i \in { j \in Indices : slots[b][j] # Nil /\ mem[slots[b][j]].key = k } }

Found(b, k) == Places(b, LAMBDA o : o # Nil /\ mem[o].key = k)
Vacant(b) == Places(b, LAMBDA o : o = Nil)

-----------------------------------------------------------------------------
(* Locks, and the end of an operation.                                     *)

Begin(t, op, k, v) ==
  /\ At(t, "idle") /\ t \in Mutators
  /\ call' = [call EXCEPT ![t] = [op |-> op, key |-> k, v |-> v]]
  /\ Goto(t, "lock")
  /\ UNCHANGED <<locked, chains, pool, loc, hand, item, old, same, buf, cur>>

LockBucket(t) ==
  /\ At(t, "lock") /\ B(t) \notin locked
  /\ locked' = locked \cup {B(t)}
  /\ same' = [g \in Threads |-> same[g] /\ ~(call[g].op = "get" /\ B(g) = B(t))]
  /\ Goto(t, "find")
  /\ UNCHANGED <<chains, pool, call, loc, hand, item, old, buf, cur>>

Reset(t) ==
  /\ call' = [call EXCEPT ![t] = NoCall]
  /\ loc' = [loc EXCEPT ![t] = Start(Nil)]
  /\ item' = [item EXCEPT ![t] = Nil]
  /\ old' = [old EXCEPT ![t] = Nil]
  /\ same' = [same EXCEPT ![t] = TRUE]
  /\ buf' = [buf EXCEPT ![t] = Nil]
  /\ Goto(t, "idle")
  /\ UNCHANGED hand

UnlockBucket(t) ==
  /\ At(t, "unlock")
  /\ locked' = locked \ {B(t)}
  /\ IF old[t] = Nil THEN Reset(t) ELSE Goto(t, "release") /\ UNCHANGED locals
  /\ UNCHANGED <<chains, pool, cur>>

\* set() releases the item it has replaced after the unlock.
Release(t) ==
  /\ At(t, "release")
  /\ live' = live \ {old[t]}
  /\ Reset(t)
  /\ UNCHANGED <<locked, chains, mem, cur>>

-----------------------------------------------------------------------------
(* set()                                                                   *)

Exists(t) ==
  /\ At(t, "find") /\ call[t].op = "add" /\ Found(B(t), Key(t)) # {}
  /\ Goto(t, "unlock")
  /\ UNCHANGED <<locked, chains, pool, locals, cur>>

\* The new value fits the allocation of the old one.
SetInPlace(t) ==
  /\ At(t, "find") /\ call[t].op = "set"
  /\ \E l \in Found(B(t), Key(t)) :
       mem' = [mem EXCEPT ![slots[l.b][l.i]].v = call[t].v]
  /\ cur' = [cur EXCEPT ![Key(t)] = call[t].v]
  /\ Goto(t, "unlock")
  /\ UNCHANGED <<locked, chains, live, locals>>

\* The new value is longer: it gets an allocation of its own.
SetReplace(t) ==
  /\ At(t, "find") /\ call[t].op = "set"
  /\ \E l \in Found(B(t), Key(t)) :
       /\ loc' = [loc EXCEPT ![t] = l]
       /\ old' = [old EXCEPT ![t] = slots[l.b][l.i]]
  /\ Goto(t, "allocate")
  /\ UNCHANGED <<locked, chains, pool, call, hand, item, same, buf, cur>>

\* get_empty(): a free slot of the chain, or one more bucket for it.
SetEmpty(t) ==
  LET V == Vacant(B(t)) IN
  /\ At(t, "find") /\ call[t].op \in {"set", "add"} /\ Found(B(t), Key(t)) = {}
  /\ IF V = {}
     THEN loc' = [loc EXCEPT ![t] = Start(LastOf(Chain(B(t))))] /\ Goto(t, "grow")
     ELSE \E l \in V : loc' = [loc EXCEPT ![t] = l] /\ Goto(t, "allocate")
  /\ UNCHANGED <<locked, chains, pool, call, hand, item, old, same, buf, cur>>

\* GrowTake that does not wait for the free list's lock.
GrowTake_NoLock(t) ==
  /\ At(t, "grow") /\ free # Nil
  /\ flock' = t
  /\ hand' = [hand EXCEPT ![t] = free]
  /\ Goto(t, "unlink")
  /\ UNCHANGED <<locked, next, slots, free, pool, call, loc, item, old, same, buf, cur>>

\* alloc_extra_bucket(): lock, take the head of the free list, link it, unlock.
GrowTake(t) ==
  /\ At(t, "grow") /\ flock = Nobody /\ free # Nil
  /\ flock' = t
  /\ hand' = [hand EXCEPT ![t] = free]
  /\ Goto(t, "unlink")
  /\ UNCHANGED <<locked, next, slots, free, pool, call, loc, item, old, same, buf, cur>>

GrowUnlink(t) ==
  /\ At(t, "unlink")
  /\ free' = next[hand[t]]
  /\ next' = [next EXCEPT ![hand[t]] = Nil]
  /\ Goto(t, "link")
  /\ UNCHANGED <<locked, slots, flock, pool, locals, cur>>

GrowLink(t) ==
  /\ At(t, "link")
  /\ next' = [next EXCEPT ![loc[t].b] = hand[t]]
  /\ flock' = Nobody
  /\ loc' = [loc EXCEPT ![t] = Start(hand[t])]
  /\ hand' = [hand EXCEPT ![t] = Nil]
  /\ Goto(t, "allocate")
  /\ UNCHANGED <<locked, slots, free, pool, call, item, old, same, buf, cur>>

\* kInsufficientSpace: no extra bucket is free.
GrowFails(t) ==
  /\ At(t, "grow") /\ flock = Nobody /\ free = Nil
  /\ Goto(t, "unlock")
  /\ UNCHANGED <<locked, chains, pool, locals, cur>>

\* allocate() and set_item(); offsets are all alike to the table.
Allocate(t) ==
  /\ At(t, "allocate")
  /\ live # setting.room
  /\ LET o == Smallest(setting.room \ live) IN
       /\ live' = live \cup {o}
       /\ mem' = [mem EXCEPT ![o] = [key |-> Key(t), v |-> call[t].v]]
       /\ item' = [item EXCEPT ![t] = o]
  /\ Goto(t, "publish")
  /\ UNCHANGED <<locked, chains, call, loc, hand, old, same, buf, cur>>

\* kInsufficientSpace: the pool is full; a bucket just linked stays, empty.
AllocateFails(t) ==
  /\ At(t, "allocate") /\ live = setting.room
  /\ old' = [old EXCEPT ![t] = Nil]
  /\ Goto(t, "unlock")
  /\ UNCHANGED <<locked, chains, pool, call, loc, hand, item, same, buf, cur>>

Publish(t) ==
  /\ At(t, "publish")
  /\ slots' = [slots EXCEPT ![loc[t].b][loc[t].i] = item[t]]
  /\ cur' = [cur EXCEPT ![Key(t)] = call[t].v]
  /\ Goto(t, "unlock")
  /\ UNCHANGED <<locked, next, free, flock, pool, locals>>

-----------------------------------------------------------------------------
(* del(), whose fill_hole() takes an item from the end of the chain.  The  *)
(* release and the store of the item vector are one step: the bucket is    *)
(* locked, and a reader that sees either state will find it changed.       *)

DelMiss(t) ==
  /\ At(t, "find") /\ call[t].op = "del" /\ Found(B(t), Key(t)) = {}
  /\ Goto(t, "unlock")
  /\ UNCHANGED <<locked, chains, pool, locals, cur>>

Del(t) ==
  /\ At(t, "find") /\ call[t].op = "del"
  /\ \E l \in Found(B(t), Key(t)) :
       /\ live' = live \ {slots[l.b][l.i]}
       /\ slots' = [slots EXCEPT ![l.b][l.i] = Nil]
       /\ loc' = [loc EXCEPT ![t] = l]
  /\ cur' = [cur EXCEPT ![Key(t)] = Nil]
  /\ Goto(t, "fill")
  /\ UNCHANGED <<locked, next, free, flock, mem, call, hand, item, old, same, buf>>

Used(b) == { i \in Indices : slots[b][i] # Nil }

\* prev_extra_bucket: the last bucket but one.
Previous(t) == LET c == Chain(loc[t].b) IN c[Len(c) - 1]

NoHole(t) ==
  /\ At(t, "fill") /\ next[loc[t].b] = Nil
  /\ Goto(t, "unlock")
  /\ UNCHANGED <<locked, chains, pool, locals, cur>>

FillMove(t) ==
  LET last == LastOf(Chain(loc[t].b)) IN
  /\ At(t, "fill") /\ next[loc[t].b] # Nil /\ Used(last) # {}
  /\ slots' = [slots EXCEPT ![loc[t].b][loc[t].i] = slots[last][Smallest(Used(last))]]
  /\ Goto(t, "moved")
  /\ UNCHANGED <<locked, next, free, flock, pool, locals, cur>>

FillClear(t) ==
  LET last == LastOf(Chain(loc[t].b)) IN
  /\ At(t, "moved")
  /\ slots' = [slots EXCEPT ![last][Smallest(Used(last))] = Nil]
  /\ Goto(t, IF Cardinality(Used(last)) = 1 THEN "detach" ELSE "unlock")
  /\ UNCHANGED <<locked, next, free, flock, pool, locals, cur>>

\* The last bucket was empty already: it is freed, and the search starts again.
FillAgain(t) ==
  /\ At(t, "fill") /\ next[loc[t].b] # Nil /\ Used(LastOf(Chain(loc[t].b))) = {}
  /\ hand' = [hand EXCEPT ![t] = next[Previous(t)]]
  /\ next' = [next EXCEPT ![Previous(t)] = Nil]
  /\ Goto(t, "push again")
  /\ UNCHANGED <<locked, slots, free, flock, pool, call, loc, item, old, same, buf, cur>>

\* free_extra_bucket(): detached first, then put on the free list.
FreeDetach(t) ==
  /\ At(t, "detach")
  /\ hand' = [hand EXCEPT ![t] = next[Previous(t)]]
  /\ next' = [next EXCEPT ![Previous(t)] = Nil]
  /\ Goto(t, "push")
  /\ UNCHANGED <<locked, slots, free, flock, pool, call, loc, item, old, same, buf, cur>>

FreeLock(t) ==
  /\ pc[t] \in {"push", "push again"} /\ flock = Nobody
  /\ flock' = t
  /\ next' = [next EXCEPT ![hand[t]] = free]
  /\ Goto(t, IF At(t, "push") THEN "head" ELSE "head again")
  /\ UNCHANGED <<locked, slots, free, pool, locals, cur>>

FreePush(t) ==
  /\ pc[t] \in {"head", "head again"}
  /\ free' = hand[t]
  /\ flock' = Nobody
  /\ hand' = [hand EXCEPT ![t] = Nil]
  /\ Goto(t, IF At(t, "head") THEN "unlock" ELSE "fill")
  /\ UNCHANGED <<locked, next, slots, pool, call, loc, item, old, same, buf, cur>>

-----------------------------------------------------------------------------
(* get(), without a lock.  SegregatedFit has no invalid offsets, so the    *)
(* branch that removes a stale item and move_to_head() are never taken.    *)

Get(t, k) ==
  /\ At(t, "idle") /\ t \in Getters
  /\ call' = [call EXCEPT ![t] = [op |-> "get", key |-> k, v |-> Nil]]
  /\ Goto(t, "begin")
  /\ UNCHANGED <<locked, chains, pool, loc, hand, item, old, same, buf, cur>>

BeginRead(t) ==
  /\ At(t, "begin") /\ B(t) \notin locked
  /\ same' = [same EXCEPT ![t] = TRUE]
  /\ loc' = [loc EXCEPT ![t] = Start(B(t))]
  /\ Goto(t, "scan")
  /\ UNCHANGED <<locked, chains, pool, call, hand, item, old, buf, cur>>

\* One item vector of the walk; the item behind it is read a step later.
Scan(t) ==
  /\ At(t, "scan") /\ loc[t].i <= BucketSize
  /\ LET o == slots[loc[t].b][loc[t].i]
     IN  IF o = Nil
         THEN loc' = [loc EXCEPT ![t].i = @ + 1] /\ UNCHANGED <<item, pc>>
         ELSE item' = [item EXCEPT ![t] = o] /\ Goto(t, "compare") /\ UNCHANGED loc
  /\ UNCHANGED <<locked, chains, pool, call, hand, old, same, buf, cur>>

Compare(t) ==
  /\ At(t, "compare")
  /\ IF mem[item[t]].key = Key(t)
     THEN Goto(t, "load") /\ UNCHANGED loc
     ELSE Goto(t, "scan") /\ loc' = [loc EXCEPT ![t].i = @ + 1]
  /\ UNCHANGED <<locked, chains, pool, call, hand, item, old, same, buf, cur>>

WalkOn(t) ==
  /\ At(t, "scan") /\ loc[t].i > BucketSize
  /\ IF next[loc[t].b] = Nil
     THEN Goto(t, "miss") /\ UNCHANGED loc
     ELSE loc' = [loc EXCEPT ![t] = Start(next[loc[t].b])] /\ UNCHANGED pc
  /\ UNCHANGED <<locked, chains, pool, call, hand, item, old, same, buf, cur>>

\* The located item vector is read again, then the value behind it.
Load(t) ==
  /\ At(t, "load")
  /\ LET o == slots[loc[t].b][loc[t].i]
     IN  \* an offset of 0 reads the first bytes of the pool
         \E v \in IF o = Nil THEN Values ELSE {mem[o].v} : buf' = [buf EXCEPT ![t] = v]
  /\ Goto(t, "hit")
  /\ UNCHANGED <<locked, chains, pool, call, loc, hand, item, old, same, cur>>

\* Unchanged without a look at the version.
Unchanged_Unchecked(t) == TRUE

Unchanged(t) == same[t]

Retry(t) ==
  /\ pc[t] \in {"hit", "miss"} /\ ~Unchanged(t)
  /\ Goto(t, "begin")
  /\ item' = [item EXCEPT ![t] = Nil]
  /\ buf' = [buf EXCEPT ![t] = Nil]
  /\ UNCHANGED <<locked, chains, pool, call, loc, hand, old, same, cur>>

Answer(t) ==
  /\ pc[t] \in {"hit", "miss"} /\ Unchanged(t)
  /\ Reset(t)
  /\ UNCHANGED <<locked, chains, pool, cur>>

-----------------------------------------------------------------------------

Mutating(t) ==
  \/ LockBucket(t) \/ UnlockBucket(t) \/ Release(t) \/ Exists(t)
  \/ SetInPlace(t) \/ SetReplace(t) \/ SetEmpty(t)
  \/ GrowTake(t) \/ GrowUnlink(t) \/ GrowLink(t) \/ GrowFails(t)
  \/ Allocate(t) \/ AllocateFails(t) \/ Publish(t)
  \/ DelMiss(t) \/ Del(t) \/ NoHole(t) \/ FillMove(t) \/ FillClear(t) \/ FillAgain(t)
  \/ FreeDetach(t) \/ FreeLock(t) \/ FreePush(t)

Getting(t) ==
  \/ BeginRead(t) \/ Scan(t) \/ Compare(t) \/ WalkOn(t) \/ Load(t)
  \/ Retry(t) \/ Answer(t)

Next == UNCHANGED setting /\
  \E t \in setting.threads :
    \/ \E k \in Keys : Get(t, k) \/ Begin(t, "del", k, Nil)
    \/ \E k \in Keys, v \in Values, op \in {"set", "add"} : Begin(t, op, k, v)
    \/ Mutating(t) \/ Getting(t)

Spec == Init /\ [][Next]_vars

-----------------------------------------------------------------------------
(* Properties.                                                             *)

Linked(b) == LET c == Chain(b) IN { c[n] : n \in 1 .. Len(c) }
FreeOnes == IF free = Nil THEN {} ELSE Linked(free)
InHand == { hand[t] : t \in Threads } \ {Nil}
Quiet(b) == b \notin locked
ItemsIn(b) == { x \in Linked(b) \X Indices : slots[x[1]][x[2]] # Nil }

\* Type correctness; extra buckets are in one place each when all is quiet.
TypeOK ==
  /\ next \in [Buckets -> Extra \cup {Nil}]
  /\ slots \in [Buckets -> [Indices -> Offsets \cup {Nil}]]
  /\ free \in Extra \cup {Nil}
  /\ live \subseteq setting.room
  /\ hand \in [Threads -> Extra \cup {Nil}]
  /\ \A b \in Main : next[b] # b

\* No extra bucket is in two chains, or in a chain and on the free list, none
\* is lost, and one that is free, or being freed, holds no item: it can be used
\* from its first slot (bucket.h:56-106), whatever two threads grow and shrink.
ExtrasPartitioned ==
  /\ \A b, c \in Main : b # c => Linked(b) \cap Linked(c) = {}
  /\ \A b \in Main : Linked(b) \cap FreeOnes = {}
  /\ FreeOnes \cup InHand \cup UNION { Linked(b) : b \in Main } = Buckets
  /\ \A b \in FreeOnes \cup InHand : Used(b) = {}

\* A quiet chain holds each of its keys once, and just the keys that have a
\* value, at distinct live offsets (set.h:23-126, del.h:19-49).
ChainsHoldKeys ==
  \A b \in Main : Quiet(b) =>
    \A k \in Keys : BucketOf[k] = b =>
      LET S == { x \in ItemsIn(b) : mem[slots[x[1]][x[2]]].key = k }
      IN  IF cur[k] = Nil THEN S = {}
          ELSE \E x \in S : S = {x} /\ slots[x[1]][x[2]] \in live
                            /\ mem[slots[x[1]][x[2]]].v = cur[k]

\* fill_hole() keeps every quiet chain packed (bucket.h:108-158): all buckets
\* but the last are full, so no more than one bucket of a chain is wasted.
ChainsPacked ==
  \A b \in Main : Quiet(b) =>
    \A c \in Linked(b) : next[c] # Nil => Used(c) = Indices

\* The chains and the free list between them, as far as no key is concerned.
ChainsSound == TypeOK /\ ExtrasPartitioned /\ ChainsPacked

\* A get that answers has the value its key holds at that moment, or finds that
\* the key is not in the table, although it may have wandered through freed
\* buckets and reused items (get.h:22-93).
GetIsRight ==
  \A t \in Getters : Unchanged(t) =>
    /\ pc[t] = "hit" => buf[t] = cur[Key(t)]
    /\ pc[t] = "miss" => cur[Key(t)] = Nil
=============================================================================
