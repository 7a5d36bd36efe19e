---------------------------- MODULE LTableProofs ----------------------------
(***************************************************************************)
(* Theorems about LTable, for any threads, keys, buckets, slots and sizes  *)
(* of the log.  What concerns the buckets holds without more; what depends *)
(* on where offsets lead is shown for the time before the offsets come     *)
(* round, and for lengths of values that keep to what set() and            *)
(* move_to_head() can bear (LengthsApart, OneLength).                      *)
(***************************************************************************)
EXTENDS LTable, WellFoundedInduction, TLAPS

-----------------------------------------------------------------------------
(* Remainders, least elements.                                             *)

\* The defining equation of quotient and remainder: where a ring counter is.
LEMMA ModDef ==
  ASSUME NEW a \in Int, NEW M \in Nat \ {0}
  PROVE  /\ a % M \in 0 .. M - 1
         /\ a \div M \in Int
         /\ a = (M * (a \div M)) + (a % M)
BY SMT

\* A positive multiple of the ring size is at least one turn of the ring.
LEMMA OneTurn ==
  ASSUME NEW k \in Int, NEW M \in Nat \ {0}, k >= 1
  PROVE  M * k >= M
BY SMT

\* Two numbers whose difference is less than one turn and a whole number of
\* turns are equal.
LEMMA NoTurn ==
  ASSUME NEW k \in Int, NEW M \in Nat \ {0}, -M < M * k, M * k < M
  PROVE  k = 0
<1>1. CASE k >= 1
  BY <1>1, OneTurn
<1>2. CASE -k >= 1
  <2>1. M * (-k) >= M
    BY <1>2, OneTurn
  <2>2. M * (-k) = -(M * k)
    OBVIOUS
  <2> QED
    BY <2>1, <2>2
<1> QED
  BY <1>1, <1>2

\* Counters less than one turn apart are at different addresses.
LEMMA ModDistinct ==
  ASSUME NEW a \in Int, NEW b \in Int, NEW M \in Nat \ {0}, a < b, b - a < M
  PROVE  a % M # b % M
<1> SUFFICES ASSUME a % M = b % M PROVE FALSE
  OBVIOUS
<1> DEFINE k == (b \div M) - (a \div M)
<1>1. /\ a \div M \in Int /\ b \div M \in Int
      /\ a = (M * (a \div M)) + (a % M)
      /\ b = (M * (b \div M)) + (b % M)
      /\ a % M \in 0 .. M - 1
  BY ModDef
<1>2. k \in Int /\ M * k = b - a
  BY <1>1
<1> HIDE DEF k
<1>3. k = 0
  BY <1>2, NoTurn
<1> QED
  BY <1>2, <1>3

\* d is a whole number of turns of a ring of M cells.
Turns(M, d) == \E k \in Int : d = M * k

\* Counters a whole number of turns apart are at the same address.
LEMMA ModEqual ==
  ASSUME NEW a \in Int, NEW b \in Int, NEW M \in Nat \ {0}, Turns(M, a - b)
  PROVE  a % M = b % M
<1>1. PICK k \in Int : a - b = M * k
  BY DEF Turns
<1> DEFINE p == a \div M
           q == b \div M
           r == a % M
           s == b % M
           n == k - (p - q)
<1>2. p \in Int /\ r \in 0 .. M - 1 /\ a = (M * p) + r
  BY ModDef
<1>3. q \in Int /\ s \in 0 .. M - 1 /\ b = (M * q) + s
  BY ModDef
<1> HIDE DEF p, q, r, s
<1>4. n \in Int /\ M * n = r - s
  BY <1>1, <1>2, <1>3
<1> HIDE DEF n
<1>5. n = 0
  BY <1>2, <1>3, <1>4, NoTurn
<1> QED
  BY <1>2, <1>3, <1>4, <1>5 DEF r, s

\* A counter that has not gone round once is its own address.
LEMMA ModSmall ==
  ASSUME NEW M \in Nat \ {0}, NEW a \in 0 .. M - 1
  PROVE  a % M = a
BY SMT

\* A set of naturals that is not empty has a least element.
LEMMA LeastElement ==
  ASSUME NEW T \in SUBSET Nat, T # {}
  PROVE  \E x \in T : \A y \in T : x <= y
<1>1. IsWellFoundedOn(OpToRel(<, Nat), Nat)
  BY NatLessThanWellFounded
<1>2. \A x, y \in Nat : x < y => <<x, y>> \in OpToRel(<, Nat)
  BY DEF OpToRel
<1>3. \E x \in T : \A y \in T : ~ (<<y, x>> \in OpToRel(<, Nat))
  BY <1>1, WFMin
<1> DEFINE R == OpToRel(<, Nat)
<1>4. \A x, y \in Nat : x < y => <<x, y>> \in R
  BY <1>2
<1>5. \E x \in T : \A y \in T : ~ (<<y, x>> \in R)
  BY <1>3
<1> HIDE DEF R
<1>6. PICK x \in T : \A y \in T : ~ (<<y, x>> \in R)
  BY <1>5
<1>7. ASSUME NEW y \in T PROVE x <= y
  <2>1. x \in Nat /\ y \in Nat
    OBVIOUS
  <2>2. ~(y < x)
    BY <1>4, <1>6, <2>1
  <2> QED
    BY <2>1, <2>2
<1> QED
  BY <1>7

-----------------------------------------------------------------------------
(* The buckets.                                                            *)

\* Where a thread holds its bucket's lock, where the pool's, and where it reads.
Inside == { "find", "pool", "alloc", "inplace", "fill", "publish", "unlock", "move_pool", "copy" }
InPool == { "alloc", "inplace", "fill", "copy" }
Comparing == { "compare", "load", "value", "validate", "stale", "found" }
Reading == { "scan", "miss", "hit" } \cup Comparing
Moving == { "move", "move_lock", "move_pool", "copy" }

Op(t) == call[t].op
Stores(t) == Op(t) \in { "set", "add" }
Moves(t) == pc[t] \in Moving \/ (pc[t] = "alloc" /\ Op(t) = "get")
Slot(t) == slots[B(t)][idx[t]]

\* Which calls a thread may be in at each point.
FlowOf(t) ==
  /\ call[t].len \in Nat
  /\ pc[t] # "idle" => t \in crew /\ Key(t) \in Keys
  /\ pc[t] \notin Reading \cup { "idle", "begin" } => t \in Mutators
  /\ pc[t] = "find" => Op(t) \in { "set", "add", "del", "increment" }
  /\ pc[t] \in { "pool", "inplace" } => Op(t) \in { "set", "add", "increment" }
  /\ pc[t] = "alloc" => Op(t) \in { "set", "add", "get" }
  /\ pc[t] \in { "fill", "publish" } => Stores(t)
  /\ pc[t] \in { "load", "value", "validate", "stale", "found", "remove" } \cup Moving => Op(t) = "get"
  /\ pc[t] \in Reading \cup { "begin" } => Op(t) \in { "get", "test" }
  /\ step[t] > 0 => Op(t) \in { "set", "add", "increment" }
  /\ pc[t] \notin { "inplace", "fill", "publish", "unlock", "sweep", "clear" } => step[t] = 0

\* The words of the log, and what may be read where a size or a length is expected.
Shape ==
  /\ \A a \in 0 .. Size - 1 : /\ mem[a][1] = "header" => mem[a][2] \in Nat
                              /\ mem[a][1] = "item" => mem[a][3] \in Nat
Flow ==
  /\ crew \in Teams /\ DOMAIN call = Threads /\ DOMAIN buf = Threads /\ DOMAIN cur = Keys
  /\ \A t \in Threads : FlowOf(t)

\* A version is odd while one thread, and no other, works on the bucket; one
\* thread at most is in the pool.
HasBucket(t, b) == \/ pc[t] \in Inside /\ B(t) = b
                   \/ pc[t] = "clear" /\ sweep[t][1] = b
Locked ==
  /\ \A b \in Buckets : Odd(version[b]) <=> \E t \in Threads : HasBucket(t, b)
  /\ \A b \in Buckets : \A s, t \in Threads : HasBucket(s, b) /\ HasBucket(t, b) => s = t
  /\ \A s, t \in Threads : pc[s] \in InPool /\ pc[t] \in InPool => s = t
  /\ Mode = 2 => \A t \in Threads : pc[t] \in InPool => plock = t

\* The slot a thread has settled on.
Settled(t) ==
  /\ pc[t] \in { "pool", "alloc", "fill", "publish" } /\ Stores(t) =>
       idx[t] \in Indices /\ \A i \in Indices : i # idx[t] => slots[B(t)][i].tag # Tag(t)
  /\ pc[t] \in Comparing \cup { "remove" } \/ Moves(t) => idx[t] \in Indices
  /\ pc[t] \in Reading => ver[t] <= version[B(t)] /\ ~Odd(ver[t])
  /\ pc[t] \in Comparing /\ version[B(t)] = ver[t] => vec[t] = Slot(t) /\ vec[t].tag = Tag(t)
  /\ Moves(t) => vec[t].tag = Tag(t)
  /\ pc[t] = "copy" \/ (pc[t] = "alloc" /\ Op(t) = "get") => Slot(t) = vec[t]
Tagged ==
  /\ OneSlotPerTag
  /\ \A b \in Buckets, i \in Indices : slots[b][i].tag = 0 => slots[b][i] = Empty

Basic == TypeOK /\ Flow /\ Shape /\ Locked /\ Tagged /\ \A t \in Threads : Settled(t)

-----------------------------------------------------------------------------
(* The steps of a thread.                                                  *)

Step(t) == Start(t) \/ Continue(t)

\* A reader's steps, and those of a mutator before it locks its bucket again.
Looks(t) ==
  \/ \E op \in { "get", "test" }, k \in Keys : BeginRead(t, op, k)
  \/ ReadAgain(t) \/ Scan(t) \/ Compare(t) \/ Load(t) \/ CopyValue(t) \/ Validate(t)
  \/ Retry(t) \/ NotFound(t) \/ TestFound(t) \/ Found(t) \/ MoveNeeded(t)

\* The steps that look at the bucket under its lock, or fail.
Searches(t) == SetExists(t) \/ SetLocate(t) \/ IncrementLocate(t) \/ IncrementFails(t)

\* The steps into the pool.
EntersPool(t) == SetInPlace(t) \/ SetNew(t) \/ Increment(t) \/ MoveCheck(t)

Begins(t) ==
  \/ \E op \in { "set", "add" }, k \in Keys, v \in 0 .. MaxValue, l \in Lens : Begin(t, op, k, v, l)
  \/ \E op \in { "del", "increment" }, k \in Keys : Begin(t, op, k, 0, 0)

LEMMA StepKinds ==
  ASSUME NEW t, Step(t)
  PROVE  \/ Looks(t) \/ Searches(t) \/ EntersPool(t) \/ Begins(t)
         \/ SweepLock(t) \/ MoveLock(t) \/ RemoveStale(t) \/ Unlock(t) \/ SweepBucket(t)
         \/ Del(t) \/ Publish(t) \/ PopHead(t) \/ PushTail(t) \/ WriteWord(t) \/ UnlockPool(t)
         \/ MoveItem(t)
BY DEF Step, Start, Continue, Looks, Searches, EntersPool, Begins

LEMMA Sizes == 
  /\ NumBuckets \in Nat \ {0} /\ BucketSize \in Nat \ {0} /\ Size \in Nat \ {0}
  /\ OffsetMod \in Nat \ {0} /\ OffsetMod >= 4 * Size
  /\ Buckets = 0 .. NumBuckets - 1 /\ Indices = 1 .. BucketSize
  /\ BucketOf \in [Keys -> Buckets] /\ TagOf \in [Keys -> Nat \ {0}]
  /\ Lens \subseteq Nat /\ MaxValue \in Nat /\ Mode \in { 1, 2 } /\ Nobody \notin Threads
BY TableAssumption, LogAssumption, BoundAssumption DEF Buckets, Indices

\* What a thread keeps to itself no other thread changes.
Apart(t) ==
  \A s \in Threads : s # t =>
    /\ pc'[s] = pc[s] /\ call'[s] = call[s] /\ idx'[s] = idx[s] /\ vec'[s] = vec[s]
    /\ ver'[s] = ver[s] /\ at'[s] = at[s] /\ step'[s] = step[s] /\ buf'[s] = buf[s]
    /\ sweep'[s] = sweep[s]

LEMMA ThreadsApart ==
  ASSUME TypeOK, Flow, NEW t \in Threads, Step(t)
  PROVE  Apart(t)
<1>1. CASE Looks(t)
  BY <1>1 DEF Looks, TypeOK, Flow, Apart, Goto, Return, locals, BeginRead, ReadAgain, Scan, Compare,
     Load, CopyValue, Validate, Retry, NotFound, TestFound, Found, MoveNeeded
<1>2. CASE Searches(t)
  BY <1>2 DEF Searches, TypeOK, Flow, Apart, Goto, locals, SetExists, SetLocate, IncrementLocate, IncrementFails
<1>3. CASE EntersPool(t)
  BY <1>3 DEF EntersPool, TypeOK, Flow, Apart, Goto, locals, SetInPlace, SetNew, Increment, MoveCheck
<1>4. CASE Begins(t)
  BY <1>4 DEF Begins, TypeOK, Flow, Apart, Goto, Begin
<1>5. CASE SweepLock(t) \/ MoveLock(t) \/ RemoveStale(t)
  BY <1>5 DEF TypeOK, Flow, Apart, Goto, locals, SweepLock, MoveLock, RemoveStale
<1>6. CASE Unlock(t) \/ SweepBucket(t)
  BY <1>6 DEF TypeOK, Flow, Apart, Goto, locals, Return, Unlock, SweepBucket
<1>7. CASE Del(t) \/ Publish(t) \/ PopHead(t) \/ PushTail(t)
  BY <1>7 DEF TypeOK, Flow, Apart, Goto, locals, Del, Publish, PopHead, PushTail
<1>8. CASE WriteWord(t) \/ UnlockPool(t) \/ MoveItem(t)
  BY <1>8 DEF TypeOK, Flow, Apart, Goto, locals, WriteWord, UnlockPool, MoveItem
<1> QED
  BY StepKinds, <1>1, <1>2, <1>3, <1>4, <1>5, <1>6, <1>7, <1>8

-----------------------------------------------------------------------------
(* Searching a bucket.                                                     *)

LEMMA FirstOf ==
  ASSUME NEW I \in SUBSET Indices, I # {}
  PROVE  First(I) \in I
<1>1. I \in SUBSET Nat
  BY Sizes
<1> QED
  BY <1>1, LeastElement DEF First

\* find_item_index() returns a slot of the key, if one leads to an item of it.
LEMMA LocatedIs ==
  ASSUME NEW b, NEW k
  PROVE  LET i == Located(b, k) IN
         \/ i \in Indices /\ slots[b][i].tag = TagOf[k] /\ Holds(slots[b][i].off, k)
         \/ i = 0 /\ \A j \in Indices : ~(slots[b][j].tag = TagOf[k] /\ Holds(slots[b][j].off, k))
<1> DEFINE I == { i \in Indices : slots[b][i].tag = TagOf[k] /\ Holds(slots[b][i].off, k) }
<1>1. Located(b, k) = IF I = {} THEN 0 ELSE First(I)
  BY DEF Located
<1>2. I # {} => First(I) \in I
  BY FirstOf
<1> QED
  BY <1>1, <1>2

\* The slot a set() takes is the only one that may have its tag.
LEMMA VictimIs ==
  ASSUME TypeOK, Tagged, NEW b \in Buckets, NEW k \in Keys
  PROVE  /\ Victim(b, k) \in Indices
         /\ \A i \in Indices : i # Victim(b, k) => slots[b][i].tag # TagOf[k]
<1> DEFINE S == { i \in Indices : slots[b][i].tag = TagOf[k] }
           E == { i \in Indices : slots[b][i] = Empty }
           D(i) == Distance(slots[b][i].off)
           O == { i \in Indices : \A j \in Indices : D(j) <= D(i) }
<1>1. Victim(b, k) = IF S # {} THEN First(S) ELSE EmptyOrOldest(b)
  BY DEF Victim
<1>2. EmptyOrOldest(b) = IF E # {} THEN First(E) ELSE First(O)
  BY DEF EmptyOrOldest
<1>3. O # {}
  <2>1. \A i \in Indices : D(i) \in 0 .. Size - 1
    <3>1. \A i \in Indices : tail - slots[b][i].off \in Int
      BY DEF TypeOK, Item
    <3> QED
      BY <3>1, ModDef, Sizes DEF Distance
  <2> HIDE DEF D
  <2> DEFINE T == { Size - D(i) : i \in Indices }
  <2>2. T \in SUBSET Nat /\ T # {}
    <3>1. 1 \in Indices
      BY Sizes
    <3>2. \A i \in Indices : Size - D(i) \in Nat
      BY <2>1, Sizes
    <3> QED
      BY <3>1, <3>2
  <2>3. PICK x \in T : \A y \in T : x <= y
    BY <2>2, LeastElement
  <2>4. PICK i \in Indices : x = Size - D(i)
    BY <2>3
  <2>5. \A j \in Indices : Size - D(i) <= Size - D(j)
    BY <2>3, <2>4
  <2>6. \A j \in Indices : D(j) <= D(i)
    BY <2>1, <2>5, Sizes
  <2> QED
    BY <2>6
<1>4. /\ S # {} => First(S) \in S
      /\ E # {} => First(E) \in E
      /\ First(O) \in O
  BY <1>3, FirstOf
<1>5. TagOf[k] # 0
  BY Sizes
<1>6. \A i, j \in S : i = j
  BY <1>5 DEF Tagged, OneSlotPerTag, Empty
<1> HIDE DEF D
<1> QED
  BY <1>1, <1>2, <1>4, <1>6

LEMMA SweepBuckets ==
  ASSUME NEW pos \in Nat
  PROVE  SweepAt(pos) \in Buckets
<1> DEFINE W == 2 * NumBuckets
           S == OffsetMod \div W
<1>1. OffsetMod % W = 0 /\ W \in Nat \ {0} /\ NumBuckets \in Nat \ {0} /\ OffsetMod \in Nat \ {0}
  BY LogAssumption, Sizes
<1> HIDE DEF W
<1>2. S \in Int /\ OffsetMod = W * S
  <2>1. /\ OffsetMod \div W \in Int
        /\ OffsetMod = (W * (OffsetMod \div W)) + (OffsetMod % W)
    BY <1>1, ModDef
  <2>2. W * (OffsetMod \div W) \in Int
    BY <1>1, <2>1
  <2> QED
    BY <1>1, <2>1, <2>2
<1> HIDE DEF S
<1>3. S \in Nat \ {0}
  <2>1. CASE S <= 0
    <3>1. W * S <= 0
      BY <1>1, <1>2, <2>1
    <3> QED
      BY <1>1, <1>2, <3>1
  <2> QED
    BY <1>2, <2>1
<1>4. pos \div S \in Int
  BY <1>3, ModDef
<1>5. (pos \div S) % NumBuckets \in 0 .. NumBuckets - 1
  BY <1>1, <1>4, ModDef
<1> QED
  BY <1>5, Sizes DEF SweepAt, S, W

\* What may be read as a size or a length is a number.
LEMMA ReadNumbers ==
  ASSUME TypeOK, Shape, NEW p \in Nat, NEW j \in Nat
  PROVE  /\ Addr(p, j) \in 0 .. Size - 1
         /\ SizesAt(Addr(p, j)) \subseteq Nat /\ LensAt(Addr(p, j)) \subseteq Nat
         /\ p % Size \in 0 .. Size - 1 /\ SizesAt(p % Size) \subseteq Nat
<1>1. Addr(p, j) \in 0 .. Size - 1 /\ p % Size \in 0 .. Size - 1
  <2>1. Size \in Nat \ {0} /\ p + j \in Int /\ p \in Int
    BY Sizes
  <2> QED
    BY <2>1, ModDef DEF Addr
<1>2. ASSUME NEW a \in 0 .. Size - 1 PROVE SizesAt(a) \subseteq Nat /\ LensAt(a) \subseteq Nat
  <2>1. /\ mem[a][1] = "header" => mem[a][2] \in Nat
        /\ mem[a][1] = "item" => mem[a][3] \in Nat
    BY DEF Shape
  <2>2. 0 .. Size + 1 \subseteq Nat /\ Lens \cup { TooLong } \subseteq Nat
    BY Sizes DEF TooLong
  <2> QED
    BY <2>1, <2>2 DEF SizesAt, LensAt
<1> QED
  BY <1>1, <1>2

-----------------------------------------------------------------------------
(* Types and calls.                                                        *)

LEMMA CallTypes ==
  ASSUME TypeOK, Flow, NEW t \in Threads
  PROVE  /\ Need(t) \in Nat /\ Need(t) >= 2 /\ call[t].len \in Nat
         /\ pc[t] # "idle" => Key(t) \in Keys /\ B(t) \in Buckets /\ Tag(t) \in Nat \ {0}
BY Sizes DEF Flow, FlowOf, Need, Key, B, Tag

\* A thread's own variables keep their types.
LocalTypes ==
  /\ pc \in [Threads -> Locations]
  /\ idx \in [Threads -> 0 .. BucketSize] /\ vec \in [Threads -> Item]
  /\ ver \in [Threads -> Nat] /\ at \in [Threads -> Nat] /\ step \in [Threads -> Nat]
  /\ sweep \in [Threads -> Buckets \X Buckets]
  /\ DOMAIN call = Threads /\ DOMAIN buf = Threads

LEMMA LocalTypesKept ==
  ASSUME Basic, NEW t \in Threads, Step(t)
  PROVE  LocalTypes'
<1> USE DEF LocalTypes, Goto
<1>1. LocalTypes /\ TypeOK /\ Flow /\ Tagged
  BY DEF Basic, TypeOK, Flow
<1>2. /\ version \in [Buckets -> Nat] /\ slots \in [Buckets -> [Indices -> Item]] /\ tail \in Nat
      /\ Indices = 1 .. BucketSize /\ Empty \in Item /\ <<0, 0>> \in Buckets \X Buckets
      /\ BucketSize \in Nat \ {0}
  <2>1. Empty \in Item
    BY DEF Empty, Item
  <2>2. <<0, 0>> \in Buckets \X Buckets
    BY Sizes
  <2> QED
    BY <1>1, <2>1, <2>2, Sizes DEF TypeOK
<1>3. Need(t) \in Nat /\ (pc[t] # "idle" => Key(t) \in Keys /\ B(t) \in Buckets /\ Tag(t) \in Nat \ {0})
  BY <1>1, CallTypes
<1>4. Return(t) => LocalTypes'
  BY <1>1, <1>2 DEF Return, Locations
<1>5. CASE Looks(t)
  <2>1. CASE \E op \in { "get", "test" }, k \in Keys : BeginRead(t, op, k)
    <3>1. PICK op \in { "get", "test" }, k \in Keys : BeginRead(t, op, k)
      BY <2>1
    <3>2. version[BucketOf[k]] \in Nat
      BY <1>2, Sizes
    <3> QED
      BY <1>1, <3>1, <3>2 DEF BeginRead, Locations
  <2>2. CASE Compare(t) \/ CopyValue(t) \/ Validate(t) \/ Retry(t)
    <3>1. CASE Compare(t)
      BY <1>1, <3>1 DEF locals, Compare, Locations
    <3>2. CASE CopyValue(t)
      BY <1>1, <3>2 DEF CopyValue, Locations
    <3>3. CASE Validate(t)
      BY <1>1, <3>3 DEF locals, Validate, Locations
    <3>4. CASE Retry(t)
      BY <1>1, <1>2, <3>4 DEF Retry, Locations
    <3> QED
      BY <2>2, <3>1, <3>2, <3>3, <3>4
  <2>6. CASE ReadAgain(t)
    <3>1. version[B(t)] \in Nat
      BY <1>2, <1>3, <2>6 DEF ReadAgain
    <3> QED
      BY <1>1, <2>6, <3>1 DEF ReadAgain, Locations
  <2>5. CASE Load(t)
    <3>1. idx[t] \in Indices
      BY <2>5 DEF Load, Basic, Settled, Comparing
    <3>2. slots[B(t)][idx[t]] \in Item
      BY <1>2, <1>3, <2>5, <3>1 DEF Load
    <3> QED
      BY <1>1, <2>5, <3>2 DEF Load, Locations
  <2>3. CASE Scan(t)
    <3> DEFINE I == { i \in Indices : i > idx[t] /\ slots[B(t)][i].tag = Tag(t) }
    <3>1. I # {} => First(I) \in Indices
      BY FirstOf
    <3> HIDE DEF I
    <3>2. /\ pc[t] = "scan" /\ UNCHANGED <<call, ver, at, step, buf, sweep>>
          /\ \/ pc' = [pc EXCEPT ![t] = "miss"] /\ UNCHANGED <<idx, vec>>
             \/ /\ pc' = [pc EXCEPT ![t] = "compare"] /\ I # {}
                /\ idx' = [idx EXCEPT ![t] = First(I)]
                /\ vec' = [vec EXCEPT ![t] = slots[B(t)][First(I)]]
      BY <2>3 DEF Scan, I
    <3>3. CASE pc' = [pc EXCEPT ![t] = "miss"] /\ UNCHANGED <<idx, vec>>
      BY <1>1, <3>2, <3>3 DEF Locations
    <3>4. CASE /\ pc' = [pc EXCEPT ![t] = "compare"] /\ I # {}
               /\ idx' = [idx EXCEPT ![t] = First(I)]
               /\ vec' = [vec EXCEPT ![t] = slots[B(t)][First(I)]]
      <4>1. slots[B(t)][First(I)] \in Item /\ First(I) \in 0 .. BucketSize
        BY <1>2, <1>3, <3>1, <3>2, <3>4
      <4> QED
        BY <1>1, <3>2, <3>4, <4>1 DEF Locations
    <3> QED
      BY <3>2, <3>3, <3>4
  <2>4. CASE NotFound(t) \/ TestFound(t) \/ Found(t) \/ MoveNeeded(t)
    BY ZenonT(40), <1>1, <1>2, <1>4, <2>4 DEF locals, NotFound, TestFound, Found, MoveNeeded, Locations
  <2> QED
    BY <1>5, <2>1, <2>2, <2>3, <2>4, <2>5, <2>6 DEF Looks
<1>6. CASE Searches(t)
  <2>1. CASE SetExists(t) \/ IncrementFails(t)
    BY <1>1, <2>1 DEF SetExists, IncrementFails, locals, Locations
  <2>2. CASE SetLocate(t)
    <3>1. /\ Located(B(t), Key(t)) \in 0 .. BucketSize
          /\ Located(B(t), Key(t)) # 0 => Located(B(t), Key(t)) \in Indices
          /\ pc[t] = "find" => Victim(B(t), Key(t)) \in Indices
      BY SMTT(30), <1>1, <1>2, <1>3, LocatedIs, VictimIs
    <3> QED
      BY SMTT(30), <1>1, <1>2, <1>3, <2>2, <3>1 DEF SetLocate, Locations
  <2>3. CASE IncrementLocate(t)
    <3>1. Located(B(t), Key(t)) # 0 => Located(B(t), Key(t)) \in Indices
      BY <1>2, <1>3, LocatedIs
    <3> QED
      BY <1>1, <1>2, <1>3, <2>3, <3>1 DEF IncrementLocate, Locations
  <2> QED
    BY <1>6, <2>1, <2>2, <2>3 DEF Searches
<1>7. CASE EntersPool(t)
  <2>1. vec[t].off \in Nat /\ 1 \in Nat
    BY <1>1 DEF Item
  <2>2. CASE SetInPlace(t)
    BY <1>1, <2>1, <2>2 DEF SetInPlace, Locations
  <2>3. CASE SetNew(t) \/ MoveCheck(t)
    BY <1>1, <2>3 DEF SetNew, MoveCheck, locals, Locations
  <2>4. CASE Increment(t)
    BY <1>1, <2>1, <2>4 DEF Increment, Locations
  <2> QED
    BY <1>7, <2>2, <2>3, <2>4 DEF EntersPool
<1>8. CASE Begins(t)
  BY <1>1, <1>8 DEF Begins, Begin, Locations
<1>9. CASE SweepLock(t) \/ MoveLock(t) \/ RemoveStale(t)
  BY <1>1, <1>9 DEF SweepLock, MoveLock, RemoveStale, locals, Locations
<1>10. CASE Unlock(t)
  BY <1>1, <1>4, <1>10 DEF Unlock, locals, Locations
<1>11. CASE SweepBucket(t)
  <2>1. sweep[t] \in Buckets \X Buckets /\ (sweep[t][1] + 1) % NumBuckets \in Buckets
    <3>1. sweep[t] \in Buckets \X Buckets /\ sweep[t][1] \in Nat
      BY <1>1, Sizes
    <3>2. (sweep[t][1] + 1) % NumBuckets \in Buckets
      <4>1. sweep[t][1] + 1 \in Int
        BY <3>1
      <4> QED
        BY <3>1, <4>1, ModDef, Sizes
    <3> QED
      BY <3>1, <3>2
  <2>2. CASE Return(t)
    BY <1>4, <2>2
  <2>3. CASE ~Return(t)
    <3> DEFINE s == <<(sweep[t][1] + 1) % NumBuckets, sweep[t][2]>>
    <3>1. s \in Buckets \X Buckets
      BY <2>1
    <3>2. /\ pc[t] = "clear" /\ pc' = [pc EXCEPT ![t] = "sweep"] /\ sweep' = [sweep EXCEPT ![t] = s]
          /\ UNCHANGED <<call, idx, vec, ver, at, step, buf>>
      BY <1>11, <2>3 DEF SweepBucket
    <3> HIDE DEF s
    <3> QED
      BY <1>1, <3>1, <3>2 DEF Locations
  <2> QED
    BY <2>2, <2>3
<1>12. CASE Del(t)
  <2>1. Located(B(t), Key(t)) \in 0 .. BucketSize
    BY <1>2, LocatedIs
  <2> QED
    BY <1>1, <1>12, <2>1 DEF Del, Locations
<1>13. CASE Publish(t) \/ PopHead(t)
  BY <1>1, <1>13 DEF Publish, PopHead, locals, Locations
<1>14. CASE PushTail(t)
  <2>1. tail % OffsetMod \in Nat
    BY <1>2, ModDef, Sizes
  <2>2. SweepAt(tail) \in Buckets /\ SweepAt(tail + Need(t)) \in Buckets
    BY SMTT(30), <1>2, <1>3, SweepBuckets
  <2> QED
    BY <1>1, <1>14, <2>1, <2>2 DEF PushTail, Locations
<1>15. CASE WriteWord(t) \/ UnlockPool(t) \/ MoveItem(t)
  BY <1>1, <1>15 DEF WriteWord, UnlockPool, MoveItem, locals, Locations
<1> QED
  BY StepKinds, <1>5, <1>6, <1>7, <1>8, <1>9, <1>10, <1>11, <1>12, <1>13, <1>14, <1>15

LEMMA SlotReplaced ==
  ASSUME NEW f \in [Buckets -> [Indices -> Item]], NEW b, NEW i, NEW x \in Item
  PROVE  /\ [f EXCEPT ![b][i] = x] \in [Buckets -> [Indices -> Item]]
         /\ \A c \in Buckets, j \in Indices :
              [f EXCEPT ![b][i] = x][c][j] = IF c = b /\ j = i THEN x ELSE f[c][j]
<1>1. [f EXCEPT ![b][i] = x] = [c \in Buckets |-> IF c = b THEN [f[b] EXCEPT ![i] = x] ELSE f[c]]
  OBVIOUS
<1>2. \A c \in Buckets : [f[c] EXCEPT ![i] = x] = [j \in Indices |-> IF j = i THEN x ELSE f[c][j]]
  OBVIOUS
<1> QED
  BY <1>1, <1>2

\* The shared variables keep theirs.
SharedTypes ==
  /\ version \in [Buckets -> Nat]
  /\ slots \in [Buckets -> [Indices -> Item]]
  /\ head \in Nat /\ tail \in Nat /\ plock \in Threads \cup {Nobody}
  /\ DOMAIN mem = 0 .. Size - 1 /\ DOMAIN cur = Keys

\* A set() puts its tag and what it has written into its slot.
LEMMA SharedTypesKept ==
  ASSUME Basic, NEW t \in Threads, Step(t)
  PROVE  SharedTypes'
<1> USE DEF SharedTypes
<1>1. SharedTypes
  BY DEF Basic, TypeOK, Flow
<1>2. /\ TypeOK /\ Flow /\ Shape /\ Tagged
      /\ at[t] \in Nat /\ vec[t] \in Item /\ sweep[t][1] \in Buckets /\ Empty \in Item
  BY Sizes DEF Basic, TypeOK, Empty, Item
<1>3. Need(t) \in Nat /\ (pc[t] # "idle" => Key(t) \in Keys /\ B(t) \in Buckets /\ Tag(t) \in Nat \ {0})
  BY <1>2, CallTypes
<1>4. FreePool \/ LockPool(t) => plock' \in Threads \cup {Nobody}
  BY <1>1 DEF FreePool, LockPool
<1>5. \A b \in Buckets : LockBucket(b) \/ UnlockBucket(b) => version' \in [Buckets -> Nat]
  BY <1>1 DEF LockBucket, UnlockBucket
<1>6. CASE Looks(t)
  BY <1>1, <1>6 DEF Looks, table, log, BeginRead, ReadAgain, Scan, Compare, Load, CopyValue, Validate,
     Retry, NotFound, TestFound, Found, MoveNeeded
<1>7. CASE Searches(t)
  BY <1>1, <1>7 DEF Searches, table, log, SetExists, SetLocate, IncrementLocate, IncrementFails
<1>8. CASE EntersPool(t)
  BY <1>1, <1>4, <1>8 DEF EntersPool, table, SetInPlace, SetNew, Increment, MoveCheck
<1>9. CASE Begins(t)
  BY <1>1, <1>5, <1>9, Sizes DEF Begins, Begin, log
<1>10. CASE SweepLock(t) \/ MoveLock(t)
  BY <1>1, <1>2, <1>3, <1>5, <1>10 DEF SweepLock, MoveLock, log, Goto
<1>11. CASE RemoveStale(t)
  BY <1>1, <1>2, <1>3, <1>5, <1>11 DEF RemoveStale, log, Goto
<1>12. CASE Unlock(t)
  <2>1. B(t) \in Buckets
    BY <1>3, <1>12 DEF Unlock
  <2>2. UnlockBucket(B(t)) /\ UNCHANGED <<slots, log>> /\ DOMAIN cur' = DOMAIN cur
    BY <1>12 DEF Unlock
  <2> QED
    BY <1>1, <1>5, <2>1, <2>2 DEF log
<1>13. CASE SweepBucket(t)
  <2>1. /\ UnlockBucket(sweep[t][1]) /\ UNCHANGED <<log, cur>>
        /\ slots' = [slots EXCEPT ![sweep[t][1]] = [i \in Indices |->
             IF IsValid(slots[sweep[t][1]][i].off) THEN slots[sweep[t][1]][i] ELSE Empty]]
    BY <1>13 DEF SweepBucket
  <2> QED
    BY <1>1, <1>2, <1>5, <2>1 DEF log
<1>14. CASE Del(t) \/ Publish(t)
  <2>1. [tag |-> Tag(t), off |-> at[t]] \in Item
    BY <1>2, <1>3, <1>14 DEF Del, Publish, Goto, Item
  <2>2. \/ slots' = slots
        \/ \E i : slots' = [slots EXCEPT ![B(t)][i] = Empty]
        \/ slots' = [slots EXCEPT ![B(t)][idx[t]] = [tag |-> Tag(t), off |-> at[t]]]
    BY <1>14 DEF Del, Publish
  <2>3. slots' \in [Buckets -> [Indices -> Item]]
    <3>1. ASSUME NEW i, slots' = [slots EXCEPT ![B(t)][i] = Empty]
          PROVE  slots' \in [Buckets -> [Indices -> Item]]
      <4>1. slots \in [Buckets -> [Indices -> Item]] /\ Empty \in Item
        BY <1>1, <1>2
      <4>2. [slots EXCEPT ![B(t)][i] = Empty] \in [Buckets -> [Indices -> Item]]
        BY ONLY <4>1, SlotReplaced
      <4> QED
        BY <3>1, <4>2
    <3>2. CASE slots' = [slots EXCEPT ![B(t)][idx[t]] = [tag |-> Tag(t), off |-> at[t]]]
      BY <1>1, <2>1, <3>2, SlotReplaced
    <3> QED
      BY <1>1, <2>2, <3>1, <3>2
  <2> QED
    BY <1>1, <1>14, <2>3 DEF Del, Publish, log
<1>15. CASE PopHead(t)
  <2>1. SizesAt(head % Size) \subseteq Nat
    BY <1>1, <1>2, ReadNumbers
  <2> QED
    BY <1>1, <2>1, <1>15 DEF PopHead, table
<1>16. CASE PushTail(t) \/ WriteWord(t)
  BY <1>1, <1>3, <1>16 DEF PushTail, WriteWord, table
<1>17. CASE UnlockPool(t)
  BY <1>1, <1>4, <1>17 DEF UnlockPool, table
<1>18. CASE MoveItem(t)
  <2>1. [tag |-> vec[t].tag, off |-> at[t]] \in Item
    BY <1>2 DEF Item
  <2>2. /\ UNCHANGED <<version, head, tail, cur>> /\ DOMAIN mem' = DOMAIN mem
        /\ slots' \in { slots, [slots EXCEPT ![B(t)][idx[t]] = [tag |-> vec[t].tag, off |-> at[t]]] }
        /\ FreePool
    BY <1>18 DEF MoveItem
  <2>3. slots' \in [Buckets -> [Indices -> Item]]
    <3>1. CASE slots' = [slots EXCEPT ![B(t)][idx[t]] = [tag |-> vec[t].tag, off |-> at[t]]]
      BY <1>1, <2>1, <3>1, SlotReplaced
    <3> QED
      BY <1>1, <2>2, <3>1
  <2> QED
    BY <1>1, <1>4, <2>2, <2>3
<1> QED
  BY StepKinds, <1>6, <1>7, <1>8, <1>9, <1>10, <1>11, <1>12, <1>13, <1>14, <1>15, <1>16, <1>17, <1>18

LEMMA TypesKept ==
  ASSUME Basic, NEW t \in Threads, Step(t)
  PROVE  TypeOK'
BY LocalTypesKept, SharedTypesKept DEF LocalTypes, SharedTypes, TypeOK

LEMMA ShapeKept ==
  ASSUME Basic, NEW t \in Threads, Step(t)
  PROVE  Shape'
<1> DEFINE Fine(w) == (w[1] = "header" => w[2] \in Nat) /\ (w[1] = "item" => w[3] \in Nat)
<1>1. \A a \in 0 .. Size - 1 : Fine(mem[a])
  BY DEF Basic, Shape
<1>2. SUFFICES \A a \in 0 .. Size - 1 : Fine(mem'[a])
  BY DEF Shape
<1>3. /\ DOMAIN mem = 0 .. Size - 1 /\ vec[t].off \in Nat /\ at[t] \in Nat
      /\ TypeOK /\ Shape /\ Flow /\ step[t] \in Nat /\ head \in Nat /\ tail \in Nat
  BY DEF Basic, TypeOK, Item
<1>4. Need(t) \in Nat /\ call[t].len \in Nat
  BY <1>3, CallTypes
<1>5. CASE PushTail(t)
  <2>1. Fine(Header(Need(t)))
    BY <1>4 DEF Header
  <2>2. mem' = [mem EXCEPT ![tail % Size] = Header(Need(t))]
    BY <1>5 DEF PushTail
  <2> HIDE DEF Fine
  <2> QED
    BY <1>1, <1>3, <2>1, <2>2
<1>6. CASE WriteWord(t)
  <2>1. Fine(Meta(Key(t), call[t].len))
    BY <1>4 DEF Meta
  <2>2. \A v, j : Fine(Word(v, j))
    BY DEF Word
  <2> DEFINE j == step[t] + 1
             w == IF j = 1 THEN Meta(Key(t), call[t].len) ELSE Word(call[t].v, j - 1)
  <2>3. Fine(w)
    BY <2>1, <2>2
  <2>4. mem' = [mem EXCEPT ![Addr(at[t], j)] = w]
    BY <1>6 DEF WriteWord
  <2> HIDE DEF Fine, w, j
  <2> QED
    BY <1>1, <1>3, <2>3, <2>4
<1>7. CASE MoveItem(t)
  <2> DEFINE From(a) == Addr(vec[t].off, (a - at[t]) % Size)
  <2>1. \A a \in 0 .. Size - 1 : From(a) \in 0 .. Size - 1
    <3>1. ASSUME NEW a \in 0 .. Size - 1 PROVE (a - at[t]) % Size \in Nat
      <4>1. a - at[t] \in Int /\ Size \in Nat \ {0}
        BY <1>3, Sizes
      <4> QED
        BY <4>1, ModDef
    <3> QED
      BY <1>3, <3>1, ReadNumbers
  <2>2. \A a \in 0 .. Size - 1 : mem'[a] \in { mem[a], mem[From(a)] }
    BY <1>3, <1>7 DEF MoveItem
  <2> HIDE DEF Fine, From
  <2> QED
    BY <1>1, <2>1, <2>2
<1>8. CASE UNCHANGED mem
  BY <1>1, <1>8
<1>9. \/ UNCHANGED mem \/ PushTail(t) \/ WriteWord(t) \/ MoveItem(t)
  BY StepKinds DEF Looks, Searches, EntersPool, Begins, log, BeginRead, ReadAgain, Scan, Compare,
     Load, CopyValue, Validate, Retry, NotFound, TestFound, Found, MoveNeeded, SetExists, SetLocate,
     IncrementLocate, IncrementFails, SetInPlace, SetNew, Increment, MoveCheck, Begin, SweepLock,
     MoveLock, RemoveStale, Unlock, SweepBucket, Del, Publish, PopHead, UnlockPool
<1> QED
  BY <1>5, <1>6, <1>7, <1>8, <1>9

\* A thread's calls and places fit together.
LEMMA FlowKept ==
  ASSUME Basic, NEW t \in Threads, t \in crew, crew' = crew, Step(t)
  PROVE  Flow'
<1> USE DEF Key, Op, Stores, Goto
<1>1. /\ TypeOK /\ Flow /\ Shape /\ FlowOf(t) /\ DOMAIN call = Threads /\ pc \in [Threads -> Locations]
      /\ step \in [Threads -> Nat] /\ vec[t].off \in Nat
      /\ idx[t] \in 0 .. BucketSize
  BY DEF Basic, Flow, TypeOK, Item
<1>2. LocalTypes' /\ SharedTypes'
  BY LocalTypesKept, SharedTypesKept
<1>3. SUFFICES FlowOf(t)'
  <2>1. \A s \in Threads : s # t => FlowOf(s)'
    BY <1>1, ThreadsApart DEF Apart, FlowOf, Flow
  <2> QED
    BY <1>1, <1>2, <1>3, <2>1 DEF Flow, LocalTypes, SharedTypes
<1> USE DEF FlowOf, Reading, Comparing, Moving
<1>4. Return(t) => FlowOf(t)'
  BY <1>1 DEF Return, NoCall
<1>5. CASE Looks(t)
  <2>1. CASE \E op \in { "get", "test" }, k \in Keys : BeginRead(t, op, k)
    BY <1>1, <2>1 DEF BeginRead
  <2>2. CASE ReadAgain(t) \/ Scan(t) \/ Compare(t) \/ CopyValue(t) \/ Validate(t)
    BY <1>1, <2>2 DEF ReadAgain, Scan, Compare, CopyValue, Validate, locals
  <2>3. CASE Load(t)
    <3>1. \A p \in Nat : LensAt(Addr(p, 1)) \subseteq Nat
      BY <1>1, ReadNumbers
    <3>2. slots[B(t)][idx[t]].off \in Nat
      <4>1. idx[t] \in Indices /\ B(t) \in Buckets
        BY <1>1, <2>3, CallTypes DEF Basic, Settled, Load
      <4> QED
        BY <1>1, <4>1 DEF TypeOK, Item
    <3> QED
      BY <1>1, <2>3, <3>1, <3>2 DEF Load
  <2>4. CASE Retry(t)
    BY <1>1, <2>4 DEF Retry
  <2>5. CASE NotFound(t) \/ TestFound(t) \/ Found(t) \/ MoveNeeded(t)
    BY <1>1, <1>4, <2>5 DEF NotFound, TestFound, Found, MoveNeeded, locals
  <2> QED
    BY <1>5, <2>1, <2>2, <2>3, <2>4, <2>5 DEF Looks
<1>6. CASE Searches(t)
  BY <1>1, <1>6 DEF Searches, SetExists, SetLocate, IncrementLocate, IncrementFails, locals
<1>7. CASE EntersPool(t)
  <2>1. CASE SetInPlace(t) \/ SetNew(t) \/ MoveCheck(t)
    BY <1>1, <2>1 DEF SetInPlace, SetNew, MoveCheck, locals
  <2>2. CASE Increment(t)
    BY SMTT(60), <1>1, <2>2 DEF Increment
  <2> QED
    BY <1>7, <2>1, <2>2 DEF EntersPool
<1>8. CASE Begins(t)
  <2>1. PICK op \in { "set", "add", "del", "increment" }, k \in Keys, v \in Nat, l \in Nat :
          Begin(t, op, k, v, l)
    BY <1>8, Sizes DEF Begins
  <2> QED
    BY <1>1, <2>1 DEF Begin
<1>9. CASE SweepLock(t) \/ MoveLock(t) \/ RemoveStale(t)
  BY <1>1, <1>9 DEF SweepLock, MoveLock, RemoveStale, locals
<1>10. CASE Unlock(t)
  BY <1>1, <1>4, <1>10 DEF Unlock, locals
<1>11. CASE SweepBucket(t)
  BY <1>1, <1>4, <1>11 DEF SweepBucket
<1>12. CASE Del(t) \/ Publish(t) \/ PopHead(t) \/ PushTail(t)
  BY <1>1, <1>12 DEF Del, Publish, PopHead, PushTail, locals
<1>13. CASE WriteWord(t)
  BY <1>1, <1>13 DEF WriteWord
<1>14. CASE UnlockPool(t) \/ MoveItem(t)
  BY <1>1, <1>14 DEF UnlockPool, MoveItem, locals
<1> QED
  BY StepKinds, <1>5, <1>6, <1>7, <1>8, <1>9, <1>10, <1>11, <1>12, <1>13, <1>14

-----------------------------------------------------------------------------
(* The locks.                                                              *)

LEMMA OddFlips ==
  ASSUME NEW n \in Nat
  PROVE  Odd(n + 1) <=> ~Odd(n)
BY DEF Odd

\* In mode 1 one mutator works on the table.
LEMMA OneMutator ==
  ASSUME Flow, Mode = 1, NEW s \in Mutators \cap crew, NEW t \in Mutators \cap crew
  PROVE  s = t
BY TableAssumption DEF Flow

\* What a step does to the versions and to the bucket its thread works on.
Acquires(t, b) ==
  /\ version' = [version EXCEPT ![b] = version[b] + 1] /\ ~Odd(version[b])
  /\ \A c \in Buckets : ~HasBucket(t, c) /\ (HasBucket(t, c)' <=> c = b)
Releases(t, b) ==
  /\ version' = [version EXCEPT ![b] = version[b] + 1]
  /\ \A c \in Buckets : (HasBucket(t, c) <=> c = b) /\ ~HasBucket(t, c)'
Keeps(t) == version' = version /\ \A c \in Buckets : HasBucket(t, c)' <=> HasBucket(t, c)

LEMMA LooksOutside ==
  ASSUME Basic, NEW t \in Threads, Looks(t)
  PROVE  /\ pc[t] \in { "idle", "begin", "move" } \cup Reading
         /\ pc'[t] \in { "idle", "begin", "remove", "move", "move_lock" } \cup Reading
         /\ UNCHANGED <<version, slots, head, tail, mem, plock, cur>>
<1> USE DEF Goto, locals, log, table, Return, Reading, Comparing
<1>1. pc \in [Threads -> Locations]
  BY DEF Basic, TypeOK
<1>2. CASE \E op \in { "get", "test" }, k \in Keys : BeginRead(t, op, k)
  BY <1>1, <1>2 DEF BeginRead
<1>3. CASE ReadAgain(t) \/ Scan(t) \/ Compare(t) \/ Load(t) \/ CopyValue(t) \/ Validate(t)
  BY <1>1, <1>3 DEF ReadAgain, Scan, Compare, Load, CopyValue, Validate
<1>4. CASE Retry(t) \/ NotFound(t) \/ TestFound(t) \/ Found(t) \/ MoveNeeded(t)
  BY <1>1, <1>4 DEF Retry, NotFound, TestFound, Found, MoveNeeded
<1> QED
  BY <1>2, <1>3, <1>4, Looks(t) DEF Looks

LEMMA LockKinds ==
  ASSUME Basic, NEW t \in Threads, Step(t)
  PROVE  Keeps(t) \/ \E b \in Buckets : Acquires(t, b) \/ Releases(t, b)
<1> USE DEF Goto, HasBucket, Inside, B, Key
<1>1. /\ pc \in [Threads -> Locations] /\ DOMAIN call = Threads /\ sweep \in [Threads -> Buckets \X Buckets]
      /\ pc[t] # "idle" => B(t) \in Buckets
  BY CallTypes DEF Basic, TypeOK, Flow
<1>2. CASE Looks(t)
  BY <1>2, LooksOutside DEF Keeps, Reading, Comparing
<1>3. CASE Searches(t)
  BY <1>1, <1>3 DEF Keeps, Searches, SetExists, SetLocate, IncrementLocate, IncrementFails, table, locals
<1>4. CASE EntersPool(t)
  <2>1. CASE SetInPlace(t)
    BY <1>1, <2>1 DEF Keeps, SetInPlace, table
  <2>2. CASE SetNew(t) \/ MoveCheck(t)
    BY <1>1, <2>2 DEF Keeps, SetNew, MoveCheck, table, locals
  <2>3. CASE Increment(t)
    <3>1. call'[t].key = call[t].key /\ version' = version
      BY <1>1, <2>3 DEF Increment, table
    <3> QED
      BY <1>1, <2>3, <3>1 DEF Keeps, Increment
  <2> QED
    BY <1>4, <2>1, <2>2, <2>3 DEF EntersPool
<1>5. CASE Begins(t)
  <2>1. PICK op \in { "set", "add", "del", "increment" }, k \in Keys, v \in Nat, l \in Nat : Begin(t, op, k, v, l)
    BY <1>5, Sizes DEF Begins
  <2>2. BucketOf[k] \in Buckets
    BY Sizes
  <2>3. Acquires(t, BucketOf[k])
    BY <1>1, <2>1 DEF Begin, Acquires, LockBucket
  <2> QED
    BY <2>2, <2>3
<1>6. CASE SweepLock(t)
  <2>1. PICK b \in Buckets : b = sweep[t][1]
    BY <1>1
  <2>2. Acquires(t, b)
    BY <1>1, <1>6, <2>1 DEF SweepLock, Acquires, LockBucket, locals
  <2> QED
    BY <2>2
<1>7. CASE MoveLock(t) \/ RemoveStale(t)
  <2>1. PICK b \in Buckets : b = B(t)
    BY <1>1, <1>7 DEF MoveLock, RemoveStale
  <2>2. Acquires(t, b)
    BY <1>1, <1>7, <2>1 DEF MoveLock, RemoveStale, Acquires, LockBucket, locals
  <2> QED
    BY <2>2
<1>8. CASE Unlock(t)
  <2>1. pc'[t] \in { "idle", "sweep" } /\ pc[t] = "unlock" /\ UnlockBucket(B(t))
    BY <1>1, <1>8 DEF Unlock, Return
  <2>2. PICK b \in Buckets : b = B(t)
    BY <1>1, <2>1
  <2>3. Releases(t, b)
    BY <1>1, <2>1, <2>2 DEF Releases, UnlockBucket
  <2> QED
    BY <2>3
<1>9. CASE SweepBucket(t)
  <2>1. pc'[t] \in { "idle", "sweep" } /\ pc[t] = "clear" /\ UnlockBucket(sweep[t][1])
    BY <1>1, <1>9 DEF SweepBucket, Return
  <2>2. PICK b \in Buckets : b = sweep[t][1]
    BY <1>1
  <2>3. Releases(t, b)
    BY <1>1, <2>1, <2>2 DEF Releases, UnlockBucket
  <2> QED
    BY <2>3
<1>10. CASE Del(t) \/ Publish(t) \/ PopHead(t) \/ PushTail(t) \/ WriteWord(t)
  BY <1>1, <1>10 DEF Keeps, Del, Publish, PopHead, PushTail, WriteWord, table, locals
<1>11. CASE UnlockPool(t) \/ MoveItem(t)
  BY <1>1, <1>11 DEF Keeps, UnlockPool, MoveItem, table, locals
<1> QED
  BY StepKinds, <1>2, <1>3, <1>4, <1>5, <1>6, <1>7, <1>8, <1>9, <1>10, <1>11

\* What a step does to the pool's lock.
LEMMA PoolKinds ==
  ASSUME Basic, NEW t \in Threads, Step(t)
  PROVE  \/ pc[t] \notin InPool /\ pc'[t] \notin InPool /\ plock' = plock
         \/ pc[t] \notin InPool /\ pc'[t] \in InPool /\ LockPool(t)
         \/ pc[t] \in InPool /\ pc'[t] \in InPool /\ plock' = plock
         \/ pc[t] \in InPool /\ pc'[t] \notin InPool /\ FreePool
<1> USE DEF Goto, InPool
<1>1. pc \in [Threads -> Locations]
  BY DEF Basic, TypeOK
<1>2. CASE Looks(t)
  BY <1>2, LooksOutside DEF Reading, Comparing
<1>3. CASE Searches(t)
  BY <1>1, <1>3 DEF Searches, SetExists, SetLocate, IncrementLocate, IncrementFails, log
<1>4. CASE EntersPool(t)
  BY <1>1, <1>4 DEF EntersPool, SetInPlace, SetNew, Increment, MoveCheck, LockPool
<1>5. CASE Begins(t)
  BY <1>1, <1>5 DEF Begins, Begin, log
<1>6. CASE SweepLock(t) \/ MoveLock(t) \/ RemoveStale(t) \/ Del(t) \/ Publish(t)
  BY <1>1, <1>6 DEF SweepLock, MoveLock, RemoveStale, Del, Publish, log
<1>7. CASE Unlock(t) \/ SweepBucket(t)
  BY <1>1, <1>7 DEF Unlock, SweepBucket, Return, log
<1>8. CASE PopHead(t) \/ PushTail(t) \/ WriteWord(t)
  BY <1>1, <1>8 DEF PopHead, PushTail, WriteWord
<1>9. CASE UnlockPool(t) \/ MoveItem(t)
  BY <1>1, <1>9 DEF UnlockPool, MoveItem
<1> QED
  BY StepKinds, <1>2, <1>3, <1>4, <1>5, <1>6, <1>7, <1>8, <1>9

LEMMA BucketsApart ==
  ASSUME TypeOK, Flow, NEW t \in Threads, Step(t)
  PROVE  \A s \in Threads, b \in Buckets : s # t => (HasBucket(s, b)' <=> HasBucket(s, b))
BY ThreadsApart DEF Apart, HasBucket, B, Key

LEMMA LockedKept ==
  ASSUME Basic, NEW t \in Threads, t \in crew, Step(t)
  PROVE  Locked'
<1>1. /\ \A b \in Buckets : Odd(version[b]) <=> \E s \in Threads : HasBucket(s, b)
      /\ \A b \in Buckets : \A r, s \in Threads : HasBucket(r, b) /\ HasBucket(s, b) => r = s
      /\ \A r, s \in Threads : pc[r] \in InPool /\ pc[s] \in InPool => r = s
      /\ Mode = 2 => \A s \in Threads : pc[s] \in InPool => plock = s
  BY DEF Basic, Locked
<1>2. TypeOK /\ Flow /\ version \in [Buckets -> Nat]
  BY DEF Basic, TypeOK
<1>3. \A s \in Threads, b \in Buckets : s # t => (HasBucket(s, b)' <=> HasBucket(s, b))
  BY <1>2, BucketsApart
<1>4. \A s \in Threads : s # t => pc'[s] = pc[s]
  BY <1>2, ThreadsApart DEF Apart
<1>5. /\ \A b \in Buckets : Odd(version'[b]) <=> \E s \in Threads : HasBucket(s, b)'
      /\ \A b \in Buckets : \A r, s \in Threads : HasBucket(r, b)' /\ HasBucket(s, b)' => r = s
  <2>1. CASE Keeps(t)
    <3>1. version' = version /\ \A s \in Threads, b \in Buckets : HasBucket(s, b)' <=> HasBucket(s, b)
      BY <1>3, <2>1 DEF Keeps
    <3> QED
      BY <1>1, <3>1
  <2>2. ASSUME NEW b \in Buckets, Acquires(t, b) \/ Releases(t, b)
        PROVE  /\ \A c \in Buckets : Odd(version'[c]) <=> \E s \in Threads : HasBucket(s, c)'
               /\ \A c \in Buckets : \A r, s \in Threads : HasBucket(r, c)' /\ HasBucket(s, c)' => r = s
    <3>1. /\ \A c \in Buckets : version'[c] = IF c = b THEN version[b] + 1 ELSE version[c]
          /\ Odd(version[b] + 1) <=> ~Odd(version[b])
      BY <1>2, <2>2, OddFlips DEF Acquires, Releases
    <3>2. CASE Acquires(t, b)
      <4>1. ~Odd(version[b]) /\ \A c \in Buckets : ~HasBucket(t, c) /\ (HasBucket(t, c)' <=> c = b)
        BY <3>2 DEF Acquires
      <4> HIDE DEF Acquires
      <4> QED
        BY <1>1, <1>3, <3>1, <4>1
    <3>3. CASE Releases(t, b)
      <4>1. \A c \in Buckets : (HasBucket(t, c) <=> c = b) /\ ~HasBucket(t, c)'
        BY <3>3 DEF Releases
      <4> QED
        BY <1>1, <1>3, <3>1, <4>1
    <3> QED
      BY <2>2, <3>2, <3>3
  <2> QED
    BY <2>1, <2>2, LockKinds
<1>6. /\ \A r, s \in Threads : pc'[r] \in InPool /\ pc'[s] \in InPool => r = s
      /\ Mode = 2 => \A s \in Threads : pc'[s] \in InPool => plock' = s
  <2>1. CASE pc[t] \in InPool
    <3>1. \A s \in Threads : s # t => pc'[s] \notin InPool
      BY <1>1, <1>4, <2>1
    <3> QED
      BY <1>1, <2>1, <3>1, PoolKinds DEF FreePool
  <2>2. CASE pc[t] \notin InPool /\ pc'[t] \notin InPool /\ plock' = plock
    BY <1>1, <1>4, <2>2
  <2>3. CASE pc[t] \notin InPool /\ pc'[t] \in InPool /\ LockPool(t)
    <3>1. \A s \in Threads : s # t => pc'[s] \notin InPool
      <4>1. CASE Mode = 2
        BY <1>1, <1>4, <2>3, <4>1, Sizes DEF LockPool
      <4>2. CASE Mode = 1
        <5>1. \A s \in Threads : pc[s] \in InPool => s \in Mutators \cap crew
          BY <1>2 DEF Flow, FlowOf, InPool, Reading, Comparing
        <5>2. t \in Mutators
          <6>2. EntersPool(t)
            <7>1. ~Looks(t)
              BY <2>3, LooksOutside DEF InPool, Reading, Comparing
            <7> USE DEF InPool, Goto
            <7>2. pc \in [Threads -> Locations]
              BY <1>2 DEF TypeOK
            <7>3. ~Searches(t)
              BY <2>3, <7>2 DEF Searches, SetExists, SetLocate, IncrementLocate, IncrementFails
            <7>4. ~(Begins(t) \/ SweepLock(t) \/ MoveLock(t) \/ RemoveStale(t) \/ Del(t) \/ Publish(t))
              BY <2>3, <7>2 DEF Begins, Begin, SweepLock, MoveLock, RemoveStale, Del, Publish
            <7>5. ~(Unlock(t) \/ SweepBucket(t))
              BY <2>3, <7>2 DEF Unlock, SweepBucket, Return
            <7>6. ~(PopHead(t) \/ PushTail(t) \/ WriteWord(t) \/ UnlockPool(t) \/ MoveItem(t))
              BY <2>3, <7>2 DEF PopHead, PushTail, WriteWord, UnlockPool, MoveItem
            <7> QED
              BY StepKinds, <7>1, <7>3, <7>4, <7>5, <7>6
          <6> QED
            BY <1>2, <6>2 DEF EntersPool, SetInPlace, SetNew, Increment, MoveCheck, Goto, Flow, FlowOf,
               Reading, Comparing
        <5> QED
          BY <1>2, <1>4, <4>2, <5>1, <5>2, <2>3, OneMutator
      <4> QED
        BY <4>1, <4>2, Sizes
    <3> QED
      BY <2>3, <3>1 DEF LockPool
  <2> QED
    BY <2>1, <2>2, <2>3, PoolKinds
<1> QED
  BY <1>5, <1>6 DEF Locked

-----------------------------------------------------------------------------
(* The slots.                                                              *)

\* What a step does to the slots: it clears some, or puts its item into its own.
Clears == \A b \in Buckets, i \in Indices : slots'[b][i] \in { slots[b][i], Empty }
Puts(t) ==
  /\ pc[t] = "publish" \/ (pc[t] = "copy" /\ IsValid(vec[t].off))
  /\ \A b \in Buckets, i \in Indices :
       slots'[b][i] = IF b = B(t) /\ i = idx[t] THEN [tag |-> Tag(t), off |-> at[t]] ELSE slots[b][i]

LEMMA SlotKinds ==
  ASSUME Basic, NEW t \in Threads, Step(t)
  PROVE  /\ Clears \/ Puts(t)
         /\ \A b \in Buckets : slots'[b] # slots[b] => HasBucket(t, b) \/ HasBucket(t, b)'
<1> USE DEF Goto, HasBucket, Inside
<1>1. /\ pc \in [Threads -> Locations] /\ slots \in [Buckets -> [Indices -> Item]] /\ DOMAIN call = Threads
      /\ pc[t] # "idle" => B(t) \in Buckets
      /\ sweep \in [Threads -> Buckets \X Buckets] /\ at[t] \in Nat /\ Empty \in Item
  BY CallTypes DEF Basic, TypeOK, Flow, Empty, Item
<1>2. \A b \in Buckets : \A i :
        /\ [slots EXCEPT ![b][i] = Empty] \in [Buckets -> [Indices -> Item]]
        /\ \A c \in Buckets, j \in Indices :
             [slots EXCEPT ![b][i] = Empty][c][j] = IF c = b /\ j = i THEN Empty ELSE slots[c][j]
  <2>1. slots \in [Buckets -> [Indices -> Item]] /\ Empty \in Item
    BY <1>1
  <2> QED
    BY ONLY <2>1, SlotReplaced
<1>3. CASE slots' = slots
  BY <1>1, <1>3 DEF Clears
<1>4. CASE Del(t) \/ RemoveStale(t)
  <2>1. PICK b \in Buckets : b = B(t)
    BY <1>1, <1>4 DEF Del, RemoveStale
  <2>2. slots' = slots \/ \E i : slots' = [slots EXCEPT ![b][i] = Empty]
    BY <1>4, <2>1 DEF Del, RemoveStale
  <2>3. \A c \in Buckets, j \in Indices : slots'[c][j] \in { slots[c][j], Empty }
    BY <1>1, <1>2, <2>2
  <2>4. \A c \in Buckets : c # b => slots'[c] = slots[c]
    BY <1>1, <2>2
  <2>5. HasBucket(t, b) \/ HasBucket(t, b)'
    BY <1>1, <1>4, <2>1 DEF Del, RemoveStale, B, Key, locals
  <2> QED
    BY <2>3, <2>4, <2>5 DEF Clears
<1>5. CASE SweepBucket(t)
  <2>1. PICK b \in Buckets : b = sweep[t][1]
    BY <1>1
  <2>2. /\ pc[t] = "clear"
        /\ slots' = [slots EXCEPT ![b] = [i \in Indices |-> IF IsValid(slots[b][i].off) THEN slots[b][i] ELSE Empty]]
    BY <1>5, <2>1 DEF SweepBucket
  <2>3. Clears /\ \A c \in Buckets : c # b => slots'[c] = slots[c]
    BY <1>1, <2>2 DEF Clears
  <2> QED
    BY <2>1, <2>2, <2>3
<1>6. CASE Publish(t) \/ MoveItem(t)
  <2>1. PICK b \in Buckets : b = B(t)
    BY <1>1, <1>6 DEF Publish, MoveItem
  <2>2. PICK x \in Item : x = [tag |-> Tag(t), off |-> at[t]]
    <3>1. Tag(t) \in Nat
      BY <1>1, <1>6, CallTypes DEF Basic, Publish, MoveItem
    <3> QED
      BY <1>1, <3>1 DEF Item
  <2>3. pc[t] = "copy" => vec[t].tag = Tag(t)
    BY DEF Basic, Settled, Moves, Moving
  <2>4. \/ slots' = slots
        \/ slots' = [slots EXCEPT ![b][idx[t]] = x] /\ (pc[t] = "publish" \/ (pc[t] = "copy" /\ IsValid(vec[t].off)))
    BY <1>6, <2>1, <2>2, <2>3 DEF Publish, MoveItem
  <2>5. CASE slots' = [slots EXCEPT ![b][idx[t]] = x] /\ (pc[t] = "publish" \/ (pc[t] = "copy" /\ IsValid(vec[t].off)))
    <3>1. \A c \in Buckets, j \in Indices : slots'[c][j] = IF c = b /\ j = idx[t] THEN x ELSE slots[c][j]
      BY <1>1, <2>5, SlotReplaced
    <3>2. \A c \in Buckets : c # b => slots'[c] = slots[c]
      BY <1>1, <2>5
    <3>3. Puts(t)
      BY <2>1, <2>2, <2>5, <3>1 DEF Puts
    <3> QED
      BY <2>1, <2>5, <3>2, <3>3
  <2> QED
    BY <1>3, <2>4, <2>5
<1>7. \/ slots' = slots \/ Del(t) \/ RemoveStale(t) \/ SweepBucket(t) \/ Publish(t) \/ MoveItem(t)
  BY StepKinds DEF Looks, Searches, EntersPool, Begins, table, BeginRead, ReadAgain, Scan, Compare,
     Load, CopyValue, Validate, Retry, NotFound, TestFound, Found, MoveNeeded, SetExists, SetLocate,
     IncrementLocate, IncrementFails, SetInPlace, SetNew, Increment, MoveCheck, Begin, SweepLock,
     MoveLock, Unlock, PopHead, PushTail, WriteWord, UnlockPool
<1> QED
  BY <1>3, <1>4, <1>5, <1>6, <1>7

LEMMA TaggedKept ==
  ASSUME Basic, NEW t \in Threads, Step(t)
  PROVE  Tagged'
<1>1. /\ \A b \in Buckets, i \in Indices : slots[b][i].tag = 0 => slots[b][i] = Empty
      /\ \A b \in Buckets : \A i, j \in Indices :
           (slots[b][i] # Empty /\ slots[b][i].tag = slots[b][j].tag) => i = j
      /\ Empty.tag = 0
  BY DEF Basic, Tagged, OneSlotPerTag, Empty
<1>2. CASE Clears
  BY <1>1, <1>2 DEF Clears, Tagged, OneSlotPerTag
<1>3. CASE Puts(t)
  <2>1. Tag(t) # 0 /\ B(t) \in Buckets /\ idx[t] \in Indices
    BY <1>3, CallTypes DEF Basic, Puts, Settled, Moves, Moving, Flow, FlowOf
  <2>2. \A i \in Indices : i # idx[t] => slots[B(t)][i].tag # Tag(t)
    <3>1. CASE pc[t] = "publish"
      BY <3>1 DEF Basic, Settled, Flow, FlowOf
    <3>2. CASE pc[t] = "copy"
      <4>1. slots[B(t)][idx[t]].tag = Tag(t)
        BY <3>2 DEF Basic, Settled, Slot, Moves, Moving
      <4> QED
        BY <1>1, <2>1, <4>1
    <3> QED
      BY <1>3, <3>1, <3>2 DEF Puts
  <2> DEFINE x == [tag |-> Tag(t), off |-> at[t]]
  <2>3. x.tag = Tag(t)
    OBVIOUS
  <2>4. \A b \in Buckets, i \in Indices : slots'[b][i] = IF b = B(t) /\ i = idx[t] THEN x ELSE slots[b][i]
    BY <1>3 DEF Puts
  <2> HIDE DEF x
  <2> QED
    BY <1>1, <2>1, <2>2, <2>3, <2>4 DEF Tagged, OneSlotPerTag
<1> QED
  BY <1>2, <1>3, SlotKinds

\* The values stored change with the bucket locked.
LEMMA CurKinds ==
  ASSUME Basic, NEW t \in Threads, Step(t)
  PROVE  \/ cur' = cur
         \/ /\ Unlock(t) /\ HasBucket(t, B(t)) /\ B(t) \in Buckets
            /\ \A k \in Keys : k # Key(t) => cur'[k] = cur[k]
<1>1. CASE Unlock(t)
  <2>1. HasBucket(t, B(t)) /\ B(t) \in Buckets
    BY <1>1, CallTypes DEF Unlock, HasBucket, Inside, Basic
  <2> QED
    BY <1>1, <2>1 DEF Unlock
<1>2. CASE ~Unlock(t)
  BY <1>2, StepKinds DEF Looks, Searches, EntersPool, Begins, BeginRead, ReadAgain, Scan, Compare,
     Load, CopyValue, Validate, Retry, NotFound, TestFound, Found, MoveNeeded, SetExists, SetLocate,
     IncrementLocate, IncrementFails, SetInPlace, SetNew, Increment, MoveCheck, Begin, SweepLock,
     MoveLock, PopHead, PushTail, WriteWord, UnlockPool, Del, RemoveStale, SweepBucket, Publish, MoveItem
<1> QED
  BY <1>1, <1>2

\* A bucket is left alone by a step of another thread while one works on it,
\* and by any step that leaves its version alone while no one does.
LeftAlone(b) ==
  /\ slots'[b] = slots[b] /\ version'[b] = version[b]
  /\ \A k \in Keys : BucketOf[k] = b => cur'[k] = cur[k]

LEMMA VersionsGrow ==
  ASSUME Basic, NEW t \in Threads, Step(t)
  PROVE  \A b \in Buckets :
           /\ version[b] <= version'[b] /\ version[b] \in Nat /\ version'[b] \in Nat
           /\ version'[b] = version[b] => (HasBucket(t, b)' <=> HasBucket(t, b))
<1>1. version \in [Buckets -> Nat]
  BY DEF Basic, TypeOK
<1>2. CASE Keeps(t)
  BY <1>1, <1>2 DEF Keeps
<1>3. ASSUME NEW c \in Buckets, Acquires(t, c) \/ Releases(t, c)
      PROVE  \A b \in Buckets :
               /\ version[b] <= version'[b] /\ version[b] \in Nat /\ version'[b] \in Nat
               /\ version'[b] = version[b] => (HasBucket(t, b)' <=> HasBucket(t, b))
  <2>1. \A b \in Buckets : version'[b] = IF b = c THEN version[b] + 1 ELSE version[b]
    BY <1>1, <1>3 DEF Acquires, Releases
  <2>2. \A b \in Buckets : b # c => (HasBucket(t, b)' <=> HasBucket(t, b))
    BY <1>3 DEF Acquires, Releases
  <2> QED
    BY <1>1, <2>1, <2>2
<1> QED
  BY <1>2, <1>3, LockKinds

LEMMA BusyBucket ==
  ASSUME Basic, NEW t \in Threads, t \in crew, Step(t), NEW s \in Threads, s # t, NEW b \in Buckets, HasBucket(s, b)
  PROVE  LeftAlone(b)
<1>1. ~HasBucket(t, b)
  BY DEF Basic, Locked
<1>2. HasBucket(s, b)' /\ Locked'
  BY BucketsApart, LockedKept DEF Basic
<1>3. ~HasBucket(t, b)'
  BY <1>2 DEF Locked
<1>4. slots'[b] = slots[b]
  BY <1>1, <1>3, SlotKinds
<1>5. version'[b] = version[b]
  <2>1. version \in [Buckets -> Nat]
    BY DEF Basic, TypeOK
  <2>2. ASSUME NEW c \in Buckets, Acquires(t, c) \/ Releases(t, c) PROVE version'[b] = version[b]
    <3>1. c # b
      BY <1>1, <1>3, <2>2 DEF Acquires, Releases
    <3> QED
      BY <2>1, <2>2, <3>1 DEF Acquires, Releases
  <2> QED
    BY <2>2, LockKinds DEF Keeps
<1>6. \A k \in Keys : BucketOf[k] = b => cur'[k] = cur[k]
  BY <1>1, CurKinds DEF B
<1> QED
  BY <1>4, <1>5, <1>6 DEF LeftAlone

LEMMA QuietBucket ==
  ASSUME Basic, NEW t \in Threads, Step(t), NEW b \in Buckets, ~Odd(version[b]), version'[b] = version[b]
  PROVE  LeftAlone(b) /\ ~HasBucket(t, b) /\ ~HasBucket(t, b)'
<1>1. ~HasBucket(t, b)
  BY DEF Basic, Locked
<1>2. ~HasBucket(t, b)'
  BY <1>1, VersionsGrow
<1>3. slots'[b] = slots[b]
  BY <1>1, <1>2, SlotKinds
<1>4. \A k \in Keys : BucketOf[k] = b => cur'[k] = cur[k]
  BY <1>1, CurKinds DEF B
<1> QED
  BY <1>1, <1>2, <1>3, <1>4 DEF LeftAlone

LEMMA OthersSettled ==
  ASSUME Basic, NEW t \in Threads, t \in crew, Step(t), NEW s \in Threads, s # t
  PROVE  Settled(s)'
<1>1. /\ pc'[s] = pc[s] /\ call'[s] = call[s] /\ idx'[s] = idx[s] /\ vec'[s] = vec[s] /\ ver'[s] = ver[s]
      /\ Settled(s) /\ FlowOf(s)
  BY ThreadsApart DEF Basic, Apart, Flow
<1>2. /\ B(s)' = B(s) /\ Tag(s)' = Tag(s) /\ Op(s)' = Op(s) /\ Key(s)' = Key(s)
      /\ Stores(s)' = Stores(s) /\ Moves(s)' = Moves(s)
  BY <1>1 DEF B, Tag, Key, Op, Stores, Moves
<1>3. pc[s] # "idle" => B(s) \in Buckets
  BY CallTypes DEF Basic
<1>4. pc[s] \in Inside => slots'[B(s)] = slots[B(s)]
  <2>1. pc[s] \in Inside => HasBucket(s, B(s)) /\ B(s) \in Buckets
    BY <1>3 DEF HasBucket, Inside
  <2> QED
    BY <2>1, BusyBucket DEF LeftAlone
<1>5. /\ pc[s] \in Reading => ver[s] <= version'[B(s)] /\ ~Odd(ver[s])
      /\ pc[s] \in Reading /\ version'[B(s)] = ver[s] => slots'[B(s)] = slots[B(s)] /\ version[B(s)] = ver[s]
  <2>1. SUFFICES ASSUME pc[s] \in Reading
                 PROVE  /\ ver[s] <= version'[B(s)] /\ ~Odd(ver[s])
                        /\ version'[B(s)] = ver[s] => slots'[B(s)] = slots[B(s)] /\ version[B(s)] = ver[s]
    OBVIOUS
  <2>2. B(s) \in Buckets /\ ver[s] <= version[B(s)] /\ ~Odd(ver[s]) /\ ver[s] \in Nat
    BY <1>1, <1>3, <2>1 DEF Settled, Reading, Comparing, Basic, TypeOK
  <2>3. version[B(s)] <= version'[B(s)] /\ version[B(s)] \in Nat /\ version'[B(s)] \in Nat
    BY <2>2, VersionsGrow
  <2>4. version'[B(s)] = ver[s] => version[B(s)] = ver[s]
    BY <2>2, <2>3
  <2>5. version'[B(s)] = ver[s] => slots'[B(s)] = slots[B(s)]
    BY <2>2, <2>4, QuietBucket DEF LeftAlone
  <2> QED
    BY <2>2, <2>3, <2>4, <2>5
<1>6. pc[s] \in Comparing => pc[s] \in Reading
  BY DEF Reading
<1>7. pc[s] \in { "pool", "alloc", "fill", "publish", "copy" } => pc[s] \in Inside
  BY DEF Inside
<1>8. Slot(s)' = IF slots'[B(s)] = slots[B(s)] THEN Slot(s) ELSE Slot(s)'
  BY <1>1, <1>2 DEF Slot
<1> QED
  BY <1>1, <1>2, <1>4, <1>5, <1>6, <1>7, <1>8 DEF Settled

LEMMA SettledKept ==
  ASSUME Basic, NEW t \in Threads, t \in crew, crew' = crew, Step(t)
  PROVE  Settled(t)'
<1> USE DEF Goto, Key, Op
<1>1. /\ TypeOK /\ Flow /\ Tagged /\ Settled(t) /\ FlowOf(t) /\ FlowOf(t)' /\ DOMAIN call = Threads
      /\ pc \in [Threads -> Locations] /\ version \in [Buckets -> Nat]
      /\ idx \in [Threads -> 0 .. BucketSize] /\ vec \in [Threads -> Item] /\ ver \in [Threads -> Nat]
  BY FlowKept DEF Basic, Flow, TypeOK
<1>2. pc[t] # "idle" => B(t) \in Buckets /\ Key(t) \in Keys
  BY <1>1, CallTypes
<1> HIDE DEF Key
<1> DEFINE Others == \A i \in Indices : i # idx[t] => slots[B(t)][i].tag # Tag(t)
<1>3. pc'[t] \in { "idle", "find", "sweep", "clear", "unlock", "inplace" } => Settled(t)'
  BY DEF Settled, Moves, Moving, Reading, Comparing
<1>4. CASE Looks(t)
  <2>1. UNCHANGED <<version, slots>>
    BY <1>4, LooksOutside
  <2>2. CASE \E op \in { "get", "test" }, k \in Keys : BeginRead(t, op, k)
    <3>1. PICK op \in { "get", "test" }, k \in Keys : BeginRead(t, op, k)
      BY <2>2
    <3>2. /\ pc'[t] = "scan" /\ call'[t].key = k /\ ver'[t] = version[BucketOf[k]] /\ ~Odd(version[BucketOf[k]])
          /\ version[BucketOf[k]] \in Nat
      BY <1>1, <3>1, Sizes DEF BeginRead
    <3>3. B(t)' = BucketOf[k]
      BY <3>2 DEF B, Key
    <3> QED
      BY <2>1, <3>2, <3>3 DEF Settled, Moves, Moving, Comparing, Reading
  <2>3. CASE ReadAgain(t)
    <3>1. /\ pc'[t] = "scan" /\ pc[t] = "begin" /\ call' = call /\ ver'[t] = version[B(t)] /\ ~Odd(version[B(t)])
      BY <1>1, <2>3 DEF ReadAgain
    <3>2. B(t)' = B(t) /\ version[B(t)] \in Nat
      BY <1>1, <1>2, <3>1 DEF B, Key
    <3> QED
      BY <2>1, <3>1, <3>2 DEF Settled, Moves, Moving, Comparing, Reading
  <2>4. CASE Scan(t)
    <3> DEFINE I == { i \in Indices : i > idx[t] /\ slots[B(t)][i].tag = Tag(t) }
    <3>1. I # {} => First(I) \in I
      BY FirstOf
    <3>2. /\ pc[t] = "scan" /\ call' = call /\ ver' = ver
          /\ \/ pc'[t] = "miss"
             \/ pc'[t] = "compare" /\ I # {} /\ idx'[t] = First(I) /\ vec'[t] = slots[B(t)][First(I)]
      BY <1>1, <2>4 DEF Scan
    <3> HIDE DEF I
    <3>3. B(t)' = B(t) /\ Tag(t)' = Tag(t)
      BY <3>2 DEF B, Key, Tag
    <3>4. CASE pc'[t] = "miss"
      BY <1>1, <2>1, <3>2, <3>3, <3>4 DEF Settled, Moves, Moving, Comparing, Reading
    <3>5. CASE pc'[t] = "compare" /\ I # {} /\ idx'[t] = First(I) /\ vec'[t] = slots[B(t)][First(I)]
      <4>1. First(I) \in Indices /\ slots[B(t)][First(I)].tag = Tag(t)
        BY <3>1, <3>5 DEF I
      <4> QED
        BY <1>1, <2>1, <3>2, <3>3, <3>5, <4>1 DEF Settled, Moves, Moving, Comparing, Reading, Slot
    <3> QED
      BY <3>2, <3>4, <3>5
  <2>5. CASE Compare(t) \/ CopyValue(t) \/ Validate(t)
    <3>1. /\ pc[t] \in { "compare", "value", "validate" } /\ pc'[t] \in { "scan", "hit", "load", "validate", "found", "stale" }
          /\ UNCHANGED <<call, idx, vec, ver>>
      BY <1>1, <2>5 DEF Compare, CopyValue, Validate, locals
    <3>2. B(t)' = B(t) /\ Tag(t)' = Tag(t)
      BY <3>1 DEF B, Key, Tag
    <3> QED
      BY <1>1, <2>1, <3>1, <3>2 DEF Settled, Moves, Moving, Comparing, Reading, Slot
  <2>6. CASE Load(t)
    <3>1. /\ pc[t] = "load" /\ pc'[t] \in { "value", "stale" } /\ UNCHANGED <<idx, ver>> /\ vec'[t] = Slot(t)
          /\ call'[t].key = call[t].key
      BY <1>1, <2>6 DEF Load, Slot
    <3>2. B(t)' = B(t) /\ Tag(t)' = Tag(t)
      BY <3>1 DEF B, Key, Tag
    <3>3. Slot(t)' = Slot(t)
      BY <2>1, <3>1, <3>2 DEF Slot
    <3> QED
      BY <1>1, <2>1, <3>1, <3>2, <3>3 DEF Settled, Moves, Moving, Comparing, Reading
  <2>7. CASE Retry(t)
    BY <1>1, <2>7 DEF Retry, Settled, Moves, Moving, Comparing, Reading
  <2>8. CASE TestFound(t) \/ Return(t)
    BY <1>1, <1>3, <2>8 DEF TestFound, Return
  <2>9. CASE ~Return(t) /\ (NotFound(t) \/ Found(t) \/ MoveNeeded(t))
    <3>1. /\ \/ pc[t] = "stale" /\ pc'[t] = "remove"
             \/ pc[t] = "found" /\ pc'[t] = "move"
             \/ pc[t] = "move" /\ pc'[t] = "move_lock"
          /\ UNCHANGED <<call, idx, vec>>
      BY <1>1, <2>9 DEF NotFound, Found, MoveNeeded, locals
    <3>2. B(t)' = B(t) /\ Tag(t)' = Tag(t)
      BY <3>1 DEF B, Key, Tag
    <3>3. pc[t] = "found" => version[B(t)] = ver[t]
      BY <1>1, <2>9 DEF NotFound, Found, MoveNeeded, Unchanged
    <3> QED
      BY <1>1, <3>1, <3>2, <3>3 DEF Settled, Moves, Moving, Comparing, Reading
  <2> QED
    BY <1>4, <2>2, <2>3, <2>4, <2>5, <2>6, <2>7, <2>8, <2>9 DEF Looks
<1>5. CASE SetLocate(t)
  <2>1. /\ pc[t] = "find" /\ pc'[t] = "pool" /\ UNCHANGED <<slots, call>>
        /\ idx'[t] = IF Located(B(t), Key(t)) # 0 THEN Located(B(t), Key(t)) ELSE Victim(B(t), Key(t))
    BY <1>1, <1>5 DEF SetLocate, table
  <2>2. /\ Victim(B(t), Key(t)) \in Indices
        /\ \A i \in Indices : i # Victim(B(t), Key(t)) => slots[B(t)][i].tag # Tag(t)
    BY <1>1, <1>2, <2>1, VictimIs DEF Tag
  <2>3. Located(B(t), Key(t)) # 0 =>
          /\ Located(B(t), Key(t)) \in Indices
          /\ slots[B(t)][Located(B(t), Key(t))].tag = Tag(t)
    BY LocatedIs DEF Tag
  <2>4. Tag(t) # 0
    BY <1>1, <2>1, CallTypes
  <2>5. \A i, j \in Indices : slots[B(t)][i].tag = Tag(t) /\ slots[B(t)][j].tag = Tag(t) => i = j
    BY <1>1, <1>2, <2>1, <2>4 DEF Tagged, OneSlotPerTag, Empty
  <2>6. idx'[t] \in Indices /\ \A i \in Indices : i # idx'[t] => slots[B(t)][i].tag # Tag(t)
    BY <2>1, <2>2, <2>3, <2>5
  <2>7. B(t)' = B(t) /\ Tag(t)' = Tag(t)
    BY <2>1 DEF B, Key, Tag
  <2> QED
    BY <2>1, <2>6, <2>7 DEF Settled, Moves, Moving, Comparing, Reading
<1>6. CASE IncrementLocate(t)
  <2>1. pc'[t] \in { "unlock", "pool" } /\ call' = call /\ call[t].op = "increment"
    BY <1>1, <1>6 DEF IncrementLocate
  <2> QED
    BY <2>1 DEF Settled, Moves, Moving, Comparing, Reading, Stores
<1>7. CASE SetExists(t) \/ IncrementFails(t) \/ SetInPlace(t) \/ Increment(t) \/ RemoveStale(t) \/ Del(t) \/ Publish(t)
           \/ Unlock(t) \/ SweepLock(t) \/ SweepBucket(t) \/ Begins(t)
  BY <1>1, <1>3, <1>7 DEF SetExists, IncrementFails, SetInPlace, Increment, RemoveStale, Del, Publish, Unlock, SweepLock,
     SweepBucket, Begins, Begin, Return
<1>8. CASE SetNew(t)
  <2>1. /\ pc[t] = "pool" /\ pc'[t] = "alloc" /\ UNCHANGED <<slots, call, idx, vec>> /\ Stores(t)
    BY <1>1, <1>8 DEF SetNew, table, locals, Stores
  <2>2. B(t)' = B(t) /\ Tag(t)' = Tag(t) /\ Stores(t)'
    BY <2>1 DEF B, Key, Tag, Stores
  <2> QED
    BY <1>1, <2>1, <2>2 DEF Settled, Moves, Moving, Comparing, Reading, Stores
<1>9. CASE MoveLock(t)
  <2>1. pc[t] = "move_lock" /\ pc'[t] = "move_pool" /\ UNCHANGED <<call, idx, vec>>
    BY <1>1, <1>9 DEF MoveLock, locals
  <2>2. B(t)' = B(t) /\ Tag(t)' = Tag(t)
    BY <2>1 DEF B, Key, Tag
  <2> QED
    BY <1>1, <2>1, <2>2 DEF Settled, Moves, Moving, Comparing, Reading
<1>10. CASE MoveCheck(t)
  <2>1. /\ pc[t] = "move_pool" /\ UNCHANGED <<slots, call, idx, vec>> /\ Op(t) = "get"
        /\ pc'[t] = "unlock" \/ (pc'[t] = "alloc" /\ Slot(t) = vec[t])
    BY <1>1, <1>10 DEF MoveCheck, locals, table, FlowOf, Moving, Slot
  <2>2. B(t)' = B(t) /\ Tag(t)' = Tag(t) /\ Slot(t)' = Slot(t) /\ Op(t)' = "get"
    BY <2>1 DEF B, Key, Tag, Slot
  <2> QED
    BY <1>1, <1>3, <2>1, <2>2 DEF Settled, Moves, Moving, Comparing, Reading, Stores
<1>11. CASE PopHead(t)
  <2>1. pc[t] = "alloc" /\ UNCHANGED <<pc, slots, call, idx, vec>>
    BY <1>11 DEF PopHead, table, locals
  <2>2. B(t)' = B(t) /\ Tag(t)' = Tag(t) /\ Slot(t)' = Slot(t) /\ Op(t)' = Op(t) /\ Stores(t)' = Stores(t)
    BY <2>1 DEF B, Key, Tag, Slot, Stores
  <2> QED
    BY <1>1, <2>1, <2>2 DEF Settled, Moves, Moving, Comparing, Reading
<1>12. CASE PushTail(t)
  <2>1. /\ pc[t] = "alloc" /\ UNCHANGED <<slots, call, idx, vec>>
        /\ pc'[t] = IF Op(t) = "get" THEN "copy" ELSE "fill"
    BY <1>1, <1>12 DEF PushTail, table
  <2>2. B(t)' = B(t) /\ Tag(t)' = Tag(t) /\ Slot(t)' = Slot(t) /\ Op(t)' = Op(t) /\ Stores(t)' = Stores(t)
    BY <2>1 DEF B, Key, Tag, Slot, Stores
  <2> QED
    BY <1>1, <2>1, <2>2 DEF Settled, Moves, Moving, Comparing, Reading, FlowOf, Stores
<1>13. CASE WriteWord(t) \/ UnlockPool(t)
  <2>1. /\ pc[t] \in { "inplace", "fill" } /\ UNCHANGED <<slots, call, idx, vec>>
        /\ \/ pc'[t] = pc[t] \/ pc'[t] = "unlock" \/ (pc[t] = "fill" /\ pc'[t] = "publish")
    BY <1>1, <1>13 DEF WriteWord, UnlockPool, table, locals
  <2>2. B(t)' = B(t) /\ Tag(t)' = Tag(t) /\ Stores(t)' = Stores(t)
    BY <2>1 DEF B, Key, Tag, Stores
  <2> QED
    BY <1>1, <2>1, <2>2 DEF Settled, Moves, Moving, Comparing, Reading, FlowOf, Stores
<1>14. CASE MoveItem(t)
  BY <1>1, <1>3, <1>14 DEF MoveItem
<1> QED
  BY StepKinds, <1>4, <1>5, <1>6, <1>7, <1>8, <1>9, <1>10, <1>11, <1>12, <1>13, <1>14 DEF Searches, EntersPool

LEMMA BasicAtFirst == Init => Basic
<1> SUFFICES ASSUME Init PROVE Basic
  OBVIOUS
<1> USE DEF Init
<1>1. TypeOK
  <2>1. Empty \in Item /\ 0 \in Buckets /\ <<0, 0>> \in Buckets \X Buckets /\ "idle" \in Locations /\ BucketSize \in Nat
    BY Sizes DEF Empty, Item, Locations
  <2> QED
    BY <2>1 DEF TypeOK
<1>2. Flow
  BY DEF Flow, FlowOf, NoCall, Reading, Comparing, Moving
<1>3. Shape
  BY DEF Shape, Header
<1>4. Locked
  BY DEF Locked, Odd, HasBucket, Inside, InPool
<1>5. Tagged
  BY DEF Tagged, OneSlotPerTag
<1>6. \A t \in Threads : Settled(t)
  BY DEF Settled, Comparing, Reading, Moving, Moves
<1> QED
  BY <1>1, <1>2, <1>3, <1>4, <1>5, <1>6 DEF Basic

LEMMA BasicKept == Basic /\ [Next]_vars => Basic'
<1> SUFFICES ASSUME Basic, [Next]_vars PROVE Basic'
  OBVIOUS
<1>1. CASE Next
  <2>1. PICK t \in crew : Step(t)
    BY <1>1 DEF Next, Step
  <2>2. t \in Threads /\ crew' = crew
    BY <1>1, <2>1, TableAssumption DEF Next, Basic, Flow
  <2>3. \A s \in Threads : Settled(s)'
    BY <2>1, <2>2, OthersSettled, SettledKept
  <2> QED
    BY <2>1, <2>2, <2>3, TypesKept, FlowKept, ShapeKept, LockedKept, TaggedKept DEF Basic
<1>2. CASE UNCHANGED vars
  <2> USE <1>2 DEF vars
  <2>1. TypeOK'
    BY DEF Basic, TypeOK
  <2>2. Flow'
    BY DEF Basic, Flow, FlowOf, Key, Op, Stores
  <2>3. Shape'
    BY DEF Basic, Shape
  <2>4. Locked'
    BY DEF Basic, Locked, HasBucket, B, Key
  <2>5. Tagged'
    BY DEF Basic, Tagged, OneSlotPerTag
  <2>6. \A s \in Threads : Settled(s)'
    BY DEF Basic, Settled, Slot, B, Tag, Key, Op, Moves, Stores
  <2> QED
    BY <2>1, <2>2, <2>3, <2>4, <2>5, <2>6 DEF Basic
<1> QED
  BY <1>1, <1>2

\* Basic is inductive: it holds in every state, whatever the offsets do.
THEOREM Inductive == Spec => []Basic
BY BasicAtFirst, BasicKept, PTL DEF Spec

\* The types of every variable.
THEOREM Types == Spec => []TypeOK
<1>1. Basic => TypeOK
  BY DEF Basic
<1> QED
  BY <1>1, Inductive, PTL

\* A bucket never holds two items of one tag, nor two versions of one key.
THEOREM TagsApart == Spec => []OneSlotPerTag
<1>1. Basic => OneSlotPerTag
  BY DEF Basic, Tagged
<1> QED
  BY <1>1, Inductive, PTL

\* A version is odd while, and only while, one thread works on the bucket, and
\* the pool never has two threads inside.
THEOREM LocksHold == Spec => []Locked
<1>1. Basic => Locked
  BY DEF Basic
<1> QED
  BY <1>1, Inductive, PTL

-----------------------------------------------------------------------------
(* The log.                                                                *)

\* An item's lengths, wherever they have been read or written, are lengths of values.
LengthsOf(t) ==
  /\ pc[t] \in { "find", "pool", "alloc", "inplace", "fill", "publish" } /\ Stores(t) => call[t].len \in Lens
  /\ pc[t] = "inplace" => call[t].len \in Lens
  /\ pc[t] \in { "value", "validate", "found" } \/ Moves(t) => call[t].len \in Lens
Lengths ==
  /\ \A a \in 0 .. Size - 1 : mem[a][1] = "item" => mem[a][3] \in Lens
  /\ \A t \in Threads : LengthsOf(t)

LEMMA LogKinds ==
  ASSUME NEW t, Step(t)
  PROVE  \/ UNCHANGED <<head, tail, mem>>
         \/ PopHead(t) /\ UNCHANGED <<tail, mem>>
         \/ PushTail(t) /\ UNCHANGED head
         \/ (WriteWord(t) \/ MoveItem(t)) /\ UNCHANGED <<head, tail>>
BY ZenonT(40), StepKinds DEF Looks, Searches, EntersPool, Begins, log, BeginRead, ReadAgain, Scan, Compare,
   Load, CopyValue, Validate, Retry, NotFound, TestFound, Found, MoveNeeded, SetExists, SetLocate,
   IncrementLocate, IncrementFails, SetInPlace, SetNew, Increment, MoveCheck, Begin, SweepLock,
   MoveLock, RemoveStale, Unlock, SweepBucket, Del, Publish, UnlockPool, PopHead, PushTail, WriteWord, MoveItem

LEMMA ReadLengths ==
  ASSUME TypeOK, Lengths, NEW p \in Nat, NEW l \in LensAt(Addr(p, 1))
  PROVE  /\ l # TooLong => l \in Lens
         /\ l = 1 => l \in Lens
<1>1. Addr(p, 1) \in 0 .. Size - 1
  <2>1. p + 1 \in Int /\ Size \in Nat \ {0}
    BY Sizes
  <2> QED
    BY <2>1, ModDef DEF Addr
<1>2. TooLong # 1
  BY LogAssumption DEF TooLong
<1> QED
  BY <1>1, <1>2 DEF LensAt, Lengths

LEMMA LengthsKept ==
  ASSUME Basic, Lengths, NEW t \in Threads, Step(t)
  PROVE  Lengths'
<1> USE DEF Goto, Op, Stores
<1>1. /\ TypeOK /\ Flow /\ FlowOf(t) /\ DOMAIN call = Threads /\ pc \in [Threads -> Locations]
      /\ DOMAIN mem = 0 .. Size - 1 /\ vec[t].off \in Nat /\ at[t] \in Nat
      /\ LengthsOf(t)
      /\ \A a \in 0 .. Size - 1 : mem[a][1] = "item" => mem[a][3] \in Lens
  BY DEF Basic, TypeOK, Flow, Item, Lengths
<1>2. \A s \in Threads : s # t => LengthsOf(s)'
  BY <1>1, ThreadsApart DEF Lengths, LengthsOf, Apart, Moves
<1>3. \A a \in 0 .. Size - 1 : mem'[a][1] = "item" => mem'[a][3] \in Lens
  <2>1. CASE PushTail(t)
    BY <1>1, <2>1 DEF PushTail, Header
  <2>2. CASE WriteWord(t)
    <3>1. call[t].len \in Lens
      BY <1>1, <2>2 DEF WriteWord, LengthsOf, FlowOf
    <3> DEFINE j == step[t] + 1
               w == IF j = 1 THEN Meta(Key(t), call[t].len) ELSE Word(call[t].v, j - 1)
    <3>2. w[1] = "item" => w[3] \in Lens
      BY <3>1 DEF Meta, Word
    <3>3. mem' = [mem EXCEPT ![Addr(at[t], j)] = w]
      BY <2>2 DEF WriteWord
    <3> HIDE DEF w, j
    <3> QED
      BY <1>1, <3>2, <3>3
  <2>3. CASE MoveItem(t)
    <3> DEFINE From(a) == Addr(vec[t].off, (a - at[t]) % Size)
    <3>1. \A a \in 0 .. Size - 1 : From(a) \in 0 .. Size - 1
      <4>1. ASSUME NEW a \in 0 .. Size - 1 PROVE From(a) \in 0 .. Size - 1
        <5>1. a - at[t] \in Int /\ Size \in Nat \ {0}
          BY <1>1, Sizes
        <5>2. (a - at[t]) % Size \in Nat
          BY <5>1, ModDef
        <5>3. vec[t].off + ((a - at[t]) % Size) \in Int
          BY <1>1, <5>2
        <5> QED
          BY <5>1, <5>3, ModDef DEF Addr
      <4> QED
        BY <4>1
    <3>2. \A a \in 0 .. Size - 1 : mem'[a] \in { mem[a], mem[From(a)] }
      BY <1>1, <2>3 DEF MoveItem
    <3> HIDE DEF From
    <3> QED
      BY <1>1, <3>1, <3>2
  <2>4. CASE UNCHANGED mem
    BY <1>1, <2>4
  <2> QED
    BY <2>1, <2>2, <2>3, <2>4, LogKinds
<1>4. LengthsOf(t)'
  <2> USE DEF LengthsOf, Moves, Moving
  <2>1. CASE Looks(t)
    <3>1. CASE Load(t)
      <4>1. slots[B(t)][idx[t]].off \in Nat
        <5>1. idx[t] \in Indices /\ B(t) \in Buckets
          BY <1>1, <3>1, CallTypes DEF Basic, Settled, Load, Comparing
        <5> QED
          BY <1>1, <5>1 DEF TypeOK, Item
      <4>2. PICK l \in LensAt(Addr(slots[B(t)][idx[t]].off, 1)) :
              /\ pc' = [pc EXCEPT ![t] = IF l = TooLong THEN "stale" ELSE "value"]
              /\ call' = [call EXCEPT ![t].len = l]
        BY <3>1 DEF Load
      <4>3. l # TooLong => l \in Lens
        BY <1>1, <4>1, ReadLengths
      <4> QED
        BY <1>1, <4>2, <4>3
    <3>2. CASE \E op \in { "get", "test" }, k \in Keys : BeginRead(t, op, k)
      BY <1>1, <3>2 DEF BeginRead
    <3>3. CASE ReadAgain(t) \/ Scan(t) \/ Compare(t) \/ CopyValue(t) \/ Validate(t) \/ Retry(t)
      BY <1>1, <3>3 DEF ReadAgain, Scan, Compare, CopyValue, Validate, Retry, locals
    <3>4. CASE NotFound(t) \/ TestFound(t) \/ Found(t) \/ MoveNeeded(t)
      BY <1>1, <3>4 DEF NotFound, TestFound, Found, MoveNeeded, locals, Return
    <3> QED
      BY <2>1, <3>1, <3>2, <3>3, <3>4 DEF Looks
  <2>2. CASE Increment(t)
    <3>1. call'[t].len = 1 /\ 1 \in LensAt(Addr(vec[t].off, 1)) /\ pc'[t] = "inplace" /\ call'[t].op = "increment"
      BY <1>1, <2>2 DEF Increment
    <3>2. 1 \in Lens
      BY <1>1, <3>1, ReadLengths
    <3> QED
      BY <3>1, <3>2
  <2>3. CASE SetInPlace(t) \/ SetNew(t) \/ MoveCheck(t)
    BY <1>1, <2>3 DEF SetInPlace, SetNew, MoveCheck, locals, FlowOf
  <2>4. CASE Searches(t)
    BY <1>1, <2>4 DEF Searches, SetExists, SetLocate, IncrementLocate, IncrementFails, locals, FlowOf
  <2>5. CASE Begins(t)
    BY <1>1, <2>5 DEF Begins, Begin
  <2>6. CASE SweepLock(t) \/ MoveLock(t) \/ RemoveStale(t)
    BY <1>1, <2>6 DEF SweepLock, MoveLock, RemoveStale, locals, FlowOf
  <2>7. CASE Unlock(t) \/ SweepBucket(t)
    BY <1>1, <2>7 DEF Unlock, SweepBucket, Return
  <2>8. CASE Del(t) \/ Publish(t) \/ PopHead(t) \/ PushTail(t)
    BY <1>1, <2>8 DEF Del, Publish, PopHead, PushTail, locals, FlowOf
  <2>9. CASE WriteWord(t) \/ UnlockPool(t) \/ MoveItem(t)
    BY <1>1, <2>9 DEF WriteWord, UnlockPool, MoveItem, locals, FlowOf
  <2> QED
    BY StepKinds, <2>1, <2>2, <2>3, <2>4, <2>5, <2>6, <2>7, <2>8, <2>9 DEF EntersPool
<1> QED
  BY <1>2, <1>3, <1>4 DEF Lengths

\* Before the offsets come round, an offset is a position of the log.
Young == tail < OffsetMod
Recent(p) == tail - p <= Size
Span(p) == mem[p % Size][2]

LEMMA OffsetsArePositions ==
  ASSUME TypeOK, Young
  PROVE  /\ \A o \in Nat : o <= tail => (IsValid(o) <=> Recent(o))
         /\ tail % OffsetMod = tail
<1>1. tail \in Nat /\ OffsetMod \in Nat \ {0} /\ tail \in 0 .. OffsetMod - 1
  BY Sizes DEF TypeOK, Young
<1>2. ASSUME NEW o \in Nat, o <= tail PROVE IsValid(o) <=> Recent(o)
  <2>1. tail - o \in 0 .. OffsetMod - 1
    BY <1>1, <1>2
  <2> QED
    BY <1>1, <2>1, ModSmall DEF IsValid, Recent
<1> QED
  BY <1>1, <1>2, ModSmall

\* P holds the positions where allocations begin, and the tail.
Tiling(P) ==
  /\ head \in P /\ tail \in P /\ \A p \in P : p <= tail
  /\ LogInBounds
  /\ \A p \in P : p < tail /\ Recent(p) =>
       /\ mem[p % Size] = Header(Span(p)) /\ Span(p) \in Nat \ {0} /\ p + Span(p) \in P
       /\ \A q \in P : q <= p \/ p + Span(p) <= q

\* An offset that leads to an allocation made for a value.
Leads(o, P) == o \in P /\ o < tail /\ (Recent(o) => Span(o) - 2 \in Lens)

\* What a thread in the pool writes lies in one allocation.
Within(t, P) ==
  /\ pc[t] = "pool" /\ (vec[t] # Empty \/ Op(t) = "increment") => Leads(vec[t].off, P)
  /\ pc[t] \in { "inplace", "fill", "copy" } => Leads(at[t], P) /\ Recent(at[t]) /\ Need(t) <= Span(at[t])
  /\ pc[t] \in { "fill", "copy" } => Span(at[t]) = Need(t)
  /\ pc[t] = "publish" => at[t] \in P /\ at[t] < tail /\ (Recent(at[t]) => Span(at[t]) = Need(t))

Tiled(P) ==
  /\ Tiling(P)
  /\ \A b \in Buckets, i \in Indices : slots[b][i] # Empty => Leads(slots[b][i].off, P)
  /\ \A t \in Threads : Within(t, P)

\* No word that a thread writes into its allocation is a header.
LEMMA WordsInside ==
  ASSUME TypeOK, NEW P \in SUBSET Nat, Tiling(P), NEW p \in P, p < tail, Recent(p),
         NEW q \in P, q < tail, Recent(q), NEW j \in Nat, 1 <= j, j < Span(q)
  PROVE  Addr(q, j) # p % Size
<1>1. p \in Nat /\ q \in Nat /\ tail \in Nat /\ Size \in Nat \ {0} /\ q + j \in Nat
  BY Sizes DEF TypeOK
<1>2. Span(q) \in Nat /\ q + Span(q) <= tail /\ (p <= q \/ q + Span(q) <= p)
  BY DEF Tiling
<1>3. p < q + j \/ q + j < p
  BY <1>1, <1>2
<1>4. p - (q + j) < Size /\ (q + j) - p < Size
  BY <1>1, <1>2 DEF Recent
<1>5. (q + j) % Size # p % Size
  <2>1. q + j \in Int /\ p \in Int /\ Size \in Nat \ {0}
    BY <1>1
  <2>2. CASE p < q + j
    BY <1>4, <2>1, <2>2, ModDistinct
  <2>3. CASE q + j < p
    BY <1>4, <2>1, <2>3, ModDistinct
  <2> QED
    BY <1>3, <2>2, <2>3
<1> QED
  BY <1>5 DEF Addr

LEMMA HeadersKept ==
  ASSUME Basic, NEW P \in SUBSET Nat, Tiled(P), NEW t \in Threads, Step(t)
  PROVE  /\ tail <= tail'
         /\ \A p \in P : p < tail /\ tail' - p <= Size =>
              mem'[p % Size] = mem[p % Size] /\ Recent(p) /\ Span(p)' = Span(p)
<1>1. /\ TypeOK /\ Flow /\ Tiling(P) /\ Within(t, P) /\ Need(t) \in Nat /\ Need(t) >= 2 /\ call[t].len \in Nat
      /\ Size \in Nat \ {0} /\ DOMAIN mem = 0 .. Size - 1 /\ tail \in Nat /\ step[t] \in Nat
  BY CallTypes, Sizes DEF Basic, TypeOK, Tiled
<1>2. tail' = tail \/ (PushTail(t) /\ tail' = tail + Need(t))
  BY LogKinds DEF PushTail
<1>3. ASSUME NEW p \in P, p < tail, tail' - p <= Size
      PROVE  Recent(p) /\ mem'[p % Size] = mem[p % Size]
  <2>1. Recent(p) /\ p \in Nat
    BY <1>1, <1>2, <1>3 DEF Recent
  <2>2. CASE PushTail(t)
    <3>1. tail - p < Size /\ tail' = tail + Need(t)
      BY <1>1, <1>3, <2>1, <2>2 DEF PushTail
    <3>2. tail % Size # p % Size
      BY <1>1, <1>3, <2>1, <3>1, ModDistinct
    <3> QED
      BY <1>1, <2>1, <2>2, <3>2 DEF PushTail
  <2>3. CASE WriteWord(t)
    <3>1. at[t] \in P /\ at[t] < tail /\ Recent(at[t]) /\ Need(t) <= Span(at[t]) /\ step[t] + 1 < Need(t)
      BY <1>1, <2>3 DEF WriteWord, Within, Leads
    <3>2. Span(at[t]) \in Nat
      BY <1>1, <3>1 DEF Tiling
    <3>3. Addr(at[t], step[t] + 1) # p % Size
      BY <1>1, <1>3, <2>1, <3>1, <3>2, WordsInside
    <3> QED
      BY <1>1, <2>1, <2>3, <3>3 DEF WriteWord
  <2>4. CASE MoveItem(t)
    <3>1. at[t] \in P /\ at[t] < tail /\ Recent(at[t]) /\ Need(t) <= Span(at[t])
      BY <1>1, <2>4 DEF MoveItem, Goto, Within, Leads
    <3>2. Span(at[t]) \in Nat
      BY <1>1, <3>1 DEF Tiling
    <3>3. \A j \in 1 .. call[t].len + 1 : j \in Nat /\ 1 <= j /\ j < Span(at[t])
      BY <1>1, <3>1, <3>2 DEF Need
    <3>4. \A j \in 1 .. call[t].len + 1 : Addr(at[t], j) # p % Size
      BY <1>1, <1>3, <2>1, <3>1, <3>3, WordsInside
    <3>5. p % Size \in DOMAIN mem
      <4>1. p \in Int /\ Size \in Nat \ {0}
        BY <1>1, <2>1
      <4>2. p % Size \in 0 .. Size - 1
        BY <4>1, ModDef
      <4> QED
        BY <1>1, <4>2
    <3> DEFINE target == { Addr(at[t], j) : j \in 1 .. call[t].len + 1 }
    <3>6. p % Size \notin target
      BY <3>4
    <3>7. mem' = mem \/ \A a \in DOMAIN mem : a \notin target => mem'[a] = mem[a]
      BY <2>4 DEF MoveItem
    <3> HIDE DEF target
    <3> QED
      BY <2>1, <3>5, <3>6, <3>7
  <2>5. CASE UNCHANGED mem
    BY <2>1, <2>5
  <2> QED
    BY <2>1, <2>2, <2>3, <2>4, <2>5, LogKinds
<1>4. tail <= tail'
  BY <1>1, <1>2
<1> QED
  BY <1>3, <1>4 DEF Span

LEMMA LeadsKept ==
  ASSUME Basic, NEW P \in SUBSET Nat, Tiled(P), NEW t \in Threads, Step(t), NEW CONSTANT Q, Q = P \cup { tail' },
         NEW CONSTANT o, Leads(o, P)
  PROVE  Leads(o, Q)'
<1>1. /\ o \in P /\ o \in Nat /\ o < tail /\ (Recent(o) => Span(o) - 2 \in Lens)
      /\ tail <= tail' /\ tail \in Nat /\ tail' \in Nat
  BY HeadersKept, TypesKept DEF Leads, Basic, TypeOK
<1>2. o < tail'
  BY <1>1
<1>3. Recent(o)' => Span(o)' = Span(o) /\ Recent(o)
  <2>1. Recent(o)' <=> tail' - o <= Size
    BY DEF Recent
  <2> QED
    BY <1>1, <2>1, HeadersKept
<1> QED
  BY <1>1, <1>2, <1>3 DEF Leads

\* An allocation begins where the last one ends, and the head moves from one to the next.
LEMMA TilingKept ==
  ASSUME Basic, Lengths, NEW P \in SUBSET Nat, Tiled(P), NEW t \in Threads, Step(t), NEW CONSTANT Q, Q = P \cup { tail' }
  PROVE  Tiling(Q)'
<1> USE DEF Goto
<1>1. /\ TypeOK /\ Flow /\ Tiling(P) /\ Need(t) \in Nat /\ Need(t) >= 2
      /\ Size \in Nat \ {0} /\ DOMAIN mem = 0 .. Size - 1 /\ tail \in Nat /\ head \in Nat
      /\ Need(t) = 2 + call[t].len
  BY CallTypes, Sizes DEF Basic, TypeOK, Tiled, Need
<1>2. /\ tail <= tail'
      /\ \A p \in P : p < tail /\ tail' - p <= Size =>
           mem'[p % Size] = mem[p % Size] /\ Recent(p) /\ Span(p)' = Span(p)
  BY HeadersKept
<1>3. /\ head \in P /\ tail \in P /\ head <= tail /\ tail - head <= Size
      /\ \A p \in P : p <= tail /\ p \in Nat
      /\ \A p \in P : p < tail /\ Recent(p) =>
           /\ mem[p % Size] = Header(Span(p)) /\ Span(p) \in Nat \ {0} /\ p + Span(p) \in P
           /\ \A q \in P : q <= p \/ p + Span(p) <= q
  BY <1>1 DEF Tiling, LogInBounds
<1>4. ASSUME NEW p \in P, p < tail, tail' - p <= Size
      PROVE  /\ mem'[p % Size] = Header(Span(p)') /\ Span(p)' \in Nat \ {0} /\ p + Span(p)' \in Q
             /\ \A q \in P : q <= p \/ p + Span(p)' <= q
             /\ p + Span(p)' <= tail
  <2>1. Span(p)' = Span(p) /\ mem'[p % Size] = mem[p % Size] /\ Recent(p)
    BY <1>2, <1>4
  <2>2. /\ mem[p % Size] = Header(Span(p)) /\ Span(p) \in Nat \ {0} /\ p + Span(p) \in P
        /\ \A q \in P : q <= p \/ p + Span(p) <= q
    BY <1>3, <1>4, <2>1
  <2> QED
    BY <1>3, <2>1, <2>2
<1>5. CASE tail' = tail /\ head' = head
  <2>1. Q = P
    BY <1>3, <1>5
  <2> QED
    BY <1>3, <1>4, <1>5, <2>1 DEF Tiling, LogInBounds, Recent
<1>6. CASE PopHead(t)
  <2>1. /\ pc[t] = "alloc" /\ ~Fits(t) /\ tail' = tail /\ mem' = mem
        /\ \E n \in SizesAt(head % Size) : head' = head + n
    BY <1>6 DEF PopHead
  <2>2. Q = P
    BY <1>3, <2>1
  <2>3. head < tail
    <3>1. call[t].len \in Lens
      BY <2>1 DEF Lengths, LengthsOf, Moves, Basic, Flow, FlowOf, Stores
    <3>2. tail + 1 + Need(t) <= tail + Size
      BY SMTT(60), <1>1, <3>1, LogAssumption
    <3> QED
      BY <1>1, <1>3, <2>1, <3>2 DEF Fits
  <2>4. Recent(head)
    BY <1>3 DEF Recent
  <2>5. SizesAt(head % Size) = { Span(head) }
    BY <1>3, <2>3, <2>4 DEF SizesAt, Header, Span
  <2>6. head' = head + Span(head) /\ head' \in P /\ head' <= tail /\ head < head'
    BY <1>1, <1>3, <2>1, <2>3, <2>4, <2>5
  <2> QED
    BY <1>1, <1>3, <1>4, <2>1, <2>2, <2>6 DEF Tiling, LogInBounds, Recent
<1>7. CASE PushTail(t) /\ UNCHANGED head
  <2>1. /\ tail' = tail + Need(t) /\ tail + 1 + Need(t) <= head + Size
        /\ mem' = [mem EXCEPT ![tail % Size] = Header(Need(t))]
    BY <1>7 DEF PushTail, Fits
  <2>2. tail % Size \in DOMAIN mem
    <3>1. tail \in Int /\ Size \in Nat \ {0}
      BY <1>1
    <3>2. tail % Size \in 0 .. Size - 1
      BY <3>1, ModDef
    <3> QED
      BY <1>1, <3>2
  <2>3. mem'[tail % Size] = Header(Need(t)) /\ Header(Need(t))[2] = Need(t)
    BY <2>1, <2>2 DEF Header
  <2>4. head' \in Q /\ tail' \in Q /\ LogInBounds' /\ \A q \in Q : q <= tail'
    <3>1. head' = head /\ head' <= tail' /\ tail' - head' <= Size
      BY <1>1, <1>3, <1>7, <2>1
    <3>2. \A q \in P : q <= tail'
      BY <1>1, <1>3, <2>1
    <3>3. tail' <= tail'
      BY <1>1, <2>1
    <3> QED
      BY <1>3, <3>1, <3>2, <3>3 DEF LogInBounds
  <2>5. \A q \in Q : q <= tail \/ tail + Need(t) <= q
    BY <1>1, <1>3, <2>1
  <2>6. ASSUME NEW p \in Q, p < tail', Recent(p)'
        PROVE  /\ mem'[p % Size] = Header(Span(p)') /\ Span(p)' \in Nat \ {0} /\ p + Span(p)' \in Q
               /\ \A q \in Q : q <= p \/ p + Span(p)' <= q
    <3>1. CASE p = tail
      <4>1. Span(p)' = Need(t) /\ mem'[p % Size] = Header(Need(t)) /\ p + Need(t) = tail'
        BY <2>1, <2>3, <3>1 DEF Span
      <4> QED
        BY <1>1, <2>1, <2>5, <3>1, <4>1
    <3>2. CASE p # tail
      <4>1. p \in P /\ p < tail /\ tail' - p <= Size
        BY <1>3, <2>6, <3>2 DEF Recent
      <4>2. /\ mem'[p % Size] = Header(Span(p)') /\ Span(p)' \in Nat \ {0} /\ p + Span(p)' \in Q
            /\ \A q \in P : q <= p \/ p + Span(p)' <= q
            /\ p + Span(p)' <= tail
        BY <1>4, <4>1
      <4> QED
        BY SMTT(30), <1>1, <1>3, <2>1, <4>1, <4>2
    <3> QED
      BY <3>1, <3>2
  <2> QED
    BY <2>4, <2>6 DEF Tiling
<1>8. (tail' = tail /\ head' = head) \/ PopHead(t) \/ (PushTail(t) /\ UNCHANGED head)
  BY LogKinds
<1> QED
  BY <1>5, <1>6, <1>7, <1>8

\* No two lengths may differ by the one word that set() overlooks: the size it
\* reads includes the log's header, the size it compares with does not.
LengthsApart == \A l, m \in Lens : m # l + 1

LEMMA OthersWithin ==
  ASSUME Basic, NEW P \in SUBSET Nat, Tiled(P), NEW t \in Threads, t \in crew, Step(t),
         NEW CONSTANT Q, Q = P \cup { tail' }, NEW s \in Threads, s # t
  PROVE  Within(s, Q)'
<1>1. /\ pc'[s] = pc[s] /\ call'[s] = call[s] /\ vec'[s] = vec[s] /\ at'[s] = at[s] /\ Within(s, P)
  BY ThreadsApart DEF Basic, Apart, Tiled
<1>2. Need(s)' = Need(s) /\ tail \in Nat /\ tail' \in Nat /\ tail <= tail'
  BY <1>1, HeadersKept, TypesKept DEF Need, Basic, TypeOK
<1>3. PICK o : o = vec[s].off
  OBVIOUS
<1>4. PICK a : a = at[s]
  OBVIOUS
<1>5. pc[s] = "pool" /\ (vec[s] # Empty \/ Op(s) = "increment") => Leads(o, Q)'
  BY <1>1, <1>3, LeadsKept DEF Within
<1>6. pc[s] \in { "inplace", "fill", "copy" } =>
        Leads(a, Q)' /\ Recent(a)' /\ Span(a)' = Span(a)
  <2> SUFFICES ASSUME pc[s] \in { "inplace", "fill", "copy" } PROVE Leads(a, Q)' /\ Recent(a)' /\ Span(a)' = Span(a)
    OBVIOUS
  <2>1. Leads(a, P) /\ Recent(a) /\ a \in P /\ a < tail
    BY <1>1, <1>4 DEF Within, Leads
  <2>2. ~PushTail(t)
    <3>1. pc[s] \in InPool /\ \A r \in Threads : pc[r] \in InPool => r = s
      BY DEF Basic, Locked, InPool
    <3> QED
      BY <3>1 DEF PushTail, Goto, InPool
  <2>3. tail' = tail
    BY <2>2, LogKinds
  <2> QED
    BY <2>1, <2>3, LeadsKept, HeadersKept DEF Recent
<1>7. pc[s] = "publish" => a \in Q /\ a < tail' /\ (Recent(a)' => Span(a)' = Need(s))
  <2> SUFFICES ASSUME pc[s] = "publish" PROVE a \in Q /\ a < tail' /\ (Recent(a)' => Span(a)' = Need(s))
    OBVIOUS
  <2>1. a \in P /\ a < tail /\ (Recent(a) => Span(a) = Need(s)) /\ a \in Nat
    BY <1>1, <1>4 DEF Within
  <2>2. Recent(a)' => Recent(a) /\ Span(a)' = Span(a)
    BY <2>1, HeadersKept DEF Recent
  <2> QED
    BY <1>2, <2>1, <2>2
<1>8. (vec[s].off)' = o /\ at[s]' = a
  BY <1>1, <1>3, <1>4
<1>9. (pc[s] = "pool" /\ (vec[s] # Empty \/ Op(s) = "increment") => Leads(vec[s].off, Q))'
  BY <1>1, <1>5, <1>8 DEF Leads, Recent, Span, Op
<1>10. (pc[s] \in { "inplace", "fill", "copy" } => Leads(at[s], Q) /\ Recent(at[s]) /\ Need(s) <= Span(at[s]))'
  BY <1>1, <1>2, <1>4, <1>6, <1>8 DEF Leads, Recent, Span, Within
<1>11. (pc[s] \in { "fill", "copy" } => Span(at[s]) = Need(s))'
  BY <1>1, <1>2, <1>4, <1>6, <1>8 DEF Span, Within
<1>12. (pc[s] = "publish" => at[s] \in Q /\ at[s] < tail /\ (Recent(at[s]) => Span(at[s]) = Need(s)))'
  BY <1>1, <1>2, <1>7, <1>8 DEF Recent, Span
<1> QED
  BY <1>9, <1>10, <1>11, <1>12 DEF Within

LEMMA WithinKept ==
  ASSUME LengthsApart, Basic, Lengths, Young, NEW P \in SUBSET Nat, Tiled(P), NEW t \in Threads, Step(t),
         NEW CONSTANT Q, Q = P \cup { tail' }
  PROVE  Within(t, Q)'
<1> USE DEF Goto, Op, Stores
<1>1. /\ TypeOK /\ Flow /\ Tagged /\ Tiling(P) /\ Within(t, P) /\ FlowOf(t) /\ LengthsOf(t)
      /\ Need(t) = 2 + call[t].len /\ call[t].len \in Nat /\ DOMAIN call = Threads
      /\ pc \in [Threads -> Locations] /\ tail \in Nat /\ tail' \in Nat
      /\ vec \in [Threads -> Item] /\ at \in [Threads -> Nat] /\ idx \in [Threads -> 0 .. BucketSize]
  BY CallTypes, TypesKept DEF Basic, Flow, TypeOK, Tiled, Need, Lengths
<1>2. pc[t] # "idle" => B(t) \in Buckets
  BY <1>1, CallTypes
<1>3. \A b \in Buckets, i \in Indices : slots[b][i] # Empty => Leads(slots[b][i].off, P)
  BY DEF Tiled
<1>4. \A o \in Nat : o <= tail => (IsValid(o) <=> Recent(o))
  BY <1>1, OffsetsArePositions
<1>5. \A o : Leads(o, P) => Leads(o, Q)'
  BY LeadsKept
<1>6. pc'[t] \notin { "pool", "inplace", "fill", "copy", "publish" } => Within(t, Q)'
  BY DEF Within
<1>7. CASE SetLocate(t) \/ IncrementLocate(t)
  <2>1. /\ pc[t] = "find" /\ pc'[t] \in { "pool", "unlock" }
        /\ \/ vec'[t] = Empty /\ (call'[t].op = "increment" => pc'[t] = "unlock")
           \/ \E i \in Indices : vec'[t] = slots[B(t)][i] /\ slots[B(t)][i].tag # 0
    <3>1. /\ pc[t] = "find" => Tag(t) # 0
          /\ Located(B(t), Key(t)) # 0 => /\ Located(B(t), Key(t)) \in Indices
                                          /\ slots[B(t)][Located(B(t), Key(t))].tag = Tag(t)
      BY <1>1, LocatedIs, CallTypes DEF Tag
    <3>2. CASE SetLocate(t)
      BY <1>1, <3>1, <3>2 DEF SetLocate
    <3>3. CASE IncrementLocate(t)
      BY <1>1, <3>1, <3>3 DEF IncrementLocate
    <3> QED
      BY <1>7, <3>2, <3>3
  <2>2. CASE vec'[t] = Empty /\ (call'[t].op = "increment" => pc'[t] = "unlock")
    BY <2>1, <2>2 DEF Within
  <2>3. ASSUME NEW i \in Indices, vec'[t] = slots[B(t)][i], slots[B(t)][i] # Empty
        PROVE  Within(t, Q)'
    <3>1. PICK o : o = slots[B(t)][i].off
      OBVIOUS
    <3>2. Leads(o, Q)'
      BY <1>2, <1>3, <1>5, <2>1, <2>3, <3>1
    <3>3. (vec[t].off)' = o
      BY <2>3, <3>1
    <3>4. Leads(vec[t].off, Q)'
      BY <3>2, <3>3 DEF Leads, Recent, Span
    <3> QED
      BY <2>1, <3>4 DEF Within
  <2> QED
    BY SMTT(30), <2>1, <2>2, <2>3 DEF Empty
<1>8. CASE SetInPlace(t) \/ Increment(t)
  <2>1. /\ pc[t] = "pool" /\ pc'[t] = "inplace" /\ at'[t] = vec[t].off /\ IsValid(vec[t].off) /\ UNCHANGED <<head, tail, mem>>
    BY <1>1, <1>8 DEF SetInPlace, Increment, Reusable
  <2>2. PICK o : o = vec[t].off
    OBVIOUS
  <2>3. vec[t] # Empty \/ Op(t) = "increment"
    BY <1>8 DEF SetInPlace, Increment
  <2>4. Leads(o, P) /\ o \in Nat /\ o <= tail /\ Recent(o)
    BY <1>1, <1>4, <2>1, <2>2, <2>3 DEF Within, Leads, Tiling
  <2>5. Span(o) - 2 \in Lens /\ mem[o % Size] = Header(Span(o)) /\ Span(o) \in Nat \ {0}
    BY <1>1, <2>4 DEF Leads, Tiling
  <2>6. Need(t)' <= Span(o)
    <3>1. CASE SetInPlace(t)
      <4>1. PICK n \in SizesAt(Addr(o, 0)) : n >= 1 + call[t].len
        BY <2>2, <3>1 DEF SetInPlace, Reusable
      <4>2. Addr(o, 0) = o % Size
        BY <2>4 DEF Addr
      <4>3. n = Span(o)
        BY <2>5, <4>1, <4>2 DEF SizesAt, Header
      <4>4. call[t].len \in Lens
        BY <1>1, <2>1, <3>1 DEF LengthsOf, SetInPlace
      <4>5. call[t].len # (Span(o) - 2) + 1
        BY <2>5, <4>4 DEF LengthsApart
      <4>6. Need(t)' = 2 + call[t].len
        BY <3>1 DEF SetInPlace, Need
      <4> QED
        BY <1>1, <2>5, <4>1, <4>3, <4>5, <4>6
    <3>2. CASE Increment(t)
      <4>1. call'[t].len = 1
        BY <1>1, <3>2 DEF Increment
      <4>2. Span(o) - 2 >= 1
        BY <2>5, LogAssumption
      <4> QED
        BY <2>5, <4>1, <4>2 DEF Need
    <3> QED
      BY <1>8, <3>1, <3>2
  <2>7. Leads(o, Q)' /\ Recent(o)' /\ Span(o)' = Span(o)
    BY <1>5, <2>1, <2>4 DEF Recent, Span
  <2>8. at[t]' = o
    BY <2>1, <2>2
  <2>9. (Leads(at[t], Q) /\ Recent(at[t]) /\ Need(t) <= Span(at[t]))'
    BY <2>6, <2>7, <2>8 DEF Leads, Recent, Span
  <2> QED
    BY <2>1, <2>9 DEF Within
<1>9. CASE PushTail(t)
  <2>1. /\ pc[t] = "alloc" /\ pc'[t] \in { "fill", "copy" } /\ tail' = tail + Need(t) /\ at'[t] = tail % OffsetMod
        /\ mem' = [mem EXCEPT ![tail % Size] = Header(Need(t))] /\ call' = call
        /\ tail + 1 + Need(t) <= head + Size
    BY <1>1, <1>9 DEF PushTail, Fits
  <2>2. call[t].len \in Lens
    BY <1>1, <2>1 DEF LengthsOf, FlowOf, Moves
  <2>3. PICK o : o = tail
    OBVIOUS
  <2>4. at[t]' = o /\ Need(t)' = Need(t)
    BY <1>1, <2>1, <2>3, OffsetsArePositions DEF Need
  <2>5. Span(o)' = Need(t)
    <3>1. tail \in Int /\ Size \in Nat \ {0}
      BY <1>1, Sizes
    <3>2. tail % Size \in 0 .. Size - 1
      BY <3>1, ModDef
    <3> QED
      BY <1>1, <2>1, <2>3, <3>2 DEF Span, Header, TypeOK
  <2>6. o \in Q /\ o < tail' /\ tail' - o <= Size
    <3>1. head <= tail /\ tail \in P /\ head \in Nat /\ Size \in Nat
      BY <1>1, Sizes DEF Tiling, LogInBounds, TypeOK
    <3> QED
      BY <1>1, <2>1, <2>3, <3>1
  <2>7. Need(t) - 2 \in Lens
    BY <1>1, <2>2
  <2>8. (Leads(at[t], Q) /\ Recent(at[t]) /\ Span(at[t]) = Need(t))'
    BY <2>4, <2>5, <2>6, <2>7 DEF Leads, Recent, Span
  <2> QED
    BY <1>1, <2>1, <2>4, <2>8 DEF Within
<1>10. CASE WriteWord(t) \/ UnlockPool(t)
  <2>1. /\ pc[t] \in { "inplace", "fill" } /\ UNCHANGED <<call, at, tail>>
        /\ pc'[t] = pc[t] \/ pc'[t] = "unlock" \/ (pc[t] = "fill" /\ pc'[t] = "publish")
    BY <1>1, <1>10 DEF WriteWord, UnlockPool, locals
  <2>2. PICK o : o = at[t]
    OBVIOUS
  <2>3. /\ Leads(o, P) /\ Recent(o) /\ Need(t) <= Span(o) /\ o \in P /\ o < tail
        /\ pc[t] = "fill" => Span(o) = Need(t)
    BY <1>1, <2>1, <2>2 DEF Within, Leads
  <2>4. Leads(o, Q)' /\ Recent(o)' /\ Span(o)' = Span(o) /\ o \in Q
    BY <1>5, <2>1, <2>3, HeadersKept DEF Recent
  <2>5. at[t]' = o /\ Need(t)' = Need(t) /\ tail' = tail
    BY <2>1, <2>2 DEF Need
  <2>6. (Leads(at[t], Q) /\ Recent(at[t]) /\ Need(t) <= Span(at[t]) /\ (pc[t] = "fill" => Span(at[t]) = Need(t)))'
    BY <2>1, <2>3, <2>4, <2>5 DEF Leads, Recent, Span
  <2>7. pc'[t] = "publish" => at'[t] \in Q /\ at'[t] < tail' /\ Span(at[t])' = Need(t)'
    BY <2>1, <2>3, <2>4, <2>5 DEF Span
  <2> QED
    BY <2>1, <2>6, <2>7 DEF Within
<1>11. CASE \/ Looks(t) \/ SetExists(t) \/ IncrementFails(t) \/ SetNew(t) \/ MoveCheck(t) \/ Begins(t)
            \/ SweepLock(t) \/ MoveLock(t) \/ RemoveStale(t) \/ Unlock(t) \/ SweepBucket(t) \/ Del(t)
            \/ Publish(t) \/ PopHead(t) \/ MoveItem(t)
  <2>1. Looks(t) => pc'[t] \notin { "pool", "inplace", "fill", "copy", "publish" }
    BY LooksOutside DEF Reading, Comparing
  <2>2. ~Looks(t) => pc'[t] \notin { "pool", "inplace", "fill", "copy", "publish" }
    BY <1>1, <1>11 DEF SetExists, IncrementFails, SetNew, MoveCheck, Begins, Begin, SweepLock, MoveLock,
       RemoveStale, Unlock, SweepBucket, Del, Publish, PopHead, MoveItem, Return
  <2> QED
    BY <1>6, <2>1, <2>2
<1> QED
  BY StepKinds, <1>7, <1>8, <1>9, <1>10, <1>11 DEF Searches, EntersPool

LEMMA SlotsLead ==
  ASSUME Basic, Lengths, Young, NEW P \in SUBSET Nat, Tiled(P), NEW t \in Threads, Step(t), NEW CONSTANT Q, Q = P \cup { tail' }
  PROVE  \A b \in Buckets, i \in Indices : (slots[b][i] # Empty => Leads(slots[b][i].off, Q))'
<1>1. \A o : Leads(o, P) => Leads(o, Q)'
  BY LeadsKept
<1>2. SUFFICES ASSUME NEW b \in Buckets, NEW i \in Indices, slots'[b][i] # Empty
               PROVE  Leads(slots[b][i].off, Q)'
  BY DEF Empty
<1>3. PICK o : o = slots'[b][i].off
  OBVIOUS
<1>4. SUFFICES Leads(o, P)
  <2>1. Leads(o, Q)'
    BY <1>1, <1>4
  <2> QED
    BY <1>3, <2>1 DEF Leads, Recent, Span
<1>5. CASE slots'[b][i] = slots[b][i]
  BY <1>2, <1>3, <1>5 DEF Tiled
<1>6. CASE Puts(t) /\ slots'[b][i].off = at[t]
  <2>1. call[t].len \in Nat /\ Need(t) - 2 = call[t].len
    BY CallTypes DEF Basic, Need
  <2>2. CASE pc[t] = "publish"
    <3>1. call[t].len \in Lens
      BY <2>2 DEF Lengths, LengthsOf, Basic, Flow, FlowOf
    <3> QED
      BY <1>3, <1>6, <2>1, <2>2, <3>1 DEF Tiled, Within, Leads
  <2>3. CASE pc[t] = "copy"
    BY <1>3, <1>6, <2>3 DEF Tiled, Within
  <2> QED
    BY <1>6, <2>2, <2>3 DEF Puts
<1>7. slots'[b][i] = slots[b][i] \/ (Puts(t) /\ slots'[b][i].off = at[t])
  <2>1. CASE Clears
    BY <1>2, <2>1 DEF Clears
  <2>2. CASE Puts(t)
    BY <2>2 DEF Puts
  <2> QED
    BY <2>1, <2>2, SlotKinds
<1> QED
  BY <1>5, <1>6, <1>7

\* The log's allocations lie one behind the other from the head to the tail.
Sound == Basic /\ Lengths /\ \E P \in SUBSET Nat : Tiled(P)

LEMMA SoundAtFirst == Init => Sound
<1> SUFFICES ASSUME Init PROVE Sound
  OBVIOUS
<1>1. Lengths
  BY DEF Init, Lengths, LengthsOf, Moves, Moving, Header
<1>2. Tiled({0})
  BY Sizes DEF Init, Tiled, Tiling, Within, LogInBounds
<1> QED
  BY <1>1, <1>2, BasicAtFirst DEF Sound

LEMMA TiledKept ==
  ASSUME LengthsApart, Basic, Lengths, Young, NEW P \in SUBSET Nat, Tiled(P), NEW t \in Threads, t \in crew, Step(t),
         NEW CONSTANT Q, Q = P \cup { tail' }
  PROVE  Tiled(Q)'
<1>1. Tiling(Q)'
  BY TilingKept
<1>2. \A s \in Threads : Within(s, Q)'
  BY WithinKept, OthersWithin
<1> QED
  BY <1>1, <1>2, SlotsLead DEF Tiled

LEMMA SoundKept ==
  ASSUME LengthsApart
  PROVE  Sound /\ Young /\ [Next]_vars => Sound'
<1> SUFFICES ASSUME Sound, Young, [Next]_vars PROVE Sound'
  OBVIOUS
<1>1. CASE Next
  <2>1. PICK t \in crew : Step(t)
    BY <1>1 DEF Next, Step
  <2>2. t \in Threads
    BY <2>1, TableAssumption DEF Sound, Basic, Flow
  <2>3. PICK P \in SUBSET Nat : Tiled(P)
    BY DEF Sound
  <2>4. Basic' /\ Lengths'
    BY <2>1, <2>2, BasicKept, LengthsKept DEF Sound
  <2>5. PICK Q : Q = P \cup { tail' }
    OBVIOUS
  <2>6. Q \in SUBSET Nat
    BY <2>4, <2>5 DEF Basic, TypeOK
  <2>7. Tiled(Q)'
    BY <2>1, <2>2, <2>3, <2>5, TiledKept DEF Sound
  <2> QED
    BY <2>4, <2>6, <2>7 DEF Sound
<1>2. CASE UNCHANGED vars
  <2>1. PICK P \in SUBSET Nat : Tiled(P)
    BY DEF Sound
  <2>2. Lengths'
    BY <1>2 DEF vars, Sound, Lengths, LengthsOf, Moves, Stores, Op
  <2>3. Tiled(P)'
    BY <1>2, <2>1 DEF vars, Tiled, Tiling, Within, Leads, Recent, Span, Need, LogInBounds, Op
  <2> QED
    BY <1>2, <2>2, <2>3, BasicKept DEF Sound
<1> QED
  BY <1>1, <1>2

\* What the buckets and the log keep to while the offsets have not come round.
THEOREM SoundWhileYoung ==
  ASSUME LengthsApart
  PROVE  Spec /\ []Young => []Sound
BY SoundAtFirst, SoundKept, PTL DEF Spec

\* check_invariants() of the log holds, and no bucket has two items of one tag.
THEOREM TableStaysSound ==
  ASSUME LengthsApart
  PROVE  Spec /\ []Young => []TableSound
<1>1. Sound => TableSound
  BY DEF Sound, Basic, Tagged, Tiled, Tiling, TableSound
<1> QED
  BY <1>1, SoundWhileYoung, PTL

-----------------------------------------------------------------------------
(* The items.                                                              *)

\* An item of key k and length l, one whose value is x, and an item's own key and length.
Lies(p, k, l) == mem[Addr(p, 1)] = Meta(k, l)
Bears(p, x) == mem[Addr(p, 1)][3] = x.len /\ \A j \in 1 .. x.len : mem[Addr(p, j + 1)] = Word(x.v, j)
ItemKey(p) == mem[Addr(p, 1)][2]
ItemLen(p) == mem[Addr(p, 1)][3]

\* A thread has begun to change the item its slot leads to, and has not yet unlocked the bucket.
Alters(t) == pc[t] \in { "inplace", "unlock" } /\ step[t] > 0

\* The item a slot leads to is of the slot's bucket and tag, and is what was
\* last stored under its key unless a thread is changing it.
Content(b, i) ==
  LET o == slots[b][i].off IN
  slots[b][i] # Empty /\ Recent(o) =>
    /\ Lies(o, ItemKey(o), ItemLen(o)) /\ ItemKey(o) \in Keys /\ ItemLen(o) \in Lens
    /\ BucketOf[ItemKey(o)] = b /\ TagOf[ItemKey(o)] = slots[b][i].tag
    /\ ItemLen(o) + 2 <= Span(o)
    /\ \/ Bears(o, cur[ItemKey(o)])
       \/ \E t \in Threads : Alters(t) /\ B(t) = b /\ at[t] = o

\* What a thread has written of its item, which no slot leads to before it is published.
Unseen(o) == \A b \in Buckets, i \in Indices : slots[b][i] # Empty => slots[b][i].off # o
Written(t) ==
  /\ Lies(at[t], Key(t), call[t].len)
  /\ \A j \in 1 .. step[t] - 1 : mem[Addr(at[t], j + 1)] = Word(call[t].v, j)
Writing(t) ==
  /\ pc[t] \in { "fill", "copy", "publish" } =>
       /\ Unseen(at[t])
       /\ \A s \in Threads : s # t /\ pc[s] = "publish" => at[s] # at[t]
  /\ pc[t] = "inplace" \/ Alters(t) => \E i \in Indices : slots[B(t)][i] = [tag |-> Tag(t), off |-> at[t]]
  /\ pc[t] \in { "inplace", "fill" } => step[t] < Need(t)
  /\ pc[t] = "publish" \/ (pc[t] = "unlock" /\ step[t] > 0) => step[t] + 1 = Need(t)
  /\ pc[t] \in { "inplace", "fill", "publish", "unlock" } /\ step[t] > 0 /\ Recent(at[t]) => Written(t)

\* The item a thread has found and means to change, and the one it has deleted.
Aiming(t) ==
  pc[t] = "pool" /\ (vec[t] # Empty \/ Op(t) = "increment") =>
    /\ vec[t].tag = Tag(t) /\ \E i \in Indices : slots[B(t)][i] = vec[t]
    /\ Recent(vec[t].off) => Holds(vec[t].off, Key(t))
Deleting(t) ==
  pc[t] = "unlock" /\ Op(t) = "del" /\ idx[t] # 0 => \A i \in Indices : slots[B(t)][i].tag # Tag(t)

\* The length a get has read: it measures the item as long as the bucket is as
\* the get has found it, and move_to_head() relies on it after that.
Loaded(t) ==
  pc[t] \in { "value", "validate", "found" } /\ version[B(t)] = ver[t] /\ Recent(vec[t].off) =>
    ItemLen(vec[t].off) = call[t].len
Measured(t) ==
  Moves(t) /\ Recent(vec[t].off) /\ Slot(t) = vec[t] => ItemLen(vec[t].off) = call[t].len

Filled ==
  /\ \A b \in Buckets, i \in Indices : Content(b, i)
  /\ \A t \in Threads : Writing(t) /\ Aiming(t) /\ Deleting(t) /\ Loaded(t) /\ Measured(t)

\* An allocation of the log lies between its position and the tail.
LEMMA Allocation ==
  ASSUME TypeOK, NEW P \in SUBSET Nat, Tiling(P), NEW p \in P, p < tail, Recent(p)
  PROVE  /\ p \in Nat /\ Span(p) \in Nat \ {0} /\ p + Span(p) <= tail /\ Span(p) <= Size /\ tail - p <= Size
         /\ \A q \in P : q <= p \/ p + Span(p) <= q
<1>1. /\ Span(p) \in Nat \ {0} /\ p + Span(p) \in P
      /\ \A q \in P : q <= p \/ p + Span(p) <= q
      /\ \A q \in P : q <= tail
  BY DEF Tiling
<1>2. p \in Nat /\ tail - p <= Size /\ tail \in Nat /\ Size \in Nat
  BY Sizes DEF Recent, TypeOK
<1>3. p + Span(p) <= tail
  BY <1>1
<1> QED
  BY <1>1, <1>2, <1>3

\* The words of different allocations are apart, and those of one.
LEMMA WordsApart ==
  ASSUME TypeOK, NEW P \in SUBSET Nat, Tiling(P), NEW p \in P, p < tail, Recent(p), NEW q \in P, q < tail, Recent(q),
         NEW i \in 0 .. Span(p) - 1, NEW j \in 0 .. Span(q) - 1, p # q \/ i # j
  PROVE  Addr(p, i) # Addr(q, j)
<1> DEFINE x == p + i
           y == q + j
<1>1. /\ p \in Nat /\ Span(p) \in Nat \ {0} /\ p + Span(p) <= tail /\ tail - p <= Size /\ (q <= p \/ p + Span(p) <= q)
      /\ q \in Nat /\ Span(q) \in Nat \ {0} /\ q + Span(q) <= tail /\ tail - q <= Size /\ (p <= q \/ q + Span(q) <= p)
      /\ tail \in Nat /\ Size \in Nat \ {0}
  BY Allocation, Sizes DEF TypeOK
<1>2. i \in Nat /\ i < Span(p) /\ j \in Nat /\ j < Span(q)
  BY <1>1
<1>3. x \in Int /\ y \in Int /\ x # y /\ x - y < Size /\ y - x < Size
  BY <1>1, <1>2
<1>4. Addr(p, i) = x % Size /\ Addr(q, j) = y % Size
  BY DEF Addr
<1> HIDE DEF x, y
<1>5. CASE x < y
  BY <1>1, <1>3, <1>4, <1>5, ModDistinct
<1>6. CASE y < x
  BY <1>1, <1>3, <1>4, <1>6, ModDistinct
<1> QED
  BY <1>3, <1>5, <1>6

\* A step leaves the words of every item alone but the one it writes.
Same(p) == \A j \in 0 .. Span(p) - 1 : mem'[Addr(p, j)] = mem[Addr(p, j)]

LEMMA ItemKept ==
  ASSUME Basic, NEW P \in SUBSET Nat, Tiled(P), NEW t \in Threads, Step(t), NEW CONSTANT p \in P, p < tail, tail' - p <= Size,
         WriteWord(t) \/ MoveItem(t) => at[t] # p
  PROVE  Same(p)
<1>1. /\ TypeOK /\ Tiling(P) /\ Within(t, P) /\ Need(t) \in Nat /\ Need(t) >= 2 /\ call[t].len \in Nat
      /\ Size \in Nat \ {0} /\ DOMAIN mem = 0 .. Size - 1 /\ tail \in Nat /\ step[t] \in Nat /\ p \in Nat
      /\ Recent(p) /\ Need(t) = 2 + call[t].len
  BY CallTypes, Sizes, HeadersKept DEF Basic, TypeOK, Tiled, Need
<1>2. Span(p) \in Nat /\ p + Span(p) <= tail
  BY <1>1, Allocation
<1>3. SUFFICES ASSUME NEW i \in 0 .. Span(p) - 1 PROVE mem'[Addr(p, i)] = mem[Addr(p, i)]
  BY DEF Same
<1>4. Addr(p, i) \in DOMAIN mem
  <2>1. p + i \in Int /\ Size \in Nat \ {0}
    BY <1>1, <1>2
  <2>2. (p + i) % Size \in 0 .. Size - 1
    BY <2>1, ModDef
  <2> QED
    BY <1>1, <2>2 DEF Addr
<1>5. CASE PushTail(t)
  <2>1. p + i \in Int /\ tail \in Int /\ p + i < tail /\ tail - (p + i) < Size /\ Size \in Nat \ {0}
    <3>1. tail' = tail + Need(t) /\ i \in Nat /\ i < Span(p)
      BY <1>2, <1>5 DEF PushTail
    <3>2. tail - p < Size
      BY SMTT(30), <1>1, <3>1
    <3> QED
      BY SMTT(30), <1>1, <1>2, <3>1, <3>2
  <2>2. Addr(p, i) # tail % Size
    BY <2>1, ModDistinct DEF Addr
  <2> QED
    BY <1>4, <1>5, <2>2 DEF PushTail
<1>6. CASE WriteWord(t)
  <2>1. at[t] \in P /\ at[t] < tail /\ Recent(at[t]) /\ Need(t) <= Span(at[t]) /\ step[t] + 1 < Need(t)
    BY <1>1, <1>6 DEF WriteWord, Within, Leads
  <2>2. step[t] + 1 \in 0 .. Span(at[t]) - 1
    <3>1. Span(at[t]) \in Nat
      BY <1>1, <2>1, Allocation
    <3> QED
      BY SMTT(30), <1>1, <2>1, <3>1
  <2>3. Addr(at[t], step[t] + 1) # Addr(p, i)
    BY <1>1, <1>6, <2>1, <2>2, WordsApart
  <2> QED
    BY <1>4, <1>6, <2>3 DEF WriteWord
<1>7. CASE MoveItem(t)
  <2>1. at[t] \in P /\ at[t] < tail /\ Recent(at[t]) /\ Need(t) <= Span(at[t])
    BY <1>1, <1>7 DEF MoveItem, Goto, Within, Leads
  <2>2. \A j \in 1 .. call[t].len + 1 : j \in 0 .. Span(at[t]) - 1
    <3>1. Span(at[t]) \in Nat
      BY <1>1, <2>1, Allocation
    <3> QED
      BY SMTT(30), <1>1, <2>1, <3>1
  <2>3. \A j \in 1 .. call[t].len + 1 : Addr(at[t], j) # Addr(p, i)
    BY <1>1, <1>7, <2>1, <2>2, WordsApart
  <2> DEFINE target == { Addr(at[t], j) : j \in 1 .. call[t].len + 1 }
  <2>4. Addr(p, i) \notin target
    BY <2>3
  <2>5. mem' = mem \/ \A a \in DOMAIN mem : a \notin target => mem'[a] = mem[a]
    BY <1>7 DEF MoveItem
  <2> HIDE DEF target
  <2> QED
    BY <1>4, <2>4, <2>5
<1>8. CASE UNCHANGED mem
  BY <1>8
<1> QED
  BY <1>5, <1>6, <1>7, <1>8, LogKinds

LEMMA SameItem ==
  ASSUME NEW CONSTANT p, Same(p), Span(p) \in Nat, Span(p) >= 2
  PROVE  /\ mem'[Addr(p, 1)] = mem[Addr(p, 1)]
         /\ ItemKey(p)' = ItemKey(p) /\ ItemLen(p)' = ItemLen(p)
         /\ \A k, l : Lies(p, k, l)' <=> Lies(p, k, l)
         /\ \A k : Holds(p, k)' <=> Holds(p, k)
         /\ \A j \in 1 .. Span(p) - 2 : mem'[Addr(p, j + 1)] = mem[Addr(p, j + 1)]
<1>1. mem'[Addr(p, 1)] = mem[Addr(p, 1)]
  BY DEF Same
<1>2. \A j \in 1 .. Span(p) - 2 : j + 1 \in 0 .. Span(p) - 1
  OBVIOUS
<1>3. \A j \in 1 .. Span(p) - 2 : mem'[Addr(p, j + 1)] = mem[Addr(p, j + 1)]
  BY <1>2 DEF Same
<1> QED
  BY <1>1, <1>3 DEF ItemKey, ItemLen, Lies, Holds

\* What is known of the place a slot leads to.
LEMMA SlotLeads ==
  ASSUME Basic, NEW P \in SUBSET Nat, Tiled(P), NEW b \in Buckets, NEW i \in Indices, slots[b][i] # Empty
  PROVE  /\ slots[b][i].off \in P /\ slots[b][i].off \in Nat /\ slots[b][i].off < tail /\ slots[b][i].tag # 0
         /\ Recent(slots[b][i].off) => Span(slots[b][i].off) \in Nat /\ Span(slots[b][i].off) >= 3
<1>1. Leads(slots[b][i].off, P) /\ Tiling(P) /\ TypeOK
  BY DEF Tiled, Basic
<1>2. slots[b][i].off \in P /\ slots[b][i].off \in Nat /\ slots[b][i].off < tail /\ slots[b][i].tag # 0
  BY <1>1 DEF Leads, Basic, Tagged
<1>3. Recent(slots[b][i].off) => Span(slots[b][i].off) \in Nat /\ Span(slots[b][i].off) - 2 >= 1
  <2>1. Recent(slots[b][i].off) => Span(slots[b][i].off) \in Nat /\ Span(slots[b][i].off) - 2 \in Lens
    BY <1>1, <1>2, Allocation DEF Leads
  <2> QED
    BY <2>1, LogAssumption
<1> QED
  BY <1>2, <1>3

LEMMA OneSlot ==
  ASSUME Basic, NEW b \in Buckets, NEW i \in Indices, NEW j \in Indices, slots[b][i].tag # 0, slots[b][i].tag = slots[b][j].tag
  PROVE  i = j
BY DEF Basic, Tagged, OneSlotPerTag, Empty

\* Two slots of which one leads to the same item as the other are one slot.
LEMMA OneSlotPerItem ==
  ASSUME Basic, Filled, NEW b \in Buckets, NEW i \in Indices, slots[b][i] # Empty, Recent(slots[b][i].off),
         NEW c \in Buckets, NEW j \in Indices, slots[c][j] # Empty, slots[c][j].off = slots[b][i].off
  PROVE  b = c /\ i = j
<1>1. /\ BucketOf[ItemKey(slots[b][i].off)] = b /\ TagOf[ItemKey(slots[b][i].off)] = slots[b][i].tag
      /\ BucketOf[ItemKey(slots[b][i].off)] = c /\ TagOf[ItemKey(slots[b][i].off)] = slots[c][j].tag
  BY DEF Filled, Content
<1>2. slots[b][i].tag # 0
  BY DEF Basic, Tagged
<1> QED
  BY <1>1, <1>2, OneSlot

LEMMA SlotItemKept ==
  ASSUME Basic, NEW P \in SUBSET Nat, Tiled(P), Filled, NEW t \in Threads, Step(t),
         NEW b \in Buckets, NEW i \in Indices, slots[b][i] # Empty,
         NEW CONSTANT o, o = slots[b][i].off, tail' - o <= Size, ~HasBucket(t, b)
  PROVE  Same(o) /\ Recent(o) /\ o \in P /\ o \in Nat /\ o < tail /\ Span(o) \in Nat /\ Span(o) >= 3 /\ Span(o)' = Span(o)
<1>1. o \in P /\ o \in Nat /\ o < tail /\ (Recent(o) => Span(o) \in Nat /\ Span(o) >= 3)
  BY SlotLeads
<1>2. Recent(o) /\ Span(o)' = Span(o)
  BY <1>1, HeadersKept
<1>3. ASSUME WriteWord(t) \/ MoveItem(t) PROVE at[t] # o
  <2>1. pc[t] \in { "inplace", "fill", "copy" } /\ Writing(t)
    BY <1>3 DEF WriteWord, MoveItem, Goto, Filled
  <2>2. CASE pc[t] \in { "fill", "copy" }
    BY <2>1, <2>2 DEF Writing, Unseen
  <2>3. CASE pc[t] = "inplace"
    <3>1. PICK j \in Indices : slots[B(t)][j] = [tag |-> Tag(t), off |-> at[t]]
      BY <2>1, <2>3 DEF Writing
    <3>2. B(t) \in Buckets /\ Tag(t) # 0 /\ HasBucket(t, B(t))
      BY <2>3, CallTypes DEF Basic, HasBucket, Inside
    <3>3. slots[B(t)][j] # Empty /\ slots[B(t)][j].off = at[t]
      BY <3>1, <3>2 DEF Empty
    <3> QED
      BY <1>2, <3>2, <3>3, OneSlotPerItem
  <2> QED
    BY <2>1, <2>2, <2>3
<1>4. Same(o)
  BY <1>1, <1>3, ItemKept
<1> QED
  BY <1>1, <1>2, <1>4

\* An item keeps its value while it is left alone.
LEMMA BearsKept ==
  ASSUME NEW CONSTANT p, Same(p), Span(p) \in Nat, Span(p) >= 2, NEW k, cur'[k] = cur[k],
         Bears(p, cur[k]), ItemLen(p) \in Nat, ItemLen(p) + 2 <= Span(p)
  PROVE  Bears(p, cur[k])'
<1>1. mem'[Addr(p, 1)] = mem[Addr(p, 1)] /\ \A j \in 1 .. Span(p) - 2 : mem'[Addr(p, j + 1)] = mem[Addr(p, j + 1)]
  BY SameItem
<1>2. ItemLen(p) = cur[k].len
  BY DEF Bears, ItemLen
<1>3. \A j \in 1 .. cur[k].len : j \in 1 .. Span(p) - 2
  BY <1>2
<1> QED
  BY <1>1, <1>3 DEF Bears

\* A slot that keeps its item, which the step does not write.
LEMMA ContentStays ==
  ASSUME Basic, NEW P \in SUBSET Nat, Tiled(P), Filled, NEW t \in Threads, t \in crew, Step(t),
         NEW b \in Buckets, NEW i \in Indices, slots[b][i] # Empty, slots'[b][i] = slots[b][i],
         WriteWord(t) \/ MoveItem(t) => at[t] # slots[b][i].off
  PROVE  Content(b, i)'
<1>1. PICK o : o = slots[b][i].off
  OBVIOUS
<1>2. SUFFICES ASSUME Recent(o)'
               PROVE  (/\ Lies(o, ItemKey(o), ItemLen(o)) /\ ItemKey(o) \in Keys /\ ItemLen(o) \in Lens
                       /\ BucketOf[ItemKey(o)] = b /\ TagOf[ItemKey(o)] = slots[b][i].tag
                       /\ ItemLen(o) + 2 <= Span(o)
                       /\ \/ Bears(o, cur[ItemKey(o)])
                          \/ \E s \in Threads : Alters(s) /\ B(s) = b /\ at[s] = o)'
  <2>1. slots'[b][i].off = o
    BY <1>1
  <2> QED
    BY <1>2, <2>1 DEF Content, Recent, Lies, ItemKey, ItemLen, Span, Bears
<1>3. tail' - o <= Size
  BY <1>2 DEF Recent
<1>4. o \in P /\ o \in Nat /\ o < tail /\ slots[b][i].tag # 0
  BY <1>1, SlotLeads
<1>5. Recent(o) /\ Span(o)' = Span(o)
  BY <1>3, <1>4, HeadersKept
<1>6. Span(o) \in Nat /\ Span(o) >= 3
  BY <1>1, <1>5, SlotLeads
<1>7. Same(o)
  BY <1>1, <1>3, <1>4, ItemKept
<1>8. PICK k \in Keys : k = ItemKey(o)
  BY <1>1, <1>5 DEF Filled, Content
<1>9. /\ Lies(o, k, ItemLen(o)) /\ ItemLen(o) \in Lens /\ BucketOf[k] = b /\ TagOf[k] = slots[b][i].tag
      /\ ItemLen(o) + 2 <= Span(o)
      /\ Bears(o, cur[k]) \/ \E s \in Threads : Alters(s) /\ B(s) = b /\ at[s] = o
  BY <1>1, <1>5, <1>8 DEF Filled, Content
<1>10. ItemLen(o) \in Nat
  BY <1>9, Sizes
<1>11. ItemKey(o)' = k /\ ItemLen(o)' = ItemLen(o) /\ Lies(o, k, ItemLen(o))'
  <2>1. ItemKey(o)' = ItemKey(o) /\ ItemLen(o)' = ItemLen(o) /\ mem'[Addr(o, 1)] = mem[Addr(o, 1)]
    BY <1>6, <1>7, SameItem
  <2> QED
    BY <1>8, <1>9, <2>1 DEF Lies
<1>12. Bears(o, cur[k])' \/ (\E s \in Threads : Alters(s) /\ B(s) = b /\ at[s] = o)'
  <2>1. CASE Unlock(t) /\ B(t) = b /\ k = Key(t)
    <3>1. /\ pc[t] = "unlock" /\ Writing(t) /\ Deleting(t) /\ FlowOf(t) /\ TagOf[k] = Tag(t) /\ UNCHANGED mem
          /\ cur' = IF Stores(t) \/ Op(t) = "increment"
                    THEN IF step[t] > 0 THEN [cur EXCEPT ![k] = [v |-> call[t].v, len |-> call[t].len]] ELSE cur
                    ELSE IF Op(t) = "del" /\ idx[t] # 0 THEN [cur EXCEPT ![k] = NoValue] ELSE cur
      BY <2>1 DEF Unlock, Filled, Basic, Flow, Tag, log, Stores, Op
    <3>2. ~(Op(t) = "del" /\ idx[t] # 0)
      BY <1>9, <2>1, <3>1 DEF Deleting
    <3>3. CASE step[t] > 0
      <4>1. PICK j \in Indices : slots[B(t)][j] = [tag |-> Tag(t), off |-> at[t]]
        BY <3>1, <3>3 DEF Writing, Alters
      <4>2. j = i
        BY <1>4, <1>9, <2>1, <3>1, <4>1, OneSlot
      <4>3. at[t] = o
        BY <1>1, <2>1, <4>1, <4>2
      <4>4. step[t] + 1 = Need(t) /\ Written(t)
        BY <1>5, <3>1, <3>3, <4>3 DEF Writing
      <4>5. call[t].len \in Nat /\ step[t] \in Nat /\ step[t] - 1 = call[t].len
        <5>1. call[t].len \in Nat /\ step[t] \in Nat /\ step[t] + 1 = 2 + call[t].len
          BY <4>4, CallTypes DEF Need, Basic, TypeOK
        <5> QED
          BY <5>1
      <4>6. mem[Addr(o, 1)][3] = call[t].len /\ \A j1 \in 1 .. call[t].len : mem[Addr(o, j1 + 1)] = Word(call[t].v, j1)
        BY <4>3, <4>4, <4>5 DEF Written, Lies, Meta
      <4>7. cur'[k] = [v |-> call[t].v, len |-> call[t].len]
        <5>1. k \in DOMAIN cur
          BY DEF Basic, Flow
        <5>2. Stores(t) \/ Op(t) = "increment"
          BY <3>1, <3>3 DEF FlowOf, Stores
        <5> QED
          BY <3>1, <3>3, <5>1, <5>2
      <4> QED
        BY <3>1, <4>6, <4>7 DEF Bears
    <3>4. CASE ~(step[t] > 0)
      <4>1. cur' = cur
        BY <3>1, <3>2, <3>4
      <4>2. \A s \in Threads : Alters(s) => s # t
        BY <3>4 DEF Alters
      <4> QED
        <5>1. CASE Bears(o, cur[k])
          BY <1>6, <1>7, <1>9, <1>10, <4>1, <5>1, BearsKept
        <5>2. ASSUME NEW s \in Threads, Alters(s), B(s) = b, at[s] = o
              PROVE  (Alters(s) /\ B(s) = b /\ at[s] = o)'
          <6>1. s # t
            BY <4>2, <5>2
          <6> QED
            BY <5>2, <6>1, ThreadsApart DEF Basic, Apart, Alters, B, Key
        <5> QED
          BY <1>9, <5>1, <5>2
    <3> QED
      BY <3>3, <3>4
  <2>2. CASE ~(Unlock(t) /\ B(t) = b /\ k = Key(t))
    <3>1. cur'[k] = cur[k]
      BY <1>9, <2>2, CurKinds DEF B
    <3>2. CASE Bears(o, cur[k])
      BY <1>6, <1>7, <1>9, <1>10, <3>1, <3>2, BearsKept
    <3>3. ASSUME NEW s \in Threads, Alters(s), B(s) = b, at[s] = o
          PROVE  Bears(o, cur[k])' \/ (Alters(s) /\ B(s) = b /\ at[s] = o)'
      <4>1. CASE s # t
        BY <3>3, <4>1, ThreadsApart DEF Basic, Apart, Alters, B, Key
      <4>2. CASE s = t
        <5>1. ~Unlock(t)
          <6>1. SUFFICES ASSUME Unlock(t) PROVE k = Key(t)
            BY <2>2, <3>3, <4>2
          <6>2. pc[t] = "unlock" /\ step[t] > 0 /\ Writing(t)
            BY <3>3, <4>2, <6>1 DEF Unlock, Alters, Filled
          <6>3. Lies(o, Key(t), call[t].len)
            BY <1>5, <3>3, <4>2, <6>2 DEF Writing, Written
          <6> QED
            BY <1>8, <6>3 DEF Lies, ItemKey, Meta
        <5>2. pc[t] \in { "inplace", "unlock" } /\ step[t] > 0 /\ pc \in [Threads -> Locations]
              /\ step \in [Threads -> Nat]
          BY <3>3, <4>2 DEF Alters, Basic, TypeOK
        <5>3. WriteWord(t) \/ UnlockPool(t)
          <6>1. ~Looks(t)
            BY <5>2, LooksOutside DEF Reading, Comparing
          <6>2. ~(Searches(t) \/ EntersPool(t) \/ Begins(t))
            BY <5>2 DEF Searches, EntersPool, Begins, SetExists, SetLocate, IncrementLocate, IncrementFails,
               SetInPlace, SetNew, Increment, MoveCheck, Begin, Goto
          <6>3. ~(SweepLock(t) \/ MoveLock(t) \/ RemoveStale(t) \/ SweepBucket(t) \/ Del(t) \/ Publish(t)
                  \/ PopHead(t) \/ PushTail(t) \/ MoveItem(t))
            BY <5>2 DEF SweepLock, MoveLock, RemoveStale, SweepBucket, Del, Publish, PopHead, PushTail, MoveItem, Goto
          <6> QED
            BY StepKinds, <5>1, <6>1, <6>2, <6>3
        <5>4. pc'[t] \in { "inplace", "unlock" } /\ step'[t] > 0 /\ call' = call /\ at' = at
          BY <5>2, <5>3 DEF WriteWord, UnlockPool, locals
        <5> QED
          BY <3>3, <4>2, <5>4 DEF Alters, B, Key
      <4> QED
        BY <4>1, <4>2
    <3> QED
      BY <1>9, <3>2, <3>3
  <2> QED
    BY <2>1, <2>2
<1>13. (ItemLen(o) \in Lens /\ ItemLen(o) + 2 <= Span(o))'
  BY <1>5, <1>9, <1>11
<1>14. Bears(o, cur[k])' => Bears(o, cur[ItemKey(o)])'
  BY <1>11 DEF Bears
<1> QED
  BY <1>9, <1>11, <1>12, <1>13, <1>14 DEF Lies

\* A word written leaves those that are written already.
LEMMA WordWritten ==
  ASSUME Basic, NEW P \in SUBSET Nat, Tiled(P), Filled, NEW t \in Threads, WriteWord(t)
  PROVE  Written(t)' /\ at' = at /\ call' = call /\ pc' = pc /\ slots' = slots /\ tail' = tail /\ step'[t] = step[t] + 1
<1>1. /\ TypeOK /\ Tiling(P) /\ Within(t, P) /\ Writing(t) /\ DOMAIN mem = 0 .. Size - 1 /\ Size \in Nat \ {0}
      /\ step \in [Threads -> Nat] /\ Need(t) \in Nat /\ call[t].len \in Nat
  BY CallTypes, Sizes DEF Basic, TypeOK, Tiled, Filled
<1> DEFINE j == step[t] + 1
           w == IF j = 1 THEN Meta(Key(t), call[t].len) ELSE Word(call[t].v, j - 1)
<1>2. /\ pc[t] \in { "inplace", "fill" } /\ j < Need(t) /\ mem' = [mem EXCEPT ![Addr(at[t], j)] = w]
      /\ step'[t] = j /\ at' = at /\ call' = call /\ pc' = pc /\ slots' = slots /\ tail' = tail
  BY <1>1 DEF WriteWord, table
<1>3. PICK o : o = at[t]
  OBVIOUS
<1>4. o \in P /\ o < tail /\ Recent(o) /\ Need(t) <= Span(o)
  BY <1>1, <1>2, <1>3 DEF Within, Leads
<1>5. Span(o) \in Nat \ {0} /\ Span(o) <= Size /\ o \in Nat
  BY <1>1, <1>4, Allocation
<1>6. \A i \in 0 .. Span(o) - 1 : Addr(o, i) \in DOMAIN mem
  <2>1. ASSUME NEW i \in 0 .. Span(o) - 1 PROVE Addr(o, i) \in DOMAIN mem
    <3>1. o + i \in Int /\ Size \in Nat \ {0}
      BY <1>1, <1>5
    <3>2. (o + i) % Size \in 0 .. Size - 1
      BY <3>1, ModDef
    <3> QED
      BY <1>1, <3>2 DEF Addr
  <2> QED
    BY <2>1
<1>7. j \in Nat /\ 1 <= j /\ j \in 0 .. Span(o) - 1
  BY <1>1, <1>2, <1>4, <1>5
<1>8. \A i \in 0 .. Span(o) - 1 : i # j => Addr(o, i) # Addr(o, j)
  BY <1>1, <1>4, <1>7, WordsApart
<1> HIDE DEF j, w
<1>9. mem'[Addr(o, j)] = w /\ \A i \in 0 .. Span(o) - 1 : i # j => mem'[Addr(o, i)] = mem[Addr(o, i)]
  BY <1>2, <1>3, <1>6, <1>7, <1>8
<1>10. (Key(t))' = Key(t)
  BY <1>2 DEF Key
<1>11. mem'[Addr(o, 1)] = Meta(Key(t), call[t].len)
  <2>1. CASE j = 1
    BY <1>9, <2>1 DEF w
  <2>2. CASE j # 1
    <3>1. step[t] > 0
      BY <1>1, <2>2 DEF j
    <3>2. mem[Addr(o, 1)] = Meta(Key(t), call[t].len)
      BY <1>2, <1>3, <1>4, <3>1, <1>1 DEF Writing, Written, Lies
    <3>3. 1 \in 0 .. Span(o) - 1
      BY <1>5, <1>7, <2>2
    <3> QED
      BY <1>9, <2>2, <3>2, <3>3
  <2> QED
    BY <2>1, <2>2
<1>12. ASSUME NEW i \in 1 .. j - 1 PROVE mem'[Addr(o, i + 1)] = Word(call[t].v, i)
  <2>1. i + 1 \in 0 .. Span(o) - 1 /\ j # 1
    BY <1>5, <1>7, <1>12
  <2>2. CASE i + 1 = j
    <3>1. j - 1 = i
      BY <1>7, <2>2
    <3>2. w = Word(call[t].v, i)
      BY <2>1, <3>1 DEF w
    <3> QED
      BY <1>9, <2>2, <3>2
  <2>3. CASE i + 1 # j
    <3>1. step[t] > 0 /\ i \in 1 .. step[t] - 1
      BY <1>1, <1>7, <2>1, <2>3 DEF j
    <3>2. mem[Addr(o, i + 1)] = Word(call[t].v, i)
      BY <1>1, <1>2, <1>3, <1>4, <3>1 DEF Writing, Written
    <3> QED
      BY <1>9, <2>1, <2>3, <3>2
  <2> QED
    BY <2>2, <2>3
<1>13. Written(t)'
  BY <1>2, <1>3, <1>10, <1>11, <1>12 DEF Written, Lies
<1> QED
  BY <1>2, <1>13 DEF j

\* The slot whose item a thread changes in place.
LEMMA ContentChanged ==
  ASSUME Basic, Lengths, NEW P \in SUBSET Nat, Tiled(P), Filled, NEW t \in Threads, WriteWord(t),
         NEW b \in Buckets, NEW i \in Indices, slots[b][i] # Empty, at[t] = slots[b][i].off
  PROVE  Content(b, i)'
<1>1. PICK o : o = at[t]
  OBVIOUS
<1>2. /\ pc[t] \in { "inplace", "fill" } /\ Within(t, P) /\ Writing(t) /\ LengthsOf(t) /\ step[t] \in Nat
      /\ step[t] + 1 < Need(t)
  BY DEF WriteWord, Tiled, Filled, Lengths, Basic, TypeOK
<1>3. pc[t] = "inplace"
  BY <1>2 DEF Writing, Unseen
<1>4. Recent(o) /\ o \in P /\ o < tail /\ Need(t) <= Span(o)
  BY <1>1, <1>2, <1>3 DEF Within, Leads
<1>5. call[t].len \in Lens /\ Key(t) \in Keys /\ B(t) \in Buckets /\ Tag(t) # 0
  BY <1>2, <1>3, CallTypes DEF LengthsOf, Basic
<1>6. PICK j \in Indices : slots[B(t)][j] = [tag |-> Tag(t), off |-> o]
  BY <1>1, <1>2, <1>3 DEF Writing
<1>7. b = B(t) /\ slots[b][i].tag = Tag(t)
  <2>1. slots[B(t)][j] # Empty /\ slots[B(t)][j].off = o /\ slots[B(t)][j].tag = Tag(t)
    BY <1>5, <1>6 DEF Empty
  <2> QED
    BY <1>1, <1>4, <1>5, <2>1, OneSlotPerItem
<1>8. Written(t)' /\ UNCHANGED <<at, call, pc, slots, tail>> /\ step'[t] = step[t] + 1
  BY WordWritten
<1>9. (Lies(o, ItemKey(o), ItemLen(o)))' /\ ItemKey(o)' = Key(t) /\ ItemLen(o)' = call[t].len
  BY <1>1, <1>8 DEF Written, Lies, ItemKey, ItemLen, Meta, Key
<1>10. Span(o)' = Span(o)
  <2>1. Step(t)
    BY DEF Step, Continue
  <2>2. Size \in Nat /\ tail' - o <= Size
    BY <1>4, <1>8, Sizes DEF Recent
  <2> QED
    BY <1>4, <2>1, <2>2, HeadersKept
<1>11. ItemLen(o)' + 2 <= Span(o)'
  <2>1. Need(t) = 2 + call[t].len /\ call[t].len \in Nat
    BY CallTypes DEF Basic, Need
  <2>2. Span(o) \in Nat
    BY <1>4, Allocation DEF Basic, Tiled
  <2> QED
    BY <1>4, <1>9, <1>10, <2>1, <2>2
<1>12. (Alters(t) /\ B(t) = b /\ at[t] = o)'
  BY <1>1, <1>2, <1>3, <1>7, <1>8 DEF Alters, B, Key
<1>13. slots'[b][i].off = o /\ slots'[b][i].tag = slots[b][i].tag
  BY <1>1, <1>8
<1>14. BucketOf[Key(t)] = b /\ TagOf[Key(t)] = slots[b][i].tag
  BY <1>7 DEF B, Tag
<1>15. (/\ Lies(o, ItemKey(o), ItemLen(o)) /\ ItemKey(o) \in Keys /\ ItemLen(o) \in Lens
        /\ BucketOf[ItemKey(o)] = b /\ TagOf[ItemKey(o)] = slots[b][i].tag
        /\ ItemLen(o) + 2 <= Span(o)
        /\ \E s \in Threads : Alters(s) /\ B(s) = b /\ at[s] = o)'
  BY <1>5, <1>9, <1>11, <1>12, <1>13, <1>14
<1> QED
  BY <1>13, <1>15 DEF Content, Recent, Lies, ItemKey, ItemLen, Span, Bears

\* The word that move_to_head() copies to a place is the one it should be.
LEMMA BackAgain ==
  ASSUME NEW a \in Nat, NEW M \in Nat \ {0}, NEW j \in 0 .. M - 1
  PROVE  (((a + j) % M) - a) % M = j
<1> DEFINE r == (a + j) % M
           q == (a + j) \div M
<1>1. r \in Int /\ q \in Int /\ a + j = (M * q) + r
  <2>1. a + j \in Int
    OBVIOUS
  <2>2. (a + j) % M \in 0 .. M - 1
    BY <2>1, ModDef
  <2> QED
    BY <2>1, <2>2, ModDef
<1> HIDE DEF r, q
<1>2. (r - a) - j = M * (-q)
  <2>1. M * (-q) = -(M * q)
    BY <1>1
  <2>2. M * q \in Int
    BY <1>1
  <2> QED
    BY <1>1, <2>1, <2>2
<1>3. Turns(M, (r - a) - j)
  BY <1>1, <1>2 DEF Turns
<1>4. r - a \in Int /\ j \in Int
  BY <1>1
<1>5. (r - a) % M = j % M
  BY <1>3, <1>4, ModEqual
<1>6. j % M = j
  BY ModSmall
<1> QED
  BY <1>5, <1>6 DEF r

LEMMA ItemCopied ==
  ASSUME Basic, NEW P \in SUBSET Nat, Tiled(P), NEW t \in Threads, MoveItem(t), IsValid(vec[t].off)
  PROVE  \A j \in 1 .. call[t].len + 1 : mem'[Addr(at[t], j)] = mem[Addr(vec[t].off, j)]
<1> DEFINE target == { Addr(at[t], j) : j \in 1 .. call[t].len + 1 }
           From(a) == Addr(vec[t].off, (a - at[t]) % Size)
<1>1. mem' = [a \in DOMAIN mem |-> IF a \in target THEN mem[From(a)] ELSE mem[a]]
  BY DEF MoveItem
<1>2. /\ DOMAIN mem = 0 .. Size - 1 /\ Size \in Nat \ {0} /\ at[t] \in Nat /\ vec[t].off \in Nat /\ call[t].len \in Nat
      /\ TypeOK /\ Tiling(P)
  BY CallTypes, Sizes DEF Basic, TypeOK, Item, Tiled
<1>3. call[t].len + 2 <= Size
  <2>1. at[t] \in P /\ at[t] < tail /\ Recent(at[t]) /\ Need(t) <= Span(at[t])
    BY DEF MoveItem, Goto, Tiled, Within, Leads
  <2>2. Span(at[t]) <= Size /\ Span(at[t]) \in Nat
    BY <1>2, <2>1, Allocation
  <2> QED
    BY <1>2, <2>1, <2>2 DEF Need
<1>4. SUFFICES ASSUME NEW j \in 1 .. call[t].len + 1 PROVE mem'[Addr(at[t], j)] = mem[Addr(vec[t].off, j)]
  OBVIOUS
<1>5. j \in 0 .. Size - 1
  BY <1>2, <1>3
<1>6. Addr(at[t], j) \in DOMAIN mem
  <2>1. at[t] + j \in Int /\ Size \in Nat \ {0}
    BY <1>2, <1>5
  <2>2. (at[t] + j) % Size \in 0 .. Size - 1
    BY <2>1, ModDef
  <2> QED
    BY <1>2, <2>2 DEF Addr
<1>7. From(Addr(at[t], j)) = Addr(vec[t].off, j)
  BY <1>2, <1>5, BackAgain DEF Addr
<1>8. Addr(at[t], j) \in target
  OBVIOUS
<1> HIDE DEF target, From
<1> QED
  BY <1>1, <1>6, <1>7, <1>8

LEMMA PutKinds ==
  ASSUME Basic, NEW t \in Threads, Step(t), Puts(t)
  PROVE  Publish(t) \/ (MoveItem(t) /\ IsValid(vec[t].off))
<1>1. pc[t] = "publish" \/ (pc[t] = "copy" /\ IsValid(vec[t].off))
  BY DEF Puts
<1>2. ~Looks(t)
  BY <1>1, LooksOutside DEF Reading, Comparing
<1>3. ~(Searches(t) \/ EntersPool(t) \/ Begins(t))
  BY <1>1 DEF Searches, EntersPool, Begins, SetExists, SetLocate, IncrementLocate, IncrementFails,
     SetInPlace, SetNew, Increment, MoveCheck, Begin, Goto
<1>4. ~(SweepLock(t) \/ MoveLock(t) \/ RemoveStale(t) \/ SweepBucket(t) \/ Del(t) \/ Unlock(t)
        \/ PopHead(t) \/ PushTail(t) \/ WriteWord(t) \/ UnlockPool(t))
  BY <1>1 DEF SweepLock, MoveLock, RemoveStale, SweepBucket, Del, Unlock, PopHead, PushTail, WriteWord, UnlockPool, Goto
<1> QED
  BY StepKinds, <1>1, <1>2, <1>3, <1>4 DEF Publish, MoveItem, Goto

\* A slot that is given its thread's item.
LEMMA ContentPut ==
  ASSUME Basic, Lengths, Young, NEW P \in SUBSET Nat, Tiled(P), Filled, NEW t \in Threads, Step(t), Puts(t),
         NEW b \in Buckets, b = B(t), NEW i \in Indices, i = idx[t]
  PROVE  Content(b, i)'
<1>1. PICK o : o = at[t]
  OBVIOUS
<1>2. /\ pc[t] \in { "publish", "copy" } /\ Within(t, P) /\ Writing(t) /\ LengthsOf(t) /\ FlowOf(t) /\ step[t] \in Nat
      /\ call[t].len \in Nat /\ Need(t) = 2 + call[t].len /\ Key(t) \in Keys /\ Tag(t) # 0 /\ TypeOK /\ Tiling(P)
  BY CallTypes DEF Puts, Basic, Tiled, Filled, Lengths, TypeOK, Flow, Need
<1>3. o \in P /\ o \in Nat /\ o < tail /\ (Recent(o) => Span(o) = Need(t))
  BY <1>1, <1>2 DEF Within, Leads
<1>4. slots'[b][i] = [tag |-> Tag(t), off |-> o]
  BY <1>1 DEF Puts
<1>5. slots'[b][i].off = o /\ slots'[b][i].tag = Tag(t)
  BY <1>4
<1> DEFINE Fine == /\ Lies(o, ItemKey(o), ItemLen(o)) /\ ItemKey(o) \in Keys /\ ItemLen(o) \in Lens
                   /\ BucketOf[ItemKey(o)] = b /\ TagOf[ItemKey(o)] = slots[b][i].tag
                   /\ ItemLen(o) + 2 <= Span(o)
                   /\ \/ Bears(o, cur[ItemKey(o)])
                      \/ \E s \in Threads : Alters(s) /\ B(s) = b /\ at[s] = o
<1>6. SUFFICES ASSUME Recent(o)' PROVE Fine'
  BY <1>5, <1>6 DEF Content, Recent, Lies, ItemKey, ItemLen, Span, Bears
<1>7. tail' = tail /\ Recent(o) /\ Span(o)' = Need(t)
  <2>1. tail' = tail
    BY PutKinds DEF Publish, MoveItem, log
  <2> QED
    BY <1>3, <1>6, <2>1, HeadersKept DEF Recent
<1>8. CASE Publish(t)
  <2>1. /\ pc[t] = "publish" /\ pc'[t] = "unlock" /\ UNCHANGED <<mem, call, at, step, cur>> /\ Stores(t)
    BY <1>2, <1>8 DEF Publish, Goto, log, locals, Basic, TypeOK, FlowOf
  <2>2. step[t] + 1 = Need(t) /\ step[t] > 0 /\ Written(t)
    BY <1>1, <1>2, <1>7, <2>1 DEF Writing
  <2>3. Lies(o, Key(t), call[t].len)
    BY <1>1, <2>2 DEF Written
  <2>4. ItemKey(o)' = Key(t) /\ ItemLen(o)' = call[t].len /\ (Lies(o, ItemKey(o), ItemLen(o)))'
    BY <2>1, <2>3 DEF Lies, ItemKey, ItemLen, Meta
  <2>5. call[t].len \in Lens
    BY <1>2, <2>1 DEF LengthsOf
  <2>6. (Alters(t) /\ B(t) = b /\ at[t] = o)'
    BY <1>1, <2>1, <2>2 DEF Alters, B, Key
  <2>7. BucketOf[Key(t)] = b /\ TagOf[Key(t)] = slots'[b][i].tag
    BY <1>5 DEF B, Tag
  <2>8. ItemLen(o)' + 2 <= Span(o)'
    BY <1>2, <1>7, <2>4
  <2> QED
    BY <1>2, <2>4, <2>5, <2>6, <2>7, <2>8
<1>9. CASE MoveItem(t) /\ IsValid(vec[t].off)
  <2>1. pc[t] = "copy" /\ Moves(t) /\ cur' = cur
    BY <1>9 DEF MoveItem, Goto, Moves, Moving
  <2>2. Slot(t) = vec[t] /\ vec[t].tag = Tag(t)
    BY <2>1 DEF Basic, Settled
  <2>3. PICK p : p = vec[t].off
    OBVIOUS
  <2>4. slots[b][i] # Empty /\ slots[b][i].off = p /\ slots[b][i].tag = Tag(t)
    BY <1>2, <2>2, <2>3 DEF Slot, Empty
  <2>5. p \in P /\ p \in Nat /\ p < tail
    BY <2>4, SlotLeads
  <2>6. Recent(p)
    <3>1. IsValid(p) /\ p <= tail
      BY <1>2, <1>9, <2>3, <2>5 DEF TypeOK
    <3> QED
      BY <1>2, <2>5, <3>1, OffsetsArePositions
  <2>7. PICK k \in Keys : k = ItemKey(p)
    BY <2>4, <2>6 DEF Filled, Content
  <2>8. /\ Lies(p, k, ItemLen(p)) /\ ItemLen(p) \in Lens /\ BucketOf[k] = b /\ TagOf[k] = Tag(t)
        /\ Bears(p, cur[k]) \/ \E s \in Threads : Alters(s) /\ B(s) = b /\ at[s] = p
    BY <2>4, <2>6, <2>7 DEF Filled, Content
  <2>9. Bears(p, cur[k])
    <3>1. ASSUME NEW s \in Threads, Alters(s), B(s) = b, at[s] = p PROVE FALSE
      <4>1. HasBucket(s, b) /\ HasBucket(t, b)
        BY <2>1, <3>1 DEF Alters, HasBucket, Inside
      <4>2. s = t
        BY <4>1 DEF Basic, Locked
      <4> QED
        BY <2>1, <3>1, <4>2 DEF Alters
    <3> QED
      BY <2>8, <3>1
  <2>10. ItemLen(p) = call[t].len
    BY <2>1, <2>2, <2>3, <2>6 DEF Filled, Measured
  <2>11. \A j \in 1 .. call[t].len + 1 : mem'[Addr(o, j)] = mem[Addr(p, j)]
    BY <1>1, <1>9, <2>3, ItemCopied
  <2>12. mem'[Addr(o, 1)] = mem[Addr(p, 1)]
    BY <1>2, <2>11
  <2>13. ItemKey(o)' = k /\ ItemLen(o)' = call[t].len /\ (Lies(o, ItemKey(o), ItemLen(o)))'
    BY <2>7, <2>8, <2>10, <2>12 DEF Lies, ItemKey, ItemLen, Meta
  <2>14. Bears(o, cur[k])'
    <3>1. mem[Addr(p, 1)][3] = cur[k].len /\ cur[k].len = call[t].len
      BY <2>9, <2>10 DEF Bears, ItemLen
    <3>2. ASSUME NEW j \in 1 .. call[t].len PROVE mem'[Addr(o, j + 1)] = Word(cur[k].v, j)
      <4>1. j + 1 \in 1 .. call[t].len + 1
        BY <1>2
      <4> QED
        BY <2>9, <2>11, <3>1, <4>1 DEF Bears
    <3> QED
      BY <2>1, <2>12, <3>1, <3>2 DEF Bears
  <2>15. Bears(o, cur[ItemKey(o)])'
    BY <2>13, <2>14 DEF Bears
  <2>16. ItemLen(o)' + 2 <= Span(o)'
    BY <1>2, <1>7, <2>13
  <2> QED
    BY <1>5, <2>8, <2>10, <2>13, <2>15, <2>16
<1> QED
  BY <1>8, <1>9, PutKinds

LEMMA ContentKept ==
  ASSUME Basic, Lengths, Young, NEW P \in SUBSET Nat, Tiled(P), Filled, NEW t \in Threads, t \in crew, Step(t)
  PROVE  \A b \in Buckets, i \in Indices : Content(b, i)'
<1>1. SUFFICES ASSUME NEW b \in Buckets, NEW i \in Indices PROVE Content(b, i)'
  OBVIOUS
<1>2. CASE slots'[b][i] = Empty
  BY <1>2 DEF Content, Empty
<1>3. CASE slots'[b][i] = slots[b][i] /\ slots[b][i] # Empty
  <2>1. CASE WriteWord(t) /\ at[t] = slots[b][i].off
    BY <1>3, <2>1, ContentChanged
  <2>2. CASE MoveItem(t) /\ at[t] = slots[b][i].off
    BY <1>3, <2>2 DEF MoveItem, Goto, Filled, Writing, Unseen
  <2> QED
    BY <1>3, <2>1, <2>2, ContentStays
<1>4. CASE Puts(t) /\ b = B(t) /\ i = idx[t]
  BY <1>4, ContentPut
<1>5. slots'[b][i] \in { slots[b][i], Empty } \/ (Puts(t) /\ b = B(t) /\ i = idx[t])
  BY SlotKinds DEF Clears, Puts
<1> QED
  BY <1>2, <1>3, <1>4, <1>5

\* What another thread has written, found or read of its bucket stays as it is.
LEMMA OthersWriting ==
  ASSUME Basic, NEW P \in SUBSET Nat, Tiled(P), Filled, NEW t \in Threads, t \in crew, Step(t), NEW s \in Threads, s # t
  PROVE  Writing(s)'
<1>1. /\ pc'[s] = pc[s] /\ call'[s] = call[s] /\ at'[s] = at[s] /\ step'[s] = step[s]
      /\ \A r \in Threads : r # t => pc'[r] = pc[r] /\ at'[r] = at[r]
      /\ Writing(s) /\ Within(s, P) /\ FlowOf(s) /\ Writing(t) /\ Tiling(P) /\ TypeOK
      /\ step[s] \in Nat /\ call[s].len \in Nat /\ Need(s) = 2 + call[s].len
  BY ThreadsApart, CallTypes DEF Basic, Apart, Filled, Tiled, Flow, TypeOK, Need
<1>2. B(s)' = B(s) /\ Tag(s)' = Tag(s) /\ Need(s)' = Need(s) /\ Key(s)' = Key(s) /\ Alters(s)' = Alters(s)
  BY <1>1 DEF B, Tag, Need, Key, Alters
<1>3. PICK o : o = at[s]
  OBVIOUS
<1>4. pc[s] # "idle" => B(s) \in Buckets /\ Tag(s) # 0
  BY CallTypes DEF Basic
<1>5. pc[s] \in Inside => slots'[B(s)] = slots[B(s)] /\ HasBucket(s, B(s)) /\ ~HasBucket(t, B(s))
  <2>1. pc[s] \in Inside => HasBucket(s, B(s)) /\ B(s) \in Buckets
    BY <1>4 DEF HasBucket, Inside
  <2> QED
    BY <2>1, BusyBucket DEF LeftAlone, Basic, Locked
<1>6. pc[s] \in InPool => pc[t] \notin InPool
  BY DEF Basic, Locked
<1>7. pc[s] \in { "fill", "copy", "publish" } => Unseen(o)'
  <2>1. SUFFICES ASSUME pc[s] \in { "fill", "copy", "publish" }, NEW b \in Buckets, NEW i \in Indices, slots'[b][i] # Empty
                 PROVE  slots'[b][i].off # o
    BY DEF Unseen, Empty
  <2>2. CASE slots'[b][i] = slots[b][i]
    BY <1>1, <1>3, <2>1, <2>2 DEF Writing, Unseen
  <2>3. CASE Puts(t) /\ slots'[b][i].off = at[t]
    <3>1. pc[t] = "publish" \/ (pc[t] = "copy" /\ pc[s] = "publish")
      BY <1>6, <2>1, <2>3 DEF Puts, InPool
    <3>2. at[t] # at[s]
      BY <1>1, <2>1, <3>1 DEF Writing
    <3> QED
      BY <1>3, <2>3, <3>2
  <2>4. slots'[b][i] = slots[b][i] \/ (Puts(t) /\ slots'[b][i].off = at[t])
    BY <2>1, SlotKinds DEF Clears, Puts
  <2> QED
    BY <2>2, <2>3, <2>4
<1>8. pc[s] \in { "fill", "copy", "publish" } => \A r \in Threads : r # s /\ pc'[r] = "publish" => at'[r] # o
  <2>1. SUFFICES ASSUME pc[s] \in { "fill", "copy", "publish" }, NEW r \in Threads, r # s, pc'[r] = "publish"
                 PROVE  at'[r] # o
    OBVIOUS
  <2>2. CASE r # t
    BY <1>1, <1>3, <2>1, <2>2 DEF Writing
  <2>3. CASE r = t /\ pc[t] = "publish"
    <3>1. ~(EntersPool(t) \/ PushTail(t) \/ Searches(t) \/ Begins(t) \/ Looks(t))
      <4>1. ~Looks(t)
        BY <2>3, LooksOutside DEF Reading, Comparing
      <4> QED
        BY <2>3, <4>1 DEF Searches, EntersPool, Begins, SetExists, SetLocate, IncrementLocate, IncrementFails,
           SetInPlace, SetNew, Increment, MoveCheck, Begin, Goto, PushTail
    <3>2. ~(SweepLock(t) \/ MoveLock(t) \/ RemoveStale(t) \/ SweepBucket(t) \/ Del(t) \/ Unlock(t)
            \/ PopHead(t) \/ WriteWord(t) \/ UnlockPool(t) \/ MoveItem(t))
      BY <2>3 DEF SweepLock, MoveLock, RemoveStale, SweepBucket, Del, Unlock, PopHead, WriteWord, UnlockPool, MoveItem, Goto
    <3>3. Publish(t)
      BY <3>1, <3>2, StepKinds
    <3> QED
      BY <2>1, <2>3, <3>3 DEF Publish, Goto, Basic, TypeOK
  <2>4. CASE r = t /\ pc[t] = "fill" /\ at' = at
    <3>1. pc[s] = "publish"
      BY <1>6, <2>1, <2>4 DEF InPool
    <3> QED
      BY <1>1, <1>3, <2>1, <2>4, <3>1 DEF Writing
  <2>5. r = t => (pc[t] = "publish" \/ (pc[t] = "fill" /\ at' = at))
    <3>1. SUFFICES ASSUME pc'[t] = "publish", pc[t] # "publish" PROVE pc[t] = "fill" /\ at' = at
      BY <2>1
    <3>2. pc \in [Threads -> Locations]
      BY <1>1 DEF TypeOK
    <3>3. ~Looks(t)
      BY <3>1, LooksOutside DEF Reading, Comparing
    <3>4. ~(Searches(t) \/ EntersPool(t) \/ Begins(t) \/ PushTail(t))
      BY <3>1, <3>2 DEF Searches, EntersPool, Begins, SetExists, SetLocate, IncrementLocate, IncrementFails,
         SetInPlace, SetNew, Increment, MoveCheck, Begin, Goto, PushTail
    <3>5. ~(SweepLock(t) \/ MoveLock(t) \/ RemoveStale(t) \/ SweepBucket(t) \/ Del(t) \/ Unlock(t)
            \/ PopHead(t) \/ WriteWord(t) \/ MoveItem(t) \/ Publish(t))
      BY <3>1, <3>2 DEF SweepLock, MoveLock, RemoveStale, SweepBucket, Del, Unlock, PopHead, WriteWord, MoveItem,
         Publish, Goto, Return
    <3>6. UnlockPool(t)
      BY <3>3, <3>4, <3>5, StepKinds
    <3> QED
      BY <3>1, <3>2, <3>6 DEF UnlockPool, locals
  <2> QED
    BY <2>2, <2>3, <2>4, <2>5
<1>9. pc[s] \in { "inplace", "fill", "publish", "unlock" } /\ step[s] > 0 /\ Recent(o)' => Written(s)'
  <2>1. SUFFICES ASSUME pc[s] \in { "inplace", "fill", "publish", "unlock" }, step[s] > 0, Recent(o)'
                 PROVE  Written(s)'
    OBVIOUS
  <2>2. tail' - o <= Size
    BY <2>1 DEF Recent
  <2>3. /\ o \in P /\ o \in Nat /\ o < tail /\ Recent(o) /\ Span(o) \in Nat /\ Same(o)
        /\ pc[s] \in { "inplace", "fill", "publish" } => Need(s) <= Span(o)
        /\ pc[s] = "unlock" => ItemLen(o) + 2 <= Span(o)
    <3>1. CASE pc[s] \in { "inplace", "fill", "publish" }
      <4>1. o \in P /\ o \in Nat /\ o < tail
        BY <1>1, <1>3, <3>1 DEF Within, Leads
      <4>2. Recent(o)
        BY <2>2, <4>1, HeadersKept
      <4>3. Need(s) <= Span(o) /\ Span(o) \in Nat
        BY <1>1, <1>3, <3>1, <4>1, <4>2, Allocation DEF Within
      <4>4. ASSUME WriteWord(t) \/ MoveItem(t) PROVE at[t] # o
        <5>1. pc[t] \in { "inplace", "fill", "copy" } /\ pc[t] \in InPool
          BY <4>4 DEF WriteWord, MoveItem, Goto, InPool
        <5>2. pc[s] = "publish"
          BY <1>6, <3>1, <5>1 DEF InPool
        <5>3. CASE pc[t] \in { "fill", "copy" }
          BY <1>1, <1>3, <5>2, <5>3 DEF Writing
        <5>4. CASE pc[t] = "inplace"
          <6>1. PICK j \in Indices : slots[B(t)][j] = [tag |-> Tag(t), off |-> at[t]]
            BY <1>1, <5>4 DEF Writing
          <6>2. B(t) \in Buckets /\ Tag(t) # 0
            BY <5>4, CallTypes DEF Basic
          <6>3. slots[B(t)][j] # Empty /\ slots[B(t)][j].off = at[t]
            BY <6>1, <6>2 DEF Empty
          <6> QED
            BY <1>1, <1>3, <5>2, <6>2, <6>3 DEF Writing, Unseen
        <5> QED
          BY <5>1, <5>3, <5>4
      <4>5. Same(o)
        BY <2>2, <4>1, <4>4, ItemKept
      <4> QED
        BY <3>1, <4>1, <4>2, <4>3, <4>5
    <3>2. CASE pc[s] = "unlock"
      <4>1. PICK i \in Indices : slots[B(s)][i] = [tag |-> Tag(s), off |-> o]
        BY <1>1, <1>3, <2>1, <3>2 DEF Writing, Alters
      <4>2. slots[B(s)][i] # Empty /\ slots[B(s)][i].off = o /\ B(s) \in Buckets /\ ~HasBucket(t, B(s))
        BY <1>4, <1>5, <3>2, <4>1 DEF Empty, Inside
      <4>3. /\ Same(o) /\ Recent(o) /\ o \in P /\ o \in Nat /\ o < tail /\ Span(o) \in Nat
        BY <2>2, <4>2, SlotItemKept
      <4>4. ItemLen(o) + 2 <= Span(o)
        BY <4>2, <4>3 DEF Filled, Content
      <4> QED
        BY <3>2, <4>3, <4>4
    <3> QED
      BY <2>1, <3>1, <3>2
  <2>4. Written(s)
    BY <1>1, <1>3, <2>1, <2>3 DEF Writing
  <2>5. Need(s) <= Span(o) /\ step[s] + 1 <= Need(s)
    <3>1. CASE pc[s] = "unlock"
      <4>1. ItemLen(o) = call[s].len
        BY <1>3, <2>4 DEF Written, Lies, ItemLen, Meta
      <4> QED
        BY <1>1, <2>1, <2>3, <3>1, <4>1 DEF Writing
    <3>2. CASE pc[s] # "unlock"
      BY <1>1, <2>1, <2>3, <3>2 DEF Writing
    <3> QED
      BY <3>1, <3>2
  <2>6. mem'[Addr(o, 1)] = mem[Addr(o, 1)] /\ \A j \in 1 .. Span(o) - 2 : mem'[Addr(o, j + 1)] = mem[Addr(o, j + 1)]
    <3>1. Span(o) >= 2
      BY <1>1, <2>3, <2>5
    <3> QED
      BY <2>3, <3>1, SameItem
  <2>7. \A j \in 1 .. step[s] - 1 : j \in 1 .. Span(o) - 2
    BY <1>1, <2>3, <2>5
  <2> QED
    BY <1>1, <1>2, <1>3, <2>4, <2>6, <2>7 DEF Written, Lies
<1>10. pc[s] = "inplace" \/ Alters(s) => pc[s] \in Inside
  BY DEF Alters, Inside
<1>11. at'[s] = o
  BY <1>1, <1>3
<1>12. (pc[s] \in { "fill", "copy", "publish" } =>
          Unseen(at[s]) /\ \A r \in Threads : r # s /\ pc[r] = "publish" => at[r] # at[s])'
  BY <1>1, <1>7, <1>8, <1>11 DEF Unseen
<1>13. (pc[s] = "inplace" \/ Alters(s) => \E i \in Indices : slots[B(s)][i] = [tag |-> Tag(s), off |-> at[s]])'
  BY <1>1, <1>2, <1>3, <1>5, <1>10, <1>11 DEF Writing
<1>14. (/\ pc[s] \in { "inplace", "fill" } => step[s] < Need(s)
        /\ pc[s] = "publish" \/ (pc[s] = "unlock" /\ step[s] > 0) => step[s] + 1 = Need(s))'
  BY <1>1, <1>2 DEF Writing
<1>15. (pc[s] \in { "inplace", "fill", "publish", "unlock" } /\ step[s] > 0 /\ Recent(at[s]) => Written(s))'
  BY <1>1, <1>9, <1>11 DEF Recent
<1> QED
  BY <1>12, <1>13, <1>14, <1>15 DEF Writing

\* What a thread writes itself.
LEMMA OwnWriting ==
  ASSUME Basic, Young, NEW P \in SUBSET Nat, Tiled(P), Filled, NEW t \in Threads, t \in crew, Step(t)
  PROVE  Writing(t)'
<1> USE DEF Goto
<1>1. /\ TypeOK /\ Tiling(P) /\ Within(t, P) /\ Writing(t) /\ Aiming(t) /\ FlowOf(t)
      /\ pc \in [Threads -> Locations] /\ step \in [Threads -> Nat] /\ DOMAIN call = Threads
      /\ call[t].len \in Nat /\ Need(t) = 2 + call[t].len /\ at \in [Threads -> Nat] /\ vec \in [Threads -> Item]
      /\ tail \in Nat
  BY CallTypes DEF Basic, TypeOK, Tiled, Filled, Flow, Need
<1>2. pc[t] # "idle" => B(t) \in Buckets /\ Tag(t) # 0
  BY CallTypes DEF Basic
<1>3. pc'[t] \notin { "inplace", "fill", "copy", "publish", "unlock" } => Writing(t)'
  BY DEF Writing, Alters
<1>4. pc'[t] = "unlock" /\ step'[t] = 0 => Writing(t)'
  BY DEF Writing, Alters
<1>5. CASE SetInPlace(t) \/ Increment(t)
  <2>1. /\ pc[t] = "pool" /\ pc'[t] = "inplace" /\ at'[t] = vec[t].off /\ UNCHANGED <<slots, tail, mem>>
        /\ step'[t] \in { 0, 1 } /\ step[t] = 0 /\ call'[t].key = call[t].key /\ call'[t].len \in Nat
        /\ IsValid(vec[t].off) /\ (vec[t] # Empty \/ Op(t) = "increment")
    <3>1. pc[t] = "pool" /\ step[t] = 0
      BY <1>1, <1>5 DEF SetInPlace, Increment, FlowOf
    <3>2. CASE SetInPlace(t)
      BY <1>1, <3>1, <3>2 DEF SetInPlace, table, Reusable
    <3>3. CASE Increment(t)
      BY <1>1, <3>1, <3>3 DEF Increment, table, Op
    <3> QED
      BY <1>5, <3>2, <3>3
  <2>2. /\ vec[t].tag = Tag(t) /\ Leads(vec[t].off, P)
        /\ Recent(vec[t].off) => Holds(vec[t].off, Key(t))
    BY <1>1, <2>1 DEF Aiming, Within
  <2>3. PICK i \in Indices : slots[B(t)][i] = vec[t]
    BY <1>1, <2>1 DEF Aiming
  <2>4. Recent(vec[t].off)
    <3>1. vec[t].off \in Nat /\ vec[t].off <= tail
      BY <1>1, <2>2 DEF Leads, Item
    <3> QED
      BY <1>1, <2>1, <3>1, OffsetsArePositions
  <2>5. vec[t] = [tag |-> Tag(t), off |-> vec[t].off]
    BY <1>1, <2>2 DEF Item
  <2>6. B(t)' = B(t) /\ Tag(t)' = Tag(t) /\ Key(t)' = Key(t)
    BY <2>1 DEF B, Tag, Key
  <2>7. (\E j \in Indices : slots[B(t)][j] = [tag |-> Tag(t), off |-> at[t]])'
    BY <2>1, <2>3, <2>5, <2>6
  <2>8. Need(t)' \in Nat /\ step'[t] < Need(t)'
    BY <2>1 DEF Need
  <2>9. step'[t] > 0 => Written(t)'
    <3>1. SUFFICES ASSUME step'[t] > 0 PROVE Written(t)'
      OBVIOUS
    <3>2. Increment(t) /\ step'[t] = 1
      BY <1>1, <1>5, <2>1, <3>1 DEF SetInPlace
    <3>3. 1 \in LensAt(Addr(vec[t].off, 1)) /\ call'[t].len = 1
      BY <1>1, <3>2 DEF Increment
    <3>4. mem[Addr(vec[t].off, 1)][1] = "item" /\ mem[Addr(vec[t].off, 1)][2] = Key(t)
      BY <2>2, <2>4 DEF Holds
    <3>5. mem[Addr(vec[t].off, 1)][3] = 1
      BY <3>3, <3>4 DEF LensAt
    <3>6. slots[B(t)][i] # Empty /\ slots[B(t)][i].off = vec[t].off /\ B(t) \in Buckets
      BY <1>2, <2>1, <2>2, <2>3 DEF Empty
    <3>7. Lies(vec[t].off, ItemKey(vec[t].off), ItemLen(vec[t].off))
      BY <2>4, <3>6 DEF Filled, Content
    <3>8. mem[Addr(vec[t].off, 1)] = Meta(Key(t), 1)
      BY <3>4, <3>5, <3>7 DEF Lies, ItemKey, ItemLen
    <3> QED
      BY <2>1, <2>6, <3>2, <3>3, <3>8 DEF Written, Lies
  <2> QED
    BY <2>1, <2>7, <2>8, <2>9 DEF Writing
<1>6. CASE PushTail(t)
  <2>1. /\ pc[t] = "alloc" /\ pc'[t] \in { "fill", "copy" } /\ at'[t] = tail /\ UNCHANGED <<slots, call>>
        /\ step' = step /\ step[t] = 0 /\ \A s \in Threads : s # t => pc'[s] = pc[s] /\ at'[s] = at[s]
    BY <1>1, <1>6, OffsetsArePositions DEF PushTail, table, FlowOf
  <2>2. \A b \in Buckets, i \in Indices : slots[b][i] # Empty => slots[b][i].off # tail
    <3>1. ASSUME NEW b \in Buckets, NEW i \in Indices, slots[b][i] # Empty PROVE slots[b][i].off # tail
      <4>1. slots[b][i].off \in Nat /\ slots[b][i].off < tail
        BY <3>1, SlotLeads
      <4> QED
        BY <1>1, <4>1
    <3> QED
      BY <3>1
  <2>3. \A s \in Threads : pc[s] = "publish" => at[s] # tail
    BY <1>1 DEF Tiled, Within, TypeOK
  <2>4. Need(t)' = Need(t)
    BY <2>1 DEF Need
  <2> QED
    BY <1>1, <2>1, <2>2, <2>3, <2>4 DEF Writing, Unseen, Alters, Empty
<1>7. CASE WriteWord(t)
  <2>1. /\ Written(t)' /\ UNCHANGED <<at, call, pc, slots, tail>> /\ step'[t] = step[t] + 1
    BY <1>7, WordWritten
  <2>2. pc[t] \in { "inplace", "fill" } /\ step[t] + 1 < Need(t)
    BY <1>7 DEF WriteWord
  <2>3. Need(t)' = Need(t) /\ B(t)' = B(t) /\ Tag(t)' = Tag(t)
    BY <2>1 DEF Need, B, Tag, Key
  <2> QED
    BY <1>1, <2>1, <2>2, <2>3 DEF Writing, Unseen, Empty, Alters
<1>8. CASE UnlockPool(t)
  <2>1. /\ pc[t] \in { "inplace", "fill" } /\ step[t] + 1 = Need(t) /\ UNCHANGED <<slots, tail, mem, call, at, step>>
        /\ pc'[t] = IF pc[t] = "inplace" THEN "unlock" ELSE "publish"
        /\ \A s \in Threads : s # t => pc'[s] = pc[s]
    BY <1>1, <1>8 DEF UnlockPool, table, locals
  <2>2. Need(t)' = Need(t) /\ B(t)' = B(t) /\ Tag(t)' = Tag(t) /\ Key(t)' = Key(t)
    BY <2>1 DEF Need, B, Tag, Key
  <2>3. step[t] > 0
    BY <1>1, <2>1
  <2>4. Recent(at[t])' = Recent(at[t]) /\ Written(t)' = Written(t)
    BY <2>1, <2>2 DEF Recent, Written, Lies
  <2> QED
    BY <1>1, <2>1, <2>2, <2>3, <2>4 DEF Writing, Unseen, Empty, Alters
<1>9. CASE Publish(t)
  <2>1. /\ pc[t] = "publish" /\ pc'[t] = "unlock" /\ UNCHANGED <<tail, mem, call, at, step>>
        /\ slots' = [slots EXCEPT ![B(t)][idx[t]] = [tag |-> Tag(t), off |-> at[t]]] /\ Stores(t)
    BY <1>1, <1>9 DEF Publish, log, locals, FlowOf
  <2>2. Need(t)' = Need(t) /\ B(t)' = B(t) /\ Tag(t)' = Tag(t) /\ Key(t)' = Key(t)
    BY <2>1 DEF Need, B, Tag, Key
  <2>3. idx[t] \in Indices
    BY <2>1 DEF Basic, Settled
  <2>4. slots'[B(t)][idx[t]] = [tag |-> Tag(t), off |-> at[t]]
    <3>1. slots \in [Buckets -> [Indices -> Item]] /\ B(t) \in Buckets
      BY <1>1, <1>2, <2>1 DEF TypeOK
    <3> QED
      BY <2>1, <2>3, <3>1
  <2>5. step[t] + 1 = Need(t)
    BY <1>1, <2>1 DEF Writing
  <2>6. step[t] > 0
    BY <1>1, <2>5
  <2>7. Recent(at[t])' = Recent(at[t]) /\ Written(t)' = Written(t)
    BY <2>1, <2>2 DEF Recent, Written, Lies
  <2>8. (\E j \in Indices : slots[B(t)][j] = [tag |-> Tag(t), off |-> at[t]])'
    BY <2>1, <2>2, <2>3, <2>4
  <2> QED
    BY <1>1, <2>1, <2>2, <2>5, <2>6, <2>7, <2>8 DEF Writing
<1>10. CASE \/ Looks(t) \/ Begins(t) \/ SweepLock(t) \/ SweepBucket(t) \/ Unlock(t) \/ SetLocate(t) \/ SetNew(t)
            \/ MoveLock(t) \/ PopHead(t)
  <2>1. Looks(t) => pc'[t] \notin { "inplace", "fill", "copy", "publish", "unlock" }
    BY LooksOutside DEF Reading, Comparing
  <2>2. ~Looks(t) => pc'[t] \notin { "inplace", "fill", "copy", "publish", "unlock" }
    BY <1>1, <1>10 DEF Begins, Begin, SweepLock, SweepBucket, Unlock, SetLocate, SetNew, MoveLock, PopHead, Return
  <2> QED
    BY <1>3, <2>1, <2>2
<1>11. CASE SetExists(t) \/ IncrementLocate(t) \/ IncrementFails(t) \/ MoveCheck(t) \/ RemoveStale(t) \/ Del(t) \/ MoveItem(t)
  <2>1. step[t] = 0 /\ step' = step /\ pc'[t] \in { "unlock", "pool", "alloc" }
    BY <1>1, <1>11 DEF SetExists, IncrementLocate, IncrementFails, MoveCheck, RemoveStale, Del, MoveItem, locals, FlowOf
  <2> QED
    BY <1>3, <1>4, <2>1
<1> QED
  BY StepKinds, <1>5, <1>6, <1>7, <1>8, <1>9, <1>10, <1>11 DEF Searches, EntersPool

LEMMA AimingKept ==
  ASSUME Basic, NEW P \in SUBSET Nat, Tiled(P), Filled, NEW t \in Threads, t \in crew, Step(t), NEW s \in Threads
  PROVE  Aiming(s)'
<1> USE DEF Goto
<1>1. SUFFICES ASSUME (pc[s] = "pool" /\ (vec[s] # Empty \/ Op(s) = "increment"))'
               PROVE  (/\ vec[s].tag = Tag(s) /\ \E i \in Indices : slots[B(s)][i] = vec[s]
                       /\ Recent(vec[s].off) => Holds(vec[s].off, Key(s)))'
  BY DEF Aiming
<1>2. pc \in [Threads -> Locations] /\ DOMAIN call = Threads /\ vec \in [Threads -> Item] /\ idx \in [Threads -> 0 .. BucketSize]
  BY DEF Basic, TypeOK, Flow
<1>3. pc[s] # "idle" => B(s) \in Buckets /\ Tag(s) # 0
  BY CallTypes DEF Basic
<1>4. CASE s # t
  <2>1. pc'[s] = pc[s] /\ call'[s] = call[s] /\ vec'[s] = vec[s]
    BY <1>4, ThreadsApart DEF Basic, Apart
  <2>2. B(s)' = B(s) /\ Tag(s)' = Tag(s) /\ Key(s)' = Key(s) /\ Op(s)' = Op(s)
    BY <2>1 DEF B, Tag, Key, Op
  <2>3. pc[s] = "pool" /\ vec[s].tag = Tag(s) /\ (Recent(vec[s].off) => Holds(vec[s].off, Key(s)))
    BY <1>1, <2>1, <2>2 DEF Filled, Aiming
  <2>4. PICK i \in Indices : slots[B(s)][i] = vec[s]
    BY <1>1, <2>1, <2>2 DEF Filled, Aiming
  <2>5. HasBucket(s, B(s)) /\ B(s) \in Buckets /\ Tag(s) # 0
    BY <1>3, <2>3 DEF HasBucket, Inside
  <2>6. slots'[B(s)] = slots[B(s)] /\ ~HasBucket(t, B(s))
    BY <1>4, <2>5, BusyBucket DEF LeftAlone, Basic, Locked
  <2>7. PICK o : o = vec[s].off
    OBVIOUS
  <2>8. Recent(o)' => Holds(o, Key(s))'
    <3>1. SUFFICES ASSUME Recent(o)' PROVE Holds(o, Key(s))'
      OBVIOUS
    <3>2. tail' - o <= Size
      BY <3>1 DEF Recent
    <3>3. slots[B(s)][i] # Empty /\ slots[B(s)][i].off = o
      BY <2>3, <2>4, <2>5, <2>7 DEF Empty
    <3>4. Same(o) /\ Recent(o) /\ Span(o) \in Nat /\ Span(o) >= 3
      BY <2>5, <2>6, <3>2, <3>3, SlotItemKept
    <3>5. mem'[Addr(o, 1)] = mem[Addr(o, 1)]
      BY <3>4, SameItem
    <3> QED
      BY <2>2, <2>3, <2>7, <3>4, <3>5 DEF Holds
  <2> QED
    BY <2>1, <2>2, <2>3, <2>4, <2>6, <2>7, <2>8 DEF Recent, Holds
<1>5. CASE s = t
  <2>1. SetLocate(t) \/ IncrementLocate(t)
    <3>1. ~Looks(t)
      BY <1>1, <1>5, LooksOutside DEF Reading, Comparing
    <3>2. ~(SetExists(t) \/ IncrementFails(t) \/ EntersPool(t) \/ Begins(t) \/ SweepLock(t) \/ MoveLock(t)
            \/ RemoveStale(t) \/ Del(t) \/ Publish(t))
      BY <1>1, <1>2, <1>5 DEF SetExists, IncrementFails, EntersPool, SetInPlace, SetNew, Increment, MoveCheck, Begins, Begin,
         SweepLock, MoveLock, RemoveStale, Del, Publish
    <3>3. ~(Unlock(t) \/ SweepBucket(t) \/ PopHead(t) \/ PushTail(t) \/ WriteWord(t) \/ UnlockPool(t) \/ MoveItem(t))
      BY <1>1, <1>2, <1>5 DEF Unlock, SweepBucket, PopHead, PushTail, WriteWord, UnlockPool, MoveItem, Return
    <3> QED
      BY StepKinds, <3>1, <3>2, <3>3 DEF Searches
  <2>2. /\ pc[t] = "find" /\ UNCHANGED <<slots, tail, mem, call>>
        /\ \E i \in Indices : /\ vec'[t] = slots[B(t)][i] /\ slots[B(t)][i].tag = Tag(t)
                              /\ Holds(slots[B(t)][i].off, Key(t))
    <3>1. Located(B(t), Key(t)) # 0 =>
            /\ Located(B(t), Key(t)) \in Indices
            /\ slots[B(t)][Located(B(t), Key(t))].tag = Tag(t)
            /\ Holds(slots[B(t)][Located(B(t), Key(t))].off, Key(t))
      BY LocatedIs DEF Tag
    <3>2. Located(B(t), Key(t)) # 0 /\ vec'[t] = slots[B(t)][Located(B(t), Key(t))] /\ pc[t] = "find"
          /\ UNCHANGED <<slots, tail, mem, call>>
      <4>1. CASE SetLocate(t)
        <5>1. /\ call[t].op \in { "set", "add" } /\ call' = call /\ UNCHANGED <<slots, tail, mem>> /\ pc[t] = "find"
              /\ vec'[t] = IF Located(B(t), Key(t)) # 0 THEN slots[B(t)][Located(B(t), Key(t))] ELSE Empty
          BY <1>2, <4>1 DEF SetLocate, table, log
        <5>2. vec'[t] # Empty
          BY <1>1, <1>5, <5>1 DEF Op
        <5> QED
          BY <5>1, <5>2
      <4>2. CASE IncrementLocate(t)
        BY <1>1, <1>2, <1>5, <4>2 DEF IncrementLocate, table, log
      <4> QED
        BY <2>1, <4>1, <4>2
    <3> QED
      BY <3>1, <3>2
  <2>3. B(t)' = B(t) /\ Tag(t)' = Tag(t) /\ Key(t)' = Key(t)
    BY <2>2 DEF B, Tag, Key
  <2> QED
    BY <1>5, <2>2, <2>3 DEF Holds
<1> QED
  BY <1>4, <1>5

LEMMA DeletingKept ==
  ASSUME Basic, Filled, NEW t \in Threads, t \in crew, Step(t), NEW s \in Threads
  PROVE  Deleting(s)'
<1> USE DEF Goto
<1>1. SUFFICES ASSUME (pc[s] = "unlock" /\ Op(s) = "del" /\ idx[s] # 0)'
               PROVE  (\A i \in Indices : slots[B(s)][i].tag # Tag(s))'
  BY DEF Deleting
<1>2. /\ pc \in [Threads -> Locations] /\ DOMAIN call = Threads /\ idx \in [Threads -> 0 .. BucketSize]
      /\ slots \in [Buckets -> [Indices -> Item]]
  BY DEF Basic, TypeOK, Flow
<1>3. pc[s] # "idle" => B(s) \in Buckets /\ Tag(s) # 0
  BY CallTypes DEF Basic
<1>4. CASE s # t
  <2>1. pc'[s] = pc[s] /\ call'[s] = call[s] /\ idx'[s] = idx[s]
    BY <1>4, ThreadsApart DEF Basic, Apart
  <2>2. B(s)' = B(s) /\ Tag(s)' = Tag(s) /\ Op(s)' = Op(s)
    BY <2>1 DEF B, Tag, Key, Op
  <2>3. HasBucket(s, B(s)) /\ B(s) \in Buckets
    BY <1>1, <1>3, <2>1 DEF HasBucket, Inside
  <2>4. slots'[B(s)] = slots[B(s)]
    BY <1>4, <2>3, BusyBucket DEF LeftAlone
  <2> QED
    BY <1>1, <2>1, <2>2, <2>4 DEF Filled, Deleting
<1>5. CASE s = t
  <2>1. Del(t)
    <3>1. ~Looks(t)
      BY <1>1, <1>5, LooksOutside DEF Reading, Comparing
    <3>2. FlowOf(t)
      BY DEF Basic, Flow
    <3>3. ~(Searches(t) \/ EntersPool(t) \/ Begins(t) \/ SweepLock(t) \/ MoveLock(t) \/ RemoveStale(t) \/ Publish(t))
      <4> USE DEF FlowOf, Moving, Stores, Op
      <4>1. ~(SetExists(t) \/ SetLocate(t) \/ IncrementLocate(t) \/ IncrementFails(t))
        BY <1>1, <1>2, <1>5, <3>2 DEF SetExists, SetLocate, IncrementLocate, IncrementFails, locals
      <4>2. ~(SetInPlace(t) \/ SetNew(t) \/ MoveCheck(t))
        BY <1>1, <1>2, <1>5, <3>2 DEF SetInPlace, SetNew, MoveCheck, locals
      <4>3. ~(Increment(t) \/ Begins(t))
        BY <1>1, <1>2, <1>5 DEF Increment, Begins, Begin
      <4>4. ~(SweepLock(t) \/ MoveLock(t) \/ RemoveStale(t) \/ Publish(t))
        BY <1>1, <1>2, <1>5, <3>2 DEF SweepLock, MoveLock, RemoveStale, Publish, locals
      <4> QED
        BY <4>1, <4>2, <4>3, <4>4 DEF Searches, EntersPool
    <3>4. ~(Unlock(t) \/ SweepBucket(t) \/ PopHead(t) \/ PushTail(t) \/ WriteWord(t) \/ UnlockPool(t) \/ MoveItem(t))
      BY <1>1, <1>2, <1>5, <3>2 DEF Unlock, SweepBucket, PopHead, PushTail, WriteWord, UnlockPool, MoveItem, Return,
         FlowOf, Moving, Stores, Op, locals
    <3> QED
      BY StepKinds, <3>1, <3>3, <3>4
  <2>2. PICK i : i = Located(B(t), Key(t))
    OBVIOUS
  <2>3. /\ pc[t] = "find" /\ call' = call /\ i # 0
        /\ slots' = [slots EXCEPT ![B(t)][i] = Empty]
    BY <1>1, <1>2, <1>5, <2>1, <2>2 DEF Del
  <2>4. i \in Indices /\ slots[B(t)][i].tag = Tag(t) /\ B(t) \in Buckets /\ Tag(t) # 0
    BY <1>3, <1>5, <2>2, <2>3, LocatedIs DEF Tag
  <2>5. \A j \in Indices : slots[B(t)][j].tag = Tag(t) => i = j
    BY <2>4, OneSlot
  <2>6. \A j \in Indices : slots'[B(t)][j] = IF j = i THEN Empty ELSE slots[B(t)][j]
    BY <1>2, <2>3, <2>4
  <2>7. B(t)' = B(t) /\ Tag(t)' = Tag(t)
    BY <2>3 DEF B, Tag, Key
  <2>8. \A j \in Indices : slots'[B(t)][j].tag # Tag(t)
    BY <2>4, <2>5, <2>6 DEF Empty
  <2> QED
    BY <1>5, <2>7, <2>8
<1> QED
  BY <1>4, <1>5

\* A reader whose bucket has not changed is at the slot it has found.
LEMMA QuietReader ==
  ASSUME Basic, NEW t \in Threads, t \in crew, Step(t), NEW s \in Threads, pc[s] \in Reading, version'[B(s)] = ver[s]
  PROVE  /\ version[B(s)] = ver[s] /\ B(s) \in Buckets /\ Tag(s) # 0 /\ ~Odd(ver[s])
         /\ LeftAlone(B(s)) /\ ~HasBucket(t, B(s))
         /\ pc[s] \in Comparing => vec[s] = Slot(s) /\ vec[s].tag = Tag(s) /\ idx[s] \in Indices
<1>1. B(s) \in Buckets /\ Tag(s) # 0 /\ Settled(s)
  <2>1. pc[s] # "idle"
    BY DEF Comparing, Reading
  <2> QED
    BY <2>1, CallTypes DEF Basic
<1>2. PICK b \in Buckets : b = B(s)
  BY <1>1
<1>3. version[b] = ver[s] /\ ~Odd(ver[s])
  <2>1. version[b] <= version'[b] /\ version[b] \in Nat /\ version'[b] \in Nat /\ ver[s] \in Nat
    BY VersionsGrow DEF Basic, TypeOK
  <2>2. ver[s] <= version[b] /\ ~Odd(ver[s]) /\ version'[b] = ver[s]
    BY <1>1, <1>2 DEF Settled
  <2> QED
    BY <2>1, <2>2
<1>4. LeftAlone(b) /\ ~HasBucket(t, b)
  BY <1>2, <1>3, QuietBucket
<1> QED
  BY <1>1, <1>2, <1>3, <1>4 DEF Settled

\* The item behind a slot of such a reader's bucket stays too.
LEMMA QuietItem ==
  ASSUME Basic, NEW P \in SUBSET Nat, Tiled(P), Filled, NEW t \in Threads, t \in crew, Step(t), NEW s \in Threads, s # t,
         pc[s] \in Reading, version'[B(s)] = ver[s], NEW i \in Indices, slots[B(s)][i].tag = Tag(s),
         NEW CONSTANT o, o = slots[B(s)][i].off, tail' - o <= Size
  PROVE  Recent(o) /\ ItemLen(o)' = ItemLen(o) /\ (Holds(o, Key(s))' <=> Holds(o, Key(s)))
<1>1. B(s) \in Buckets /\ Tag(s) # 0 /\ ~HasBucket(t, B(s))
  BY QuietReader
<1>2. PICK b \in Buckets : b = B(s)
  BY <1>1
<1>3. slots[b][i] # Empty /\ o = slots[b][i].off
  BY <1>1, <1>2 DEF Empty
<1>4. Same(o) /\ Recent(o) /\ Span(o) \in Nat /\ Span(o) >= 3
  BY <1>1, <1>2, <1>3, SlotItemKept
<1>5. mem'[Addr(o, 1)] = mem[Addr(o, 1)] /\ ItemLen(o)' = ItemLen(o)
  BY <1>4, SameItem
<1>6. Key(s)' = Key(s)
  BY ThreadsApart DEF Basic, Apart, Key
<1> QED
  BY <1>4, <1>5, <1>6 DEF Holds

\* The item a slot with a given tag leads to.
LEMMA SlotHolds ==
  ASSUME Basic, Filled, NEW b \in Buckets, NEW i \in Indices, slots[b][i].tag # 0, Recent(slots[b][i].off),
         NEW CONSTANT o, o = slots[b][i].off
  PROVE  /\ ItemLen(o) \in Lens /\ ItemKey(o) \in Keys /\ BucketOf[ItemKey(o)] = b /\ TagOf[ItemKey(o)] = slots[b][i].tag
         /\ LensAt(Addr(o, 1)) = { ItemLen(o) } /\ Holds(o, ItemKey(o))
         /\ ~Odd(version[b]) => Bears(o, cur[ItemKey(o)])
<1>1. slots[b][i] # Empty
  BY DEF Empty
<1>2. /\ Lies(o, ItemKey(o), ItemLen(o)) /\ ItemKey(o) \in Keys /\ ItemLen(o) \in Lens
      /\ BucketOf[ItemKey(o)] = b /\ TagOf[ItemKey(o)] = slots[b][i].tag
      /\ Bears(o, cur[ItemKey(o)]) \/ \E t \in Threads : Alters(t) /\ B(t) = b
  BY <1>1 DEF Filled, Content
<1>3. mem[Addr(o, 1)][1] = "item"
  BY <1>2 DEF Lies, Meta
<1>4. ASSUME NEW t \in Threads, Alters(t), B(t) = b PROVE Odd(version[b])
  <2>1. HasBucket(t, b)
    BY <1>4 DEF Alters, HasBucket, Inside
  <2> QED
    BY <2>1 DEF Basic, Locked
<1> QED
  BY <1>2, <1>3, <1>4 DEF LensAt, ItemLen, ItemKey, Holds

LEMMA LoadedKept ==
  ASSUME Basic, NEW P \in SUBSET Nat, Tiled(P), Filled, NEW t \in Threads, t \in crew, Step(t), NEW s \in Threads
  PROVE  Loaded(s)'
<1> USE DEF Goto
<1>1. SUFFICES ASSUME (pc[s] \in { "value", "validate", "found" } /\ version[B(s)] = ver[s] /\ Recent(vec[s].off))'
               PROVE  (ItemLen(vec[s].off) = call[s].len)'
  BY DEF Loaded
<1>2. pc \in [Threads -> Locations] /\ DOMAIN call = Threads /\ vec \in [Threads -> Item] /\ idx \in [Threads -> 0 .. BucketSize]
  BY DEF Basic, TypeOK, Flow
<1>3. CASE s # t
  <2>1. pc'[s] = pc[s] /\ call'[s] = call[s] /\ vec'[s] = vec[s] /\ ver'[s] = ver[s]
    BY <1>3, ThreadsApart DEF Basic, Apart
  <2>2. B(s)' = B(s)
    BY <2>1 DEF B, Key
  <2>3. pc[s] \in Comparing /\ version'[B(s)] = ver[s]
    BY <1>1, <2>1, <2>2 DEF Comparing
  <2>4. PICK o : o = vec[s].off
    OBVIOUS
  <2>5. tail' - o <= Size
    BY <1>1, <2>1, <2>4 DEF Recent
  <2>6. version[B(s)] = ver[s] /\ Recent(o) /\ ItemLen(o)' = ItemLen(o)
    <3>1. pc[s] \in Reading
      BY <2>3 DEF Reading
    <3>2. version[B(s)] = ver[s] /\ vec[s] = Slot(s) /\ vec[s].tag = Tag(s) /\ idx[s] \in Indices
      BY <2>3, <3>1, QuietReader
    <3>3. PICK i \in Indices : i = idx[s]
      BY <3>2
    <3>4. slots[B(s)][i].tag = Tag(s) /\ o = slots[B(s)][i].off
      BY <2>4, <3>2, <3>3 DEF Slot
    <3> QED
      BY <1>3, <2>3, <2>5, <3>1, <3>2, <3>4, QuietItem
  <2>7. ItemLen(o) = call[s].len
    BY <1>1, <2>1, <2>4, <2>6 DEF Filled, Loaded
  <2>8. ItemLen(vec[s].off)' = ItemLen(o)'
    BY <2>1, <2>4 DEF ItemLen
  <2> QED
    BY <2>1, <2>6, <2>7, <2>8
<1>4. CASE s = t
  <2>1. Load(t) \/ CopyValue(t) \/ Validate(t)
    <3>1. CASE Looks(t)
      BY <1>1, <1>2, <1>4, <3>1 DEF Looks, BeginRead, ReadAgain, Scan, Compare, Retry, NotFound, TestFound, Found, MoveNeeded, Return
    <3>2. ~(Searches(t) \/ EntersPool(t) \/ Begins(t) \/ SweepLock(t) \/ MoveLock(t) \/ RemoveStale(t) \/ Del(t) \/ Publish(t))
      BY <1>1, <1>2, <1>4 DEF Searches, SetExists, SetLocate, IncrementLocate, IncrementFails, EntersPool, SetInPlace, SetNew,
         Increment, MoveCheck, Begins, Begin, SweepLock, MoveLock, RemoveStale, Del, Publish
    <3>3. ~(Unlock(t) \/ SweepBucket(t) \/ PopHead(t) \/ PushTail(t) \/ WriteWord(t) \/ UnlockPool(t) \/ MoveItem(t))
      BY <1>1, <1>2, <1>4 DEF Unlock, SweepBucket, PopHead, PushTail, WriteWord, UnlockPool, MoveItem, Return
    <3> QED
      BY StepKinds, <3>1, <3>2, <3>3
  <2>2. CASE Load(t)
    <3>1. PICK o : o = slots[B(t)][idx[t]].off
      OBVIOUS
    <3>2. PICK l \in LensAt(Addr(o, 1)) : call' = [call EXCEPT ![t].len = l]
      BY <2>2, <3>1 DEF Load
    <3>3. call'[t].len = l /\ call'[t].key = call[t].key
      BY <1>2, <3>2
    <3>4. /\ pc[t] = "load" /\ vec'[t] = slots[B(t)][idx[t]] /\ vec'[t].off = o
          /\ UNCHANGED <<version, slots, tail, mem, ver>>
      BY <1>2, <2>2, <3>1 DEF Load, table, log
    <3>5. PICK b \in Buckets : b = B(t)
      BY <3>4, CallTypes DEF Basic
    <3>6. version[b] = ver[t] /\ Recent(o) /\ B(t)' = b
      BY <1>1, <1>4, <3>3, <3>4, <3>5 DEF B, Key, Recent
    <3>7. idx[t] \in Indices /\ slots[b][idx[t]].tag # 0
      <4>1. Tag(t) # 0 /\ Settled(t)
        BY <3>4, CallTypes DEF Basic
      <4> QED
        BY <3>4, <3>5, <3>6, <4>1 DEF Settled, Comparing, Slot
    <3>8. PICK i \in Indices : i = idx[t]
      BY <3>7
    <3>9. LensAt(Addr(o, 1)) = { ItemLen(o) }
      BY <3>1, <3>5, <3>6, <3>7, <3>8, SlotHolds
    <3>10. ItemLen(vec[t].off)' = ItemLen(o)
      BY <3>4 DEF ItemLen, Addr
    <3> QED
      BY <1>4, <3>2, <3>3, <3>9, <3>10
  <2>3. CASE CopyValue(t) \/ Validate(t)
    <3>1. pc[t] \in { "value", "validate" } /\ UNCHANGED <<version, slots, tail, mem, ver, vec, call>>
      BY <2>3 DEF CopyValue, Validate, table, log, locals
    <3>2. B(t)' = B(t)
      BY <3>1 DEF B, Key
    <3> QED
      BY <1>1, <1>4, <3>1, <3>2 DEF Filled, Loaded, Recent, ItemLen
  <2> QED
    BY <2>1, <2>2, <2>3
<1> QED
  BY <1>3, <1>4

\* What only mutators do.
LEMMA GettersLook ==
  ASSUME Basic, NEW t \in Threads, t \notin Mutators, Step(t)
  PROVE  Looks(t)
<1>1. pc[t] \in Reading \cup { "idle", "begin" }
  BY DEF Basic, Flow, FlowOf
<1>2. ~(Searches(t) \/ EntersPool(t) \/ Begins(t) \/ SweepLock(t) \/ MoveLock(t) \/ RemoveStale(t) \/ Del(t) \/ Publish(t))
  BY <1>1 DEF Searches, SetExists, SetLocate, IncrementLocate, IncrementFails, EntersPool, SetInPlace, SetNew,
     Increment, MoveCheck, Begins, Begin, SweepLock, MoveLock, RemoveStale, Del, Publish, Goto, Reading, Comparing
<1>3. ~(Unlock(t) \/ SweepBucket(t) \/ PopHead(t) \/ PushTail(t) \/ WriteWord(t) \/ UnlockPool(t) \/ MoveItem(t))
  BY <1>1 DEF Unlock, SweepBucket, PopHead, PushTail, WriteWord, UnlockPool, MoveItem, Goto, Reading, Comparing
<1> QED
  BY <1>2, <1>3, StepKinds

\* move_to_head() measures an item before it locks the bucket.  Under one mutator
\* nobody comes between; under many it may copy what another has meanwhile
\* written over the item, which is as long only if every value is.
OneLength == Mode = 2 => \A l, m \in Lens : l = m

LEMMA MeasuredKept ==
  ASSUME OneLength, Basic, Basic', Lengths', NEW P \in SUBSET Nat, Tiled(P), Filled, NEW t \in Threads, t \in crew, Step(t),
         \A b \in Buckets, i \in Indices : Content(b, i)', NEW s \in Threads
  PROVE  Measured(s)'
<1> USE DEF Goto
<1>1. SUFFICES ASSUME (Moves(s) /\ Recent(vec[s].off) /\ Slot(s) = vec[s])'
               PROVE  (ItemLen(vec[s].off) = call[s].len)'
  BY DEF Measured
<1>2. pc \in [Threads -> Locations] /\ DOMAIN call = Threads /\ vec \in [Threads -> Item] /\ idx \in [Threads -> 0 .. BucketSize]
  BY DEF Basic, TypeOK, Flow
<1>3. CASE Mode = 2
  <2>1. PICK k : k = Key(s)'
    OBVIOUS
  <2>2. k \in Keys
    BY <1>1, <2>1 DEF Basic, Flow, FlowOf, Moves, Moving
  <2>3. PICK b \in Buckets : b = BucketOf[k]
    BY <2>2, Sizes
  <2>4. (vec[s].tag = Tag(s) /\ idx[s] \in Indices /\ call[s].len \in Lens)'
    BY <1>1 DEF Basic, Settled, Lengths, LengthsOf
  <2>5. PICK i \in Indices : i = idx'[s]
    BY <2>4
  <2>6. slots'[b][i] = vec'[s] /\ vec'[s].tag # 0
    BY <1>1, <2>1, <2>2, <2>3, <2>4, <2>5, Sizes DEF Slot, B, Tag
  <2>7. slots'[b][i] # Empty
    BY <2>6 DEF Empty
  <2>8. (slots[b][i] # Empty /\ Recent(slots[b][i].off) => ItemLen(slots[b][i].off) \in Lens)'
    BY DEF Content
  <2>9. (ItemLen(vec[s].off) \in Lens)'
    BY <1>1, <2>6, <2>7, <2>8 DEF Recent, ItemLen
  <2> QED
    BY <1>3, <2>4, <2>9 DEF OneLength
<1>4. CASE Mode = 1 /\ s # t
  <2>1. pc'[s] = pc[s] /\ call'[s] = call[s] /\ vec'[s] = vec[s] /\ idx'[s] = idx[s]
    BY <1>4, ThreadsApart DEF Basic, Apart
  <2>2. Moves(s)
    BY <1>1, <2>1 DEF Moves, Op
  <2>3. s \in Mutators \cap crew
    BY <2>2 DEF Moves, Moving, Basic, Flow, FlowOf, Reading, Comparing
  <2>4. t \notin Mutators
    BY <1>4, <2>3, OneMutator DEF Basic
  <2>5. UNCHANGED <<slots, tail, mem>>
    BY <2>4, GettersLook, LooksOutside
  <2>6. Slot(s)' = Slot(s)
    BY <2>1, <2>5 DEF Slot, B, Key
  <2>7. ItemLen(vec[s].off) = call[s].len
    BY <1>1, <2>1, <2>2, <2>5, <2>6 DEF Filled, Measured, Recent
  <2> QED
    BY <2>1, <2>5, <2>7 DEF ItemLen
<1>5. CASE s = t
  <2>1. Found(t) \/ MoveNeeded(t) \/ MoveLock(t) \/ MoveCheck(t) \/ PopHead(t) \/ PushTail(t)
    <3>1. CASE Looks(t)
      BY <1>1, <1>2, <1>5, <3>1 DEF Moves, Moving, Looks, BeginRead, ReadAgain, Scan, Compare, Load, CopyValue, Validate, Retry,
         NotFound, TestFound, Return
    <3>2. ~(Searches(t) \/ SetInPlace(t) \/ SetNew(t) \/ Increment(t) \/ Begins(t) \/ SweepLock(t) \/ RemoveStale(t)
            \/ Del(t) \/ Publish(t))
      BY <1>1, <1>2, <1>5 DEF Moves, Moving, Op, Searches, SetExists, SetLocate, IncrementLocate, IncrementFails, SetInPlace,
         SetNew, Increment, Begins, Begin, SweepLock, RemoveStale, Del, Publish, locals
    <3>3. ~(Unlock(t) \/ SweepBucket(t) \/ WriteWord(t) \/ UnlockPool(t) \/ MoveItem(t))
      BY <1>1, <1>2, <1>5 DEF Moves, Moving, Unlock, SweepBucket, WriteWord, UnlockPool, MoveItem, Return
    <3> QED
      BY StepKinds, <3>1, <3>2, <3>3 DEF EntersPool
  <2>2. UNCHANGED <<slots, call, vec, idx>>
    <3>1. CASE Found(t) \/ MoveNeeded(t)
      BY <1>1, <1>2, <1>5, <3>1 DEF Moves, Moving, Found, MoveNeeded, Return, locals, table
    <3>2. CASE MoveLock(t) \/ MoveCheck(t) \/ PopHead(t) \/ PushTail(t)
      BY <3>2 DEF MoveLock, MoveCheck, PopHead, PushTail, locals, table
    <3> QED
      BY <2>1, <3>1, <3>2
  <2>3. Slot(t) = vec[t]
    BY <1>1, <1>5, <2>2 DEF Slot, B, Key
  <2>4. PICK o : o = vec[t].off
    OBVIOUS
  <2>5. pc[t] # "idle" /\ pc[t] # "alloc" => pc[t] \in Moving \cup { "found" }
    BY <2>1, <1>1, <1>2, <1>5 DEF Found, MoveNeeded, MoveLock, MoveCheck, PopHead, PushTail, Moves, Moving
  <2>6. pc[t] = "found" \/ Moves(t)
    BY <2>1, <1>1, <1>2, <1>5, <2>2 DEF Found, MoveNeeded, MoveLock, MoveCheck, PopHead, PushTail, Moves, Moving, Op
  <2>7. pc[t] # "idle" /\ B(t) \in Buckets /\ Tag(t) # 0
    <3>1. pc[t] # "idle"
      BY <2>6 DEF Moves, Moving
    <3> QED
      BY <3>1, CallTypes DEF Basic
  <2>8. pc[t] = "found" => version[B(t)] = ver[t]
    BY <2>1 DEF Found, MoveNeeded, MoveLock, MoveCheck, PopHead, PushTail, Unchanged
  <2>9. idx[t] \in Indices /\ vec[t].tag = Tag(t)
    BY <2>6, <2>8 DEF Basic, Settled, Comparing
  <2>10. slots[B(t)][idx[t]] # Empty /\ slots[B(t)][idx[t]].off = o
    BY <2>3, <2>4, <2>7, <2>9 DEF Slot, Empty
  <2>11. o \in P /\ o \in Nat /\ o < tail /\ (Recent(o) => Span(o) \in Nat /\ Span(o) >= 3)
    BY <2>7, <2>9, <2>10, SlotLeads
  <2>12. tail' - o <= Size
    BY <1>1, <1>5, <2>2, <2>4 DEF Recent
  <2>13. Recent(o)
    BY <2>11, <2>12, HeadersKept DEF Basic, Tiled
  <2>14. ItemLen(o) = call[t].len
    BY <2>3, <2>4, <2>6, <2>8, <2>13 DEF Filled, Loaded, Measured
  <2>15. Same(o)
    <3>1. ~(WriteWord(t) \/ MoveItem(t))
      BY <2>1, <2>6 DEF WriteWord, MoveItem, Found, MoveNeeded, MoveLock, MoveCheck, PopHead, PushTail
    <3> QED
      BY <2>11, <2>12, <3>1, ItemKept
  <2>16. ItemLen(o)' = ItemLen(o)
    BY <2>11, <2>13, <2>15, SameItem
  <2>17. ItemLen(vec[t].off)' = ItemLen(o)'
    BY <2>2, <2>4 DEF ItemLen
  <2> QED
    BY <1>5, <2>2, <2>14, <2>16, <2>17
<1> QED
  BY <1>3, <1>4, <1>5, Sizes

LEMMA FilledAtFirst == Init => Filled
BY DEF Init, Filled, Content, Writing, Aiming, Deleting, Loaded, Measured, Alters, Moves, Moving

LEMMA FilledKept ==
  ASSUME LengthsApart, OneLength
  PROVE  Sound /\ Filled /\ Young /\ [Next]_vars => Filled'
<1> SUFFICES ASSUME Sound, Filled, Young, [Next]_vars PROVE Filled'
  OBVIOUS
<1>1. CASE Next
  <2>1. PICK t \in crew : Step(t)
    BY <1>1 DEF Next, Step
  <2>2. t \in Threads /\ Basic /\ Lengths
    BY <2>1, TableAssumption DEF Sound, Basic, Flow
  <2>3. PICK P \in SUBSET Nat : Tiled(P)
    BY DEF Sound
  <2>4. Basic' /\ Lengths'
    BY <2>1, <2>2, BasicKept, LengthsKept
  <2>5. \A b \in Buckets, i \in Indices : Content(b, i)'
    BY <2>1, <2>2, <2>3, ContentKept
  <2>6. \A s \in Threads : Writing(s)'
    BY <2>1, <2>2, <2>3, OwnWriting, OthersWriting
  <2>7. \A s \in Threads : Aiming(s)' /\ Deleting(s)' /\ Loaded(s)'
    BY <2>1, <2>2, <2>3, AimingKept, DeletingKept, LoadedKept
  <2>8. \A s \in Threads : Measured(s)'
    BY <2>1, <2>2, <2>3, <2>4, <2>5, MeasuredKept
  <2> QED
    BY <2>5, <2>6, <2>7, <2>8 DEF Filled
<1>2. CASE UNCHANGED vars
  <2> USE <1>2 DEF vars
  <2>1. \A b \in Buckets, i \in Indices : Content(b, i)'
    BY SMTT(60) DEF Filled, Content, Recent, Lies, ItemKey, ItemLen, Span, Bears, Alters, B, Key
  <2>2. \A s \in Threads : Writing(s)'
    BY DEF Filled, Writing, Unseen, Alters, Written, Lies, B, Tag, Key, Need, Recent
  <2>3. \A s \in Threads : (Aiming(s) /\ Deleting(s) /\ Loaded(s) /\ Measured(s))'
    BY DEF Filled, Aiming, Deleting, Loaded, Measured, Moves, Slot, Op, Holds, ItemLen, Recent, B, Tag, Key
  <2> QED
    BY <2>1, <2>2, <2>3 DEF Filled
<1> QED
  BY <1>1, <1>2

\* Every slot leads to an item of its bucket and tag whose words are all there,
\* whatever threads write, evict, move and sweep.
THEOREM FilledWhileYoung ==
  ASSUME LengthsApart, OneLength
  PROVE  Spec /\ []Young => [](Sound /\ Filled)
<1>1. Init => Sound /\ Filled
  BY SoundAtFirst, FilledAtFirst
<1>2. Sound /\ Filled /\ Young /\ [Next]_vars => (Sound /\ Filled)'
  BY SoundKept, FilledKept
<1> QED
  BY <1>1, <1>2, PTL DEF Spec

LEMMA SlotCurrent ==
  ASSUME Sound, Filled, Young, NEW b \in Buckets, NEW i \in Indices, slots[b][i] # Empty, IsValid(slots[b][i].off)
  PROVE  LET x == slots[b][i]
             m == mem[Addr(x.off, 1)]
         IN  /\ m[1] = "item" /\ BucketOf[m[2]] = b /\ TagOf[m[2]] = x.tag
             /\ ~Odd(version[b]) =>
                  /\ m[3] = cur[m[2]].len
                  /\ \A j \in 1 .. m[3] : mem[Addr(x.off, j + 1)] = Words(cur[m[2]])[j]
<1>1. Basic /\ \E P \in SUBSET Nat : Tiled(P)
  BY DEF Sound
<1>2. PICK o : o = slots[b][i].off
  OBVIOUS
<1>3. o \in Nat /\ o < tail /\ slots[b][i].tag # 0
  BY <1>1, <1>2, SlotLeads
<1>4. Recent(o)
  <2>1. o <= tail
    BY <1>1, <1>3 DEF Basic, TypeOK
  <2> QED
    BY <1>1, <1>2, <1>3, <2>1, OffsetsArePositions DEF Basic
<1>5. /\ BucketOf[ItemKey(o)] = b /\ TagOf[ItemKey(o)] = slots[b][i].tag /\ Holds(o, ItemKey(o))
      /\ ~Odd(version[b]) => Bears(o, cur[ItemKey(o)])
  BY <1>1, <1>2, <1>3, <1>4, SlotHolds
<1>6. ~Odd(version[b]) => mem[Addr(o, 1)][3] = cur[ItemKey(o)].len
                          /\ \A j \in 1 .. mem[Addr(o, 1)][3] : mem[Addr(o, j + 1)] = Words(cur[ItemKey(o)])[j]
  BY <1>5 DEF Bears, Words
<1> QED
  BY <1>2, <1>5, <1>6 DEF ItemKey, Holds

LEMMA Current == Sound /\ Filled /\ Young => ValidSlotIsCurrent
BY SlotCurrent DEF ValidSlotIsCurrent

\* An item vector that is_valid() accepts leads to an item of its own bucket and
\* tag, which, unless the bucket is locked, is the last one stored under its key.
THEOREM ValidSlotsAreCurrent ==
  ASSUME LengthsApart, OneLength
  PROVE  Spec /\ []Young => []ValidSlotIsCurrent
BY FilledWhileYoung, Current, PTL

-----------------------------------------------------------------------------
(* What a reader knows while its bucket's version is the one it began with. *)

\* A slot that a get or test has passed leads to no valid item of its key.
Gone(t, i) ==
  slots[B(t)][i].tag = Tag(t) /\ Recent(slots[B(t)][i].off) => ~Holds(slots[B(t)][i].off, Key(t))
Whole(t) == buf[t] = Words(cur[Key(t)]) /\ cur[Key(t)] # NoValue
Learnt(t) ==
  /\ pc[t] = "scan" => \A i \in Indices : i <= idx[t] => Gone(t, i)
  /\ pc[t] = "miss" => \A i \in Indices : Gone(t, i)
  /\ pc[t] \in { "load", "value", "validate" } /\ Recent(vec[t].off) => Holds(vec[t].off, Key(t))
  /\ pc[t] = "validate" /\ Recent(vec[t].off) => Whole(t)
  /\ pc[t] = "found" => Whole(t)
  /\ pc[t] = "stale" => ~Recent(vec[t].off)
Knows(t) ==
  /\ pc[t] \in { "idle", "begin" } => idx[t] = 0
  /\ pc[t] \in Reading /\ version[B(t)] = ver[t] => Learnt(t)

LEMMA OthersKnow ==
  ASSUME Basic, NEW P \in SUBSET Nat, Tiled(P), Filled, NEW t \in Threads, t \in crew, Step(t), NEW s \in Threads, s # t, Knows(s)
  PROVE  Knows(s)'
<1>1. /\ pc'[s] = pc[s] /\ call'[s] = call[s] /\ vec'[s] = vec[s] /\ ver'[s] = ver[s] /\ idx'[s] = idx[s] /\ buf'[s] = buf[s]
      /\ B(s)' = B(s) /\ Tag(s)' = Tag(s) /\ Key(s)' = Key(s)
  BY ThreadsApart DEF Basic, Apart, B, Tag, Key
<1>2. SUFFICES ASSUME pc[s] \in Reading, version'[B(s)] = ver[s] PROVE Learnt(s)'
  BY <1>1 DEF Knows
<1>3. /\ version[B(s)] = ver[s] /\ B(s) \in Buckets /\ Tag(s) # 0 /\ LeftAlone(B(s))
      /\ pc[s] \in Comparing => vec[s] = Slot(s) /\ vec[s].tag = Tag(s) /\ idx[s] \in Indices
  BY <1>2, QuietReader
<1>4. Learnt(s)
  BY <1>2, <1>3 DEF Knows
<1>5. ASSUME NEW i \in Indices, Gone(s, i) PROVE Gone(s, i)'
  <2>1. PICK o : o = slots[B(s)][i].off
    OBVIOUS
  <2>2. slots'[B(s)][i] = slots[B(s)][i]
    BY <1>3 DEF LeftAlone
  <2>3. slots[B(s)][i].tag = Tag(s) /\ tail' - o <= Size => ~Holds(o, Key(s))'
    BY <1>2, <1>5, <2>1, QuietItem DEF Gone
  <2> QED
    BY <1>1, <2>1, <2>2, <2>3 DEF Gone, Recent, Holds
<1>6. PICK o : o = vec[s].off
  OBVIOUS
<1>7. pc[s] \in Comparing /\ tail' - o <= Size => Recent(o) /\ (Holds(o, Key(s))' <=> Holds(o, Key(s)))
  <2>1. SUFFICES ASSUME pc[s] \in Comparing, tail' - o <= Size PROVE Recent(o) /\ (Holds(o, Key(s))' <=> Holds(o, Key(s)))
    OBVIOUS
  <2>2. PICK i \in Indices : i = idx[s]
    BY <1>3, <2>1
  <2>3. slots[B(s)][i].tag = Tag(s) /\ o = slots[B(s)][i].off
    BY <1>3, <1>6, <2>1, <2>2 DEF Slot
  <2> QED
    BY <1>2, <2>1, <2>3, QuietItem
<1>8. Key(s) \in Keys /\ cur'[Key(s)] = cur[Key(s)]
  <2>1. Key(s) \in Keys
    BY <1>2, CallTypes DEF Basic, Reading, Comparing
  <2> QED
    BY <1>3, <2>1 DEF LeftAlone, B
<1>9. Whole(s)' <=> Whole(s)
  BY <1>1, <1>8 DEF Whole
<1>10. pc[s] \in { "load", "value", "validate" } /\ Recent(vec[s].off)' => Holds(vec[s].off, Key(s))'
  <2>1. pc[s] \in { "load", "value", "validate" } /\ tail' - o <= Size => Holds(o, Key(s))'
    BY <1>4, <1>6, <1>7 DEF Learnt, Comparing
  <2> QED
    BY <1>1, <1>6, <2>1 DEF Recent, Holds
<1>11. pc[s] = "validate" /\ Recent(vec[s].off)' => Whole(s)'
  BY <1>1, <1>4, <1>6, <1>7, <1>9 DEF Recent, Learnt, Comparing
<1>12. pc[s] = "stale" => ~Recent(vec[s].off)'
  BY <1>1, <1>4, <1>6, <1>7 DEF Recent, Learnt, Comparing
<1> QED
  BY <1>1, <1>4, <1>5, <1>9, <1>10, <1>11, <1>12 DEF Learnt

\* What a reader has copied from a valid item is its key's value.
LEMMA CopyIsWhole ==
  ASSUME Basic, Lengths, Filled, NEW t \in Threads, pc[t] = "value", version[B(t)] = ver[t], Recent(vec[t].off),
         Holds(vec[t].off, Key(t))
  PROVE  /\ [i \in 1 .. call[t].len |-> mem[Addr(vec[t].off, i + 1)]] = Words(cur[Key(t)])
         /\ cur[Key(t)] # NoValue
<1>1. /\ B(t) \in Buckets /\ Tag(t) # 0 /\ idx[t] \in Indices /\ vec[t] = Slot(t) /\ vec[t].tag = Tag(t) /\ ~Odd(ver[t])
  <2>1. B(t) \in Buckets /\ Tag(t) # 0 /\ Settled(t)
    BY CallTypes DEF Basic
  <2> QED
    BY <2>1 DEF Settled, Comparing, Reading
<1>2. PICK b \in Buckets : b = B(t)
  BY <1>1
<1>3. PICK i \in Indices : i = idx[t]
  BY <1>1
<1>4. PICK o : o = vec[t].off
  OBVIOUS
<1>5. slots[b][i].tag # 0 /\ o = slots[b][i].off /\ Recent(o) /\ ~Odd(version[b])
  BY <1>1, <1>2, <1>3, <1>4 DEF Slot
<1>6. ItemLen(o) \in Lens /\ Bears(o, cur[ItemKey(o)])
  BY <1>5, SlotHolds
<1>7. ItemKey(o) = Key(t) /\ ItemLen(o) = call[t].len
  BY <1>4, <1>5 DEF Filled, Loaded, Holds, ItemKey
<1>8. cur[Key(t)].len = call[t].len /\ call[t].len # 0
  BY <1>6, <1>7, LogAssumption DEF Bears, ItemLen
<1> QED
  BY <1>4, <1>6, <1>7, <1>8 DEF Bears, Words, NoValue

LEMMA OwnKnow ==
  ASSUME Basic, Lengths, Young, NEW P \in SUBSET Nat, Tiled(P), Filled, NEW t \in Threads, Step(t), Knows(t)
  PROVE  Knows(t)'
<1> USE DEF Goto
<1>1. /\ TypeOK /\ pc \in [Threads -> Locations] /\ DOMAIN call = Threads /\ DOMAIN buf = Threads /\ vec \in [Threads -> Item]
      /\ idx \in [Threads -> 0 .. BucketSize] /\ ver \in [Threads -> Nat] /\ version \in [Buckets -> Nat]
  BY DEF Basic, TypeOK, Flow
<1>2. CASE ~Looks(t)
  <2>1. ~Looks(t) => pc'[t] \notin Reading \cup { "begin" } /\ (pc'[t] = "idle" => idx'[t] = 0)
    <3>1. Searches(t) \/ EntersPool(t) \/ Begins(t) \/ SweepLock(t) \/ MoveLock(t) \/ RemoveStale(t) \/ Del(t) \/ Publish(t)
          => pc'[t] \notin Reading \cup { "begin", "idle" }
      BY <1>1 DEF Searches, SetExists, SetLocate, IncrementLocate, IncrementFails, EntersPool, SetInPlace, SetNew,
         Increment, MoveCheck, Begins, Begin, SweepLock, MoveLock, RemoveStale, Del, Publish, Reading, Comparing
    <3>2. PopHead(t) \/ PushTail(t) \/ WriteWord(t) \/ UnlockPool(t) \/ MoveItem(t) => pc'[t] \notin Reading \cup { "begin", "idle" }
      BY <1>1 DEF PopHead, PushTail, WriteWord, UnlockPool, MoveItem, Reading, Comparing
    <3>3. Unlock(t) \/ SweepBucket(t) => pc'[t] \in { "idle", "sweep" } /\ (pc'[t] = "idle" => idx'[t] = 0)
      BY <1>1 DEF Unlock, SweepBucket, Return
    <3> QED
      BY StepKinds, <3>1, <3>2, <3>3 DEF Reading, Comparing
  <2> QED
    BY <1>2, <2>1 DEF Knows
<1>3. ASSUME Looks(t) PROVE UNCHANGED <<version, slots, tail, mem, cur>>
  BY <1>3, LooksOutside
<1>4. CASE (\E op \in { "get", "test" }, k \in Keys : BeginRead(t, op, k)) \/ ReadAgain(t)
  <2>1. pc'[t] = "scan" /\ idx' = idx /\ idx[t] = 0
    BY <1>1, <1>4 DEF BeginRead, ReadAgain, Knows
  <2>2. \A i \in Indices : ~(i <= idx'[t])
    BY <2>1, Sizes
  <2> QED
    BY <2>1, <2>2 DEF Knows, Learnt
<1>5. CASE NotFound(t) \/ TestFound(t) \/ Found(t) \/ MoveNeeded(t) \/ Retry(t)
  <2>1. pc'[t] \notin Reading /\ (pc'[t] \in { "idle", "begin" } => idx'[t] = 0)
    BY <1>1, <1>5 DEF NotFound, TestFound, Found, MoveNeeded, Retry, Return, Reading, Comparing
  <2> QED
    BY <2>1 DEF Knows
<1>6. CASE Scan(t) \/ Compare(t) \/ Load(t) \/ CopyValue(t) \/ Validate(t)
  <2>1. /\ pc[t] \in { "scan", "compare", "load", "value", "validate" }
        /\ pc'[t] \in { "miss", "compare", "scan", "hit", "load", "value", "stale", "validate", "found" }
        /\ ver' = ver /\ call'[t].key = call[t].key /\ UNCHANGED <<version, slots, tail, mem, cur>>
    <3>1. CASE Load(t)
      <4>1. PICK l : call' = [call EXCEPT ![t].len = l]
        BY <3>1 DEF Load
      <4>2. call'[t].key = call[t].key
        BY <1>1, <4>1
      <4> QED
        BY <1>1, <3>1, <4>2 DEF Load, table, log
    <3>2. CASE Scan(t) \/ Compare(t) \/ CopyValue(t) \/ Validate(t)
      BY <1>1, <3>2 DEF Scan, Compare, CopyValue, Validate, table, log, locals
    <3> QED
      BY <1>6, <3>1, <3>2
  <2>2. B(t)' = B(t) /\ Tag(t)' = Tag(t) /\ Key(t)' = Key(t)
    BY <2>1 DEF B, Tag, Key
  <2>3. SUFFICES ASSUME version[B(t)] = ver[t] PROVE Learnt(t)'
    BY <2>1, <2>2 DEF Knows
  <2>4. pc[t] \in Reading /\ Learnt(t) /\ Settled(t) /\ B(t) \in Buckets /\ Tag(t) # 0 /\ Key(t) \in Keys
    <3>1. pc[t] \in Reading /\ pc[t] # "idle"
      BY <2>1 DEF Reading, Comparing
    <3> QED
      BY <2>3, <3>1, CallTypes DEF Knows, Basic
  <2>5. PICK b \in Buckets : b = B(t)
    BY <2>4
  <2>6. PICK o : o = vec[t].off
    OBVIOUS
  <2>7. pc[t] # "scan" => /\ idx[t] \in Indices /\ vec[t] = slots[b][idx[t]] /\ vec[t].tag = Tag(t)
                          /\ \A i \in Indices : i # idx[t] => slots[b][i].tag # Tag(t)
    <3>1. SUFFICES ASSUME pc[t] # "scan"
                   PROVE  /\ idx[t] \in Indices /\ vec[t] = slots[b][idx[t]] /\ vec[t].tag = Tag(t)
                          /\ \A i \in Indices : i # idx[t] => slots[b][i].tag # Tag(t)
      OBVIOUS
    <3>2. idx[t] \in Indices /\ vec[t] = slots[b][idx[t]] /\ vec[t].tag = Tag(t)
      BY <2>1, <2>3, <2>4, <2>5, <3>1 DEF Settled, Comparing, Slot
    <3> QED
      BY <2>4, <3>2, OneSlot
  <2>8. pc[t] # "scan" => o \in Nat /\ o < tail
    <3>1. pc[t] # "scan" => \E i \in Indices : slots[b][i] # Empty /\ o = slots[b][i].off
      BY <2>4, <2>6, <2>7 DEF Empty
    <3> QED
      BY <3>1, SlotLeads
  <2>9. \A i \in Indices : Gone(t, i)' <=> Gone(t, i)
    BY <2>1, <2>2 DEF Gone, Recent, Holds
  <2>10. CASE Scan(t)
    <3> DEFINE I == { i \in Indices : i > idx[t] /\ slots[B(t)][i].tag = Tag(t) }
    <3>1. pc'[t] \in { "miss", "compare" } /\ (pc'[t] = "miss" => I = {}) /\ pc[t] = "scan"
      BY <1>1, <2>10 DEF Scan
    <3>2. ASSUME pc'[t] = "miss", NEW i \in Indices PROVE Gone(t, i)
      <4>1. idx[t] \in Nat /\ i \in Nat
        BY <1>1, Sizes
      <4>2. CASE i <= idx[t]
        BY <2>4, <3>1, <4>2 DEF Learnt
      <4>3. CASE i > idx[t]
        BY <3>1, <3>2, <4>3 DEF Gone
      <4> QED
        BY <4>1, <4>2, <4>3
    <3> QED
      BY <2>9, <3>1, <3>2 DEF Learnt
  <2>11. CASE Compare(t)
    <3>1. /\ pc[t] = "compare" /\ UNCHANGED <<idx, vec>>
          /\ pc'[t] = IF ~Holds(o, Key(t)) THEN "scan" ELSE IF call[t].op = "test" THEN "hit" ELSE "load"
      BY <1>1, <2>6, <2>11 DEF Compare, locals
    <3>2. CASE pc'[t] = "scan"
      <4>1. ~Holds(o, Key(t))
        BY <3>1, <3>2
      <4>2. ASSUME NEW i \in Indices PROVE Gone(t, i)
        BY <2>5, <2>6, <2>7, <3>1, <4>1, <4>2 DEF Gone
      <4> QED
        BY <2>9, <3>2, <4>2 DEF Learnt
    <3>3. CASE pc'[t] \in { "hit", "load" }
      <4>1. Holds(o, Key(t))
        BY <3>1, <3>3
      <4> QED
        BY <2>1, <2>2, <2>6, <3>1, <3>3, <4>1 DEF Learnt, Holds
    <3> QED
      BY <3>1, <3>2, <3>3
  <2>12. CASE Load(t)
    <3>1. pc[t] = "load" /\ vec'[t] = slots[b][idx[t]] /\ pc'[t] \in { "stale", "value" }
      BY <1>1, <2>5, <2>12 DEF Load
    <3>2. vec'[t] = vec[t]
      BY <2>7, <3>1
    <3>3. Recent(o) => Holds(o, Key(t))
      BY <2>4, <2>6, <3>1 DEF Learnt
    <3>4. ASSUME pc'[t] = "stale" PROVE ~Recent(o)
      <4>1. SUFFICES ASSUME Recent(o) PROVE FALSE
        OBVIOUS
      <4>2. TooLong \in LensAt(Addr(o, 1))
        BY <1>1, <2>5, <2>6, <2>7, <2>12, <3>1, <3>4 DEF Load
      <4>3. PICK i \in Indices : i = idx[t]
        BY <2>7, <3>1
      <4>4. slots[b][i].tag # 0 /\ o = slots[b][i].off
        BY <2>4, <2>6, <2>7, <3>1, <4>3
      <4>5. ItemLen(o) \in Lens /\ LensAt(Addr(o, 1)) = { ItemLen(o) }
        BY <4>1, <4>4, SlotHolds
      <4> QED
        BY <4>2, <4>5, LogAssumption DEF TooLong
    <3> QED
      BY <2>1, <2>2, <2>6, <3>1, <3>2, <3>3, <3>4 DEF Learnt, Recent, Holds
  <2>13. CASE CopyValue(t)
    <3>1. /\ pc[t] = "value" /\ pc'[t] = "validate" /\ vec' = vec
          /\ buf'[t] = [i \in 1 .. call[t].len |-> mem[Addr(vec[t].off, i + 1)]]
      BY <1>1, <2>13 DEF CopyValue
    <3>2. Recent(vec[t].off) => Holds(vec[t].off, Key(t))
      BY <2>4, <3>1 DEF Learnt
    <3>3. Recent(vec[t].off) => buf'[t] = Words(cur[Key(t)]) /\ cur[Key(t)] # NoValue
      BY <2>3, <3>1, <3>2, CopyIsWhole
    <3> QED
      BY <2>1, <2>2, <3>1, <3>2, <3>3 DEF Learnt, Whole, Recent, Holds
  <2>14. CASE Validate(t)
    <3>1. /\ pc[t] = "validate" /\ UNCHANGED <<vec, buf>>
          /\ pc'[t] = IF IsValid(o) THEN "found" ELSE "stale"
      BY <1>1, <2>6, <2>14 DEF Validate, locals
    <3>2. IsValid(o) <=> Recent(o)
      <4>1. o \in Nat /\ o <= tail
        BY <1>1, <2>8, <3>1 DEF TypeOK
      <4> QED
        BY <1>1, <4>1, OffsetsArePositions
    <3>3. Recent(o) => Whole(t)
      BY <2>4, <2>6, <3>1 DEF Learnt
    <3>4. Whole(t)' <=> Whole(t)
      BY <2>1, <2>2, <3>1 DEF Whole
    <3> QED
      BY <2>1, <2>6, <3>1, <3>2, <3>3, <3>4 DEF Learnt, Recent
  <2> QED
    BY <1>6, <2>10, <2>11, <2>12, <2>13, <2>14
<1> QED
  BY <1>2, <1>4, <1>5, <1>6 DEF Looks

LEMMA KnowsAtFirst == Init => \A t \in Threads : Knows(t)
BY DEF Init, Knows, Reading, Comparing

LEMMA KnowsKept ==
  Sound /\ Filled /\ (\A t \in Threads : Knows(t)) /\ Young /\ [Next]_vars => (\A t \in Threads : Knows(t))'
<1> SUFFICES ASSUME Sound, Filled, \A t \in Threads : Knows(t), Young, [Next]_vars, NEW s \in Threads PROVE Knows(s)'
  OBVIOUS
<1>1. CASE Next
  <2>1. PICK t \in crew : Step(t)
    BY <1>1 DEF Next, Step
  <2>2. t \in Threads /\ Basic /\ Lengths
    BY <2>1, TableAssumption DEF Sound, Basic, Flow
  <2>3. PICK P \in SUBSET Nat : Tiled(P)
    BY DEF Sound
  <2> QED
    BY <2>1, <2>2, <2>3, OthersKnow, OwnKnow
<1>2. CASE UNCHANGED vars
  <2> USE <1>2 DEF vars
  <2>1. Learnt(s)' <=> Learnt(s)
    BY DEF Learnt, Gone, Whole, Holds, Recent, B, Tag, Key
  <2> QED
    BY <2>1 DEF Knows, B, Key
<1> QED
  BY <1>1, <1>2

\* A get's answer is given at a step of its own, with the version unchanged.
Answer(t) ==
  /\ (pc[t] = "found" /\ pc'[t] \in {"idle", "move"}) =>
       cur[Key(t)] # NoValue /\ buf[t] = Words(cur[Key(t)])
  /\ (pc[t] \in {"miss", "stale"} /\ pc'[t] \in {"idle", "remove"}) => ~Present(Key(t))

LEMMA AnswersRight ==
  ASSUME Sound, Filled, Young, NEW t \in Threads, Knows(t), Found(t) \/ NotFound(t)
  PROVE  Answer(t)
<1>1. pc[t] \in { "found", "miss", "stale" } /\ version[B(t)] = ver[t]
  BY DEF Found, NotFound, Unchanged
<1>2. Basic /\ Learnt(t) /\ B(t) \in Buckets /\ Tag(t) # 0 /\ Settled(t)
  <2>1. pc[t] \in Reading /\ pc[t] # "idle"
    BY <1>1 DEF Reading, Comparing
  <2> QED
    BY <1>1, <2>1, CallTypes DEF Knows, Sound, Basic
<1>3. CASE pc[t] = "found"
  BY <1>2, <1>3 DEF Answer, Learnt, Whole
<1>4. CASE pc[t] \in { "miss", "stale" }
  <2>1. SUFFICES ASSUME NEW i \in Indices, slots[B(t)][i].tag = Tag(t), IsValid(slots[B(t)][i].off),
                        Holds(slots[B(t)][i].off, Key(t))
                 PROVE  FALSE
    BY <1>4 DEF Answer, Present, B, Tag
  <2>2. PICK o : o = slots[B(t)][i].off
    OBVIOUS
  <2>3. o \in Nat /\ o < tail
    <3>1. slots[B(t)][i] # Empty
      BY <1>2, <2>1 DEF Empty
    <3> QED
      BY <1>2, <2>2, <3>1, SlotLeads DEF Sound
  <2>4. Recent(o)
    <3>1. o <= tail
      BY <1>2, <2>3 DEF Basic, TypeOK
    <3> QED
      BY <1>2, <2>1, <2>2, <2>3, <3>1, OffsetsArePositions DEF Basic
  <2>5. pc[t] # "miss"
    BY <1>2, <2>1, <2>2, <2>4 DEF Learnt, Gone
  <2>6. idx[t] \in Indices /\ vec[t] = Slot(t) /\ vec[t].tag = Tag(t) /\ ~Recent(vec[t].off)
    BY <1>1, <1>2, <1>4, <2>5 DEF Learnt, Settled, Comparing
  <2>7. i = idx[t]
    BY <1>2, <2>1, <2>6, OneSlot DEF Slot
  <2> QED
    BY <2>2, <2>4, <2>6, <2>7 DEF Slot
<1> QED
  BY <1>1, <1>3, <1>4

\* The steps that answer a get or a test.
LEMMA AnswerKinds ==
  ASSUME Basic, NEW t \in Threads, Step(t), NEW s \in Threads
  PROVE  Answer(s) \/ (s = t /\ (Found(t) \/ NotFound(t)))
<1>1. CASE s # t
  BY <1>1, ThreadsApart DEF Basic, Apart, Answer
<1>2. CASE s = t /\ pc[t] \notin { "found", "miss", "stale" }
  BY <1>2 DEF Answer
<1>3. CASE s = t /\ pc[t] \in { "found", "miss", "stale" }
  <2>1. ~(Searches(t) \/ EntersPool(t) \/ Begins(t) \/ SweepLock(t) \/ MoveLock(t) \/ RemoveStale(t) \/ Del(t) \/ Publish(t))
    BY <1>3 DEF Searches, SetExists, SetLocate, IncrementLocate, IncrementFails, EntersPool, SetInPlace, SetNew,
       Increment, MoveCheck, Begins, Begin, SweepLock, MoveLock, RemoveStale, Del, Publish, Goto
  <2>2. ~(Unlock(t) \/ SweepBucket(t) \/ PopHead(t) \/ PushTail(t) \/ WriteWord(t) \/ UnlockPool(t) \/ MoveItem(t))
    BY <1>3 DEF Unlock, SweepBucket, PopHead, PushTail, WriteWord, UnlockPool, MoveItem, Goto
  <2>3. Found(t) \/ NotFound(t) \/ Retry(t)
    BY <1>3, <2>1, <2>2, StepKinds DEF Looks, BeginRead, ReadAgain, Scan, Compare, Load, CopyValue, Validate, TestFound, MoveNeeded, Goto
  <2>4. Retry(t) => Answer(t)
    BY DEF Retry, Answer, Basic, TypeOK
  <2> QED
    BY <1>3, <2>3, <2>4
<1> QED
  BY <1>1, <1>2, <1>3

\* A get that reports success returns, whole, the value last stored under its
\* key, though it copied it without a lock; a get or test that reports "not
\* found" is right at that moment.
THEOREM GetsAreRight ==
  ASSUME LengthsApart, OneLength
  PROVE  Spec /\ []Young => GetIsRight
<1> DEFINE Inv == Sound /\ Filled /\ \A t \in Threads : Knows(t)
<1>1. Init => Inv
  BY SoundAtFirst, FilledAtFirst, KnowsAtFirst
<1>2. Inv /\ Young /\ [Next]_vars => Inv'
  BY SoundKept, FilledKept, KnowsKept
<1>3. Inv /\ Young /\ [Next]_vars => [\A t \in Threads : Answer(t)]_vars
  <2> SUFFICES ASSUME Inv, Young, Next, NEW s \in Threads PROVE Answer(s)
    OBVIOUS
  <2>1. PICK t \in crew : Step(t)
    BY DEF Next, Step
  <2>2. t \in Threads /\ Basic
    BY <2>1, TableAssumption DEF Sound, Basic, Flow
  <2> QED
    BY <2>1, <2>2, AnswerKinds, AnswersRight
<1> HIDE DEF Inv
<1>4. Spec /\ []Young => [][\A t \in Threads : Answer(t)]_vars
  BY <1>1, <1>2, <1>3, PTL DEF Spec
<1> QED
  BY <1>4 DEF GetIsRight, Answer
=============================================================================
