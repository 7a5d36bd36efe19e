---------------------------- MODULE SegregatedFit ----------------------------
(***************************************************************************)
(* The segregated-fit pool of MICA (mica/pool/segregated_fit{,_impl}.h): a *)
(* boundary-tag allocator with one doubly linked free list per size class, *)
(* as the lossless LTable uses it.                                         *)
(*                                                                         *)
(* Unit of length: one 8-byte word.  A chunk starts and ends with a tag    *)
(* (size and status).  A free chunk keeps its prev and next pointers in    *)
(* its second and third words; an occupied one keeps the item's length in  *)
(* its second word and the item after it.                                  *)
(*                                                                         *)
(* LTable::set() allocates before it takes the pool's lock (set.h:72 takes *)
(* it for the circular log only), while release() is called under it.  So  *)
(* allocate() is taken apart here, and what its interleavings do to the    *)
(* free lists is a question of Mode.                                       *)
(***************************************************************************)
EXTENDS Integers, FiniteSets

CONSTANTS
  Threads,
  Nobody,      \* the free pool lock
  Mode,        \* concurrent_access_mode_: 1 = one thread writes, 2 = many
  Size,        \* size_ in words
  NumClasses,  \* kNumClasses
  Lengths      \* item sizes exercised, in words

MinChunk == 4  \* kMinimumSize
Overhead == 3  \* kOverhead
Null == -1

ASSUME SizeAssumption == Size \in Nat /\ Size >= MinChunk /\ NumClasses \in Nat \ {0}
\* The table's Item has a two-word head, so no item is empty.
ASSUME LengthAssumption == \A n \in Lengths : n \in Nat /\ n >= 2
ASSUME ModeAssumption ==
  Mode \in {1, 2} /\ Nobody \notin Threads /\ (Mode = 1 => \A s, t \in Threads : s = t)

VARIABLES
  mem,      \* data_
  free,     \* free_head_
  lock,     \* lock_
  pc,       \* where each thread is in allocate() or release()
  want,     \* the item length it asked for
  chunk,    \* the chunk it works on: [start, size]
  live      \* ghost: the items handed out and not released, [start, n]

vars == <<mem, free, lock, pc, want, chunk, live>>

Addr == 0 .. Size - 1
Classes == 0 .. NumClasses - 1

Tag(n, status) == <<"tag", n, status>>
Ptr(p) == <<"ptr", p, 0>>
Len(n) == <<"len", n, 0>>
Data == <<"data", 0, 0>>

\* What a word reads as when it is not what the code takes it for.
SizeOf(a) == IF a \in Addr /\ mem[a][1] = "tag" THEN mem[a][2] ELSE MinChunk
Free(a) == mem[a][1] = "tag" /\ mem[a][3] = "free"
PtrAt(a) == IF a \in Addr /\ mem[a][1] = "ptr" THEN mem[a][2] ELSE Null
PrevOf(c) == PtrAt(c + 1)
NextOf(c) == PtrAt(c + 2)

\* size_to_class_rounddown() and size_to_class_roundup() agree, sizes being
\* whole words; the last class takes every larger chunk.
Class(n) == IF n - MinChunk < NumClasses THEN n - MinChunk ELSE NumClasses - 1

Smallest(S) == CHOOSE x \in S : \A y \in S : x <= y

\* No more chunks than this fit, so no free list is longer.
MaxChunks == Size \div MinChunk

\* The chunks of a free list, in order and then Null.
Chain(c) ==
  LET Nth[k \in 0 .. MaxChunks] ==
        IF k = 0 THEN free[c]
        ELSE LET p == Nth[k - 1] IN IF p = Null THEN Null ELSE NextOf(p)
  IN  Nth

\* insert_free_chunk(): tags, links, and the new head of its class.
Inserted(start, n) ==
  LET old == free[Class(n)] IN
  [mem EXCEPT ![start] = Tag(n, "free"), ![start + n - 1] = Tag(n, "free"),
              ![start + 1] = Ptr(Null), ![start + 2] = Ptr(old),
              ![IF old = Null THEN start + 1 ELSE old + 1] = IF old = Null THEN Ptr(Null) ELSE Ptr(start)]

\* remove_free_chunk_from_free_list()
Unlinked(start) ==
  LET p == PrevOf(start)
      q == NextOf(start)
  IN  [a \in Addr |-> IF p # Null /\ a = p + 2 THEN Ptr(q)
                      ELSE IF q # Null /\ a = q + 1 THEN Ptr(p) ELSE mem[a]]
UnlinkedHead(start, n) ==
  IF PrevOf(start) = Null THEN [free EXCEPT ![Class(n)] = NextOf(start)] ELSE free

Init ==
  /\ mem = [a \in Addr |-> IF a \in {0, Size - 1} THEN Tag(Size, "free") ELSE Ptr(Null)]
  /\ free = [c \in Classes |-> IF c = Class(Size) THEN 0 ELSE Null]
  /\ lock = Nobody
  /\ pc = [t \in Threads |-> "idle"]
  /\ want = [t \in Threads |-> 0]
  /\ chunk = [t \in Threads |-> [start |-> 0, size |-> 0]]
  /\ live = {}

-----------------------------------------------------------------------------
(* allocate()                                                              *)

Goto(t, from, to) == pc[t] = from /\ pc' = [pc EXCEPT ![t] = to]

Done(t) ==
  /\ pc' = [pc EXCEPT ![t] = "idle"]
  /\ want' = [want EXCEPT ![t] = 0]
  /\ chunk' = [chunk EXCEPT ![t] = [start |-> 0, size |-> 0]]

\* Usable starting one class too high.
Usable_NextClass(need) == { c \in Classes : c > Class(need) /\ free[c] # Null }

\* remove_free_chunk_from_head(): the first class from the item's own upwards
\* that is not empty, and in it the first chunk that is large enough.
Usable(need) == { c \in Classes : c >= Class(need) /\ free[c] # Null }

\* Fitting without the test for the mixed sizes of the last class.
Fitting_AnySize(need) == IF Usable(need) = {} THEN {} ELSE {0}

Fitting(need) ==
  IF Usable(need) = {} THEN {}
  ELSE LET nth == Chain(Smallest(Usable(need)))
       IN  { k \in 0 .. MaxChunks : nth[k] # Null /\ SizeOf(nth[k]) >= need }

Pick(t, n) ==
  LET need == n + Overhead
      c == Chain(Smallest(Usable(need)))[Smallest(Fitting(need))]
  IN
  /\ Fitting(need) # {}
  /\ Goto(t, "idle", "unlink")
  /\ want' = [want EXCEPT ![t] = n]
  /\ chunk' = [chunk EXCEPT ![t] = [start |-> c, size |-> SizeOf(c)]]
  /\ UNCHANGED <<mem, free, lock, live>>

\* kInsufficientSpace
NoSpace(t, n) ==
  /\ Fitting(n + Overhead) = {}
  /\ Goto(t, "idle", "refused")
  /\ want' = [want EXCEPT ![t] = n]
  /\ UNCHANGED <<mem, free, lock, chunk, live>>

Refused(t) ==
  /\ pc[t] = "refused"
  /\ Done(t)
  /\ UNCHANGED <<mem, free, lock, live>>

Unlink(t) ==
  LET x == chunk[t] IN
  /\ Goto(t, "unlink", "split")
  /\ mem' = Unlinked(x.start)
  /\ free' = UnlinkedHead(x.start, x.size)
  /\ UNCHANGED <<lock, want, chunk, live>>

\* A leftover of at least kMinimumSize becomes a free chunk of its own.
Split(t) ==
  LET x == chunk[t]
      need == want[t] + Overhead
      rest == x.size - need
  IN
  /\ Goto(t, "split", "mark")
  /\ IF rest >= MinChunk
     THEN /\ mem' = Inserted(x.start + need, rest)
          /\ free' = [free EXCEPT ![Class(rest)] = x.start + need]
          /\ chunk' = [chunk EXCEPT ![t].size = need]
     ELSE UNCHANGED <<mem, free, chunk>>
  /\ UNCHANGED <<lock, want, live>>

\* The words of the chunk: tags at both its ends, the item's length, and the
\* item, which the caller stores at once.
Filled(x, n) ==
  [a \in Addr |-> IF a \in {x.start, x.start + x.size - 1} THEN Tag(x.size, "used")
                  ELSE IF a = x.start + 1 THEN Len(n)
                  ELSE IF a \in x.start + 2 .. x.start + 1 + n THEN Data ELSE mem[a]]

Mark(t) ==
  /\ pc[t] = "mark"
  /\ mem' = Filled(chunk[t], want[t])
  /\ live' = live \cup {[start |-> chunk[t].start, n |-> want[t]]}
  /\ Done(t)
  /\ UNCHANGED <<free, lock>>

-----------------------------------------------------------------------------
(* release(), under the pool's lock.                                       *)

BeginRelease(t, x) ==
  /\ Goto(t, "idle", "left")
  /\ x \in live
  /\ Mode = 2 => lock = Nobody
  /\ lock' = IF Mode = 2 THEN t ELSE lock
  /\ chunk' = [chunk EXCEPT ![t] = [start |-> x.start, size |-> SizeOf(x.start)]]
  /\ live' = live \ {x}
  /\ UNCHANGED <<mem, free, want>>

\* Merge into the chunk, unlinking it, a neighbour that is free.
Merge(t, neighbour, start) ==
  /\ mem' = Unlinked(neighbour)
  /\ free' = UnlinkedHead(neighbour, SizeOf(neighbour))
  /\ chunk' = [chunk EXCEPT ![t] = [start |-> start, size |-> @.size + SizeOf(neighbour)]]

\* coalese_free_chunk_left()
CoaleseLeft(t) ==
  LET s == chunk[t].start
      l == s - SizeOf(s - 1)
  IN
  /\ Goto(t, "left", "right")
  /\ IF s > 0 /\ Free(s - 1) THEN Merge(t, l, l) ELSE UNCHANGED <<mem, free, chunk>>
  /\ UNCHANGED <<lock, want, live>>

\* CoaleseRight skipped.
CoaleseRight_Never(t) ==
  /\ Goto(t, "right", "insert")
  /\ UNCHANGED <<mem, free, chunk, lock, want, live>>

\* coalese_free_chunk_right()
CoaleseRight(t) ==
  LET r == chunk[t].start + chunk[t].size IN
  /\ Goto(t, "right", "insert")
  /\ IF r < Size /\ Free(r) THEN Merge(t, r, chunk[t].start) ELSE UNCHANGED <<mem, free, chunk>>
  /\ UNCHANGED <<lock, want, live>>

EndRelease(t) ==
  LET x == chunk[t] IN
  /\ pc[t] = "insert"
  /\ mem' = Inserted(x.start, x.size)
  /\ free' = [free EXCEPT ![Class(x.size)] = x.start]
  /\ lock' = IF Mode = 2 THEN Nobody ELSE lock
  /\ Done(t)
  /\ UNCHANGED live

\* reset(): the table empties its buckets at the same time.
Reset ==
  /\ \A t \in Threads : pc[t] = "idle"
  /\ mem' = [a \in Addr |-> IF a \in {0, Size - 1} THEN Tag(Size, "free")
                            ELSE IF a \in {1, 2} THEN Ptr(Null) ELSE mem[a]]
  /\ free' = [c \in Classes |-> IF c = Class(Size) THEN 0 ELSE Null]
  /\ live' = {}
  /\ UNCHANGED <<lock, pc, want, chunk>>

Next ==
  \/ \E t \in Threads :
       \/ \E n \in Lengths : Pick(t, n) \/ NoSpace(t, n)
       \/ Refused(t) \/ Unlink(t) \/ Split(t) \/ Mark(t)
       \/ \E x \in live : BeginRelease(t, x)
       \/ CoaleseLeft(t) \/ CoaleseRight(t) \/ EndRelease(t)
  \/ Reset

Spec == Init /\ [][Next]_vars

-----------------------------------------------------------------------------
Quiet == \A t \in Threads : pc[t] \in {"idle", "refused"}

\* The starts of the chunks, walking the tags from the left.
Starts ==
  LET Pos[k \in 0 .. MaxChunks] ==
        IF k = 0 THEN 0
        ELSE LET p == Pos[k - 1] IN IF p >= Size THEN p ELSE p + SizeOf(p)
  IN  { Pos[k] : k \in 0 .. MaxChunks }

FreeChunks == { c \in Starts : c < Size /\ Free(c) }
Listed(c) == LET nth == Chain(c) IN { nth[k] : k \in 0 .. MaxChunks } \ {Null}

\* Type correctness of the heads, the lock and the threads.
TypeOK ==
  /\ DOMAIN mem = Addr
  /\ free \in [Classes -> Addr \cup {Null}]
  /\ lock \in Threads \cup {Nobody}
  /\ pc \in [Threads -> {"idle", "refused", "unlink", "split", "mark", "left", "right", "insert"}]
  /\ want \in [Threads -> Lengths \cup {0}]
  /\ \A t \in Threads : chunk[t].start \in Addr /\ chunk[t].start + chunk[t].size <= Size

\* Between operations the chunks tile the pool exactly, each with the same
\* tag at both its ends, which is what lets release() find its neighbours, and
\* coalescing is complete: no free chunk has a free neighbour
\* (segregated_fit_impl.h:296-345, :377-384).
ChunksTile ==
  Quiet =>
    /\ Size \in Starts
    /\ \A c \in Starts \ {Size} : mem[c][1] = "tag" /\ mem[c + SizeOf(c) - 1] = mem[c]
    /\ \A c \in FreeChunks : c + SizeOf(c) \notin FreeChunks

\* The free lists hold the free chunks and nothing else, each chunk in the
\* list of its class and linked both ways.
FreeListsExact ==
  Quiet =>
    /\ UNION { Listed(c) : c \in Classes } = FreeChunks
    /\ \A c \in Classes : \A x \in Listed(c) :
         /\ Class(SizeOf(x)) = c
         /\ IF PrevOf(x) = Null THEN free[c] = x ELSE NextOf(PrevOf(x)) = x

\* The pool's own structures, whatever is handed out.
PoolSound == TypeOK /\ ChunksTile /\ FreeListsExact

\* The items handed out are occupied chunks with room for them: no two of them
\* overlap, and nothing the pool stores lies inside one.
ItemsApart ==
  \A x \in live :
    /\ mem[x.start + 1] = Len(x.n)
    /\ \A y \in live : x # y => (x.start + x.n + Overhead <= y.start
                                 \/ y.start + y.n + Overhead <= x.start)
    /\ Quiet => x.start \in Starts /\ ~Free(x.start) /\ SizeOf(x.start) >= x.n + Overhead

\* allocate() reports kInsufficientSpace only when no free chunk is large
\* enough, though it looks into a single class.
RefusesOnlyIfFull ==
  [][\A t \in Threads :
       (pc[t] = "idle" /\ pc'[t] = "refused" /\ Quiet) =>
         \A c \in FreeChunks : SizeOf(c) < want'[t] + Overhead]_vars
=============================================================================
