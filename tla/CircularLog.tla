----------------------------- MODULE CircularLog -----------------------------
(***************************************************************************)
(* The circular log pool of MICA (mica/pool/circular_log{,_impl}.h): an    *)
(* append-only ring of items that evicts from its head to make room at its *)
(* tail and never reports eviction.  A holder of an offset asks is_valid() *)
(* whether the bytes behind it are still those it was given for.           *)
(*                                                                         *)
(* Unit of length: one 8-byte word.  An allocation of size n occupies the  *)
(* words pos .. pos+n-1, the first being the log's own `size' header and   *)
(* the others the caller's payload.  head and tail are the code's 64-bit   *)
(* counters (unbounded here, capped by MaxTail); callers only see offsets  *)
(* reduced modulo OffsetMod (2^48 bytes in the code).                      *)
(*                                                                         *)
(* Writers are the threads that run LTable::set and move_to_head over the  *)
(* pool; Readers run LTable::get, which copies an item with no lock and    *)
(* asks is_valid() only afterwards.                                        *)
(***************************************************************************)
EXTENDS Integers, FiniteSets

CONSTANTS
  Writers,    \* threads that allocate
  Readers,    \* threads that copy items out without a lock
  Nobody,     \* the free pool lock
  Mode,       \* concurrent_access_mode_: 1 = one writer, 2 = many
  Size,       \* size_ in words
  OffsetMod,  \* kOffsetMask + 1 in words
  Sizes,      \* allocation sizes exercised, header included
  MaxTail     \* bound on the tail, for model checking only

ASSUME SizeAssumption ==
  /\ Size \in Nat \ {0}
  /\ OffsetMod \in Nat
  /\ OffsetMod >= 2 * Size                  \* size_ <= kOffsetMask >> 1
  /\ OffsetMod % Size = 0                   \* both are powers of two

\* The largest item (1 MB) is far below kMinimumSize (2 MB), so that an empty
\* log has room for any item and the header of its successor.
ASSUME ItemAssumption ==
  Sizes \subseteq { n \in Nat : 2 <= n /\ n + 1 <= Size }

ASSUME ModeAssumption ==
  /\ Mode \in {1, 2}
  /\ Nobody \notin Writers
  /\ Mode = 1 => \A v, w \in Writers : v = w

ASSUME BoundAssumption == MaxTail \in Nat

VARIABLES
  head, tail,  \* head_, tail_
  mem,         \* data_: word at each address, read as a number
  lock,        \* lock_: the writer inside, or Nobody
  pc,          \* where each writer is
  at, req,     \* position and size of the allocation each writer works on
  allocs,      \* ghost: every allocation a reference may still exist to
  items,       \* ghost: the allocations that were completely written
  rd           \* the readers

vars == <<head, tail, mem, lock, pc, at, req, allocs, items, rd>>

Addr == 0 .. Size - 1
Item == [pos : Nat, n : Sizes \cup {0}]

\* What get_item(offset) + j dereferences; the second mapping of the start of
\* the pool behind its end makes an item that crosses the end contiguous.
Word(offset, j) == (offset + j) % Size

Offset(x) == x.pos % OffsetMod
\* is_valid(): the offset is at most size_ bytes behind the tail.
IsValid(offset) == (tail - offset) % OffsetMod <= Size

\* The payload a writer stores names its item; no header can equal it.
Stamp(pos) == Size + 1 + pos

Intact(x) == \A j \in 1 .. x.n - 1 : mem[Word(Offset(x), j)] = Stamp(x.pos)

\* A reader: its item, the next word to copy, and (ghost) how many words it
\* copied that were not the item's.
Copy(p, x, j, f) == [pc |-> p, item |-> x, next |-> j, foreign |-> f]
IdleReader == Copy("idle", [pos |-> 0, n |-> 0], 1, 0)

Init ==
  /\ head = 0 /\ tail = 0
  /\ mem = [a \in Addr |-> 0]
  /\ lock = Nobody
  /\ pc = [w \in Writers |-> "idle"]
  /\ at = [w \in Writers |-> 0]
  /\ req = [w \in Writers |-> 0]
  /\ allocs = {} /\ items = {}
  /\ rd = [r \in Readers |-> IdleReader]

-----------------------------------------------------------------------------
(* Writers.                                                                *)

Goto(w, from, to) == pc[w] = from /\ pc' = [pc EXCEPT ![w] = to]

\* Only mode 2 takes the lock; mode 1 relies on there being one writer.
LockPool(w) ==
  /\ Goto(w, "idle", "locked")
  /\ Mode = 2 => lock = Nobody
  /\ lock' = IF Mode = 2 THEN w ELSE lock
  /\ UNCHANGED <<head, tail, mem, at, req, allocs, items, rd>>

Allocate(w, n) ==
  /\ Goto(w, "locked", "popping")
  /\ tail + n <= MaxTail
  /\ req' = [req EXCEPT ![w] = n]
  /\ UNCHANGED <<head, tail, mem, lock, at, allocs, items, rd>>

\* Fits with the log allowed to exceed its size by an item.
Fits_Overfull(w) == tail <= head + Size

\* Room for the item and for the header of the item after it.
Fits(w) == tail + 1 + req[w] <= head + Size

\* PopHead reading the header at the wrong end.
PopHead_AtTail(w) ==
  /\ pc[w] = "popping" /\ ~Fits(w)
  /\ head' = head + mem[tail % Size]
  /\ UNCHANGED <<tail, mem, lock, pc, at, req, allocs, items, rd>>

\* pop_head(): step over the item at the head, by the size its header holds.
PopHead(w) ==
  /\ pc[w] = "popping" /\ ~Fits(w)
  /\ head' = head + mem[head % Size]
  /\ UNCHANGED <<tail, mem, lock, pc, at, req, allocs, items, rd>>

\* PushHeader storing the payload too, before the tail has moved.
PushHeader_PayloadFirst(w) ==
  LET own == { Word(tail, j) : j \in 1 .. req[w] - 1 } IN
  /\ Fits(w)
  /\ Goto(w, "popping", "advancing")
  /\ mem' = [a \in Addr |-> IF a = tail % Size THEN req[w]
                            ELSE IF a \in own THEN Stamp(tail) ELSE mem[a]]
  /\ at' = [at EXCEPT ![w] = tail]
  /\ UNCHANGED <<head, tail, lock, req, allocs, items, rd>>

\* push_tail(): the header goes to the tail; tail_ itself moves next.
PushHeader(w) ==
  /\ Fits(w)
  /\ Goto(w, "popping", "advancing")
  /\ mem' = [mem EXCEPT ![tail % Size] = req[w]]
  /\ at' = [at EXCEPT ![w] = tail]
  /\ UNCHANGED <<head, tail, lock, req, allocs, items, rd>>

\* References older than OffsetMod words are gone by now: LTable sweeps its
\* buckets once per half turn of the offset space (cleanup_bucket).
Referable(x, t) == t - x.pos < OffsetMod

\* tail_ moves before the caller stores a single payload word.
AdvanceTail(w) ==
  LET t == tail + req[w] IN
  /\ Goto(w, "advancing", "writing")
  /\ \A r \in Readers : rd[r].pc # "idle" => Referable(rd[r].item, t)
  /\ tail' = t
  /\ allocs' = { x \in allocs : Referable(x, t) } \cup {[pos |-> at[w], n |-> req[w]]}
  /\ items' = { x \in items : Referable(x, t) }
  /\ UNCHANGED <<head, mem, lock, at, req, rd>>

\* CheckInPlace trusting the offset without asking is_valid().
CheckInPlace_Unchecked(w, x) ==
  /\ Goto(w, "locked", "writing")
  /\ x \in items
  /\ at' = [at EXCEPT ![w] = x.pos]
  /\ req' = [req EXCEPT ![w] = x.n]
  /\ UNCHANGED <<head, tail, mem, lock, allocs, items, rd>>

\* LTable::set on an existing item that is large enough: the test and the
\* write happen under the same lock.
CheckInPlace(w, x) ==
  /\ Goto(w, "locked", "writing")
  /\ x \in items
  /\ IsValid(Offset(x))
  /\ at' = [at EXCEPT ![w] = x.pos]
  /\ req' = [req EXCEPT ![w] = x.n]
  /\ UNCHANGED <<head, tail, mem, lock, allocs, items, rd>>

\* set_item() or set_item_value(): the caller stores its payload.
WriteItem(w) ==
  LET target == { Word(at[w] % OffsetMod, j) : j \in 1 .. req[w] - 1 } IN
  /\ Goto(w, "writing", "written")
  /\ mem' = [a \in Addr |-> IF a \in target THEN Stamp(at[w]) ELSE mem[a]]
  /\ UNCHANGED <<head, tail, lock, at, req, allocs, items, rd>>

Unlock(w) == lock' = IF Mode = 2 THEN Nobody ELSE lock

\* The caller's locals are gone.
Return(w) == at' = [at EXCEPT ![w] = 0] /\ req' = [req EXCEPT ![w] = 0]

\* The item can be referred to from now on.
Publish(w) ==
  /\ Goto(w, "written", "idle")
  /\ Unlock(w)
  /\ items' = items \cup {[pos |-> at[w], n |-> req[w]]}
  /\ Return(w)
  /\ UNCHANGED <<head, tail, mem, allocs, rd>>

\* move_to_head() allocates, finds the source item gone, and writes nothing;
\* set() finds nothing to do in place and has not allocated yet.
Abandon(w) ==
  /\ pc[w] \in {"locked", "writing"}
  /\ pc' = [pc EXCEPT ![w] = "idle"]
  /\ Unlock(w)
  /\ Return(w)
  /\ UNCHANGED <<head, tail, mem, allocs, items, rd>>

\* reset(): only while nobody uses the pool; LTable::reset() empties its
\* buckets at the same time, so no reference survives.
Reset ==
  /\ \A w \in Writers : pc[w] = "idle"
  /\ \A r \in Readers : rd[r].pc = "idle"
  /\ head' = 0 /\ tail' = 0
  /\ allocs' = {} /\ items' = {}
  /\ UNCHANGED <<mem, lock, pc, at, req, rd>>

-----------------------------------------------------------------------------
(* Readers: LTable::get() copies the item, then asks is_valid().           *)

BeginRead(r, x) ==
  /\ rd[r].pc = "idle"
  /\ x \in items
  /\ rd' = [rd EXCEPT ![r] = Copy("copying", x, 1, 0)]
  /\ UNCHANGED <<head, tail, mem, lock, pc, at, req, allocs, items>>

\* CopyWord that does not stop at the end of the item.
CopyWord_NoEnd(r) ==
  LET x == rd[r].item
      j == rd[r].next
      miss == IF mem[Word(Offset(x), j)] = Stamp(x.pos) THEN 0 ELSE 1
  IN
  /\ rd[r].pc = "copying"
  /\ rd' = [rd EXCEPT ![r] = Copy("copying", x, j + 1, rd[r].foreign + miss)]
  /\ UNCHANGED <<head, tail, mem, lock, pc, at, req, allocs, items>>

CopyWord(r) ==
  LET x == rd[r].item
      j == rd[r].next
      miss == IF mem[Word(Offset(x), j)] = Stamp(x.pos) THEN 0 ELSE 1
  IN
  /\ rd[r].pc = "copying" /\ j < x.n
  /\ rd' = [rd EXCEPT ![r] = Copy("copying", x, j + 1, rd[r].foreign + miss)]
  /\ UNCHANGED <<head, tail, mem, lock, pc, at, req, allocs, items>>

Validate(r) ==
  LET x == rd[r].item
      verdict == IF IsValid(Offset(x)) THEN "accepted" ELSE "rejected"
  IN
  /\ rd[r].pc = "copying" /\ rd[r].next = x.n
  /\ rd' = [rd EXCEPT ![r] = Copy(verdict, x, x.n, rd[r].foreign)]
  /\ UNCHANGED <<head, tail, mem, lock, pc, at, req, allocs, items>>

EndRead(r) ==
  /\ rd[r].pc \in {"accepted", "rejected"}
  /\ rd' = [rd EXCEPT ![r] = IdleReader]
  /\ UNCHANGED <<head, tail, mem, lock, pc, at, req, allocs, items>>

-----------------------------------------------------------------------------
Write(w) ==
  \/ LockPool(w)
  \/ \E n \in Sizes : Allocate(w, n)
  \/ PopHead(w)
  \/ PushHeader(w)
  \/ AdvanceTail(w)
  \/ \E x \in items : CheckInPlace(w, x)
  \/ WriteItem(w)
  \/ Publish(w)
  \/ Abandon(w)

Read(r) ==
  \/ \E x \in items : BeginRead(r, x)
  \/ CopyWord(r)
  \/ Validate(r)
  \/ EndRead(r)

Next ==
  \/ \E w \in Writers : Write(w)
  \/ \E r \in Readers : Read(r)
  \/ Reset

Spec == Init /\ [][Next]_vars

\* A thread inside allocate() keeps running; nothing is assumed of the lock.
Fairness == \A w \in Writers : WF_vars(PopHead(w)) /\ WF_vars(PushHeader(w))

FairSpec == Spec /\ Fairness

-----------------------------------------------------------------------------
(* Type correctness of the counters, the memory, the lock and the threads. *)
TypeOK ==
  /\ head \in Nat /\ tail \in Nat
  /\ mem \in [Addr -> Nat]
  /\ lock \in Writers \cup {Nobody}
  /\ pc \in [Writers -> {"idle", "locked", "popping", "advancing", "writing", "written"}]
  /\ at \in [Writers -> Nat]
  /\ req \in [Writers -> Sizes \cup {0}]
  /\ allocs \subseteq Item /\ items \subseteq Item
  /\ rd \in [Readers -> [pc : {"idle", "copying", "accepted", "rejected"},
                         item : Item, next : 1 .. Size, foreign : Nat]]

\* check_invariants(): the unsigned difference tail_ - head_ is at most size_,
\* after any number of pops whose step is whatever the popped header holds.
Bounded == head <= tail /\ tail - head <= Size

\* Every header pop_head() may come to read is the one push_tail() stored:
\* the items from head to tail tile the log with no gap, whatever payload was
\* stored in between and wherever the log wrapped.
Tiled ==
  /\ head = tail \/ \E x \in allocs : x.pos = head
  /\ \A x \in allocs :
       x.pos >= head =>
         /\ mem[x.pos % Size] = x.n
         /\ \/ x.pos + x.n = tail
            \/ \E y \in allocs : y.pos = x.pos + x.n

\* is_valid() keeps its word: an offset it accepts still has behind it every
\* payload word stored for that item, including the words of items popped from
\* the head but not yet overwritten.
ValidIntact == \A x \in items : IsValid(Offset(x)) => Intact(x)

\* A reader that copies first and validates afterwards never accepts a copy
\* with a word of another item in it, whatever the writers did meanwhile.
ReadIntact == \A r \in Readers : rd[r].pc = "accepted" => rd[r].foreign = 0

\* allocate() comes to an end: the loop that pops the head always finds room.
AllocateEnds == \A w \in Writers : pc[w] = "popping" ~> pc[w] # "popping"
=============================================================================
