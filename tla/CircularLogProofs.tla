-------------------------- MODULE CircularLogProofs --------------------------
(***************************************************************************)
(* Theorems about CircularLog, for every number of threads, log size,      *)
(* offset width and set of item sizes that the module's assumptions allow. *)
(***************************************************************************)
EXTENDS CircularLog, TLAPS

-----------------------------------------------------------------------------
(* Remainders.                                                             *)

\* The defining equation of quotient and remainder: where a ring counter is.
LEMMA ModDef ==
  ASSUME NEW a \in Int, NEW M \in Nat \ {0}
  PROVE  /\ a % M \in 0 .. M - 1
         /\ a \div M \in Int
         /\ a = (M * (a \div M)) + (a % M)
BY SMT

\* A positive multiple of the ring size is at least one turn of the ring.
LEMMA OneTurn ==
  ASSUME NEW k \in Int, NEW M \in Nat \ {0}, k >= 1
  PROVE  M * k >= M
BY SMT

\* Two numbers whose difference is less than one turn and a whole number of
\* turns are equal.
LEMMA NoTurn ==
  ASSUME NEW k \in Int, NEW M \in Nat \ {0}, -M < M * k, M * k < M
  PROVE  k = 0
<1>1. CASE k >= 1
  BY <1>1, OneTurn
<1>2. CASE -k >= 1
  <2>1. M * (-k) >= M
    BY <1>2, OneTurn
  <2>2. M * (-k) = -(M * k)
    OBVIOUS
  <2> QED
    BY <2>1, <2>2
<1> QED
  BY <1>1, <1>2

\* Counters less than one turn apart are at different addresses.
LEMMA ModDistinct ==
  ASSUME NEW a \in Int, NEW b \in Int, NEW M \in Nat \ {0}, a < b, b - a < M
  PROVE  a % M # b % M
<1> SUFFICES ASSUME a % M = b % M PROVE FALSE
  OBVIOUS
<1> DEFINE k == (b \div M) - (a \div M)
<1>1. /\ a \div M \in Int /\ b \div M \in Int
      /\ a = (M * (a \div M)) + (a % M)
      /\ b = (M * (b \div M)) + (b % M)
      /\ a % M \in 0 .. M - 1
  BY ModDef
<1>2. k \in Int /\ M * k = b - a
  BY <1>1
<1> HIDE DEF k
<1>3. k = 0
  BY <1>2, NoTurn
<1> QED
  BY <1>2, <1>3

\* d is a whole number of turns of a ring of M cells.
Turns(M, d) == \E k \in Int : d = M * k

\* Counters a whole number of turns apart are at the same address.
LEMMA ModEqual ==
  ASSUME NEW a \in Int, NEW b \in Int, NEW M \in Nat \ {0}, Turns(M, a - b)
  PROVE  a % M = b % M
<1>1. PICK k \in Int : a - b = M * k
  BY DEF Turns
<1> DEFINE p == a \div M
           q == b \div M
           r == a % M
           s == b % M
           n == k - (p - q)
<1>2. p \in Int /\ r \in 0 .. M - 1 /\ a = (M * p) + r
  BY ModDef
<1>3. q \in Int /\ s \in 0 .. M - 1 /\ b = (M * q) + s
  BY ModDef
<1> HIDE DEF p, q, r, s
<1>4. n \in Int /\ M * n = r - s
  BY <1>1, <1>2, <1>3
<1> HIDE DEF n
<1>5. n = 0
  BY <1>2, <1>3, <1>4, NoTurn
<1> QED
  BY <1>2, <1>3, <1>4, <1>5 DEF r, s

\* A counter that has not gone round once is its own address.
LEMMA ModSmall ==
  ASSUME NEW M \in Nat \ {0}, NEW a \in 0 .. M - 1
  PROVE  a % M = a
BY SMT

\* Masking an offset takes away whole turns of the ring, when the offset space
\* is a whole number of rings (2^48 and size_).
LEMMA MaskTurns ==
  ASSUME NEW a \in Int, NEW M \in Nat \ {0}, NEW W \in Nat \ {0}, W % M = 0
  PROVE  Turns(M, a - (a % W))
<1> DEFINE q == a \div W
           t == W \div M
           tq == t * q
<1>1. a = (W * q) + (a % W) /\ q \in Int /\ a % W \in Int
  BY ModDef
<1>2. W = M * t /\ t \in Int
  <2>1. W \in Int
    OBVIOUS
  <2> QED
    BY <2>1, ModDef
<1>3. a - (a % W) = W * q
  BY <1>1
<1>4. W * q = M * tq /\ tq \in Int
  <2> HIDE DEF q, t
  <2> QED
    BY <1>1, <1>2
<1> HIDE DEF q, tq
<1> QED
  BY <1>3, <1>4 DEF Turns

\* The distance computed from a masked offset is the real distance, as long
\* as it is less than the offset space.
LEMMA ModDistance ==
  ASSUME NEW a \in Int, NEW b \in Int, NEW W \in Nat \ {0}, a <= b, b - a < W
  PROVE  (b - (a % W)) % W = b - a
<1> DEFINE q == a \div W
           s == a % W
           c == b - s
           r == b - a
<1>1. a = (W * q) + s /\ q \in Int /\ s \in Int
  BY ModDef
<1>2. c \in Int /\ r \in Int /\ r \in 0 .. W - 1
  BY <1>1
<1>3. Turns(W, c - r)
  <2>1. c - r = W * q
    <3> HIDE DEF q, s
    <3> QED
      BY <1>1
  <2> HIDE DEF q, c, r
  <2> QED
    BY <1>1, <2>1 DEF Turns
<1> HIDE DEF c, r
<1>4. c % W = r % W
  BY <1>2, <1>3, ModEqual
<1>5. r % W = r
  BY <1>2, ModSmall
<1> QED
  BY <1>4, <1>5 DEF c, r

-----------------------------------------------------------------------------
(* The inductive invariant.                                                *)

\* One writer at most is inside the pool.
Mutex ==
  /\ \A v, w \in Writers : pc[v] # "idle" /\ pc[w] # "idle" => v = w
  /\ Mode = 2 => \A w \in Writers : pc[w] # "idle" => lock = w

\* Allocations lie before the tail, less than an offset turn away, and do not
\* overlap.
Layout ==
  /\ \A x \in allocs : x.n \in Sizes /\ x.pos + x.n <= tail /\ Referable(x, tail)
  /\ \A x, y \in allocs : x = y \/ x.pos + x.n <= y.pos \/ y.pos + y.n <= x.pos
  /\ items \subseteq allocs

Current(w) == [pos |-> at[w], n |-> req[w]]

\* What the writer inside knows at each step.
Working ==
  \A w \in Writers :
    /\ pc[w] \in {"popping", "advancing"} => req[w] \in Sizes
    /\ pc[w] = "advancing" => at[w] = tail /\ Fits(w) /\ mem[tail % Size] = req[w]
    /\ pc[w] \in {"writing", "written"} => Current(w) \in allocs /\ tail - at[w] <= Size
    /\ pc[w] = "written" => Intact(Current(w))

\* Items less than one turn behind the tail are as they were written.
Payload == \A x \in items : tail - x.pos <= Size => Intact(x)

\* A reader's copy is clean, or the item is already out of the window.
Copies ==
  \A r \in Readers :
    /\ rd[r].pc # "idle" =>
         /\ rd[r].item \in items
         /\ rd[r].next \in 1 .. rd[r].item.n
         /\ rd[r].foreign = 0 \/ tail - rd[r].item.pos > Size
    /\ rd[r].pc = "accepted" => rd[r].foreign = 0

IInv == TypeOK /\ Mutex /\ Bounded /\ Tiled /\ Layout /\ Working /\ Payload /\ Copies

-----------------------------------------------------------------------------
(* Sizes are numbers that leave room for a header.                         *)

LEMMA SmallSizes == \A n \in Sizes \cup {0} : n \in Nat /\ n + 1 <= Size
BY ItemAssumption, SizeAssumption

LEMMA ItemNumbers ==
  \A x \in Item : /\ x.pos \in Nat /\ x.n \in Nat /\ x.n + 1 <= Size
                  /\ x = [pos |-> x.pos, n |-> x.n]
BY SmallSizes DEF Item

-----------------------------------------------------------------------------
(* Arithmetic of the ring.                                                 *)

\* A masked offset leads to the address of the unmasked position.
LEMMA WordAddress ==
  ASSUME NEW pos \in Nat, NEW j \in Nat
  PROVE  /\ Word(pos % OffsetMod, j) = (pos + j) % Size
         /\ (pos + j) % Size \in Addr
<1> DEFINE M == Size
           W == OffsetMod
<1>1. M \in Nat \ {0} /\ W \in Nat \ {0} /\ W % M = 0
  BY SizeAssumption
<1>2. pos \in Int /\ j \in Int /\ pos + j \in Int
  OBVIOUS
<1> HIDE DEF M, W
<1>3. ((pos % W) + j) % M = (pos + j) % M
  <2> DEFINE o == pos % W
             y == pos + j
             z == o + j
  <2>1. o \in Int
    BY <1>1, <1>2, ModDef
  <2>4. Turns(M, pos - o)
    BY <1>1, <1>2, MaskTurns, Zenon
  <2>2. y \in Int /\ z \in Int /\ y - z = pos - o
    BY <1>2, <2>1
  <2> HIDE DEF o, y, z
  <2>3. y % M = z % M
    BY <1>1, <2>2, <2>4, ModEqual
  <2> QED
    BY <2>3 DEF o, y, z
<1>4. (pos + j) % M \in 0 .. M - 1
  BY <1>1, <1>2, ModDef
<1> QED
  BY <1>3, <1>4 DEF Word, Addr, M, W

\* Words of the last Size positions have addresses of their own.
LEMMA Apart ==
  ASSUME NEW p \in Nat, NEW q \in Nat, p # q, p - q < Size, q - p < Size
  PROVE  p % Size # q % Size
<1>1. Size \in Nat \ {0} /\ p \in Int /\ q \in Int
  BY SizeAssumption
<1>2. CASE p < q
  BY <1>1, <1>2, ModDistinct
<1>3. CASE q < p
  BY <1>1, <1>3, ModDistinct
<1> QED
  BY <1>2, <1>3

\* is_valid() computes the distance from the tail, for any offset that the
\* offset space still tells apart.
LEMMA ValidIsNear ==
  ASSUME TypeOK, NEW x \in Item, x.pos <= tail, Referable(x, tail)
  PROVE  IsValid(Offset(x)) <=> tail - x.pos <= Size
<1>1. x.pos \in Int /\ tail \in Int /\ OffsetMod \in Nat \ {0}
  BY SizeAssumption DEF TypeOK, Item
<1>2. tail - x.pos < OffsetMod
  BY DEF Referable
<1>3. (tail - (x.pos % OffsetMod)) % OffsetMod = tail - x.pos
  BY <1>1, <1>2, ModDistance
<1> QED
  BY <1>3 DEF IsValid, Offset

-----------------------------------------------------------------------------
(* Type correctness.                                                       *)

\* Every step keeps the types: in particular a popped header is always a
\* number, whatever was stored where it is read.
LEMMA TypeStep == TypeOK /\ [Next]_vars => TypeOK'
<1> SUFFICES ASSUME TypeOK, [Next]_vars PROVE TypeOK'
  OBVIOUS
<1> USE DEF TypeOK
<1>1. ASSUME NEW w \in Writers, LockPool(w) PROVE TypeOK'
  BY <1>1 DEF LockPool, Goto
<1>2. ASSUME NEW w \in Writers, NEW n \in Sizes, Allocate(w, n) PROVE TypeOK'
  BY <1>2, ItemAssumption DEF Allocate, Goto
<1>3. ASSUME NEW w \in Writers, PopHead(w) PROVE TypeOK'
  <2>1. head % Size \in Addr
    BY SizeAssumption DEF Addr
  <2> QED
    BY <1>3, <2>1 DEF PopHead
<1>4. ASSUME NEW w \in Writers, PushHeader(w) PROVE TypeOK'
  BY <1>4, SmallSizes DEF PushHeader, Goto
<1>5. ASSUME NEW w \in Writers, AdvanceTail(w) PROVE TypeOK'
  <2>1. [pos |-> at[w], n |-> req[w]] \in Item
    BY DEF Item
  <2>2. tail' \in Nat
    BY <1>5, SmallSizes DEF AdvanceTail
  <2>3. allocs' \subseteq Item /\ items' \subseteq Item
    BY <1>5, <2>1 DEF AdvanceTail
  <2> QED
    BY <1>5, <2>2, <2>3 DEF AdvanceTail, Goto
<1>6. ASSUME NEW w \in Writers, NEW x \in items, CheckInPlace(w, x) PROVE TypeOK'
  BY <1>6 DEF CheckInPlace, Goto, Item
<1>7. ASSUME NEW w \in Writers, WriteItem(w) PROVE TypeOK'
  BY <1>7, SizeAssumption DEF WriteItem, Goto, Stamp
<1>8. ASSUME NEW w \in Writers, Publish(w) PROVE TypeOK'
  BY <1>8 DEF Publish, Goto, Unlock, Return, Item
<1>9. ASSUME NEW w \in Writers, Abandon(w) PROVE TypeOK'
  BY <1>9 DEF Abandon, Unlock, Return
<1>10. ASSUME NEW r \in Readers, NEW x \in items, BeginRead(r, x) PROVE TypeOK'
  BY <1>10, SizeAssumption DEF BeginRead, Copy
<1>11. ASSUME NEW r \in Readers, CopyWord(r) PROVE TypeOK'
  BY <1>11, ItemNumbers, SizeAssumption DEF CopyWord, Copy
<1>12. ASSUME NEW r \in Readers, Validate(r) PROVE TypeOK'
  BY <1>12 DEF Validate, Copy
<1>13. ASSUME NEW r \in Readers, EndRead(r) PROVE TypeOK'
  <2>1. [pos |-> 0, n |-> 0] \in Item
    BY DEF Item
  <2> QED
    BY <1>13, <2>1, SizeAssumption DEF EndRead, IdleReader, Copy
<1>14. CASE Reset
  BY <1>14 DEF Reset
<1>15. CASE UNCHANGED vars
  BY <1>15 DEF vars
<1> QED
  BY <1>1, <1>2, <1>3, <1>4, <1>5, <1>6, <1>7, <1>8, <1>9, <1>10, <1>11,
     <1>12, <1>13, <1>14, <1>15 DEF Next, Write, Read

\* Type correctness: TypeOK holds in every reachable state.
THEOREM TypeCorrect == Spec => []TypeOK
<1>1. Init => TypeOK
  <2>1. [pos |-> 0, n |-> 0] \in Item
    BY DEF Item
  <2> QED
    BY <2>1, SizeAssumption DEF Init, TypeOK, IdleReader, Copy
<1> QED
  BY <1>1, TypeStep, PTL DEF Spec

-----------------------------------------------------------------------------
(* What the two writes to the memory change.                               *)

\* The positions of the last Size words, the ones whose bytes still count.
Window == { p \in Nat : tail - Size <= p /\ p < tail }

\* Intact, with the offset unmasked.
LEMMA IntactWords ==
  ASSUME NEW x \in Item
  PROVE  /\ Intact(x) <=> \A j \in 1 .. x.n - 1 : mem[(x.pos + j) % Size] = Stamp(x.pos)
         /\ Intact(x)' <=> \A j \in 1 .. x.n - 1 : mem'[(x.pos + j) % Size] = Stamp(x.pos)
<1>1. x.pos \in Nat /\ x.n \in Nat
  BY ItemNumbers DEF Item
<1>2. ASSUME NEW j \in 1 .. x.n - 1
      PROVE  Word(Offset(x), j) = (x.pos + j) % Size
  <2>1. j \in Nat
    BY <1>1
  <2> QED
    BY <1>1, <2>1, WordAddress, Zenon DEF Offset
<1> QED
  BY <1>2 DEF Intact

\* push_tail() stores its header where no word of the window is, except the
\* oldest one, which is only ever the header of an evicted item.
LEMMA PushEffect ==
  ASSUME TypeOK, NEW w \in Writers, PushHeader(w)
  PROVE  /\ mem'[tail % Size] = req[w]
         /\ \A p \in Window : p # tail - Size => mem'[p % Size] = mem[p % Size]
<1>1. tail \in Nat /\ tail % Size \in Addr
  <2>1. tail \in Nat
    BY DEF TypeOK
  <2> QED
    BY <2>1, SizeAssumption, ModDef DEF Addr
<1>2. mem \in [Addr -> Nat] /\ mem' = [mem EXCEPT ![tail % Size] = req[w]]
  BY DEF TypeOK, PushHeader
<1>3. ASSUME NEW p \in Window, p # tail - Size
      PROVE  mem'[p % Size] = mem[p % Size]
  <2>1. p \in Nat /\ p # tail /\ p - tail < Size /\ tail - p < Size
    BY <1>1, <1>3, SizeAssumption DEF Window
  <2>2. p % Size # tail % Size
    BY <1>1, <2>1, Apart
  <2>3. p % Size \in Addr
    BY <2>1, SizeAssumption, ModDef DEF Addr
  <2> QED
    BY <1>2, <2>2, <2>3
<1> QED
  BY <1>1, <1>2, <1>3

\* Storing a payload changes the words of that payload and no other word of
\* the window.
LEMMA WriteEffect ==
  ASSUME TypeOK, Layout, Working, NEW w \in Writers, WriteItem(w)
  PROVE  /\ \A j \in 1 .. req[w] - 1 : mem'[(at[w] + j) % Size] = Stamp(at[w])
         /\ \A p \in Window :
              (\A j \in 1 .. req[w] - 1 : p # at[w] + j) => mem'[p % Size] = mem[p % Size]
<1> DEFINE target == { Word(at[w] % OffsetMod, j) : j \in 1 .. req[w] - 1 }
<1>1. /\ at[w] \in Nat /\ req[w] \in Nat /\ tail \in Nat
      /\ at[w] + req[w] <= tail /\ tail - at[w] <= Size
  BY SmallSizes DEF TypeOK, Layout, Working, WriteItem, Goto, Current
<1>2. mem' = [a \in Addr |-> IF a \in target THEN Stamp(at[w]) ELSE mem[a]]
  BY DEF WriteItem
<1>3. ASSUME NEW j \in 1 .. req[w] - 1
      PROVE  Word(at[w] % OffsetMod, j) = (at[w] + j) % Size /\ (at[w] + j) % Size \in Addr
  <2>1. j \in Nat
    BY <1>1
  <2> QED
    BY <1>1, <2>1, WordAddress, Zenon
<1>4. ASSUME NEW p \in Window, \A j \in 1 .. req[w] - 1 : p # at[w] + j
      PROVE  p % Size \in Addr /\ p % Size \notin target
  <2>1. p \in Nat
    BY DEF Window
  <2>2. p % Size \in Addr
    BY <2>1, SizeAssumption, ModDef DEF Addr
  <2>3. ASSUME NEW j \in 1 .. req[w] - 1
        PROVE  p % Size # (at[w] + j) % Size
    <3>1. /\ at[w] + j \in Nat /\ p # at[w] + j
          /\ p - (at[w] + j) < Size /\ (at[w] + j) - p < Size
      BY <1>1, <1>4, <2>3, SizeAssumption DEF Window
    <3> DEFINE q == at[w] + j
    <3> HIDE DEF q
    <3>2. p % Size # q % Size
      BY <2>1, <3>1, Apart DEF q
    <3> QED
      BY <3>2 DEF q
  <2> QED
    BY <1>3, <2>2, <2>3
<1>5. \A j \in 1 .. req[w] - 1 : (at[w] + j) % Size \in target
  BY <1>3
<1> HIDE DEF target
<1> QED
  BY <1>2, <1>3, <1>4, <1>5

-----------------------------------------------------------------------------
(* The invariant is inductive: one lemma per action that touches the log.  *)

\* Every allocation is a whole number of words, inside the log.
LEMMA AllocFacts ==
  ASSUME IInv, NEW x \in allocs
  PROVE  /\ x \in Item /\ x.pos \in Nat /\ x.n \in Nat /\ x.n >= 2 /\ x.n + 1 <= Size
         /\ x.pos + x.n <= tail /\ x.pos < tail
         /\ x = [pos |-> x.pos, n |-> x.n]
BY ItemNumbers, ItemAssumption DEF IInv, TypeOK, Layout, Item

\* pop_head() moves from one item to the next: it reads a header that
\* push_tail() stored, and never runs past the tail.
LEMMA PopStep ==
  ASSUME IInv, NEW w \in Writers, PopHead(w), TypeOK'
  PROVE  IInv'
<1>1. /\ head \in Nat /\ tail \in Nat /\ req[w] \in Nat /\ req[w] + 1 <= Size
      /\ Size \in Nat /\ head + Size < tail + 1 + req[w]
  BY SmallSizes, SizeAssumption DEF IInv, TypeOK, Working, PopHead, Fits
<1>2. head # tail
  BY <1>1
<1>3. PICK x \in allocs : x.pos = head
  BY <1>2 DEF IInv, Tiled
<1>4. head' = head + x.n
  BY <1>3 DEF PopHead, IInv, Tiled, TypeOK
<1>5. x.pos + x.n <= tail /\ x.n \in Nat
  BY AllocFacts
<1>6. head' <= tail /\ head <= head' /\ head' \in Nat
  BY <1>1, <1>3, <1>4, <1>5
<1>7. Bounded'
  BY <1>1, <1>6 DEF PopHead, Bounded, IInv
<1>8. Tiled'
  <2>1. head' = tail \/ \E y \in allocs : y.pos = head'
    BY <1>1, <1>3, <1>4 DEF IInv, Tiled
  <2>2. \A y \in allocs : y.pos >= head' => y.pos >= head
    <3>1. \A y \in allocs : y.pos \in Nat
      BY AllocFacts
    <3> QED
      BY <1>1, <1>6, <3>1
  <2> QED
    BY <2>1, <2>2 DEF PopHead, IInv, Tiled
<1>9. Working'
  <2>1. \A v \in Writers : pc[v] # "advancing"
    BY DEF IInv, Mutex, PopHead
  <2>2. \A v \in Writers : Intact(Current(v))' <=> Intact(Current(v))
    BY DEF PopHead, Intact, Current
  <2> QED
    BY <2>1, <2>2 DEF PopHead, IInv, Working, Current
<1>10. Mutex' /\ Layout' /\ Payload' /\ Copies'
  BY DEF PopHead, IInv, Mutex, Layout, Payload, Copies, Referable, Intact
<1> QED
  BY <1>7, <1>8, <1>9, <1>10 DEF IInv

\* push_tail() stores its header without touching the header of an item that
\* is still in the log, nor any payload that is_valid() still vouches for.
LEMMA PushStep ==
  ASSUME IInv, NEW w \in Writers, PushHeader(w), TypeOK'
  PROVE  IInv'
<1>1. /\ head \in Nat /\ tail \in Nat /\ Size \in Nat \ {0} /\ req[w] \in Nat
      /\ req[w] >= 2 /\ tail + 1 + req[w] <= head + Size
  BY SmallSizes, ItemAssumption, SizeAssumption DEF IInv, TypeOK, Working, PushHeader, Goto, Fits
<1>2. /\ mem'[tail % Size] = req[w]
      /\ \A p \in Window : p # tail - Size => mem'[p % Size] = mem[p % Size]
  BY PushEffect DEF IInv
<1>3. \A x \in allocs : x.pos >= head => mem'[x.pos % Size] = mem[x.pos % Size]
  <2> SUFFICES ASSUME NEW x \in allocs, x.pos >= head
               PROVE  mem'[x.pos % Size] = mem[x.pos % Size]
    OBVIOUS
  <2>1. x.pos \in Window /\ x.pos # tail - Size
    BY <1>1, AllocFacts DEF Window
  <2> QED
    BY <1>2, <2>1
<1>4. Tiled'
  BY <1>3 DEF PushHeader, IInv, Tiled
<1>5. ASSUME NEW x \in items, tail - x.pos <= Size
      PROVE  Intact(x)'
  <2>1. x \in allocs /\ Intact(x)
    BY <1>5 DEF IInv, Layout, Payload
  <2>2. x \in Item /\ x.pos \in Nat /\ x.n \in Nat /\ x.pos + x.n <= tail
    BY <2>1, AllocFacts
  <2>3. ASSUME NEW j \in 1 .. x.n - 1
        PROVE  mem'[(x.pos + j) % Size] = mem[(x.pos + j) % Size]
    <3> DEFINE p == x.pos + j
    <3>1. p \in Window /\ p # tail - Size
      BY <1>1, <1>5, <2>2 DEF Window
    <3> HIDE DEF p
    <3>2. mem'[p % Size] = mem[p % Size]
      BY <1>2, <3>1
    <3> QED
      BY <3>2 DEF p
  <2> QED
    BY <2>1, <2>2, <2>3, IntactWords
<1>6. Payload'
  BY <1>5 DEF PushHeader, Payload
<1>7. Working'
  <2> SUFFICES ASSUME NEW v \in Writers
               PROVE  /\ pc'[v] \in {"popping", "advancing"} => req'[v] \in Sizes
                      /\ pc'[v] = "advancing" =>
                           at'[v] = tail' /\ Fits(v)' /\ mem'[tail' % Size] = req'[v]
                      /\ pc'[v] \in {"writing", "written"} =>
                           Current(v)' \in allocs' /\ tail' - at'[v] <= Size
                      /\ pc'[v] = "written" => Intact(Current(v))'
    BY DEF Working
  <2>1. CASE v = w
    BY <1>1, <1>2, <2>1 DEF PushHeader, Goto, IInv, TypeOK, Working, Fits
  <2>2. CASE v # w
    BY <2>2 DEF PushHeader, Goto, IInv, TypeOK, Mutex
  <2> QED
    BY <2>1, <2>2
<1>8. Mutex'
  BY DEF PushHeader, Goto, IInv, TypeOK, Mutex
<1>9. Layout' /\ Bounded' /\ Copies'
  BY DEF PushHeader, IInv, Layout, Bounded, Copies, Referable
<1> QED
  BY <1>4, <1>6, <1>7, <1>8, <1>9 DEF IInv

\* Advancing the tail keeps the items in the log one after the other, and
\* drops only references that no live item needs.
LEMMA AdvanceStep ==
  ASSUME IInv, NEW w \in Writers, AdvanceTail(w), TypeOK'
  PROVE  IInv'
<1> DEFINE new == [pos |-> at[w], n |-> req[w]]
<1>1. /\ head \in Nat /\ tail \in Nat /\ Size \in Nat \ {0} /\ OffsetMod \in Nat
      /\ OffsetMod >= 2 * Size /\ req[w] \in Nat /\ req[w] >= 2 /\ req[w] \in Sizes
      /\ tail + 1 + req[w] <= head + Size /\ head <= tail
      /\ at[w] = tail /\ mem[tail % Size] = req[w]
  BY ItemAssumption, SizeAssumption
     DEF IInv, TypeOK, Working, AdvanceTail, Goto, Fits, Bounded
<1>2. /\ tail' = tail + req[w] /\ head' = head /\ mem' = mem
      /\ allocs' = { x \in allocs : Referable(x, tail') } \cup {new}
      /\ items' = { x \in items : Referable(x, tail') }
      /\ pc' = [pc EXCEPT ![w] = "writing"] /\ rd' = rd /\ lock' = lock
      /\ at' = at /\ req' = req /\ pc[w] = "advancing"
      /\ \A r \in Readers : rd[r].pc # "idle" => Referable(rd[r].item, tail')
  BY DEF AdvanceTail, Goto
<1>3. new \in allocs' /\ new.pos = tail /\ new.n = req[w] /\ new.pos + new.n = tail'
  BY <1>1, <1>2
<1> HIDE DEF new
<1>4. \A x \in allocs : x.pos >= head => x \in allocs'
  <2> SUFFICES ASSUME NEW x \in allocs, x.pos >= head PROVE Referable(x, tail')
    BY <1>2
  <2>1. x.pos \in Nat
    BY AllocFacts
  <2> QED
    BY <1>1, <1>2, <2>1 DEF Referable
<1>5. \A x \in allocs' : x = new \/ (x \in allocs /\ x.pos + x.n <= tail)
  BY <1>2, AllocFacts
<1>6. Bounded'
  BY <1>1, <1>2 DEF Bounded
<1>7. Tiled'
  <2>1. head = tail' \/ \E x \in allocs' : x.pos = head
    <3>1. CASE head = tail
      BY <1>3, <3>1
    <3>2. CASE \E x \in allocs : x.pos = head
      BY <1>1, <1>4, <3>2
    <3> QED
      BY <3>1, <3>2 DEF IInv, Tiled
  <2>2. ASSUME NEW x \in allocs', x.pos >= head
        PROVE  /\ mem[x.pos % Size] = x.n
               /\ x.pos + x.n = tail' \/ \E y \in allocs' : y.pos = x.pos + x.n
    <3>1. CASE x = new
      BY <1>1, <1>3, <3>1
    <3>2. CASE x \in allocs
      <4>1. /\ mem[x.pos % Size] = x.n
            /\ x.pos + x.n = tail \/ \E y \in allocs : y.pos = x.pos + x.n
        BY <2>2, <3>2 DEF IInv, Tiled
      <4>2. CASE x.pos + x.n = tail
        BY <1>3, <4>1, <4>2
      <4>3. ASSUME NEW y \in allocs, y.pos = x.pos + x.n
            PROVE  y \in allocs'
        <5>1. x.pos \in Nat /\ x.n \in Nat /\ y.pos >= head
          BY <1>1, <2>2, <3>2, <4>3, AllocFacts
        <5> QED
          BY <1>4, <5>1
      <4> QED
        BY <4>1, <4>2, <4>3
    <3> QED
      BY <1>5, <3>1, <3>2
  <2> QED
    BY <1>2, <2>1, <2>2 DEF Tiled
<1>8. Layout'
  <2>1. ASSUME NEW x \in allocs'
        PROVE  x.n \in Sizes /\ x.pos + x.n <= tail' /\ Referable(x, tail')
    <3>1. CASE x = new
      BY <1>1, <1>2, <1>3, <3>1, ItemAssumption DEF Referable
    <3>2. CASE x # new
      <4>1. x \in allocs /\ Referable(x, tail')
        BY <1>2, <3>2
      <4>2. x.pos \in Nat /\ x.n \in Nat /\ x.pos + x.n <= tail /\ x.n \in Sizes
        BY <4>1, AllocFacts DEF IInv, Layout
      <4> QED
        BY <1>1, <1>2, <4>1, <4>2
    <3> QED
      BY <3>1, <3>2
  <2>2. \A x, y \in allocs' : x = y \/ x.pos + x.n <= y.pos \/ y.pos + y.n <= x.pos
    BY <1>3, <1>5 DEF IInv, Layout
  <2>3. items' \subseteq allocs'
    BY <1>2 DEF IInv, Layout
  <2> QED
    BY <2>1, <2>2, <2>3 DEF Layout
<1>9. Working'
  <2>1. \A v \in Writers : pc'[v] # "idle" => v = w
    BY <1>2 DEF IInv, Mutex, TypeOK
  <2>2. pc'[w] = "writing" /\ Current(w)' \in allocs' /\ tail' - at'[w] <= Size
    BY <1>1, <1>2, <1>3 DEF IInv, TypeOK, Current, new
  <2>3. \A v \in Writers : v # w => pc'[v] = "idle"
    BY <2>1
  <2> QED
    BY <2>2, <2>3 DEF Working
<1>10. Payload'
  <2> SUFFICES ASSUME NEW x \in items', tail' - x.pos <= Size PROVE Intact(x)'
    BY DEF Payload
  <2>1. x \in items /\ x \in allocs
    BY <1>2 DEF IInv, Layout
  <2>2. x.pos \in Nat
    BY <2>1, AllocFacts
  <2>3. Intact(x)
    BY <1>1, <1>2, <2>1, <2>2 DEF IInv, Payload
  <2> QED
    BY <1>2, <2>3 DEF Intact
<1>11. Copies'
  <2> SUFFICES ASSUME NEW r \in Readers
               PROVE  /\ rd[r].pc # "idle" =>
                           /\ rd[r].item \in items'
                           /\ rd[r].next \in 1 .. rd[r].item.n
                           /\ rd[r].foreign = 0 \/ tail' - rd[r].item.pos > Size
                      /\ rd[r].pc = "accepted" => rd[r].foreign = 0
    BY <1>2 DEF Copies
  <2>1. CASE rd[r].pc # "idle"
    <3>1. rd[r].item \in items /\ rd[r].item \in items'
      BY <1>2, <2>1 DEF IInv, Copies
    <3>2. rd[r].item.pos \in Nat
      BY <3>1, AllocFacts DEF IInv, Layout
    <3> QED
      BY <1>1, <1>2, <2>1, <3>1, <3>2 DEF IInv, Copies
  <2> QED
    BY <2>1 DEF IInv, Copies
<1>12. Mutex'
  BY <1>2 DEF IInv, Mutex, TypeOK
<1> QED
  BY <1>6, <1>7, <1>8, <1>9, <1>10, <1>11, <1>12 DEF IInv

\* Storing a payload leaves every header in the log and every other item of
\* the window as it was.
LEMMA WriteStep ==
  ASSUME IInv, NEW w \in Writers, WriteItem(w), TypeOK'
  PROVE  IInv'
<1> DEFINE cur == Current(w)
<1>1. /\ head \in Nat /\ tail \in Nat /\ Size \in Nat \ {0} /\ head <= tail
      /\ tail - head <= Size /\ at[w] \in Nat /\ req[w] \in Nat
      /\ cur \in allocs /\ tail - at[w] <= Size /\ cur.pos = at[w] /\ cur.n = req[w]
      /\ at[w] + req[w] <= tail /\ req[w] >= 2
  BY ZenonT(40), AllocFacts, SizeAssumption
     DEF IInv, TypeOK, Working, WriteItem, Goto, Current, Bounded
<1>2. /\ \A j \in 1 .. req[w] - 1 : mem'[(at[w] + j) % Size] = Stamp(at[w])
      /\ \A p \in Window :
           (\A j \in 1 .. req[w] - 1 : p # at[w] + j) => mem'[p % Size] = mem[p % Size]
  BY WriteEffect DEF IInv
<1>3. \A x \in allocs : x = cur \/ x.pos + x.n <= at[w] \/ at[w] + req[w] <= x.pos
  BY <1>1 DEF IInv, Layout
<1> HIDE DEF cur
<1>4. ASSUME NEW x \in allocs, x.pos >= head
      PROVE  mem'[x.pos % Size] = mem[x.pos % Size]
  <2>1. x.pos \in Nat /\ x.n \in Nat /\ x.n >= 2 /\ x.pos < tail
    BY AllocFacts
  <2>2. x.pos \in Window
    BY <1>1, <1>4, <2>1 DEF Window
  <2>3. ASSUME NEW j \in 1 .. req[w] - 1 PROVE x.pos # at[w] + j
    BY <1>1, <1>3, <2>1
  <2> QED
    BY <1>2, <2>2, <2>3
<1>5. Tiled'
  BY <1>4 DEF WriteItem, IInv, Tiled
<1>6. ASSUME NEW x \in allocs, tail - x.pos <= Size, x = cur \/ Intact(x)
      PROVE  Intact(x)'
  <2>1. x \in Item /\ x.pos \in Nat /\ x.n \in Nat /\ x.pos + x.n <= tail
    BY AllocFacts
  <2>2. CASE x = cur
    BY <1>1, <1>2, <2>1, <2>2, IntactWords
  <2>3. CASE x # cur
    <3>1. ASSUME NEW j \in 1 .. x.n - 1
          PROVE  mem'[(x.pos + j) % Size] = mem[(x.pos + j) % Size]
      <4> DEFINE p == x.pos + j
      <4>1. p \in Window
        BY <1>1, <1>6, <2>1 DEF Window
      <4>2. ASSUME NEW k \in 1 .. req[w] - 1 PROVE p # at[w] + k
        BY <1>1, <1>3, <2>1, <2>3
      <4> HIDE DEF p
      <4>3. mem'[p % Size] = mem[p % Size]
        BY <1>2, <4>1, <4>2
      <4> QED
        BY <4>3 DEF p
    <3> QED
      BY <1>6, <2>1, <2>3, <3>1, IntactWords
  <2> QED
    BY <2>2, <2>3
<1>7. Payload'
  BY <1>6 DEF WriteItem, IInv, Layout, Payload
<1>8. Working'
  <2>1. \A v \in Writers : v # w => pc'[v] = "idle"
    BY DEF WriteItem, Goto, IInv, TypeOK, Mutex
  <2>2. pc'[w] = "written"
    BY DEF WriteItem, Goto, IInv, TypeOK
  <2>3. Current(w)' = cur /\ allocs' = allocs /\ tail' = tail /\ at' = at
    BY DEF WriteItem, Current, cur
  <2>4. Intact(Current(w))'
    <3>1. PICK x \in allocs : x = cur
      BY <1>1
    <3>2. Intact(x)'
      BY <1>1, <1>6, <3>1
    <3>3. Current(w)' = x
      BY <2>3, <3>1
    <3> QED
      BY <3>2, <3>3 DEF Intact
  <2> QED
    BY <1>1, <2>1, <2>2, <2>3, <2>4 DEF Working
<1>9. Mutex'
  BY DEF WriteItem, Goto, IInv, TypeOK, Mutex
<1>10. Layout' /\ Bounded' /\ Copies'
  BY DEF WriteItem, IInv, Layout, Bounded, Copies, Referable
<1> QED
  BY <1>5, <1>7, <1>8, <1>9, <1>10 DEF IInv

\* The steps that only take or release the lock, choose what to do, or publish.
LEMMA WriterStep ==
  ASSUME IInv, NEW w \in Writers, TypeOK',
         \/ LockPool(w)
         \/ \E n \in Sizes : Allocate(w, n)
         \/ \E x \in items : CheckInPlace(w, x)
         \/ Publish(w)
         \/ Abandon(w)
  PROVE  IInv'
<1>1. head' = head /\ tail' = tail /\ mem' = mem /\ allocs' = allocs /\ rd' = rd
  BY DEF LockPool, Allocate, CheckInPlace, Publish, Abandon
<1>2. Bounded' /\ Tiled'
  BY <1>1 DEF IInv, Bounded, Tiled
<1>3. Mutex'
  <2>1. CASE LockPool(w)
    BY <2>1, ModeAssumption DEF LockPool, Goto, IInv, TypeOK, Mutex
  <2>2. CASE \E n \in Sizes : Allocate(w, n)
    BY <2>2 DEF Allocate, Goto, IInv, TypeOK, Mutex
  <2>3. CASE \E x \in items : CheckInPlace(w, x)
    BY <2>3 DEF CheckInPlace, Goto, IInv, TypeOK, Mutex
  <2>4. CASE Publish(w)
    BY <2>4 DEF Publish, Goto, Unlock, IInv, TypeOK, Mutex
  <2>5. CASE Abandon(w)
    BY <2>5 DEF Abandon, Unlock, IInv, TypeOK, Mutex
  <2> QED
    BY <2>1, <2>2, <2>3, <2>4, <2>5
<1>4. items \subseteq items' /\ items' \subseteq allocs /\ \A x \in items' \ items : Intact(x)
  BY DEF LockPool, Allocate, CheckInPlace, Publish, Abandon, Goto, Current, IInv, Layout, Working
<1>5. Layout'
  BY <1>1, <1>4 DEF IInv, Layout, Referable
<1>6. Payload' /\ Copies'
  BY <1>1, <1>4 DEF IInv, Payload, Copies, Intact
<1>7. Working'
  <2>1. CASE LockPool(w)
    BY <1>1, <2>1 DEF LockPool, Goto, IInv, TypeOK, Working, Fits, Current, Intact
  <2>2. CASE \E n \in Sizes : Allocate(w, n)
    <3>1. \A v \in Writers : v # w => pc'[v] = "idle"
      BY <2>2 DEF Allocate, Goto, IInv, TypeOK, Mutex
    <3>2. pc'[w] = "popping" /\ req'[w] \in Sizes
      BY <2>2 DEF Allocate, Goto, IInv, TypeOK
    <3> QED
      BY <3>1, <3>2 DEF Working
  <2>3. CASE \E x \in items : CheckInPlace(w, x)
    <3>1. PICK x \in items : CheckInPlace(w, x)
      BY <2>3
    <3>2. x \in allocs /\ Referable(x, tail)
      BY DEF IInv, Layout
    <3>3. x \in Item /\ x.pos <= tail /\ x = [pos |-> x.pos, n |-> x.n]
      BY <3>2, AllocFacts DEF IInv, TypeOK
    <3>4. tail - x.pos <= Size
      BY <3>1, <3>2, <3>3, ValidIsNear DEF CheckInPlace, IInv
    <3>5. \A v \in Writers : v # w => pc'[v] = "idle"
      BY <3>1 DEF CheckInPlace, Goto, IInv, TypeOK, Mutex
    <3>6. pc'[w] = "writing" /\ at'[w] = x.pos /\ req'[w] = x.n
      BY <3>1 DEF CheckInPlace, Goto, IInv, TypeOK
    <3>7. Current(w)' = x
      BY <3>3, <3>6 DEF Current
    <3> QED
      BY <1>1, <3>2, <3>4, <3>5, <3>6, <3>7 DEF Working
  <2>4. CASE Publish(w) \/ Abandon(w)
    <3>1. \A v \in Writers : pc'[v] = "idle"
      BY <2>4 DEF Publish, Abandon, Goto, IInv, TypeOK, Mutex
    <3> QED
      BY <3>1 DEF Working
  <2> QED
    BY <2>1, <2>2, <2>3, <2>4
<1> QED
  BY <1>2, <1>3, <1>5, <1>6, <1>7 DEF IInv

\* A reader's steps: what it copies of an item in the window is the item's, and
\* an item outside the window stays outside.
LEMMA ReaderStep ==
  ASSUME IInv, NEW r \in Readers, Read(r), TypeOK'
  PROVE  IInv'
<1>1. /\ head' = head /\ tail' = tail /\ mem' = mem /\ allocs' = allocs /\ items' = items
      /\ pc' = pc /\ lock' = lock /\ at' = at /\ req' = req
  BY DEF Read, BeginRead, CopyWord, Validate, EndRead
<1>2. \A q \in Readers : q # r => rd'[q] = rd[q]
  BY DEF Read, BeginRead, CopyWord, Validate, EndRead, IInv, TypeOK
<1>3. /\ rd'[r].pc # "idle" =>
           /\ rd'[r].item \in items
           /\ rd'[r].next \in 1 .. rd'[r].item.n
           /\ rd'[r].foreign = 0 \/ tail - rd'[r].item.pos > Size
      /\ rd'[r].pc = "accepted" => rd'[r].foreign = 0
  <2>1. CASE \E x \in items : BeginRead(r, x)
    <3>1. PICK x \in items : BeginRead(r, x)
      BY <2>1
    <3>2. rd'[r] = Copy("copying", x, 1, 0)
      BY <3>1 DEF BeginRead, IInv, TypeOK
    <3>3. x.n \in Nat /\ x.n >= 2
      BY AllocFacts DEF IInv, Layout
    <3> QED
      BY <3>2, <3>3 DEF Copy
  <2>2. CASE CopyWord(r)
    <3> DEFINE x == rd[r].item
               j == rd[r].next
    <3>1. /\ x \in items /\ j \in 1 .. x.n - 1 /\ x \in Item
          /\ rd[r].foreign = 0 \/ tail - x.pos > Size
      BY <2>2, ItemNumbers DEF CopyWord, IInv, Copies, TypeOK, Item
    <3>2. x.pos \in Nat /\ x.n \in Nat
      BY <3>1, ItemNumbers DEF Item
    <3>3. PICK f \in {0, 1} :
            /\ rd'[r] = Copy("copying", x, j + 1, rd[r].foreign + f)
            /\ mem[Word(Offset(x), j)] = Stamp(x.pos) => f = 0
      BY <2>2 DEF CopyWord, IInv, TypeOK
    <3>4. tail - x.pos <= Size => mem[Word(Offset(x), j)] = Stamp(x.pos)
      BY <3>1 DEF IInv, Payload, Intact
    <3>5. tail \in Nat /\ Size \in Nat /\ rd[r].foreign \in Nat
      BY SizeAssumption DEF IInv, TypeOK
    <3> HIDE DEF x, j
    <3> QED
      BY <3>1, <3>2, <3>3, <3>4, <3>5 DEF Copy
  <2>3. CASE Validate(r)
    <3> DEFINE x == rd[r].item
    <3>1. /\ x \in items /\ x.n \in 1 .. x.n
          /\ rd[r].foreign = 0 \/ tail - x.pos > Size
      BY <2>3 DEF Validate, IInv, Copies
    <3>2. x \in allocs /\ x \in Item /\ x.pos <= tail /\ Referable(x, tail)
      BY <3>1, AllocFacts DEF IInv, Layout, TypeOK
    <3>3. x.pos \in Nat /\ tail \in Nat /\ Size \in Nat
      BY <3>2, SizeAssumption DEF IInv, TypeOK, Item
    <3>4. IsValid(Offset(x)) <=> tail - x.pos <= Size
      BY <3>2, ValidIsNear DEF IInv
    <3>5. PICK v \in {"accepted", "rejected"} :
            /\ rd'[r] = Copy(v, x, x.n, rd[r].foreign)
            /\ v = "accepted" <=> IsValid(Offset(x))
      BY <2>3 DEF Validate, IInv, TypeOK
    <3> HIDE DEF x
    <3> QED
      BY <3>1, <3>3, <3>4, <3>5 DEF Copy
  <2>4. CASE EndRead(r)
    <3>1. rd'[r].pc = "idle"
      BY <2>4 DEF EndRead, IInv, TypeOK, IdleReader, Copy
    <3> QED
      BY <3>1
  <2> QED
    BY <2>1, <2>2, <2>3, <2>4 DEF Read
<1>4. Copies'
  BY <1>1, <1>2, <1>3 DEF IInv, Copies
<1>5. Mutex' /\ Bounded' /\ Tiled' /\ Layout' /\ Payload'
  BY <1>1 DEF IInv, Mutex, Bounded, Tiled, Layout, Payload, Referable, Intact
<1>6. Working'
  BY <1>1 DEF IInv, Working, Fits, Current, Intact
<1> QED
  BY <1>4, <1>5, <1>6 DEF IInv

\* The invariant holds in every reachable state.
THEOREM Inductive == Spec => []IInv
<1>1. Init => IInv
  <2> SUFFICES ASSUME Init PROVE IInv
    OBVIOUS
  <2>1. TypeOK
    <3>1. [pos |-> 0, n |-> 0] \in Item
      BY DEF Item
    <3> QED
      BY <3>1, SizeAssumption DEF Init, TypeOK, IdleReader, Copy
  <2>2. Mutex /\ Bounded /\ Tiled /\ Layout /\ Payload
    BY SizeAssumption DEF Init, Mutex, Bounded, Tiled, Layout, Payload
  <2>3. Working /\ Copies
    BY DEF Init, Working, Copies, IdleReader, Copy
  <2> QED
    BY <2>1, <2>2, <2>3 DEF IInv
<1>2. IInv /\ [Next]_vars => IInv'
  <2> SUFFICES ASSUME IInv, [Next]_vars PROVE IInv'
    OBVIOUS
  <2>1. TypeOK'
    BY TypeStep DEF IInv
  <2>2. ASSUME NEW w \in Writers, Write(w) PROVE IInv'
    BY <2>1, <2>2, WriterStep, PopStep, PushStep, AdvanceStep, WriteStep DEF Write
  <2>3. ASSUME NEW r \in Readers, Read(r) PROVE IInv'
    BY <2>1, <2>3, ReaderStep
  <2>4. CASE Reset
    <3>1. Mutex' /\ Bounded' /\ Tiled' /\ Layout' /\ Payload'
      BY <2>4, SizeAssumption DEF Reset, Mutex, Bounded, Tiled, Layout, Payload
    <3>2. Working' /\ Copies'
      BY <2>4 DEF Reset, Working, Copies
    <3> QED
      BY <2>1, <3>1, <3>2 DEF IInv
  <2>5. CASE UNCHANGED vars
    <3>1. Mutex' /\ Bounded' /\ Tiled' /\ Layout' /\ Payload'
      BY <2>5 DEF vars, IInv, Mutex, Bounded, Tiled, Layout, Payload, Referable, Intact
    <3>2. Working' /\ Copies'
      BY <2>5 DEF vars, IInv, Working, Copies, Fits, Current, Intact
    <3> QED
      BY <2>1, <3>1, <3>2 DEF IInv
  <2> QED
    BY <2>2, <2>3, <2>4, <2>5 DEF Next
<1> QED
  BY <1>1, <1>2, PTL DEF Spec

-----------------------------------------------------------------------------
(* The properties of the pool.                                             *)

\* check_invariants() never fails: the log never holds more than size_ bytes,
\* for any interleaving and any number of turns of the ring.
THEOREM LogBounded == Spec => []Bounded
<1>1. IInv => Bounded
  BY DEF IInv
<1> QED
  BY <1>1, Inductive, PTL

\* pop_head() only ever steps over headers that push_tail() stored.
THEOREM LogTiled == Spec => []Tiled
<1>1. IInv => Tiled
  BY DEF IInv
<1> QED
  BY <1>1, Inductive, PTL

\* An offset that is_valid() accepts has its own item behind it.
THEOREM ValidOffsetsIntact == Spec => []ValidIntact
<1>1. IInv => ValidIntact
  <2> SUFFICES ASSUME IInv, NEW x \in items, IsValid(Offset(x)) PROVE Intact(x)
    BY DEF ValidIntact
  <2>1. x \in allocs /\ Referable(x, tail)
    BY DEF IInv, Layout
  <2>2. x \in Item /\ x.pos <= tail
    BY <2>1, AllocFacts DEF IInv, TypeOK
  <2>3. tail - x.pos <= Size
    BY <2>1, <2>2, ValidIsNear DEF IInv
  <2> QED
    BY <2>3 DEF IInv, Payload
<1> QED
  BY <1>1, Inductive, PTL

\* Copying without a lock and validating afterwards is safe: an accepted copy
\* has no word of another item.
THEOREM LockFreeReads == Spec => []ReadIntact
<1>1. IInv => ReadIntact
  BY DEF IInv, Copies, ReadIntact
<1> QED
  BY <1>1, Inductive, PTL
=============================================================================
