------------------------ MODULE SegregatedFitProofs ------------------------
(***************************************************************************)
(* Theorems about SegregatedFit, for every size of the pool, any number of *)
(* classes and any lengths of items, when one thread uses the pool         *)
(* (Mode 1).  With more, set() lets two threads allocate at once and the   *)
(* free lists break.                                                       *)
(***************************************************************************)
EXTENDS SegregatedFit, WellFoundedInduction, FiniteSetTheorems, TLAPS

-----------------------------------------------------------------------------
(* Remainders, least elements, walks along links.                          *)

\* The defining equation of quotient and remainder: where a ring counter is.
LEMMA ModDef ==
  ASSUME NEW a \in Int, NEW M \in Nat \ {0}
  PROVE  /\ a % M \in 0 .. M - 1
         /\ a \div M \in Int
         /\ a = (M * (a \div M)) + (a % M)
BY SMT

\* A set of naturals that is not empty has a least element.
LEMMA LeastElement ==
  ASSUME NEW T \in SUBSET Nat, T # {}
  PROVE  \E x \in T : \A y \in T : x <= y
<1>1. IsWellFoundedOn(OpToRel(<, Nat), Nat)
  BY NatLessThanWellFounded
<1>2. \A x, y \in Nat : x < y => <<x, y>> \in OpToRel(<, Nat)
  BY DEF OpToRel
<1>3. \E x \in T : \A y \in T : ~ (<<y, x>> \in OpToRel(<, Nat))
  BY <1>1, WFMin
<1> DEFINE R == OpToRel(<, Nat)
<1>4. \A x, y \in Nat : x < y => <<x, y>> \in R
  BY <1>2
<1>5. \E x \in T : \A y \in T : ~ (<<y, x>> \in R)
  BY <1>3
<1> HIDE DEF R
<1>6. PICK x \in T : \A y \in T : ~ (<<y, x>> \in R)
  BY <1>5
<1>7. ASSUME NEW y \in T PROVE x <= y
  <2>1. x \in Nat /\ y \in Nat
    OBVIOUS
  <2>2. ~(y < x)
    BY <1>4, <1>6, <2>1
  <2> QED
    BY <2>1, <2>2
<1> QED
  BY <1>7

\* A function can be applied M times over.
Walk(V, f, a, M, g) == g \in [0 .. M -> V] /\ g[0] = a /\ \A i \in 1 .. M : g[i] = f[g[i - 1]]
LEMMA Iterate ==
  ASSUME NEW V, NEW f, f \in [V -> V], NEW a \in V, NEW M \in Nat
  PROVE  \E g : Walk(V, f, a, M, g)
<1> DEFINE Good(m, g) == g[0] = a /\ \A i \in 1 .. m : g[i] = f[g[i - 1]]
           T == { m \in Nat : ~ \E g \in [0 .. m -> V] : Good(m, g) }
<1>1. SUFFICES ASSUME T # {} PROVE FALSE
  <2>1. M \notin T
    BY <1>1
  <2> QED
    BY <2>1 DEF Walk
<1>2. PICK m \in T : \A n \in T : m <= n
  BY <1>1, LeastElement
<1>3. m # 0
  <2>1. [i \in 0 .. 0 |-> a] \in [0 .. 0 -> V] /\ Good(0, [i \in 0 .. 0 |-> a])
    OBVIOUS
  <2> QED
    BY <2>1
<1>4. m - 1 \in Nat /\ m - 1 \notin T
  <2>1. m \in Nat /\ m - 1 \in Nat /\ ~(m <= m - 1)
    BY <1>2, <1>3
  <2> HIDE DEF T
  <2> QED
    BY <1>2, <2>1
<1>5. PICK g \in [0 .. m - 1 -> V] : Good(m - 1, g)
  BY <1>4
<1> DEFINE h == [i \in 0 .. m |-> IF i = m THEN f[g[m - 1]] ELSE g[i]]
<1>6. h \in [0 .. m -> V]
  <2>1. g[m - 1] \in V
    BY <1>4
  <2>2. \A i \in 0 .. m : i # m => g[i] \in V
    BY <1>4
  <2> QED
    BY <2>1, <2>2
<1>7. Good(m, h)
  <2>1. h[0] = a
    BY <1>3, <1>5
  <2>2. ASSUME NEW i \in 1 .. m PROVE h[i] = f[h[i - 1]]
    <3>1. h[i - 1] = g[i - 1]
      BY <1>4
    <3> QED
      BY <1>4, <1>5, <3>1
  <2> QED
    BY <2>1, <2>2
<1> QED
  BY <1>6, <1>7

-----------------------------------------------------------------------------
(* The inductive invariant.  C is the set of the chunks' bounds, Z the     *)
(* chunks' sizes, F the chunks on a free list, and st the order in which   *)
(* they came there, the latest first.  W are the chunks that a thread has  *)
(* in its hand, whose words need not be in order.                          *)

Chunks(C) == C \ {Size}

\* From each bound a chunk of at least kMinimumSize reaches to the next.
Tiling(C, Z) ==
  /\ C \in SUBSET (0 .. Size) /\ 0 \in C /\ Size \in C
  /\ Z \in [Addr -> Nat]
  /\ \A c \in Chunks(C) : /\ Z[c] >= MinChunk /\ c + Z[c] \in C
                          /\ \A d \in C : d <= c \/ c + Z[c] <= d

\* Both ends of a chunk say its size and whether it is free.
EndsTagged(C, Z, F, W) ==
  \A c \in Chunks(C) \ W :
    /\ mem[c] = Tag(Z[c], IF c \in F THEN "free" ELSE "used")
    /\ mem[c + Z[c] - 1] = mem[c]

\* The links of a free list lead to free chunks of its class, and back.
Linked(Z, F, st) ==
  \A c \in F :
    /\ PrevOf(c) = Null => free[Class(Z[c])] = c
    /\ PrevOf(c) # Null => \E d \in F : /\ d = PrevOf(c) /\ NextOf(d) = c
                                        /\ Class(Z[d]) = Class(Z[c]) /\ st[d] < st[c]
    /\ NextOf(c) # Null => \E d \in F : /\ d = NextOf(c) /\ PrevOf(d) = c
                                        /\ Class(Z[d]) = Class(Z[c])
Headed(Z, F) ==
  /\ DOMAIN free = Classes
  /\ \A k \in Classes : free[k] # Null =>
       \E d \in F : d = free[k] /\ Class(Z[d]) = k /\ PrevOf(d) = Null
Lists(C, Z, F, st) ==
  /\ F \in SUBSET Chunks(C) /\ st \in [Addr -> Nat]
  /\ Linked(Z, F, st) /\ Headed(Z, F)

\* No free chunk has a free neighbour.
Coalesced(Z, F) == \A c \in F : c + Z[c] \notin F

\* An item has a chunk of its own.
Placed(C, Z, F, W) ==
  /\ live \in SUBSET [start : Addr, n : Nat]
  /\ \A x \in live :
       /\ x.start \in Chunks(C) /\ x.start \notin F \cup W
       /\ x.n + Overhead <= Z[x.start]
       /\ mem[x.start + 1] = Len(x.n)
       /\ \A y \in live : x.start = y.start => x = y

\* The chunks that threads have taken from the lists and not yet given up.
Holding == { "split", "mark", "left", "right", "insert" }
InHand == { chunk[t].start : t \in { s \in Threads : pc[s] \in Holding } }

\* What a thread knows of its chunk.
Held(t, C, Z, F) ==
  LET s == chunk[t].start
      n == chunk[t].size
  IN
  /\ pc[t] \in { "idle", "refused" } => s = 0 /\ n = 0
  /\ pc[t] \in Holding => s \in Chunks(C) /\ s \notin F /\ Z[s] = n
  /\ pc[t] = "unlink" => s \in F /\ Z[s] = n
  /\ pc[t] \in { "unlink", "split", "mark" } => want[t] \in Lengths /\ want[t] + Overhead <= n
  /\ pc[t] \in { "unlink", "split", "insert" } => s + n \notin F
  /\ pc[t] \in { "right", "insert" } => \A c \in F : c + Z[c] # s

Types ==
  /\ DOMAIN mem = Addr
  /\ free \in [Classes -> Addr \cup {Null}]
  /\ lock \in Threads \cup {Nobody}
  /\ pc \in [Threads -> {"idle", "refused", "unlink", "split", "mark", "left", "right", "insert"}]
  /\ want \in [Threads -> Lengths \cup {0}]
  /\ chunk \in [Threads -> [start : Addr, size : Nat]]

Pool(C, Z, F, st) ==
  /\ Tiling(C, Z) /\ EndsTagged(C, Z, F, InHand) /\ Lists(C, Z, F, st)
  /\ Coalesced(Z, F) /\ Placed(C, Z, F, InHand)
  /\ \A t \in Threads : Held(t, C, Z, F)

IInv == Types /\ \E C, F \in SUBSET (0 .. Size), Z, st \in [Addr -> Nat] : Pool(C, Z, F, st)

-----------------------------------------------------------------------------
(* Chunks and their words.                                                 *)

LEMMA Sizes ==
  /\ Size \in Nat /\ Size >= 4 /\ MinChunk = 4 /\ Overhead = 3 /\ Null = -1 /\ Null \notin Addr
  /\ NumClasses \in Nat \ {0} /\ Addr = 0 .. Size - 1 /\ Classes = 0 .. NumClasses - 1
  /\ Lengths \subseteq Nat
  /\ MaxChunks \in Nat /\ 4 * MaxChunks <= Size /\ Size < 4 * MaxChunks + 4
<1>1. Size \in Nat /\ Size >= 4 /\ NumClasses \in Nat \ {0}
  BY SizeAssumption DEF MinChunk
<1>2. MaxChunks \in Int /\ Size = (4 * MaxChunks) + (Size % 4) /\ Size % 4 \in 0 .. 3
  BY <1>1, ModDef DEF MaxChunks, MinChunk
<1>3. MaxChunks \in Nat /\ 4 * MaxChunks <= Size /\ Size < 4 * MaxChunks + 4
  BY <1>1, <1>2
<1> QED
  BY <1>1, <1>3, LengthAssumption DEF MinChunk, Overhead, Null, Addr, Classes

LEMMA ClassOf ==
  ASSUME NEW n \in Nat, n >= MinChunk
  PROVE  Class(n) \in Classes
BY Sizes DEF Class

\* A larger chunk is in no lower class, and outside the last class all chunks
\* have one size.
LEMMA ClassOrder ==
  ASSUME NEW m \in Nat, NEW n \in Nat, m >= MinChunk, n >= MinChunk
  PROVE  /\ m <= n => Class(m) <= Class(n)
         /\ Class(m) < Class(n) => m < n
         /\ Class(m) = Class(n) /\ Class(m) # NumClasses - 1 => m = n
         /\ Class(m) = NumClasses - 1 <=> m - MinChunk >= NumClasses - 1
BY Sizes DEF Class

LEMMA ChunkRange ==
  ASSUME NEW C, NEW Z, Tiling(C, Z), NEW c \in Chunks(C)
  PROVE  /\ c \in Addr /\ Z[c] \in Nat /\ Z[c] >= 4 /\ c + Z[c] \in C /\ c + Z[c] <= Size
         /\ c + 1 \in Addr /\ c + 2 \in Addr /\ c + Z[c] - 1 \in Addr
BY Sizes DEF Tiling, Chunks

LEMMA BoundsOf ==
  ASSUME NEW C, NEW Z, Tiling(C, Z)
  PROVE  C \in SUBSET Nat /\ \A c \in C : c <= Size
BY Sizes DEF Tiling

\* A chunk reaches to the next bound.
LEMMA Reach ==
  ASSUME NEW C, NEW Z, Tiling(C, Z), NEW c \in Chunks(C), NEW d \in C
  PROVE  d <= c \/ c + Z[c] <= d
BY DEF Tiling

\* No word belongs to two chunks.
LEMMA WordsApart ==
  ASSUME NEW C, NEW Z, Tiling(C, Z), NEW c \in Chunks(C), NEW d \in Chunks(C),
         NEW a \in Int, c <= a, a < c + Z[c], d <= a, a < d + Z[d]
  PROVE  c = d
<1>1. /\ c \in Nat /\ d \in Nat /\ Z[c] \in Nat /\ Z[d] \in Nat
      /\ d <= c \/ c + Z[c] <= d
      /\ c <= d \/ d + Z[d] <= c
  BY ChunkRange, Sizes DEF Tiling, Chunks
<1> QED
  BY <1>1

\* The chunk before a chunk.
LEMMA Predecessor ==
  ASSUME NEW C, NEW Z, Tiling(C, Z), NEW c \in C, c # 0
  PROVE  \E d \in Chunks(C) : d + Z[d] = c
<1>1. C \in SUBSET Nat /\ 0 \in C
  BY Sizes DEF Tiling
<1> DEFINE T == { n \in Nat : \E d \in C : d < c /\ n = c - d }
<1>2. T \in SUBSET Nat /\ T # {}
  <2>1. c \in T
    BY <1>1
  <2> QED
    BY <2>1
<1>3. PICK n \in T : \A m \in T : n <= m
  BY <1>2, LeastElement
<1>4. PICK d \in C : d < c /\ n = c - d
  BY <1>3
<1>5. d \in Chunks(C)
  BY <1>1, <1>4, Sizes DEF Chunks, Tiling
<1>6. d + Z[d] \in C /\ d + Z[d] <= c /\ Z[d] \in Nat /\ Z[d] >= 4
  <2>1. c <= d \/ d + Z[d] <= c
    BY <1>5 DEF Tiling
  <2> QED
    BY <1>1, <1>4, <1>5, <2>1, ChunkRange
<1>7. d + Z[d] = c
  <2> SUFFICES ASSUME d + Z[d] < c PROVE FALSE
    BY <1>1, <1>4, <1>6
  <2>1. c - (d + Z[d]) \in T
    BY <1>1, <1>4, <1>6
  <2> QED
    BY <1>1, <1>3, <1>4, <1>6, <2>1
<1> QED
  BY <1>5, <1>7

\* The chunk before a chunk is the only one that ends there.
LEMMA OneBefore ==
  ASSUME NEW C, NEW Z, Tiling(C, Z), NEW c \in Chunks(C), NEW d \in Chunks(C), c + Z[c] = d + Z[d]
  PROVE  c = d
<1>1. c + Z[c] - 1 \in Int /\ c \in Nat /\ d \in Nat /\ Z[c] >= 4 /\ Z[d] >= 4 /\ Z[c] \in Nat /\ Z[d] \in Nat
  BY SMTT(30), ChunkRange, Sizes
<1>2. /\ c <= c + Z[c] - 1 /\ c + Z[c] - 1 < c + Z[c]
      /\ d <= c + Z[c] - 1 /\ c + Z[c] - 1 < d + Z[d]
  BY <1>1
<1> QED
  BY <1>1, <1>2, WordsApart

-----------------------------------------------------------------------------
(* Cutting a chunk in two, and joining two.                                *)

LEMMA CutTiles ==
  ASSUME NEW C, NEW Z, Tiling(C, Z), NEW c \in Chunks(C), NEW n \in Nat,
         n >= MinChunk, Z[c] - n >= MinChunk
  PROVE  /\ c + n \in Addr /\ c + n \notin C /\ c + n # c
         /\ Tiling(C \cup { c + n }, [Z EXCEPT ![c] = n, ![c + n] = Z[c] - n])
<1> DEFINE D == C \cup { c + n }
           Y == [Z EXCEPT ![c] = n, ![c + n] = Z[c] - n]
<1>1. /\ c \in Addr /\ Z[c] \in Nat /\ c + Z[c] \in C /\ c + Z[c] <= Size /\ c \in Nat /\ C \in SUBSET Nat
      /\ \A d \in C : d <= c \/ c + Z[c] <= d
  BY ChunkRange, BoundsOf, Reach DEF Chunks
<1>2. c + n \in Addr /\ c + n # c /\ c + n < c + Z[c] /\ c < c + n
  BY <1>1, Sizes
<1>3. c + n \notin C
  BY <1>1, <1>2
<1>4. Z \in [Addr -> Nat] /\ Z[c] - n \in Nat
  BY <1>1, Sizes DEF Tiling
<1>5. Y \in [Addr -> Nat] /\ Y[c] = n /\ Y[c + n] = Z[c] - n
      /\ \A d \in Addr : d # c /\ d # c + n => Y[d] = Z[d]
  BY <1>1, <1>2, <1>4
<1> HIDE DEF Y
<1>6. D \in SUBSET (0 .. Size) /\ 0 \in D /\ Size \in D
  <2>1. c + n \in 0 .. Size
    BY <1>2, Sizes
  <2> QED
    BY <2>1 DEF Tiling
<1>7. ASSUME NEW d \in Chunks(D)
      PROVE  Y[d] >= MinChunk /\ d + Y[d] \in D /\ \A e \in D : e <= d \/ d + Y[d] <= e
  <2>1. CASE d = c
    <3>1. \A e \in C : e <= c \/ c + n <= e
      BY <1>1, <1>2
    <3> QED
      BY <1>1, <1>2, <1>5, <2>1, <3>1
  <2>2. CASE d = c + n
    <3>1. d + Y[d] = c + Z[c]
      BY <1>1, <1>5, <2>2
    <3>2. \A e \in C : e <= d \/ d + Y[d] <= e
      BY <1>1, <1>2, <2>2, <3>1
    <3> QED
      BY <1>1, <1>2, <1>5, <2>2, <3>1, <3>2
  <2>3. CASE d # c /\ d # c + n
    <3>1. d \in Chunks(C) /\ d \in Addr
      BY <2>3, ChunkRange DEF Chunks
    <3>2. Y[d] = Z[d]
      BY <1>5, <2>3, <3>1
    <3>3. Z[d] >= MinChunk /\ d + Z[d] \in C /\ \A e \in C : e <= d \/ d + Z[d] <= e
      BY <3>1 DEF Tiling
    <3>4. c + n <= d \/ d + Z[d] <= c + n
      <4>1. d \in Nat /\ Z[d] \in Nat /\ (d <= c \/ c + Z[c] <= d)
        BY <1>1, <3>1, ChunkRange DEF Chunks
      <4>2. c <= d \/ d + Z[d] <= c
        BY <3>1, Reach DEF Chunks
      <4> QED
        BY <1>1, <1>2, <2>3, <4>1, <4>2
    <3> QED
      BY <1>1, <1>2, <3>1, <3>2, <3>3, <3>4, Sizes
  <2> QED
    BY <2>1, <2>2, <2>3
<1> QED
  BY <1>2, <1>3, <1>5, <1>6, <1>7 DEF Tiling, Y

LEMMA JoinTiles ==
  ASSUME NEW C, NEW Z, Tiling(C, Z), NEW c \in Chunks(C), NEW d \in Chunks(C), c + Z[c] = d
  PROVE  /\ d # c /\ d # 0
         /\ Tiling(C \ { d }, [Z EXCEPT ![c] = Z[c] + Z[d]])
<1> DEFINE D == C \ { d }
           Y == [Z EXCEPT ![c] = Z[c] + Z[d]]
<1>1. /\ c \in Addr /\ Z[c] \in Nat /\ Z[c] >= 4 /\ c \in Nat /\ C \in SUBSET Nat
      /\ d \in Addr /\ Z[d] \in Nat /\ Z[d] >= 4 /\ d \in Nat /\ d + Z[d] \in C
      /\ \A e \in C : (e <= c \/ d <= e) /\ (e <= d \/ d + Z[d] <= e)
  BY ChunkRange, BoundsOf, Reach DEF Chunks
<1>2. Z \in [Addr -> Nat]
  BY DEF Tiling
<1>3. Y \in [Addr -> Nat] /\ Y[c] = Z[c] + Z[d] /\ \A e \in Addr : e # c => Y[e] = Z[e]
  BY <1>1, <1>2
<1> HIDE DEF Y
<1>4. d # c /\ d # 0 /\ d # Size
  BY <1>1 DEF Chunks
<1>5. D \in SUBSET (0 .. Size) /\ 0 \in D /\ Size \in D
  BY <1>4 DEF Tiling
<1>6. ASSUME NEW e \in Chunks(D)
      PROVE  Y[e] >= MinChunk /\ e + Y[e] \in D /\ \A x \in D : x <= e \/ e + Y[e] <= x
  <2>1. e \in Chunks(C) /\ e # d
    BY DEF Chunks
  <2>2. CASE e = c
    <3>1. e + Y[e] = d + Z[d] /\ Y[e] >= 4
      BY <1>1, <1>3, <2>2
    <3>2. \A x \in D : x <= c \/ d + Z[d] <= x
      BY <1>1
    <3>3. d + Z[d] \in D
      BY <1>1
    <3> QED
      BY <2>2, <3>1, <3>2, <3>3, Sizes
  <2>3. CASE e # c
    <3>1. Y[e] = Z[e]
      BY <1>3, <2>1, <2>3, ChunkRange
    <3>2. Z[e] >= MinChunk /\ e + Z[e] \in C /\ \A x \in C : x <= e \/ e + Z[e] <= x
      BY <2>1 DEF Tiling
    <3>3. e + Z[e] # d
      BY <2>1, <2>3, OneBefore
    <3> QED
      BY <3>1, <3>2, <3>3
  <2> QED
    BY <2>2, <2>3
<1> QED
  BY <1>3, <1>4, <1>5, <1>6 DEF Tiling, Y

-----------------------------------------------------------------------------
(* What the list operations write.                                         *)

\* The words of two chunks that the pool uses are different words.
LEMMA WordsDiffer ==
  ASSUME NEW C, NEW Z, Tiling(C, Z), NEW c \in Chunks(C), NEW d \in Chunks(C)
  PROVE  /\ c # d => \A a \in { c, c + 1, c + 2, c + Z[c] - 1 }, b \in { d, d + 1, d + 2, d + Z[d] - 1 } : a # b
         /\ c < c + 1 /\ c + 1 < c + 2 /\ c + 2 < c + Z[c] - 1 + 1 /\ c + 2 # c + 1 /\ c + 1 # c
         /\ c + 2 # c /\ c + Z[c] - 1 # c + 1 /\ c + Z[c] - 1 # c + 2 /\ c + Z[c] - 1 # c
<1>1. /\ c \in Nat /\ d \in Nat /\ Z[c] \in Nat /\ Z[d] \in Nat /\ Z[c] >= 4 /\ Z[d] >= 4
      /\ d <= c \/ c + Z[c] <= d
      /\ c <= d \/ d + Z[d] <= c
  BY ChunkRange, BoundsOf, Reach DEF Chunks
<1> QED
  BY <1>1

LEMMA HeadIs ==
  ASSUME NEW C, NEW Z, Tiling(C, Z), NEW F, NEW st, Lists(C, Z, F, st), NEW x \in Chunks(C)
  PROVE  LET old == free[Class(Z[x])] IN
         old # Null => old \in F /\ old \in Chunks(C) /\ Class(Z[old]) = Class(Z[x]) /\ PrevOf(old) = Null
<1>1. Class(Z[x]) \in Classes
  BY ChunkRange, ClassOf, Sizes
<1> QED
  BY <1>1 DEF Lists, Headed

LEMMA InsertedWords ==
  ASSUME DOMAIN mem = Addr, NEW C, NEW Z, Tiling(C, Z), NEW F, NEW st, Lists(C, Z, F, st),
         NEW x \in Chunks(C), x \notin F,
         NEW a \in Addr
  PROVE  LET n == Z[x]
             old == free[Class(n)]
         IN  /\ DOMAIN Inserted(x, n) = Addr
             /\ Inserted(x, n)[a] =
                  IF a \in { x, x + n - 1 } THEN Tag(n, "free")
                  ELSE IF a = x + 1 THEN Ptr(Null)
                  ELSE IF a = x + 2 THEN Ptr(old)
                  ELSE IF old # Null /\ a = old + 1 THEN Ptr(x)
                  ELSE mem[a]
<1> DEFINE n == Z[x]
           old == free[Class(n)]
           last == IF old = Null THEN x + 1 ELSE old + 1
           m1 == [mem EXCEPT ![x] = Tag(n, "free")]
           m2 == [m1 EXCEPT ![x + n - 1] = Tag(n, "free")]
           m3 == [m2 EXCEPT ![x + 1] = Ptr(Null)]
           m4 == [m3 EXCEPT ![x + 2] = Ptr(old)]
           m5 == [m4 EXCEPT ![last] = IF old = Null THEN Ptr(Null) ELSE Ptr(x)]
<1>1. Inserted(x, n) = m5
  BY DEF Inserted
<1>2. /\ x \in Addr /\ x + 1 \in Addr /\ x + 2 \in Addr /\ x + n - 1 \in Addr
  BY ChunkRange
<1>3. old # Null => old \in F /\ old \in Chunks(C) /\ old # x
  BY HeadIs
<1>4. old # Null => old + 1 \in Addr /\ old + 1 \notin { x, x + 1, x + 2, x + n - 1 }
  BY <1>3, WordsDiffer, ChunkRange
<1>5. x # x + 1 /\ x # x + 2 /\ x + 1 # x + 2 /\ x + n - 1 # x + 1 /\ x + n - 1 # x + 2
  BY WordsDiffer
<1>6. last \in Addr
  BY <1>2, <1>4
<1> HIDE DEF n, old
<1>7. /\ DOMAIN m1 = Addr /\ m1[a] = IF a = x THEN Tag(n, "free") ELSE mem[a]
  BY <1>2
<1> HIDE DEF m1
<1>8. /\ DOMAIN m2 = Addr /\ m2[a] = IF a = x + n - 1 THEN Tag(n, "free") ELSE m1[a]
  BY <1>2, <1>7
<1> HIDE DEF m2
<1>9. /\ DOMAIN m3 = Addr /\ m3[a] = IF a = x + 1 THEN Ptr(Null) ELSE m2[a]
  BY <1>2, <1>8
<1> HIDE DEF m3
<1>10. /\ DOMAIN m4 = Addr /\ m4[a] = IF a = x + 2 THEN Ptr(old) ELSE m3[a]
  BY <1>2, <1>9
<1> HIDE DEF m4
<1>11. /\ DOMAIN m5 = Addr
       /\ m5[a] = IF a = last THEN IF old = Null THEN Ptr(Null) ELSE Ptr(x) ELSE m4[a]
  BY <1>6, <1>10
<1> HIDE DEF m5
<1> QED
  BY <1>1, <1>4, <1>5, <1>7, <1>8, <1>9, <1>10, <1>11 DEF n, old

\* The pool's words outside x that insert_free_chunk(x) leaves alone, and
\* those it changes.
LEMMA InsertEffect ==
  ASSUME DOMAIN mem = Addr, NEW C, NEW Z, Tiling(C, Z), NEW F, NEW st, Lists(C, Z, F, st),
         NEW x \in Chunks(C), x \notin F, mem' = Inserted(x, Z[x])
  PROVE  /\ DOMAIN mem' = Addr
         /\ mem'[x] = Tag(Z[x], "free") /\ mem'[x + Z[x] - 1] = Tag(Z[x], "free")
         /\ \A c \in Chunks(C) \ {x} : mem'[c] = mem[c] /\ mem'[c + Z[c] - 1] = mem[c + Z[c] - 1]
         /\ \A c \in Chunks(C) \ (F \cup {x}) : mem'[c + 1] = mem[c + 1]
         /\ PrevOf(x)' = Null /\ NextOf(x)' = free[Class(Z[x])]
         /\ \A c \in F : /\ NextOf(c)' = NextOf(c)
                         /\ PrevOf(c)' = IF c = free[Class(Z[x])] THEN x ELSE PrevOf(c)
<1> DEFINE old == free[Class(Z[x])]
<1>1. \A a \in Addr : mem'[a] = IF a \in { x, x + Z[x] - 1 } THEN Tag(Z[x], "free")
                                ELSE IF a = x + 1 THEN Ptr(Null)
                                ELSE IF a = x + 2 THEN Ptr(old)
                                ELSE IF old # Null /\ a = old + 1 THEN Ptr(x)
                                ELSE mem[a]
  BY InsertedWords
<1>2. DOMAIN mem' = Addr
  BY InsertedWords, ChunkRange
<1>3. old # Null => old \in F /\ old \in Chunks(C)
  BY HeadIs
<1>4. F \in SUBSET Chunks(C)
  BY DEF Lists
<1>5. /\ x \in Addr /\ x + 1 \in Addr /\ x + 2 \in Addr /\ x + Z[x] - 1 \in Addr
      /\ x # x + 1 /\ x # x + 2 /\ x + 1 # x + 2 /\ x + Z[x] - 1 # x + 1 /\ x + Z[x] - 1 # x + 2
  BY ChunkRange, WordsDiffer
<1> HIDE DEF old
<1>6. ASSUME NEW c \in Chunks(C) \ {x}
      PROVE  mem'[c] = mem[c] /\ mem'[c + Z[c] - 1] = mem[c + Z[c] - 1]
  <2>1. c \in Addr /\ c + Z[c] - 1 \in Addr
    BY ChunkRange
  <2>2. c \notin { x, x + 1, x + 2, x + Z[x] - 1 } /\ c + Z[c] - 1 \notin { x, x + 1, x + 2, x + Z[x] - 1 }
    BY WordsDiffer
  <2>3. old # Null => c # old + 1 /\ c + Z[c] - 1 # old + 1
    BY <1>3, WordsDiffer
  <2> QED
    BY <1>1, <2>1, <2>2, <2>3
<1>7. ASSUME NEW c \in Chunks(C) \ {x}
      PROVE  /\ c + 1 \in Addr /\ c + 2 \in Addr
             /\ mem'[c + 1] = IF c = old /\ old # Null THEN Ptr(x) ELSE mem[c + 1]
             /\ mem'[c + 2] = mem[c + 2]
  <2>1. c + 1 \in Addr /\ c + 2 \in Addr
    BY ChunkRange
  <2>2. c + 1 \notin { x, x + 1, x + 2, x + Z[x] - 1 } /\ c + 2 \notin { x, x + 1, x + 2, x + Z[x] - 1 }
    BY WordsDiffer
  <2>3. old # Null => c + 2 # old + 1 /\ (c + 1 = old + 1 <=> c = old)
    BY <1>3, WordsDiffer
  <2> QED
    BY <1>1, <2>1, <2>2, <2>3
<1>8. PrevOf(x)' = Null /\ NextOf(x)' = old
  BY <1>1, <1>5 DEF PrevOf, NextOf, PtrAt, Ptr
<1>9. x # Null /\ \A c \in F : c # Null
  BY <1>4, <1>5, Sizes, ChunkRange
<1>10. ASSUME NEW c \in F
       PROVE  NextOf(c)' = NextOf(c) /\ PrevOf(c)' = IF c = old THEN x ELSE PrevOf(c)
  <2>1. c \in Chunks(C) \ {x}
    BY <1>4
  <2> QED
    BY <1>7, <1>9, <2>1 DEF PrevOf, NextOf, PtrAt, Ptr
<1>11. ASSUME NEW c \in Chunks(C) \ (F \cup {x}) PROVE mem'[c + 1] = mem[c + 1]
  BY <1>3, <1>7
<1>12. mem'[x] = Tag(Z[x], "free") /\ mem'[x + Z[x] - 1] = Tag(Z[x], "free")
  BY <1>1, <1>5
<1> QED
  BY <1>2, <1>6, <1>8, <1>10, <1>11, <1>12 DEF old

LEMMA UnlinkEffect ==
  ASSUME NEW C, NEW Z, Tiling(C, Z), NEW F, NEW st, Lists(C, Z, F, st),
         NEW x \in F, mem' = Unlinked(x)
  PROVE  /\ DOMAIN mem' = Addr
         /\ \A c \in Chunks(C) : mem'[c] = mem[c] /\ mem'[c + Z[c] - 1] = mem[c + Z[c] - 1]
         /\ \A c \in Chunks(C) \ F : mem'[c + 1] = mem[c + 1]
         /\ \A c \in F : /\ NextOf(c)' = IF c = PrevOf(x) THEN NextOf(x) ELSE NextOf(c)
                         /\ PrevOf(c)' = IF c = NextOf(x) THEN PrevOf(x) ELSE PrevOf(c)
<1> DEFINE p == PrevOf(x)
           q == NextOf(x)
<1>1. /\ DOMAIN mem' = Addr
      /\ \A a \in Addr : mem'[a] = IF p # Null /\ a = p + 2 THEN Ptr(q)
                                   ELSE IF q # Null /\ a = q + 1 THEN Ptr(p) ELSE mem[a]
  BY DEF Unlinked
<1>2. F \in SUBSET Chunks(C) /\ (p # Null => p \in F) /\ (q # Null => q \in F)
  BY DEF Lists, Linked
<1> HIDE DEF p, q
<1>3. ASSUME NEW c \in Chunks(C)
      PROVE  /\ mem'[c] = mem[c] /\ mem'[c + Z[c] - 1] = mem[c + Z[c] - 1]
             /\ c # Null /\ c + 1 \in Addr /\ c + 2 \in Addr
             /\ mem'[c + 1] = IF c = q THEN Ptr(p) ELSE mem[c + 1]
             /\ mem'[c + 2] = IF c = p THEN Ptr(q) ELSE mem[c + 2]
  <2>1. c \in Addr /\ c + Z[c] - 1 \in Addr /\ c + 1 \in Addr /\ c + 2 \in Addr /\ c # Null
    BY ChunkRange, Sizes
  <2>2. p # Null => c # p + 2 /\ c + Z[c] - 1 # p + 2 /\ c + 1 # p + 2 /\ (c + 2 = p + 2 <=> c = p)
    BY <1>2, WordsDiffer
  <2>3. q # Null => c # q + 1 /\ c + Z[c] - 1 # q + 1 /\ c + 2 # q + 1 /\ (c + 1 = q + 1 <=> c = q)
    BY <1>2, WordsDiffer
  <2> QED
    BY <1>1, <2>1, <2>2, <2>3
<1>4. ASSUME NEW c \in F
      PROVE  /\ NextOf(c)' = IF c = p THEN q ELSE NextOf(c)
             /\ PrevOf(c)' = IF c = q THEN p ELSE PrevOf(c)
  BY <1>2, <1>3 DEF PrevOf, NextOf, PtrAt, Ptr
<1>5. ASSUME NEW c \in Chunks(C) \ F PROVE mem'[c + 1] = mem[c + 1]
  BY <1>2, <1>3
<1> QED
  BY <1>1, <1>3, <1>4, <1>5 DEF p, q

-----------------------------------------------------------------------------
(* insert_free_chunk() and remove_free_chunk_from_free_list() keep the     *)
(* lists.                                                                  *)

\* The order after x has come to the head.
Older(st, x) == [a \in Addr |-> IF a = x THEN 0 ELSE st[a] + 1]

LEMMA InsertKeeps ==
  ASSUME DOMAIN mem = Addr, NEW C, NEW Z, Tiling(C, Z), NEW F, NEW W, NEW st,
         Lists(C, Z, F, st), EndsTagged(C, Z, F, W), NEW x \in Chunks(C), x \notin F,
         mem' = Inserted(x, Z[x]), free' = [free EXCEPT ![Class(Z[x])] = x]
  PROVE  EndsTagged(C, Z, F \cup {x}, W \ {x})' /\ Lists(C, Z, F \cup {x}, Older(st, x))'
<1> DEFINE old == free[Class(Z[x])]
           G == F \cup {x}
           o == Older(st, x)
<1>1. /\ mem'[x] = Tag(Z[x], "free") /\ mem'[x + Z[x] - 1] = Tag(Z[x], "free")
      /\ \A c \in Chunks(C) \ {x} : mem'[c] = mem[c] /\ mem'[c + Z[c] - 1] = mem[c + Z[c] - 1]
      /\ PrevOf(x)' = Null /\ NextOf(x)' = old
      /\ \A c \in F : /\ NextOf(c)' = NextOf(c)
                      /\ PrevOf(c)' = IF c = old THEN x ELSE PrevOf(c)
  BY InsertEffect
<1>2. /\ old # Null => old \in F /\ Class(Z[old]) = Class(Z[x]) /\ PrevOf(old) = Null
      /\ Class(Z[x]) \in Classes
  BY SMTT(30), HeadIs, ClassOf, ChunkRange, Sizes
<1>3. /\ F \in SUBSET Chunks(C) /\ st \in [Addr -> Nat] /\ DOMAIN free = Classes
      /\ \A k \in Classes : free[k] # Null =>
           \E d \in F : d = free[k] /\ Class(Z[d]) = k /\ PrevOf(d) = Null
  BY DEF Lists, Headed
<1>4. x # Null /\ \A c \in F : c # Null /\ c \in Addr /\ c # x
  BY <1>3, ChunkRange, Sizes
<1>5. /\ o \in [Addr -> Nat] /\ o[x] = 0
      /\ \A c \in F : o[c] = st[c] + 1 /\ st[c] \in Nat
  BY <1>3, <1>4, ChunkRange DEF Older
<1>6. \A k \in Classes : free'[k] = IF k = Class(Z[x]) THEN x ELSE free[k]
  BY <1>3
<1>7. DOMAIN free' = Classes
  BY <1>3
<1>8. \A c \in F :
        /\ PrevOf(c) = Null => free[Class(Z[c])] = c
        /\ PrevOf(c) # Null => \E d \in F : /\ d = PrevOf(c) /\ NextOf(d) = c
                                            /\ Class(Z[d]) = Class(Z[c]) /\ st[d] < st[c]
        /\ NextOf(c) # Null => \E d \in F : /\ d = NextOf(c) /\ PrevOf(d) = c
                                            /\ Class(Z[d]) = Class(Z[c])
  BY DEF Lists, Linked
<1>9. \A c \in G : Class(Z[c]) \in Classes
  BY <1>3, ClassOf, ChunkRange, Sizes
<1> HIDE DEF old, o
<1>10. ASSUME NEW c \in G, PrevOf(c)' = Null PROVE free'[Class(Z[c])] = c
  BY <1>1, <1>2, <1>4, <1>6, <1>8, <1>9, <1>10 DEF old
<1>11. ASSUME NEW c \in G, PrevOf(c)' # Null
       PROVE  \E d \in G : /\ d = PrevOf(c)' /\ NextOf(d)' = c
                           /\ Class(Z[d]) = Class(Z[c]) /\ o[d] < o[c]
  <2>1. c \in F
    BY <1>1, <1>11
  <2>2. CASE c = old
    BY <1>1, <1>2, <1>4, <1>5, <2>1, <2>2
  <2>3. CASE c # old
    <3>1. PrevOf(c)' = PrevOf(c) /\ PrevOf(c) # Null
      BY <1>1, <1>11, <2>1, <2>3
    <3>2. PICK p \in F : p = PrevOf(c) /\ NextOf(p) = c /\ Class(Z[p]) = Class(Z[c]) /\ st[p] < st[c]
      BY <1>8, <2>1, <3>1
    <3>3. NextOf(p)' = c
      BY <1>1, <3>2
    <3>4. Class(Z[p]) = Class(Z[c]) /\ st[p] < st[c]
      BY <3>2
    <3>5. o[p] < o[c]
      BY <1>5, <2>1, <3>4
    <3> QED
      BY <3>1, <3>2, <3>3, <3>4, <3>5
  <2> QED
    BY <2>2, <2>3
<1>12. ASSUME NEW c \in G, NextOf(c)' # Null
       PROVE  \E d \in G : d = NextOf(c)' /\ PrevOf(d)' = c /\ Class(Z[d]) = Class(Z[c])
  <2>1. CASE c = x
    BY <1>1, <1>2, <1>12, <2>1
  <2>2. CASE c # x
    <3>1. c \in F /\ NextOf(c)' = NextOf(c) /\ NextOf(c) # Null
      BY <1>1, <1>12, <2>2
    <3>2. PICK n \in F : n = NextOf(c) /\ PrevOf(n) = c /\ Class(Z[n]) = Class(Z[c])
      BY <1>8, <3>1
    <3>3. PrevOf(n) = c /\ Class(Z[n]) = Class(Z[c]) /\ n # old
      BY <1>2, <1>4, <3>1, <3>2
    <3>4. PrevOf(n)' = c
      BY <1>1, <3>3
    <3> QED
      BY <3>1, <3>2, <3>3, <3>4
  <2> QED
    BY <2>1, <2>2
<1>13. ASSUME NEW k \in Classes, free'[k] # Null
       PROVE  \E d \in G : d = free'[k] /\ Class(Z[d]) = k /\ PrevOf(d)' = Null
  <2>1. CASE k = Class(Z[x])
    BY <1>1, <1>6, <2>1
  <2>2. CASE k # Class(Z[x])
    <3>1. free'[k] = free[k] /\ free[k] # Null
      BY <1>6, <1>13, <2>2
    <3>2. PICK c \in F : c = free[k]
      BY <1>3, <3>1
    <3>3. Class(Z[c]) = k /\ PrevOf(c) = Null /\ c # old
      BY <1>2, <1>3, <2>2, <3>1, <3>2, <1>4
    <3>4. PrevOf(c)' = Null
      BY <1>1, <3>3
    <3> QED
      BY <3>1, <3>2, <3>3, <3>4
  <2> QED
    BY <2>1, <2>2
<1>14. EndsTagged(C, Z, G, W \ {x})'
  <2> SUFFICES ASSUME NEW c \in Chunks(C), c \notin W \ {x}
               PROVE  /\ mem'[c] = Tag(Z[c], IF c \in G THEN "free" ELSE "used")
                      /\ mem'[c + Z[c] - 1] = mem'[c]
    BY DEF EndsTagged
  <2>1. CASE c = x
    BY <1>1, <2>1
  <2>2. CASE c # x
    <3>1. mem[c] = Tag(Z[c], IF c \in F THEN "free" ELSE "used") /\ mem[c + Z[c] - 1] = mem[c]
      BY <2>2 DEF EndsTagged
    <3> QED
      BY <1>1, <2>2, <3>1
  <2> QED
    BY <2>1, <2>2
<1>15. Linked(Z, G, o)'
  BY <1>10, <1>11, <1>12 DEF Linked
<1>16. Headed(Z, G)'
  BY <1>7, <1>13 DEF Headed
<1> QED
  BY <1>3, <1>5, <1>14, <1>15, <1>16 DEF Lists, o

LEMMA UnlinkKeeps ==
  ASSUME NEW C, NEW Z, Tiling(C, Z), NEW F, NEW W, NEW st,
         Lists(C, Z, F, st), EndsTagged(C, Z, F, W), NEW x \in F,
         mem' = Unlinked(x), free' = UnlinkedHead(x, Z[x])
  PROVE  EndsTagged(C, Z, F \ {x}, W \cup {x})' /\ Lists(C, Z, F \ {x}, st)'
<1> DEFINE p == PrevOf(x)
           q == NextOf(x)
           G == F \ {x}
<1>1. /\ \A c \in Chunks(C) : mem'[c] = mem[c] /\ mem'[c + Z[c] - 1] = mem[c + Z[c] - 1]
      /\ \A c \in F : /\ NextOf(c)' = IF c = p THEN q ELSE NextOf(c)
                      /\ PrevOf(c)' = IF c = q THEN p ELSE PrevOf(c)
  BY UnlinkEffect
<1>2. /\ F \in SUBSET Chunks(C) /\ st \in [Addr -> Nat] /\ DOMAIN free = Classes
      /\ \A k \in Classes : free[k] # Null =>
           \E d \in F : d = free[k] /\ Class(Z[d]) = k /\ PrevOf(d) = Null
  BY DEF Lists, Headed
<1>3. \A c \in F : c # Null /\ c \in Addr /\ st[c] \in Nat /\ Class(Z[c]) \in Classes
  BY <1>2, ChunkRange, ClassOf, Sizes
<1>4. \A c \in F :
        /\ PrevOf(c) = Null => free[Class(Z[c])] = c
        /\ PrevOf(c) # Null => \E d \in F : /\ d = PrevOf(c) /\ NextOf(d) = c
                                            /\ Class(Z[d]) = Class(Z[c]) /\ st[d] < st[c]
        /\ NextOf(c) # Null => \E d \in F : /\ d = NextOf(c) /\ PrevOf(d) = c
                                            /\ Class(Z[d]) = Class(Z[c])
  BY DEF Lists, Linked
<1>5. \A k \in Classes : free'[k] = IF p = Null /\ k = Class(Z[x]) THEN q ELSE free[k]
  BY <1>2 DEF UnlinkedHead
<1>6. DOMAIN free' = Classes
  BY <1>2 DEF UnlinkedHead
<1>7. p = Null => free[Class(Z[x])] = x
  BY <1>4
<1>8. p # Null => p \in F /\ NextOf(p) = x /\ Class(Z[p]) = Class(Z[x]) /\ st[p] < st[x] /\ p # x
  <2>1. p # Null => p \in F /\ NextOf(p) = x /\ Class(Z[p]) = Class(Z[x]) /\ st[p] < st[x]
    BY <1>4
  <2> QED
    BY <1>3, <2>1
<1>9. q # Null => q \in F /\ PrevOf(q) = x /\ Class(Z[q]) = Class(Z[x]) /\ st[x] < st[q] /\ q # x
  <2>1. q # Null => q \in F /\ PrevOf(q) = x /\ Class(Z[q]) = Class(Z[x])
    BY <1>4
  <2>2. q # Null => st[PrevOf(q)] < st[q]
    BY <1>3, <1>4, <2>1
  <2> QED
    BY <1>3, <2>1, <2>2
<1> HIDE DEF p, q
<1>10. ASSUME NEW c \in G, PrevOf(c)' = Null PROVE free'[Class(Z[c])] = c
  BY <1>1, <1>3, <1>4, <1>5, <1>7, <1>8, <1>9, <1>10
<1>11. ASSUME NEW c \in G, PrevOf(c)' # Null
       PROVE  \E d \in G : /\ d = PrevOf(c)' /\ NextOf(d)' = c
                           /\ Class(Z[d]) = Class(Z[c]) /\ st[d] < st[c]
  <2>1. CASE c = q
    <3>1. PrevOf(c)' = p /\ p # Null
      BY <1>1, <1>11, <2>1
    <3>2. PICK d \in F : d = p
      BY <1>8, <3>1
    <3>3. NextOf(d)' = q
      BY <1>1, <3>2
    <3>4. st[d] < st[c]
      BY <1>3, <1>8, <1>9, <2>1, <3>1, <3>2
    <3> QED
      BY <1>8, <1>9, <1>3, <2>1, <3>1, <3>2, <3>3, <3>4
  <2>2. CASE c # q
    <3>1. PrevOf(c)' = PrevOf(c) /\ PrevOf(c) # Null
      BY <1>1, <1>11, <2>2
    <3>2. PICK d \in F : d = PrevOf(c)
      BY <1>4, <3>1
    <3>3. NextOf(d) = c /\ Class(Z[d]) = Class(Z[c]) /\ st[d] < st[c]
      BY <1>4, <3>1, <3>2
    <3>4. d # x
      BY <2>2, <3>3 DEF q
    <3>5. d # p
      BY <1>8, <1>3, <3>2, <3>3
    <3>6. NextOf(d)' = c
      BY <1>1, <3>3, <3>5
    <3> QED
      BY <3>1, <3>2, <3>3, <3>4, <3>6
  <2> QED
    BY <2>1, <2>2
<1>12. ASSUME NEW c \in G, NextOf(c)' # Null
       PROVE  \E d \in G : d = NextOf(c)' /\ PrevOf(d)' = c /\ Class(Z[d]) = Class(Z[c])
  <2>1. CASE c = p
    <3>1. NextOf(c)' = q /\ q # Null
      BY <1>1, <1>12, <2>1
    <3>2. PICK d \in F : d = q
      BY <1>9, <3>1
    <3>3. PrevOf(d)' = p
      BY <1>1, <3>2
    <3> QED
      BY <1>8, <1>9, <1>3, <2>1, <3>1, <3>2, <3>3
  <2>2. CASE c # p
    <3>1. NextOf(c)' = NextOf(c) /\ NextOf(c) # Null
      BY <1>1, <1>12, <2>2
    <3>2. PICK d \in F : d = NextOf(c)
      BY <1>4, <3>1
    <3>3. PrevOf(d) = c /\ Class(Z[d]) = Class(Z[c])
      BY <1>4, <3>1, <3>2
    <3>4. d # x
      BY <2>2, <3>3 DEF p
    <3>5. d # q
      BY <1>9, <1>3, <3>2, <3>3
    <3>6. PrevOf(d)' = c
      BY <1>1, <3>3, <3>5
    <3> QED
      BY <3>1, <3>2, <3>3, <3>4, <3>6
  <2> QED
    BY <2>1, <2>2
<1>13. ASSUME NEW k \in Classes, free'[k] # Null
       PROVE  \E d \in G : d = free'[k] /\ Class(Z[d]) = k /\ PrevOf(d)' = Null
  <2>1. CASE p = Null /\ k = Class(Z[x])
    <3>1. free'[k] = q /\ q # Null
      BY <1>5, <1>13, <2>1
    <3>2. PICK d \in F : d = q
      BY <1>9, <3>1
    <3>3. PrevOf(d)' = Null
      BY <1>1, <2>1, <3>2
    <3> QED
      BY <1>9, <2>1, <3>1, <3>2, <3>3
  <2>2. CASE ~(p = Null /\ k = Class(Z[x]))
    <3>1. free'[k] = free[k] /\ free[k] # Null
      BY <1>5, <1>13, <2>2
    <3>2. PICK c \in F : c = free[k]
      BY <1>2, <3>1
    <3>3. Class(Z[c]) = k /\ PrevOf(c) = Null
      BY <1>2, <3>1, <3>2
    <3>4. c # x
      BY <2>2, <3>3 DEF p
    <3>5. c # q
      BY <1>9, <1>3, <3>2, <3>3
    <3>6. PrevOf(c)' = Null
      BY <1>1, <3>3, <3>5
    <3> QED
      BY <3>1, <3>2, <3>3, <3>4, <3>6
  <2> QED
    BY <2>1, <2>2
<1>14. EndsTagged(C, Z, G, W \cup {x})'
  <2> SUFFICES ASSUME NEW c \in Chunks(C), c \notin W \cup {x}
               PROVE  /\ mem'[c] = Tag(Z[c], IF c \in G THEN "free" ELSE "used")
                      /\ mem'[c + Z[c] - 1] = mem'[c]
    BY DEF EndsTagged
  <2>1. mem[c] = Tag(Z[c], IF c \in F THEN "free" ELSE "used") /\ mem[c + Z[c] - 1] = mem[c]
    BY DEF EndsTagged
  <2> QED
    BY <1>1, <2>1
<1>15. Linked(Z, G, st)'
  BY <1>10, <1>11, <1>12 DEF Linked
<1>16. Headed(Z, G)'
  BY <1>6, <1>13 DEF Headed
<1> QED
  BY <1>2, <1>14, <1>15, <1>16 DEF Lists

-----------------------------------------------------------------------------
(* Walking.                                                                *)

\* What chains list: chunks of the list's class, each followed by its next.
LEMMA ChainWalks ==
  ASSUME NEW C, NEW Z, Tiling(C, Z), NEW F, NEW st, Lists(C, Z, F, st), NEW k \in Classes
  PROVE  LET V == { c \in F : Class(Z[c]) = k } \cup { Null } IN
         /\ \A i \in 0 .. MaxChunks : Chain(k)[i] \in V
         /\ Chain(k)[0] = free[k]
         /\ \A i \in 1 .. MaxChunks :
              Chain(k)[i] = IF Chain(k)[i - 1] = Null THEN Null ELSE NextOf(Chain(k)[i - 1])
<1> DEFINE V == { c \in F : Class(Z[c]) = k } \cup { Null }
           f == [p \in V |-> IF p = Null THEN Null ELSE NextOf(p)]
           N == Chain(k)
<1>1. free[k] \in V
  BY DEF Lists, Headed
<1>2. ASSUME NEW p \in V, p # Null PROVE NextOf(p) \in V
  BY <1>2 DEF Lists, Linked
<1>3. f \in [V -> V] /\ \A p \in V : f[p] = IF p = Null THEN Null ELSE NextOf(p)
  BY <1>2
<1>4. MaxChunks \in Nat
  BY Sizes
<1> HIDE DEF V, f
<1>5. PICK g \in [0 .. MaxChunks -> V] : g[0] = free[k] /\ \A i \in 1 .. MaxChunks : g[i] = f[g[i - 1]]
  <2>1. f \in [V -> V] /\ free[k] \in V /\ MaxChunks \in Nat
    BY <1>1, <1>3, <1>4
  <2>2. \E g : Walk(V, f, free[k], MaxChunks, g)
    BY <2>1, Iterate
  <2> QED
    BY <2>2 DEF Walk
<1>6. g = [i \in 0 .. MaxChunks |-> IF i = 0 THEN free[k]
             ELSE LET p == g[i - 1] IN IF p = Null THEN Null ELSE NextOf(p)]
  <2>1. ASSUME NEW i \in 0 .. MaxChunks
        PROVE  g[i] = IF i = 0 THEN free[k]
                      ELSE LET p == g[i - 1] IN IF p = Null THEN Null ELSE NextOf(p)
    <3>1. i # 0 => i \in 1 .. MaxChunks /\ i - 1 \in 0 .. MaxChunks
      BY <1>4
    <3> QED
      BY <1>3, <1>5, <3>1
  <2> QED
    BY <2>1
<1>7. N = [i \in 0 .. MaxChunks |-> IF i = 0 THEN free[k]
             ELSE LET p == N[i - 1] IN IF p = Null THEN Null ELSE NextOf(p)]
  BY <1>6 DEF Chain
<1> HIDE DEF N
<1>8. /\ N[0] = free[k]
      /\ \A i \in 1 .. MaxChunks : N[i] = IF N[i - 1] = Null THEN Null ELSE NextOf(N[i - 1])
  BY <1>4, <1>7
<1> DEFINE T == { i \in Nat : i <= MaxChunks /\ N[i] \notin V }
<1>9. T = {}
  <2> SUFFICES ASSUME T # {} PROVE FALSE
    OBVIOUS
  <2>1. PICK i \in T : \A j \in T : i <= j
    BY LeastElement
  <2>2. i # 0
    BY <1>1, <1>8, <2>1
  <2>3. i - 1 \in Nat /\ i - 1 <= MaxChunks /\ i \in 1 .. MaxChunks
    BY <1>4, <2>1, <2>2
  <2>4. N[i - 1] \in V
    BY <2>1, <2>3
  <2>5. N[i] = IF N[i - 1] = Null THEN Null ELSE NextOf(N[i - 1])
    BY <1>8, <2>3
  <2> QED
    BY <1>2, <2>1, <2>4, <2>5 DEF V
<1>10. \A i \in 0 .. MaxChunks : N[i] \in V
  BY <1>4, <1>9
<1> QED
  BY <1>8, <1>10 DEF V, N

\* A free chunk is said to be free, and a chunk in use to be in use.
LEMMA Reads ==
  ASSUME NEW C, NEW Z, Tiling(C, Z), NEW F, NEW W, EndsTagged(C, Z, F, W), NEW c \in Chunks(C), c \notin W
  PROVE  /\ SizeOf(c) = Z[c] /\ SizeOf(c + Z[c] - 1) = Z[c]
         /\ (Free(c) <=> c \in F) /\ (Free(c + Z[c] - 1) <=> c \in F)
         /\ mem[c][1] = "tag" /\ mem[c + Z[c] - 1] = mem[c]
<1>1. c \in Addr /\ c + Z[c] - 1 \in Addr
  BY ChunkRange
<1>2. /\ mem[c] = Tag(Z[c], IF c \in F THEN "free" ELSE "used")
      /\ mem[c + Z[c] - 1] = mem[c]
  BY DEF EndsTagged
<1> QED
  BY <1>1, <1>2 DEF SizeOf, Free, Tag

LEMMA SmallestOf ==
  ASSUME NEW S \in SUBSET Nat, S # {}
  PROVE  Smallest(S) \in S /\ \A y \in S : Smallest(S) <= y
BY LeastElement DEF Smallest

\* What remove_free_chunk_from_head() finds.
LEMMA FoundFits ==
  ASSUME NEW C, NEW Z, Tiling(C, Z), NEW F, NEW st, Lists(C, Z, F, st), EndsTagged(C, Z, F, {}),
         NEW need \in Nat, Fitting(need) # {}
  PROVE  LET c == Chain(Smallest(Usable(need)))[Smallest(Fitting(need))] IN
         c \in F /\ SizeOf(c) = Z[c] /\ need <= Z[c]
<1> DEFINE k == Smallest(Usable(need))
           i == Smallest(Fitting(need))
<1>1. Usable(need) # {} /\ Fitting(need) = { j \in 0 .. MaxChunks : Chain(k)[j] # Null /\ SizeOf(Chain(k)[j]) >= need }
  BY DEF Fitting
<1>2. Usable(need) \in SUBSET Nat
  BY Sizes DEF Usable
<1>3. k \in Classes
  BY <1>1, <1>2, SmallestOf DEF Usable
<1>4. Fitting(need) \in SUBSET Nat
  <2>1. Fitting(need) \subseteq 0 .. MaxChunks /\ 0 .. MaxChunks \subseteq Nat
    BY <1>1, Sizes
  <2> QED
    BY <2>1
<1>5. i \in Fitting(need)
  BY <1>4, SmallestOf
<1>6. i \in 0 .. MaxChunks /\ Chain(k)[i] # Null /\ SizeOf(Chain(k)[i]) >= need
  BY <1>1, <1>5
<1> HIDE DEF k, i
<1>7. Chain(k)[i] \in F
  BY <1>3, <1>6, ChainWalks
<1>8. F \in SUBSET Chunks(C)
  BY DEF Lists
<1>9. SizeOf(Chain(k)[i]) = Z[Chain(k)[i]]
  BY <1>7, <1>8, Reads
<1> QED
  BY <1>6, <1>7, <1>9, ChunkRange, <1>8 DEF k, i

-----------------------------------------------------------------------------
(* Every step keeps the invariant.                                         *)

Sound == \E C, F \in SUBSET (0 .. Size), Z, st \in [Addr -> Nat] : Pool(C, Z, F, st)

LEMMA SoundBy ==
  ASSUME NEW C, NEW Z, NEW F, NEW st, Pool(C, Z, F, st)'
  PROVE  Sound'
<1>1. Tiling(C, Z)' /\ Lists(C, Z, F, st)'
  BY DEF Pool
<1>2. C \in SUBSET (0 .. Size) /\ F \in SUBSET (0 .. Size) /\ Z \in [Addr -> Nat] /\ st \in [Addr -> Nat]
  BY <1>1 DEF Tiling, Lists, Chunks
<1> QED
  BY <1>2 DEF Sound

\* One thread holds at most one chunk.
Hand(t) == IF pc[t] \in Holding THEN { chunk[t].start } ELSE {}

LEMMA OneHand ==
  ASSUME Mode = 1, NEW t \in Threads
  PROVE  /\ InHand = Hand(t) /\ InHand' = Hand(t)'
         /\ \A s \in Threads : s = t
BY ModeAssumption DEF InHand, Hand

\* What does not depend on the words and heads that a step changes.
LEMMA SameLists ==
  ASSUME NEW C, NEW Z, NEW F, NEW W, NEW st, UNCHANGED <<mem, free>>
  PROVE  /\ Lists(C, Z, F, st) => Lists(C, Z, F, st)'
         /\ EndsTagged(C, Z, F, W) => EndsTagged(C, Z, F, W)'
<1>1. \A c : (PrevOf(c))' = PrevOf(c) /\ (NextOf(c))' = NextOf(c)
  BY DEF PrevOf, NextOf, PtrAt
<1> QED
  BY <1>1 DEF Lists, Linked, Headed, EndsTagged

\* The lists of chunks that keep their sizes.
LEMMA SameSizes ==
  ASSUME NEW C, NEW Z, NEW F, NEW st, NEW D, NEW Y, F \in SUBSET Chunks(D), \A c \in F : Y[c] = Z[c]
  PROVE  /\ Lists(C, Z, F, st) => Lists(D, Y, F, st)
         /\ Lists(C, Z, F, st)' => Lists(D, Y, F, st)'
BY DEF Lists, Linked, Headed

\* A thread that touches no word, head or item.
LEMMA Untouched ==
  ASSUME NEW C, NEW Z, NEW F, NEW st, Pool(C, Z, F, st), UNCHANGED <<mem, free, live>>,
         InHand' = InHand, \A t \in Threads : Held(t, C, Z, F)'
  PROVE  Sound'
<1>1. PICK W : W = InHand
  OBVIOUS
<1>2. /\ Tiling(C, Z) /\ EndsTagged(C, Z, F, W) /\ Lists(C, Z, F, st)
      /\ Coalesced(Z, F) /\ Placed(C, Z, F, W)
  BY <1>1 DEF Pool
<1>3. EndsTagged(C, Z, F, W)' /\ Lists(C, Z, F, st)'
  BY <1>2, SameLists
<1>4. Placed(C, Z, F, W)'
  BY <1>2 DEF Placed
<1>5. EndsTagged(C, Z, F, InHand)' /\ Placed(C, Z, F, InHand)'
  BY <1>1, <1>3, <1>4 DEF EndsTagged, Placed
<1>6. Tiling(C, Z)' /\ Coalesced(Z, F)'
  BY <1>2 DEF Tiling, Coalesced
<1>7. Pool(C, Z, F, st)'
  BY <1>3, <1>5, <1>6 DEF Pool
<1> QED
  BY <1>7, SoundBy

\* The parts of the invariant put together after a step of the only thread.
LEMMA Together ==
  ASSUME Mode = 1, NEW t \in Threads, NEW C, NEW Z, NEW F, NEW st, NEW W, Hand(t)' = W,
         Tiling(C, Z), EndsTagged(C, Z, F, W)', Lists(C, Z, F, st)', Coalesced(Z, F),
         Placed(C, Z, F, W)', Held(t, C, Z, F)'
  PROVE  Sound'
<1>1. InHand' = W /\ \A s \in Threads : s = t
  BY OneHand
<1>2. EndsTagged(C, Z, F, InHand)' /\ Placed(C, Z, F, InHand)'
  BY <1>1 DEF EndsTagged, Placed
<1>3. Tiling(C, Z)' /\ Coalesced(Z, F)'
  BY DEF Tiling, Coalesced
<1>4. \A s \in Threads : Held(s, C, Z, F)'
  BY <1>1 DEF Held
<1>5. Pool(C, Z, F, st)'
  BY <1>2, <1>3, <1>4 DEF Pool
<1> QED
  BY <1>5, SoundBy

LEMMA Apart ==
  ASSUME Mode = 1, NEW t \in Threads, NEW C, NEW Z, NEW F, NEW st, Pool(C, Z, F, st), NEW W, Hand(t) = W
  PROVE  /\ Tiling(C, Z) /\ EndsTagged(C, Z, F, W) /\ Lists(C, Z, F, st)
         /\ Coalesced(Z, F) /\ Placed(C, Z, F, W) /\ Held(t, C, Z, F)
         /\ F \in SUBSET Chunks(C) /\ Z \in [Addr -> Nat]
<1>1. InHand = W
  BY OneHand
<1> QED
  BY <1>1 DEF Pool, Lists, Tiling

-----------------------------------------------------------------------------
(* allocate().                                                             *)

LEMMA PickKeeps ==
  ASSUME Mode = 1, Types, NEW C, NEW Z, NEW F, NEW st, Pool(C, Z, F, st),
         NEW t \in Threads, NEW n \in Lengths, Pick(t, n)
  PROVE  Types' /\ Sound'
<1>1. /\ pc[t] = "idle" /\ Hand(t) = {} /\ InHand = {}
  BY OneHand DEF Pick, Goto, Hand, Holding
<1>2. /\ Tiling(C, Z) /\ EndsTagged(C, Z, F, {}) /\ Lists(C, Z, F, st) /\ Coalesced(Z, F)
      /\ F \in SUBSET Chunks(C)
  BY <1>1, Apart
<1>3. n + Overhead \in Nat /\ n \in Nat
  BY Sizes
<1>4. PICK c \in F : /\ c = Chain(Smallest(Usable(n + Overhead)))[Smallest(Fitting(n + Overhead))]
                     /\ SizeOf(c) = Z[c] /\ n + Overhead <= Z[c]
  BY <1>2, <1>3, FoundFits DEF Pick
<1>5. /\ c \in Addr /\ Z[c] \in Nat /\ c + Z[c] \notin F
  BY <1>2, ChunkRange DEF Coalesced
<1>6. /\ pc' = [pc EXCEPT ![t] = "unlink"] /\ want' = [want EXCEPT ![t] = n]
      /\ chunk' = [chunk EXCEPT ![t] = [start |-> c, size |-> Z[c]]]
      /\ UNCHANGED <<mem, free, lock, live>>
  BY <1>4 DEF Pick, Goto
<1>7. /\ pc'[t] = "unlink" /\ want'[t] = n /\ chunk'[t].start = c /\ chunk'[t].size = Z[c]
  BY <1>6 DEF Types
<1>8. Types'
  BY <1>5, <1>6 DEF Types
<1>9. Held(t, C, Z, F)'
  BY <1>4, <1>5, <1>7 DEF Held, Holding
<1>10. InHand' = {}
  BY <1>7, OneHand DEF Hand, Holding
<1>11. \A s \in Threads : Held(s, C, Z, F)'
  BY <1>9, OneHand DEF Held
<1> QED
  BY <1>1, <1>6, <1>8, <1>10, <1>11, Untouched

LEMMA RefusalKeeps ==
  ASSUME Mode = 1, Types, NEW C, NEW Z, NEW F, NEW st, Pool(C, Z, F, st), NEW t \in Threads,
         (\E n \in Lengths : NoSpace(t, n)) \/ Refused(t)
  PROVE  Types' /\ Sound'
<1>1. /\ pc[t] \in { "idle", "refused" } /\ Hand(t) = {} /\ InHand = {}
  BY OneHand DEF NoSpace, Refused, Goto, Hand, Holding
<1>2. Held(t, C, Z, F)
  BY <1>1, Apart
<1>3. /\ UNCHANGED <<mem, free, lock, live>>
      /\ pc'[t] \in { "idle", "refused" } /\ chunk'[t].start = 0 /\ chunk'[t].size = 0
      /\ Types'
  <2>1. 0 \in Addr /\ 0 \in Nat
    BY Sizes
  <2>2. CASE \E n \in Lengths : NoSpace(t, n)
    BY <1>1, <1>2, <2>2 DEF NoSpace, Goto, Types, Held
  <2>3. CASE Refused(t)
    BY <2>1, <2>3 DEF Refused, Done, Types
  <2> QED
    BY <2>2, <2>3
<1>4. Held(t, C, Z, F)'
  BY <1>3 DEF Held, Holding
<1>5. InHand' = {}
  BY <1>3, OneHand DEF Hand, Holding
<1>6. \A s \in Threads : Held(s, C, Z, F)'
  BY <1>4, OneHand DEF Held
<1> QED
  BY <1>1, <1>3, <1>5, <1>6, Untouched

\* The items outside the chunks that a step works on stay where they are.
LEMMA ItemsStay ==
  ASSUME NEW C, NEW Z, NEW F, NEW W, NEW D, NEW Y, NEW G, NEW V, Placed(C, Z, F, W), live' = live,
         \A c \in Chunks(C) \ (F \cup W) :
           c \in Chunks(D) /\ c \notin G \cup V /\ Y[c] = Z[c] /\ mem'[c + 1] = mem[c + 1]
  PROVE  Placed(D, Y, G, V)'
BY DEF Placed

\* The heads keep their types when a chunk leaves its list.
LEMMA UnlinkTypes ==
  ASSUME Types, NEW C, NEW Z, Tiling(C, Z), NEW F, NEW st, Lists(C, Z, F, st), NEW x \in F
  PROVE  UnlinkedHead(x, Z[x]) \in [Classes -> Addr \cup {Null}]
<1>1. NextOf(x) \in Addr \cup {Null}
  BY ChunkRange DEF Lists, Linked
<1> QED
  BY <1>1 DEF UnlinkedHead, Types

LEMMA UnlinkStep ==
  ASSUME Mode = 1, Types, NEW C, NEW Z, NEW F, NEW st, Pool(C, Z, F, st), NEW t \in Threads, Unlink(t)
  PROVE  Types' /\ Sound'
<1>1. pc[t] = "unlink" /\ Hand(t) = {}
  BY DEF Unlink, Goto, Hand, Holding
<1>2. /\ Tiling(C, Z) /\ EndsTagged(C, Z, F, {}) /\ Lists(C, Z, F, st) /\ Coalesced(Z, F)
      /\ F \in SUBSET Chunks(C) /\ Placed(C, Z, F, {}) /\ Held(t, C, Z, F)
  BY <1>1, Apart
<1>3. PICK x \in F : x = chunk[t].start /\ Z[x] = chunk[t].size
  BY <1>1, <1>2 DEF Held
<1>4. /\ want[t] \in Lengths /\ want[t] + Overhead <= Z[x] /\ x + Z[x] \notin F
  BY <1>1, <1>2, <1>3 DEF Held
<1>5. /\ pc' = [pc EXCEPT ![t] = "split"] /\ mem' = Unlinked(x) /\ free' = UnlinkedHead(x, Z[x])
      /\ UNCHANGED <<lock, want, chunk, live>>
  BY <1>3 DEF Unlink, Goto
<1>6. EndsTagged(C, Z, F \ {x}, {} \cup {x})' /\ Lists(C, Z, F \ {x}, st)'
  BY <1>2, <1>5, UnlinkKeeps
<1>7. /\ DOMAIN mem' = Addr
      /\ \A c \in Chunks(C) \ F : mem'[c + 1] = mem[c + 1]
  BY <1>2, <1>5, UnlinkEffect
<1>8. Types'
  BY <1>2, <1>5, <1>7, UnlinkTypes DEF Types
<1>9. pc'[t] = "split" /\ chunk'[t] = chunk[t] /\ want'[t] = want[t]
  BY <1>5 DEF Types
<1>10. Hand(t)' = {x}
  BY <1>3, <1>9 DEF Hand, Holding
<1>11. Held(t, C, Z, F \ {x})'
  BY <1>2, <1>3, <1>4, <1>9 DEF Held, Holding
<1>12. Placed(C, Z, F \ {x}, {x})'
  BY <1>2, <1>5, <1>7, ItemsStay
<1>13. Coalesced(Z, F \ {x}) /\ EndsTagged(C, Z, F \ {x}, {x})'
  BY <1>2, <1>6 DEF Coalesced, EndsTagged
<1> QED
  BY <1>2, <1>6, <1>8, <1>10, <1>11, <1>12, <1>13, Together

LEMMA SplitStep ==
  ASSUME Mode = 1, Types, NEW C, NEW Z, NEW F, NEW st, Pool(C, Z, F, st), NEW t \in Threads, Split(t)
  PROVE  Types' /\ Sound'
<1>1. pc[t] = "split"
  BY DEF Split, Goto
<1>2. PICK x : x = chunk[t].start
  OBVIOUS
<1>3. Hand(t) = {x}
  BY <1>1, <1>2 DEF Hand, Holding
<1>4. /\ Tiling(C, Z) /\ EndsTagged(C, Z, F, {x}) /\ Lists(C, Z, F, st) /\ Coalesced(Z, F)
      /\ F \in SUBSET Chunks(C) /\ Placed(C, Z, F, {x}) /\ Held(t, C, Z, F)
  BY <1>3, Apart
<1>5. /\ x \in Chunks(C) /\ x \notin F /\ Z[x] = chunk[t].size /\ x + Z[x] \notin F
      /\ want[t] \in Lengths /\ want[t] + Overhead <= Z[x]
  BY <1>1, <1>2, <1>4 DEF Held, Holding
<1>6. PICK need : need = want[t] + Overhead
  OBVIOUS
<1>7. /\ need \in Nat /\ need >= MinChunk /\ need <= Z[x] /\ Z[x] \in Nat
  <2>1. want[t] \in Nat /\ want[t] >= 2
    BY <1>5, LengthAssumption
  <2>2. Z[x] \in Nat
    BY <1>4, <1>5, ChunkRange
  <2> QED
    BY <1>5, <1>6, <2>1, <2>2, Sizes
<1>8. pc' = [pc EXCEPT ![t] = "mark"] /\ UNCHANGED <<lock, want, live>>
  BY DEF Split, Goto
<1>9. pc'[t] = "mark" /\ want'[t] = want[t]
  BY <1>8 DEF Types
<1>10. CASE ~(Z[x] - need >= MinChunk)
  <2>1. UNCHANGED <<mem, free, chunk>>
    BY <1>2, <1>5, <1>6, <1>10 DEF Split
  <2>2. Hand(t)' = {x}
    BY <1>2, <1>9, <2>1 DEF Hand, Holding
  <2>3. Held(t, C, Z, F)'
    BY <1>2, <1>5, <1>9, <2>1 DEF Held, Holding
  <2>4. Types'
    BY <1>8, <2>1 DEF Types
  <2>5. EndsTagged(C, Z, F, {x})' /\ Lists(C, Z, F, st)'
    BY <1>4, <2>1, SameLists
  <2>6. Placed(C, Z, F, {x})'
    BY <1>4, <1>8, <2>1, ItemsStay
  <2> QED
    BY <1>4, <2>2, <2>3, <2>4, <2>5, <2>6, Together
<1>11. CASE Z[x] - need >= MinChunk
  <2> DEFINE d == x + need
             D == C \cup {d}
             Y == [Z EXCEPT ![x] = need, ![d] = Z[x] - need]
             G == F \cup {d}
             o == Older(st, d)
  <2>1. d \in Addr /\ d \notin C /\ d # x /\ Tiling(D, Y)
    BY <1>4, <1>5, <1>7, <1>11, CutTiles
  <2>2. Z \in [Addr -> Nat] /\ x \in Addr /\ C \in SUBSET Nat
    <3>1. Z \in [Addr -> Nat]
      BY <1>4 DEF Tiling
    <3> QED
      BY <1>4, <1>5, <3>1, ChunkRange, BoundsOf
  <2>3. /\ Y[x] = need /\ Y[d] = Z[x] - need
        /\ \A c \in Chunks(C) : c # x => Y[c] = Z[c] /\ c # d
        /\ Chunks(D) = Chunks(C) \cup {d}
    <3>1. \A c \in Chunks(C) : c \in Addr
      BY <1>4, ChunkRange
    <3>2. d # Size
      BY <2>1, Sizes
    <3> QED
      BY <2>1, <2>2, <3>1, <3>2 DEF Chunks
  <2>4. /\ mem' = Inserted(d, Z[x] - need) /\ free' = [free EXCEPT ![Class(Z[x] - need)] = d]
        /\ chunk' = [chunk EXCEPT ![t].size = need]
    BY <1>2, <1>5, <1>6, <1>11 DEF Split
  <2> HIDE DEF d, D, Y
  <2>5. EndsTagged(D, Y, F, {x, d})
    BY <1>4, <2>3 DEF EndsTagged
  <2>6. Lists(D, Y, F, st)
    BY <1>4, <1>5, <2>3, SameSizes
  <2>7. d \in Chunks(D) /\ d \notin F
    BY <1>4, <2>1, <2>3 DEF Chunks
  <2>8. EndsTagged(D, Y, G, {x, d} \ {d})' /\ Lists(D, Y, G, o)'
    BY <2>1, <2>3, <2>4, <2>5, <2>6, <2>7, InsertKeeps DEF Types
  <2>9. /\ DOMAIN mem' = Addr
        /\ \A c \in Chunks(D) \ (F \cup {d}) : mem'[c + 1] = mem[c + 1]
    BY <2>1, <2>3, <2>4, <2>6, <2>7, InsertEffect DEF Types
  <2>10. chunk'[t].start = x /\ chunk'[t].size = need
    BY <1>2, <2>4 DEF Types
  <2>11. Types'
    BY <1>7, <1>8, <2>1, <2>4, <2>9 DEF Types
  <2>12. Hand(t)' = {x} /\ EndsTagged(D, Y, G, {x})'
    <3>1. {x, d} \ {d} = {x}
      BY <2>1
    <3>2. Hand(t)' = {x}
      BY <1>9, <2>10 DEF Hand, Holding
    <3> QED
      BY <2>8, <3>1, <3>2
  <2>13. Coalesced(Y, G)
    <3>1. ASSUME NEW c \in F PROVE c + Y[c] \notin G
      <4>1. c \in Chunks(C) /\ c # x /\ c + Z[c] \in C /\ c + Z[c] \notin F
        BY <1>4, <1>5, ChunkRange DEF Coalesced
      <4> QED
        BY <2>1, <2>3, <4>1
    <3>2. d + Y[d] \notin G
      <4>1. d + Y[d] = x + Z[x]
        BY <1>7, <2>2, <2>3, Sizes DEF d
      <4>2. x + Z[x] # d
        BY <1>4, <1>5, <2>1, ChunkRange
      <4> QED
        BY <1>5, <4>1, <4>2
    <3> QED
      BY <3>1, <3>2 DEF Coalesced
  <2>14. Placed(D, Y, G, {x})'
    <3>1. ASSUME NEW c \in Chunks(C) \ (F \cup {x})
          PROVE  c \in Chunks(D) /\ c \notin G \cup {x} /\ Y[c] = Z[c] /\ mem'[c + 1] = mem[c + 1]
      BY <2>3, <2>9
    <3> HIDE DEF G
    <3> QED
      BY <1>4, <1>8, <3>1, ItemsStay
  <2>15. Held(t, D, Y, G)'
    BY <1>5, <1>6, <1>9, <2>1, <2>3, <2>10, <1>7, Sizes DEF Held, Holding
  <2> QED
    BY <2>1, <2>8, <2>11, <2>12, <2>13, <2>14, <2>15, Together
<1> QED
  BY <1>10, <1>11

LEMMA MarkStep ==
  ASSUME Mode = 1, Types, NEW C, NEW Z, NEW F, NEW st, Pool(C, Z, F, st), NEW t \in Threads, Mark(t)
  PROVE  Types' /\ Sound'
<1>1. pc[t] = "mark"
  BY DEF Mark
<1>2. PICK x, n : x = chunk[t].start /\ n = want[t]
  OBVIOUS
<1>3. Hand(t) = {x}
  BY <1>1, <1>2 DEF Hand, Holding
<1>4. /\ Tiling(C, Z) /\ EndsTagged(C, Z, F, {x}) /\ Lists(C, Z, F, st) /\ Coalesced(Z, F)
      /\ F \in SUBSET Chunks(C) /\ Placed(C, Z, F, {x}) /\ Held(t, C, Z, F)
  BY <1>3, Apart
<1>5. /\ x \in Chunks(C) /\ x \notin F /\ Z[x] = chunk[t].size
      /\ n \in Lengths /\ n + Overhead <= Z[x]
  BY <1>1, <1>2, <1>4 DEF Held, Holding
<1>6. n \in Nat /\ n >= 2 /\ x \in Nat /\ x \in Addr /\ Z[x] \in Nat /\ Z[x] >= 4 /\ n + 3 <= Z[x]
      /\ x + Z[x] - 1 \in Addr /\ x + 1 \in Addr
  BY <1>4, <1>5, ChunkRange, LengthAssumption, Sizes
<1>7. /\ mem' = Filled(chunk[t], n) /\ live' = live \cup {[start |-> x, n |-> n]}
      /\ pc' = [pc EXCEPT ![t] = "idle"] /\ want' = [want EXCEPT ![t] = 0]
      /\ chunk' = [chunk EXCEPT ![t] = [start |-> 0, size |-> 0]]
      /\ UNCHANGED <<free, lock>>
  BY <1>2 DEF Mark, Done
<1>8. /\ DOMAIN mem' = Addr
      /\ \A a \in Addr : mem'[a] = IF a \in {x, x + Z[x] - 1} THEN Tag(Z[x], "used")
                                   ELSE IF a = x + 1 THEN Len(n)
                                   ELSE IF a \in x + 2 .. x + 1 + n THEN Data ELSE mem[a]
  BY <1>2, <1>5, <1>7 DEF Filled
\* All that is written is in the chunk.
<1>9. ASSUME NEW c \in Chunks(C), c # x, NEW a \in Addr, c <= a, a < c + Z[c]
      PROVE  mem'[a] = mem[a]
  <2>1. a \in Int /\ ~(x <= a /\ a < x + Z[x])
    BY <1>4, <1>5, <1>9, WordsApart, Sizes
  <2>2. a \notin {x, x + Z[x] - 1} /\ a # x + 1 /\ a \notin x + 2 .. x + 1 + n
    BY <1>6, <2>1
  <2> QED
    BY <1>8, <2>2
<1>10. ASSUME NEW c \in Chunks(C), c # x
       PROVE  /\ mem'[c] = mem[c] /\ mem'[c + Z[c] - 1] = mem[c + Z[c] - 1]
              /\ mem'[c + 1] = mem[c + 1] /\ mem'[c + 2] = mem[c + 2]
  <2>1. /\ c \in Nat /\ Z[c] \in Nat /\ Z[c] >= 4
        /\ c \in Addr /\ c + 1 \in Addr /\ c + 2 \in Addr /\ c + Z[c] - 1 \in Addr
    BY <1>4, ChunkRange, Sizes
  <2>2. /\ c <= c /\ c < c + Z[c] /\ c <= c + 1 /\ c + 1 < c + Z[c]
        /\ c <= c + 2 /\ c + 2 < c + Z[c] /\ c <= c + Z[c] - 1 /\ c + Z[c] - 1 < c + Z[c]
    BY <2>1
  <2> QED
    BY <1>9, <1>10, <2>1, <2>2
<1>11. /\ mem'[x] = Tag(Z[x], "used") /\ mem'[x + Z[x] - 1] = Tag(Z[x], "used")
       /\ mem'[x + 1] = Len(n)
  BY <1>6, <1>8
<1>12. EndsTagged(C, Z, F, {})'
  <2> SUFFICES ASSUME NEW c \in Chunks(C)
               PROVE  /\ mem'[c] = Tag(Z[c], IF c \in F THEN "free" ELSE "used")
                      /\ mem'[c + Z[c] - 1] = mem'[c]
    BY DEF EndsTagged
  <2>1. c # x => /\ mem[c] = Tag(Z[c], IF c \in F THEN "free" ELSE "used")
                 /\ mem[c + Z[c] - 1] = mem[c]
    BY <1>4 DEF EndsTagged
  <2> QED
    BY <1>5, <1>10, <1>11, <2>1
<1>13. Lists(C, Z, F, st)'
  <2>1. \A c \in F : (PrevOf(c))' = PrevOf(c) /\ (NextOf(c))' = NextOf(c)
    BY <1>4, <1>5, <1>10 DEF PrevOf, NextOf, PtrAt
  <2> QED
    BY <1>4, <1>7, <2>1 DEF Lists, Linked, Headed
<1>14. Placed(C, Z, F, {})'
  <2>1. /\ live \in SUBSET [start : Addr, n : Nat]
        /\ \A y \in live : /\ y.start \in Chunks(C) /\ y.start \notin F \cup {x}
                           /\ y.n + Overhead <= Z[y.start] /\ mem[y.start + 1] = Len(y.n)
                           /\ \A z \in live : y.start = z.start => y = z
    BY <1>4 DEF Placed
  <2>2. live' \in SUBSET [start : Addr, n : Nat]
    BY <1>6, <1>7, <2>1
  <2>3. ASSUME NEW y \in live'
        PROVE  /\ y.start \in Chunks(C) /\ y.start \notin F \cup {}
               /\ y.n + Overhead <= Z[y.start] /\ mem'[y.start + 1] = Len(y.n)
               /\ \A z \in live' : y.start = z.start => y = z
    <3>1. CASE y \in live
      <4>1. mem'[y.start + 1] = mem[y.start + 1]
        BY <1>10, <2>1, <3>1
      <4> QED
        BY <1>7, <2>1, <3>1, <4>1
    <3>2. CASE y = [start |-> x, n |-> n]
      BY <1>5, <1>7, <1>11, <2>1, <3>2
    <3> QED
      BY <1>7, <3>1, <3>2
  <2> QED
    BY <2>2, <2>3 DEF Placed
<1>15. pc'[t] = "idle" /\ chunk'[t].start = 0 /\ chunk'[t].size = 0
  BY <1>7 DEF Types
<1>16. Hand(t)' = {} /\ Held(t, C, Z, F)'
  BY <1>15 DEF Hand, Held, Holding
<1>17. Types'
  <2>1. 0 \in Addr /\ 0 \in Nat
    BY Sizes
  <2> QED
    BY <1>7, <1>8, <2>1 DEF Types
<1> QED
  BY <1>4, <1>12, <1>13, <1>14, <1>16, <1>17, Together

-----------------------------------------------------------------------------
(* release().                                                              *)

LEMMA BeginStep ==
  ASSUME Mode = 1, Types, NEW C, NEW Z, NEW F, NEW st, Pool(C, Z, F, st), NEW t \in Threads,
         NEW y \in live, BeginRelease(t, y)
  PROVE  Types' /\ Sound'
<1>1. pc[t] = "idle" /\ Hand(t) = {}
  BY DEF BeginRelease, Goto, Hand, Holding
<1>2. /\ Tiling(C, Z) /\ EndsTagged(C, Z, F, {}) /\ Lists(C, Z, F, st) /\ Coalesced(Z, F)
      /\ F \in SUBSET Chunks(C) /\ Placed(C, Z, F, {})
  BY <1>1, Apart
<1>3. PICK x \in Chunks(C) : x = y.start /\ x \notin F
  BY <1>2 DEF Placed
<1>4. SizeOf(x) = Z[x] /\ x \in Addr /\ Z[x] \in Nat
  BY <1>2, Reads, ChunkRange
<1>5. /\ pc' = [pc EXCEPT ![t] = "left"] /\ lock' = lock
      /\ chunk' = [chunk EXCEPT ![t] = [start |-> x, size |-> Z[x]]]
      /\ live' = live \ {y} /\ UNCHANGED <<mem, free, want>>
  BY <1>3, <1>4 DEF BeginRelease, Goto
<1>6. pc'[t] = "left" /\ chunk'[t].start = x /\ chunk'[t].size = Z[x]
  BY <1>5 DEF Types
<1>7. Types'
  BY <1>4, <1>5 DEF Types
<1>8. Hand(t)' = {x} /\ Held(t, C, Z, F)'
  BY <1>3, <1>6 DEF Hand, Held, Holding
<1>9. Lists(C, Z, F, st)' /\ EndsTagged(C, Z, F, {})'
  BY <1>2, <1>5, SameLists
<1>10. EndsTagged(C, Z, F, {x})'
  BY <1>9 DEF EndsTagged
<1>11. Placed(C, Z, F, {x})'
  BY <1>2, <1>3, <1>5 DEF Placed
<1> QED
  BY <1>2, <1>7, <1>8, <1>9, <1>10, <1>11, Together

\* A merge of the chunk x in hand with a free neighbour f: c comes first.
Merging(t, C, Z, F, st, x, f, c, d) ==
  /\ Tiling(C, Z) /\ EndsTagged(C, Z, F, {x}) /\ Lists(C, Z, F, st)
  /\ Coalesced(Z, F) /\ Placed(C, Z, F, {x})
  /\ x \in Chunks(C) /\ x \notin F /\ x = chunk[t].start /\ Z[x] = chunk[t].size
  /\ f \in F /\ c + Z[c] = d
  /\ \/ c = f /\ d = x /\ pc' = [pc EXCEPT ![t] = "right"]
     \/ /\ c = x /\ d = f /\ pc' = [pc EXCEPT ![t] = "insert"]
        /\ \A e \in F : e + Z[e] # x
  /\ Merge(t, f, c) /\ UNCHANGED <<lock, want, live>>

LEMMA MergeStep ==
  ASSUME Mode = 1, Types, NEW t \in Threads, NEW C, NEW Z, NEW F, NEW st, NEW x, NEW f, NEW c, NEW d,
         Merging(t, C, Z, F, st, x, f, c, d)
  PROVE  Types' /\ Sound'
<1> DEFINE D == C \ {d}
           Y == [Z EXCEPT ![c] = Z[c] + Z[d]]
           G == F \ {f}
<1>0. /\ Tiling(C, Z) /\ EndsTagged(C, Z, F, {x}) /\ Lists(C, Z, F, st)
      /\ Coalesced(Z, F) /\ Placed(C, Z, F, {x}) /\ F \in SUBSET Chunks(C)
      /\ x \in Chunks(C) /\ x \notin F /\ x = chunk[t].start /\ Z[x] = chunk[t].size
      /\ f \in F /\ c + Z[c] = d
      /\ Merge(t, f, c) /\ UNCHANGED <<lock, want, live>>
      /\ pc' = [pc EXCEPT ![t] = IF c = x THEN "insert" ELSE "right"]
      /\ c = x => d = f /\ \A e \in F : e + Z[e] # x
      /\ c # x => c = f /\ d = x
  BY DEF Merging, Lists
<1>1. c \in Chunks(C) /\ d \in Chunks(C) /\ f \in Chunks(C) /\ f # x
  BY <1>0
<1>2. /\ c \in Addr /\ Z[c] \in Nat /\ Z[d] \in Nat /\ d # c /\ Z \in [Addr -> Nat]
      /\ \A e \in Chunks(C) : e \in Addr
  <2>1. Z \in [Addr -> Nat]
    BY <1>0 DEF Tiling
  <2> QED
    BY <1>0, <1>1, <2>1, ChunkRange, JoinTiles
<1>3. SizeOf(f) = Z[f]
  BY <1>0, <1>1, Reads
<1>4. Z[x] + Z[f] = Z[c] + Z[d]
  BY <1>0, <1>1, <1>2
<1>5. /\ mem' = Unlinked(f) /\ free' = UnlinkedHead(f, Z[f])
      /\ chunk' = [chunk EXCEPT ![t] = [start |-> c, size |-> Z[c] + Z[d]]]
  BY <1>0, <1>3, <1>4 DEF Merge, Types
<1>6. EndsTagged(C, Z, G, {x} \cup {f})' /\ Lists(C, Z, G, st)'
  BY <1>0, <1>5, UnlinkKeeps
<1>7. /\ DOMAIN mem' = Addr /\ \A e \in Chunks(C) \ F : mem'[e + 1] = mem[e + 1]
  BY <1>0, <1>5, UnlinkEffect
<1>8. Tiling(D, Y) /\ Chunks(D) = Chunks(C) \ {d}
  BY <1>0, <1>1, JoinTiles DEF Chunks
<1>9. Y[c] = Z[c] + Z[d] /\ \A e \in Chunks(C) : e # c => Y[e] = Z[e]
  BY <1>0, <1>1, <1>2
<1> HIDE DEF D, Y
<1>10. EndsTagged(D, Y, G, {c})'
  BY <1>0, <1>6, <1>8, <1>9 DEF EndsTagged
<1>11. Lists(D, Y, G, st)'
  <2>1. G \in SUBSET Chunks(D) /\ \A e \in G : Y[e] = Z[e]
    BY <1>0, <1>8, <1>9
  <2> HIDE DEF G
  <2> QED
    BY <1>0, <1>6, <2>1, SameSizes
<1>12. Coalesced(Y, G)
  BY <1>0, <1>9 DEF Coalesced
<1>13. Placed(D, Y, G, {c})'
  <2>1. ASSUME NEW e \in Chunks(C) \ (F \cup {x})
        PROVE  e \in Chunks(D) /\ e \notin G \cup {c} /\ Y[e] = Z[e] /\ mem'[e + 1] = mem[e + 1]
    BY <1>0, <1>7, <1>8, <1>9
  <2> HIDE DEF G
  <2> QED
    BY <1>0, <2>1, ItemsStay
<1>14. /\ chunk'[t].start = c /\ chunk'[t].size = Z[c] + Z[d]
       /\ pc'[t] = IF c = x THEN "insert" ELSE "right"
  BY <1>0, <1>5 DEF Types
<1>15. Hand(t)' = {c}
  BY <1>0, <1>14 DEF Hand, Holding
<1>16. Types'
  <2>1. UnlinkedHead(f, Z[f]) \in [Classes -> Addr \cup {Null}]
    BY <1>0, UnlinkTypes
  <2>2. Z[c] + Z[d] \in Nat
    BY <1>0, <1>2
  <2> QED
    BY <1>0, <1>2, <1>5, <1>7, <2>1, <2>2 DEF Types
<1>17. Held(t, D, Y, G)'
  <2>1. c \in Chunks(D) /\ c \notin G /\ Y[c] = chunk'[t].size
    BY <1>0, <1>1, <1>2, <1>8, <1>9, <1>14
  <2>2. ASSUME NEW e \in G PROVE e + Y[e] # c
    <3>1. Y[e] = Z[e] /\ e + Z[e] \notin F
      BY <1>0, <1>1, <1>9 DEF Coalesced
    <3> QED
      BY <1>0, <1>1, <3>1
  <2>3. c = x => c + Y[c] \notin G
    <3> SUFFICES ASSUME c = x PROVE c + Y[c] \notin G
      OBVIOUS
    <3>1. d = f /\ c + Y[c] = d + Z[d]
      <4>1. c \in Nat
        BY <1>0, <1>2, Sizes
      <4>2. c + (Z[c] + Z[d]) = d + Z[d]
        BY <1>0, <1>2, <4>1
      <4> QED
        BY <1>0, <1>1, <1>2, <1>9, <4>2
    <3> QED
      BY <1>0, <3>1 DEF Coalesced
  <2> QED
    BY <1>0, <1>14, <2>1, <2>2, <2>3 DEF Held, Holding
<1> QED
  BY <1>0, <1>8, <1>10, <1>11, <1>12, <1>13, <1>15, <1>16, <1>17, Together

LEMMA LeftStep ==
  ASSUME Mode = 1, Types, NEW C, NEW Z, NEW F, NEW st, Pool(C, Z, F, st), NEW t \in Threads, CoaleseLeft(t)
  PROVE  Types' /\ Sound'
<1>1. pc[t] = "left"
  BY DEF CoaleseLeft, Goto
<1>2. PICK x : x = chunk[t].start
  OBVIOUS
<1>3. Hand(t) = {x}
  BY <1>1, <1>2 DEF Hand, Holding
<1>4. /\ Tiling(C, Z) /\ EndsTagged(C, Z, F, {x}) /\ Lists(C, Z, F, st) /\ Coalesced(Z, F)
      /\ F \in SUBSET Chunks(C) /\ Placed(C, Z, F, {x}) /\ Held(t, C, Z, F)
  BY <1>3, Apart
<1>5. /\ x \in Chunks(C) /\ x \notin F /\ Z[x] = chunk[t].size
      /\ x \in Nat /\ Z[x] \in Nat /\ Z[x] >= 4
  BY <1>1, <1>2, <1>4, ChunkRange, Sizes DEF Held, Holding
<1>6. pc' = [pc EXCEPT ![t] = "right"] /\ UNCHANGED <<lock, want, live>> /\ pc'[t] = "right"
  BY DEF CoaleseLeft, Goto, Types
\* No free chunk ends where x starts, or one does and is merged.
<1>7. ASSUME UNCHANGED <<mem, free, chunk>>, \A c \in F : c + Z[c] # x
      PROVE  Types' /\ Sound'
  <2>1. Types'
    BY <1>6, <1>7 DEF Types
  <2>2. Hand(t)' = {x} /\ Held(t, C, Z, F)'
    BY <1>2, <1>5, <1>6, <1>7 DEF Hand, Held, Holding
  <2>3. Lists(C, Z, F, st)' /\ EndsTagged(C, Z, F, {x})'
    BY <1>4, <1>7, SameLists
  <2>4. Placed(C, Z, F, {x})'
    BY <1>4, <1>6, <1>7, ItemsStay
  <2> QED
    BY <1>4, <2>1, <2>2, <2>3, <2>4, Together
<1>8. CASE x = 0
  <2>1. UNCHANGED <<mem, free, chunk>>
    BY <1>2, <1>8 DEF CoaleseLeft
  <2>2. ASSUME NEW c \in F PROVE c + Z[c] # x
    <3>1. c \in Nat /\ Z[c] \in Nat /\ Z[c] >= 4
      BY <1>4, ChunkRange, Sizes
    <3> QED
      BY <1>8, <3>1
  <2> QED
    BY <1>7, <2>1, <2>2
<1>9. CASE x # 0
  <2>1. PICK d \in Chunks(C) : d + Z[d] = x
    <3>1. x \in C
      BY <1>5 DEF Chunks
    <3> QED
      BY <1>4, <1>9, <3>1, Predecessor
  <2>2. d \in Nat /\ Z[d] \in Nat /\ Z[d] >= 4 /\ d # x
    BY <1>4, <2>1, <1>5, ChunkRange, Sizes
  <2>3. /\ SizeOf(d + Z[d] - 1) = Z[d] /\ (Free(d + Z[d] - 1) <=> d \in F)
    BY <1>4, <2>1, <2>2, Reads
  <2>4. d + Z[d] - 1 = x - 1 /\ x > 0 /\ x - Z[d] = d
    BY <1>5, <2>1, <2>2
  <2>5. SizeOf(x - 1) = Z[d] /\ (Free(x - 1) <=> d \in F)
    BY <2>3, <2>4
  <2>6. IF d \in F THEN Merge(t, d, d) ELSE UNCHANGED <<mem, free, chunk>>
    BY <1>2, <2>4, <2>5 DEF CoaleseLeft
  <2>7. CASE d \in F
    <3>1. Merge(t, d, d) /\ {d, x} = {x, d} /\ d # x
      BY <2>2, <2>6, <2>7
    <3>2. Merging(t, C, Z, F, st, x, d, d, x)
      BY <1>2, <1>4, <1>5, <1>6, <2>1, <2>7, <3>1 DEF Merging
    <3> QED
      BY <3>2, MergeStep
  <2>8. CASE d \notin F
    <3>1. \A c \in F : c + Z[c] # x
      BY <1>4, <2>1, <2>8, OneBefore
    <3> QED
      BY <1>7, <2>6, <2>8, <3>1
  <2> QED
    BY <2>7, <2>8
<1> QED
  BY <1>8, <1>9

LEMMA RightStep ==
  ASSUME Mode = 1, Types, NEW C, NEW Z, NEW F, NEW st, Pool(C, Z, F, st), NEW t \in Threads, CoaleseRight(t)
  PROVE  Types' /\ Sound'
<1>1. pc[t] = "right"
  BY DEF CoaleseRight, Goto
<1>2. PICK x : x = chunk[t].start
  OBVIOUS
<1>3. Hand(t) = {x}
  BY <1>1, <1>2 DEF Hand, Holding
<1>4. /\ Tiling(C, Z) /\ EndsTagged(C, Z, F, {x}) /\ Lists(C, Z, F, st) /\ Coalesced(Z, F)
      /\ F \in SUBSET Chunks(C) /\ Placed(C, Z, F, {x}) /\ Held(t, C, Z, F)
  BY <1>3, Apart
<1>5. /\ x \in Chunks(C) /\ x \notin F /\ Z[x] = chunk[t].size
      /\ \A c \in F : c + Z[c] # x
      /\ x \in Nat /\ Z[x] \in Nat /\ Z[x] >= 4
  BY <1>1, <1>2, <1>4, ChunkRange, Sizes DEF Held, Holding
<1>6. pc' = [pc EXCEPT ![t] = "insert"] /\ UNCHANGED <<lock, want, live>> /\ pc'[t] = "insert"
  BY DEF CoaleseRight, Goto, Types
<1>7. PICK r \in C : r = x + Z[x] /\ r <= Size /\ r # x
  BY <1>4, <1>5, ChunkRange
<1>8. ASSUME UNCHANGED <<mem, free, chunk>>, r \notin F
      PROVE  Types' /\ Sound'
  <2>1. Types'
    BY <1>6, <1>8 DEF Types
  <2>2. Hand(t)' = {x} /\ Held(t, C, Z, F)'
    BY <1>2, <1>5, <1>6, <1>7, <1>8 DEF Hand, Held, Holding
  <2>3. Lists(C, Z, F, st)' /\ EndsTagged(C, Z, F, {x})'
    BY <1>4, <1>8, SameLists
  <2>4. Placed(C, Z, F, {x})'
    BY <1>4, <1>6, <1>8, ItemsStay
  <2> QED
    BY <1>4, <2>1, <2>2, <2>3, <2>4, Together
<1>9. CASE r = Size
  <2>1. UNCHANGED <<mem, free, chunk>>
    BY <1>2, <1>5, <1>7, <1>9, Sizes DEF CoaleseRight
  <2>2. r \notin F
    BY <1>4, <1>9 DEF Chunks
  <2> QED
    BY <1>8, <2>1, <2>2
<1>10. CASE r # Size
  <2>1. r \in Chunks(C) /\ r < Size
    BY <1>4, <1>7, <1>10, BoundsOf, Sizes DEF Chunks
  <2>2. Free(r) <=> r \in F
    BY <1>4, <1>7, <2>1, Reads
  <2>3. IF r \in F THEN Merge(t, r, x) ELSE UNCHANGED <<mem, free, chunk>>
    BY <1>2, <1>5, <1>7, <2>1, <2>2 DEF CoaleseRight
  <2>4. CASE r \in F
    <3>1. Merge(t, r, x)
      BY <2>3, <2>4
    <3>2. Merging(t, C, Z, F, st, x, r, x, r)
      BY <1>2, <1>4, <1>5, <1>6, <1>7, <2>4, <3>1 DEF Merging
    <3> QED
      BY <3>2, MergeStep
  <2>5. CASE r \notin F
    BY <1>8, <2>3, <2>5
  <2> QED
    BY <2>4, <2>5
<1> QED
  BY <1>9, <1>10

LEMMA EndStep ==
  ASSUME Mode = 1, Types, NEW C, NEW Z, NEW F, NEW st, Pool(C, Z, F, st), NEW t \in Threads, EndRelease(t)
  PROVE  Types' /\ Sound'
<1>1. pc[t] = "insert"
  BY DEF EndRelease
<1>2. PICK x : x = chunk[t].start
  OBVIOUS
<1>3. Hand(t) = {x}
  BY <1>1, <1>2 DEF Hand, Holding
<1>4. /\ Tiling(C, Z) /\ EndsTagged(C, Z, F, {x}) /\ Lists(C, Z, F, st) /\ Coalesced(Z, F)
      /\ F \in SUBSET Chunks(C) /\ Placed(C, Z, F, {x}) /\ Held(t, C, Z, F)
  BY <1>3, Apart
<1>5. /\ x \in Chunks(C) /\ x \notin F /\ Z[x] = chunk[t].size
      /\ x + Z[x] \notin F /\ \A c \in F : c + Z[c] # x
      /\ x \in Addr /\ Z[x] \in Nat /\ Z[x] >= 4
  BY <1>1, <1>2, <1>4, ChunkRange DEF Held, Holding
<1>6. /\ mem' = Inserted(x, Z[x]) /\ free' = [free EXCEPT ![Class(Z[x])] = x]
      /\ pc' = [pc EXCEPT ![t] = "idle"] /\ want' = [want EXCEPT ![t] = 0]
      /\ chunk' = [chunk EXCEPT ![t] = [start |-> 0, size |-> 0]]
      /\ UNCHANGED <<lock, live>>
  BY <1>2, <1>5 DEF EndRelease, Done
<1> DEFINE G == F \cup {x}
           o == Older(st, x)
<1>7. EndsTagged(C, Z, G, {x} \ {x})' /\ Lists(C, Z, G, o)'
  BY <1>4, <1>5, <1>6, InsertKeeps DEF Types
<1>8. DOMAIN mem' = Addr /\ \A c \in Chunks(C) \ (F \cup {x}) : mem'[c + 1] = mem[c + 1]
  BY <1>4, <1>5, <1>6, InsertEffect DEF Types
<1>9. EndsTagged(C, Z, G, {})'
  BY <1>7 DEF EndsTagged
<1>10. Coalesced(Z, G)
  <2>1. x + Z[x] # x
    BY <1>5, Sizes
  <2> QED
    BY <1>4, <1>5, <2>1 DEF Coalesced
<1>11. Placed(C, Z, G, {})'
  <2>1. \A c \in Chunks(C) \ (F \cup {x}) :
          c \in Chunks(C) /\ c \notin G \cup {} /\ Z[c] = Z[c] /\ mem'[c + 1] = mem[c + 1]
    BY <1>8
  <2> HIDE DEF G
  <2> QED
    BY <1>4, <1>6, <2>1, ItemsStay
<1>12. pc'[t] = "idle" /\ chunk'[t].start = 0 /\ chunk'[t].size = 0
  BY <1>6 DEF Types
<1>13. Hand(t)' = {} /\ Held(t, C, Z, G)'
  BY <1>12 DEF Hand, Held, Holding
<1>14. Types'
  <2>1. 0 \in Addr /\ 0 \in Nat
    BY Sizes
  <2> QED
    BY <1>5, <1>6, <1>8, <2>1 DEF Types
<1> QED
  BY <1>4, <1>7, <1>9, <1>10, <1>11, <1>13, <1>14, Together

-----------------------------------------------------------------------------
(* The pool as reset() makes it.                                           *)

Whole ==
  /\ mem[0] = Tag(Size, "free") /\ mem[Size - 1] = Tag(Size, "free")
  /\ mem[1] = Ptr(Null) /\ mem[2] = Ptr(Null)
  /\ free = [c \in Classes |-> IF c = Class(Size) THEN 0 ELSE Null]
  /\ live = {}
  /\ \A t \in Threads : pc[t] = "idle" /\ chunk[t].start = 0 /\ chunk[t].size = 0

LEMMA WholeSound == Whole => Sound
<1> SUFFICES ASSUME Whole PROVE Sound
  OBVIOUS
<1> DEFINE C == {0, Size}
           Z == [a \in Addr |-> Size]
           F == {0}
           st == [a \in Addr |-> 0]
<1>1. Size \in Nat /\ Size >= 4 /\ 0 \in Addr /\ 1 \in Addr /\ 2 \in Addr /\ Addr \subseteq Nat /\ 0 # Null
  BY Sizes
<1>2. Z \in [Addr -> Nat] /\ Z[0] = Size /\ st \in [Addr -> Nat]
      /\ C \in SUBSET (0 .. Size) /\ F \in SUBSET (0 .. Size) /\ Chunks(C) = {0}
  BY <1>1 DEF Chunks
<1> HIDE DEF Z, st
<1>3. Tiling(C, Z)
  <2>1. /\ Z[0] >= MinChunk /\ 0 + Z[0] \in C
        /\ \A d \in C : d <= 0 \/ 0 + Z[0] <= d
    BY <1>1, <1>2, Sizes
  <2> QED
    BY <1>2, <2>1 DEF Tiling
<1>4. InHand = {}
  BY DEF Whole, InHand, Holding
<1>5. EndsTagged(C, Z, F, {})
  BY <1>1, <1>2 DEF EndsTagged, Whole
<1>6. PrevOf(0) = Null /\ NextOf(0) = Null
  BY <1>1 DEF Whole, PrevOf, NextOf, PtrAt, Ptr
<1>7. Class(Size) \in Classes
  BY <1>1, ClassOf, Sizes
<1>8. Lists(C, Z, F, st)
  BY <1>1, <1>2, <1>6, <1>7 DEF Lists, Linked, Headed, Whole
<1>9. Coalesced(Z, F)
  BY <1>1, <1>2 DEF Coalesced
<1>10. Placed(C, Z, F, {})
  BY DEF Placed, Whole
<1>11. \A t \in Threads : Held(t, C, Z, F)
  BY DEF Held, Whole, Holding
<1>12. Pool(C, Z, F, st)
  BY <1>3, <1>4, <1>5, <1>8, <1>9, <1>10, <1>11 DEF Pool
<1> QED
  BY <1>2, <1>12 DEF Sound

LEMMA ResetStep ==
  ASSUME Types, NEW C, NEW Z, NEW F, NEW st, Pool(C, Z, F, st), Reset
  PROVE  Types' /\ Sound'
<1>1. 0 \in Addr /\ 1 \in Addr /\ 2 \in Addr /\ Size - 1 \in Addr /\ Size - 1 # 2 /\ Size - 1 # 1
  BY Sizes
<1>2. \A t \in Threads : pc[t] = "idle" /\ chunk[t].start = 0 /\ chunk[t].size = 0
  BY DEF Reset, Pool, Held
<1>3. Whole'
  BY <1>1, <1>2 DEF Reset, Whole
<1>4. Types'
  BY <1>1 DEF Reset, Types
<1> QED
  BY <1>3, <1>4, WholeSound, PTL

LEMMA AtFirst == Init => IInv
<1> SUFFICES ASSUME Init PROVE IInv
  OBVIOUS
<1>1. 0 \in Addr /\ 1 \in Addr /\ 2 \in Addr /\ Size - 1 \in Addr /\ Size - 1 # 2 /\ Size - 1 # 1
      /\ 0 # 1 /\ 0 # 2 /\ 0 \in Nat
  BY Sizes
<1>2. Whole
  BY <1>1 DEF Init, Whole
<1>3. Types
  BY <1>1 DEF Init, Types
<1> QED
  BY <1>2, <1>3, WholeSound DEF IInv, Sound

LEMMA Kept ==
  ASSUME Mode = 1, IInv, [Next]_vars
  PROVE  IInv'
<1>1. Types
  BY DEF IInv
<1>2. PICK C, F \in SUBSET (0 .. Size), Z, st \in [Addr -> Nat] : Pool(C, Z, F, st)
  BY DEF IInv
<1>3. SUFFICES Types' /\ Sound'
  BY DEF IInv, Sound
<1>4. CASE \E t \in Threads : \E n \in Lengths : Pick(t, n)
  BY <1>1, <1>2, <1>4, PickKeeps
<1>5. CASE \E t \in Threads : (\E n \in Lengths : NoSpace(t, n)) \/ Refused(t)
  BY <1>1, <1>2, <1>5, RefusalKeeps
<1>6. CASE \E t \in Threads : Unlink(t)
  BY <1>1, <1>2, <1>6, UnlinkStep
<1>7. CASE \E t \in Threads : Split(t)
  BY <1>1, <1>2, <1>7, SplitStep
<1>8. CASE \E t \in Threads : Mark(t)
  BY <1>1, <1>2, <1>8, MarkStep
<1>9. CASE \E t \in Threads : \E x \in live : BeginRelease(t, x)
  BY <1>1, <1>2, <1>9, BeginStep
<1>10. CASE \E t \in Threads : CoaleseLeft(t)
  BY <1>1, <1>2, <1>10, LeftStep
<1>11. CASE \E t \in Threads : CoaleseRight(t)
  BY <1>1, <1>2, <1>11, RightStep
<1>12. CASE \E t \in Threads : EndRelease(t)
  BY <1>1, <1>2, <1>12, EndStep
<1>13. CASE Reset
  BY <1>1, <1>2, <1>13, ResetStep
<1>14. CASE UNCHANGED vars
  <2>1. Types'
    BY <1>1, <1>14 DEF Types, vars
  <2>2. InHand' = InHand /\ \A t \in Threads : Held(t, C, Z, F)'
    BY <1>2, <1>14 DEF InHand, Pool, Held, vars
  <2> QED
    BY <1>2, <1>14, <2>1, <2>2, Untouched DEF vars
<1> QED
  BY <1>4, <1>5, <1>6, <1>7, <1>8, <1>9, <1>10, <1>11, <1>12, <1>13, <1>14 DEF Next

\* Between any two steps the chunks tile the pool, the lists are linked both
\* ways, no two free chunks are neighbours, and each item has its chunk.
THEOREM Inductive ==
  ASSUME Mode = 1
  PROVE  Spec => []IInv
BY AtFirst, Kept, PTL DEF Spec

-----------------------------------------------------------------------------
(* What the walks of the properties find between operations.               *)

\* Walking the tags from the left visits every bound.
LEMMA StartsAre ==
  ASSUME NEW C, NEW Z, Tiling(C, Z), NEW F, EndsTagged(C, Z, F, {})
  PROVE  Starts = C
<1> DEFINE f == [p \in C |-> IF p >= Size THEN p ELSE p + Z[p]]
<1>1. C \in SUBSET Nat /\ 0 \in C /\ Size \in C /\ \A c \in C : c <= Size
  BY BoundsOf DEF Tiling
<1>2. ASSUME NEW p \in C
      PROVE  /\ p >= Size <=> p = Size
             /\ p # Size => /\ p \in Chunks(C) /\ SizeOf(p) = Z[p] /\ Z[p] \in Nat /\ Z[p] >= 4
                            /\ p + Z[p] \in C /\ \A d \in C : d <= p \/ p + Z[p] <= d
  <2>1. p >= Size <=> p = Size
    BY <1>1, Sizes
  <2>2. p # Size => p \in Chunks(C)
    BY DEF Chunks
  <2>3. p \in Chunks(C) => SizeOf(p) = Z[p]
    BY Reads
  <2>4. p \in Chunks(C) => Z[p] \in Nat /\ Z[p] >= 4 /\ p + Z[p] \in C
    BY ChunkRange
  <2>5. p \in Chunks(C) => \A d \in C : d <= p \/ p + Z[p] <= d
    BY Reach
  <2> QED
    BY <2>1, <2>2, <2>3, <2>4, <2>5
<1>3. f \in [C -> C] /\ \A p \in C : f[p] = IF p >= Size THEN p ELSE p + Z[p]
  BY <1>2
<1> HIDE DEF f
<1>4. PICK g : Walk(C, f, 0, MaxChunks, g)
  BY <1>1, <1>3, Iterate, Sizes
<1>5. /\ \A i \in 0 .. MaxChunks : g[i] \in C
      /\ g[0] = 0
      /\ \A i \in 1 .. MaxChunks : g[i] = IF g[i - 1] = Size THEN Size ELSE g[i - 1] + Z[g[i - 1]]
  <2>1. /\ g \in [0 .. MaxChunks -> C] /\ g[0] = 0
        /\ \A i \in 1 .. MaxChunks : g[i] = f[g[i - 1]]
    BY <1>4 DEF Walk
  <2>2. ASSUME NEW i \in 1 .. MaxChunks PROVE g[i - 1] \in C
    <3>1. i - 1 \in 0 .. MaxChunks
      BY Sizes
    <3> QED
      BY <2>1, <3>1
  <2> QED
    BY <1>2, <1>3, <2>1, <2>2
<1>6. g = [i \in 0 .. MaxChunks |-> IF i = 0 THEN 0
             ELSE LET p == g[i - 1] IN IF p >= Size THEN p ELSE p + SizeOf(p)]
  <2>1. ASSUME NEW i \in 0 .. MaxChunks, i # 0
        PROVE  g[i] = LET p == g[i - 1] IN IF p >= Size THEN p ELSE p + SizeOf(p)
    <3>1. i \in 1 .. MaxChunks /\ i - 1 \in 0 .. MaxChunks
      BY <2>1, Sizes
    <3>2. g[i - 1] \in C
      BY <1>5, <3>1
    <3> QED
      BY <1>2, <1>5, <3>1, <3>2
  <2>2. g \in [0 .. MaxChunks -> C]
    BY <1>4 DEF Walk
  <2> QED
    BY <1>5, <2>1, <2>2
<1>7. \E N : /\ N = [i \in 0 .. MaxChunks |-> IF i = 0 THEN 0
                       ELSE LET p == N[i - 1] IN IF p >= Size THEN p ELSE p + SizeOf(p)]
             /\ Starts = { N[i] : i \in 0 .. MaxChunks }
  BY <1>6 DEF Starts
<1>8. PICK N : /\ N = [i \in 0 .. MaxChunks |-> IF i = 0 THEN 0
                         ELSE LET p == N[i - 1] IN IF p >= Size THEN p ELSE p + SizeOf(p)]
               /\ Starts = { N[i] : i \in 0 .. MaxChunks }
  BY <1>7
\* Any walk by these rules is the same one.
<1>9. \A i \in 0 .. MaxChunks : N[i] = g[i]
  <2> DEFINE T == { i \in Nat : i <= MaxChunks /\ N[i] # g[i] }
  <2>1. T = {}
    <3> SUFFICES ASSUME T # {} PROVE FALSE
      OBVIOUS
    <3>1. PICK i \in T : \A j \in T : i <= j
      BY LeastElement
    <3>2. N[0] = 0
      BY <1>8, Sizes
    <3>3. i # 0
      BY <1>5, <3>1, <3>2
    <3>4. i - 1 \in Nat /\ i - 1 <= MaxChunks /\ i \in 1 .. MaxChunks /\ i \in 0 .. MaxChunks
      BY <3>1, <3>3, Sizes
    <3>5. N[i - 1] = g[i - 1]
      BY <3>1, <3>4
    <3>6. N[i] = LET p == N[i - 1] IN IF p >= Size THEN p ELSE p + SizeOf(p)
      BY <1>8, <3>3, <3>4
    <3>7. g[i] = LET p == g[i - 1] IN IF p >= Size THEN p ELSE p + SizeOf(p)
      BY <1>6, <3>3, <3>4
    <3> QED
      BY <3>1, <3>5, <3>6, <3>7
  <2> QED
    BY <2>1, Sizes
\* Each step advances by four words or has come to the end.
<1>10. \A i \in 0 .. MaxChunks : g[i] = Size \/ g[i] >= 4 * i
  <2> DEFINE T == { i \in Nat : i <= MaxChunks /\ ~(g[i] = Size \/ g[i] >= 4 * i) }
  <2>1. T = {}
    <3> SUFFICES ASSUME T # {} PROVE FALSE
      OBVIOUS
    <3>1. PICK i \in T : \A j \in T : i <= j
      BY LeastElement
    <3>2. i # 0
      BY <1>5, <3>1
    <3>3. i - 1 \in Nat /\ i - 1 <= MaxChunks /\ i \in 1 .. MaxChunks /\ i - 1 \in 0 .. MaxChunks
      BY <3>1, <3>2, Sizes
    <3>4. g[i - 1] = Size \/ g[i - 1] >= 4 * (i - 1)
      BY <3>1, <3>3
    <3>5. g[i - 1] \in C /\ g[i] = IF g[i - 1] = Size THEN Size ELSE g[i - 1] + Z[g[i - 1]]
      BY <1>5, <3>3
    <3>6. CASE g[i - 1] = Size
      BY <3>1, <3>5, <3>6
    <3>7. CASE g[i - 1] # Size
      <4>1. Z[g[i - 1]] \in Nat /\ Z[g[i - 1]] >= 4 /\ g[i - 1] \in Nat
        BY <1>1, <1>2, <3>5, <3>7
      <4>2. g[i] >= 4 * i
        BY <3>3, <3>4, <3>5, <3>7, <4>1
      <4> QED
        BY <3>1, <4>2
    <3> QED
      BY <3>6, <3>7
  <2> QED
    BY <2>1, Sizes
<1>11. g[MaxChunks] = Size
  <2>1. MaxChunks \in 0 .. MaxChunks
    BY Sizes
  <2>2. g[MaxChunks] \in C /\ (g[MaxChunks] = Size \/ g[MaxChunks] >= 4 * MaxChunks)
    BY <1>5, <1>10, <2>1
  <2> SUFFICES ASSUME g[MaxChunks] # Size PROVE FALSE
    OBVIOUS
  <2>3. /\ Z[g[MaxChunks]] \in Nat /\ Z[g[MaxChunks]] >= 4
        /\ g[MaxChunks] + Z[g[MaxChunks]] \in C
    BY <1>2, <2>2
  <2>4. g[MaxChunks] + Z[g[MaxChunks]] <= Size /\ g[MaxChunks] \in Nat
    BY <1>1, <2>2, <2>3
  <2> QED
    BY <2>2, <2>3, <2>4, Sizes
<1>12. ASSUME NEW c \in C PROVE \E i \in 0 .. MaxChunks : g[i] = c
  <2> DEFINE T == { i \in Nat : i <= MaxChunks /\ g[i] >= c }
  <2>1. T \in SUBSET Nat /\ T # {}
    <3>1. MaxChunks \in T
      BY <1>1, <1>11, Sizes
    <3> QED
      BY <3>1
  <2>2. PICK i \in T : \A j \in T : i <= j
    BY <2>1, LeastElement
  <2>3. i \in 0 .. MaxChunks /\ g[i] \in C /\ g[i] >= c /\ c \in Nat /\ g[i] \in Nat
    <3>1. i \in 0 .. MaxChunks /\ g[i] >= c
      BY <2>2, Sizes
    <3>2. g[i] \in C
      BY <1>5, <3>1
    <3> QED
      BY <1>1, <3>1, <3>2
  <2>4. CASE i = 0
    BY <1>5, <2>3, <2>4
  <2>5. CASE i # 0
    <3>1. i - 1 \in Nat /\ i - 1 <= MaxChunks /\ i \in 1 .. MaxChunks /\ i - 1 \in 0 .. MaxChunks
      BY <2>2, <2>5, Sizes
    <3>2. i - 1 \notin T
      BY <2>2, <3>1
    <3>3. g[i - 1] \in C /\ g[i - 1] \in Nat
      BY <1>1, <1>5, <3>1
    <3>4. g[i - 1] < c
      BY <2>3, <3>1, <3>2, <3>3
    <3>5. g[i - 1] # Size
      BY <1>1, <2>3, <3>3, <3>4, Sizes
    <3>6. g[i] = g[i - 1] + Z[g[i - 1]]
      BY <1>5, <3>1, <3>5
    <3>7. c <= g[i - 1] \/ g[i] <= c
      BY <1>2, <3>3, <3>5, <3>6
    <3> QED
      BY <2>3, <3>3, <3>4, <3>7
  <2> QED
    BY <2>4, <2>5
<1> QED
  BY <1>5, <1>8, <1>9, <1>12

\* More chunks than MaxChunks do not fit.
LEMMA FewChunks ==
  ASSUME NEW C, NEW Z, Tiling(C, Z), NEW n \in Nat, NEW h \in [0 .. n -> Chunks(C)],
         \A i, j \in 0 .. n : h[i] = h[j] => i = j
  PROVE  n < MaxChunks
<1> SUFFICES ASSUME n >= MaxChunks PROVE FALSE
  BY Sizes
<1> DEFINE S == 0 .. n
           T == 0 .. MaxChunks - 1
           q == [i \in S |-> h[i] \div 4]
<1>1. \A i \in S : h[i] \in Chunks(C)
  OBVIOUS
<1>2. ASSUME NEW c \in Chunks(C)
      PROVE  /\ c \div 4 \in T /\ c \div 4 \in Int /\ c \in Nat
             /\ 4 * (c \div 4) <= c /\ c < 4 * (c \div 4) + 4
  <2>1. c \in Nat /\ Z[c] \in Nat /\ Z[c] >= 4 /\ c + Z[c] <= Size
    <3>1. c \in Addr
      BY ChunkRange
    <3>2. c \in Nat
      BY <3>1, Sizes
    <3> QED
      BY <3>2, ChunkRange
  <2>2. c \div 4 \in Int /\ c = (4 * (c \div 4)) + (c % 4) /\ c % 4 \in 0 .. 3
    BY <2>1, ModDef
  <2> DEFINE d == c \div 4
             r == c % 4
  <2> HIDE DEF d, r
  <2>3. d \in Int /\ r \in 0 .. 3 /\ c = (4 * d) + r
    BY <2>2 DEF d, r
  <2>4. 4 * d <= c /\ c < 4 * d + 4 /\ d >= 0 /\ d <= MaxChunks - 1
    BY <2>1, <2>3, Sizes
  <2>5. d \in T
    BY <2>3, <2>4, Sizes
  <2> QED
    BY <2>1, <2>3, <2>4, <2>5 DEF d
<1>3. q \in [S -> T]
  BY <1>1, <1>2
<1>4. IsFiniteSet(S) /\ IsFiniteSet(T) /\ Cardinality(T) < Cardinality(S)
  <2>1. 0 \in Int /\ n \in Int /\ MaxChunks - 1 \in Int /\ MaxChunks \in Nat
    BY Sizes
  <2>2. IsFiniteSet(S) /\ Cardinality(S) = n + 1
    BY <2>1, FS_Interval
  <2>3. IsFiniteSet(T) /\ Cardinality(T) = IF 0 > MaxChunks - 1 THEN 0 ELSE MaxChunks - 1 - 0 + 1
    BY <2>1, FS_Interval
  <2> HIDE DEF S, T
  <2> QED
    BY <2>1, <2>2, <2>3
<1>5. PICK i, j \in S : i # j /\ q[i] = q[j]
  <2> HIDE DEF S, T, q
  <2> QED
    BY <1>3, <1>4, FS_PigeonHole
<1>6. h[i] \in Chunks(C) /\ h[j] \in Chunks(C) /\ h[i] # h[j]
  BY <1>1, <1>5
<1>7. h[i] \div 4 = h[j] \div 4
  BY <1>5
<1> DEFINE a == h[i]
           b == h[j]
           d == a \div 4
<1>8. /\ a \in Nat /\ b \in Nat /\ d \in Int
      /\ 4 * d <= a /\ a < 4 * d + 4 /\ 4 * d <= b /\ b < 4 * d + 4
  BY <1>2, <1>6, <1>7
<1>9. a <= b \/ b + Z[b] <= a
  BY <1>6, Reach DEF Chunks
<1>10. b <= a \/ a + Z[a] <= b
  BY <1>6, Reach DEF Chunks
<1>11. Z[a] \in Nat /\ Z[a] >= 4 /\ Z[b] \in Nat /\ Z[b] >= 4
  BY <1>6, ChunkRange
<1> HIDE DEF a, b, d
<1>12. a = b
  BY <1>8, <1>9, <1>10, <1>11
<1> QED
  BY <1>6, <1>12 DEF a, b

\* A list holds every free chunk of its class.
LEMMA ListedAre ==
  ASSUME NEW C, NEW Z, Tiling(C, Z), NEW F, NEW st, Lists(C, Z, F, st), NEW k \in Classes
  PROVE  Listed(k) = { c \in F : Class(Z[c]) = k }
<1> DEFINE N == Chain(k)
           K == { c \in F : Class(Z[c]) = k }
<1>1. /\ \A i \in 0 .. MaxChunks : N[i] \in K \cup {Null}
      /\ N[0] = free[k]
      /\ \A i \in 1 .. MaxChunks : N[i] = IF N[i - 1] = Null THEN Null ELSE NextOf(N[i - 1])
  BY ChainWalks
<1>2. /\ F \in SUBSET Chunks(C) /\ \A c \in F : st[c] \in Nat /\ c # Null
  BY ChunkRange, Sizes DEF Lists
<1>3. \A c \in F :
        /\ PrevOf(c) = Null => free[Class(Z[c])] = c
        /\ PrevOf(c) # Null => \E d \in F : /\ d = PrevOf(c) /\ NextOf(d) = c
                                            /\ Class(Z[d]) = Class(Z[c]) /\ st[d] < st[c]
        /\ NextOf(c) # Null => \E d \in F : /\ d = NextOf(c) /\ PrevOf(d) = c
  BY DEF Lists, Linked
<1>4. Listed(k) = { N[i] : i \in 0 .. MaxChunks } \ {Null}
  BY DEF Listed
<1> HIDE DEF N
<1> SUFFICES ASSUME NEW x \in K, \A i \in 0 .. MaxChunks : N[i] # x PROVE FALSE
  <2>1. \A x \in K : \E i \in 0 .. MaxChunks : N[i] = x
    OBVIOUS
  <2> QED
    BY <1>1, <1>2, <1>4, <2>1
\* The chunk nearest to the head that the walk misses.
<1> DEFINE M == { c \in K : \A i \in 0 .. MaxChunks : N[i] # c }
           T == { n \in Nat : \E c \in M : n = st[c] }
<1>5. T \in SUBSET Nat /\ T # {}
  <2>1. x \in M /\ st[x] \in Nat
    BY <1>2
  <2> QED
    BY <2>1
<1>6. PICK n \in T : \A m \in T : n <= m
  BY <1>5, LeastElement
<1>7. PICK y \in M : n = st[y]
  BY <1>6
<1>8. y \in F /\ Class(Z[y]) = k /\ \A i \in 0 .. MaxChunks : N[i] # y
  BY <1>7
<1>9. PrevOf(y) # Null
  <2>1. 0 \in 0 .. MaxChunks
    BY Sizes
  <2> QED
    BY <1>1, <1>3, <1>8, <2>1
<1>10. PICK d \in F : NextOf(d) = y /\ Class(Z[d]) = k /\ st[d] < st[y]
  BY <1>3, <1>8, <1>9
<1>11. d \notin M
  <2>1. d \in M => st[d] \in T
    BY <1>2
  <2>2. st[d] \in Nat /\ st[y] \in Nat
    BY <1>2, <1>8
  <2>3. d \in M => st[y] <= st[d]
    BY <1>6, <1>7, <2>1
  <2> QED
    BY <1>10, <2>2, <2>3
<1>12. PICK e \in 0 .. MaxChunks : N[e] = d
  BY <1>10, <1>11
<1>13. e = MaxChunks
  <2> SUFFICES ASSUME e # MaxChunks PROVE FALSE
    OBVIOUS
  <2>1. e + 1 \in 1 .. MaxChunks /\ e + 1 \in 0 .. MaxChunks /\ e + 1 - 1 = e
    BY Sizes
  <2>2. N[e + 1] = y
    BY <1>1, <1>2, <1>10, <1>12, <2>1
  <2> QED
    BY <1>8, <2>1, <2>2
\* The walk has not come to its end, so it has met as many chunks as fit.
<1>14. \A i \in 0 .. MaxChunks : N[i] # Null
  <2> DEFINE U == { i \in Nat : i <= MaxChunks /\ N[MaxChunks - i] = Null }
  <2>1. U = {}
    <3> SUFFICES ASSUME U # {} PROVE FALSE
      OBVIOUS
    <3>1. PICK i \in U : \A j \in U : i <= j
      BY LeastElement
    <3>2. i # 0
      BY <1>2, <1>12, <1>13, <3>1, Sizes
    <3>3. i - 1 \in Nat /\ i - 1 <= MaxChunks /\ MaxChunks - (i - 1) \in 1 .. MaxChunks
          /\ (MaxChunks - (i - 1)) - 1 = MaxChunks - i
      BY <3>1, <3>2, Sizes
    <3>4. N[MaxChunks - (i - 1)] = Null
      BY <1>1, <3>1, <3>3
    <3> QED
      BY <3>1, <3>3, <3>4
  <2> SUFFICES ASSUME NEW i \in 0 .. MaxChunks, N[i] = Null PROVE FALSE
    OBVIOUS
  <2>2. MaxChunks - i \in Nat /\ MaxChunks - i <= MaxChunks /\ MaxChunks - (MaxChunks - i) = i
    BY Sizes
  <2>3. MaxChunks - i \in U
    BY <2>2
  <2> QED
    BY <2>1, <2>3
<1>15. \A i \in 0 .. MaxChunks : N[i] \in F /\ st[N[i]] \in Nat
  BY <1>1, <1>2, <1>14
<1>16. ASSUME NEW i \in 1 .. MaxChunks PROVE st[N[i - 1]] < st[N[i]]
  <2>1. i \in 0 .. MaxChunks /\ i - 1 \in 0 .. MaxChunks
    BY Sizes
  <2>2. N[i - 1] \in F /\ N[i] \in F /\ N[i] = NextOf(N[i - 1]) /\ N[i] # Null
    BY <1>1, <1>14, <1>15, <2>1
  <2>3. PrevOf(N[i]) = N[i - 1]
    BY <1>3, <2>2
  <2> QED
    BY <1>2, <1>3, <2>2, <2>3
<1>17. \A j \in 0 .. MaxChunks : \A i \in 0 .. MaxChunks : i < j => st[N[i]] < st[N[j]]
  <2> DEFINE U == { j \in Nat : j <= MaxChunks /\ \E i \in 0 .. MaxChunks : i < j /\ ~(st[N[i]] < st[N[j]]) }
  <2>1. U = {}
    <3> SUFFICES ASSUME U # {} PROVE FALSE
      OBVIOUS
    <3>1. PICK j \in U : \A l \in U : j <= l
      BY LeastElement
    <3>2. PICK i \in 0 .. MaxChunks : i < j /\ ~(st[N[i]] < st[N[j]])
      BY <3>1
    <3>3. /\ i \in Nat /\ j \in 1 .. MaxChunks /\ j - 1 \in Nat /\ j - 1 <= MaxChunks
          /\ j - 1 \in 0 .. MaxChunks /\ j \in 0 .. MaxChunks
      BY <3>1, <3>2, Sizes
    <3>4. st[N[j - 1]] < st[N[j]]
      BY <1>16, <3>3
    <3>5. i = j - 1 \/ i < j - 1
      BY <3>2, <3>3
    <3>6. ~(j <= j - 1)
      BY <3>3
    <3>7. j - 1 \notin U
      BY <3>1, <3>6
    <3>8. i < j - 1 => st[N[i]] < st[N[j - 1]]
      BY <3>2, <3>3, <3>7
    <3>9. st[N[i]] \in Nat /\ st[N[j]] \in Nat /\ st[N[j - 1]] \in Nat
      BY <1>15, <3>2, <3>3
    <3> QED
      BY <3>2, <3>4, <3>5, <3>8, <3>9
  <2> QED
    BY <2>1, Sizes
<1> DEFINE h == [i \in 0 .. MaxChunks |-> N[i]]
<1>18. h \in [0 .. MaxChunks -> Chunks(C)]
  BY <1>2, <1>15
<1>19. \A i, j \in 0 .. MaxChunks : h[i] = h[j] => i = j
  <2> SUFFICES ASSUME NEW i \in 0 .. MaxChunks, NEW j \in 0 .. MaxChunks, N[i] = N[j] PROVE i = j
    OBVIOUS
  <2>1. ~(i < j) /\ ~(j < i)
    BY <1>15, <1>17
  <2> QED
    BY <2>1, Sizes
<1> HIDE DEF h
<1>20. PICK g : g = h
  OBVIOUS
<1>21. MaxChunks < MaxChunks
  <2>1. g \in [0 .. MaxChunks -> Chunks(C)] /\ \A i, j \in 0 .. MaxChunks : g[i] = g[j] => i = j
    BY <1>18, <1>19, <1>20
  <2> QED
    BY <2>1, FewChunks, Sizes
<1> QED
  BY <1>21, Sizes

\* The chunks that say they are free are those on the lists.
LEMMA FreeAre ==
  ASSUME NEW C, NEW Z, Tiling(C, Z), NEW F, NEW st, Lists(C, Z, F, st), EndsTagged(C, Z, F, {})
  PROVE  Starts = C /\ FreeChunks = F
<1>1. Starts = C
  BY StartsAre
<1>2. F \in SUBSET Chunks(C)
  BY DEF Lists
<1>3. \A c \in C : c < Size <=> c \in Chunks(C)
  BY BoundsOf, Sizes DEF Chunks
<1>4. \A c \in Chunks(C) : c \in C /\ (Free(c) <=> c \in F)
  BY Reads DEF Chunks
<1> QED
  BY <1>1, <1>2, <1>3, <1>4 DEF FreeChunks

LEMMA QuietPool ==
  ASSUME Quiet, NEW C, NEW Z, NEW F, NEW st, Pool(C, Z, F, st)
  PROVE  /\ Tiling(C, Z) /\ EndsTagged(C, Z, F, {}) /\ Lists(C, Z, F, st)
         /\ Coalesced(Z, F) /\ Placed(C, Z, F, {})
         /\ Starts = C /\ FreeChunks = F
<1>1. InHand = {}
  BY DEF Quiet, InHand, Holding
<1>2. /\ Tiling(C, Z) /\ EndsTagged(C, Z, F, {}) /\ Lists(C, Z, F, st)
      /\ Coalesced(Z, F) /\ Placed(C, Z, F, {})
  BY <1>1 DEF Pool
<1> QED
  BY <1>2, FreeAre

-----------------------------------------------------------------------------
(* The theorems.                                                           *)

LEMMA SoundTiles ==
  ASSUME NEW C, NEW Z, NEW F, NEW st, Pool(C, Z, F, st)
  PROVE  ChunksTile /\ FreeListsExact
<1> SUFFICES ASSUME Quiet PROVE ChunksTile /\ FreeListsExact
  BY DEF ChunksTile, FreeListsExact
<1>1. /\ Tiling(C, Z) /\ EndsTagged(C, Z, F, {}) /\ Lists(C, Z, F, st)
      /\ Coalesced(Z, F) /\ Starts = C /\ FreeChunks = F
  BY QuietPool
<1>2. F \in SUBSET Chunks(C) /\ Size \in C
  BY <1>1 DEF Lists, Tiling
<1>3. \A c \in Chunks(C) : /\ SizeOf(c) = Z[c] /\ mem[c][1] = "tag" /\ mem[c + Z[c] - 1] = mem[c]
                           /\ Z[c] \in Nat /\ Z[c] >= MinChunk
  BY <1>1, Reads, ChunkRange, Sizes
<1>4. ChunksTile
  <2>1. \A c \in Starts \ {Size} : mem[c][1] = "tag" /\ mem[c + SizeOf(c) - 1] = mem[c]
    BY <1>1, <1>3 DEF Chunks
  <2>2. \A c \in FreeChunks : c + SizeOf(c) \notin FreeChunks
    BY <1>1, <1>2, <1>3 DEF Coalesced
  <2> QED
    BY <1>1, <1>2, <2>1, <2>2 DEF ChunksTile
<1>5. \A k \in Classes : Listed(k) = { c \in F : Class(Z[c]) = k }
  BY <1>1, ListedAre
<1>6. UNION { Listed(k) : k \in Classes } = FreeChunks
  <2>1. \A c \in F : Class(Z[c]) \in Classes
    BY <1>2, <1>3, ClassOf
  <2> QED
    BY <1>1, <1>5, <2>1
<1>7. ASSUME NEW k \in Classes, NEW x \in Listed(k)
      PROVE  /\ Class(SizeOf(x)) = k
             /\ IF PrevOf(x) = Null THEN free[k] = x ELSE NextOf(PrevOf(x)) = x
  <2>1. x \in F /\ Class(Z[x]) = k
    BY <1>5
  <2>2. /\ PrevOf(x) = Null => free[Class(Z[x])] = x
        /\ PrevOf(x) # Null => NextOf(PrevOf(x)) = x
    BY <1>1, <2>1 DEF Lists, Linked
  <2> QED
    BY <1>2, <1>3, <2>1, <2>2
<1> QED
  BY <1>4, <1>6, <1>7 DEF FreeListsExact

\* Between the calls the chunks tile the pool exactly, with equal tags at both
\* ends and no two free ones side by side, and the lists of the classes hold the
\* free chunks, each in its class and linked both ways.
THEOREM PoolStaysSound ==
  ASSUME Mode = 1
  PROVE  Spec => []PoolSound
<1>1. IInv => PoolSound
  <2> SUFFICES ASSUME IInv PROVE PoolSound
    OBVIOUS
  <2>1. PICK C, F \in SUBSET (0 .. Size), Z, st \in [Addr -> Nat] : Pool(C, Z, F, st)
    BY DEF IInv
  <2>2. TypeOK
    <3>1. ASSUME NEW t \in Threads PROVE chunk[t].start \in Addr /\ chunk[t].start + chunk[t].size <= Size
      <4>1. CASE pc[t] \in { "idle", "refused" }
        BY <2>1, <4>1, Sizes DEF Pool, Held
      <4>2. CASE pc[t] \notin { "idle", "refused" }
        <5>1. pc[t] = "unlink" \/ pc[t] \in Holding
          BY <4>2 DEF IInv, Types, Holding
        <5>2. chunk[t].start \in Chunks(C) /\ Z[chunk[t].start] = chunk[t].size
          BY <2>1, <5>1 DEF Pool, Held, Lists
        <5>3. Tiling(C, Z)
          BY <2>1 DEF Pool
        <5> QED
          BY <5>2, <5>3, ChunkRange
      <4> QED
        BY <4>1, <4>2
    <3> QED
      BY <3>1 DEF IInv, Types, TypeOK
  <2> QED
    BY <2>1, <2>2, SoundTiles DEF PoolSound
<1> QED
  BY <1>1, Inductive, PTL

\* Items that are handed out never overlap, whatever is allocated and released.
THEOREM ItemsStayApart ==
  ASSUME Mode = 1
  PROVE  Spec => []ItemsApart
<1>1. IInv => ItemsApart
  <2> SUFFICES ASSUME IInv, NEW x \in live
               PROVE  /\ mem[x.start + 1] = Len(x.n)
                      /\ \A y \in live : x # y => (x.start + x.n + Overhead <= y.start
                                                   \/ y.start + y.n + Overhead <= x.start)
                      /\ Quiet => x.start \in Starts /\ ~Free(x.start) /\ SizeOf(x.start) >= x.n + Overhead
    BY DEF ItemsApart
  <2>1. PICK C, F \in SUBSET (0 .. Size), Z, st \in [Addr -> Nat] : Pool(C, Z, F, st)
    BY DEF IInv
  <2>2. Tiling(C, Z) /\ Placed(C, Z, F, InHand)
    BY <2>1 DEF Pool
  <2>3. \A y \in live : /\ y.start \in Chunks(C) /\ y.start \notin F /\ y.n \in Nat
                        /\ y.n + Overhead <= Z[y.start] /\ mem[y.start + 1] = Len(y.n)
                        /\ x.start = y.start => x = y
    BY <2>2 DEF Placed
  <2>4. ASSUME NEW y \in live, x # y
        PROVE  x.start + x.n + Overhead <= y.start \/ y.start + y.n + Overhead <= x.start
    <3>1. PICK a, b : a = x.start /\ b = y.start
      OBVIOUS
    <3>2. a \in Chunks(C) /\ b \in Chunks(C) /\ a # b
      BY <2>3, <2>4, <3>1
    <3>3. b <= a \/ a + Z[a] <= b
      BY <2>2, <3>2, Reach DEF Chunks
    <3>4. a <= b \/ b + Z[b] <= a
      BY <2>2, <3>2, Reach DEF Chunks
    <3>5. a \in Addr /\ Z[a] \in Nat
      BY <2>2, <3>2, ChunkRange
    <3>6. b \in Addr /\ Z[b] \in Nat
      BY <2>2, <3>2, ChunkRange
    <3>7. PICK m, n : m = x.n + Overhead /\ n = y.n + Overhead
      OBVIOUS
    <3>8. m \in Nat /\ n \in Nat /\ m <= Z[a] /\ n <= Z[b]
      BY SMTT(30), <2>3, <3>1, <3>7, Sizes
    <3>9. a + Z[a] <= b \/ b + Z[b] <= a
      BY <3>2, <3>3, <3>4, <3>5, <3>6, Sizes
    <3>10. a + m <= b \/ b + n <= a
      BY <3>5, <3>6, <3>8, <3>9, Sizes
    <3>11. a + m = x.start + x.n + Overhead /\ b + n = y.start + y.n + Overhead
      <4>1. PICK p \in Nat, q \in Nat : p = x.n /\ q = y.n
        BY <2>3
      <4>2. a \in Nat /\ b \in Nat
        BY <3>5, <3>6, Sizes
      <4>3. a + (p + 3) = a + p + 3 /\ b + (q + 3) = b + q + 3
        BY <4>1, <4>2
      <4> QED
        BY <3>1, <3>7, <4>1, <4>3, Sizes
    <3> QED
      BY <3>1, <3>10, <3>11
  <2>5. ASSUME Quiet
        PROVE  x.start \in Starts /\ ~Free(x.start) /\ SizeOf(x.start) >= x.n + Overhead
    <3>1. EndsTagged(C, Z, F, {}) /\ Starts = C
      BY <2>1, <2>5, QuietPool
    <3>2. PICK a : a = x.start
      OBVIOUS
    <3>3. a \in Chunks(C) /\ a \notin F /\ x.n + Overhead <= Z[a] /\ x.n \in Nat
      BY <2>3, <3>2
    <3>4. SizeOf(a) = Z[a] /\ ~Free(a) /\ Z[a] \in Nat
      BY <2>2, <3>1, <3>3, Reads, ChunkRange
    <3> QED
      BY <3>1, <3>2, <3>3, <3>4, Sizes DEF Chunks
  <2> QED
    BY <2>3, <2>4, <2>5
<1> QED
  BY <1>1, Inductive, PTL

\* allocate() refuses only when no free chunk is large enough, though it looks
\* into one class.
THEOREM RefusalsRight ==
  ASSUME Mode = 1
  PROVE  Spec => RefusesOnlyIfFull
<1>1. IInv /\ [Next]_vars =>
        [\A t \in Threads : (pc[t] = "idle" /\ pc'[t] = "refused" /\ Quiet) =>
           \A c \in FreeChunks : SizeOf(c) < want'[t] + Overhead]_vars
  <2> SUFFICES ASSUME IInv, Next, NEW t \in Threads, pc[t] = "idle", pc'[t] = "refused", Quiet,
                      NEW c \in FreeChunks
               PROVE  SizeOf(c) < want'[t] + Overhead
    OBVIOUS
  <2>1. Types
    BY DEF IInv
  <2>2. PICK n \in Lengths : NoSpace(t, n)
    <3>1. PICK s \in Threads :
            \/ \E n \in Lengths : Pick(s, n) \/ NoSpace(s, n)
            \/ Refused(s) \/ Unlink(s) \/ Split(s) \/ Mark(s)
            \/ \E x \in live : BeginRelease(s, x)
            \/ CoaleseLeft(s) \/ CoaleseRight(s) \/ EndRelease(s)
      BY DEF Next, Reset
    <3>2. s = t
      BY OneHand
    <3>3. ~(Refused(t) \/ Unlink(t) \/ Split(t) \/ Mark(t) \/ CoaleseLeft(t) \/ CoaleseRight(t) \/ EndRelease(t))
      BY <2>1 DEF Types, Refused, Unlink, Split, Mark, CoaleseLeft, CoaleseRight, EndRelease, Goto, Done
    <3>4. ~(\E x \in live : BeginRelease(t, x)) /\ ~(\E n \in Lengths : Pick(t, n))
      BY <2>1 DEF Types, BeginRelease, Pick, Goto
    <3> QED
      BY <3>1, <3>2, <3>3, <3>4
  <2>3. want'[t] = n /\ Fitting(n + Overhead) = {}
    BY <2>1, <2>2 DEF NoSpace, Types
  <2>4. PICK C, F \in SUBSET (0 .. Size), Z, st \in [Addr -> Nat] : Pool(C, Z, F, st)
    BY DEF IInv
  <2>5. /\ Tiling(C, Z) /\ EndsTagged(C, Z, F, {}) /\ Lists(C, Z, F, st) /\ FreeChunks = F
        /\ F \in SUBSET Chunks(C)
    <3>1. Tiling(C, Z) /\ EndsTagged(C, Z, F, {}) /\ Lists(C, Z, F, st) /\ FreeChunks = F
      BY <2>4, QuietPool
    <3> QED
      BY <3>1 DEF Lists
  <2>6. PICK need \in Nat : need = n + Overhead /\ need >= MinChunk
    <3>1. n \in Nat /\ n >= 2
      BY LengthAssumption
    <3> QED
      BY <3>1, Sizes
  <2>7. \A d \in F : SizeOf(d) = Z[d] /\ Z[d] \in Nat /\ Z[d] >= MinChunk /\ d # Null /\ Class(Z[d]) \in Classes
    <3>1. \A d \in F : SizeOf(d) = Z[d] /\ Z[d] \in Nat /\ Z[d] >= MinChunk /\ d # Null
      BY <2>5, Reads, ChunkRange, Sizes
    <3> QED
      BY <3>1, ClassOf
  <2> SUFFICES ASSUME Z[c] >= need PROVE FALSE
    BY <2>3, <2>5, <2>6, <2>7
  <2>8. c \in F /\ Z[c] \in Nat /\ Z[c] >= MinChunk
    BY <2>5, <2>7
  <2>9. Class(need) <= Class(Z[c]) /\ Class(Z[c]) \in Classes
    BY <2>6, <2>7, <2>8, ClassOrder
\* The list of a class that is not empty has a head.
  <2>10. ASSUME NEW d \in F PROVE Class(Z[d]) \in Classes /\ free[Class(Z[d])] # Null
    <3>1. Listed(Class(Z[d])) = { e \in F : Class(Z[e]) = Class(Z[d]) }
      BY <2>5, <2>7, ListedAre
    <3>2. d \in Listed(Class(Z[d]))
      BY <3>1
    <3>3. Class(Z[d]) \in Classes
      BY <2>7
    <3>4. PICK i \in 0 .. MaxChunks : Chain(Class(Z[d]))[i] = d
      BY <3>2 DEF Listed
    <3> SUFFICES ASSUME free[Class(Z[d])] = Null PROVE FALSE
      BY <3>3
    <3> DEFINE N == Chain(Class(Z[d]))
               U == { j \in Nat : j <= MaxChunks /\ N[j] # Null }
    <3>5. /\ N[0] = Null
          /\ \A j \in 1 .. MaxChunks : N[j] = IF N[j - 1] = Null THEN Null ELSE NextOf(N[j - 1])
      BY <2>5, <3>3, ChainWalks
    <3> HIDE DEF N
    <3>6. U # {}
      <4>1. i \in U
        BY <2>7, <3>4, Sizes DEF N
      <4> QED
        BY <4>1
    <3>7. PICK j \in U : \A l \in U : j <= l
      BY <3>6, LeastElement
    <3>8. j # 0
      BY <3>5, <3>7
    <3>9. j - 1 \in Nat /\ j - 1 <= MaxChunks /\ j \in 1 .. MaxChunks /\ ~(j <= j - 1)
      BY <3>7, <3>8, Sizes
    <3>10. N[j - 1] = Null
      BY <3>7, <3>9
    <3> QED
      BY <3>5, <3>7, <3>9, <3>10
  <2>11. Class(Z[c]) \in Usable(need)
    BY <2>8, <2>9, <2>10 DEF Usable
  <2>12. Usable(need) \in SUBSET Nat /\ Usable(need) # {}
    BY <2>11, Sizes DEF Usable
  <2>13. PICK k : k = Smallest(Usable(need))
    OBVIOUS
  <2>14. k \in Usable(need) /\ k <= Class(Z[c])
    BY <2>11, <2>12, <2>13, SmallestOf
  <2>15. k \in Classes /\ k >= Class(need) /\ free[k] # Null
    BY <2>14 DEF Usable
\* Some chunk of that class is large enough: c itself, or the first.
  <2>16. PICK d \in F : Class(Z[d]) = k /\ Z[d] >= need
    <3>1. PICK e \in F : e = free[k] /\ Class(Z[e]) = k
      BY <2>5, <2>15 DEF Lists, Headed
    <3>2. CASE k = Class(Z[c])
      BY <2>8, <3>2
    <3>3. CASE k # Class(Z[c])
      <4>1. Class(need) \in Int /\ Class(Z[c]) \in Int /\ k \in Int /\ k # NumClasses - 1
        BY <2>6, <2>9, <2>14, <2>15, <3>3, ClassOf, Sizes
      <4>2. Class(need) < k => need < Z[e]
        <5>1. PICK z \in Nat : z = Z[e] /\ z >= MinChunk
          BY <2>7, <3>1
        <5>2. Class(need) < Class(z) => need < z
          BY <2>6, <5>1, ClassOrder
        <5> QED
          BY <3>1, <5>1, <5>2
      <4>3. Class(need) = k => need = Z[e]
        BY <2>6, <2>7, <3>1, <4>1, ClassOrder
      <4>4. Z[e] >= need
        BY <2>6, <2>7, <2>15, <3>1, <4>1, <4>2, <4>3
      <4> QED
        BY <3>1, <4>4
    <3> QED
      BY <3>2, <3>3
  <2>17. d \in Listed(k)
    BY <2>5, <2>15, <2>16, ListedAre
  <2>18. PICK i \in 0 .. MaxChunks : Chain(k)[i] = d
    BY <2>17 DEF Listed
  <2>19. i \in Fitting(need)
    <3>1. Chain(k)[i] # Null /\ SizeOf(Chain(k)[i]) >= need
      BY <2>7, <2>16, <2>18
    <3> QED
      BY <2>12, <2>13, <3>1 DEF Fitting
  <2> QED
    BY <2>3, <2>6, <2>19
<1> QED
  BY <1>1, Inductive, PTL DEF Spec, RefusesOnlyIfFull
=============================================================================
