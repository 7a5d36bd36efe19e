------------------------- MODULE LTableChainsProofs -------------------------
(***************************************************************************)
(* Theorems about LTableChains, for any number of threads, keys, buckets   *)
(* and extra buckets, and buckets of any size.                             *)
(***************************************************************************)
EXTENDS LTableChains, WellFoundedInduction, SequenceTheorems, FiniteSetTheorems, TLAPS

-----------------------------------------------------------------------------
(* Least elements.                                                         *)

\* A set of naturals that is not empty has a least element.
LEMMA LeastElement ==
  ASSUME NEW T \in SUBSET Nat, T # {}
  PROVE  \E x \in T : \A y \in T : x <= y
<1>1. IsWellFoundedOn(OpToRel(<, Nat), Nat)
  BY NatLessThanWellFounded
<1>2. \A x, y \in Nat : x < y => <<x, y>> \in OpToRel(<, Nat)
  BY DEF OpToRel
<1>3. \E x \in T : \A y \in T : ~ (<<y, x>> \in OpToRel(<, Nat))
  BY <1>1, WFMin
<1> DEFINE R == OpToRel(<, Nat)
<1>4. \A x, y \in Nat : x < y => <<x, y>> \in R
  BY <1>2
<1>5. \E x \in T : \A y \in T : ~ (<<y, x>> \in R)
  BY <1>3
<1> HIDE DEF R
<1>6. PICK x \in T : \A y \in T : ~ (<<y, x>> \in R)
  BY <1>5
<1>7. ASSUME NEW y \in T PROVE x <= y
  <2>1. x \in Nat /\ y \in Nat
    OBVIOUS
  <2>2. ~(y < x)
    BY <1>4, <1>6, <2>1
  <2> QED
    BY <2>1, <2>2
<1> QED
  BY <1>7

-----------------------------------------------------------------------------
(* The inductive invariant.                                                *)

\* s leads from bucket b along the links of nx to the end of the chain.
IsPath(nx, s, b) ==
  /\ s \in Seq(Buckets) /\ Len(s) >= 1 /\ s[1] = b
  /\ \A i \in 1 .. Len(s) - 1 : nx[s[i]] = s[i + 1]
  /\ nx[s[Len(s)]] = Nil

\* Where a thread is.
Inserting == { "allocate", "publish" }
Growing == { "grow", "unlink", "link" }
Filling == { "fill", "push again", "head again" }
Freeing == { "push", "push again", "head", "head again" }
Inside ==  \* the bucket's lock is held
  { "find", "moved", "detach", "unlock" } \cup Inserting \cup Growing \cup Filling \cup Freeing
Handing == { "unlink", "link" } \cup Freeing
AtList == { "unlink", "link", "head", "head again" }
Walking == { "scan", "compare", "load" }
Reading == Walking \cup { "hit", "miss" }
PCs == Inside \cup Reading \cup { "idle", "lock", "release", "begin" }

Types ==
  /\ setting \in Settings
  /\ next \in [Buckets -> Extra \cup {Nil}]
  /\ slots \in [Buckets -> [Indices -> Offsets \cup {Nil}]]
  /\ free \in Extra \cup {Nil}
  /\ live \subseteq setting.room
  /\ mem \in [Offsets -> [key : Keys \cup {Nil}, v : Values \cup {Nil}]]
  /\ cur \in [Keys -> Values \cup {Nil}]
  /\ pc \in [Threads -> PCs]
  /\ hand \in [Threads -> Extra \cup {Nil}]
  /\ loc \in [Threads -> [b : Buckets \cup {Nil}, i : Nat]]
  /\ old \in [Threads -> Offsets \cup {Nil}]
  /\ DOMAIN call = Threads /\ DOMAIN item = Threads
  /\ DOMAIN same = Threads /\ DOMAIN buf = Threads

\* A call in progress.
CallOK(t) ==
  /\ pc[t] \in Inside \cup { "lock", "release" } =>
       /\ Key(t) \in Keys /\ call[t].op \in { "set", "add", "del" }
       /\ call[t].op # "del" => call[t].v \in Values
  /\ pc[t] \in Reading \cup { "begin" } => Key(t) \in Keys /\ call[t].op = "get"
  /\ pc[t] \in Inserting \cup Growing => call[t].op # "del"
  /\ pc[t] \in Walking => loc[t].b \in Buckets /\ loc[t].i >= 1

\* The bucket's lock is held by one thread.
Locks ==
  /\ \A t \in Threads : pc[t] \in Inside => B(t) \in locked
  /\ \A t, u \in Threads : t # u /\ pc[t] \in Inside /\ pc[u] \in Inside => B(t) # B(u)
  /\ \A t \in Threads : pc[t] \in AtList => flock = t

\* The chains and the free list are apart, and the buckets that threads move
\* between them are in neither.
Paths ==
  /\ \A b \in Main : IsPath(next, Chain(b), b)
  /\ free # Nil => IsPath(next, Chain(free), free)
Apart ==
  /\ \A b, c \in Main : b # c => \A x \in Linked(b) : x \notin Linked(c)
  /\ \A b \in Main : \A x \in Linked(b) : x \notin FreeOnes
HandOK(t) ==
  /\ (pc[t] \in Handing) <=> (hand[t] # Nil)
  /\ \A b \in Main : hand[t] \notin Linked(b)
  /\ pc[t] = "unlink" => hand[t] = free
  /\ pc[t] \in Handing \ {"unlink"} => hand[t] \notin FreeOnes
  /\ pc[t] = "link" => next[hand[t]] = Nil
  /\ pc[t] \in { "head", "head again" } => next[hand[t]] = free
Hands ==
  /\ \A t \in Threads : HandOK(t)
  /\ \A t, u \in Threads : t # u /\ hand[t] # Nil => hand[t] # hand[u]
Cover ==
  \A x \in Buckets :
    \/ \E b \in Main : x \in Linked(b)
    \/ (x \in FreeOnes \/ \E t \in Threads : hand[t] = x) /\ \A i \in Indices : slots[x][i] = Nil

\* What the items of a chain say about the keys of its bucket.
Holds(x, i, k) == slots[x][i] # Nil /\ mem[slots[x][i]].key = k
Items(b) ==
  /\ \A x \in Linked(b), i \in Indices : slots[x][i] # Nil =>
       LET o == slots[x][i]
           k == mem[o].key
       IN  o \in live /\ k \in Keys /\ BucketOf[k] = b /\ cur[k] # Nil /\ mem[o].v = cur[k]
  /\ \A x, y \in Linked(b), i, j \in Indices :
       slots[x][i] # Nil /\ slots[y][j] # Nil /\ mem[slots[x][i]].key = mem[slots[y][j]].key
         => slots[x][i] = slots[y][j]
  /\ \A k \in Keys : BucketOf[k] = b /\ cur[k] # Nil =>
       \E x \in Linked(b), i \in Indices : Holds(x, i, k)

\* An item is in one place of the chain, except while fill_hole() copies it.
IsAt(t, x, i) == loc[t].b = x /\ loc[t].i = i
Once(b) ==
  \A x, y \in Linked(b), i, j \in Indices :
    slots[x][i] # Nil /\ slots[x][i] = slots[y][j] =>
      \/ x = y /\ i = j
      \/ \E t \in Threads : pc[t] = "moved" /\ B(t) = b /\ (IsAt(t, x, i) \/ IsAt(t, y, j))

\* Only the last bucket has free slots, except for the hole that fill_hole()
\* is about to fill.
Packed(b) ==
  \A x \in Linked(b), i \in Indices :
    next[x] # Nil /\ slots[x][i] = Nil =>
      \E t \in Threads : pc[t] \in Filling /\ B(t) = b /\ IsAt(t, x, i)

\* What a mutator knows of the chain it has locked.
Placed(t) == loc[t].b \in Linked(B(t)) /\ loc[t].i \in Indices
AtLoc(t) == slots[loc[t].b][loc[t].i]
Mut(t) ==
  /\ pc[t] \notin Inserting \cup { "unlock", "release" } => old[t] = Nil
  /\ pc[t] = "release" => old[t] # Nil
  /\ pc[t] \in Inserting =>
       /\ Placed(t) /\ AtLoc(t) = old[t]
       /\ old[t] = Nil => cur[Key(t)] = Nil
       /\ old[t] # Nil => mem[old[t]].key = Key(t)
  /\ pc[t] \in Growing =>
       /\ Placed(t) /\ next[loc[t].b] = Nil /\ cur[Key(t)] = Nil
       /\ \A x \in Linked(B(t)), i \in Indices : slots[x][i] # Nil
  /\ pc[t] \in Filling => Placed(t) /\ AtLoc(t) = Nil
  /\ pc[t] = "moved" =>
       /\ Placed(t) /\ next[loc[t].b] # Nil /\ AtLoc(t) # Nil
       /\ \A x \in Linked(B(t)) : next[x] = Nil =>
            Used(x) # {} /\ slots[x][Smallest(Used(x))] = AtLoc(t)
  /\ pc[t] = "detach" =>
       /\ Placed(t) /\ next[loc[t].b] # Nil
       /\ \A x \in Linked(B(t)), i \in Indices : next[x] = Nil => slots[x][i] = Nil

\* The items that a thread has to itself.
Held(t) ==
  CASE pc[t] = "publish" -> { item[t] }
    [] pc[t] \in { "unlock", "release" } -> { old[t] } \ {Nil}
    [] OTHER -> {}
Pool ==
  /\ \A t \in Threads : \A o \in Held(t) :
       /\ o \in live /\ \A x \in Buckets, i \in Indices : slots[x][i] # o
       /\ \A u \in Threads : u # t => o \notin Held(u)
  /\ \A t \in Threads :
       pc[t] = "publish" => mem[item[t]] = [key |-> Key(t), v |-> call[t].v]

\* What a reader whose version has not changed knows.
Seen(t, n) ==
  /\ loc[t].b = Chain(B(t))[n]
  /\ \A m \in 1 .. n - 1, i \in Indices : ~Holds(Chain(B(t))[m], i, Key(t))
  /\ \A i \in Indices : i < loc[t].i => ~Holds(loc[t].b, i, Key(t))
Reader(t) ==
  pc[t] \in Reading /\ same[t] =>
    /\ B(t) \notin locked
    /\ pc[t] \in { "scan", "compare" } => \E n \in 1 .. Len(Chain(B(t))) : Seen(t, n)
    /\ pc[t] = "compare" => Placed(t) /\ AtLoc(t) = item[t] /\ item[t] # Nil
    /\ pc[t] = "load" => Placed(t) /\ Holds(loc[t].b, loc[t].i, Key(t))
    /\ pc[t] = "hit" => buf[t] = cur[Key(t)]
    /\ pc[t] = "miss" => cur[Key(t)] = Nil

IInv ==
  /\ Types /\ Locks /\ Paths /\ Apart /\ Hands /\ Cover /\ Pool
  /\ \A t \in Threads : CallOK(t) /\ Mut(t) /\ Reader(t)
  /\ \A b \in Main : Items(b) /\ Once(b) /\ Packed(b)

-----------------------------------------------------------------------------
(* Paths.                                                                  *)

\* An interval of naturals has as many members as it is long.
LEMMA UpTo ==
  ASSUME NEW n \in Nat
  PROVE  IsFiniteSet(1 .. n) /\ Cardinality(1 .. n) = n
<1>1. /\ IsFiniteSet(1 .. n)
      /\ Cardinality(1 .. n) = IF 1 > n THEN 0 ELSE n - 1 + 1
  <2>1. 1 \in Int /\ n \in Int
    OBVIOUS
  <2> QED
    BY <2>1, FS_Interval
<1>2. (IF 1 > n THEN 0 ELSE n - 1 + 1) = n
  OBVIOUS
<1> QED
  BY <1>1, <1>2

\* Buckets are numbered from 1, and a link to Nil leads to none.
LEMMA BucketIds ==
  /\ Nil \notin Buckets /\ Nil \notin Extra /\ Nil \notin Offsets /\ Nil \notin Values
  /\ Main \subseteq Buckets /\ Extra \subseteq Buckets /\ Buckets \subseteq Nat
  /\ IsFiniteSet(Extra) /\ Cardinality(Extra) \in Nat /\ BucketSize \in Nat \ {0}
  /\ Offsets \subseteq Nat /\ Indices \subseteq Nat /\ 1 \in Indices
  /\ \A b \in Main : b \notin Extra
  /\ \A k \in Keys : BucketOf[k] \in Main
BY ChainsAssumption, FS_CardinalityType DEF Buckets, Indices, Nil

\* The members of a sequence.
LEMMA SeqPart ==
  ASSUME NEW S, NEW s \in Seq(S)
  PROVE  Len(s) \in Nat /\ DOMAIN s = 1 .. Len(s) /\ \A i \in 1 .. Len(s) : s[i] \in S
BY LenProperties, ElementOfSeq

\* Two sequences of the same members are equal.
LEMMA SeqSame ==
  ASSUME NEW S, NEW s \in Seq(S), NEW t \in Seq(S), Len(s) = Len(t),
         \A i \in 1 .. Len(s) : s[i] = t[i]
  PROVE  s = t
BY SeqEqual

\* What a path is made of.
LEMMA PathParts ==
  ASSUME NEW nx, NEW s, NEW b, IsPath(nx, s, b)
  PROVE  /\ Len(s) \in Nat /\ Len(s) >= 1
         /\ \A i \in 1 .. Len(s) : s[i] \in Buckets
         /\ \A i \in 1 .. Len(s) : IF i = Len(s) THEN nx[s[i]] = Nil
                                   ELSE nx[s[i]] = s[i + 1] /\ nx[s[i]] # Nil
<1>1. /\ Len(s) \in Nat /\ Len(s) >= 1 /\ \A i \in 1 .. Len(s) : s[i] \in Buckets
  BY SeqPart DEF IsPath
<1>2. ASSUME NEW i \in 1 .. Len(s)
      PROVE  IF i = Len(s) THEN nx[s[i]] = Nil ELSE nx[s[i]] = s[i + 1] /\ nx[s[i]] # Nil
  <2>1. CASE i = Len(s)
    BY <2>1 DEF IsPath
  <2>2. CASE i # Len(s)
    <3>1. i \in 1 .. Len(s) - 1 /\ i + 1 \in 1 .. Len(s)
      BY <1>1, <2>2
    <3> QED
      BY <1>1, <2>2, <3>1, BucketIds DEF IsPath
  <2> QED
    BY <2>1, <2>2
<1> QED
  BY <1>1, <1>2

\* A path that ends visits no bucket twice.
LEMMA PathOnce ==
  ASSUME NEW nx, NEW s, NEW b, IsPath(nx, s, b),
         NEW i \in 1 .. Len(s), NEW j \in 1 .. Len(s), s[i] = s[j]
  PROVE  i = j
<1> DEFINE L == Len(s)
           T == { n \in Nat : \E p, q \in 1 .. L : p < q /\ s[p] = s[q] /\ L - q = n }
<1>1. L \in Nat /\ L >= 1
  BY PathParts
<1>2. \A p \in 1 .. L : IF p = L THEN nx[s[p]] = Nil ELSE nx[s[p]] = s[p + 1] /\ nx[s[p]] # Nil
  BY PathParts
<1> SUFFICES ASSUME i # j PROVE FALSE
  OBVIOUS
<1> HIDE DEF L
<1>3. T # {}
  <2>1. \E p, q \in 1 .. L : p < q /\ s[p] = s[q]
    BY <1>1 DEF L
  <2>2. PICK p, q \in 1 .. L : p < q /\ s[p] = s[q]
    BY <2>1
  <2>3. L - q \in T
    BY <1>1, <2>2
  <2> QED
    BY <2>3
<1>4. PICK n \in T : \A m \in T : n <= m
  <2>1. T \in SUBSET Nat
    OBVIOUS
  <2> HIDE DEF T
  <2> QED
    BY <1>3, <2>1, LeastElement
<1>5. PICK p, q \in 1 .. L : p < q /\ s[p] = s[q] /\ L - q = n
  BY <1>4
<1>6. q # L
  BY SMTT(30), <1>1, <1>2, <1>5
<1>7. s[p + 1] = s[q + 1]
  BY <1>1, <1>2, <1>5, <1>6
<1>8. n - 1 \in T
  <2>1. p + 1 \in 1 .. L /\ q + 1 \in 1 .. L /\ p + 1 < q + 1 /\ L - (q + 1) = n - 1 /\ n - 1 \in Nat
    BY <1>1, <1>5, <1>6
  <2> QED
    BY <1>7, <2>1
<1>9. n \in Nat
  BY <1>4
<1> HIDE DEF T
<1> QED
  BY <1>4, <1>8, <1>9

\* A path has one bucket that is not an extra bucket, at most.
LEMMA PathShort ==
  ASSUME NEW nx, nx \in [Buckets -> Extra \cup {Nil}], NEW s, NEW b, IsPath(nx, s, b)
  PROVE  Len(s) - 1 <= Cardinality(Extra)
<1> DEFINE n == Len(s) - 1
           f == [i \in 1 .. n |-> s[i + 1]]
<1>1. n \in Nat
  BY PathParts
<1>2. ASSUME NEW i \in 1 .. n PROVE f[i] \in Extra /\ i + 1 \in 1 .. Len(s)
  <2>1. i \in 1 .. Len(s) /\ i # Len(s) /\ i + 1 \in 1 .. Len(s)
    BY <1>1, PathParts
  <2>2. nx[s[i]] = s[i + 1] /\ nx[s[i]] # Nil /\ s[i] \in Buckets
    BY <2>1, PathParts
  <2> QED
    BY <2>1, <2>2
<1>3. ASSUME NEW i \in 1 .. n, NEW j \in 1 .. n, f[i] = f[j] PROVE i = j
  <2>1. i + 1 = j + 1
    BY <1>2, <1>3, PathOnce
  <2> QED
    BY <2>1
<1>4. f \in Injection(1 .. n, Extra)
  <2>1. f \in [1 .. n -> Extra]
    BY <1>2
  <2> QED
    BY <1>3, <2>1 DEF Injection, IsInjective
<1> HIDE DEF n, f
<1>5. Cardinality(1 .. n) <= Cardinality(Extra)
  BY <1>4, BucketIds, FS_Injection
<1>6. n <= Cardinality(Extra)
  BY <1>1, <1>5, UpTo
<1> QED
  BY <1>6 DEF n

\* Chain, of any links.
ChainOf(nx, b) ==
  LET walk[n \in 0 .. Cardinality(Extra)] ==
        IF n = 0 THEN <<b>>
        ELSE LET w == walk[n - 1]
             IN  IF nx[w[Len(w)]] = Nil THEN w ELSE Append(w, nx[w[Len(w)]])
  IN  walk[Cardinality(Extra)]

\* The first n buckets of a path are a sequence.
LEMMA PathPrefix ==
  ASSUME NEW nx, NEW s, NEW b, IsPath(nx, s, b), NEW n \in 1 .. Len(s)
  PROVE  LET p == [i \in 1 .. n |-> s[i]]
         IN  p \in Seq(Buckets) /\ Len(p) = n /\ p[n] = s[n] /\ p[1] = b
<1> DEFINE p == [i \in 1 .. n |-> s[i]]
<1>1. n \in Nat /\ n >= 1 /\ n <= Len(s) /\ Len(s) \in Nat /\ \A i \in 1 .. n : s[i] \in Buckets
  BY PathParts
<1>2. p \in [1 .. n -> Buckets]
  BY <1>1
<1>3. p \in Seq(Buckets)
  BY <1>1, <1>2, SeqDef
<1>4. Len(p) = n
  <2>1. DOMAIN p = 1 .. n /\ DOMAIN p = 1 .. Len(p) /\ Len(p) \in Nat
    BY <1>3, SeqPart
  <2> HIDE DEF p
  <2> QED
    BY <1>1, <2>1
<1>5. p[n] = s[n] /\ p[1] = b
  BY <1>1 DEF IsPath
<1> QED
  BY <1>3, <1>4, <1>5

\* The chain from a bucket on is the path from there.
LEMMA ChainIs ==
  ASSUME NEW nx, nx \in [Buckets -> Extra \cup {Nil}], NEW s, NEW b, IsPath(nx, s, b)
  PROVE  ChainOf(nx, b) = s
<1> DEFINE L == Len(s)
           C == Cardinality(Extra)
           m(n) == IF n + 1 <= L THEN n + 1 ELSE L
           pre(k) == [i \in 1 .. k |-> s[i]]
           Step(w) == IF nx[w[Len(w)]] = Nil THEN w ELSE Append(w, nx[w[Len(w)]])
           walk == CHOOSE w : w = [n \in 0 .. C |-> IF n = 0 THEN <<b>> ELSE Step(w[n - 1])]
<1>1. L \in Nat /\ L >= 1 /\ C \in Nat /\ L - 1 <= C
  BY PathParts, PathShort, BucketIds
<1>2. \A k \in 1 .. L : pre(k) \in Seq(Buckets) /\ Len(pre(k)) = k /\ pre(k)[k] = s[k]
  BY PathPrefix
<1>3. pre(1) = <<b>>
  <2>1. <<b>> \in Seq(Buckets) /\ Len(<<b>>) = 1 /\ <<b>>[1] = b /\ s[1] = b
    BY PathParts DEF IsPath
  <2>2. pre(1) \in Seq(Buckets) /\ Len(pre(1)) = 1 /\ pre(1)[1] = b
    BY <1>1, <1>2, <2>1
  <2> HIDE DEF pre
  <2>3. \A i \in 1 .. Len(pre(1)) : pre(1)[i] = <<b>>[i]
    BY <2>1, <2>2
  <2> QED
    BY <2>1, <2>2, <2>3, SeqSame
<1>4. ASSUME NEW n \in 1 .. C PROVE Step(pre(m(n - 1))) = pre(m(n))
  <2> DEFINE k == m(n - 1)
             q == pre(k)
  <2>1. k \in 1 .. L /\ k \in Nat
    BY <1>1
  <2>2. q \in Seq(Buckets) /\ Len(q) = k /\ q[Len(q)] = s[k]
    BY <1>2, <2>1
  <2>3. IF k = L THEN nx[s[k]] = Nil ELSE nx[s[k]] = s[k + 1] /\ nx[s[k]] # Nil
    BY <2>1, PathParts
  <2>4. CASE k = L
    <3>1. m(n) = L
      BY <1>1, <2>4
    <3>2. Step(q) = q
      BY <2>2, <2>3, <2>4
    <3> QED
      BY <2>4, <3>1, <3>2
  <2>5. CASE k # L
    <3>1. k = n /\ m(n) = n + 1 /\ k + 1 \in 1 .. L
      BY <1>1, <2>1, <2>5
    <3>2. Step(q) = Append(q, s[k + 1])
      BY <2>2, <2>3, <2>5
    <3>3. pre(k + 1) \in Seq(Buckets) /\ Len(pre(k + 1)) = k + 1 /\ s[k + 1] \in Buckets
      BY <1>2, <3>1, PathParts
    <3>4. /\ Append(q, s[k + 1]) \in Seq(Buckets) /\ Len(Append(q, s[k + 1])) = k + 1
          /\ \A i \in 1 .. k : Append(q, s[k + 1])[i] = q[i]
          /\ Append(q, s[k + 1])[k + 1] = s[k + 1]
      <4> HIDE DEF q, k, pre
      <4> QED
        BY <2>2, <3>3, AppendProperties
    <3>5. \A i \in 1 .. k + 1 : Append(q, s[k + 1])[i] = pre(k + 1)[i]
      <4>1. \A i \in 1 .. k : q[i] = s[i]
        OBVIOUS
      <4>2. \A i \in 1 .. k + 1 : pre(k + 1)[i] = s[i] /\ (i = k + 1 \/ i \in 1 .. k)
        BY <2>1
      <4> HIDE DEF q, k, pre
      <4> QED
        BY <3>4, <4>1, <4>2
    <3>6. Append(q, s[k + 1]) = pre(k + 1)
      <4> HIDE DEF q, k, pre
      <4> QED
        BY <3>3, <3>4, <3>5, SeqSame
    <3> QED
      BY <3>1, <3>2, <3>6
  <2> QED
    BY <2>4, <2>5
<1>5. m(0) = 1 /\ m(C) = L
  BY <1>1
<1> HIDE DEF pre, Step, m
<1>6. walk = [n \in 0 .. C |-> IF n = 0 THEN <<b>> ELSE Step(walk[n - 1])]
  <2> DEFINE g == [n \in 0 .. C |-> pre(m(n))]
  <2>1. \A n \in 0 .. C : g[n] = IF n = 0 THEN <<b>> ELSE Step(g[n - 1])
    <3> SUFFICES ASSUME NEW n \in 0 .. C
                 PROVE  g[n] = IF n = 0 THEN <<b>> ELSE Step(g[n - 1])
      OBVIOUS
    <3>1. CASE n = 0
      BY <1>3, <1>5, <3>1
    <3>2. CASE n # 0
      <4>1. n \in 1 .. C /\ n - 1 \in 0 .. C
        BY <1>1, <3>2
      <4>2. g[n - 1] = pre(m(n - 1)) /\ g[n] = pre(m(n))
        BY <4>1
      <4> QED
        BY <1>4, <3>2, <4>1, <4>2
    <3> QED
      BY <3>1, <3>2
  <2>2. g = [n \in 0 .. C |-> IF n = 0 THEN <<b>> ELSE Step(g[n - 1])]
    BY <2>1
  <2> HIDE DEF g
  <2> QED
    BY <2>2
<1>7. ChainOf(nx, b) = walk[C]
  BY DEF ChainOf, Step
<1> HIDE DEF walk
<1> DEFINE T == { n \in Nat : n <= C /\ walk[n] # pre(m(n)) }
<1>8. T = {}
  <2> SUFFICES ASSUME T # {} PROVE FALSE
    OBVIOUS
  <2>1. PICK n \in T : \A k \in T : n <= k
    <3>1. T \in SUBSET Nat
      OBVIOUS
    <3> HIDE DEF T
    <3> QED
      BY <3>1, LeastElement
  <2>2. n # 0
    <3>1. walk[0] = <<b>>
      BY <1>1, <1>6
    <3> QED
      BY <1>3, <1>5, <2>1, <3>1
  <2>3. n - 1 \in Nat /\ n - 1 <= C /\ n \in 1 .. C /\ ~(n <= n - 1)
    BY <1>1, <2>1, <2>2
  <2>4. walk[n - 1] = pre(m(n - 1))
    BY <2>1, <2>3
  <2>5. walk[n] = Step(walk[n - 1])
    BY <1>6, <2>2, <2>3
  <2> QED
    BY <1>4, <2>1, <2>3, <2>4, <2>5
<1>9. walk[C] = pre(L)
  BY <1>1, <1>5, <1>8
<1>10. pre(L) = s
  <2>1. pre(L) \in Seq(Buckets) /\ Len(pre(L)) = L /\ s \in Seq(Buckets)
    BY <1>1, <1>2 DEF IsPath
  <2>2. \A i \in 1 .. L : pre(L)[i] = s[i]
    BY DEF pre
  <2> HIDE DEF L
  <2> QED
    BY <2>1, <2>2, SeqSame DEF L
<1> QED
  BY <1>7, <1>9, <1>10

\* The members of a chain, of any links; and that it is sound.
MembersOf(nx, b) == { ChainOf(nx, b)[n] : n \in 1 .. Len(ChainOf(nx, b)) }
Good(nx, b) == IsPath(nx, ChainOf(nx, b), b)
Links == [Buckets -> Extra \cup {Nil}]

Points(f, n) == { f[i] : i \in 1 .. n }

\* A path given by its buckets, one after the other.
LEMMA FunPath ==
  ASSUME NEW nx \in Links, NEW b, NEW n \in Nat \ {0}, NEW f \in [1 .. n -> Buckets],
         f[1] = b, \A i \in 1 .. n - 1 : nx[f[i]] = f[i + 1], nx[f[n]] = Nil
  PROVE  /\ Good(nx, b) /\ ChainOf(nx, b) = f /\ Len(f) = n
         /\ MembersOf(nx, b) = Points(f, n)
<1>1. f \in Seq(Buckets)
  BY SeqDef
<1>2. Len(f) = n
  <2>1. DOMAIN f = 1 .. n /\ DOMAIN f = 1 .. Len(f) /\ Len(f) \in Nat
    BY <1>1, SeqPart
  <2> QED
    BY <2>1
<1>3. IsPath(nx, f, b)
  BY <1>1, <1>2 DEF IsPath
<1>4. ChainOf(nx, b) = f
  BY <1>3, ChainIs DEF Links
<1> QED
  BY <1>2, <1>3, <1>4 DEF Good, MembersOf, Points

\* The buckets of a chain, numbered.
LEMMA GoodParts ==
  ASSUME NEW nx \in Links, NEW b, Good(nx, b)
  PROVE  LET s == ChainOf(nx, b)
             n == Len(s)
         IN  /\ n \in Nat \ {0} /\ s[1] = b
             /\ \A i \in 1 .. n : s[i] \in MembersOf(nx, b) /\ s[i] \in Buckets
             /\ \A x \in MembersOf(nx, b) : \E i \in 1 .. n : x = s[i]
             /\ \A i \in 1 .. n : IF i = n THEN nx[s[i]] = Nil
                                  ELSE nx[s[i]] = s[i + 1] /\ nx[s[i]] # Nil
             /\ \A i, j \in 1 .. n : s[i] = s[j] => i = j
<1> DEFINE s == ChainOf(nx, b)
<1>1. IsPath(nx, s, b)
  BY DEF Good
<1>2. \A x : x \in MembersOf(nx, b) <=> \E i \in 1 .. Len(s) : x = s[i]
  BY DEF MembersOf
<1> HIDE DEF s
<1>3. s[1] = b
  BY <1>1 DEF IsPath
<1>4. \A i, j \in 1 .. Len(s) : s[i] = s[j] => i = j
  BY <1>1, PathOnce
<1>5. /\ Len(s) \in Nat \ {0} /\ \A i \in 1 .. Len(s) : s[i] \in Buckets
      /\ \A i \in 1 .. Len(s) : IF i = Len(s) THEN nx[s[i]] = Nil
                                 ELSE nx[s[i]] = s[i + 1] /\ nx[s[i]] # Nil
  BY <1>1, PathParts
<1>6. /\ \A i \in 1 .. Len(s) : s[i] \in MembersOf(nx, b) /\ s[i] \in Buckets
      /\ \A x \in MembersOf(nx, b) : \E i \in 1 .. Len(s) : x = s[i]
  BY <1>2, <1>5
<1> QED
  BY <1>3, <1>4, <1>5, <1>6 DEF s

\* A chain whose links stay stays.
LEMMA ChainStays ==
  ASSUME NEW nx \in Links, NEW nx2 \in Links, NEW b, Good(nx, b),
         \A x \in MembersOf(nx, b) : nx2[x] = nx[x]
  PROVE  Good(nx2, b) /\ ChainOf(nx2, b) = ChainOf(nx, b) /\ MembersOf(nx2, b) = MembersOf(nx, b)
<1> DEFINE s == ChainOf(nx, b)
<1>1. IsPath(nx, s, b) /\ \A i \in 1 .. Len(s) : nx2[s[i]] = nx[s[i]]
  BY DEF Good, MembersOf
<1>2. Len(s) \in Nat /\ Len(s) >= 1
  BY <1>1, PathParts
<1> HIDE DEF s
<1>3. IsPath(nx2, s, b)
  BY <1>1, <1>2 DEF IsPath
<1>4. ChainOf(nx2, b) = s
  BY <1>3, ChainIs DEF Links
<1> QED
  BY <1>3, <1>4 DEF Good, MembersOf, s

\* The end of a chain, which each of its buckets leads to, and the last but one.
LEMMA ChainEnd ==
  ASSUME NEW nx \in Links, NEW b, Good(nx, b), NEW x \in MembersOf(nx, b)
  PROVE  LET c == ChainOf(nx, x)
             last == c[Len(c)]
             p == c[Len(c) - 1]
         IN  /\ last \in MembersOf(nx, b) /\ nx[last] = Nil
             /\ \A y \in MembersOf(nx, b) : nx[y] = Nil => y = last
             /\ nx[x] # Nil => /\ x # last /\ last \in Extra
                               /\ p \in MembersOf(nx, b) /\ nx[p] = last /\ p # last
                               /\ \A y \in MembersOf(nx, b) : nx[y] = last => y = p
<1> DEFINE s == ChainOf(nx, b)
           L == Len(s)
<1>1. /\ L \in Nat \ {0} /\ s[1] = b
      /\ \A i \in 1 .. L : s[i] \in MembersOf(nx, b) /\ s[i] \in Buckets
      /\ \A y \in MembersOf(nx, b) : \E i \in 1 .. L : y = s[i]
      /\ \A i \in 1 .. L : IF i = L THEN nx[s[i]] = Nil ELSE nx[s[i]] = s[i + 1] /\ nx[s[i]] # Nil
      /\ \A i, j \in 1 .. L : s[i] = s[j] => i = j
  BY GoodParts
<1> HIDE DEF s, L
<1>2. PICK k \in 1 .. L : x = s[k]
  BY <1>1
<1> DEFINE n == L - k + 1
           f == [i \in 1 .. n |-> s[i + k - 1]]
<1>3. n \in Nat \ {0} /\ f[1] = x /\ f[n] = s[L]
  BY <1>1, <1>2
<1>4. \A i \in 1 .. n : i + k - 1 \in 1 .. L /\ f[i] = s[i + k - 1]
  BY <1>1, <1>2
<1>5. f \in [1 .. n -> Buckets]
  BY <1>1, <1>4
<1>6. \A i \in 1 .. n - 1 : nx[f[i]] = f[i + 1]
  <2> SUFFICES ASSUME NEW i \in 1 .. n - 1 PROVE nx[f[i]] = f[i + 1]
    OBVIOUS
  <2>1. i \in 1 .. n /\ i + 1 \in 1 .. n /\ i + k - 1 # L /\ (i + 1) + k - 1 = (i + k - 1) + 1
    BY <1>1, <1>2
  <2> QED
    BY <1>1, <1>4, <2>1
<1>7. nx[f[n]] = Nil
  BY <1>1, <1>3
<1> HIDE DEF n, f
<1>8. ChainOf(nx, x) = f /\ Len(f) = n
  <2>1. n \in Nat \ {0} /\ f[1] = x
    BY <1>3
  <2> QED
    BY <2>1, <1>5, <1>6, <1>7, FunPath
<1>9. s[L] \in MembersOf(nx, b) /\ nx[s[L]] = Nil /\ \A y \in MembersOf(nx, b) : nx[y] = Nil => y = s[L]
  BY <1>1
<1>10. ASSUME nx[x] # Nil
       PROVE  /\ x # s[L] /\ s[L] \in Extra
              /\ f[n - 1] \in MembersOf(nx, b) /\ nx[f[n - 1]] = s[L] /\ f[n - 1] # s[L]
              /\ \A y \in MembersOf(nx, b) : nx[y] = s[L] => y = f[n - 1]
  <2>1. k # L /\ x # s[L]
    BY <1>1, <1>2, <1>10
  <2>2. L - 1 \in 1 .. L /\ L - 1 # L /\ L \in 1 .. L
    BY <1>1, <1>2, <2>1
  <2>3. f[n - 1] = s[L - 1]
    <3>1. n - 1 \in 1 .. n /\ (n - 1) + k - 1 = L - 1
      BY <1>1, <1>2, <2>1 DEF n
    <3> QED
      BY <1>4, <3>1
  <2>4. nx[s[L - 1]] = s[L] /\ nx[s[L - 1]] # Nil /\ s[L - 1] \in MembersOf(nx, b) /\ s[L - 1] # s[L]
    BY <1>1, <2>2
  <2>5. s[L] \in Extra
    BY <1>1, <2>2, <2>4 DEF Links
  <2>6. ASSUME NEW y \in MembersOf(nx, b), nx[y] = s[L] PROVE y = s[L - 1]
    <3>1. PICK i \in 1 .. L : y = s[i]
      BY <1>1
    <3>2. i # L /\ i + 1 \in 1 .. L
      BY <1>1, <2>4, <2>6, <3>1
    <3>3. s[i + 1] = s[L]
      BY <1>1, <2>6, <3>1, <3>2
    <3>4. i + 1 = L
      BY <1>1, <2>2, <3>2, <3>3
    <3> QED
      BY <1>1, <3>1, <3>4
  <2> QED
    BY <2>1, <2>3, <2>4, <2>5, <2>6
<1> QED
  BY <1>3, <1>8, <1>9, <1>10

\* The buckets that a chain leads through.
LEMMA ChainClosed ==
  ASSUME NEW nx \in Links, NEW b, Good(nx, b)
  PROVE  /\ b \in MembersOf(nx, b) /\ MembersOf(nx, b) \subseteq Buckets
         /\ \A x \in MembersOf(nx, b) : nx[x] # Nil => nx[x] \in MembersOf(nx, b)
         /\ \A x \in MembersOf(nx, b) : x # b => x \in Extra /\ \E y \in MembersOf(nx, b) : nx[y] = x
<1> DEFINE s == ChainOf(nx, b)
           L == Len(s)
<1>1. /\ L \in Nat \ {0} /\ s[1] = b
      /\ \A i \in 1 .. L : s[i] \in MembersOf(nx, b) /\ s[i] \in Buckets
      /\ \A y \in MembersOf(nx, b) : \E i \in 1 .. L : y = s[i]
      /\ \A i \in 1 .. L : IF i = L THEN nx[s[i]] = Nil ELSE nx[s[i]] = s[i + 1] /\ nx[s[i]] # Nil
  BY GoodParts
<1> HIDE DEF s, L
<1>2. b \in MembersOf(nx, b) /\ MembersOf(nx, b) \subseteq Buckets
  BY <1>1
<1>3. ASSUME NEW x \in MembersOf(nx, b), nx[x] # Nil PROVE nx[x] \in MembersOf(nx, b)
  <2>1. PICK i \in 1 .. L : x = s[i]
    BY <1>1
  <2>2. i # L /\ i + 1 \in 1 .. L
    BY <1>1, <1>3, <2>1
  <2> QED
    BY <1>1, <2>1, <2>2
<1>4. ASSUME NEW x \in MembersOf(nx, b), x # b
      PROVE  x \in Extra /\ \E y \in MembersOf(nx, b) : nx[y] = x
  <2>1. PICK i \in 1 .. L : x = s[i]
    BY <1>1
  <2>2. i - 1 \in 1 .. L /\ i - 1 # L /\ (i - 1) + 1 = i
    BY <1>1, <1>4, <2>1
  <2>3. nx[s[i - 1]] = x /\ nx[s[i - 1]] # Nil /\ s[i - 1] \in Buckets /\ s[i - 1] \in MembersOf(nx, b)
    BY <1>1, <2>1, <2>2
  <2> QED
    BY <2>3 DEF Links
<1> QED
  BY <1>2, <1>3, <1>4

\* A bucket linked to the end of a chain is its new end.
LEMMA ChainGrows ==
  ASSUME NEW nx \in Links, NEW nx2 \in Links, NEW b, Good(nx, b),
         NEW l \in MembersOf(nx, b), nx[l] = Nil, NEW h \in Buckets,
         nx2[l] = h, nx2[h] = Nil, \A x \in MembersOf(nx, b) : x # l => nx2[x] = nx[x]
  PROVE  Good(nx2, b) /\ MembersOf(nx2, b) = MembersOf(nx, b) \cup {h}
<1> DEFINE s == ChainOf(nx, b)
           L == Len(s)
           f == [i \in 1 .. L + 1 |-> IF i = L + 1 THEN h ELSE s[i]]
<1>1. /\ L \in Nat \ {0} /\ s[1] = b
      /\ \A i \in 1 .. L : s[i] \in MembersOf(nx, b) /\ s[i] \in Buckets
      /\ \A y \in MembersOf(nx, b) : \E i \in 1 .. L : y = s[i]
      /\ \A i \in 1 .. L : IF i = L THEN nx[s[i]] = Nil ELSE nx[s[i]] = s[i + 1] /\ nx[s[i]] # Nil
      /\ \A i, j \in 1 .. L : s[i] = s[j] => i = j
  BY GoodParts
<1> HIDE DEF s, L
<1>2. l = s[L]
  BY <1>1
<1>3. /\ L + 1 \in Nat \ {0} /\ f \in [1 .. L + 1 -> Buckets] /\ f[1] = b /\ f[L + 1] = h
      /\ \A i \in 1 .. L : f[i] = s[i]
      /\ \A i \in 1 .. L + 1 : i \in 1 .. L \/ i = L + 1
  BY <1>1
<1> HIDE DEF f
<1>4. \A i \in 1 .. (L + 1) - 1 : nx2[f[i]] = f[i + 1]
  <2> SUFFICES ASSUME NEW i \in 1 .. L PROVE nx2[f[i]] = f[i + 1]
    BY <1>1
  <2>1. CASE i = L
    BY <1>1, <1>2, <1>3, <2>1
  <2>2. CASE i # L
    <3>1. i + 1 \in 1 .. L /\ L \in 1 .. L
      BY <1>1, <2>2
    <3>2. s[i] # l
      BY <1>1, <1>2, <2>2, <3>1
    <3> QED
      BY <1>1, <1>3, <2>2, <3>1, <3>2
  <2> QED
    BY <2>1, <2>2
<1>5. nx2[f[L + 1]] = Nil
  BY <1>3
<1>6. /\ Good(nx2, b)
      /\ MembersOf(nx2, b) = Points(f, L + 1)
  <2>1. L + 1 \in Nat \ {0} /\ f \in [1 .. L + 1 -> Buckets] /\ f[1] = b
    BY <1>3
  <2> QED
    BY <1>4, <1>5, <2>1, FunPath
<1> QED
  BY <1>1, <1>3, <1>6 DEF Points

\* A chain loses its end with the link to it.
LEMMA ChainShrinks ==
  ASSUME NEW nx \in Links, NEW nx2 \in Links, NEW b, Good(nx, b),
         NEW p \in MembersOf(nx, b), NEW l \in MembersOf(nx, b), nx[p] = l, nx[l] = Nil,
         nx2[p] = Nil, \A x \in MembersOf(nx, b) : x # p => nx2[x] = nx[x]
  PROVE  Good(nx2, b) /\ MembersOf(nx2, b) = MembersOf(nx, b) \ {l}
<1> DEFINE s == ChainOf(nx, b)
           L == Len(s)
           f == [i \in 1 .. L - 1 |-> s[i]]
<1>1. /\ L \in Nat \ {0} /\ s[1] = b
      /\ \A i \in 1 .. L : s[i] \in MembersOf(nx, b) /\ s[i] \in Buckets
      /\ \A y \in MembersOf(nx, b) : \E i \in 1 .. L : y = s[i]
      /\ \A i \in 1 .. L : IF i = L THEN nx[s[i]] = Nil ELSE nx[s[i]] = s[i + 1] /\ nx[s[i]] # Nil
      /\ \A i, j \in 1 .. L : s[i] = s[j] => i = j
  BY GoodParts
<1> HIDE DEF s, L
<1>2. l = s[L]
  BY <1>1
<1>3. l # Nil
  BY <1>1, <1>2, BucketIds
<1>4. PICK k \in 1 .. L : p = s[k]
  BY <1>1
<1>5. k # L /\ k + 1 \in 1 .. L /\ L \in 1 .. L
  BY <1>1, <1>3, <1>4
<1>6. s[k + 1] = s[L]
  BY <1>1, <1>2, <1>4, <1>5
<1>7. k = L - 1
  BY <1>1, <1>5, <1>6
<1>8. /\ L - 1 \in Nat \ {0} /\ f \in [1 .. L - 1 -> Buckets] /\ f[1] = b /\ f[L - 1] = p
      /\ \A i \in 1 .. L - 1 : f[i] = s[i] /\ i \in 1 .. L /\ i # L
      /\ \A i \in 1 .. L : i \in 1 .. L - 1 \/ i = L
  BY <1>1, <1>4, <1>5, <1>7
<1> HIDE DEF f
<1>9. \A i \in 1 .. (L - 1) - 1 : nx2[f[i]] = f[i + 1]
  <2> SUFFICES ASSUME NEW i \in 1 .. (L - 1) - 1 PROVE nx2[f[i]] = f[i + 1]
    OBVIOUS
  <2>1. i \in 1 .. L - 1 /\ i + 1 \in 1 .. L - 1 /\ i # k
    BY <1>7, <1>8
  <2>2. i \in 1 .. L /\ i # L /\ f[i] = s[i] /\ f[i + 1] = s[i + 1]
    BY <1>8, <2>1
  <2>3. s[i] # p /\ s[i] \in MembersOf(nx, b)
    BY <1>1, <1>4, <2>1, <2>2
  <2>4. nx[s[i]] = s[i + 1]
    BY <1>1, <2>2
  <2> QED
    BY <2>2, <2>3, <2>4
<1>10. nx2[f[L - 1]] = Nil
  BY <1>8
<1>11. Good(nx2, b) /\ MembersOf(nx2, b) = Points(f, L - 1)
  <2>1. L - 1 \in Nat \ {0} /\ f \in [1 .. L - 1 -> Buckets] /\ f[1] = b
    BY <1>8
  <2> QED
    BY <1>9, <1>10, <2>1, FunPath
<1>12. \A i \in 1 .. L - 1 : s[i] # l
  BY <1>1, <1>2, <1>5, <1>8
<1>13. \A x : x \in Points(f, L - 1) => x \in MembersOf(nx, b) \ {l}
  BY <1>1, <1>8, <1>12 DEF Points
<1>14. \A x : x \in MembersOf(nx, b) \ {l} => x \in Points(f, L - 1)
  <2> SUFFICES ASSUME NEW x \in MembersOf(nx, b), x # l
               PROVE  \E i \in 1 .. L - 1 : x = f[i]
    BY DEF Points
  <2>1. PICK i \in 1 .. L : x = s[i]
    BY <1>1
  <2>2. i \in 1 .. L - 1
    BY <1>2, <1>8, <2>1
  <2> QED
    BY <1>8, <2>1, <2>2
<1> QED
  BY <1>11, <1>13, <1>14

\* What is left of a chain when its first bucket is taken.
LEMMA ChainBehind ==
  ASSUME NEW nx \in Links, NEW nx2 \in Links, NEW b, Good(nx, b), nx[b] # Nil,
         \A x \in MembersOf(nx, b) : x # b => nx2[x] = nx[x]
  PROVE  Good(nx2, nx[b]) /\ MembersOf(nx2, nx[b]) = MembersOf(nx, b) \ {b}
<1> DEFINE s == ChainOf(nx, b)
           L == Len(s)
           f == [i \in 1 .. L - 1 |-> s[i + 1]]
<1>1. /\ L \in Nat \ {0} /\ s[1] = b
      /\ \A i \in 1 .. L : s[i] \in MembersOf(nx, b) /\ s[i] \in Buckets
      /\ \A y \in MembersOf(nx, b) : \E i \in 1 .. L : y = s[i]
      /\ \A i \in 1 .. L : IF i = L THEN nx[s[i]] = Nil ELSE nx[s[i]] = s[i + 1] /\ nx[s[i]] # Nil
      /\ \A i, j \in 1 .. L : s[i] = s[j] => i = j
  BY GoodParts
<1> HIDE DEF s, L
<1>2. L # 1 /\ 1 \in 1 .. L /\ L \in 1 .. L
  BY <1>1
<1>3. /\ L - 1 \in Nat \ {0} /\ f[1] = nx[b] /\ f[L - 1] = s[L]
      /\ \A i \in 1 .. L - 1 : f[i] = s[i + 1] /\ i + 1 \in 1 .. L /\ i + 1 # 1
      /\ \A i \in 1 .. L : i = 1 \/ (i - 1 \in 1 .. L - 1 /\ (i - 1) + 1 = i)
  BY <1>1, <1>2
<1>4. f \in [1 .. L - 1 -> Buckets]
  BY <1>1, <1>3
<1> HIDE DEF f
<1>5. \A i \in 1 .. L : i # 1 => s[i] # b
  BY <1>1, <1>2
<1>6. \A i \in 1 .. (L - 1) - 1 : nx2[f[i]] = f[i + 1]
  <2> SUFFICES ASSUME NEW i \in 1 .. (L - 1) - 1 PROVE nx2[f[i]] = f[i + 1]
    OBVIOUS
  <2>1. i \in 1 .. L - 1 /\ i + 1 \in 1 .. L - 1 /\ i + 1 # L /\ i + 1 \in 1 .. L
    BY <1>1
  <2> QED
    BY <1>1, <1>3, <1>5, <2>1
<1>7. nx2[f[L - 1]] = Nil
  BY <1>1, <1>2, <1>3, <1>5
<1>8. Good(nx2, nx[b]) /\ MembersOf(nx2, nx[b]) = Points(f, L - 1)
  <2>1. L - 1 \in Nat \ {0} /\ f[1] = nx[b]
    BY <1>3
  <2> QED
    BY <1>4, <1>6, <1>7, <2>1, FunPath
<1>9. \A x : x \in Points(f, L - 1) => x \in MembersOf(nx, b) \ {b}
  BY <1>1, <1>3, <1>5 DEF Points
<1>10. \A x : x \in MembersOf(nx, b) \ {b} => x \in Points(f, L - 1)
  <2> SUFFICES ASSUME NEW x \in MembersOf(nx, b), x # b
               PROVE  \E i \in 1 .. L - 1 : x = f[i]
    BY DEF Points
  <2>1. PICK i \in 1 .. L : x = s[i]
    BY <1>1
  <2>2. i - 1 \in 1 .. L - 1 /\ (i - 1) + 1 = i
    BY <1>1, <1>3, <2>1
  <2> QED
    BY <1>3, <2>1, <2>2
<1> QED
  BY <1>8, <1>9, <1>10

\* A bucket put before a chain.
LEMMA ChainPushed ==
  ASSUME NEW nx \in Links, NEW b, Good(nx, b), NEW h \in Buckets, nx[h] = b
  PROVE  Good(nx, h) /\ MembersOf(nx, h) = MembersOf(nx, b) \cup {h}
<1> DEFINE s == ChainOf(nx, b)
           L == Len(s)
           f == [i \in 1 .. L + 1 |-> IF i = 1 THEN h ELSE s[i - 1]]
<1>1. /\ L \in Nat \ {0} /\ s[1] = b
      /\ \A i \in 1 .. L : s[i] \in MembersOf(nx, b) /\ s[i] \in Buckets
      /\ \A y \in MembersOf(nx, b) : \E i \in 1 .. L : y = s[i]
      /\ \A i \in 1 .. L : IF i = L THEN nx[s[i]] = Nil ELSE nx[s[i]] = s[i + 1] /\ nx[s[i]] # Nil
  BY GoodParts
<1> HIDE DEF s, L
<1>2. /\ L + 1 \in Nat \ {0} /\ f[1] = h
      /\ \A i \in 2 .. L + 1 : f[i] = s[i - 1] /\ i - 1 \in 1 .. L
      /\ \A i \in 1 .. L : i + 1 \in 2 .. L + 1 /\ i + 1 \in 1 .. L + 1 /\ f[i + 1] = s[i]
      /\ \A i \in 1 .. L + 1 : i = 1 \/ i \in 2 .. L + 1
      /\ 1 \in 1 .. L + 1
  BY <1>1
<1>3. f \in [1 .. L + 1 -> Buckets]
  BY <1>1, <1>2
<1> HIDE DEF f
<1>4. \A i \in 1 .. (L + 1) - 1 : nx[f[i]] = f[i + 1]
  <2> SUFFICES ASSUME NEW i \in 1 .. L PROVE nx[f[i]] = f[i + 1]
    BY <1>1
  <2>1. CASE i = 1
    BY <1>1, <1>2, <2>1
  <2>2. CASE i # 1
    <3>1. i \in 2 .. L + 1 /\ i - 1 \in 1 .. L /\ i - 1 # L /\ (i - 1) + 1 = i
      BY <1>1, <2>2
    <3> QED
      BY <1>1, <1>2, <3>1
  <2> QED
    BY <2>1, <2>2
<1>5. nx[f[L + 1]] = Nil
  BY <1>1, <1>2
<1>6. Good(nx, h) /\ MembersOf(nx, h) = Points(f, L + 1)
  <2>1. L + 1 \in Nat \ {0} /\ f[1] = h
    BY <1>2
  <2> QED
    BY <1>3, <1>4, <1>5, <2>1, FunPath
<1>7. \A x : x \in Points(f, L + 1) => x \in MembersOf(nx, b) \cup {h}
  <2> SUFFICES ASSUME NEW i \in 1 .. L + 1 PROVE f[i] \in MembersOf(nx, b) \cup {h}
    BY DEF Points
  <2>1. i = 1 \/ i \in 2 .. L + 1
    BY <1>2
  <2> QED
    BY <1>1, <1>2, <2>1
<1>8. \A x : x \in MembersOf(nx, b) \cup {h} => x \in Points(f, L + 1)
  <2>1. h \in Points(f, L + 1)
    BY <1>2 DEF Points
  <2>2. ASSUME NEW i \in 1 .. L PROVE s[i] \in Points(f, L + 1)
    BY <1>2 DEF Points
  <2> QED
    BY <1>1, <2>1, <2>2
<1> QED
  BY <1>6, <1>7, <1>8

\* A bucket that leads nowhere is a chain of its own.
LEMMA ChainOfOne ==
  ASSUME NEW nx \in Links, NEW h \in Buckets, nx[h] = Nil
  PROVE  Good(nx, h) /\ MembersOf(nx, h) = {h}
<1> DEFINE f == [i \in 1 .. 1 |-> h]
<1>1. /\ f \in [1 .. 1 -> Buckets] /\ f[1] = h /\ 1 \in Nat \ {0}
      /\ \A i \in 1 .. 1 - 1 : nx[f[i]] = f[i + 1]
  OBVIOUS
<1> HIDE DEF f
<1>2. Good(nx, h) /\ MembersOf(nx, h) = Points(f, 1)
  <2>1. 1 \in Nat \ {0} /\ f \in [1 .. 1 -> Buckets] /\ f[1] = h /\ nx[f[1]] = Nil
    BY <1>1
  <2>2. \A i \in 1 .. 1 - 1 : nx[f[i]] = f[i + 1]
    BY <1>1
  <2> QED
    BY <2>1, <2>2, FunPath
<1> QED
  BY <1>1, <1>2 DEF Points

\* The chains of the table are chains of its links.
LEMMA ChainIsOf ==
  ASSUME NEW b
  PROVE  Chain(b) = ChainOf(next, b) /\ Linked(b) = MembersOf(next, b)
<1>1. Chain(b) = ChainOf(next, b)
  BY DEF Chain, ChainOf
<1> QED
  BY <1>1 DEF Linked, MembersOf

-----------------------------------------------------------------------------
(* The first place of a chain.                                             *)

\* A set of places has a first one, bucket by bucket and slot by slot.
LEMMA FirstPlace ==
  ASSUME NEW S, S \in SUBSET (Nat \X Nat), S # {}
  PROVE  \E x \in S : \A y \in S : x[1] < y[1] \/ (x[1] = y[1] /\ x[2] <= y[2])
<1> DEFINE N == { x[1] : x \in S }
<1>1. PICK n \in N : \A m \in N : n <= m
  <2>1. N \in SUBSET Nat /\ N # {}
    OBVIOUS
  <2> HIDE DEF N
  <2> QED
    BY <2>1, LeastElement
<1> DEFINE I == { x[2] : x \in { y \in S : y[1] = n } }
<1>2. PICK i \in I : \A j \in I : i <= j
  <2>1. I \in SUBSET Nat /\ I # {}
    BY <1>1
  <2> HIDE DEF I
  <2> QED
    BY <2>1, LeastElement
<1>3. PICK x \in S : x[1] = n /\ x[2] = i
  BY <1>2
<1>4. ASSUME NEW y \in S PROVE x[1] < y[1] \/ (x[1] = y[1] /\ x[2] <= y[2])
  <2>1. x[1] <= y[1] /\ x[1] \in Nat /\ y[1] \in Nat
    BY <1>1, <1>3
  <2>2. x[1] = y[1] => x[2] <= y[2]
    BY <1>2, <1>3
  <2> QED
    BY <2>1, <2>2
<1> QED
  BY <1>4

\* The place that a scan finds is in the chain and has what it looks for.
PlacesIn(b, S) ==
  LET c == Chain(b)
      first == CHOOSE x \in S : \A y \in S : x[1] < y[1] \/ (x[1] = y[1] /\ x[2] <= y[2])
  IN  IF S = {} THEN {} ELSE {[b |-> c[first[1]], i |-> first[2]]}
Cells(b) == (1 .. Len(Chain(b))) \X Indices
\* The places of a chain that satisfy a condition: none, or the first one.
LEMMA PlacesAre ==
  ASSUME NEW b, next \in Links, Good(next, b), NEW S \in SUBSET Cells(b)
  PROVE  /\ S = {} => PlacesIn(b, S) = {}
         /\ S # {} => \E x \in S : /\ PlacesIn(b, S) = {[b |-> Chain(b)[x[1]], i |-> x[2]]}
                                   /\ Chain(b)[x[1]] \in Linked(b) /\ x[2] \in Indices
<1>1. S \in SUBSET (Nat \X Nat)
  <2>1. Cells(b) \subseteq Nat \X Nat
    <3>1. 1 .. Len(Chain(b)) \subseteq Nat /\ Indices \subseteq Nat
      BY BucketIds
    <3> QED
      BY <3>1 DEF Cells
  <2> QED
    BY <2>1
<1>2. ASSUME S # {}
      PROVE  \E x \in S : PlacesIn(b, S) = {[b |-> Chain(b)[x[1]], i |-> x[2]]}
  <2> DEFINE first == CHOOSE x \in S : \A y \in S : x[1] < y[1] \/ (x[1] = y[1] /\ x[2] <= y[2])
  <2>1. first \in S
    BY <1>1, <1>2, FirstPlace
  <2> QED
    BY <1>2, <2>1 DEF PlacesIn
<1>3. \A x \in S : Chain(b)[x[1]] \in Linked(b) /\ x[2] \in Indices
  BY DEF Cells, Linked
<1> QED
  BY <1>2, <1>3 DEF PlacesIn

\* A member of a chain is at one of its positions.
LEMMA PositionOf ==
  ASSUME NEW b, NEW x \in Linked(b)
  PROVE  \E n \in 1 .. Len(Chain(b)) : x = Chain(b)[n]
BY DEF Linked

\* find_item_index().
LEMMA FoundIs ==
  ASSUME NEW b, next \in Links, Good(next, b), NEW k
  PROVE  /\ \A l \in Found(b, k) : /\ l.b \in Linked(b) /\ l.i \in Indices
                                   /\ l = [b |-> l.b, i |-> l.i] /\ Holds(l.b, l.i, k)
         /\ Found(b, k) = {} => \A x \in Linked(b), i \in Indices : ~Holds(x, i, k)
<1> DEFINE S == { x \in Cells(b) : Holds(Chain(b)[x[1]], x[2], k) }
<1>1. Found(b, k) = PlacesIn(b, S)
  BY DEF Found, Places, PlacesIn, Cells, Holds
<1>2. ASSUME S = {}, NEW x \in Linked(b), NEW i \in Indices PROVE ~Holds(x, i, k)
  <2>1. PICK n \in 1 .. Len(Chain(b)) : x = Chain(b)[n]
    BY PositionOf
  <2>2. <<n, i>> \in Cells(b)
    BY DEF Cells
  <2> QED
    BY <1>2, <2>1, <2>2
<1>3. \A x \in S : Holds(Chain(b)[x[1]], x[2], k)
  OBVIOUS
<1>4. S \in SUBSET Cells(b)
  OBVIOUS
<1> HIDE DEF S
<1>5. /\ S = {} => PlacesIn(b, S) = {}
      /\ S # {} => \E x \in S : /\ PlacesIn(b, S) = {[b |-> Chain(b)[x[1]], i |-> x[2]]}
                                /\ Chain(b)[x[1]] \in Linked(b) /\ x[2] \in Indices
  BY <1>4, PlacesAre
<1>6. ASSUME NEW l \in Found(b, k)
      PROVE  /\ l.b \in Linked(b) /\ l.i \in Indices
             /\ l = [b |-> l.b, i |-> l.i] /\ Holds(l.b, l.i, k)
  <2>1. PICK x \in S : /\ l = [b |-> Chain(b)[x[1]], i |-> x[2]]
                       /\ Chain(b)[x[1]] \in Linked(b) /\ x[2] \in Indices
    BY <1>1, <1>5, <1>6
  <2> QED
    BY <1>3, <2>1
<1> QED
  BY <1>1, <1>2, <1>5, <1>6

\* get_empty().
LEMMA VacantIs ==
  ASSUME NEW b, next \in Links, Good(next, b)
  PROVE  /\ \A l \in Vacant(b) : /\ l.b \in Linked(b) /\ l.i \in Indices
                                 /\ l = [b |-> l.b, i |-> l.i] /\ slots[l.b][l.i] = Nil
         /\ Vacant(b) = {} => \A x \in Linked(b), i \in Indices : slots[x][i] # Nil
<1> DEFINE S == { x \in Cells(b) : slots[Chain(b)[x[1]]][x[2]] = Nil }
<1>1. Vacant(b) = PlacesIn(b, S)
  BY DEF Vacant, Places, PlacesIn, Cells
<1>2. ASSUME S = {}, NEW x \in Linked(b), NEW i \in Indices PROVE slots[x][i] # Nil
  <2>1. PICK n \in 1 .. Len(Chain(b)) : x = Chain(b)[n]
    BY PositionOf
  <2>2. <<n, i>> \in Cells(b)
    BY DEF Cells
  <2> QED
    BY <1>2, <2>1, <2>2
<1>3. \A x \in S : slots[Chain(b)[x[1]]][x[2]] = Nil
  OBVIOUS
<1>4. S \in SUBSET Cells(b)
  OBVIOUS
<1> HIDE DEF S
<1>5. /\ S = {} => PlacesIn(b, S) = {}
      /\ S # {} => \E x \in S : /\ PlacesIn(b, S) = {[b |-> Chain(b)[x[1]], i |-> x[2]]}
                                /\ Chain(b)[x[1]] \in Linked(b) /\ x[2] \in Indices
  BY <1>4, PlacesAre
<1>6. ASSUME NEW l \in Vacant(b)
      PROVE  /\ l.b \in Linked(b) /\ l.i \in Indices
             /\ l = [b |-> l.b, i |-> l.i] /\ slots[l.b][l.i] = Nil
  <2>1. PICK x \in S : /\ l = [b |-> Chain(b)[x[1]], i |-> x[2]]
                       /\ Chain(b)[x[1]] \in Linked(b) /\ x[2] \in Indices
    BY <1>1, <1>5, <1>6
  <2> QED
    BY <1>3, <2>1
<1> QED
  BY <1>1, <1>2, <1>5, <1>6

\* The smallest of a set of numbers is one of them.
LEMMA SmallestIs ==
  ASSUME NEW S \in SUBSET Nat, S # {}
  PROVE  Smallest(S) \in S /\ \A y \in S : Smallest(S) <= y
BY LeastElement DEF Smallest

-----------------------------------------------------------------------------
(* What a step leaves alone.                                               *)

\* The locals of a thread, but for same, stay.
Stay(u) ==
  /\ pc'[u] = pc[u] /\ call'[u] = call[u] /\ loc'[u] = loc[u] /\ hand'[u] = hand[u]
  /\ item'[u] = item[u] /\ old'[u] = old[u] /\ buf'[u] = buf[u]

\* The chain of b, its items, and the values of its keys stay.
ChainSame(b) ==
  /\ Chain(b)' = Chain(b) /\ Linked(b)' = Linked(b)
  /\ \A x \in Linked(b) : next'[x] = next[x] /\ slots'[x] = slots[x]
  /\ \A x \in Linked(b), i \in Indices : slots[x][i] # Nil =>
       /\ mem'[slots[x][i]] = mem[slots[x][i]]
       /\ slots[x][i] \in live => slots[x][i] \in live'
  /\ \A k \in Keys : BucketOf[k] = b => cur'[k] = cur[k]

\* A thread that does not take the step keeps what it knows of its call.
LEMMA CallKeeps ==
  ASSUME NEW u \in Threads, CallOK(u), Stay(u)
  PROVE  CallOK(u)'
BY DEF CallOK, Stay, Key

\* ... and a mutator what it knows of the chain it has locked, when it stays.
LEMMA MutKeeps ==
  ASSUME NEW u \in Threads, Mut(u), Stay(u), CallOK(u), pc[u] \in Inside => ChainSame(B(u))
  PROVE  Mut(u)'
<1>1. /\ pc'[u] = pc[u] /\ loc'[u] = loc[u] /\ old'[u] = old[u] /\ B(u)' = B(u) /\ Key(u)' = Key(u)
  BY DEF Stay, B, Key
<1>2. pc[u] \in Inside => Key(u) \in Keys
  BY DEF CallOK
<1>3. /\ (pc[u] \notin Inserting \cup { "unlock", "release" } => old[u] = Nil)'
      /\ (pc[u] = "release" => old[u] # Nil)'
  BY <1>1 DEF Mut
<1>4. ASSUME pc[u] \in Inside, Placed(u)
      PROVE  Placed(u)' /\ AtLoc(u)' = AtLoc(u) /\ next'[loc[u].b] = next[loc[u].b]
  <2>1. Linked(B(u))' = Linked(B(u))
    BY <1>4 DEF ChainSame
  <2>2. Linked(B(u)') = Linked(B(u))
    BY <1>1
  <2>3. slots'[loc[u].b] = slots[loc[u].b] /\ next'[loc[u].b] = next[loc[u].b]
    BY <1>4 DEF ChainSame, Placed
  <2> QED
    BY <1>1, <1>4, <2>1, <2>3 DEF Placed, AtLoc
<1>5. ASSUME pc[u] \in Inserting
      PROVE  (/\ Placed(u) /\ AtLoc(u) = old[u]
              /\ old[u] = Nil => cur[Key(u)] = Nil
              /\ old[u] # Nil => mem[old[u]].key = Key(u))'
  <2>1. pc[u] \in Inside
    BY <1>5 DEF Inside
  <2>2. /\ Placed(u) /\ AtLoc(u) = old[u]
        /\ old[u] = Nil => cur[Key(u)] = Nil
        /\ old[u] # Nil => mem[old[u]].key = Key(u)
    BY <1>5 DEF Mut
  <2>3. cur'[Key(u)] = cur[Key(u)]
    BY <1>2, <2>1 DEF ChainSame, B
  <2>4. old[u] # Nil => mem'[old[u]] = mem[old[u]]
    BY <2>1, <2>2 DEF ChainSame, Placed, AtLoc
  <2> QED
    BY <1>1, <1>4, <2>1, <2>2, <2>3, <2>4
<1>6. ASSUME pc[u] \in Growing
      PROVE  (/\ Placed(u) /\ next[loc[u].b] = Nil /\ cur[Key(u)] = Nil
              /\ \A x \in Linked(B(u)), i \in Indices : slots[x][i] # Nil)'
  <2>1. pc[u] \in Inside
    BY <1>6 DEF Inside
  <2>2. /\ Placed(u) /\ next[loc[u].b] = Nil /\ cur[Key(u)] = Nil
        /\ \A x \in Linked(B(u)), i \in Indices : slots[x][i] # Nil
    BY <1>6 DEF Mut
  <2>3. cur'[Key(u)] = cur[Key(u)]
    BY <1>2, <2>1 DEF ChainSame, B
  <2>4. /\ Linked(B(u))' = Linked(B(u))
        /\ \A x \in Linked(B(u)) : slots'[x] = slots[x]
    BY <2>1 DEF ChainSame
  <2> QED
    BY <1>1, <1>4, <2>1, <2>2, <2>3, <2>4
<1>7. ASSUME pc[u] \in Filling
      PROVE  (Placed(u) /\ AtLoc(u) = Nil)'
  <2>1. pc[u] \in Inside
    BY <1>7 DEF Inside
  <2>2. Placed(u) /\ AtLoc(u) = Nil
    BY <1>7 DEF Mut
  <2> QED
    BY <1>4, <2>1, <2>2
<1>8. ASSUME pc[u] = "moved"
      PROVE  (/\ Placed(u) /\ next[loc[u].b] # Nil /\ AtLoc(u) # Nil
              /\ \A x \in Linked(B(u)) : next[x] = Nil =>
                   Used(x) # {} /\ slots[x][Smallest(Used(x))] = AtLoc(u))'
  <2>1. pc[u] \in Inside
    BY <1>8 DEF Inside
  <2>2. /\ Placed(u) /\ next[loc[u].b] # Nil /\ AtLoc(u) # Nil
        /\ \A x \in Linked(B(u)) : next[x] = Nil =>
             Used(x) # {} /\ slots[x][Smallest(Used(x))] = AtLoc(u)
    BY <1>8 DEF Mut
  <2>3. /\ Linked(B(u))' = Linked(B(u))
        /\ \A x \in Linked(B(u)) : slots'[x] = slots[x] /\ next'[x] = next[x]
    BY <2>1 DEF ChainSame
  <2>4. \A x \in Linked(B(u)) : Used(x)' = Used(x)
    BY <2>3 DEF Used
  <2> QED
    BY <1>1, <1>4, <2>1, <2>2, <2>3, <2>4
<1>9. ASSUME pc[u] = "detach"
      PROVE  (/\ Placed(u) /\ next[loc[u].b] # Nil
              /\ \A x \in Linked(B(u)), i \in Indices : next[x] = Nil => slots[x][i] = Nil)'
  <2>1. pc[u] \in Inside
    BY <1>9 DEF Inside
  <2>2. /\ Placed(u) /\ next[loc[u].b] # Nil
        /\ \A x \in Linked(B(u)), i \in Indices : next[x] = Nil => slots[x][i] = Nil
    BY <1>9 DEF Mut
  <2>3. /\ Linked(B(u))' = Linked(B(u))
        /\ \A x \in Linked(B(u)) : slots'[x] = slots[x] /\ next'[x] = next[x]
    BY <2>1 DEF ChainSame
  <2> QED
    BY <1>1, <1>4, <2>1, <2>2, <2>3
<1> HIDE DEF Inside
<1> QED
  BY <1>1, <1>3, <1>5, <1>6, <1>7, <1>8, <1>9 DEF Mut

\* ... and a reader whose version still has not changed.
LEMMA ReaderKeeps ==
  ASSUME NEW u \in Threads, Reader(u), Stay(u), CallOK(u),
         pc[u] \in Reading /\ same'[u] => same[u] /\ B(u) \notin locked' /\ ChainSame(B(u))
  PROVE  Reader(u)'
<1>1. /\ pc'[u] = pc[u] /\ loc'[u] = loc[u] /\ item'[u] = item[u] /\ buf'[u] = buf[u]
      /\ B(u)' = B(u) /\ Key(u)' = Key(u)
  BY DEF Stay, B, Key
<1> SUFFICES ASSUME pc[u] \in Reading, same'[u] PROVE Reader(u)'
  BY <1>1 DEF Reader
<1>2. Key(u) \in Keys /\ same[u] /\ B(u) \notin locked' /\ ChainSame(B(u))
  BY DEF CallOK
<1>3. /\ pc[u] \in { "scan", "compare" } => \E n \in 1 .. Len(Chain(B(u))) : Seen(u, n)
      /\ pc[u] = "compare" => Placed(u) /\ AtLoc(u) = item[u] /\ item[u] # Nil
      /\ pc[u] = "load" => Placed(u) /\ Holds(loc[u].b, loc[u].i, Key(u))
      /\ pc[u] = "hit" => buf[u] = cur[Key(u)]
      /\ pc[u] = "miss" => cur[Key(u)] = Nil
  BY <1>2 DEF Reader
<1>4. /\ Chain(B(u))' = Chain(B(u)) /\ Linked(B(u))' = Linked(B(u))
      /\ \A x \in Linked(B(u)) : slots'[x] = slots[x]
      /\ \A x \in Linked(B(u)), i \in Indices :
           slots[x][i] # Nil => mem'[slots[x][i]] = mem[slots[x][i]]
  BY <1>2 DEF ChainSame
<1>5. cur'[Key(u)] = cur[Key(u)]
  BY <1>2 DEF ChainSame, B
<1>6. \A x \in Linked(B(u)), i \in Indices : Holds(x, i, Key(u))' = Holds(x, i, Key(u))
  BY <1>1, <1>4 DEF Holds
<1>7. Placed(u) => Placed(u)' /\ AtLoc(u)' = AtLoc(u)
  BY <1>1, <1>4 DEF Placed, AtLoc
<1>8. ASSUME NEW n \in 1 .. Len(Chain(B(u))), Seen(u, n) PROVE Seen(u, n)'
  <2>1. loc[u].b \in Linked(B(u))
    BY <1>8 DEF Seen, Linked
  <2>2. ASSUME NEW m \in 1 .. n - 1 PROVE Chain(B(u))[m] \in Linked(B(u))
    <3>1. m \in 1 .. Len(Chain(B(u)))
      OBVIOUS
    <3> QED
      BY <3>1 DEF Linked
  <2> QED
    BY <1>1, <1>4, <1>6, <1>8, <2>1, <2>2 DEF Seen
<1>9. (pc[u] \in { "scan", "compare" } => \E n \in 1 .. Len(Chain(B(u))) : Seen(u, n))'
  BY <1>1, <1>3, <1>4, <1>8
<1>10. (pc[u] = "load" => Placed(u) /\ Holds(loc[u].b, loc[u].i, Key(u)))'
  BY <1>1, <1>3, <1>4, <1>6, <1>7 DEF Placed, Holds
<1>11. (pc[u] = "compare" => Placed(u) /\ AtLoc(u) = item[u] /\ item[u] # Nil)'
  BY <1>1, <1>3, <1>7
<1> QED
  BY <1>1, <1>2, <1>3, <1>5, <1>9, <1>10, <1>11 DEF Reader

\* A chain that stays keeps its invariants, when the threads that account for
\* a hole or a copy in it stay.
LEMMA ChainKeeps ==
  ASSUME NEW b \in Main, Items(b), Once(b), Packed(b), ChainSame(b)
  PROVE  /\ Items(b)'
         /\ (\A u \in Threads : pc[u] = "moved" /\ B(u) = b => Stay(u)) => Once(b)'
         /\ (\A u \in Threads : pc[u] \in Filling /\ B(u) = b => Stay(u)) => Packed(b)'
<1>1. /\ Linked(b)' = Linked(b)
      /\ \A x \in Linked(b) : next'[x] = next[x] /\ slots'[x] = slots[x]
      /\ \A x \in Linked(b), i \in Indices : slots[x][i] # Nil =>
           /\ mem'[slots[x][i]] = mem[slots[x][i]]
           /\ slots[x][i] \in live => slots[x][i] \in live'
      /\ \A k \in Keys : BucketOf[k] = b => cur'[k] = cur[k]
  BY DEF ChainSame
<1>2. \A u \in Threads : Stay(u) => pc'[u] = pc[u] /\ B(u)' = B(u) /\ loc'[u] = loc[u]
  BY DEF Stay, B, Key
<1>3. Items(b)'
  <2>1. ASSUME NEW x \in Linked(b), NEW i \in Indices, slots[x][i] # Nil
        PROVE  LET o == slots[x][i]
                   k == mem[o].key
               IN  o \in live' /\ k \in Keys /\ BucketOf[k] = b /\ cur'[k] # Nil /\ mem'[o].v = cur'[k]
    BY <1>1, <2>1 DEF Items
  <2>2. \A k \in Keys : BucketOf[k] = b /\ cur[k] # Nil =>
          \E x \in Linked(b), i \in Indices : Holds(x, i, k)'
    BY <1>1 DEF Items, Holds
  <2>3. \A x, y \in Linked(b), i, j \in Indices :
          slots[x][i] # Nil /\ slots[y][j] # Nil /\ mem[slots[x][i]].key = mem[slots[y][j]].key
            => slots[x][i] = slots[y][j]
    BY DEF Items
  <2> QED
    BY <1>1, <2>1, <2>2, <2>3 DEF Items
<1>4. ASSUME \A u \in Threads : pc[u] = "moved" /\ B(u) = b => Stay(u) PROVE Once(b)'
  BY <1>1, <1>2, <1>4 DEF Once, IsAt
<1>5. ASSUME \A u \in Threads : pc[u] \in Filling /\ B(u) = b => Stay(u) PROVE Packed(b)'
  BY <1>1, <1>2, <1>5 DEF Packed, IsAt
<1> QED
  BY <1>3, <1>4, <1>5

\* Chains depend on the links only.
LEMMA SameLinks ==
  ASSUME next' = next
  PROVE  /\ \A b : Chain(b)' = Chain(b) /\ Linked(b)' = Linked(b)
         /\ free' = free => FreeOnes' = FreeOnes
<1>1. \A b : Chain(b)' = Chain(b)
  BY DEF Chain
<1>2. \A b : Linked(b)' = Linked(b)
  BY <1>1 DEF Linked
<1>3. ASSUME free' = free PROVE FreeOnes' = FreeOnes
  <2>1. Chain(free)' = Chain(free)
    BY <1>3 DEF Chain
  <2> QED
    BY <1>3, <2>1 DEF FreeOnes, Linked
<1> QED
  BY <1>1, <1>2, <1>3

\* Chains, free list and hands stay apart when no link is touched, and slots
\* in chains only.
LEMMA ListsKeep ==
  ASSUME NEW t \in Threads, Paths, Apart, Hands, Cover,
         next' = next, free' = free, hand' = hand,
         pc[t] \notin Handing, pc'[t] \notin Handing,
         \A u \in Threads : u # t => pc'[u] = pc[u],
         \A x \in Buckets : slots'[x] = slots[x] \/ \E b \in Main : x \in Linked(b)
  PROVE  Paths' /\ Apart' /\ Hands' /\ Cover'
<1>1. /\ \A b : Chain(b)' = Chain(b) /\ Linked(b)' = Linked(b)
      /\ FreeOnes' = FreeOnes
  BY SameLinks
<1>2. Paths'
  <2>1. \A b \in Main : (IsPath(next, Chain(b), b))'
    BY <1>1 DEF Paths, IsPath
  <2>2. Chain(free)' = Chain(free)
    BY DEF Chain
  <2>3. (free # Nil => IsPath(next, Chain(free), free))'
    BY <2>2 DEF Paths, IsPath
  <2> QED
    BY <2>1, <2>3 DEF Paths
<1>3. Apart'
  BY <1>1 DEF Apart
<1>4. ASSUME NEW u \in Threads PROVE HandOK(u)'
  <2>1. HandOK(u)
    BY DEF Hands
  <2>2. CASE u = t
    BY <1>1, <2>1, <2>2 DEF HandOK, Handing, Freeing
  <2>3. CASE u # t
    BY <1>1, <2>1, <2>3 DEF HandOK
  <2> QED
    BY <2>2, <2>3
<1>5. Hands'
  BY <1>4 DEF Hands
<1>6. Cover'
  BY <1>1 DEF Cover
<1> QED
  BY <1>2, <1>3, <1>5, <1>6

\* No bucket is locked twice, and a thread that is at the free list has its
\* lock, when the one that takes the step keeps its call or leaves.
LEMMA LocksKeep ==
  ASSUME NEW t \in Threads, Locks, locked' = locked, \A u \in Threads : u # t => Stay(u),
         pc'[t] \in Inside => pc[t] \in Inside /\ call'[t] = call[t],
         pc'[t] \in AtList => flock' = t,
         \A u \in Threads : u # t /\ pc[u] \in AtList => flock' = u
  PROVE  Locks'
<1>1. \A u \in Threads : u # t => pc'[u] = pc[u] /\ B(u)' = B(u)
  BY DEF Stay, B, Key
<1>2. pc'[t] \in Inside => pc[t] \in Inside /\ B(t)' = B(t)
  BY DEF B, Key
<1>3. (\A u \in Threads : pc[u] \in Inside => B(u) \in locked)'
  BY <1>1, <1>2 DEF Locks
<1>4. (\A u, w \in Threads : u # w /\ pc[u] \in Inside /\ pc[w] \in Inside => B(u) # B(w))'
  <2>1. \A u \in Threads : pc'[u] \in Inside => pc[u] \in Inside /\ B(u)' = B(u)
    BY <1>1, <1>2
  <2> QED
    BY <2>1 DEF Locks
<1>5. (\A u \in Threads : pc[u] \in AtList => flock = u)'
  BY <1>1
<1> QED
  BY <1>3, <1>4, <1>5 DEF Locks

\* The items that threads have to themselves stay theirs, when the step takes
\* none of them and no slot gets one.
LEMMA PoolKeeps ==
  ASSUME NEW t \in Threads, Pool, \A u \in Threads : u # t => Stay(u),
         Held(t)' \subseteq Held(t), pc'[t] # "publish",
         \A u \in Threads : u # t => \A o \in Held(u) : o \in live' /\ mem'[o] = mem[o],
         \A o \in Held(t)' : o \in live',
         \A o : \A x \in Buckets, i \in Indices : slots'[x][i] = o => o = Nil \/ \E y \in Buckets, j \in Indices : slots[y][j] = o,
         \A u \in Threads : Nil \notin Held(u)
  PROVE  Pool'
<1>1. \A u \in Threads : u # t => Held(u)' = Held(u) /\ pc'[u] = pc[u]
  BY DEF Stay, Held
<1>2. \A u \in Threads : Held(u)' \subseteq Held(u)
  BY <1>1
<1>3. ASSUME NEW u \in Threads, NEW o \in Held(u)'
      PROVE  /\ o \in live' /\ \A x \in Buckets, i \in Indices : slots'[x][i] # o
             /\ \A w \in Threads : w # u => o \notin Held(w)'
  <2>1. o \in Held(u) /\ o # Nil
    BY <1>2, <1>3
  <2>2. /\ o \in live /\ \A x \in Buckets, i \in Indices : slots[x][i] # o
        /\ \A w \in Threads : w # u => o \notin Held(w)
    BY <2>1 DEF Pool
  <2>3. o \in live'
    BY <1>3, <2>1
  <2> QED
    BY <1>2, <2>1, <2>2, <2>3
<1>4. ASSUME NEW u \in Threads, pc'[u] = "publish"
      PROVE  mem'[item'[u]] = [key |-> Key(u)', v |-> call'[u].v]
  <2>1. u # t /\ pc[u] = "publish" /\ Stay(u)
    BY <1>1, <1>4
  <2>2. item[u] \in Held(u) /\ mem[item[u]] = [key |-> Key(u), v |-> call[u].v]
    BY <2>1 DEF Held, Pool
  <2> QED
    BY <2>1, <2>2 DEF Stay, Key
<1> QED
  BY <1>3, <1>4 DEF Pool

\* What threads have to themselves are items.
LEMMA HeldReal ==
  ASSUME Pool, Types, NEW u \in Threads
  PROVE  Nil \notin Held(u) /\ Held(u) \subseteq Offsets
<1>1. live \subseteq Offsets
  BY ChainsAssumption DEF Types
<1> QED
  BY <1>1, BucketIds DEF Pool

\* A step that touches no chain and no item keeps the invariant, when it keeps
\* what the thread that takes it knows.
Untouched == UNCHANGED <<setting, next, slots, free, flock, mem, live, cur, hand>>
LocalTypes ==
  /\ pc \in [Threads -> PCs]
  /\ loc \in [Threads -> [b : Buckets \cup {Nil}, i : Nat]]
  /\ old \in [Threads -> Offsets \cup {Nil}]
  /\ DOMAIN call = Threads /\ DOMAIN item = Threads
  /\ DOMAIN same = Threads /\ DOMAIN buf = Threads
LEMMA LocalStep ==
  ASSUME IInv, NEW t \in Threads, Untouched, \A u \in Threads : u # t => Stay(u), LocalTypes',
         pc[t] \notin Handing, pc'[t] \notin Handing, pc[t] # "moved", pc'[t] # "publish",
         \A b \in Main : pc[t] \in Filling /\ B(t) = b => Packed(b)',
         Held(t)' \subseteq Held(t),
         Locks', CallOK(t)', Mut(t)', Reader(t)',
         \A u \in Threads : u # t /\ pc[u] \in Reading /\ same'[u] => same[u] /\ B(u) \notin locked'
  PROVE  IInv'
<1>1. /\ setting' = setting /\ next' = next /\ slots' = slots /\ free' = free /\ mem' = mem
      /\ live' = live /\ cur' = cur /\ hand' = hand
  BY DEF Untouched
<1>2. Types'
  BY <1>1 DEF IInv, Types, LocalTypes
<1>3. \A b : Chain(b)' = Chain(b) /\ Linked(b)' = Linked(b)
  BY <1>1, SameLinks
<1>4. \A b : Chain(b)' = Chain(b) /\ Linked(b)' = Linked(b) => ChainSame(b)
  BY <1>1 DEF ChainSame
<1>5. \A u \in Threads : u # t => ChainSame(B(u))
  <2> SUFFICES ASSUME NEW u \in Threads, u # t PROVE ChainSame(B(u))
    OBVIOUS
  <2>1. Chain(B(u))' = Chain(B(u)) /\ Linked(B(u))' = Linked(B(u))
    <3>1. B(u)' = B(u)
      BY DEF Stay, B, Key
    <3>2. Chain(B(u))' = Chain(B(u))
      BY <1>1, <3>1 DEF Chain
    <3> QED
      BY <3>2 DEF Linked
  <2> QED
    BY <1>1, <2>1 DEF ChainSame
<1>6. \A u \in Threads : CallOK(u)' /\ Mut(u)' /\ Reader(u)'
  <2> SUFFICES ASSUME NEW u \in Threads, u # t PROVE CallOK(u)' /\ Mut(u)' /\ Reader(u)'
    OBVIOUS
  <2>1. CallOK(u) /\ Mut(u) /\ Reader(u) /\ Stay(u) /\ ChainSame(B(u))
    BY <1>5 DEF IInv
  <2> QED
    BY <2>1, CallKeeps, MutKeeps, ReaderKeeps
<1>7. Paths' /\ Apart' /\ Hands' /\ Cover'
  <2>1. \A u \in Threads : u # t => pc'[u] = pc[u]
    BY DEF Stay
  <2> QED
    BY <1>1, <2>1, ListsKeep DEF IInv
<1>8. Pool'
  <2>1. \A u \in Threads : Nil \notin Held(u)
    BY HeldReal DEF IInv
  <2>2. \A u \in Threads : \A o \in Held(u) : o \in live
    BY DEF IInv, Pool
  <2>3. \A o \in Held(t)' : o \in live'
    BY <1>1, <2>2
  <2>4. \A u \in Threads : u # t => \A o \in Held(u) : o \in live' /\ mem'[o] = mem[o]
    BY <1>1, <2>2
  <2>5. \A o : \A x \in Buckets, i \in Indices : slots'[x][i] = o =>
          o = Nil \/ \E y \in Buckets, j \in Indices : slots[y][j] = o
    BY <1>1
  <2> QED
    BY <2>1, <2>3, <2>4, <2>5, PoolKeeps DEF IInv
<1>9. ASSUME NEW b \in Main PROVE Items(b)' /\ Once(b)' /\ Packed(b)'
  <2>1. Items(b) /\ Once(b) /\ Packed(b) /\ ChainSame(b)
    BY <1>3, <1>4 DEF IInv
  <2>2. Items(b)' /\ Once(b)'
    BY <2>1, ChainKeeps
  <2>3. Packed(b)'
    <3>1. CASE pc[t] \in Filling /\ B(t) = b
      BY <3>1
    <3>2. CASE ~(pc[t] \in Filling /\ B(t) = b)
      BY <2>1, <3>2, ChainKeeps
    <3> QED
      BY <3>1, <3>2
  <2> QED
    BY <2>2, <2>3
<1> QED
  BY <1>2, <1>6, <1>7, <1>8, <1>9 DEF IInv

-----------------------------------------------------------------------------
(* Steps of a mutator that touch no chain and no item.                     *)

\* ... and so does such a step of a mutator that has locked a bucket.
LEMMA MutLocal ==
  ASSUME IInv, NEW t \in Threads, Untouched, locked' = locked, same' = same,
         call' = call, item' = item, buf' = buf,
         NEW l, l \in Inside \ Handing, l # "publish", pc[t] \in Inside \ Handing, pc[t] # "moved",
         pc' = [pc EXCEPT ![t] = l],
         NEW x \in [b : Buckets \cup {Nil}, i : Nat], loc' = [loc EXCEPT ![t] = x],
         NEW y \in Offsets \cup {Nil}, old' = [old EXCEPT ![t] = y],
         l \in Inserting \cup Growing => call[t].op # "del",
         \A b \in Main : pc[t] \in Filling /\ B(t) = b => Packed(b)',
         Held(t)' \subseteq Held(t), Mut(t)'
  PROVE  IInv'
<1>1. Types
  BY DEF IInv
<1>2. /\ pc'[t] = l /\ loc'[t] = x /\ old'[t] = y
      /\ \A u \in Threads : u # t => Stay(u)
  BY <1>1 DEF Stay, Types, Untouched
<1>3. LocalTypes'
  <2>1. l \in PCs
    BY DEF PCs
  <2> QED
    BY <1>1, <2>1 DEF Types, LocalTypes
<1>4. l \notin AtList /\ l \notin Reading \cup Walking \cup { "begin", "release" }
  BY DEF AtList, Inside, Handing, Reading, Walking, Inserting, Growing, Filling, Freeing
<1>5. Locks'
  <2>1. flock' = flock
    BY DEF Untouched
  <2>2. \A u \in Threads : u # t /\ pc[u] \in AtList => flock' = u
    BY <2>1 DEF IInv, Locks
  <2> QED
    BY <1>2, <1>4, <2>2, LocksKeep DEF IInv
<1>6. CallOK(t)'
  <2>1. CallOK(t)
    BY DEF IInv
  <2> QED
    BY <1>2, <1>4, <2>1 DEF CallOK, Key
<1>7. Reader(t)'
  BY <1>2, <1>4 DEF Reader
<1>8. \A u \in Threads : u # t /\ pc[u] \in Reading /\ same'[u] => same[u] /\ B(u) \notin locked'
  BY DEF IInv, Reader
<1> QED
  BY <1>2, <1>3, <1>5, <1>6, <1>7, <1>8, LocalStep

\* What a mutator's step needs to know of the chain it has locked.
LEMMA MyChain ==
  ASSUME IInv, NEW t \in Threads, pc[t] \in Inside
  PROVE  /\ Key(t) \in Keys /\ B(t) \in Main /\ next \in Links /\ Good(next, B(t))
         /\ B(t) \in Linked(B(t)) /\ Linked(B(t)) \subseteq Buckets
         /\ Items(B(t)) /\ Once(B(t)) /\ Packed(B(t)) /\ Mut(t) /\ CallOK(t)
         /\ B(t) \in locked
<1>1. Key(t) \in Keys /\ Mut(t) /\ CallOK(t)
  BY DEF IInv, CallOK
<1>2. B(t) \in Main
  BY <1>1, BucketIds DEF B
<1>3. next \in Links /\ Good(next, B(t))
  <2>1. IsPath(next, Chain(B(t)), B(t))
    BY <1>2 DEF IInv, Paths
  <2> QED
    BY <2>1, ChainIsOf DEF IInv, Types, Links, Good
<1>4. B(t) \in Linked(B(t)) /\ Linked(B(t)) \subseteq Buckets
  BY <1>3, ChainClosed, ChainIsOf
<1> QED
  BY <1>1, <1>2, <1>3, <1>4 DEF IInv, Locks

\* add() finds the key, del() does not, or there is no extra bucket: nothing is done.
LEMMA StepExists ==
  ASSUME IInv, NEW t \in Threads, setting' = setting, Exists(t) \/ DelMiss(t) \/ GrowFails(t)
  PROVE  IInv'
<1>1. /\ pc[t] \in { "find", "grow" } /\ pc' = [pc EXCEPT ![t] = "unlock"]
      /\ Untouched /\ locked' = locked /\ same' = same /\ call' = call /\ item' = item
      /\ buf' = buf /\ loc' = loc /\ old' = old
  BY DEF Exists, DelMiss, GrowFails, At, Goto, chains, pool, locals, Untouched
<1>2. /\ pc[t] \in Inside \ Handing /\ pc[t] \notin Filling /\ pc[t] # "moved"
      /\ "unlock" \in Inside \ Handing
      /\ "unlock" \notin Inserting \cup Growing \cup Filling
      /\ pc[t] \notin Inserting \cup { "unlock", "release" }
  BY <1>1 DEF Inside, Handing, Freeing, Filling, Inserting, Growing
<1>3. Mut(t) /\ Types
  BY DEF IInv
<1>4. old[t] = Nil
  BY <1>2, <1>3 DEF Mut
<1>5. pc'[t] = "unlock" /\ old'[t] = Nil
  BY <1>1, <1>3, <1>4 DEF Types
<1>6. Mut(t)' /\ Held(t)' \subseteq Held(t)
  BY <1>2, <1>5 DEF Mut, Held
<1>7. /\ loc' = [loc EXCEPT ![t] = loc[t]] /\ loc[t] \in [b : Buckets \cup {Nil}, i : Nat]
      /\ old' = [old EXCEPT ![t] = old[t]] /\ old[t] \in Offsets \cup {Nil}
  BY <1>1, <1>3 DEF Types
<1> QED
  BY <1>1, <1>2, <1>6, <1>7, MutLocal

\* set() finds the key, and needs a new item for the value.
LEMMA StepSetReplace ==
  ASSUME IInv, NEW t \in Threads, setting' = setting, SetReplace(t)
  PROVE  IInv'
<1>1. PICK l \in Found(B(t), Key(t)) :
        loc' = [loc EXCEPT ![t] = l] /\ old' = [old EXCEPT ![t] = slots[l.b][l.i]]
  BY DEF SetReplace
<1>2. /\ pc[t] = "find" /\ pc' = [pc EXCEPT ![t] = "allocate"] /\ call[t].op = "set"
      /\ Untouched /\ locked' = locked /\ same' = same /\ call' = call /\ item' = item
      /\ buf' = buf
  BY DEF SetReplace, At, Goto, chains, pool, Untouched
<1>3. /\ pc[t] \in Inside \ Handing /\ pc[t] \notin Filling /\ pc[t] # "moved" /\ pc[t] \in Inside
      /\ "allocate" \in Inside \ Handing /\ "allocate" \in Inserting
      /\ "allocate" \notin Growing \cup Filling
  BY <1>2 DEF Inside, Handing, Freeing, Filling, Inserting, Growing
<1>4. next \in Links /\ Good(next, B(t)) /\ Linked(B(t)) \subseteq Buckets /\ Types
  BY <1>3, MyChain DEF IInv
<1>5. /\ l.b \in Linked(B(t)) /\ l.i \in Indices
      /\ l = [b |-> l.b, i |-> l.i] /\ Holds(l.b, l.i, Key(t))
  BY <1>4, FoundIs
<1>6. l \in [b : Buckets \cup {Nil}, i : Nat]
  <2>1. l.i \in Nat /\ l.b \in Buckets
    BY <1>4, <1>5, BucketIds
  <2> QED
    BY <1>5, <2>1
<1>7. pc'[t] = "allocate" /\ loc'[t] = l /\ old'[t] = slots[l.b][l.i]
  BY <1>1, <1>2, <1>4 DEF Types
<1>8. Mut(t)'
  <2>1. B(t)' = B(t) /\ Key(t)' = Key(t) /\ slots' = slots /\ mem' = mem /\ cur' = cur /\ next' = next
    BY <1>2 DEF B, Key, Untouched
  <2>2. Linked(B(t))' = Linked(B(t))
    <3>1. Chain(B(t))' = Chain(B(t))
      BY <2>1 DEF Chain
    <3> QED
      BY <3>1 DEF Linked
  <2>3. Placed(t)' /\ AtLoc(t)' = slots[l.b][l.i]
    BY <1>5, <1>7, <2>1, <2>2 DEF Placed, AtLoc
  <2>4. slots[l.b][l.i] # Nil /\ mem[slots[l.b][l.i]].key = Key(t)
    BY <1>5 DEF Holds
  <2> QED
    BY <1>3, <1>7, <2>1, <2>3, <2>4 DEF Mut
<1>9. Held(t)' \subseteq Held(t)
  BY <1>7 DEF Held
<1>10. slots[l.b][l.i] \in Offsets \cup {Nil}
  <2>1. l.b \in Buckets /\ l.i \in Indices /\ slots \in [Buckets -> [Indices -> Offsets \cup {Nil}]]
    BY <1>4, <1>5 DEF Types
  <2> QED
    BY <2>1
<1> QED
  BY <1>1, <1>2, <1>3, <1>6, <1>8, <1>9, <1>10, MutLocal

\* set() has a free slot for the key, or must link one more bucket.
LEMMA StepSetEmpty ==
  ASSUME IInv, NEW t \in Threads, setting' = setting, SetEmpty(t)
  PROVE  IInv'
<1>1. /\ pc[t] = "find" /\ call[t].op # "del" /\ Found(B(t), Key(t)) = {}
      /\ Untouched /\ locked' = locked /\ same' = same /\ call' = call /\ item' = item
      /\ buf' = buf /\ old' = old
  BY DEF SetEmpty, At, Goto, chains, pool, Untouched
<1>2. /\ pc[t] \in Inside \ Handing /\ pc[t] \notin Filling /\ pc[t] # "moved" /\ pc[t] \in Inside
      /\ "allocate" \in Inside \ Handing /\ "allocate" \in Inserting
      /\ "allocate" \notin Growing \cup Filling
      /\ "grow" \in Inside \ Handing /\ "grow" \in Growing
      /\ "grow" \notin Inserting \cup Filling
      /\ pc[t] \notin Inserting \cup { "unlock", "release" }
  BY <1>1 DEF Inside, Handing, Freeing, Filling, Inserting, Growing
<1>3. /\ next \in Links /\ Good(next, B(t)) /\ Linked(B(t)) \subseteq Buckets /\ Types
      /\ Items(B(t)) /\ Key(t) \in Keys /\ old[t] = Nil /\ B(t) \in Linked(B(t))
  BY <1>2, MyChain DEF IInv, Mut
<1>4. cur[Key(t)] = Nil
  <2>1. \A x \in Linked(B(t)), i \in Indices : ~Holds(x, i, Key(t))
    BY <1>1, <1>3, FoundIs
  <2> QED
    BY <1>3, <2>1 DEF Items, B
<1>5. /\ old' = [old EXCEPT ![t] = old[t]] /\ old[t] \in Offsets \cup {Nil} /\ old'[t] = Nil
  BY <1>1, <1>3 DEF Types
<1>6. /\ B(t)' = B(t) /\ Key(t)' = Key(t) /\ slots' = slots /\ mem' = mem /\ cur' = cur /\ next' = next
      /\ Linked(B(t))' = Linked(B(t))
  <2>1. B(t)' = B(t) /\ Key(t)' = Key(t) /\ slots' = slots /\ mem' = mem /\ cur' = cur /\ next' = next
    BY <1>1 DEF B, Key, Untouched
  <2>2. Chain(B(t))' = Chain(B(t))
    BY <2>1 DEF Chain
  <2> QED
    BY <2>1, <2>2 DEF Linked
<1>7. CASE Vacant(B(t)) # {}
  <2>1. PICK l \in Vacant(B(t)) :
          loc' = [loc EXCEPT ![t] = l] /\ pc' = [pc EXCEPT ![t] = "allocate"]
    BY <1>7 DEF SetEmpty, Goto
  <2>2. /\ l.b \in Linked(B(t)) /\ l.i \in Indices
        /\ l = [b |-> l.b, i |-> l.i] /\ slots[l.b][l.i] = Nil
    BY <1>3, VacantIs
  <2>3. l \in [b : Buckets \cup {Nil}, i : Nat]
    <3>1. l.i \in Nat /\ l.b \in Buckets
      BY <1>3, <2>2, BucketIds
    <3> QED
      BY <2>2, <3>1
  <2>4. pc'[t] = "allocate" /\ loc'[t] = l
    BY <1>3, <2>1 DEF Types
  <2>5. Mut(t)'
    <3>1. Placed(t)' /\ AtLoc(t)' = Nil
      BY <1>6, <2>2, <2>4 DEF Placed, AtLoc
    <3> QED
      BY <1>2, <1>4, <1>5, <1>6, <2>4, <3>1 DEF Mut
  <2>6. Held(t)' \subseteq Held(t)
    BY <2>4 DEF Held
  <2> QED
    BY <1>1, <1>2, <1>5, <2>1, <2>3, <2>5, <2>6, MutLocal
<1>8. CASE Vacant(B(t)) = {}
  <2> DEFINE e == LastOf(Chain(B(t)))
  <2>1. loc' = [loc EXCEPT ![t] = Start(e)] /\ pc' = [pc EXCEPT ![t] = "grow"]
    BY <1>8 DEF SetEmpty, Goto
  <2>2. e \in Linked(B(t)) /\ next[e] = Nil
    BY <1>3, ChainEnd, ChainIsOf DEF LastOf
  <2>3. \A x \in Linked(B(t)), i \in Indices : slots[x][i] # Nil
    BY <1>3, <1>8, VacantIs
  <2> HIDE DEF e
  <2>4. Start(e) \in [b : Buckets \cup {Nil}, i : Nat] /\ Start(e).b = e /\ Start(e).i = 1 /\ 1 \in Indices
    BY <1>3, <2>2, BucketIds DEF Start
  <2>5. pc'[t] = "grow" /\ loc'[t] = Start(e)
    BY <1>3, <2>1 DEF Types
  <2>6. Mut(t)'
    <3>1. Placed(t)' /\ next'[loc'[t].b] = Nil
      BY <1>6, <2>2, <2>4, <2>5 DEF Placed
    <3> QED
      BY <1>2, <1>4, <1>5, <1>6, <2>3, <2>5, <3>1 DEF Mut
  <2>7. Held(t)' \subseteq Held(t)
    BY <2>5 DEF Held
  <2> QED
    BY <1>1, <1>2, <1>5, <2>1, <2>4, <2>6, <2>7, MutLocal
<1> QED
  BY <1>7, <1>8

\* The pool is full: the bucket is as it was.
LEMMA StepAllocateFails ==
  ASSUME IInv, NEW t \in Threads, setting' = setting, AllocateFails(t)
  PROVE  IInv'
<1>1. /\ pc[t] = "allocate" /\ pc' = [pc EXCEPT ![t] = "unlock"] /\ old' = [old EXCEPT ![t] = Nil]
      /\ Untouched /\ locked' = locked /\ same' = same /\ call' = call /\ item' = item
      /\ buf' = buf /\ loc' = loc
  BY DEF AllocateFails, At, Goto, chains, pool, Untouched
<1>2. /\ pc[t] \in Inside \ Handing /\ pc[t] \notin Filling /\ pc[t] # "moved"
      /\ "unlock" \in Inside \ Handing
      /\ "unlock" \notin Inserting \cup Growing \cup Filling
  BY <1>1 DEF Inside, Handing, Freeing, Filling, Inserting, Growing
<1>3. Types
  BY DEF IInv
<1>4. pc'[t] = "unlock" /\ old'[t] = Nil
  BY <1>1, <1>3 DEF Types
<1>5. Mut(t)' /\ Held(t)' \subseteq Held(t)
  BY <1>2, <1>4 DEF Mut, Held
<1>6. loc' = [loc EXCEPT ![t] = loc[t]] /\ loc[t] \in [b : Buckets \cup {Nil}, i : Nat]
  BY <1>1, <1>3 DEF Types
<1>7. Nil \in Offsets \cup {Nil}
  OBVIOUS
<1> QED
  BY <1>1, <1>2, <1>5, <1>6, <1>7, MutLocal

\* del() has left a hole in the last bucket, where it may stay.
LEMMA StepNoHole ==
  ASSUME IInv, NEW t \in Threads, setting' = setting, NoHole(t)
  PROVE  IInv'
<1>1. /\ pc[t] = "fill" /\ pc' = [pc EXCEPT ![t] = "unlock"] /\ next[loc[t].b] = Nil
      /\ Untouched /\ locked' = locked /\ same' = same /\ call' = call /\ item' = item
      /\ buf' = buf /\ loc' = loc /\ old' = old
  BY DEF NoHole, At, Goto, chains, pool, locals, Untouched
<1>2. /\ pc[t] \in Inside \ Handing /\ pc[t] # "moved" /\ pc[t] \in Inside
      /\ "unlock" \in Inside \ Handing
      /\ "unlock" \notin Inserting \cup Growing \cup Filling
      /\ pc[t] \notin Inserting \cup { "unlock", "release" }
  BY <1>1 DEF Inside, Handing, Freeing, Filling, Inserting, Growing
<1>3. Mut(t) /\ Types
  BY DEF IInv
<1>4. old[t] = Nil
  BY <1>2, <1>3 DEF Mut
<1>5. pc'[t] = "unlock" /\ old'[t] = Nil /\ \A u \in Threads : u # t => pc'[u] = pc[u] /\ B(u)' = B(u)
  BY <1>1, <1>3, <1>4 DEF Types, B, Key
<1>6. Mut(t)' /\ Held(t)' \subseteq Held(t)
  BY <1>2, <1>5 DEF Mut, Held
<1>7. /\ loc' = [loc EXCEPT ![t] = loc[t]] /\ loc[t] \in [b : Buckets \cup {Nil}, i : Nat]
      /\ old' = [old EXCEPT ![t] = old[t]] /\ old[t] \in Offsets \cup {Nil}
  BY <1>1, <1>3 DEF Types
<1>8. ASSUME NEW b \in Main PROVE Packed(b)'
  <2>1. Linked(b)' = Linked(b) /\ next' = next /\ slots' = slots
    BY <1>1, SameLinks DEF Untouched
  <2>2. ASSUME NEW x \in Linked(b), NEW i \in Indices, next[x] # Nil, slots[x][i] = Nil
        PROVE  \E u \in Threads : pc'[u] \in Filling /\ B(u)' = b /\ IsAt(u, x, i)'
    <3>1. PICK u \in Threads : pc[u] \in Filling /\ B(u) = b /\ IsAt(u, x, i)
      BY <2>2 DEF IInv, Packed
    <3>2. u # t
      BY <1>1, <2>2, <3>1 DEF IsAt
    <3> QED
      BY <1>1, <1>5, <3>1, <3>2 DEF IsAt
  <2> QED
    BY <2>1, <2>2 DEF Packed
<1> QED
  BY <1>1, <1>2, <1>6, <1>7, <1>8, MutLocal

-----------------------------------------------------------------------------
(* The beginning and the end of an operation.                              *)

\* A set() or del() comes in.
LEMMA StepBegin ==
  ASSUME IInv, NEW t \in Threads, setting' = setting,
         NEW op \in { "set", "add", "del" }, NEW k \in Keys, NEW v, op # "del" => v \in Values,
         Begin(t, op, k, v)
  PROVE  IInv'
<1>1. /\ pc[t] = "idle" /\ pc' = [pc EXCEPT ![t] = "lock"]
      /\ call' = [call EXCEPT ![t] = [op |-> op, key |-> k, v |-> v]]
      /\ Untouched /\ locked' = locked /\ same' = same /\ item' = item
      /\ buf' = buf /\ loc' = loc /\ old' = old /\ flock' = flock
  BY DEF Begin, At, Goto, chains, pool, Untouched
<1>2. Types /\ Mut(t) /\ Locks
  BY DEF IInv
<1>3. /\ "lock" \notin Inside \cup Reading \cup Handing \cup AtList
      /\ "lock" \notin Reading \cup Inserting \cup Growing \cup Walking \cup Filling \cup { "begin" }
      /\ "idle" \notin Handing \cup Filling \cup Inserting
  BY DEF Inside, Handing, Freeing, Filling, Inserting, Growing, Reading, Walking, AtList
<1>4. /\ pc'[t] = "lock" /\ call'[t] = [op |-> op, key |-> k, v |-> v] /\ old'[t] = Nil
      /\ \A u \in Threads : u # t => Stay(u)
  BY <1>1, <1>2, <1>3 DEF Types, Stay, Untouched, Mut
<1>5. LocalTypes'
  BY <1>1, <1>2 DEF Types, LocalTypes, PCs
<1>6. Locks'
  BY <1>1, <1>2, <1>3, <1>4, LocksKeep DEF Locks
<1>7. CallOK(t)' /\ Mut(t)' /\ Reader(t)'
  BY <1>3, <1>4 DEF CallOK, Mut, Reader, Key
<1>8. Held(t)' \subseteq Held(t)
  BY <1>4 DEF Held
<1>9. \A u \in Threads : u # t /\ pc[u] \in Reading /\ same'[u] => same[u] /\ B(u) \notin locked'
  BY <1>1 DEF IInv, Reader
<1> QED
  BY <1>1, <1>3, <1>4, <1>5, <1>6, <1>7, <1>8, <1>9, LocalStep

\* The bucket's version becomes odd, and its readers see it change.
LEMMA StepLockBucket ==
  ASSUME IInv, NEW t \in Threads, setting' = setting, LockBucket(t)
  PROVE  IInv'
<1>1. /\ pc[t] = "lock" /\ pc' = [pc EXCEPT ![t] = "find"] /\ B(t) \notin locked
      /\ locked' = locked \cup {B(t)}
      /\ same' = [g \in Threads |-> same[g] /\ ~(call[g].op = "get" /\ B(g) = B(t))]
      /\ Untouched /\ call' = call /\ item' = item
      /\ buf' = buf /\ loc' = loc /\ old' = old /\ flock' = flock
  BY DEF LockBucket, At, Goto, chains, pool, Untouched
<1>2. Types /\ Mut(t) /\ Locks /\ \A u \in Threads : CallOK(u) /\ Reader(u)
  BY DEF IInv
<1>3. /\ "find" \in Inside /\ "find" \notin Reading \cup Handing \cup AtList
      /\ "find" \notin Reading \cup Inserting \cup Growing \cup Walking \cup Filling \cup { "begin" }
      /\ "lock" \notin Handing \cup Filling \cup Inserting \cup Inside
  BY DEF Inside, Handing, Freeing, Filling, Inserting, Growing, Reading, Walking, AtList
<1>4. /\ pc'[t] = "find" /\ call'[t] = call[t] /\ old'[t] = Nil
      /\ \A u \in Threads : u # t => Stay(u)
      /\ \A u \in Threads : B(u)' = B(u) /\ (u # t => pc'[u] = pc[u])
  BY <1>1, <1>2, <1>3 DEF Types, Stay, Untouched, Mut, B, Key
<1>5. LocalTypes'
  BY <1>1, <1>2, <1>3 DEF Types, LocalTypes, PCs
<1>6. Locks'
  <2>1. (\A u \in Threads : pc[u] \in Inside => B(u) \in locked)'
    BY <1>1, <1>2, <1>4 DEF Locks
  <2>2. (\A u, w \in Threads : u # w /\ pc[u] \in Inside /\ pc[w] \in Inside => B(u) # B(w))'
    BY <1>1, <1>2, <1>4 DEF Locks
  <2>3. (\A u \in Threads : pc[u] \in AtList => flock = u)'
    BY <1>1, <1>2, <1>3, <1>4 DEF Locks
  <2> QED
    BY <2>1, <2>2, <2>3 DEF Locks
<1>7. CallOK(t)' /\ Mut(t)' /\ Reader(t)'
  BY <1>1, <1>2, <1>3, <1>4 DEF CallOK, Mut, Reader, Key
<1>8. Held(t)' \subseteq Held(t)
  BY <1>4 DEF Held
<1>9. \A u \in Threads : u # t /\ pc[u] \in Reading /\ same'[u] => same[u] /\ B(u) \notin locked'
  BY <1>1, <1>2 DEF CallOK, Reader
<1> QED
  BY <1>1, <1>3, <1>4, <1>5, <1>6, <1>7, <1>8, <1>9, LocalStep

\* What is left of an operation at its end.
LEMMA AfterReset ==
  ASSUME Types, NEW t \in Threads, Reset(t)
  PROVE  /\ pc'[t] = "idle" /\ old'[t] = Nil /\ hand' = hand
         /\ \A u \in Threads : u # t => Stay(u) /\ same'[u] = same[u]
         /\ LocalTypes'
<1>1. /\ pc' = [pc EXCEPT ![t] = "idle"] /\ loc' = [loc EXCEPT ![t] = Start(Nil)]
      /\ call' = [call EXCEPT ![t] = NoCall] /\ item' = [item EXCEPT ![t] = Nil]
      /\ old' = [old EXCEPT ![t] = Nil] /\ same' = [same EXCEPT ![t] = TRUE]
      /\ buf' = [buf EXCEPT ![t] = Nil] /\ hand' = hand
  BY DEF Reset, Goto
<1>2. Start(Nil) \in [b : Buckets \cup {Nil}, i : Nat]
  BY DEF Start
<1>3. LocalTypes'
  BY <1>1, <1>2 DEF Types, LocalTypes, PCs
<1> QED
  BY <1>1, <1>3 DEF Types, Stay

\* The bucket's version becomes even, and its chain is sound.
LEMMA StepUnlockBucket ==
  ASSUME IInv, NEW t \in Threads, setting' = setting, UnlockBucket(t)
  PROVE  IInv'
<1>1. /\ pc[t] = "unlock" /\ locked' = locked \ {B(t)} /\ flock' = flock
      /\ setting' = setting /\ next' = next /\ slots' = slots /\ free' = free
      /\ mem' = mem /\ live' = live /\ cur' = cur
  BY DEF UnlockBucket, At, chains, pool
<1>2. Types /\ Mut(t) /\ Locks /\ CallOK(t)
  BY DEF IInv
<1>3. /\ "unlock" \in Inside /\ "unlock" \notin Handing \cup Filling
      /\ { "idle", "release" } \cap (Inside \cup Reading \cup Handing \cup AtList \cup Inserting \cup
           Growing \cup Walking \cup Filling \cup { "begin" }) = {}
  BY DEF Inside, Handing, Freeing, Filling, Inserting, Growing, Reading, Walking, AtList
<1>4. CASE old[t] = Nil
  <2>1. Reset(t)
    BY <1>4 DEF UnlockBucket
  <2>2. /\ pc'[t] = "idle" /\ old'[t] = Nil /\ hand' = hand /\ LocalTypes'
        /\ \A u \in Threads : u # t => Stay(u) /\ same'[u] = same[u]
    BY <1>2, <2>1, AfterReset
  <2>3. Untouched
    BY <1>1, <2>2 DEF Untouched
  <2>4. Held(t)' \subseteq Held(t)
    BY <2>2 DEF Held
  <2>5. CallOK(t)' /\ Mut(t)' /\ Reader(t)'
    BY <1>3, <2>2 DEF CallOK, Mut, Reader
  <2>6. \A u \in Threads : u # t => pc'[u] = pc[u] /\ B(u)' = B(u)
    BY <2>2 DEF Stay, B, Key
  <2>7. Locks'
    BY <1>1, <1>2, <1>3, <2>2, <2>6 DEF Locks
  <2>8. \A u \in Threads : u # t /\ pc[u] \in Reading /\ same'[u] => same[u] /\ B(u) \notin locked'
    BY <1>1, <2>2 DEF IInv, Reader
  <2> QED
    BY <1>1, <1>3, <2>2, <2>3, <2>4, <2>5, <2>7, <2>8, LocalStep
<1>5. CASE old[t] # Nil
  <2>1. /\ pc' = [pc EXCEPT ![t] = "release"] /\ call' = call /\ loc' = loc /\ hand' = hand
        /\ item' = item /\ old' = old /\ same' = same /\ buf' = buf
    BY <1>5 DEF UnlockBucket, Goto, locals
  <2>2. /\ pc'[t] = "release" /\ old'[t] = old[t] /\ LocalTypes'
        /\ \A u \in Threads : u # t => Stay(u) /\ same'[u] = same[u]
    BY <1>2, <2>1 DEF Types, LocalTypes, Stay, PCs
  <2>3. Untouched
    BY <1>1, <2>1 DEF Untouched
  <2>4. Held(t)' \subseteq Held(t)
    BY <1>1, <2>2 DEF Held
  <2>5. CallOK(t)' /\ Mut(t)' /\ Reader(t)'
    BY <1>1, <1>2, <1>3, <1>5, <2>1, <2>2 DEF CallOK, Mut, Reader, Key
  <2>6. \A u \in Threads : u # t => pc'[u] = pc[u] /\ B(u)' = B(u)
    BY <2>2 DEF Stay, B, Key
  <2>7. Locks'
    BY <1>1, <1>2, <1>3, <2>2, <2>6 DEF Locks
  <2>8. \A u \in Threads : u # t /\ pc[u] \in Reading /\ same'[u] => same[u] /\ B(u) \notin locked'
    BY <1>1, <2>2 DEF IInv, Reader
  <2> QED
    BY <1>1, <1>3, <2>2, <2>3, <2>4, <2>5, <2>7, <2>8, LocalStep
<1> QED
  BY <1>4, <1>5

-----------------------------------------------------------------------------
(* Steps of a reader.                                                      *)

\* A step of a reader changes what that reader knows, and nothing else.
LEMMA ReadLocal ==
  ASSUME IInv, NEW t \in Threads, Untouched, locked' = locked, flock' = flock,
         \A u \in Threads : u # t => Stay(u) /\ same'[u] = same[u], LocalTypes',
         pc[t] \in Reading \cup { "begin", "idle" }, pc'[t] \in Reading \cup { "begin", "idle" },
         old'[t] = old[t], CallOK(t)', Reader(t)'
  PROVE  IInv'
<1>1. /\ pc[t] \notin Handing \cup Filling \cup Inserting \cup { "moved", "unlock", "release", "publish" }
      /\ pc'[t] \notin Inside \cup Handing \cup Filling \cup Inserting \cup Growing
      /\ pc'[t] \notin { "moved", "detach", "unlock", "release", "publish" } \cup AtList
  BY DEF Inside, Handing, Freeing, Filling, Inserting, Growing, Reading, Walking, AtList
<1>2. Mut(t) /\ Locks
  BY DEF IInv
<1>3. Mut(t)' /\ Held(t)' \subseteq Held(t)
  BY <1>1, <1>2 DEF Mut, Held
<1>4. Locks'
  BY <1>1, <1>2, LocksKeep DEF Locks
<1>5. \A u \in Threads : u # t /\ pc[u] \in Reading /\ same'[u] => same[u] /\ B(u) \notin locked'
  BY DEF IInv, Reader
<1> QED
  BY <1>1, <1>3, <1>4, <1>5, LocalStep

\* A get() comes in.
LEMMA StepGet ==
  ASSUME IInv, NEW t \in Threads, setting' = setting, NEW k \in Keys, Get(t, k)
  PROVE  IInv'
<1>1. /\ pc[t] = "idle" /\ pc' = [pc EXCEPT ![t] = "begin"]
      /\ call' = [call EXCEPT ![t] = [op |-> "get", key |-> k, v |-> Nil]]
      /\ Untouched /\ locked' = locked /\ flock' = flock
      /\ loc' = loc /\ hand' = hand /\ item' = item /\ old' = old /\ same' = same /\ buf' = buf
  BY DEF Get, At, Goto, chains, pool, Untouched
<1>2. Types
  BY DEF IInv
<1>3. /\ pc'[t] = "begin" /\ call'[t] = [op |-> "get", key |-> k, v |-> Nil]
      /\ \A u \in Threads : u # t => Stay(u) /\ same'[u] = same[u]
  BY <1>1, <1>2 DEF Types, Stay
<1>4. LocalTypes'
  BY <1>1, <1>2 DEF Types, LocalTypes, PCs
<1>5. "begin" \notin Inside \cup Reading \cup Inserting \cup Growing \cup Walking \cup { "lock", "release" }
  BY DEF Inside, Freeing, Filling, Inserting, Growing, Reading, Walking
<1>6. CallOK(t)' /\ Reader(t)'
  BY <1>3, <1>5 DEF CallOK, Reader, Key
<1> QED
  BY <1>1, <1>3, <1>4, <1>6, ReadLocal

\* What a reader knows that is at l, at place m of its chain, and has the item o
\* and the value w.
SeenUpTo(t, m, n) ==
  /\ m.b = Chain(B(t))[n]
  /\ \A j \in 1 .. n - 1, i \in Indices : ~Holds(Chain(B(t))[j], i, Key(t))
  /\ \A i \in Indices : i < m.i => ~Holds(m.b, i, Key(t))
Knows(t, l, m, o, w) ==
  /\ B(t) \notin locked
  /\ l \in { "scan", "compare" } => \E n \in 1 .. Len(Chain(B(t))) : SeenUpTo(t, m, n)
  /\ l = "compare" => m.b \in Linked(B(t)) /\ m.i \in Indices /\ slots[m.b][m.i] = o /\ o # Nil
  /\ l = "load" => m.b \in Linked(B(t)) /\ m.i \in Indices /\ Holds(m.b, m.i, Key(t))
  /\ l = "hit" => w = cur[Key(t)]
  /\ l = "miss" => cur[Key(t)] = Nil
\* What a reader is to know at each of its steps.
LEMMA ReaderKnows ==
  ASSUME NEW t
  PROVE  Reader(t) <=>
           (pc[t] \in Reading /\ same[t] => Knows(t, pc[t], loc[t], item[t], buf[t]))
<1>1. \A n : Seen(t, n) <=> SeenUpTo(t, loc[t], n)
  BY DEF Seen, SeenUpTo
<1> QED
  BY <1>1 DEF Reader, Knows, Placed, AtLoc

\* A reader's step that goes on with its call.
LEMMA ReadOn ==
  ASSUME IInv, NEW t \in Threads, setting' = setting,
         UNCHANGED <<locked, chains, pool, call, hand, old, cur>>,
         NEW l \in Reading \cup { "begin" }, pc' = [pc EXCEPT ![t] = l],
         NEW m \in [b : Buckets \cup {Nil}, i : Nat], loc' = [loc EXCEPT ![t] = m],
         l \in Walking => m.b \in Buckets /\ m.i >= 1,
         DOMAIN item' = Threads, \A u \in Threads : u # t => item'[u] = item[u],
         DOMAIN buf' = Threads, \A u \in Threads : u # t => buf'[u] = buf[u],
         DOMAIN same' = Threads, \A u \in Threads : u # t => same'[u] = same[u],
         pc[t] \in Reading \cup { "begin" },
         l \in Reading /\ same'[t] => Knows(t, l, m, item'[t], buf'[t])
  PROVE  IInv'
<1>1. Types /\ CallOK(t)
  BY DEF IInv
<1>2. /\ Untouched /\ locked' = locked /\ flock' = flock /\ call' = call /\ old' = old
  BY DEF chains, pool, Untouched
<1>3. /\ pc'[t] = l /\ loc'[t] = m
      /\ \A u \in Threads : u # t => Stay(u) /\ same'[u] = same[u]
  BY <1>1, <1>2 DEF Types, Stay, Untouched
<1>4. LocalTypes'
  BY <1>1, <1>2 DEF Types, LocalTypes, PCs
<1>5. l \notin Inside \cup { "lock", "release" } /\ l \notin Inserting \cup Growing
  BY DEF Inside, Freeing, Filling, Inserting, Growing, Reading, Walking
<1>6. CallOK(t)'
  BY <1>1, <1>2, <1>3, <1>5 DEF CallOK, Key
<1>7. Reader(t)'
  <2>1. /\ B(t)' = B(t) /\ Key(t)' = Key(t) /\ slots' = slots /\ mem' = mem /\ cur' = cur
        /\ next' = next
    BY <1>2 DEF B, Key, Untouched
  <2>2. Chain(B(t))' = Chain(B(t))
    BY <2>1 DEF Chain
  <2>3. Linked(B(t))' = Linked(B(t))
    BY <2>2 DEF Linked
  <2>4. \A x, i : Holds(x, i, Key(t))' = Holds(x, i, Key(t))
    BY <2>1 DEF Holds
  <2>5. \A n : SeenUpTo(t, loc[t], n)' <=> SeenUpTo(t, m, n)
    BY <1>3, <2>2, <2>4, <2>1 DEF SeenUpTo, Holds
  <2>6. Knows(t, l, m, item'[t], buf'[t]) => Knows(t, pc[t], loc[t], item[t], buf[t])'
    BY <1>2, <1>3, <2>1, <2>2, <2>3, <2>4, <2>5 DEF Knows, Holds
  <2>7. Reader(t)' <=> (pc[t] \in Reading /\ same[t] => Knows(t, pc[t], loc[t], item[t], buf[t]))'
    <3>1. \A n : (Seen(t, n) <=> SeenUpTo(t, loc[t], n))'
      BY DEF Seen, SeenUpTo
    <3> QED
      BY <3>1 DEF Reader, Knows, Placed, AtLoc
  <2> QED
    BY <1>3, <2>6, <2>7
<1> QED
  BY <1>2, <1>3, <1>4, <1>6, <1>7, ReadLocal

\* What is so of the chain that a reader walks.
LEMMA ReaderChain ==
  ASSUME IInv, NEW t \in Threads, pc[t] \in Reading \cup { "begin" }
  PROVE  /\ Key(t) \in Keys /\ B(t) \in Main /\ next \in Links /\ Good(next, B(t))
         /\ B(t) \in Linked(B(t)) /\ Items(B(t)) /\ CallOK(t)
         /\ pc[t] \in Reading /\ same[t] => Knows(t, pc[t], loc[t], item[t], buf[t])
<1>1. Key(t) \in Keys /\ CallOK(t) /\ Reader(t)
  BY DEF IInv, CallOK
<1>2. B(t) \in Main
  BY <1>1, BucketIds DEF B
<1>3. next \in Links /\ Good(next, B(t))
  <2>1. IsPath(next, Chain(B(t)), B(t))
    BY <1>2 DEF IInv, Paths
  <2> QED
    BY <2>1, ChainIsOf DEF IInv, Types, Links, Good
<1>4. B(t) \in Linked(B(t))
  BY <1>3, ChainClosed, ChainIsOf
<1> QED
  BY <1>1, <1>2, <1>3, <1>4, ReaderKnows DEF IInv

\* A reader finds an even version, and starts at the main bucket.
LEMMA StepBeginRead ==
  ASSUME IInv, NEW t \in Threads, setting' = setting, BeginRead(t)
  PROVE  IInv'
<1>1. /\ pc[t] = "begin" /\ B(t) \notin locked /\ pc' = [pc EXCEPT ![t] = "scan"]
      /\ loc' = [loc EXCEPT ![t] = Start(B(t))] /\ same' = [same EXCEPT ![t] = TRUE]
      /\ UNCHANGED <<locked, chains, pool, call, hand, old, cur>> /\ item' = item /\ buf' = buf
  BY DEF BeginRead, At, Goto
<1>2. DOMAIN item = Threads /\ DOMAIN buf = Threads /\ DOMAIN same = Threads
  BY DEF IInv, Types
<1>3. /\ B(t) \in Main /\ Good(next, B(t)) /\ next \in Links
  BY <1>1, ReaderChain
<1>4. /\ Start(B(t)) \in [b : Buckets \cup {Nil}, i : Nat]
      /\ Start(B(t)).b = B(t) /\ Start(B(t)).i = 1 /\ B(t) \in Buckets
  BY <1>3, BucketIds DEF Start
<1>5. SeenUpTo(t, Start(B(t)), 1) /\ 1 \in 1 .. Len(Chain(B(t)))
  <2>1. Len(Chain(B(t))) \in Nat \ {0} /\ Chain(B(t))[1] = B(t)
    BY <1>3, ChainIsOf, GoodParts
  <2>2. \A i \in Indices : ~(i < 1)
    BY DEF Indices
  <2> QED
    BY <1>4, <2>1, <2>2 DEF SeenUpTo
<1>6. \A o, w : Knows(t, "scan", Start(B(t)), o, w)
  BY <1>1, <1>5 DEF Knows
<1>7. "scan" \in Reading \cup { "begin" } /\ pc[t] \in Reading \cup { "begin" }
  BY <1>1 DEF Reading, Walking
<1>8. /\ DOMAIN item' = Threads /\ DOMAIN buf' = Threads /\ DOMAIN same' = Threads
      /\ \A u \in Threads : u # t => item'[u] = item[u] /\ buf'[u] = buf[u] /\ same'[u] = same[u]
  BY <1>1, <1>2
<1>9. Start(B(t)).b \in Buckets /\ Start(B(t)).i >= 1
  BY <1>4
<1>10. Knows(t, "scan", Start(B(t)), item'[t], buf'[t])
  BY <1>6
<1> QED
  BY <1>1, <1>4, <1>7, <1>8, <1>9, <1>10, ReadOn

\* The version has changed: what was read is worth nothing.
LEMMA StepRetry ==
  ASSUME IInv, NEW t \in Threads, setting' = setting, Retry(t)
  PROVE  IInv'
<1>1. /\ pc[t] \in { "hit", "miss" } /\ pc' = [pc EXCEPT ![t] = "begin"]
      /\ item' = [item EXCEPT ![t] = Nil] /\ buf' = [buf EXCEPT ![t] = Nil]
      /\ UNCHANGED <<locked, chains, pool, call, hand, old, cur>> /\ same' = same /\ loc' = loc
  BY DEF Retry, At, Goto
<1>2. /\ DOMAIN item = Threads /\ DOMAIN buf = Threads /\ DOMAIN same = Threads
      /\ loc \in [Threads -> [b : Buckets \cup {Nil}, i : Nat]]
  BY DEF IInv, Types
<1>3. loc' = [loc EXCEPT ![t] = loc[t]] /\ loc[t] \in [b : Buckets \cup {Nil}, i : Nat]
  BY <1>1, <1>2
<1>4. "begin" \in Reading \cup { "begin" } /\ "begin" \notin Reading \cup Walking /\ pc[t] \in Reading \cup { "begin" }
  BY <1>1 DEF Reading, Walking
<1> QED
  BY <1>1, <1>2, <1>3, <1>4, ReadOn

\* The version has not changed: get() returns.
LEMMA StepAnswer ==
  ASSUME IInv, NEW t \in Threads, setting' = setting, Answer(t)
  PROVE  IInv'
<1>1. /\ pc[t] \in { "hit", "miss" } /\ Reset(t)
      /\ setting' = setting /\ next' = next /\ slots' = slots /\ free' = free /\ flock' = flock
      /\ mem' = mem /\ live' = live /\ cur' = cur /\ locked' = locked
  BY DEF Answer, chains, pool
<1>2. Types /\ Mut(t)
  BY DEF IInv
<1>3. /\ pc'[t] = "idle" /\ old'[t] = Nil /\ hand' = hand /\ LocalTypes'
      /\ \A u \in Threads : u # t => Stay(u) /\ same'[u] = same[u]
  BY <1>1, <1>2, AfterReset
<1>4. Untouched
  BY <1>1, <1>3 DEF Untouched
<1>5. old[t] = Nil
  BY <1>1, <1>2 DEF Mut, Inserting
<1>6. "idle" \notin Inside \cup Reading \cup Inserting \cup Growing \cup Walking \cup { "begin", "lock", "release" }
  BY DEF Inside, Freeing, Filling, Inserting, Growing, Reading, Walking
<1>7. CallOK(t)' /\ Reader(t)'
  BY <1>3, <1>6 DEF CallOK, Reader
<1>8. pc[t] \in Reading \cup { "begin", "idle" } /\ pc'[t] \in Reading \cup { "begin", "idle" }
  BY <1>1, <1>3 DEF Reading
<1> QED
  BY <1>1, <1>3, <1>4, <1>5, <1>7, <1>8, ReadLocal

\* A reader looks at one item vector.
LEMMA StepScan ==
  ASSUME IInv, NEW t \in Threads, setting' = setting, Scan(t)
  PROVE  IInv'
<1> DEFINE o == slots[loc[t].b][loc[t].i]
           m == [loc[t] EXCEPT !.i = @ + 1]
<1>1. /\ pc[t] = "scan" /\ loc[t].i <= BucketSize
      /\ UNCHANGED <<locked, chains, pool, call, hand, old, cur>> /\ same' = same /\ buf' = buf
  BY DEF Scan, At
<1>2. /\ DOMAIN item = Threads /\ DOMAIN buf = Threads /\ DOMAIN same = Threads
      /\ loc \in [Threads -> [b : Buckets \cup {Nil}, i : Nat]] /\ pc \in [Threads -> PCs]
  BY DEF IInv, Types
<1>3. /\ pc[t] \in Reading /\ pc[t] \in Walking
      /\ "scan" \in Reading \cup { "begin" } /\ "compare" \in Reading \cup { "begin" }
  BY <1>1 DEF Reading, Walking
<1>4. /\ CallOK(t) /\ next \in Links /\ Good(next, B(t))
      /\ same[t] => Knows(t, "scan", loc[t], item[t], buf[t])
  BY <1>1, <1>3, ReaderChain
<1>5. loc[t].b \in Buckets /\ loc[t].i >= 1 /\ loc[t].i \in Nat
  BY <1>2, <1>3, <1>4 DEF CallOK
<1>6. loc[t].i \in Indices
  BY <1>1, <1>5, BucketIds DEF Indices
<1>7. CASE o = Nil
  <2>1. loc' = [loc EXCEPT ![t] = m] /\ item' = item /\ pc' = [pc EXCEPT ![t] = "scan"]
    <3>1. loc' = [loc EXCEPT ![t].i = @ + 1] /\ item' = item /\ pc' = pc
      BY <1>7 DEF Scan
    <3> QED
      BY <1>1, <1>2, <3>1
  <2>2. /\ m \in [b : Buckets \cup {Nil}, i : Nat] /\ m.b = loc[t].b /\ m.i = loc[t].i + 1
        /\ m.i >= 1
    BY <1>2, <1>5
  <2>3. ASSUME same[t] PROVE Knows(t, "scan", m, item'[t], buf'[t])
    <3>1. PICK n \in 1 .. Len(Chain(B(t))) : SeenUpTo(t, loc[t], n)
      BY <1>4, <2>3 DEF Knows
    <3>2. \A i \in Indices : i < m.i => ~Holds(m.b, i, Key(t))
      <4>1. ~Holds(loc[t].b, loc[t].i, Key(t))
        BY <1>7 DEF Holds
      <4>2. \A i \in Indices : i < loc[t].i + 1 => i < loc[t].i \/ i = loc[t].i
        BY <1>5 DEF Indices
      <4> QED
        BY <2>2, <3>1, <4>1, <4>2 DEF SeenUpTo
    <3>3. SeenUpTo(t, m, n)
      BY <2>2, <3>1, <3>2 DEF SeenUpTo
    <3> HIDE DEF m
    <3> QED
      BY <1>4, <2>3, <3>3 DEF Knows
  <2>4. Knows(t, "scan", m, item'[t], buf'[t]) \/ ~same'[t]
    BY <1>1, <2>3
  <2> HIDE DEF m
  <2> QED
    BY <1>1, <1>2, <1>3, <1>5, <2>1, <2>2, <2>4, ReadOn
<1>8. CASE o # Nil
  <2>1. item' = [item EXCEPT ![t] = o] /\ pc' = [pc EXCEPT ![t] = "compare"] /\ loc' = loc
    BY <1>8 DEF Scan, Goto
  <2>2. loc' = [loc EXCEPT ![t] = loc[t]] /\ loc[t] \in [b : Buckets \cup {Nil}, i : Nat]
    BY <1>2, <2>1
  <2>3. ASSUME same[t] PROVE Knows(t, "compare", loc[t], o, buf'[t])
    <3>1. PICK n \in 1 .. Len(Chain(B(t))) : SeenUpTo(t, loc[t], n)
      BY <1>4, <2>3 DEF Knows
    <3>2. loc[t].b \in Linked(B(t))
      BY <3>1 DEF SeenUpTo, Linked
    <3> QED
      BY <1>4, <1>6, <1>8, <2>3, <3>1, <3>2 DEF Knows
  <2>4. item'[t] = o /\ DOMAIN item' = Threads /\ \A u \in Threads : u # t => item'[u] = item[u]
    BY <1>2, <2>1
  <2>5. same'[t] => Knows(t, "compare", loc[t], item'[t], buf'[t])
    BY <1>1, <2>3, <2>4
  <2> HIDE DEF o
  <2> QED
    BY <1>1, <1>2, <1>3, <1>5, <2>1, <2>2, <2>4, <2>5, ReadOn
<1> QED
  BY <1>7, <1>8

\* A reader compares the key of an item.
LEMMA StepCompare ==
  ASSUME IInv, NEW t \in Threads, setting' = setting, Compare(t)
  PROVE  IInv'
<1> DEFINE m == [loc[t] EXCEPT !.i = @ + 1]
<1>1. /\ pc[t] = "compare" /\ item' = item
      /\ UNCHANGED <<locked, chains, pool, call, hand, old, cur>> /\ same' = same /\ buf' = buf
  BY DEF Compare, At
<1>2. /\ DOMAIN item = Threads /\ DOMAIN buf = Threads /\ DOMAIN same = Threads
      /\ loc \in [Threads -> [b : Buckets \cup {Nil}, i : Nat]]
  BY DEF IInv, Types
<1>3. /\ pc[t] \in Reading /\ pc[t] \in Walking
      /\ "scan" \in Reading \cup { "begin" } /\ "load" \in Reading \cup { "begin" }
  BY <1>1 DEF Reading, Walking
<1>4. CallOK(t)
  BY DEF IInv
<1>5. loc[t].b \in Buckets /\ loc[t].i >= 1 /\ loc[t].i \in Nat
  BY <1>2, <1>3, <1>4 DEF CallOK
<1>6. CASE mem[item[t]].key = Key(t)
  <2>1. pc' = [pc EXCEPT ![t] = "load"] /\ loc' = loc
    BY <1>6 DEF Compare, Goto
  <2>2. loc' = [loc EXCEPT ![t] = loc[t]] /\ loc[t] \in [b : Buckets \cup {Nil}, i : Nat]
    BY <1>2, <2>1
  <2>3. ASSUME same'[t] PROVE Knows(t, "load", loc[t], item'[t], buf'[t])
    <3>1. Knows(t, "compare", loc[t], item[t], buf[t])
      BY <1>1, <1>3, <2>3, ReaderChain
    <3> QED
      BY <1>6, <3>1 DEF Knows, Holds
  <2> QED
    BY <1>1, <1>2, <1>3, <1>5, <2>1, <2>2, <2>3, ReadOn
<1>7. CASE mem[item[t]].key # Key(t)
  <2>1. pc' = [pc EXCEPT ![t] = "scan"] /\ loc' = [loc EXCEPT ![t] = m]
    BY <1>2, <1>7 DEF Compare, Goto
  <2>2. /\ m \in [b : Buckets \cup {Nil}, i : Nat] /\ m.b = loc[t].b /\ m.i = loc[t].i + 1
        /\ m.i >= 1
    BY <1>2, <1>5
  <2>3. ASSUME same'[t] PROVE Knows(t, "scan", m, item'[t], buf'[t])
    <3>1. Knows(t, "compare", loc[t], item[t], buf[t])
      BY <1>1, <1>3, <2>3, ReaderChain
    <3>2. PICK n \in 1 .. Len(Chain(B(t))) : SeenUpTo(t, loc[t], n)
      BY <3>1 DEF Knows
    <3>3. \A i \in Indices : i < m.i => ~Holds(m.b, i, Key(t))
      <4>1. ~Holds(loc[t].b, loc[t].i, Key(t))
        BY <1>7, <3>1 DEF Holds, Knows
      <4>2. \A i \in Indices : i < loc[t].i + 1 => i < loc[t].i \/ i = loc[t].i
        BY <1>5 DEF Indices
      <4> QED
        BY <2>2, <3>2, <4>1, <4>2 DEF SeenUpTo
    <3>4. SeenUpTo(t, m, n)
      BY <2>2, <3>2, <3>3 DEF SeenUpTo
    <3> HIDE DEF m
    <3> QED
      BY <3>1, <3>4 DEF Knows
  <2> HIDE DEF m
  <2> QED
    BY <1>1, <1>2, <1>3, <1>5, <2>1, <2>2, <2>3, ReadOn
<1> QED
  BY <1>6, <1>7

\* A reader goes on to the next bucket, or has seen the whole chain.
LEMMA StepWalkOn ==
  ASSUME IInv, NEW t \in Threads, setting' = setting, WalkOn(t)
  PROVE  IInv'
<1> DEFINE e == next[loc[t].b]
<1>1. /\ pc[t] = "scan" /\ loc[t].i > BucketSize /\ item' = item
      /\ UNCHANGED <<locked, chains, pool, call, hand, old, cur>> /\ same' = same /\ buf' = buf
  BY DEF WalkOn, At
<1>2. /\ DOMAIN item = Threads /\ DOMAIN buf = Threads /\ DOMAIN same = Threads
      /\ loc \in [Threads -> [b : Buckets \cup {Nil}, i : Nat]] /\ pc \in [Threads -> PCs]
      /\ next \in [Buckets -> Extra \cup {Nil}]
  BY DEF IInv, Types
<1>3. /\ pc[t] \in Reading /\ pc[t] \in Walking /\ "miss" \notin Walking
      /\ "scan" \in Reading \cup { "begin" } /\ "miss" \in Reading \cup { "begin" }
  BY <1>1 DEF Reading, Walking
<1>4. /\ CallOK(t) /\ Key(t) \in Keys /\ Items(B(t)) /\ next \in Links /\ Good(next, B(t))
      /\ same[t] => Knows(t, "scan", loc[t], item[t], buf[t])
  BY <1>1, <1>3, ReaderChain
<1>5. loc[t].b \in Buckets /\ loc[t].i \in Nat
  BY <1>2, <1>3, <1>4 DEF CallOK
<1>6. /\ Len(Chain(B(t))) \in Nat
      /\ \A i \in 1 .. Len(Chain(B(t))) :
           IF i = Len(Chain(B(t))) THEN next[Chain(B(t))[i]] = Nil
           ELSE next[Chain(B(t))[i]] = Chain(B(t))[i + 1] /\ next[Chain(B(t))[i]] # Nil
      /\ \A x \in Linked(B(t)) : \E i \in 1 .. Len(Chain(B(t))) : x = Chain(B(t))[i]
  BY <1>4, ChainIsOf, GoodParts
<1>7. ASSUME same[t]
      PROVE  \E n \in 1 .. Len(Chain(B(t))) :
               /\ loc[t].b = Chain(B(t))[n]
               /\ \A j \in 1 .. n, i \in Indices : ~Holds(Chain(B(t))[j], i, Key(t))
  <2>1. PICK n \in 1 .. Len(Chain(B(t))) : SeenUpTo(t, loc[t], n)
    BY <1>4, <1>7 DEF Knows
  <2>2. \A i \in Indices : i < loc[t].i
    BY <1>1, <1>5, BucketIds DEF Indices
  <2>3. \A j \in 1 .. n : j \in 1 .. n - 1 \/ j = n
    OBVIOUS
  <2> QED
    BY <2>1, <2>2, <2>3 DEF SeenUpTo
<1>8. CASE e = Nil
  <2>1. pc' = [pc EXCEPT ![t] = "miss"] /\ loc' = loc
    BY <1>8 DEF WalkOn, Goto
  <2>2. loc' = [loc EXCEPT ![t] = loc[t]] /\ loc[t] \in [b : Buckets \cup {Nil}, i : Nat]
    BY <1>2, <2>1
  <2>3. ASSUME same'[t] PROVE Knows(t, "miss", loc[t], item'[t], buf'[t])
    <3>1. Knows(t, "scan", loc[t], item[t], buf[t])
      BY <1>1, <1>4, <2>3
    <3>2. PICK n \in 1 .. Len(Chain(B(t))) :
            /\ loc[t].b = Chain(B(t))[n]
            /\ \A j \in 1 .. n, i \in Indices : ~Holds(Chain(B(t))[j], i, Key(t))
      BY <1>1, <1>7, <2>3
    <3>3. n = Len(Chain(B(t)))
      BY <1>6, <1>8, <3>2
    <3>4. \A x \in Linked(B(t)), i \in Indices : ~Holds(x, i, Key(t))
      BY <1>6, <3>2, <3>3
    <3>5. cur[Key(t)] = Nil
      BY <1>4, <3>4 DEF Items, B
    <3> QED
      BY <3>1, <3>5 DEF Knows
  <2> QED
    BY <1>1, <1>2, <1>3, <2>1, <2>2, <2>3, ReadOn
<1>9. CASE e # Nil
  <2>1. loc' = [loc EXCEPT ![t] = Start(e)] /\ pc' = [pc EXCEPT ![t] = "scan"]
    <3>1. loc' = [loc EXCEPT ![t] = Start(e)] /\ pc' = pc
      BY <1>9 DEF WalkOn
    <3> QED
      BY <1>1, <1>2, <3>1
  <2>2. e \in Buckets
    BY <1>2, <1>5, <1>9, BucketIds
  <2>3. ASSUME same'[t] PROVE Knows(t, "scan", Start(e), item'[t], buf'[t])
    <3>1. Knows(t, "scan", loc[t], item[t], buf[t])
      BY <1>1, <1>4, <2>3
    <3>2. PICK n \in 1 .. Len(Chain(B(t))) :
            /\ loc[t].b = Chain(B(t))[n]
            /\ \A j \in 1 .. n, i \in Indices : ~Holds(Chain(B(t))[j], i, Key(t))
      BY <1>1, <1>7, <2>3
    <3>3. n # Len(Chain(B(t))) /\ n + 1 \in 1 .. Len(Chain(B(t))) /\ e = Chain(B(t))[n + 1]
          /\ (n + 1) - 1 = n
      BY <1>6, <1>9, <3>2
    <3>4. \A i \in Indices : ~(i < 1)
      BY DEF Indices
    <3>5. Start(e).b = e /\ Start(e).i = 1
      BY DEF Start
    <3> HIDE DEF e
    <3>6. SeenUpTo(t, Start(e), n + 1)
      BY <3>2, <3>3, <3>4, <3>5 DEF SeenUpTo
    <3> QED
      BY <3>1, <3>3, <3>6 DEF Knows
  <2> HIDE DEF e
  <2>4. /\ Start(e) \in [b : Buckets \cup {Nil}, i : Nat]
        /\ Start(e).b \in Buckets /\ Start(e).i >= 1
    BY <2>2 DEF Start
  <2> QED
    BY <1>1, <1>2, <1>3, <2>1, <2>3, <2>4, ReadOn
<1> QED
  BY <1>8, <1>9

\* A reader copies the value.
LEMMA StepLoad ==
  ASSUME IInv, NEW t \in Threads, setting' = setting, Load(t)
  PROVE  IInv'
<1> DEFINE o == slots[loc[t].b][loc[t].i]
<1>1. /\ pc[t] = "load" /\ pc' = [pc EXCEPT ![t] = "hit"] /\ item' = item /\ loc' = loc
      /\ UNCHANGED <<locked, chains, pool, call, hand, old, cur>> /\ same' = same
  BY DEF Load, At, Goto
<1>2. /\ DOMAIN item = Threads /\ DOMAIN buf = Threads /\ DOMAIN same = Threads
      /\ loc \in [Threads -> [b : Buckets \cup {Nil}, i : Nat]]
  BY DEF IInv, Types
<1>3. /\ pc[t] \in Reading /\ "hit" \in Reading \cup { "begin" } /\ "hit" \notin Walking
  BY <1>1 DEF Reading, Walking
<1>4. /\ Items(B(t)) /\ same[t] => Knows(t, "load", loc[t], item[t], buf[t])
  BY <1>1, <1>3, ReaderChain
<1>5. PICK v \in IF o = Nil THEN Values ELSE {mem[o].v} : buf' = [buf EXCEPT ![t] = v]
  BY DEF Load
<1>6. ASSUME same[t] PROVE Knows(t, "hit", loc[t], item[t], v)
  <2>1. Items(B(t)) /\ Knows(t, "load", loc[t], item[t], buf[t])
    BY <1>1, <1>3, <1>6, ReaderChain
  <2>2. loc[t].b \in Linked(B(t)) /\ loc[t].i \in Indices /\ o # Nil /\ mem[o].key = Key(t)
    BY <2>1 DEF Knows, Holds
  <2>3. mem[o].v = cur[Key(t)]
    BY <2>1, <2>2 DEF Items
  <2> QED
    BY <1>5, <2>1, <2>2, <2>3 DEF Knows
<1>7. loc' = [loc EXCEPT ![t] = loc[t]] /\ loc[t] \in [b : Buckets \cup {Nil}, i : Nat]
  BY <1>1, <1>2
<1>8. buf'[t] = v /\ DOMAIN buf' = Threads /\ \A u \in Threads : u # t => buf'[u] = buf[u]
  BY <1>2, <1>5
<1>9. same'[t] => Knows(t, "hit", loc[t], item'[t], buf'[t])
  BY <1>1, <1>6, <1>8
<1> HIDE DEF o
<1>10. /\ DOMAIN item' = Threads /\ DOMAIN same' = Threads
       /\ \A u \in Threads : u # t => item'[u] = item[u] /\ same'[u] = same[u]
       /\ pc' = [pc EXCEPT ![t] = "hit"] /\ UNCHANGED <<locked, chains, pool, call, hand, old, cur>>
  BY <1>1, <1>2
<1> QED
  BY ZenonT(30), <1>3, <1>7, <1>8, <1>9, <1>10, ReadOn

-----------------------------------------------------------------------------
(* Steps of a mutator that change its chain, the pool or the free list.    *)

\* A chain by the name that a thread has for it.
LEMMA SameChain ==
  ASSUME NEW u, NEW b, b = B(u), B(u)' = B(u), ChainSame(b)
  PROVE  ChainSame(B(u))
<1>1. Chain(b)' = ChainOf(next', b) /\ Chain(B(u))' = ChainOf(next', B(u)')
  BY DEF Chain, ChainOf
<1>2. Chain(B(u))' = Chain(b)'
  BY <1>1
<1>3. Linked(B(u))' = Linked(b)'
  BY <1>2 DEF Linked
<1> QED
  BY <1>2, <1>3 DEF ChainSame

\* Only the chain that a mutator has locked may change, and what is said of it
\* is to be shown.
LEMMA ChainStep ==
  ASSUME IInv, NEW t \in Threads, pc[t] \in Inside \cup { "release" },
         \A u \in Threads : u # t => Stay(u) /\ same'[u] = same[u], locked' = locked,
         Types', Locks', Paths', Apart', Hands', Cover', Pool',
         \A b \in Main : (pc[t] \in Inside => b # B(t)) => ChainSame(b),
         \A b \in Main : pc[t] \in Inside /\ b = B(t) => Items(b)' /\ Once(b)' /\ Packed(b)',
         CallOK(t)', Mut(t)', pc'[t] \notin Reading
  PROVE  IInv'
<1>1. \A u \in Threads : u # t => B(u)' = B(u)
  BY DEF Stay, B, Key
<1>2. \A u \in Threads : CallOK(u) /\ Mut(u) /\ Reader(u)
  BY DEF IInv
<1>3. ASSUME NEW u \in Threads, u # t, pc[u] \in Inside PROVE ChainSame(B(u))
  <2>1. B(u) \in Main
    BY <1>3, MyChain
  <2>2. PICK b \in Main : b = B(u)
    BY <2>1
  <2>3. pc[t] \in Inside => b # B(t)
    BY <1>3, <2>2 DEF IInv, Locks
  <2>4. ChainSame(b)
    BY <2>3
  <2> QED
    BY <1>1, <1>3, <2>2, <2>4, SameChain
<1>4. ASSUME NEW u \in Threads, u # t, pc[u] \in Reading, same'[u]
      PROVE  same[u] /\ B(u) \notin locked' /\ ChainSame(B(u))
  <2>1. same[u] /\ B(u) \notin locked
    BY <1>2, <1>4 DEF Reader
  <2>2. B(u) \in Main
    BY <1>4, ReaderChain
  <2>3. PICK b \in Main : b = B(u)
    BY <2>2
  <2>4. pc[t] \in Inside => B(t) \in locked
    BY DEF IInv, Locks
  <2>5. ChainSame(b)
    BY <2>1, <2>3, <2>4
  <2> QED
    BY <1>1, <1>4, <2>1, <2>3, <2>5, SameChain
<1>5. \A u \in Threads : CallOK(u)' /\ Mut(u)' /\ Reader(u)'
  <2> SUFFICES ASSUME NEW u \in Threads PROVE CallOK(u)' /\ Mut(u)' /\ Reader(u)'
    OBVIOUS
  <2>1. CASE u = t
    BY <2>1 DEF Reader
  <2>2. CASE u # t
    <3>1. CallOK(u) /\ Mut(u) /\ Reader(u) /\ Stay(u)
      BY <1>2, <2>2
    <3>2. CallOK(u)'
      BY <3>1, CallKeeps
    <3>3. Mut(u)'
      BY <1>3, <2>2, <3>1, MutKeeps
    <3>4. Reader(u)'
      BY <1>4, <2>2, <3>1, ReaderKeeps
    <3> QED
      BY <3>2, <3>3, <3>4
  <2> QED
    BY <2>1, <2>2
<1>6. ASSUME NEW b \in Main PROVE Items(b)' /\ Once(b)' /\ Packed(b)'
  <2>1. CASE pc[t] \in Inside /\ b = B(t)
    BY <2>1
  <2>2. CASE ~(pc[t] \in Inside /\ b = B(t))
    <3>1. ChainSame(b) /\ Items(b) /\ Once(b) /\ Packed(b)
      BY <2>2 DEF IInv
    <3>2. \A u \in Threads : pc[u] = "moved" \/ pc[u] \in Filling => pc[u] \in Inside
      BY DEF Inside
    <3>3. \A u \in Threads : (pc[u] = "moved" \/ pc[u] \in Filling) /\ B(u) = b => Stay(u)
      BY <2>2, <3>2
    <3> QED
      BY <3>1, <3>3, ChainKeeps
  <2> QED
    BY <2>1, <2>2
<1> QED
  BY <1>5, <1>6 DEF IInv

\* No chain has a bucket more or less: an item or a slot changes.
LEMMA StoreStep ==
  ASSUME IInv, NEW t \in Threads, pc[t] \in (Inside \cup { "release" }) \ Handing,
         pc'[t] \notin Handing \cup Reading, pc'[t] \in Inside => pc[t] \in Inside /\ call'[t] = call[t],
         \A u \in Threads : u # t => Stay(u) /\ same'[u] = same[u],
         UNCHANGED <<locked, next, free, flock, hand>>,
         Types', Pool',
         \A x \in Buckets : slots'[x] = slots[x] \/ (pc[t] \in Inside /\ x \in Linked(B(t))),
         \A k \in Keys : (pc[t] \in Inside => BucketOf[k] # B(t)) => cur'[k] = cur[k],
         \A b \in Main : (pc[t] \in Inside => b # B(t)) =>
           \A x \in Linked(b), i \in Indices : slots[x][i] # Nil =>
             /\ mem'[slots[x][i]] = mem[slots[x][i]]
             /\ slots[x][i] \in live => slots[x][i] \in live',
         \A b \in Main : pc[t] \in Inside /\ b = B(t) => Items(b)' /\ Once(b)' /\ Packed(b)',
         CallOK(t)', Mut(t)'
  PROVE  IInv'
<1>1. \A b : Chain(b)' = Chain(b) /\ Linked(b)' = Linked(b)
  BY SameLinks
<1>2. \A b \in Main : Linked(b) \subseteq Buckets
  <2> SUFFICES ASSUME NEW b \in Main PROVE Linked(b) \subseteq Buckets
    OBVIOUS
  <2>1. IsPath(next, Chain(b), b) /\ next \in Links
    BY DEF IInv, Paths, Types, Links
  <2> QED
    BY <2>1, ChainIsOf, ChainClosed DEF Good
<1>3. pc[t] \in Inside => B(t) \in Main
  BY MyChain
<1>4. ASSUME NEW b \in Main, pc[t] \in Inside => b # B(t) PROVE ChainSame(b)
  <2>1. ASSUME NEW x \in Linked(b) PROVE slots'[x] = slots[x]
    <3>1. pc[t] \in Inside => x \notin Linked(B(t))
      BY <1>3, <1>4 DEF IInv, Apart
    <3> QED
      BY <1>2, <3>1
  <2>2. \A k \in Keys : BucketOf[k] = b => cur'[k] = cur[k]
    BY <1>4
  <2>3. \A x \in Linked(b), i \in Indices : slots[x][i] # Nil =>
          /\ mem'[slots[x][i]] = mem[slots[x][i]]
          /\ slots[x][i] \in live => slots[x][i] \in live'
    BY <1>4
  <2> QED
    BY <1>1, <2>1, <2>2, <2>3 DEF ChainSame
<1>5. Paths' /\ Apart' /\ Hands' /\ Cover'
  <2>1. \A u \in Threads : u # t => pc'[u] = pc[u]
    BY DEF Stay
  <2>2. \A x \in Buckets : slots'[x] = slots[x] \/ \E b \in Main : x \in Linked(b)
    BY <1>3
  <2> QED
    BY <2>1, <2>2, ListsKeep DEF IInv
<1>6. Locks'
  <2>1. pc'[t] \notin AtList /\ \A u \in Threads : u # t => Stay(u)
    BY DEF AtList, Handing, Freeing
  <2>2. \A u \in Threads : u # t /\ pc[u] \in AtList => flock' = u
    BY DEF IInv, Locks
  <2> QED
    BY <2>1, <2>2, LocksKeep DEF IInv
<1> QED
  BY <1>4, <1>5, <1>6, ChainStep

\* Every item in a slot is live, and in a chain.
LEMMA SlotsLive ==
  ASSUME IInv, NEW x \in Buckets, NEW i \in Indices, slots[x][i] # Nil
  PROVE  slots[x][i] \in live /\ \E b \in Main : x \in Linked(b)
<1>1. PICK b \in Main : x \in Linked(b)
  BY DEF IInv, Cover
<1>2. Items(b)
  BY DEF IInv
<1> QED
  BY <1>1, <1>2 DEF Items

\* The items of a chain are in no other, and in nobody's hands.
LEMMA ItemIsMine ==
  ASSUME IInv, NEW b \in Main, NEW x \in Linked(b), NEW i \in Indices, slots[x][i] # Nil
  PROVE  /\ \A c \in Main : \A y \in Linked(c), j \in Indices : slots[y][j] = slots[x][i] => c = b
         /\ \A u \in Threads : slots[x][i] \notin Held(u)
<1>1. \A c \in Main : Items(c)
  BY DEF IInv
<1>2. \A c \in Main : \A y \in Linked(c), j \in Indices :
        slots[y][j] # Nil => BucketOf[mem[slots[y][j]].key] = c
  BY <1>1 DEF Items
<1>3. x \in Buckets
  <2>1. IsPath(next, Chain(b), b) /\ next \in Links
    BY DEF IInv, Paths, Types, Links
  <2> QED
    BY <2>1, ChainIsOf, ChainClosed DEF Good
<1>4. \A u \in Threads : slots[x][i] \notin Held(u)
  BY <1>3 DEF IInv, Pool
<1> QED
  BY <1>2, <1>4

\* set() releases the item it has replaced, which no slot refers to.
LEMMA StepRelease ==
  ASSUME IInv, NEW t \in Threads, setting' = setting, Release(t)
  PROVE  IInv'
<1>1. /\ pc[t] = "release" /\ Reset(t) /\ live' = live \ {old[t]}
      /\ next' = next /\ slots' = slots /\ free' = free /\ flock' = flock /\ locked' = locked
      /\ mem' = mem /\ cur' = cur
  BY DEF Release, At, chains
<1>2. Types /\ Mut(t)
  BY DEF IInv
<1>3. /\ pc'[t] = "idle" /\ old'[t] = Nil /\ hand' = hand /\ LocalTypes'
      /\ \A u \in Threads : u # t => Stay(u) /\ same'[u] = same[u]
  BY <1>1, <1>2, AfterReset
<1>4. /\ "idle" \notin Inside \cup Reading \cup Handing \cup Inserting \cup Growing \cup Walking \cup Filling
      /\ "release" \notin Inside \cup Handing
      /\ "idle" \notin Inside \cup Reading \cup { "begin", "lock", "release" }
  BY DEF Inside, Handing, Freeing, Filling, Inserting, Growing, Reading, Walking
<1>5. Types'
  BY <1>1, <1>2, <1>3 DEF Types, LocalTypes
<1>6. Held(t) = {old[t]} /\ Held(t)' = {}
  BY <1>1, <1>2, <1>3 DEF Held, Mut
<1>7. Pool'
  <2>1. \A u \in Threads : Nil \notin Held(u)
    BY HeldReal DEF IInv
  <2>2. \A u \in Threads : u # t => \A o \in Held(u) : o \in live'
    BY <1>1, <1>6 DEF IInv, Pool
  <2>3. \A o : \A x \in Buckets, i \in Indices : slots'[x][i] = o =>
          o = Nil \/ \E y \in Buckets, j \in Indices : slots[y][j] = o
    BY <1>1
  <2>4. /\ Held(t)' \subseteq Held(t) /\ pc'[t] # "publish" /\ \A o \in Held(t)' : o \in live'
        /\ \A u \in Threads : u # t => \A o \in Held(u) : o \in live' /\ mem'[o] = mem[o]
    BY <1>1, <1>3, <1>6, <2>2
  <2> QED
    BY <1>3, <2>1, <2>3, <2>4, PoolKeeps DEF IInv
<1>8. ASSUME NEW b \in Main, NEW x \in Linked(b), NEW i \in Indices, slots[x][i] # Nil
      PROVE  slots[x][i] \in live => slots[x][i] \in live'
  BY <1>1, <1>6, <1>8, ItemIsMine
<1>9. CallOK(t)' /\ Mut(t)'
  BY <1>3, <1>4 DEF CallOK, Mut
<1>10. /\ pc[t] \in (Inside \cup { "release" }) \ Handing /\ pc[t] \notin Inside
       /\ pc'[t] \notin Handing \cup Reading /\ pc'[t] \notin Inside
  BY <1>1, <1>3, <1>4
<1> QED
  BY <1>1, <1>3, <1>5, <1>7, <1>8, <1>9, <1>10, StoreStep

\* Keys and values of a call.
LEMMA CallValue ==
  ASSUME IInv, NEW t \in Threads, pc[t] \in Inside, call[t].op # "del"
  PROVE  call[t].v \in Values /\ call[t].v # Nil
BY BucketIds DEF IInv, CallOK

\* set() writes the value over the old one.
LEMMA StepSetInPlace ==
  ASSUME IInv, NEW t \in Threads, setting' = setting, SetInPlace(t)
  PROVE  IInv'
<1>1. PICK l \in Found(B(t), Key(t)) : mem' = [mem EXCEPT ![slots[l.b][l.i]].v = call[t].v]
  BY DEF SetInPlace
<1>2. /\ pc[t] = "find" /\ pc' = [pc EXCEPT ![t] = "unlock"] /\ call[t].op = "set"
      /\ cur' = [cur EXCEPT ![Key(t)] = call[t].v]
      /\ next' = next /\ slots' = slots /\ free' = free /\ flock' = flock /\ locked' = locked
      /\ live' = live /\ call' = call /\ loc' = loc /\ hand' = hand /\ item' = item
      /\ old' = old /\ same' = same /\ buf' = buf
  BY DEF SetInPlace, At, Goto, chains, locals
<1>3. /\ pc[t] \in Inside /\ pc[t] \notin Handing \cup Filling \cup Inserting
      /\ "unlock" \in Inside
      /\ "unlock" \notin Handing \cup Reading \cup Inserting \cup Growing \cup Filling \cup Walking \cup { "begin" }
  BY <1>2 DEF Inside, Handing, Freeing, Filling, Inserting, Growing, Reading, Walking
<1>4. Types /\ Mut(t) /\ CallOK(t)
  BY DEF IInv
<1>5. PICK b \in Main : b = B(t)
  BY <1>3, MyChain
<1>6. /\ next \in Links /\ Good(next, b) /\ Items(b) /\ Once(b) /\ Packed(b) /\ Linked(b) \subseteq Buckets
      /\ Key(t) \in Keys /\ BucketOf[Key(t)] = b
  <2>1. BucketOf[Key(t)] = b
    BY <1>5 DEF B
  <2> QED
    BY <1>3, <1>5, <2>1, MyChain
<1> DEFINE o == slots[l.b][l.i]
<1>7. l.b \in Linked(b) /\ l.i \in Indices /\ o # Nil /\ mem[o].key = Key(t)
  BY <1>5, <1>6, FoundIs DEF Holds
<1>8. o \in Offsets /\ call[t].v \in Values /\ call[t].v # Nil
  <2>1. o \in Offsets \cup {Nil}
    BY <1>4, <1>6, <1>7 DEF Types
  <2> QED
    BY <1>2, <1>3, <1>7, <2>1, CallValue
<1> HIDE DEF o
<1>9. /\ mem' = [mem EXCEPT ![o].v = call[t].v]
      /\ mem'[o].v = call[t].v /\ mem'[o].key = mem[o].key
      /\ \A q : q # o => mem'[q] = mem[q]
      /\ \A q \in Offsets : mem'[q].key = mem[q].key
  BY <1>1, <1>4, <1>8 DEF Types, o
<1>10. Types'
  <2>1. mem' \in [Offsets -> [key : Keys \cup {Nil}, v : Values \cup {Nil}]]
    BY <1>4, <1>8, <1>9 DEF Types
  <2>2. pc' \in [Threads -> PCs] /\ cur' \in [Keys -> Values \cup {Nil}]
    BY <1>2, <1>4, <1>8 DEF Types, PCs, Inside
  <2> QED
    BY <1>2, <1>4, <2>1, <2>2 DEF Types
<1>11. /\ pc'[t] = "unlock" /\ old'[t] = Nil /\ \A u \in Threads : u # t => Stay(u)
  BY <1>2, <1>3, <1>4 DEF Types, Stay, Mut
<1>12. /\ \A c \in Main : \A y \in Linked(c), j \in Indices : slots[y][j] = o => c = b
       /\ \A u \in Threads : o \notin Held(u)
  BY <1>7, ItemIsMine DEF o
<1>13. Pool'
  <2>1. \A u \in Threads : Nil \notin Held(u)
    BY HeldReal DEF IInv
  <2>2. \A u \in Threads : \A q \in Held(u) : q \in live' /\ mem'[q] = mem[q]
    BY <1>2, <1>9, <1>12 DEF IInv, Pool
  <2>3. \A q : \A x \in Buckets, i \in Indices : slots'[x][i] = q =>
          q = Nil \/ \E y \in Buckets, j \in Indices : slots[y][j] = q
    BY <1>2
  <2>4. Held(t)' = {} /\ pc'[t] # "publish"
    BY <1>11 DEF Held
  <2> QED
    BY <1>11, <2>1, <2>2, <2>3, <2>4, PoolKeeps DEF IInv
<1>14. Linked(b)' = Linked(b)
  BY <1>2, SameLinks
<1>15. Items(b)'
  <2>1. ASSUME NEW x \in Linked(b), NEW i \in Indices, slots[x][i] # Nil
        PROVE  LET q == slots[x][i]
                   k == mem[q].key
               IN  q \in live /\ k \in Keys /\ BucketOf[k] = b /\ cur[k] # Nil /\ mem[q].v = cur[k]
                   /\ (k = Key(t) => q = o)
    BY <1>6, <1>7, <2>1 DEF Items, o
  <2>2. \A x \in Linked(b), i \in Indices : slots[x][i] \in Offsets \cup {Nil}
    BY <1>4, <1>6 DEF Types
  <2>3. \A x \in Linked(b), i \in Indices :
          slots[x][i] # Nil => mem'[slots[x][i]].key = mem[slots[x][i]].key
    BY <1>9, <2>2
  <2>4. \A k \in Keys : cur'[k] = IF k = Key(t) THEN call[t].v ELSE cur[k]
    BY <1>2, <1>4 DEF Types
  <2>5. (\A x \in Linked(b), i \in Indices : slots[x][i] # Nil =>
           LET q == slots[x][i]
               k == mem[q].key
           IN  q \in live /\ k \in Keys /\ BucketOf[k] = b /\ cur[k] # Nil /\ mem[q].v = cur[k])'
    BY <1>2, <1>7, <1>8, <1>9, <1>14, <2>1, <2>4
  <2>6. (\A x, y \in Linked(b), i, j \in Indices :
           slots[x][i] # Nil /\ slots[y][j] # Nil /\ mem[slots[x][i]].key = mem[slots[y][j]].key
             => slots[x][i] = slots[y][j])'
    BY <1>2, <1>6, <1>14, <2>3 DEF Items
  <2>7. \A k \in Keys : BucketOf[k] = b /\ cur[k] # Nil =>
          \E x \in Linked(b), i \in Indices : slots[x][i] # Nil /\ mem[slots[x][i]].key = k
    BY <1>6 DEF Items, Holds
  <2>8. ASSUME NEW k \in Keys, BucketOf[k] = b, cur'[k] # Nil
        PROVE  \E x \in Linked(b), i \in Indices : slots'[x][i] # Nil /\ mem'[slots'[x][i]].key = k
    <3>1. cur[k] # Nil
      <4>1. cur[Key(t)] # Nil
        BY <1>7, <2>1 DEF o
      <4> QED
        BY <2>4, <2>8, <4>1
    <3> QED
      BY <1>2, <2>3, <2>7, <2>8, <3>1
  <2> QED
    BY <1>14, <2>5, <2>6, <2>8 DEF Items, Holds
<1>16. Once(b)' /\ Packed(b)'
  <2>1. \A u \in Threads : (pc[u] = "moved" \/ pc[u] \in Filling) => u # t
    BY <1>2, <1>3
  <2>2. \A u \in Threads : u # t => pc'[u] = pc[u] /\ B(u)' = B(u) /\ loc'[u] = loc[u]
    BY <1>11 DEF Stay, B, Key
  <2>3. Once(b)'
    BY <1>2, <1>6, <1>14, <2>1, <2>2 DEF Once, IsAt
  <2>4. Packed(b)'
    BY <1>2, <1>6, <1>14, <2>1, <2>2 DEF Packed, IsAt
  <2> QED
    BY <2>3, <2>4
<1>17. CallOK(t)' /\ Mut(t)'
  BY <1>2, <1>3, <1>4, <1>11 DEF CallOK, Mut, Key
<1>18. \A k \in Keys : BucketOf[k] # B(t) => cur'[k] = cur[k]
  BY <1>2, <1>4, <1>5, <1>6 DEF Types
<1>19. \A c \in Main : c # B(t) => \A x \in Linked(c), i \in Indices : slots[x][i] # Nil =>
         /\ mem'[slots[x][i]] = mem[slots[x][i]]
         /\ slots[x][i] \in live => slots[x][i] \in live'
  BY <1>2, <1>5, <1>9, <1>12
<1>20. \A c \in Main : c = B(t) => Items(c)' /\ Once(c)' /\ Packed(c)'
  BY <1>5, <1>15, <1>16
<1>21. /\ pc[t] \in (Inside \cup { "release" }) \ Handing
       /\ pc'[t] \notin Handing \cup Reading /\ call'[t] = call[t]
       /\ \A u \in Threads : u # t => Stay(u) /\ same'[u] = same[u]
       /\ UNCHANGED <<locked, next, free, flock, hand>>
       /\ \A x \in Buckets : slots'[x] = slots[x]
  BY <1>2, <1>3, <1>11
<1> QED
  BY <1>3, <1>10, <1>13, <1>17, <1>18, <1>19, <1>20, <1>21, StoreStep

\* set() gets an item that no slot refers to.
LEMMA StepAllocate ==
  ASSUME IInv, NEW t \in Threads, setting' = setting, Allocate(t)
  PROVE  IInv'
<1> DEFINE o == Smallest(setting.room \ live)
           d == [key |-> Key(t), v |-> call[t].v]
<1>1. /\ pc[t] = "allocate" /\ pc' = [pc EXCEPT ![t] = "publish"] /\ live # setting.room
      /\ live' = live \cup {o} /\ mem' = [mem EXCEPT ![o] = d]
      /\ item' = [item EXCEPT ![t] = o]
      /\ next' = next /\ slots' = slots /\ free' = free /\ flock' = flock /\ locked' = locked
      /\ call' = call /\ loc' = loc /\ hand' = hand
      /\ old' = old /\ same' = same /\ buf' = buf /\ cur' = cur
  BY DEF Allocate, At, Goto, chains
<1>2. /\ pc[t] \in Inside /\ pc[t] \notin Handing \cup Filling /\ pc[t] \in Inserting
      /\ "publish" \in Inside /\ "publish" \in Inserting
      /\ "publish" \notin Handing \cup Reading \cup Growing \cup Filling \cup Walking \cup { "begin" }
  BY <1>1 DEF Inside, Handing, Freeing, Filling, Inserting, Growing, Reading, Walking
<1>3. Types /\ Mut(t) /\ CallOK(t) /\ Pool
  BY DEF IInv
<1>4. o \in setting.room \ live /\ setting.room \subseteq Offsets /\ Offsets \subseteq Nat
  <2>1. setting.room \subseteq Offsets /\ Offsets \subseteq Nat
    BY <1>3, ChainsAssumption DEF Types
  <2>2. setting.room \ live # {}
    BY <1>1, <1>3 DEF Types
  <2> QED
    BY <2>1, <2>2, SmallestIs
<1>5. call[t].v \in Values /\ Key(t) \in Keys
  BY <1>2, <1>3, CallValue DEF CallOK
<1> HIDE DEF o
<1>6. d \in [key : Keys \cup {Nil}, v : Values \cup {Nil}]
  BY <1>5
<1>7. /\ mem'[o] = d /\ item'[t] = o
      /\ \A q : q # o => mem'[q] = mem[q]
  BY <1>1, <1>3, <1>4 DEF Types
<1>8. \A x \in Buckets, i \in Indices : slots[x][i] # o
  <2> SUFFICES ASSUME NEW x \in Buckets, NEW i \in Indices PROVE slots[x][i] # o
    OBVIOUS
  <2>1. slots[x][i] = Nil \/ slots[x][i] \in live
    BY SlotsLive
  <2> QED
    BY <1>4, <2>1, BucketIds
<1>9. Types'
  <2> HIDE DEF d
  <2>1. mem' \in [Offsets -> [key : Keys \cup {Nil}, v : Values \cup {Nil}]]
    BY <1>1, <1>3, <1>6 DEF Types
  <2>2. pc' \in [Threads -> PCs] /\ live' \subseteq setting.room /\ DOMAIN item' = Threads
    BY <1>1, <1>3, <1>4 DEF Types, PCs, Inside, Inserting
  <2> QED
    BY <1>1, <1>3, <2>1, <2>2 DEF Types
<1>10. /\ pc'[t] = "publish" /\ Key(t)' = Key(t)
       /\ \A u \in Threads : u # t => Stay(u) /\ same'[u] = same[u]
  BY <1>1, <1>3 DEF Types, Stay, Key
<1>11. /\ Held(t)' = {o} /\ \A u \in Threads : u # t => Held(u)' = Held(u)
  BY <1>7, <1>10 DEF Held, Stay
<1>12. Pool'
  <2>1. \A u \in Threads : o \notin Held(u)
    BY <1>3, <1>4 DEF Pool
  <2>2. ASSUME NEW u \in Threads, NEW q \in Held(u)'
        PROVE  /\ q \in live' /\ \A x \in Buckets, i \in Indices : slots'[x][i] # q
               /\ \A w \in Threads : w # u => q \notin Held(w)'
    <3>1. CASE u = t
      BY <1>1, <1>8, <1>11, <2>1, <2>2, <3>1
    <3>2. CASE u # t
      <4>1. q \in Held(u) /\ q # o
        BY <1>11, <2>1, <2>2, <3>2
      <4>2. /\ q \in live /\ \A x \in Buckets, i \in Indices : slots[x][i] # q
            /\ \A w \in Threads : w # u => q \notin Held(w)
        BY <1>3, <4>1 DEF Pool
      <4> QED
        BY <1>1, <1>11, <4>1, <4>2
    <3> QED
      BY <3>1, <3>2
  <2>3. ASSUME NEW u \in Threads, pc'[u] = "publish"
        PROVE  mem'[item'[u]] = [key |-> Key(u)', v |-> call'[u].v]
    <3>1. CASE u = t
      BY <1>1, <1>7, <1>10, <3>1
    <3>2. CASE u # t
      <4>1. pc[u] = "publish" /\ item'[u] = item[u] /\ Key(u)' = Key(u) /\ call'[u] = call[u]
        BY <1>10, <2>3, <3>2 DEF Stay, Key
      <4>2. item[u] \in Held(u) /\ mem[item[u]] = [key |-> Key(u), v |-> call[u].v]
        BY <1>3, <4>1 DEF Held, Pool
      <4> QED
        BY <1>7, <2>1, <4>1, <4>2
    <3> QED
      BY <3>1, <3>2
  <2> QED
    BY <2>2, <2>3 DEF Pool
<1>13. \A c \in Main : \A x \in Linked(c), i \in Indices : slots[x][i] # Nil =>
         /\ mem'[slots[x][i]] = mem[slots[x][i]]
         /\ slots[x][i] \in live => slots[x][i] \in live'
  <2> SUFFICES ASSUME NEW c \in Main, NEW x \in Linked(c), NEW i \in Indices, slots[x][i] # Nil
               PROVE  slots[x][i] # o
    BY <1>1, <1>7
  <2>1. Items(c)
    BY DEF IInv
  <2> QED
    BY <1>4, <2>1 DEF Items
<1>14. PICK b \in Main : b = B(t)
  BY <1>2, MyChain
<1>15. Linked(b)' = Linked(b) /\ Chain(b)' = Chain(b) /\ next' = next /\ slots' = slots /\ cur' = cur
  BY <1>1, SameLinks
<1>16. Items(b)' /\ Once(b)' /\ Packed(b)'
  <2>1. Items(b) /\ Once(b) /\ Packed(b)
    BY DEF IInv
  <2>2. ChainSame(b)
    BY <1>13, <1>15 DEF ChainSame
  <2>3. \A u \in Threads : pc[u] = "moved" \/ pc[u] \in Filling => u # t
    BY <1>1, <1>2
  <2> QED
    BY <1>10, <2>1, <2>2, <2>3, ChainKeeps
<1>17. CallOK(t)'
  BY <1>1, <1>2, <1>3, <1>10 DEF CallOK, Key
<1>18. Mut(t)'
  <2>2. loc[t].b \in Linked(b) /\ loc[t].i \in Indices /\ slots[loc[t].b][loc[t].i] = old[t]
    BY <1>2, <1>3, <1>14 DEF Mut, Placed, AtLoc
  <2>3. old[t] # Nil => mem'[old[t]] = mem[old[t]]
    BY <1>13, <2>2
  <2>4. Placed(t)' /\ AtLoc(t)' = old[t]
    <3>1. B(t)' = b
      BY <1>1, <1>14 DEF B, Key
    <3>2. Linked(B(t))' = Linked(b)
      <4>1. Chain(B(t))' = Chain(b)
        BY <1>1, <3>1 DEF Chain
      <4> QED
        BY <4>1 DEF Linked
    <3> QED
      BY <1>1, <2>2, <3>2 DEF Placed, AtLoc
  <2>5. (old[t] = Nil => cur[Key(t)] = Nil) /\ (old[t] # Nil => mem[old[t]].key = Key(t))
    BY <1>2, <1>3 DEF Mut
  <2>6. \A l \in {pc'[t]} : l \in Inserting /\ l \notin Growing \cup Filling \cup { "unlock", "release", "moved", "detach" }
    BY <1>2, <1>10
  <2> QED
    BY <1>1, <1>10, <2>3, <2>4, <2>5, <2>6 DEF Mut
<1>19. \A c \in Main : c = B(t) => Items(c)' /\ Once(c)' /\ Packed(c)'
  BY <1>14, <1>16
<1>20. /\ pc[t] \in (Inside \cup { "release" }) \ Handing
       /\ pc'[t] \notin Handing \cup Reading /\ call'[t] = call[t]
       /\ UNCHANGED <<locked, next, free, flock, hand>>
       /\ \A x \in Buckets : slots'[x] = slots[x]
       /\ \A k \in Keys : cur'[k] = cur[k]
  BY <1>1, <1>2, <1>10
<1> HIDE DEF d
<1> QED
  BY <1>2, <1>9, <1>10, <1>12, <1>13, <1>17, <1>18, <1>19, <1>20, StoreStep

\* set() stores the item in the slot it has found.
LEMMA StepPublish ==
  ASSUME IInv, NEW t \in Threads, setting' = setting, Publish(t)
  PROVE  IInv'
<1> DEFINE o == item[t]
           p == old[t]
           lb == loc[t].b
           li == loc[t].i
<1>1. /\ pc[t] = "publish" /\ pc' = [pc EXCEPT ![t] = "unlock"]
      /\ slots' = [slots EXCEPT ![lb][li] = o]
      /\ cur' = [cur EXCEPT ![Key(t)] = call[t].v]
      /\ next' = next /\ free' = free /\ flock' = flock /\ locked' = locked
      /\ mem' = mem /\ live' = live
      /\ call' = call /\ loc' = loc /\ hand' = hand /\ item' = item
      /\ old' = old /\ same' = same /\ buf' = buf
  BY DEF Publish, At, Goto, pool, locals
<1>2. /\ pc[t] \in Inside /\ pc[t] \notin Handing \cup Filling /\ pc[t] \in Inserting
      /\ "unlock" \in Inside
      /\ "unlock" \notin Handing \cup Reading \cup Growing \cup Filling \cup Walking \cup Inserting \cup { "begin" }
  BY <1>1 DEF Inside, Handing, Freeing, Filling, Inserting, Growing, Reading, Walking
<1>3. Types /\ Mut(t) /\ CallOK(t) /\ Pool /\ Locks
  BY DEF IInv
<1>4. PICK b \in Main : b = B(t)
  BY <1>2, MyChain
<1>5. /\ Items(b) /\ Once(b) /\ Packed(b) /\ Linked(b) \subseteq Buckets
      /\ Key(t) \in Keys /\ BucketOf[Key(t)] = b
  <2>1. BucketOf[Key(t)] = b
    BY <1>4 DEF B
  <2> QED
    BY <1>2, <1>4, <2>1, MyChain
<1>6. call[t].v \in Values /\ call[t].v # Nil
  BY <1>2, <1>3, CallValue DEF CallOK
<1>7. /\ lb \in Linked(b) /\ li \in Indices /\ slots[lb][li] = p /\ lb \in Buckets
      /\ p = Nil => cur[Key(t)] = Nil
      /\ p # Nil => mem[p].key = Key(t)
  BY <1>2, <1>3, <1>4, <1>5 DEF Mut, Placed, AtLoc
<1>8. Held(t) = {o}
  BY <1>1 DEF Held
<1>9. /\ o \in live /\ o # Nil /\ o \in Offsets
      /\ \A x \in Buckets, i \in Indices : slots[x][i] # o
      /\ \A u \in Threads : u # t => o \notin Held(u)
      /\ mem[o] = [key |-> Key(t), v |-> call[t].v]
  BY <1>1, <1>3, <1>8, HeldReal DEF Pool
<1>10. p \in Offsets \cup {Nil}
  BY <1>3 DEF Types
<1> HIDE DEF o, p, lb, li
<1>11. \A x \in Buckets, i \in Indices :
         slots'[x][i] = IF x = lb /\ i = li THEN o ELSE slots[x][i]
  BY <1>1, <1>3, <1>7 DEF Types
<1>12. /\ pc'[t] = "unlock" /\ Key(t)' = Key(t) /\ old'[t] = p
       /\ \A u \in Threads : u # t => Stay(u) /\ same'[u] = same[u]
       /\ \A u \in Threads : u # t => pc'[u] = pc[u] /\ B(u)' = B(u)
  BY <1>1, <1>3 DEF Types, Stay, Key, B, p
<1>13. \A k \in Keys : cur'[k] = IF k = Key(t) THEN call[t].v ELSE cur[k]
  BY <1>1, <1>3 DEF Types
<1>14. \A u \in Threads : pc[u] = "moved" \/ pc[u] \in Filling => B(u) # b
  <2>1. \A u \in Threads : pc[u] = "moved" \/ pc[u] \in Filling => u # t /\ pc[u] \in Inside
    BY <1>1, <1>2 DEF Inside
  <2> QED
    BY <1>2, <1>3, <1>4, <2>1 DEF Locks
<1>15. \A x, y \in Linked(b), i, j \in Indices :
         slots[x][i] # Nil /\ slots[x][i] = slots[y][j] => x = y /\ i = j
  BY <1>5, <1>14 DEF Once
<1>16. \A x \in Linked(b), i \in Indices : slots[x][i] # Nil =>
         LET q == slots[x][i]
             k == mem[q].key
         IN  q \in live /\ k \in Keys /\ BucketOf[k] = b /\ cur[k] # Nil /\ mem[q].v = cur[k]
  BY <1>5 DEF Items
<1>17. \A x, y \in Linked(b), i, j \in Indices :
         slots[x][i] # Nil /\ slots[y][j] # Nil /\ mem[slots[x][i]].key = mem[slots[y][j]].key
           => slots[x][i] = slots[y][j]
  BY <1>5 DEF Items
<1>18. ASSUME NEW x \in Linked(b), NEW i \in Indices, slots[x][i] # Nil,
              mem[slots[x][i]].key = Key(t)
       PROVE  x = lb /\ i = li
  <2>1. cur[Key(t)] # Nil
    BY <1>16, <1>18
  <2>2. p # Nil
    BY <1>7, <2>1
  <2>3. slots[x][i] = slots[lb][li]
    BY <1>7, <1>17, <1>18, <2>2
  <2> QED
    BY <1>7, <1>15, <1>18, <2>3
<1>19. \A u \in Threads : p # Nil => p \notin Held(u) /\ p \in live
  BY <1>4, <1>7, <1>16, ItemIsMine
<1>20. Types'
  <2>1. slots' \in [Buckets -> [Indices -> Offsets \cup {Nil}]]
    BY <1>1, <1>3, <1>9 DEF Types
  <2>2. pc' \in [Threads -> PCs] /\ cur' \in [Keys -> Values \cup {Nil}]
    BY <1>1, <1>3, <1>6 DEF Types, PCs, Inside
  <2> QED
    BY <1>1, <1>3, <2>1, <2>2 DEF Types
<1>21. Pool'
  <2>1. /\ Held(t)' = {p} \ {Nil} /\ \A u \in Threads : u # t => Held(u)' = Held(u)
    BY <1>12 DEF Held, Stay
  <2>2. ASSUME NEW x \in Buckets, NEW i \in Indices, p # Nil PROVE slots'[x][i] # p
    <3>1. p # o
      BY <1>7, <1>9
    <3>2. ASSUME slots[x][i] = p PROVE x = lb /\ i = li
      <4>1. PICK c \in Main : x \in Linked(c)
        BY <2>2, <3>2, SlotsLive
      <4>2. c = b
        BY <1>7, <2>2, <3>2, <4>1, ItemIsMine
      <4> QED
        BY <1>7, <1>15, <2>2, <3>2, <4>1, <4>2
    <3> QED
      BY <1>11, <3>1, <3>2
  <2>3. ASSUME NEW u \in Threads, NEW q \in Held(u)'
        PROVE  /\ q \in live' /\ \A x \in Buckets, i \in Indices : slots'[x][i] # q
               /\ \A w \in Threads : w # u => q \notin Held(w)'
    <3>1. CASE u = t
      <4>1. q = p /\ p # Nil
        BY <2>1, <2>3, <3>1
      <4> QED
        BY <1>1, <1>19, <2>1, <2>2, <3>1, <4>1
    <3>2. CASE u # t
      <4>1. q \in Held(u)
        BY <2>1, <2>3, <3>2
      <4>2. /\ q \in live /\ \A x \in Buckets, i \in Indices : slots[x][i] # q
            /\ \A w \in Threads : w # u => q \notin Held(w)
        BY <1>3, <4>1 DEF Pool
      <4>3. q # o /\ (p # Nil => q # p)
        BY <1>9, <1>19, <3>2, <4>1
      <4> QED
        BY <1>1, <1>11, <2>1, <4>2, <4>3
    <3> QED
      BY <3>1, <3>2
  <2>4. ASSUME NEW u \in Threads, pc'[u] = "publish"
        PROVE  mem'[item'[u]] = [key |-> Key(u)', v |-> call'[u].v]
    <3>1. u # t /\ pc[u] = "publish" /\ item'[u] = item[u] /\ Key(u)' = Key(u) /\ call'[u] = call[u]
      BY <1>1, <1>12, <2>4 DEF Key
    <3> QED
      BY <1>1, <1>3, <3>1 DEF Pool
  <2> QED
    BY <2>3, <2>4 DEF Pool
<1>22. Linked(b)' = Linked(b)
  BY <1>1, SameLinks
<1>23. Items(b)'
  <2>1. ASSUME NEW x \in Linked(b), NEW i \in Indices, slots'[x][i] # Nil
        PROVE  LET q == slots'[x][i]
                   k == mem[q].key
               IN  q \in live /\ k \in Keys /\ BucketOf[k] = b /\ cur'[k] # Nil /\ mem[q].v = cur'[k]
    <3>1. CASE x = lb /\ i = li
      <4>1. slots'[x][i] = o
        BY <1>5, <1>11, <3>1
      <4> QED
        BY <1>5, <1>6, <1>9, <1>13, <4>1
    <3>2. CASE ~(x = lb /\ i = li)
      <4>1. slots'[x][i] = slots[x][i]
        BY <1>5, <1>11, <3>2
      <4>2. mem[slots[x][i]].key # Key(t)
        BY <1>18, <2>1, <3>2, <4>1
      <4> QED
        BY <1>13, <1>16, <2>1, <4>1, <4>2
    <3> QED
      BY <3>1, <3>2
  <2>2. ASSUME NEW x \in Linked(b), NEW y \in Linked(b), NEW i \in Indices, NEW j \in Indices,
               slots'[x][i] # Nil, slots'[y][j] # Nil,
               mem[slots'[x][i]].key = mem[slots'[y][j]].key
        PROVE  slots'[x][i] = slots'[y][j]
    <3>1. /\ slots'[x][i] = IF x = lb /\ i = li THEN o ELSE slots[x][i]
          /\ slots'[y][j] = IF y = lb /\ j = li THEN o ELSE slots[y][j]
      BY <1>5, <1>11
    <3>2. mem[o].key = Key(t)
      BY <1>9
    <3> QED
      BY <1>17, <1>18, <2>2, <3>1, <3>2
  <2>3. ASSUME NEW k \in Keys, BucketOf[k] = b, cur'[k] # Nil
        PROVE  \E x \in Linked(b), i \in Indices : slots'[x][i] # Nil /\ mem[slots'[x][i]].key = k
    <3>1. CASE k = Key(t)
      <4>1. slots'[lb][li] = o /\ mem[o].key = k
        BY <1>7, <1>9, <1>11, <3>1
      <4> QED
        BY <1>7, <1>9, <4>1
    <3>2. CASE k # Key(t)
      <4>1. cur[k] # Nil
        BY <1>13, <2>3, <3>2
      <4>2. PICK x \in Linked(b), i \in Indices : Holds(x, i, k)
        BY <1>5, <2>3, <4>1 DEF Items
      <4>3. slots[x][i] # Nil /\ mem[slots[x][i]].key = k
        BY <4>2 DEF Holds
      <4>4. ~(x = lb /\ i = li)
        BY <1>7, <3>2, <4>3
      <4>5. slots'[x][i] = slots[x][i]
        BY <1>5, <1>11, <4>4
      <4> QED
        BY <4>3, <4>5
    <3> QED
      BY <3>1, <3>2
  <2> QED
    BY SMTT(60), <1>1, <1>22, <2>1, <2>2, <2>3 DEF Items, Holds
<1>24. Once(b)'
  <2>1. ASSUME NEW x \in Linked(b), NEW y \in Linked(b), NEW i \in Indices, NEW j \in Indices,
               slots'[x][i] # Nil, slots'[x][i] = slots'[y][j]
        PROVE  x = y /\ i = j
    <3>1. /\ slots'[x][i] = IF x = lb /\ i = li THEN o ELSE slots[x][i]
          /\ slots'[y][j] = IF y = lb /\ j = li THEN o ELSE slots[y][j]
          /\ slots[x][i] # o /\ slots[y][j] # o
      BY <1>5, <1>9, <1>11
    <3>2. CASE x = lb /\ i = li
      BY <2>1, <3>1, <3>2
    <3>3. CASE ~(x = lb /\ i = li)
      <4>1. slots'[x][i] = slots[x][i] /\ slots'[y][j] = slots[y][j]
        BY <2>1, <3>1, <3>3
      <4>2. slots[x][i] # Nil /\ slots[x][i] = slots[y][j]
        BY <2>1, <4>1
      <4> QED
        BY <1>15, <4>2
    <3> QED
      BY <3>2, <3>3
  <2> QED
    BY <1>22, <2>1 DEF Once
<1>25. Packed(b)'
  <2>1. \A x \in Linked(b), i \in Indices : next[x] # Nil => slots[x][i] # Nil
    BY <1>5, <1>14 DEF Packed
  <2>2. \A x \in Linked(b), i \in Indices : next[x] # Nil => slots'[x][i] # Nil
    BY <1>5, <1>9, <1>11, <2>1
  <2> QED
    BY <1>1, <1>22, <2>2 DEF Packed
<1>26. CallOK(t)' /\ Mut(t)'
  <2>1. CallOK(t)'
    BY <1>1, <1>2, <1>3, <1>12 DEF CallOK, Key
  <2>2. \A l \in {pc'[t]} : l \notin Inserting \cup Growing \cup Filling \cup { "moved", "detach", "release" } /\ l = "unlock"
    BY <1>2, <1>12
  <2> QED
    BY <2>1, <2>2 DEF Mut
<1>27. \A k \in Keys : BucketOf[k] # B(t) => cur'[k] = cur[k]
  BY <1>4, <1>5, <1>13
<1>28. \A x \in Buckets : slots'[x] = slots[x] \/ x \in Linked(B(t))
  <2>1. \A x \in Buckets : x # lb => slots'[x] = slots[x]
    BY <1>1, <1>3 DEF Types
  <2> QED
    BY <1>4, <1>7, <2>1
<1>29. \A c \in Main : c = B(t) => Items(c)' /\ Once(c)' /\ Packed(c)'
  BY <1>4, <1>23, <1>24, <1>25
<1>30. /\ pc[t] \in (Inside \cup { "release" }) \ Handing
       /\ pc'[t] \notin Handing \cup Reading /\ call'[t] = call[t]
       /\ UNCHANGED <<locked, next, free, flock, hand>> /\ mem' = mem /\ live' = live
  BY <1>1, <1>2, <1>12
<1> QED
  BY <1>2, <1>12, <1>20, <1>21, <1>26, <1>27, <1>28, <1>29, <1>30, StoreStep

\* del() takes the item from its slot, the only one that refers to it.
LEMMA StepDel ==
  ASSUME IInv, NEW t \in Threads, setting' = setting, Del(t)
  PROVE  IInv'
<1>1. PICK l \in Found(B(t), Key(t)) :
        /\ live' = live \ {slots[l.b][l.i]} /\ slots' = [slots EXCEPT ![l.b][l.i] = Nil]
        /\ loc' = [loc EXCEPT ![t] = l]
  BY DEF Del
<1>2. /\ pc[t] = "find" /\ pc' = [pc EXCEPT ![t] = "fill"] /\ call[t].op = "del"
      /\ cur' = [cur EXCEPT ![Key(t)] = Nil]
      /\ next' = next /\ free' = free /\ flock' = flock /\ locked' = locked
      /\ mem' = mem /\ call' = call /\ hand' = hand /\ item' = item
      /\ old' = old /\ same' = same /\ buf' = buf
  BY DEF Del, At, Goto
<1>3. /\ pc[t] \in Inside /\ pc[t] \notin Handing \cup Filling \cup Inserting
      /\ "fill" \in Inside /\ "fill" \in Filling
      /\ "fill" \notin Handing \cup Reading \cup Inserting \cup Growing \cup Walking \cup { "begin" }
  BY <1>2 DEF Inside, Handing, Freeing, Filling, Inserting, Growing, Reading, Walking
<1>4. Types /\ Mut(t) /\ CallOK(t) /\ Pool /\ Locks
  BY DEF IInv
<1>5. PICK b \in Main : b = B(t)
  BY <1>3, MyChain
<1>6. /\ next \in Links /\ Good(next, b) /\ Items(b) /\ Once(b) /\ Packed(b) /\ Linked(b) \subseteq Buckets
      /\ Key(t) \in Keys /\ BucketOf[Key(t)] = b
  <2>1. BucketOf[Key(t)] = b
    BY <1>5 DEF B
  <2> QED
    BY <1>3, <1>5, <2>1, MyChain
<1> DEFINE lb == l.b
           li == l.i
           o == slots[lb][li]
<1>7. /\ lb \in Linked(b) /\ li \in Indices /\ o # Nil /\ mem[o].key = Key(t) /\ lb \in Buckets
      /\ l = [b |-> lb, i |-> li]
  BY <1>5, <1>6, FoundIs DEF Holds
<1>8. l \in [b : Buckets \cup {Nil}, i : Nat]
  <2>1. li \in Nat
    BY <1>7, BucketIds
  <2> QED
    BY <1>7, <2>1
<1> HIDE DEF o
<1>9. slots' = [slots EXCEPT ![lb][li] = Nil] /\ live' = live \ {o} /\ loc'[t] = l
  BY <1>1, <1>4 DEF o, Types
<1> HIDE DEF lb, li
<1>10. \A x \in Buckets, i \in Indices :
         slots'[x][i] = IF x = lb /\ i = li THEN Nil ELSE slots[x][i]
  BY <1>4, <1>7, <1>9 DEF Types
<1>11. /\ pc'[t] = "fill" /\ old'[t] = Nil /\ Key(t)' = Key(t) /\ B(t)' = B(t)
       /\ \A u \in Threads : u # t => Stay(u) /\ same'[u] = same[u]
  BY <1>1, <1>2, <1>3, <1>4 DEF Types, Stay, Mut, Key, B
<1>12. \A k \in Keys : cur'[k] = IF k = Key(t) THEN Nil ELSE cur[k]
  BY <1>2, <1>4 DEF Types
<1>13. \A u \in Threads : pc[u] = "moved" \/ pc[u] \in Filling => B(u) # b
  <2>1. \A u \in Threads : pc[u] = "moved" \/ pc[u] \in Filling => u # t /\ pc[u] \in Inside
    BY <1>2, <1>3 DEF Inside
  <2> QED
    BY <1>3, <1>4, <1>5, <2>1 DEF Locks
<1>14. \A x, y \in Linked(b), i, j \in Indices :
         slots[x][i] # Nil /\ slots[x][i] = slots[y][j] => x = y /\ i = j
  BY <1>6, <1>13 DEF Once
<1>15. \A x \in Linked(b), i \in Indices : slots[x][i] # Nil =>
         LET q == slots[x][i]
             k == mem[q].key
         IN  q \in live /\ k \in Keys /\ BucketOf[k] = b /\ cur[k] # Nil /\ mem[q].v = cur[k]
  BY <1>6 DEF Items
<1>16. \A x, y \in Linked(b), i, j \in Indices :
         slots[x][i] # Nil /\ slots[y][j] # Nil /\ mem[slots[x][i]].key = mem[slots[y][j]].key
           => slots[x][i] = slots[y][j]
  BY <1>6 DEF Items
<1>17. ASSUME NEW x \in Linked(b), NEW i \in Indices, slots'[x][i] # Nil
       PROVE  /\ slots'[x][i] = slots[x][i] /\ slots[x][i] # o /\ mem[slots[x][i]].key # Key(t)
              /\ slots[x][i] # Nil
  <2>1. ~(x = lb /\ i = li) /\ slots'[x][i] = slots[x][i] /\ slots[x][i] # Nil
    BY <1>6, <1>10, <1>17
  <2>2. slots[x][i] # slots[lb][li]
    BY <1>7, <1>14, <2>1
  <2>3. slots[x][i] # o
    BY <2>2 DEF o
  <2>4. slots[lb][li] = o
    BY DEF o
  <2>5. mem[slots[x][i]].key # Key(t)
    BY <1>7, <1>16, <2>1, <2>3, <2>4
  <2> QED
    BY <2>1, <2>3, <2>5
<1>18. /\ \A c \in Main : \A y \in Linked(c), j \in Indices : slots[y][j] = o => c = b
       /\ \A u \in Threads : o \notin Held(u)
  <2>1. slots[lb][li] = o
    BY DEF o
  <2> QED
    BY <1>7, <2>1, ItemIsMine
<1>19. Types'
  <2>1. slots' \in [Buckets -> [Indices -> Offsets \cup {Nil}]]
    BY <1>4, <1>9 DEF Types
  <2>2. pc' \in [Threads -> PCs] /\ cur' \in [Keys -> Values \cup {Nil}]
    BY <1>2, <1>4 DEF Types, PCs, Inside, Filling
  <2>3. loc' \in [Threads -> [b : Buckets \cup {Nil}, i : Nat]]
    BY <1>1, <1>4, <1>8 DEF Types
  <2>4. live' \subseteq setting.room
    BY <1>4, <1>9 DEF Types
  <2> QED
    BY <1>2, <1>4, <2>1, <2>2, <2>3, <2>4 DEF Types
<1>20. Pool'
  <2>1. \A u \in Threads : Nil \notin Held(u)
    BY HeldReal DEF IInv
  <2>2. \A u \in Threads : \A q \in Held(u) : q \in live' /\ mem'[q] = mem[q]
    BY <1>2, <1>4, <1>9, <1>18 DEF Pool
  <2>3. \A q : \A x \in Buckets, i \in Indices : slots'[x][i] = q =>
          q = Nil \/ \E y \in Buckets, j \in Indices : slots[y][j] = q
    BY <1>10
  <2>4. Held(t)' = {} /\ pc'[t] # "publish"
    BY <1>11 DEF Held
  <2> QED
    BY <1>4, <1>11, <2>1, <2>2, <2>3, <2>4, PoolKeeps
<1>21. Linked(b)' = Linked(b)
  BY <1>2, SameLinks
<1>22. Items(b)'
  <2>1. ASSUME NEW x \in Linked(b), NEW i \in Indices, slots'[x][i] # Nil
        PROVE  LET q == slots'[x][i]
                   k == mem[q].key
               IN  q \in live' /\ k \in Keys /\ BucketOf[k] = b /\ cur'[k] # Nil /\ mem[q].v = cur'[k]
    <3>1. /\ slots'[x][i] = slots[x][i] /\ slots[x][i] # o /\ mem[slots[x][i]].key # Key(t)
          /\ slots[x][i] # Nil
      BY <1>17, <2>1
    <3> QED
      BY <1>9, <1>12, <1>15, <3>1
  <2>2. ASSUME NEW x \in Linked(b), NEW y \in Linked(b), NEW i \in Indices, NEW j \in Indices,
               slots'[x][i] # Nil, slots'[y][j] # Nil,
               mem[slots'[x][i]].key = mem[slots'[y][j]].key
        PROVE  slots'[x][i] = slots'[y][j]
    <3>1. /\ slots'[x][i] = slots[x][i] /\ slots'[y][j] = slots[y][j]
          /\ slots[x][i] # Nil /\ slots[y][j] # Nil
      BY <1>17, <2>2
    <3>2. mem[slots[x][i]].key = mem[slots[y][j]].key
      BY <2>2, <3>1
    <3> QED
      BY <1>16, <3>1, <3>2
  <2>3. ASSUME NEW k \in Keys, BucketOf[k] = b, cur'[k] # Nil
        PROVE  \E x \in Linked(b), i \in Indices : slots'[x][i] # Nil /\ mem[slots'[x][i]].key = k
    <3>1. cur[k] # Nil /\ k # Key(t)
      BY <1>12, <2>3
    <3>2. PICK x \in Linked(b), i \in Indices : Holds(x, i, k)
      BY <1>6, <2>3, <3>1 DEF Items
    <3>3. slots[x][i] # Nil /\ mem[slots[x][i]].key = k
      BY <3>2 DEF Holds
    <3>4. ~(x = lb /\ i = li)
      BY <1>7, <3>1, <3>3 DEF o
    <3>5. slots'[x][i] = slots[x][i]
      BY <1>6, <1>10, <3>4
    <3> QED
      BY <3>3, <3>5
  <2> QED
    BY <1>2, <1>21, <2>1, <2>2, <2>3 DEF Items, Holds
<1>23. Once(b)'
  <2>1. ASSUME NEW x \in Linked(b), NEW y \in Linked(b), NEW i \in Indices, NEW j \in Indices,
               slots'[x][i] # Nil, slots'[x][i] = slots'[y][j]
        PROVE  x = y /\ i = j
    <3>1. slots'[y][j] # Nil
      BY <2>1
    <3>2. slots'[x][i] = slots[x][i] /\ slots'[y][j] = slots[y][j] /\ slots[x][i] # Nil
      BY <1>17, <2>1, <3>1
    <3>3. slots[x][i] = slots[y][j]
      BY <2>1, <3>2
    <3> QED
      BY <1>14, <3>2, <3>3
  <2> QED
    BY <1>21, <2>1 DEF Once
<1>24. Packed(b)'
  <2>1. ASSUME NEW x \in Linked(b), NEW i \in Indices, next[x] # Nil, slots'[x][i] = Nil
        PROVE  pc'[t] \in Filling /\ B(t)' = b /\ IsAt(t, x, i)'
    <3>1. slots[x][i] # Nil
      BY <1>6, <1>13, <2>1 DEF Packed
    <3>2. x = lb /\ i = li
      BY <1>6, <1>10, <2>1, <3>1
    <3>3. loc'[t].b = lb /\ loc'[t].i = li
      BY <1>9 DEF lb, li
    <3> QED
      BY <1>3, <1>5, <1>11, <3>2, <3>3 DEF IsAt
  <2> QED
    BY <1>2, <1>21, <2>1 DEF Packed
<1>25. CallOK(t)'
  BY <1>2, <1>3, <1>4, <1>11 DEF CallOK, Key
<1>26. Mut(t)'
  <2>1. Linked(B(t))' = Linked(b)
    <3>1. Chain(B(t))' = Chain(b)
      BY <1>2, <1>5, <1>11 DEF Chain
    <3> QED
      BY <3>1 DEF Linked
  <2>2. loc'[t].b = lb /\ loc'[t].i = li
    BY <1>9 DEF lb, li
  <2>3. slots'[lb][li] = Nil
    BY <1>7, <1>10
  <2>4. Placed(t)' /\ AtLoc(t)' = Nil
    BY <1>7, <2>1, <2>2, <2>3 DEF Placed, AtLoc
  <2>5. \A s \in {pc'[t]} : s \notin Inserting \cup Growing \cup { "unlock", "release", "moved", "detach" }
    BY <1>3, <1>11
  <2> QED
    BY <1>11, <2>4, <2>5 DEF Mut
<1>27. \A k \in Keys : BucketOf[k] # B(t) => cur'[k] = cur[k]
  BY <1>5, <1>6, <1>12
<1>28. \A x \in Buckets : slots'[x] = slots[x] \/ x \in Linked(B(t))
  <2>1. \A x \in Buckets : x # lb => slots'[x] = slots[x]
    BY <1>4, <1>9 DEF Types
  <2> QED
    BY <1>5, <1>7, <2>1
<1>29. \A c \in Main : c = B(t) => Items(c)' /\ Once(c)' /\ Packed(c)'
  BY <1>5, <1>22, <1>23, <1>24
<1>30. \A c \in Main : c # B(t) => \A x \in Linked(c), i \in Indices : slots[x][i] # Nil =>
         /\ mem'[slots[x][i]] = mem[slots[x][i]]
         /\ slots[x][i] \in live => slots[x][i] \in live'
  BY <1>2, <1>5, <1>9, <1>18
<1>31. /\ pc[t] \in (Inside \cup { "release" }) \ Handing
       /\ pc'[t] \notin Handing \cup Reading /\ call'[t] = call[t]
       /\ UNCHANGED <<locked, next, free, flock, hand>>
  BY <1>2, <1>3, <1>11
<1> QED
  BY <1>3, <1>11, <1>19, <1>20, <1>25, <1>26, <1>27, <1>28, <1>29, <1>30, <1>31, StoreStep

\* The end of the chain that a mutator has locked, seen from its place in it.
LEMMA MyLast ==
  ASSUME IInv, NEW t \in Threads, pc[t] \in Inside, Placed(t)
  PROVE  LET last == LastOf(Chain(loc[t].b))
             p == Previous(t)
         IN  /\ last \in Linked(B(t)) /\ next[last] = Nil /\ last \in Buckets
             /\ \A y \in Linked(B(t)) : next[y] = Nil => y = last
             /\ next[loc[t].b] # Nil =>
                  /\ loc[t].b # last /\ last \in Extra
                  /\ p \in Linked(B(t)) /\ next[p] = last /\ p # last
                  /\ \A y \in Linked(B(t)) : next[y] = last => y = p
<1>1. /\ next \in Links /\ Good(next, B(t)) /\ Linked(B(t)) = MembersOf(next, B(t))
      /\ Linked(B(t)) \subseteq Buckets
      /\ Chain(loc[t].b) = ChainOf(next, loc[t].b)
  BY MyChain, ChainIsOf
<1>2. loc[t].b \in MembersOf(next, B(t))
  BY <1>1 DEF Placed
<1> DEFINE c == Chain(loc[t].b)
<1>3. LastOf(c) = c[Len(c)] /\ Previous(t) = c[Len(c) - 1]
  BY DEF LastOf, Previous
<1>4. /\ c[Len(c)] \in MembersOf(next, B(t)) /\ next[c[Len(c)]] = Nil
      /\ \A y \in MembersOf(next, B(t)) : next[y] = Nil => y = c[Len(c)]
      /\ next[loc[t].b] # Nil =>
           /\ loc[t].b # c[Len(c)] /\ c[Len(c)] \in Extra
           /\ c[Len(c) - 1] \in MembersOf(next, B(t)) /\ next[c[Len(c) - 1]] = c[Len(c)]
           /\ c[Len(c) - 1] # c[Len(c)]
           /\ \A y \in MembersOf(next, B(t)) : next[y] = c[Len(c)] => y = c[Len(c) - 1]
  BY <1>1, <1>2, ChainEnd
<1> HIDE DEF c
<1> QED
  BY <1>1, <1>3, <1>4 DEF c

\* The slots of a bucket that are in use are numbers.
LEMMA UsedIs ==
  ASSUME NEW x
  PROVE  /\ Used(x) \in SUBSET Nat /\ Used(x) \subseteq Indices /\ IsFiniteSet(Used(x))
         /\ Used(x) # {} => Smallest(Used(x)) \in Used(x)
<1>1. Used(x) \subseteq Indices /\ Used(x) \in SUBSET Nat
  BY BucketIds DEF Used
<1>2. IsFiniteSet(Indices)
  <2>1. BucketSize \in Nat
    BY BucketIds
  <2> QED
    BY <2>1, UpTo DEF Indices
<1>3. IsFiniteSet(Used(x))
  BY <1>1, <1>2, FS_Subset
<1> QED
  BY <1>1, <1>3, SmallestIs

\* fill_hole() copies an item from the end of the chain to the hole.
LEMMA StepFillMove ==
  ASSUME IInv, NEW t \in Threads, setting' = setting, FillMove(t)
  PROVE  IInv'
<1>0. PICK last, s, o, lb, li :
        /\ last = LastOf(Chain(loc[t].b)) /\ s = Smallest(Used(last)) /\ o = slots[last][s]
        /\ lb = loc[t].b /\ li = loc[t].i
  OBVIOUS
<1>1. /\ pc[t] = "fill" /\ pc' = [pc EXCEPT ![t] = "moved"]
      /\ next[lb] # Nil /\ Used(last) # {}
      /\ slots' = [slots EXCEPT ![lb][li] = o]
      /\ next' = next /\ free' = free /\ flock' = flock /\ locked' = locked
      /\ mem' = mem /\ live' = live /\ call' = call /\ loc' = loc /\ hand' = hand /\ item' = item
      /\ old' = old /\ same' = same /\ buf' = buf /\ cur' = cur
  BY <1>0 DEF FillMove, At, Goto, pool, locals
<1>2. /\ pc[t] \in Inside /\ pc[t] \in Filling /\ pc[t] \notin Handing \cup Inserting
      /\ pc[t] \notin Inserting \cup { "unlock", "release" }
      /\ "moved" \in Inside
      /\ "moved" \notin Handing \cup Reading \cup Inserting \cup Growing \cup Filling \cup Walking \cup { "begin" }
  BY <1>1 DEF Inside, Handing, Freeing, Filling, Inserting, Growing, Reading, Walking
<1>3. Types /\ Mut(t) /\ CallOK(t) /\ Pool /\ Locks
  BY DEF IInv
<1>4. PICK b \in Main : b = B(t)
  BY <1>2, MyChain
<1>5. /\ Items(b) /\ Once(b) /\ Packed(b) /\ Linked(b) \subseteq Buckets
      /\ Placed(t) /\ AtLoc(t) = Nil /\ old[t] = Nil
  BY <1>2, <1>3, <1>4, MyChain DEF Mut
<1>6. /\ last \in Linked(b) /\ next[last] = Nil /\ last \in Buckets /\ lb # last
      /\ \A y \in Linked(b) : next[y] = Nil => y = last
  BY <1>1, <1>2, <1>4, <1>5, <1>0, MyLast
<1>7. s \in Used(last)
  BY <1>1, <1>0, UsedIs
<1>8. s \in Indices /\ o # Nil
  BY <1>7, <1>0 DEF Used
<1>9. lb \in Linked(b) /\ li \in Indices /\ slots[lb][li] = Nil /\ lb \in Buckets
  BY <1>4, <1>5, <1>0 DEF Placed, AtLoc
<1>10. o \in Offsets /\ slots[last][s] = o
  BY <1>3, <1>6, <1>8, <1>0 DEF Types
<1>11. \A x \in Buckets, i \in Indices :
         slots'[x][i] = IF x = lb /\ i = li THEN o ELSE slots[x][i]
  BY <1>1, <1>3, <1>9 DEF Types
<1>12. /\ pc'[t] = "moved" /\ old'[t] = Nil /\ Key(t)' = Key(t) /\ B(t)' = B(t)
       /\ \A u \in Threads : u # t => Stay(u) /\ same'[u] = same[u]
  BY <1>1, <1>3, <1>5 DEF Types, Stay, Key, B
<1>13. \A u \in Threads : pc[u] = "moved" \/ (u # t /\ pc[u] \in Filling) => B(u) # b
  <2>1. \A u \in Threads : pc[u] = "moved" \/ (u # t /\ pc[u] \in Filling) => u # t /\ pc[u] \in Inside
    BY <1>1 DEF Inside
  <2> QED
    BY <1>2, <1>3, <1>4, <2>1 DEF Locks
<1>14. \A x, y \in Linked(b), i, j \in Indices :
         slots[x][i] # Nil /\ slots[x][i] = slots[y][j] => x = y /\ i = j
  BY <1>5, <1>13 DEF Once
<1>15. Types'
  <2>1. slots' \in [Buckets -> [Indices -> Offsets \cup {Nil}]]
    BY <1>1, <1>3, <1>10 DEF Types
  <2>2. pc' \in [Threads -> PCs]
    BY <1>1, <1>3 DEF Types, PCs, Inside
  <2> QED
    BY <1>1, <1>3, <2>1, <2>2 DEF Types
<1>16. \A x \in Buckets, i \in Indices : slots'[x][i] # Nil =>
         \/ x = lb /\ i = li /\ slots'[x][i] = slots[last][s]
         \/ ~(x = lb /\ i = li) /\ slots'[x][i] = slots[x][i]
  BY <1>10, <1>11
<1>17. Pool'
  <2>1. \A u \in Threads : Nil \notin Held(u)
    BY HeldReal DEF IInv
  <2>2. \A u \in Threads : \A q \in Held(u) : q \in live' /\ mem'[q] = mem[q]
    BY <1>1, <1>3 DEF Pool
  <2>3. \A q : \A x \in Buckets, i \in Indices : slots'[x][i] = q =>
          q = Nil \/ \E y \in Buckets, j \in Indices : slots[y][j] = q
    BY <1>6, <1>8, <1>16
  <2>4. Held(t)' = {} /\ pc'[t] # "publish"
    BY <1>12 DEF Held
  <2> QED
    BY <1>3, <1>12, <2>1, <2>2, <2>3, <2>4, PoolKeeps
<1>18. Linked(b)' = Linked(b)
  BY <1>1, SameLinks
<1>19. ASSUME NEW x \in Linked(b), NEW i \in Indices, slots'[x][i] # Nil
       PROVE  \E y \in Linked(b), j \in Indices : slots[y][j] # Nil /\ slots'[x][i] = slots[y][j]
  BY <1>5, <1>6, <1>8, <1>16, <1>19
<1>20. Items(b)'
  <2>1. ASSUME NEW x \in Linked(b), NEW i \in Indices, slots'[x][i] # Nil
        PROVE  LET q == slots'[x][i]
                   k == mem[q].key
               IN  q \in live /\ k \in Keys /\ BucketOf[k] = b /\ cur[k] # Nil /\ mem[q].v = cur[k]
    <3>1. PICK y \in Linked(b), j \in Indices : slots[y][j] # Nil /\ slots'[x][i] = slots[y][j]
      BY <1>19, <2>1
    <3> QED
      BY <1>5, <3>1 DEF Items
  <2>2. ASSUME NEW x \in Linked(b), NEW y \in Linked(b), NEW i \in Indices, NEW j \in Indices,
               slots'[x][i] # Nil, slots'[y][j] # Nil,
               mem[slots'[x][i]].key = mem[slots'[y][j]].key
        PROVE  slots'[x][i] = slots'[y][j]
    <3>1. PICK x1 \in Linked(b), i1 \in Indices : slots[x1][i1] # Nil /\ slots'[x][i] = slots[x1][i1]
      BY <1>19, <2>2
    <3>2. PICK y1 \in Linked(b), j1 \in Indices : slots[y1][j1] # Nil /\ slots'[y][j] = slots[y1][j1]
      BY <1>19, <2>2
    <3>3. mem[slots[x1][i1]].key = mem[slots[y1][j1]].key
      BY <2>2, <3>1, <3>2
    <3>4. slots[x1][i1] = slots[y1][j1]
      BY <1>5, <3>1, <3>2, <3>3 DEF Items
    <3> QED
      BY <3>1, <3>2, <3>4
  <2>3. ASSUME NEW k \in Keys, BucketOf[k] = b, cur[k] # Nil
        PROVE  \E x \in Linked(b), i \in Indices : slots'[x][i] # Nil /\ mem[slots'[x][i]].key = k
    <3>1. PICK x \in Linked(b), i \in Indices : Holds(x, i, k)
      BY <1>5, <2>3 DEF Items
    <3>2. slots[x][i] # Nil /\ mem[slots[x][i]].key = k
      BY <3>1 DEF Holds
    <3>3. slots'[x][i] = slots[x][i]
      BY <1>5, <1>9, <1>11, <3>2
    <3> QED
      BY <3>2, <3>3
  <2> QED
    BY SMTT(30), <1>1, <1>18, <2>1, <2>2, <2>3 DEF Items, Holds
<1>21. IsAt(t, lb, li)' /\ pc'[t] = "moved" /\ B(t)' = b
  BY <1>1, <1>4, <1>12, <1>0 DEF IsAt
<1>22. Once(b)'
  <2>1. ASSUME NEW x \in Linked(b), NEW y \in Linked(b), NEW i \in Indices, NEW j \in Indices,
               slots'[x][i] # Nil, slots'[x][i] = slots'[y][j],
               ~(x = lb /\ i = li), ~(y = lb /\ j = li)
        PROVE  x = y /\ i = j
    <3>1. slots'[x][i] = slots[x][i] /\ slots'[y][j] = slots[y][j]
      BY <1>5, <1>11, <2>1
    <3>2. slots[x][i] # Nil /\ slots[x][i] = slots[y][j]
      BY <2>1, <3>1
    <3> QED
      BY <1>14, <3>2
  <2> QED
    BY <1>18, <1>21, <2>1 DEF Once
<1>23. Packed(b)'
  <2>1. ASSUME NEW x \in Linked(b), NEW i \in Indices, next[x] # Nil PROVE slots'[x][i] # Nil
    <3>1. CASE x = lb /\ i = li
      BY <1>5, <1>8, <1>11, <3>1
    <3>2. CASE ~(x = lb /\ i = li)
      <4>1. ~IsAt(t, x, i)
        BY <3>2, <1>0 DEF IsAt
      <4>2. slots[x][i] # Nil
        BY <1>5, <1>13, <2>1, <4>1 DEF Packed
      <4> QED
        BY <1>5, <1>11, <3>2, <4>2
    <3> QED
      BY <3>1, <3>2
  <2> QED
    BY <1>1, <1>18, <2>1 DEF Packed
<1>24. CallOK(t)'
  BY <1>1, <1>2, <1>3, <1>12 DEF CallOK, Key
<1>25. Mut(t)'
  <2>1. Linked(B(t))' = Linked(b)
    <3>1. Chain(B(t))' = Chain(b)
      BY <1>1, <1>4, <1>12 DEF Chain
    <3> QED
      BY <3>1 DEF Linked
  <2>2. loc'[t].b = lb /\ loc'[t].i = li
    BY <1>1, <1>0
  <2>3. slots'[lb][li] = o
    BY <1>9, <1>11
  <2>4. Placed(t)' /\ AtLoc(t)' = o
    BY <1>9, <2>1, <2>2, <2>3 DEF Placed, AtLoc
  <2>5. Used(last)' = Used(last)
    BY <1>6, <1>11 DEF Used
  <2>6. \A x \in Linked(b) : next[x] = Nil => Used(x)' # {} /\ slots'[x][Smallest(Used(x)')] = o
    <3>1. Used(last)' # {} /\ Smallest(Used(last)') = s
      BY <1>1, <1>0, <2>5
    <3>2. slots'[last][s] = o
      BY <1>6, <1>8, <1>10, <1>11
    <3> QED
      BY <1>6, <3>1, <3>2
  <2>7. \A x \in Linked(b) : next[x] = Nil => (Used(x) # {} /\ slots[x][Smallest(Used(x))] = AtLoc(t))'
    BY <2>4, <2>6 DEF Smallest
  <2>8. \A l \in {pc'[t]} : l \notin Inserting \cup Growing \cup Filling \cup { "unlock", "release", "detach" }
    BY <1>2, <1>12
  <2>9. next'[loc'[t].b] # Nil
    BY <1>1, <2>2
  <2> QED
    BY <1>1, <1>8, <1>12, <2>1, <2>4, <2>7, <2>8, <2>9 DEF Mut
<1>26. \A x \in Buckets : slots'[x] = slots[x] \/ x \in Linked(B(t))
  <2>1. \A x \in Buckets : x # lb => slots'[x] = slots[x]
    BY <1>1, <1>3 DEF Types
  <2> QED
    BY <1>4, <1>9, <2>1
<1>27. \A c \in Main : c = B(t) => Items(c)' /\ Once(c)' /\ Packed(c)'
  BY <1>4, <1>20, <1>22, <1>23
<1>28. /\ pc[t] \in (Inside \cup { "release" }) \ Handing
       /\ pc'[t] \notin Handing \cup Reading /\ call'[t] = call[t]
       /\ UNCHANGED <<locked, next, free, flock, hand>> /\ mem' = mem /\ live' = live /\ cur' = cur
  BY <1>1, <1>2, <1>12
<1> QED
  BY <1>2, <1>12, <1>15, <1>17, <1>24, <1>25, <1>26, <1>27, <1>28, StoreStep

\* fill_hole() clears the slot that the item came from.
LEMMA StepFillClear ==
  ASSUME IInv, NEW t \in Threads, setting' = setting, FillClear(t)
  PROVE  IInv'
<1>0. PICK last, s, o, lb, li, l :
        /\ last = LastOf(Chain(loc[t].b)) /\ s = Smallest(Used(last)) /\ o = slots[last][s]
        /\ lb = loc[t].b /\ li = loc[t].i
        /\ l = IF Cardinality(Used(last)) = 1 THEN "detach" ELSE "unlock"
  OBVIOUS
<1>1. /\ pc[t] = "moved" /\ pc' = [pc EXCEPT ![t] = l]
      /\ slots' = [slots EXCEPT ![last][s] = Nil]
      /\ next' = next /\ free' = free /\ flock' = flock /\ locked' = locked
      /\ mem' = mem /\ live' = live /\ call' = call /\ loc' = loc /\ hand' = hand /\ item' = item
      /\ old' = old /\ same' = same /\ buf' = buf /\ cur' = cur
  BY <1>0 DEF FillClear, At, Goto, pool, locals
<1>2. /\ pc[t] \in Inside /\ pc[t] \notin Handing \cup Filling \cup Inserting
      /\ pc[t] \notin Inserting \cup { "unlock", "release" }
      /\ l \in Inside /\ l \in { "detach", "unlock" }
      /\ l \notin Handing \cup Reading \cup Inserting \cup Growing \cup Filling \cup Walking \cup { "begin" }
  BY <1>0, <1>1 DEF Inside, Handing, Freeing, Filling, Inserting, Growing, Reading, Walking
<1>3. Types /\ Mut(t) /\ CallOK(t) /\ Pool /\ Locks
  BY DEF IInv
<1>4. PICK b \in Main : b = B(t)
  BY <1>2, MyChain
<1>5. /\ Items(b) /\ Once(b) /\ Packed(b) /\ Linked(b) \subseteq Buckets
      /\ Placed(t) /\ AtLoc(t) # Nil /\ old[t] = Nil /\ next[lb] # Nil
      /\ \A x \in Linked(b) : next[x] = Nil =>
           Used(x) # {} /\ slots[x][Smallest(Used(x))] = AtLoc(t)
  BY <1>0, <1>1, <1>2, <1>3, <1>4, MyChain DEF Mut
<1>6. /\ last \in Linked(b) /\ next[last] = Nil /\ last \in Buckets /\ lb # last
      /\ \A y \in Linked(b) : next[y] = Nil => y = last
  BY <1>0, <1>2, <1>4, <1>5, MyLast
<1>7. s \in Used(last) /\ s \in Indices /\ o = AtLoc(t)
  <2>1. Used(last) # {} /\ slots[last][s] = AtLoc(t)
    BY <1>0, <1>5, <1>6
  <2>2. s \in Used(last)
    BY <1>0, <2>1, UsedIs
  <2> QED
    BY <1>0, <2>1, <2>2 DEF Used
<1>8. lb \in Linked(b) /\ li \in Indices /\ slots[lb][li] = o /\ lb \in Buckets /\ o # Nil
      /\ slots[last][s] = o
  BY <1>0, <1>4, <1>5, <1>7 DEF Placed, AtLoc
<1>9. \A x \in Buckets, i \in Indices :
        slots'[x][i] = IF x = last /\ i = s THEN Nil ELSE slots[x][i]
  BY <1>1, <1>3, <1>6, <1>7 DEF Types
<1>10. /\ pc'[t] = l /\ old'[t] = Nil /\ Key(t)' = Key(t) /\ B(t)' = B(t)
       /\ \A u \in Threads : u # t => Stay(u) /\ same'[u] = same[u]
  BY <1>1, <1>3, <1>5 DEF Types, Stay, Key, B
<1>11. \A u \in Threads : pc[u] \in Filling \/ (u # t /\ pc[u] = "moved") => B(u) # b
  <2>1. \A u \in Threads : pc[u] \in Filling \/ (u # t /\ pc[u] = "moved") => u # t /\ pc[u] \in Inside
    BY <1>1, <1>2 DEF Inside
  <2> QED
    BY <1>2, <1>3, <1>4, <2>1 DEF Locks
<1>12. ASSUME NEW x \in Linked(b), NEW y \in Linked(b), NEW i \in Indices, NEW j \in Indices,
              slots[x][i] # Nil, slots[x][i] = slots[y][j],
              ~(x = lb /\ i = li), ~(y = lb /\ j = li)
       PROVE  x = y /\ i = j
  <2>1. ~IsAt(t, x, i) /\ ~IsAt(t, y, j)
    BY <1>0, <1>12 DEF IsAt
  <2> QED
    BY <1>5, <1>11, <1>12, <2>1 DEF Once
<1>13. ASSUME NEW x \in Linked(b), NEW i \in Indices, slots'[x][i] # Nil
       PROVE  slots'[x][i] = slots[x][i] /\ slots[x][i] # Nil /\ ~(x = last /\ i = s)
  BY <1>5, <1>9, <1>13
<1>14. Types'
  <2>1. slots' \in [Buckets -> [Indices -> Offsets \cup {Nil}]]
    BY <1>1, <1>3 DEF Types
  <2>2. pc' \in [Threads -> PCs]
    BY <1>1, <1>2, <1>3 DEF Types, PCs
  <2> QED
    BY <1>1, <1>3, <2>1, <2>2 DEF Types
<1>15. Pool'
  <2>1. \A u \in Threads : Nil \notin Held(u)
    BY HeldReal DEF IInv
  <2>2. \A u \in Threads : \A q \in Held(u) : q \in live' /\ mem'[q] = mem[q]
    BY <1>1, <1>3 DEF Pool
  <2>3. \A q : \A x \in Buckets, i \in Indices : slots'[x][i] = q =>
          q = Nil \/ \E y \in Buckets, j \in Indices : slots[y][j] = q
    BY <1>9
  <2>4. Held(t)' = {} /\ pc'[t] # "publish"
    BY <1>2, <1>10 DEF Held
  <2> QED
    BY <1>3, <1>10, <2>1, <2>2, <2>3, <2>4, PoolKeeps
<1>16. Linked(b)' = Linked(b)
  BY <1>1, SameLinks
<1>17. Items(b)'
  <2>1. ASSUME NEW x \in Linked(b), NEW i \in Indices, slots'[x][i] # Nil
        PROVE  LET q == slots'[x][i]
                   k == mem[q].key
               IN  q \in live /\ k \in Keys /\ BucketOf[k] = b /\ cur[k] # Nil /\ mem[q].v = cur[k]
    <3>1. slots'[x][i] = slots[x][i] /\ slots[x][i] # Nil
      BY <1>13, <2>1
    <3> QED
      BY <1>5, <3>1 DEF Items
  <2>2. ASSUME NEW x \in Linked(b), NEW y \in Linked(b), NEW i \in Indices, NEW j \in Indices,
               slots'[x][i] # Nil, slots'[y][j] # Nil,
               mem[slots'[x][i]].key = mem[slots'[y][j]].key
        PROVE  slots'[x][i] = slots'[y][j]
    <3>1. /\ slots'[x][i] = slots[x][i] /\ slots[x][i] # Nil
          /\ slots'[y][j] = slots[y][j] /\ slots[y][j] # Nil
      BY <1>13, <2>2
    <3>2. mem[slots[x][i]].key = mem[slots[y][j]].key
      BY <2>2, <3>1
    <3> QED
      BY <1>5, <3>1, <3>2 DEF Items
  <2>3. ASSUME NEW k \in Keys, BucketOf[k] = b, cur[k] # Nil
        PROVE  \E x \in Linked(b), i \in Indices : slots'[x][i] # Nil /\ mem[slots'[x][i]].key = k
    <3>1. PICK x \in Linked(b), i \in Indices : Holds(x, i, k)
      BY <1>5, <2>3 DEF Items
    <3>2. slots[x][i] # Nil /\ mem[slots[x][i]].key = k
      BY <3>1 DEF Holds
    <3>3. CASE x = last /\ i = s
      <4>1. slots'[lb][li] = o /\ mem[o].key = k
        BY <1>6, <1>8, <1>9, <3>2, <3>3
      <4> QED
        BY <1>8, <4>1
    <3>4. CASE ~(x = last /\ i = s)
      <4>1. slots'[x][i] = slots[x][i]
        BY <1>5, <1>9, <3>4
      <4> QED
        BY <3>2, <4>1
    <3> QED
      BY <3>3, <3>4
  <2> QED
    BY SMTT(30), <1>1, <1>16, <2>1, <2>2, <2>3 DEF Items, Holds
<1>18. Once(b)'
  <2>1. ASSUME NEW x \in Linked(b), NEW y \in Linked(b), NEW i \in Indices, NEW j \in Indices,
               slots'[x][i] # Nil, slots'[x][i] = slots'[y][j]
        PROVE  x = y /\ i = j
    <3>1. slots'[y][j] # Nil
      BY <2>1
    <3>2. /\ slots'[x][i] = slots[x][i] /\ slots[x][i] # Nil /\ ~(x = last /\ i = s)
          /\ slots'[y][j] = slots[y][j] /\ slots[y][j] # Nil /\ ~(y = last /\ j = s)
      BY <1>13, <2>1, <3>1
    <3>3. slots[x][i] = slots[y][j]
      BY <2>1, <3>2
    <3>4. CASE x = lb /\ i = li
      <4>1. slots[last][s] = slots[y][j] /\ slots[last][s] # Nil
        BY <1>8, <3>3, <3>4
      <4>2. y = lb /\ j = li
        <5>1. ~(last = lb /\ s = li)
          BY <1>6
        <5> QED
          BY <1>6, <1>7, <1>12, <3>2, <4>1, <5>1
      <4> QED
        BY <3>4, <4>2
    <3>5. CASE y = lb /\ j = li
      <4>1. slots[last][s] = slots[x][i] /\ slots[last][s] # Nil
        BY <1>8, <3>3, <3>5
      <4>2. x = lb /\ i = li
        <5>1. ~(last = lb /\ s = li)
          BY <1>6
        <5> QED
          BY <1>6, <1>7, <1>12, <3>2, <4>1, <5>1
      <4> QED
        BY <3>5, <4>2
    <3>6. CASE ~(x = lb /\ i = li) /\ ~(y = lb /\ j = li)
      BY <1>12, <3>2, <3>3, <3>6
    <3> QED
      BY <3>4, <3>5, <3>6
  <2> QED
    BY <1>16, <2>1 DEF Once
<1>19. Packed(b)'
  <2>1. \A x \in Linked(b), i \in Indices : next[x] # Nil => slots[x][i] # Nil
    BY <1>5, <1>11 DEF Packed
  <2>2. \A x \in Linked(b), i \in Indices : next[x] # Nil => slots'[x][i] # Nil
    BY <1>5, <1>6, <1>9, <2>1
  <2> QED
    BY <1>1, <1>16, <2>2 DEF Packed
<1>20. CallOK(t)'
  BY <1>1, <1>2, <1>3, <1>10 DEF CallOK, Key
<1>21. Mut(t)'
  <2>1. Linked(B(t))' = Linked(b)
    <3>1. Chain(B(t))' = Chain(b)
      BY <1>1, <1>4, <1>10 DEF Chain
    <3> QED
      BY <3>1 DEF Linked
  <2>2. loc'[t].b = lb /\ loc'[t].i = li
    BY <1>0, <1>1
  <2>3. Placed(t)'
    BY <1>8, <2>1, <2>2 DEF Placed
  <2>4. ASSUME l = "detach", NEW x \in Linked(b), NEW i \in Indices, next[x] = Nil
        PROVE  slots'[x][i] = Nil
    <3>1. Cardinality(Used(last)) = 1
      BY <1>0, <2>4
    <3>2. Used(last) = {s}
      <4>1. IsFiniteSet(Used(last)) /\ s \in Used(last)
        BY <1>7, UsedIs
      <4>2. PICK q : Used(last) = {q}
        BY <3>1, <4>1, FS_Singleton
      <4> QED
        BY <4>1, <4>2
    <3>3. x = last
      BY <1>6, <2>4
    <3>4. i # s => slots[last][i] = Nil
      BY <3>2 DEF Used
    <3> QED
      BY <1>6, <1>9, <3>3, <3>4
  <2>5. next'[loc'[t].b] # Nil
    BY <1>1, <1>5, <2>2
  <2> QED
    BY <1>1, <1>2, <1>10, <2>1, <2>3, <2>4, <2>5 DEF Mut
<1>22. \A x \in Buckets : slots'[x] = slots[x] \/ x \in Linked(B(t))
  <2>1. \A x \in Buckets : x # last => slots'[x] = slots[x]
    BY <1>1, <1>3 DEF Types
  <2> QED
    BY <1>4, <1>6, <2>1
<1>23. \A c \in Main : c = B(t) => Items(c)' /\ Once(c)' /\ Packed(c)'
  BY <1>4, <1>17, <1>18, <1>19
<1>24. /\ pc[t] \in (Inside \cup { "release" }) \ Handing
       /\ pc'[t] \notin Handing \cup Reading /\ call'[t] = call[t]
       /\ UNCHANGED <<locked, next, free, flock, hand>> /\ mem' = mem /\ live' = live /\ cur' = cur
  BY <1>1, <1>2, <1>10
<1> QED
  BY <1>2, <1>10, <1>14, <1>15, <1>20, <1>21, <1>22, <1>23, <1>24, StoreStep

-----------------------------------------------------------------------------
(* Steps of a mutator that move an extra bucket between its chain and the  *)
(* free list.                                                              *)

Frees(nx, f) == IF f = Nil THEN {} ELSE MembersOf(nx, f)

\* The chains and the free list after a step.
LEMMA After ==
  /\ \A b : Chain(b)' = ChainOf(next', b) /\ Linked(b)' = MembersOf(next', b)
  /\ FreeOnes = Frees(next, free) /\ FreeOnes' = Frees(next', free')
<1>1. \A b : Chain(b)' = ChainOf(next', b)
  BY DEF Chain, ChainOf
<1>2. \A b : Linked(b)' = MembersOf(next', b)
  BY <1>1 DEF Linked, MembersOf
<1>3. FreeOnes = Frees(next, free)
  BY ChainIsOf DEF FreeOnes, Frees
<1>4. FreeOnes' = Frees(next', free')
  <2>1. Chain(free)' = ChainOf(next', free')
    BY DEF Chain, ChainOf
  <2> QED
    BY <2>1 DEF FreeOnes, Linked, Frees, MembersOf
<1> QED
  BY <1>1, <1>2, <1>3, <1>4

\* The chains and the free list are sound.
LEMMA ListsGood ==
  ASSUME IInv
  PROVE  /\ next \in Links /\ \A b \in Main : Good(next, b) /\ Linked(b) = MembersOf(next, b)
         /\ free # Nil => Good(next, free)
         /\ \A b \in Main : Linked(b) \subseteq Buckets
<1>1. next \in Links
  BY DEF IInv, Types, Links
<1>2. \A b \in Main : Good(next, b) /\ Linked(b) = MembersOf(next, b)
  BY ChainIsOf DEF IInv, Paths, Good
<1>3. free # Nil => Good(next, free)
  BY ChainIsOf DEF IInv, Paths, Good
<1> QED
  BY <1>1, <1>2, <1>3, ChainClosed

\* Bucket h, which holds no item, moves between chain b, the free list, and the
\* hand of thread t.
Moves(t, b, h) ==
  /\ \A i \in Indices : slots[h][i] = Nil
  /\ \A c \in Main : c # b => h \notin Linked(c)
  /\ \A u \in Threads : u # t => hand[u] # h
  /\ hand[t] \in {h, Nil}
Moved(t, b, h) ==
  LET M == MembersOf(next', b)
      F == Frees(next', free')
  IN  /\ \A x : x # h => (x \in M <=> x \in Linked(b)) /\ (x \in F <=> x \in FreeOnes)
      /\ h \in M => h \notin F /\ hand'[t] # h
      /\ h \in F /\ hand'[t] = h => pc'[t] = "unlink"
      /\ h \in M \/ h \in F \/ hand'[t] = h
      /\ hand'[t] \in {h, Nil} /\ ((pc'[t] \in Handing) <=> (hand'[t] # Nil))
      /\ pc'[t] = "unlink" => hand'[t] = free'
      /\ pc'[t] = "link" => next'[h] = Nil
      /\ pc'[t] \in { "head", "head again" } => next'[h] = free'
LEMMA ListsMove ==
  ASSUME IInv, NEW t \in Threads, NEW b \in Main, NEW h \in Extra,
         Moves(t, b, h), Moved(t, b, h),
         next' \in Links, slots' = slots,
         \A c \in Main : c # b => \A x \in Linked(c) : next'[x] = next[x],
         Good(next', b), free' # Nil => Good(next', free'),
         \A u \in Threads : u # t => Stay(u),
         \A u \in Threads : u # t /\ pc[u] \in AtList => free' = free /\ next'[hand[u]] = next[hand[u]]
  PROVE  /\ Paths' /\ Apart' /\ Hands' /\ Cover'
         /\ \A c \in Main : c # b => MembersOf(next', c) = Linked(c) /\ ChainOf(next', c) = Chain(c)
<1> DEFINE M(c) == MembersOf(next', c)
           F == Frees(next', free')
<1>1. ASSUME NEW c \in Main, c # b
      PROVE  Good(next', c) /\ ChainOf(next', c) = Chain(c) /\ MembersOf(next', c) = Linked(c)
  <2>1. next \in Links /\ Good(next, c) /\ \A x \in MembersOf(next, c) : next'[x] = next[x]
    BY <1>1, ListsGood
  <2>2. Good(next', c) /\ ChainOf(next', c) = ChainOf(next, c) /\ MembersOf(next', c) = MembersOf(next, c)
    BY <2>1, ChainStays
  <2> QED
    BY <2>2, ChainIsOf
<1>2. \A c \in Main : Good(next', c)
  BY <1>1
<1>3. Paths'
  <2>1. \A c \in Main : (IsPath(next, Chain(c), c))'
    BY <1>2, After DEF Good
  <2>2. (free # Nil => IsPath(next, Chain(free), free))'
    <3>1. Chain(free)' = ChainOf(next', free')
      BY DEF Chain, ChainOf
    <3> QED
      BY <3>1 DEF Good
  <2> QED
    BY <2>1, <2>2 DEF Paths
<1>4. h # Nil /\ h \in Buckets
  BY BucketIds
<1>5. /\ \A c \in Main : c # b => h \notin Linked(c) /\ M(c) = Linked(c)
      /\ \A x : x # h => (x \in M(b) <=> x \in Linked(b)) /\ (x \in F <=> x \in FreeOnes)
      /\ h \in M(b) => h \notin F /\ hand'[t] # h
  BY <1>1 DEF Moves, Moved
<1>6. /\ \A c, d \in Main : c # d => \A x \in Linked(c) : x \notin Linked(d)
      /\ \A c \in Main : \A x \in Linked(c) : x \notin FreeOnes
  BY DEF IInv, Apart
<1>7. \A c \in Main : Linked(c)' = M(c)
  BY After
<1>8. FreeOnes' = F
  BY After
<1> HIDE DEF M, F
<1>9. Apart'
  <2>1. ASSUME NEW c \in Main, NEW d \in Main, c # d, NEW x \in M(c) PROVE x \notin M(d)
    <3>1. CASE x = h
      BY <1>5, <2>1, <3>1
    <3>2. CASE x # h
      BY <1>5, <1>6, <2>1, <3>2
    <3> QED
      BY <3>1, <3>2
  <2>2. ASSUME NEW c \in Main, NEW x \in M(c) PROVE x \notin F
    <3>1. CASE x = h
      BY <1>5, <2>2, <3>1
    <3>2. CASE x # h
      BY <1>5, <1>6, <2>2, <3>2
    <3> QED
      BY <3>1, <3>2
  <2> QED
    BY <1>7, <1>8, <2>1, <2>2 DEF Apart
<1>10. \A u \in Threads : u # t => hand'[u] = hand[u] /\ pc'[u] = pc[u]
  BY DEF Stay
<1>11. \A u \in Threads : u # t => hand[u] # h
  BY DEF Moves
<1>12. \A u \in Threads : HandOK(u)
  BY DEF IInv, Hands
<1>13. /\ h \in F /\ hand'[t] = h => pc'[t] = "unlink"
       /\ hand'[t] \in {h, Nil} /\ ((pc'[t] \in Handing) <=> (hand'[t] # Nil))
       /\ pc'[t] = "unlink" => hand'[t] = free'
       /\ pc'[t] = "link" => next'[h] = Nil
       /\ pc'[t] \in { "head", "head again" } => next'[h] = free'
       /\ h \in M(b) \/ h \in F \/ hand'[t] = h
  BY DEF Moved, M, F
<1>14. Hands'
  <2>1. HandOK(t)'
    <3>1. \A c \in Main : Nil \notin M(c)
      BY <1>2, ChainClosed, BucketIds DEF M
    <3>2. \A c \in Main : hand'[t] \notin M(c)
      <4>1. CASE hand'[t] = Nil
        BY <3>1, <4>1
      <4>2. CASE hand'[t] = h
        BY <1>5, <4>2
      <4> QED
        BY <1>13, <4>1, <4>2
    <3>3. { "link", "head", "head again" } \subseteq Handing
      BY DEF Handing, Freeing
    <3> QED
      BY <1>7, <1>8, <1>13, <3>2, <3>3 DEF HandOK
  <2>2. ASSUME NEW u \in Threads, u # t PROVE HandOK(u)'
    <3>1. HandOK(u) /\ hand[u] # h
      BY <1>11, <1>12, <2>2
    <3>2. \A c \in Main : hand[u] \notin M(c)
      BY <1>5, <3>1 DEF HandOK
    <3>3. pc[u] \in Handing \ {"unlink"} => hand[u] \notin F
      BY <1>5, <3>1 DEF HandOK
    <3>4. pc[u] \in AtList => free' = free /\ next'[hand[u]] = next[hand[u]]
      BY <2>2
    <3> QED
      BY <1>7, <1>8, <1>10, <2>2, <3>1, <3>2, <3>3, <3>4 DEF HandOK, AtList
  <2>3. ASSUME NEW u \in Threads, NEW w \in Threads, u # w, hand'[u] # Nil PROVE hand'[u] # hand'[w]
    <3>1. CASE u = t
      BY <1>10, <1>11, <1>13, <2>3, <3>1
    <3>2. CASE w = t
      BY <1>10, <1>11, <1>13, <2>3, <3>2
    <3>3. CASE u # t /\ w # t
      <4>1. hand[u] # hand[w]
        BY <1>10, <2>3, <3>3 DEF IInv, Hands
      <4> QED
        BY <1>10, <3>3, <4>1
    <3> QED
      BY <3>1, <3>2, <3>3
  <2> QED
    BY <2>1, <2>2, <2>3 DEF Hands
<1>15. Cover'
  <2>1. ASSUME NEW x \in Buckets
        PROVE  \/ \E c \in Main : x \in M(c)
               \/ (x \in F \/ \E u \in Threads : hand'[u] = x) /\ \A i \in Indices : slots[x][i] = Nil
    <3>1. CASE x = h
      BY <1>13, <3>1 DEF Moves
    <3>2. CASE x # h
      <4>1. CASE \E c \in Main : x \in Linked(c)
        BY <1>5, <3>2, <4>1
      <4>2. CASE ~\E c \in Main : x \in Linked(c)
        <5>1. (x \in FreeOnes \/ \E u \in Threads : hand[u] = x) /\ \A i \in Indices : slots[x][i] = Nil
          BY <4>2 DEF IInv, Cover
        <5>2. \A u \in Threads : hand[u] = x => u # t
          BY <3>2, BucketIds DEF Moves
        <5> QED
          BY <1>5, <1>10, <3>2, <5>1, <5>2
      <4> QED
        BY <4>1, <4>2
    <3> QED
      BY <3>1, <3>2
  <2> QED
    BY <1>7, <1>8, <2>1 DEF Cover
<1> QED
  BY <1>1, <1>3, <1>9, <1>14, <1>15

\* A step that moves a bucket keeps the invariant, when its thread knows its place.
LEMMA LinkStep ==
  ASSUME IInv, NEW t \in Threads, NEW b \in Main, b = B(t), NEW h \in Extra,
         Moves(t, b, h), Moved(t, b, h),
         setting' = setting, UNCHANGED <<locked, slots, pool, call, item, old, same, buf, cur>>,
         Types', \A u \in Threads : u # t => Stay(u),
         pc[t] \in Inside \ { "publish", "moved" }, pc'[t] \in Inside \ { "publish", "moved" },
         old[t] = Nil, pc'[t] \in Inserting \cup Growing => call[t].op # "del",
         pc'[t] \in AtList => flock' = t,
         \A u \in Threads : u # t /\ pc[u] \in AtList =>
           flock' = u /\ free' = free /\ next'[hand[u]] = next[hand[u]],
         \A c \in Main : c # b => \A x \in Linked(c) : next'[x] = next[x],
         Good(next', b), free' # Nil => Good(next', free'),
         \A x \in MembersOf(next', b), i \in Indices : next'[x] # Nil /\ slots[x][i] = Nil =>
           pc'[t] \in Filling /\ loc'[t].b = x /\ loc'[t].i = i,
         Mut(t)'
  PROVE  IInv'
<1>1. Types /\ CallOK(t)
  BY DEF IInv
<1>2. /\ slots' = slots /\ mem' = mem /\ live' = live /\ cur' = cur /\ call' = call /\ item' = item
      /\ old' = old /\ same' = same /\ buf' = buf /\ locked' = locked
  BY DEF pool
<1>3. /\ \A u \in Threads : u # t => Stay(u) /\ same'[u] = same[u]
      /\ \A u \in Threads : B(u)' = B(u) /\ (u # t => pc'[u] = pc[u])
  BY <1>1, <1>2 DEF Types, Stay, B, Key
<1>4. next' \in Links
  BY DEF Types, Links
<1>5. /\ Paths' /\ Apart' /\ Hands' /\ Cover'
      /\ \A c \in Main : c # b => MembersOf(next', c) = Linked(c) /\ ChainOf(next', c) = Chain(c)
  BY <1>2, <1>4, ListsMove
<1>6. Locks'
  <2>1. pc'[t] \in Inside => pc[t] \in Inside /\ call'[t] = call[t]
    BY <1>2
  <2>2. \A u \in Threads : u # t => Stay(u)
    BY <1>3
  <2> QED
    BY <1>2, <1>3, <2>1, <2>2, LocksKeep DEF IInv
<1>7. Pool'
  <2>1. \A u \in Threads : Nil \notin Held(u)
    BY HeldReal DEF IInv
  <2>2. \A u \in Threads : \A q \in Held(u) : q \in live' /\ mem'[q] = mem[q]
    BY <1>2 DEF IInv, Pool
  <2>3. \A q : \A x \in Buckets, i \in Indices : slots'[x][i] = q =>
          q = Nil \/ \E y \in Buckets, j \in Indices : slots[y][j] = q
    BY <1>2
  <2>4. Held(t)' = {} /\ pc'[t] # "publish"
    BY <1>2, <1>3 DEF Held
  <2> QED
    BY <1>3, <2>1, <2>2, <2>3, <2>4, PoolKeeps DEF IInv
<1>8. ASSUME NEW c \in Main, c # b PROVE ChainSame(c)
  <2>1. Chain(c)' = Chain(c) /\ Linked(c)' = Linked(c)
    BY <1>5, <1>8, After
  <2> QED
    BY <1>2, <1>8, <2>1 DEF ChainSame
<1>9. \A u \in Threads : pc[u] = "moved" \/ (u # t /\ pc[u] \in Filling) => B(u) # b
  <2>1. \A u \in Threads : pc[u] = "moved" \/ (u # t /\ pc[u] \in Filling) => u # t /\ pc[u] \in Inside
    BY DEF Inside
  <2> QED
    BY <2>1 DEF IInv, Locks
<1>10. Items(b) /\ Once(b) /\ Packed(b)
  BY DEF IInv
<1>11. Linked(b)' = MembersOf(next', b)
  BY After
<1> DEFINE M == MembersOf(next', b)
<1>12. \A x, i : i \in Indices /\ slots[x][i] # Nil => (x \in M <=> x \in Linked(b))
  BY DEF Moves, Moved
<1> HIDE DEF M
<1>13. Items(b)'
  <2>1. \A x \in M, i \in Indices : slots[x][i] # Nil =>
          LET o == slots[x][i]
              k == mem[o].key
          IN  o \in live /\ k \in Keys /\ BucketOf[k] = b /\ cur[k] # Nil /\ mem[o].v = cur[k]
    BY <1>10, <1>12 DEF Items
  <2>2. \A x, y \in M, i, j \in Indices :
          slots[x][i] # Nil /\ slots[y][j] # Nil /\ mem[slots[x][i]].key = mem[slots[y][j]].key
            => slots[x][i] = slots[y][j]
    BY <1>10, <1>12 DEF Items
  <2>3. ASSUME NEW k \in Keys, BucketOf[k] = b, cur[k] # Nil
        PROVE  \E x \in M, i \in Indices : slots[x][i] # Nil /\ mem[slots[x][i]].key = k
    <3>1. PICK x \in Linked(b), i \in Indices : Holds(x, i, k)
      BY <1>10, <2>3 DEF Items
    <3> QED
      BY <1>12, <3>1 DEF Holds
  <2> QED
    BY <1>2, <1>11, <2>1, <2>2, <2>3 DEF Items, Holds, M
<1>14. Once(b)'
  <2>1. \A x, y \in M, i, j \in Indices :
          slots[x][i] # Nil /\ slots[x][i] = slots[y][j] => x = y /\ i = j
    BY <1>9, <1>10, <1>12 DEF Once
  <2> QED
    BY <1>2, <1>11, <2>1 DEF Once, M
<1>15. Packed(b)'
  <2>1. ASSUME NEW x \in M, NEW i \in Indices, next'[x] # Nil, slots[x][i] = Nil
        PROVE  pc'[t] \in Filling /\ B(t)' = b /\ IsAt(t, x, i)'
    BY <1>3, <2>1 DEF IsAt, M
  <2> QED
    BY <1>2, <1>11, <2>1 DEF Packed, M
<1>16. CallOK(t)'
  <2>1. pc'[t] \notin Reading \cup { "begin" } \cup Walking
    BY DEF Inside, Freeing, Filling, Inserting, Growing, Reading, Walking
  <2>2. Key(t)' = Key(t) /\ call'[t] = call[t]
    BY <1>2 DEF Key
  <2> QED
    BY <1>1, <1>3, <2>1, <2>2 DEF CallOK
<1>17. pc'[t] \notin Reading
  BY <1>3 DEF Inside, Freeing, Filling, Inserting, Growing, Reading, Walking
<1>18. \A c \in Main : (pc[t] \in Inside => c # B(t)) => ChainSame(c)
  BY <1>8
<1>19. \A c \in Main : pc[t] \in Inside /\ c = B(t) => Items(c)' /\ Once(c)' /\ Packed(c)'
  BY <1>13, <1>14, <1>15
<1>20. pc[t] \in Inside \cup { "release" }
  OBVIOUS
<1> QED
  BY <1>2, <1>3, <1>4, <1>5, <1>6, <1>7, <1>16, <1>17, <1>18, <1>19, <1>20, ChainStep

\* What is so of the bucket in a thread's hand.
LEMMA HandMoves ==
  ASSUME IInv, NEW t \in Threads, pc[t] \in Handing, NEW b \in Main, NEW h, h = hand[t]
  PROVE  /\ h \in Extra /\ h # Nil /\ Moves(t, b, h)
         /\ \A c \in Main : h \notin Linked(c)
         /\ pc[t] = "unlink" => h = free
         /\ pc[t] # "unlink" => h \notin FreeOnes
         /\ pc[t] = "link" => next[h] = Nil
         /\ pc[t] \in { "head", "head again" } => next[h] = free
<1>1. HandOK(t)
  BY DEF IInv, Hands
<1>2. h \in Extra /\ h # Nil /\ h \in Buckets
  <2>1. hand[t] \in Extra \cup {Nil} /\ hand[t] # Nil
    BY <1>1 DEF IInv, Types, HandOK
  <2> QED
    BY <2>1, BucketIds
<1>3. \A c \in Main : h \notin Linked(c)
  BY <1>1 DEF HandOK
<1>4. \A i \in Indices : slots[h][i] = Nil
  BY <1>2, <1>3 DEF IInv, Cover
<1>5. \A u \in Threads : u # t => hand[u] # h
  BY <1>2 DEF IInv, Hands
<1>6. Moves(t, b, h)
  BY <1>3, <1>4, <1>5 DEF Moves
<1> QED
  BY <1>1, <1>2, <1>3, <1>6 DEF HandOK

\* Nobody is at the free list but the thread that has its lock.
LEMMA AtListAlone ==
  ASSUME IInv, NEW t \in Threads, flock = t \/ flock = Nobody
  PROVE  \A u \in Threads : u # t => pc[u] \notin AtList
BY ChainsAssumption DEF IInv, Locks

\* alloc_extra_bucket() takes the head of the free list.
LEMMA StepGrowTake ==
  ASSUME IInv, NEW t \in Threads, setting' = setting, GrowTake(t)
  PROVE  IInv'
<1>0. PICK h : h = free
  OBVIOUS
<1>1. /\ pc[t] = "grow" /\ pc' = [pc EXCEPT ![t] = "unlink"] /\ flock = Nobody /\ h # Nil
      /\ flock' = t /\ hand' = [hand EXCEPT ![t] = h]
      /\ next' = next /\ slots' = slots /\ free' = free
      /\ UNCHANGED <<locked, slots, pool, call, item, old, same, buf, cur>> /\ loc' = loc
  BY <1>0 DEF GrowTake, At, Goto
<1>2. /\ pc[t] \in Inside \ { "publish", "moved" } /\ pc[t] \in Inside /\ pc[t] \in Growing
      /\ pc[t] \notin Handing \cup Inserting \cup { "unlock", "release" }
      /\ "unlink" \in Inside \ { "publish", "moved" } /\ "unlink" \in Growing
      /\ "unlink" \in Handing /\ "unlink" \notin Inserting \cup Filling
  BY <1>1 DEF Inside, Handing, Freeing, Filling, Inserting, Growing
<1>3. Types /\ Mut(t) /\ CallOK(t) /\ HandOK(t) /\ \A u \in Threads : HandOK(u)
  BY DEF IInv, Hands
<1>4. PICK b \in Main : b = B(t)
  BY <1>2, MyChain
<1>5. /\ next \in Links /\ \A c \in Main : Good(next, c) /\ Linked(c) = MembersOf(next, c)
      /\ Good(next, h) /\ Linked(b) \subseteq Buckets
  BY <1>0, <1>1, ListsGood
<1>6. h \in FreeOnes /\ h \in Extra /\ h \in Buckets /\ FreeOnes = Frees(next, free)
  <2>1. h \in MembersOf(next, h)
    BY <1>5, ChainClosed
  <2> QED
    BY <1>0, <1>1, <1>3, <2>1, After, BucketIds DEF Frees, Types
<1>7. \A c \in Main : h \notin Linked(c)
  BY <1>6 DEF IInv, Apart
<1>8. \A u \in Threads : u # t => pc[u] \notin AtList
  BY <1>1, AtListAlone
<1>9. Moves(t, b, h)
  <2>1. \A i \in Indices : slots[h][i] = Nil
    BY <1>6, <1>7 DEF IInv, Cover
  <2>2. \A u \in Threads : u # t => hand[u] # h
    <3> SUFFICES ASSUME NEW u \in Threads, u # t, hand[u] = h PROVE FALSE
      OBVIOUS
    <3>1. pc[u] \in Handing \ {"unlink"}
      BY <1>1, <1>3, <1>8 DEF HandOK, AtList
    <3> QED
      BY <1>3, <1>6, <3>1 DEF HandOK
  <2>3. hand[t] = Nil
    BY <1>2, <1>3 DEF HandOK
  <2> QED
    BY <1>7, <2>1, <2>2, <2>3 DEF Moves
<1>10. pc'[t] = "unlink" /\ hand'[t] = h
  BY <1>1, <1>3 DEF Types
<1>11. Moved(t, b, h)
  <2>1. MembersOf(next', b) = Linked(b) /\ Frees(next', free') = FreeOnes
    BY <1>1, <1>5, <1>6
  <2>2. "unlink" \notin { "link", "head", "head again" }
    OBVIOUS
  <2> QED
    BY <1>0, <1>1, <1>2, <1>6, <1>7, <1>10, <2>1 DEF Moved
<1>12. loc' = [loc EXCEPT ![t] = loc[t]] /\ loc[t] \in [b : Buckets \cup {Nil}, i : Nat]
  BY <1>1, <1>3 DEF Types
<1>13. /\ Placed(t) /\ next[loc[t].b] = Nil /\ cur[Key(t)] = Nil
       /\ \A x \in Linked(b), i \in Indices : slots[x][i] # Nil
       /\ old[t] = Nil
  BY <1>2, <1>3, <1>4 DEF Mut
<1>14. \A x \in MembersOf(next', b), i \in Indices : ~(next'[x] # Nil /\ slots[x][i] = Nil)
  BY <1>1, <1>5, <1>13
<1>15. Mut(t)'
  <2>1. B(t)' = B(t) /\ Key(t)' = Key(t)
    BY <1>1 DEF B, Key
  <2>2. Linked(B(t))' = Linked(b)
    <3>1. Chain(B(t))' = Chain(b)
      BY <1>1, <1>4, <2>1 DEF Chain
    <3> QED
      BY <3>1 DEF Linked
  <2>3. Placed(t)'
    BY <1>1, <1>4, <1>13, <2>2 DEF Placed
  <2>4. \A s \in {pc'[t]} : s \notin Inserting \cup Filling \cup { "unlock", "release", "moved", "detach" }
    BY <1>2, <1>10
  <2> QED
    BY <1>1, <1>13, <2>1, <2>2, <2>3, <2>4 DEF Mut
<1>16. free' # Nil => Good(next', free')
  BY <1>0, <1>1, <1>5
<1>17. /\ h \in Extra \cup {Nil} /\ next' \in Links /\ free' \in Extra \cup {Nil} /\ Good(next', b)
       /\ \A c \in Main : c # b => \A x \in Linked(c) : next'[x] = next[x]
  BY <1>0, <1>1, <1>5, <1>6
<1>18. /\ call[t].op # "del" /\ flock' = t
       /\ \A u \in Threads : u # t /\ pc[u] \in AtList =>
            flock' = u /\ free' = free /\ next'[hand[u]] = next[hand[u]]
  BY <1>1, <1>2, <1>3, <1>8 DEF CallOK
<1>19. /\ UNCHANGED <<locked, slots, pool, call, item, old, same, buf, cur>>
       /\ pc' = [pc EXCEPT ![t] = "unlink"] /\ hand' = [hand EXCEPT ![t] = h]
       /\ old[t] = Nil
  BY <1>1, <1>13
<1>20. Types' /\ \A u \in Threads : u # t => Stay(u)
  <2>1. "unlink" \in PCs
    BY <1>2 DEF PCs
  <2> QED
    BY <1>1, <1>3, <1>6, <2>1 DEF Types, Stay, pool
<1>21. /\ pc'[t] \in Inside \ { "publish", "moved" }
       /\ pc'[t] \in Inserting \cup Growing => call[t].op # "del"
       /\ pc'[t] \in AtList => flock' = t
  BY <1>2, <1>10, <1>18
<1>22. /\ b = B(t) /\ h \in Extra /\ pc[t] \in Inside \ { "publish", "moved" }
  BY <1>2, <1>4, <1>6
<1>23. \A x \in MembersOf(next', b), i \in Indices : next'[x] # Nil /\ slots[x][i] = Nil =>
         pc'[t] \in Filling /\ loc'[t].b = x /\ loc'[t].i = i
  BY <1>14
<1> QED
  BY <1>9, <1>11, <1>15, <1>16, <1>17, <1>18, <1>19, <1>20, <1>21, <1>22, <1>23, LinkStep

\* ... takes it off the list,
LEMMA StepGrowUnlink ==
  ASSUME IInv, NEW t \in Threads, setting' = setting, GrowUnlink(t)
  PROVE  IInv'
<1>0. PICK h, lb : h = hand[t] /\ lb = loc[t].b
  OBVIOUS
<1>1. /\ pc[t] = "unlink" /\ pc' = [pc EXCEPT ![t] = "link"]
      /\ free' = next[h] /\ next' = [next EXCEPT ![h] = Nil]
      /\ UNCHANGED <<locked, slots, pool, call, item, old, same, buf, cur>>
      /\ flock' = flock /\ loc' = loc /\ hand' = hand /\ slots' = slots
  BY <1>0 DEF GrowUnlink, At, Goto, locals
<1>2. /\ pc[t] \in Inside \ { "publish", "moved" } /\ pc[t] \in Inside /\ pc[t] \in Growing
      /\ pc[t] \in Handing /\ pc[t] \in AtList
      /\ "link" \in Inside \ { "publish", "moved" } /\ "link" \in Growing /\ "link" \in AtList
      /\ "link" \in Handing /\ pc[t] \notin Inserting \cup { "unlock", "release" }
      /\ "link" \notin Inserting \cup Filling \cup { "unlock", "release", "moved", "detach" }
  BY <1>1 DEF Inside, Handing, Freeing, Filling, Inserting, Growing, AtList
<1>3. Types /\ Mut(t) /\ CallOK(t) /\ flock = t
  BY <1>2 DEF IInv, Locks
<1>4. PICK b \in Main : b = B(t)
  BY <1>2, MyChain
<1>5. /\ next \in Links /\ \A c \in Main : Good(next, c) /\ Linked(c) = MembersOf(next, c)
      /\ Linked(b) \subseteq Buckets
  BY ListsGood
<1>6. /\ h \in Extra /\ h # Nil /\ Moves(t, b, h) /\ h = free /\ \A c \in Main : h \notin Linked(c)
  BY <1>0, <1>1, <1>2, HandMoves
<1>7. /\ next' \in Links /\ next[h] \in Extra \cup {Nil} /\ h \in Buckets /\ next'[h] = Nil
      /\ \A x : x \in Buckets /\ x # h => next'[x] = next[x]
  <2>1. h \in Buckets
    BY <1>6, BucketIds
  <2> QED
    BY <1>1, <1>5, <2>1 DEF Links
<1>8. Good(next, h) /\ FreeOnes = MembersOf(next, h)
  BY <1>6, ListsGood, After DEF Frees
<1>9. Good(next', b) /\ MembersOf(next', b) = Linked(b)
  <2>1. Good(next, b) /\ Linked(b) = MembersOf(next, b)
    BY <1>5
  <2>2. \A x \in MembersOf(next, b) : next'[x] = next[x]
    BY <1>5, <1>6, <1>7, <2>1
  <2> QED
    BY <1>5, <1>7, <2>1, <2>2, ChainStays
<1>10. /\ free' # Nil => Good(next', free')
       /\ Frees(next', free') = FreeOnes \ {h}
  <2>1. CASE next[h] = Nil
    <3>1. MembersOf(next, h) = {h}
      BY <1>5, <1>7, <2>1, ChainOfOne
    <3> QED
      BY <1>1, <1>8, <2>1, <3>1 DEF Frees
  <2>2. CASE next[h] # Nil
    <3>1. \A x \in MembersOf(next, h) : x # h => next'[x] = next[x]
      BY <1>5, <1>7, <1>8, ChainClosed
    <3>2. Good(next', next[h]) /\ MembersOf(next', next[h]) = MembersOf(next, h) \ {h}
      BY <1>5, <1>7, <1>8, <2>2, <3>1, ChainBehind
    <3> QED
      BY <1>1, <1>8, <2>2, <3>2 DEF Frees
  <2> QED
    BY <2>1, <2>2
<1>11. pc'[t] = "link" /\ hand'[t] = h
  BY <1>0, <1>1, <1>3 DEF Types
<1>12. Moved(t, b, h)
  <2>1. "link" \notin { "unlink", "head", "head again" }
    OBVIOUS
  <2> QED
    BY <1>2, <1>6, <1>7, <1>9, <1>10, <1>11, <2>1 DEF Moved
<1>13. /\ Placed(t) /\ next[lb] = Nil /\ cur[Key(t)] = Nil
       /\ \A x \in Linked(b), i \in Indices : slots[x][i] # Nil
       /\ old[t] = Nil /\ lb \in Linked(b) /\ loc[t].i \in Indices
  <2>1. /\ Placed(t) /\ next[loc[t].b] = Nil /\ cur[Key(t)] = Nil
        /\ \A x \in Linked(B(t)), i \in Indices : slots[x][i] # Nil
        /\ old[t] = Nil
    BY <1>2, <1>3 DEF Mut
  <2> QED
    BY <1>0, <1>4, <2>1 DEF Placed
<1>14. Types' /\ \A u \in Threads : u # t => Stay(u)
  <2>1. "link" \in PCs
    BY <1>2 DEF PCs
  <2> QED
    BY <1>1, <1>3, <1>7, <2>1 DEF Types, Stay, pool, Links
<1>15. Mut(t)'
  <2>1. B(t)' = B(t) /\ Key(t)' = Key(t)
    BY <1>1 DEF B, Key
  <2>2. Linked(B(t))' = Linked(b)
    <3>1. Chain(B(t))' = ChainOf(next', b)
      BY <1>4, <2>1 DEF Chain, ChainOf
    <3> QED
      BY <1>9, <3>1 DEF Linked, MembersOf
  <2>3. Placed(t)' /\ next'[loc'[t].b] = Nil
    BY <1>0, <1>1, <1>6, <1>7, <1>5, <1>13, <2>2 DEF Placed
  <2>4. \A s \in {pc'[t]} : s \notin Inserting \cup Filling \cup { "unlock", "release", "moved", "detach" }
    BY <1>2, <1>11
  <2> QED
    BY <1>1, <1>13, <2>1, <2>2, <2>3, <2>4 DEF Mut
<1>16. \A x \in MembersOf(next', b), i \in Indices : next'[x] # Nil /\ slots[x][i] = Nil =>
         pc'[t] \in Filling /\ loc'[t].b = x /\ loc'[t].i = i
  BY <1>9, <1>13
<1>17. \A c \in Main : c # b => \A x \in Linked(c) : next'[x] = next[x]
  BY <1>6, <1>7, ListsGood
<1>18. \A u \in Threads : u # t /\ pc[u] \in AtList =>
         flock' = u /\ free' = free /\ next'[hand[u]] = next[hand[u]]
  BY <1>3, AtListAlone
<1>19. /\ pc'[t] \in Inside \ { "publish", "moved" }
       /\ pc'[t] \in Inserting \cup Growing => call[t].op # "del"
       /\ pc'[t] \in AtList => flock' = t
  BY <1>1, <1>2, <1>3, <1>11 DEF CallOK
<1> QED
  BY <1>1, <1>2, <1>4, <1>6, <1>9, <1>10, <1>12, <1>13, <1>14, <1>15, <1>16, <1>17, <1>18, <1>19, LinkStep

\* ... and links it to the end of the chain.
LEMMA StepGrowLink ==
  ASSUME IInv, NEW t \in Threads, setting' = setting, GrowLink(t)
  PROVE  IInv'
<1>0. PICK h, lb : h = hand[t] /\ lb = loc[t].b
  OBVIOUS
<1>1. /\ pc[t] = "link" /\ pc' = [pc EXCEPT ![t] = "allocate"]
      /\ free' = free /\ next' = [next EXCEPT ![lb] = h]
      /\ UNCHANGED <<locked, slots, pool, call, item, old, same, buf, cur>>
      /\ flock' = Nobody /\ loc' = [loc EXCEPT ![t] = Start(h)]
      /\ hand' = [hand EXCEPT ![t] = Nil] /\ slots' = slots /\ old' = old
  BY <1>0 DEF GrowLink, At, Goto
<1>2. /\ pc[t] \in Inside \ { "publish", "moved" } /\ pc[t] \in Inside /\ pc[t] \in Growing
      /\ pc[t] \in Handing /\ pc[t] \in AtList
      /\ "allocate" \in Inside \ { "publish", "moved" } /\ "allocate" \in Inserting
      /\ pc[t] \notin Inserting \cup { "unlock", "release" }
      /\ "allocate" \notin Handing \cup AtList \cup Growing \cup Filling
      /\ "allocate" \notin { "unlock", "release", "moved", "detach" }
  BY <1>1 DEF Inside, Handing, Freeing, Filling, Inserting, Growing, AtList
<1>3. Types /\ Mut(t) /\ CallOK(t) /\ flock = t
  BY <1>2 DEF IInv, Locks
<1>4. PICK b \in Main : b = B(t)
  BY <1>2, MyChain
<1>5. /\ next \in Links /\ \A c \in Main : Good(next, c) /\ Linked(c) = MembersOf(next, c)
      /\ \A c \in Main : Linked(c) \subseteq Buckets
  BY ListsGood
<1>6. /\ h \in Extra /\ h # Nil /\ Moves(t, b, h) /\ \A c \in Main : h \notin Linked(c)
      /\ h \notin FreeOnes /\ next[h] = Nil /\ h \in Buckets
  <2>1. pc[t] \in Handing /\ pc[t] # "unlink" /\ pc[t] = "link"
    BY <1>1, <1>2
  <2> QED
    BY <1>0, <2>1, HandMoves, BucketIds
<1>7. /\ Placed(t) /\ next[lb] = Nil /\ cur[Key(t)] = Nil
      /\ \A x \in Linked(b), i \in Indices : slots[x][i] # Nil
      /\ old[t] = Nil /\ lb \in Linked(b) /\ lb \in Buckets /\ lb # h
  <2>1. /\ Placed(t) /\ next[loc[t].b] = Nil /\ cur[Key(t)] = Nil
        /\ \A x \in Linked(B(t)), i \in Indices : slots[x][i] # Nil
        /\ old[t] = Nil
    BY <1>2, <1>3 DEF Mut
  <2>2. lb \in Linked(b) /\ b \in Main
    BY <1>0, <1>4, <2>1 DEF Placed
  <2> QED
    BY <1>0, <1>4, <1>5, <1>6, <2>1, <2>2
<1>8. /\ next' \in Links /\ next'[lb] = h /\ next'[h] = Nil
      /\ \A x : x \in Buckets /\ x # lb => next'[x] = next[x]
  BY <1>1, <1>5, <1>6, <1>7 DEF Links
<1>9. Good(next', b) /\ MembersOf(next', b) = Linked(b) \cup {h}
  <2>1. Good(next, b) /\ Linked(b) = MembersOf(next, b) /\ lb \in MembersOf(next, b)
    BY <1>5, <1>7
  <2>2. \A x \in MembersOf(next, b) : x # lb => next'[x] = next[x]
    BY <1>5, <1>8, <2>1
  <2> QED
    BY <1>5, <1>6, <1>7, <1>8, <2>1, <2>2, ChainGrows
<1>10. lb \notin FreeOnes
  BY <1>7 DEF IInv, Apart
<1>11. /\ free' # Nil => Good(next', free')
       /\ Frees(next', free') = FreeOnes
  <2>1. CASE free = Nil
    BY <1>1, <2>1, After DEF Frees
  <2>2. CASE free # Nil
    <3>1. Good(next, free) /\ FreeOnes = MembersOf(next, free)
      BY <2>2, ListsGood, After DEF Frees
    <3>2. \A x \in MembersOf(next, free) : next'[x] = next[x]
      BY <1>5, <1>8, <1>10, <3>1, ChainClosed
    <3>3. Good(next', free) /\ MembersOf(next', free) = MembersOf(next, free)
      BY <1>5, <1>8, <3>1, <3>2, ChainStays
    <3> QED
      BY <1>1, <2>2, <3>1, <3>3 DEF Frees
  <2> QED
    BY <2>1, <2>2
<1>12. pc'[t] = "allocate" /\ hand'[t] = Nil /\ loc'[t] = Start(h)
  BY <1>1, <1>3 DEF Types
<1>13. Moved(t, b, h)
  <2>1. "allocate" \notin { "unlink", "link", "head", "head again" }
    OBVIOUS
  <2> QED
    BY <1>2, <1>6, <1>9, <1>11, <1>12, <2>1 DEF Moved
<1>14. Types' /\ \A u \in Threads : u # t => Stay(u)
  <2>1. "allocate" \in PCs
    BY <1>2 DEF PCs
  <2>2. Start(h) \in [b : Buckets \cup {Nil}, i : Nat]
    BY <1>6 DEF Start
  <2> QED
    BY <1>1, <1>3, <1>8, <2>1, <2>2 DEF Types, Stay, pool, Links
<1>15. Mut(t)'
  <2>1. B(t)' = B(t) /\ Key(t)' = Key(t)
    BY <1>1 DEF B, Key
  <2>2. Linked(B(t))' = Linked(b) \cup {h}
    <3>1. Chain(B(t))' = ChainOf(next', b)
      BY <1>4, <2>1 DEF Chain, ChainOf
    <3> QED
      BY <1>9, <3>1 DEF Linked, MembersOf
  <2>3. loc'[t].b = h /\ loc'[t].i = 1
    BY <1>12 DEF Start
  <2>4. Placed(t)'
    BY <2>2, <2>3, BucketIds DEF Placed
  <2>5. AtLoc(t)' = Nil
    <3>1. slots[h][1] = Nil
      BY <1>6, BucketIds DEF Moves
    <3> QED
      BY <1>1, <2>3, <3>1 DEF AtLoc
  <2>6. \A s \in {pc'[t]} : s \notin Growing \cup Filling \cup { "unlock", "release", "moved", "detach" }
    BY <1>2, <1>12
  <2> QED
    BY <1>1, <1>7, <2>1, <2>4, <2>5, <2>6 DEF Mut
<1>16. \A x \in MembersOf(next', b), i \in Indices : next'[x] # Nil /\ slots[x][i] = Nil =>
         pc'[t] \in Filling /\ loc'[t].b = x /\ loc'[t].i = i
  BY <1>7, <1>8, <1>9
<1>17. \A c \in Main : c # b => \A x \in Linked(c) : next'[x] = next[x]
  <2>1. \A c \in Main : c # b => lb \notin Linked(c)
    BY <1>7 DEF IInv, Apart
  <2> QED
    BY <1>5, <1>8, <2>1
<1>18. \A u \in Threads : u # t /\ pc[u] \in AtList =>
         flock' = u /\ free' = free /\ next'[hand[u]] = next[hand[u]]
  BY <1>3, AtListAlone
<1>19. /\ pc'[t] \in Inside \ { "publish", "moved" }
       /\ pc'[t] \in Inserting \cup Growing => call[t].op # "del"
       /\ pc'[t] \in AtList => flock' = t
  BY <1>1, <1>2, <1>3, <1>12 DEF CallOK
<1> QED
  BY <1>1, <1>2, <1>4, <1>6, <1>7, <1>9, <1>11, <1>13, <1>14, <1>15, <1>16, <1>17, <1>18, <1>19, LinkStep

\* fill_hole() detaches the bucket at the end of the chain.
LEMMA StepDetach ==
  ASSUME IInv, NEW t \in Threads, setting' = setting, FillAgain(t) \/ FreeDetach(t)
  PROVE  IInv'
<1>0. PICK h, lb, p, l : /\ h = LastOf(Chain(loc[t].b)) /\ lb = loc[t].b /\ p = Previous(t)
                         /\ l = IF pc[t] = "fill" THEN "push again" ELSE "push"
  OBVIOUS
<1>1. /\ pc[t] \in { "fill", "detach" } /\ pc' = [pc EXCEPT ![t] = l]
      /\ hand' = [hand EXCEPT ![t] = next[p]] /\ next' = [next EXCEPT ![p] = Nil]
      /\ UNCHANGED <<locked, slots, pool, call, item, old, same, buf, cur>>
      /\ free' = free /\ flock' = flock /\ loc' = loc /\ slots' = slots
      /\ pc[t] = "fill" => next[lb] # Nil /\ Used(h) = {}
  BY <1>0 DEF FillAgain, FreeDetach, At, Goto
<1>2. /\ pc[t] \in Inside \ { "publish", "moved" } /\ pc[t] \in Inside /\ pc[t] \notin Handing
      /\ pc[t] \notin Inserting \cup Growing \cup { "unlock", "release" }
      /\ pc[t] = "fill" => pc[t] \in Filling
      /\ l \in Inside \ { "publish", "moved" } /\ l \in Handing /\ l \in Freeing /\ l \notin AtList
      /\ l \notin Inserting \cup Growing
      /\ l \notin { "unlock", "release", "moved", "detach", "unlink", "link", "head", "head again" }
      /\ l \in Filling => pc[t] = "fill"
      /\ pc[t] = "fill" => l \in Filling
  BY <1>0, <1>1 DEF Inside, Handing, Freeing, Filling, Inserting, Growing, AtList
<1>3. Types /\ Mut(t) /\ CallOK(t) /\ HandOK(t)
  BY DEF IInv, Hands
<1>4. PICK b \in Main : b = B(t)
  BY <1>2, MyChain
<1>5. /\ next \in Links /\ \A c \in Main : Good(next, c) /\ Linked(c) = MembersOf(next, c)
      /\ \A c \in Main : Linked(c) \subseteq Buckets
  BY ListsGood
<1>6. /\ Placed(t) /\ next[lb] # Nil /\ old[t] = Nil /\ hand[t] = Nil
      /\ pc[t] = "fill" => AtLoc(t) = Nil
      /\ pc[t] = "detach" => \A x \in Linked(b), i \in Indices : next[x] = Nil => slots[x][i] = Nil
  <2>1. /\ Placed(t) /\ old[t] = Nil
        /\ pc[t] = "fill" => AtLoc(t) = Nil
        /\ pc[t] = "detach" => next[loc[t].b] # Nil
        /\ pc[t] = "detach" =>
             \A x \in Linked(B(t)), i \in Indices : next[x] = Nil => slots[x][i] = Nil
    BY <1>1, <1>2, <1>3 DEF Mut
  <2>2. hand[t] = Nil
    BY <1>2, <1>3 DEF HandOK
  <2> QED
    BY <1>0, <1>1, <1>4, <2>1, <2>2
<1>7. /\ lb \in Linked(b) /\ loc[t].i \in Indices
      /\ h \in Linked(b) /\ next[h] = Nil /\ h \in Buckets /\ h \in Extra /\ h # Nil /\ lb # h
      /\ p \in Linked(b) /\ p \in Buckets /\ next[p] = h /\ p # h
      /\ \A y \in Linked(b) : next[y] = Nil => y = h
      /\ \A y \in Linked(b) : next[y] = h => y = p
  <2>1. /\ h \in Linked(b) /\ next[h] = Nil /\ h \in Buckets /\ h \in Extra /\ lb # h
        /\ p \in Linked(b) /\ next[p] = h /\ p # h
        /\ \A y \in Linked(b) : next[y] = Nil => y = h
        /\ \A y \in Linked(b) : next[y] = h => y = p
    BY <1>0, <1>2, <1>4, <1>6, MyLast
  <2>2. lb \in Linked(b) /\ loc[t].i \in Indices
    BY <1>0, <1>4, <1>6 DEF Placed
  <2>3. h # Nil
    BY <2>1, BucketIds
  <2> QED
    BY <1>5, <2>1, <2>2, <2>3
<1>8. /\ next' \in Links /\ next'[p] = Nil
      /\ \A x : x \in Buckets /\ x # p => next'[x] = next[x]
  BY <1>1, <1>5, <1>7 DEF Links
<1>9. Good(next', b) /\ MembersOf(next', b) = Linked(b) \ {h}
  <2>1. /\ Good(next, b) /\ Linked(b) = MembersOf(next, b)
        /\ p \in MembersOf(next, b) /\ h \in MembersOf(next, b)
    BY <1>5, <1>7
  <2>2. \A x \in MembersOf(next, b) : x # p => next'[x] = next[x]
    BY <1>5, <1>8, <2>1
  <2> QED
    BY <1>5, <1>7, <1>8, <2>1, <2>2, ChainShrinks
<1>10. p \notin FreeOnes /\ h \notin FreeOnes /\ \A c \in Main : c # b => p \notin Linked(c) /\ h \notin Linked(c)
  BY <1>7 DEF IInv, Apart
<1>11. /\ free' # Nil => Good(next', free')
       /\ Frees(next', free') = FreeOnes
  <2>1. CASE free = Nil
    BY <1>1, <2>1, After DEF Frees
  <2>2. CASE free # Nil
    <3>1. Good(next, free) /\ FreeOnes = MembersOf(next, free)
      BY <2>2, ListsGood, After DEF Frees
    <3>2. \A x \in MembersOf(next, free) : next'[x] = next[x]
      BY <1>5, <1>8, <1>10, <3>1, ChainClosed
    <3>3. Good(next', free) /\ MembersOf(next', free) = MembersOf(next, free)
      BY <1>5, <1>8, <3>1, <3>2, ChainStays
    <3> QED
      BY <1>1, <2>2, <3>1, <3>3 DEF Frees
  <2> QED
    BY <2>1, <2>2
<1>12. pc'[t] = l /\ hand'[t] = h
  BY <1>1, <1>3, <1>7 DEF Types
<1>13. \A i \in Indices : slots[h][i] = Nil
  <2>1. CASE pc[t] = "fill"
    BY <1>1, <2>1 DEF Used
  <2>2. CASE pc[t] = "detach"
    BY <1>6, <1>7, <2>2
  <2> QED
    BY <1>1, <2>1, <2>2
<1>14. Moves(t, b, h)
  <2>1. \A u \in Threads : hand[u] # h
    BY <1>7 DEF IInv, Hands, HandOK
  <2> QED
    BY <1>6, <1>10, <1>13, <2>1 DEF Moves
<1>15. Moved(t, b, h)
  BY <1>2, <1>7, <1>9, <1>10, <1>11, <1>12 DEF Moved
<1>16. Types' /\ \A u \in Threads : u # t => Stay(u)
  <2>1. l \in PCs
    BY <1>2 DEF PCs
  <2> QED
    BY <1>1, <1>3, <1>7, <1>8, <2>1 DEF Types, Stay, pool, Links
<1>17. Mut(t)'
  <2>1. B(t)' = B(t) /\ Key(t)' = Key(t)
    BY <1>1 DEF B, Key
  <2>2. Linked(B(t))' = Linked(b) \ {h}
    <3>1. Chain(B(t))' = ChainOf(next', b)
      BY <1>4, <2>1 DEF Chain, ChainOf
    <3> QED
      BY <1>9, <3>1 DEF Linked, MembersOf
  <2>3. loc'[t].b = lb /\ loc'[t].i = loc[t].i
    BY <1>0, <1>1
  <2>4. Placed(t)'
    BY <1>7, <2>2, <2>3 DEF Placed
  <2>5. AtLoc(t)' = AtLoc(t)
    BY <1>1 DEF AtLoc
  <2>6. \A s \in {pc'[t]} : s \notin Inserting \cup Growing \cup { "unlock", "release", "moved", "detach" }
    BY <1>2, <1>12
  <2>7. pc'[t] \in Filling => pc[t] = "fill"
    BY <1>2, <1>12
  <2> QED
    BY <1>1, <1>6, <2>1, <2>4, <2>5, <2>6, <2>7 DEF Mut
<1>18. ASSUME NEW x \in MembersOf(next', b), NEW i \in Indices, next'[x] # Nil, slots[x][i] = Nil
       PROVE  pc'[t] \in Filling /\ loc'[t].b = x /\ loc'[t].i = i
  <2>1. x \in Linked(b) /\ next[x] # Nil
    BY <1>5, <1>8, <1>9, <1>18
  <2>2. Packed(b)
    BY DEF IInv
  <2>3. PICK u \in Threads : pc[u] \in Filling /\ B(u) = b /\ IsAt(u, x, i)
    BY <1>18, <2>1, <2>2 DEF Packed
  <2>4. u = t
    <3>1. pc[u] \in Inside
      BY <2>3 DEF Inside
    <3> QED
      BY <1>2, <1>4, <2>3, <3>1 DEF IInv, Locks
  <2>5. pc[t] = "fill"
    <3>1. "detach" \notin Filling
      BY DEF Filling
    <3> QED
      BY <1>1, <2>3, <2>4, <3>1
  <2> QED
    BY <1>1, <1>2, <1>12, <2>3, <2>4, <2>5 DEF IsAt
<1>19. \A c \in Main : c # b => \A x \in Linked(c) : next'[x] = next[x]
  BY <1>5, <1>8, <1>10
<1>20. \A u \in Threads : u # t /\ pc[u] \in AtList =>
         flock' = u /\ free' = free /\ next'[hand[u]] = next[hand[u]]
  <2>1. \A u \in Threads : pc[u] \in AtList => flock = u
    BY DEF IInv, Locks
  <2>2. \A u \in Threads : pc[u] \in AtList => hand[u] \in Extra /\ hand[u] \in Buckets
    <3>1. AtList \subseteq Handing
      BY DEF AtList, Handing, Freeing
    <3>2. \A u \in Threads : HandOK(u) /\ hand[u] \in Extra \cup {Nil}
      BY <1>3 DEF IInv, Hands, Types
    <3> QED
      BY <3>1, <3>2, BucketIds DEF HandOK
  <2>3. \A u \in Threads : hand[u] # p
    BY <1>7 DEF IInv, Hands, HandOK
  <2> QED
    BY <1>1, <1>8, <2>1, <2>2, <2>3
<1>21. /\ pc'[t] \in Inside \ { "publish", "moved" }
       /\ pc'[t] \in Inserting \cup Growing => call[t].op # "del"
       /\ pc'[t] \in AtList => flock' = t
  BY <1>2, <1>12
<1>22. \A x \in MembersOf(next', b), i \in Indices : next'[x] # Nil /\ slots[x][i] = Nil =>
         pc'[t] \in Filling /\ loc'[t].b = x /\ loc'[t].i = i
  BY <1>18
<1>23. /\ b = B(t) /\ h \in Extra /\ old[t] = Nil /\ pc[t] \in Inside \ { "publish", "moved" }
       /\ Good(next', b) /\ (free' # Nil => Good(next', free'))
       /\ UNCHANGED <<locked, slots, pool, call, item, old, same, buf, cur>>
  BY <1>1, <1>2, <1>4, <1>6, <1>7, <1>9, <1>11
<1> QED
  BY <1>14, <1>15, <1>16, <1>17, <1>19, <1>20, <1>21, <1>22, <1>23, LinkStep

\* A hole in a chain that a thread has locked is the one that it fills.
LEMMA MyHole ==
  ASSUME IInv, NEW t \in Threads, pc[t] \in Inside, NEW b, b = B(t), NEW x \in Linked(b),
         NEW i \in Indices, next[x] # Nil, slots[x][i] = Nil
  PROVE  pc[t] \in Filling /\ IsAt(t, x, i)
<1>1. Packed(b)
  BY MyChain
<1>2. PICK u \in Threads : pc[u] \in Filling /\ B(u) = b /\ IsAt(u, x, i)
  BY <1>1 DEF Packed
<1>3. pc[u] \in Inside
  BY <1>2 DEF Inside
<1>4. u = t
  BY <1>2, <1>3 DEF IInv, Locks
<1> QED
  BY <1>2, <1>4

\* free_extra_bucket() takes the lock of the free list.
LEMMA StepFreeLock ==
  ASSUME IInv, NEW t \in Threads, setting' = setting, FreeLock(t)
  PROVE  IInv'
<1>0. PICK h, lb, l : /\ h = hand[t] /\ lb = loc[t].b
                      /\ l = IF pc[t] = "push" THEN "head" ELSE "head again"
  OBVIOUS
<1>1. /\ pc[t] \in { "push", "push again" } /\ pc' = [pc EXCEPT ![t] = l]
      /\ next' = [next EXCEPT ![h] = free] /\ flock = Nobody /\ flock' = t
      /\ UNCHANGED <<locked, slots, pool, call, item, old, same, buf, cur>>
      /\ free' = free /\ loc' = loc /\ slots' = slots /\ hand' = hand
  BY <1>0 DEF FreeLock, At, Goto, locals
<1>2. /\ pc[t] \in Inside \ { "publish", "moved" } /\ pc[t] \in Inside /\ pc[t] \in Handing
      /\ pc[t] # "unlink"
      /\ pc[t] \notin Inserting \cup { "unlock", "release" }
      /\ l \in Inside \ { "publish", "moved" } /\ l \in Handing
      /\ l \notin Inserting \cup Growing
      /\ l \notin { "unlock", "release", "moved", "detach", "unlink", "link" }
      /\ (l \in Filling) <=> (pc[t] \in Filling)
  BY <1>0, <1>1 DEF Inside, Handing, Freeing, Filling, Inserting, Growing, AtList
<1>3. Types /\ Mut(t) /\ CallOK(t)
  BY DEF IInv
<1>4. PICK b \in Main : b = B(t)
  BY <1>2, MyChain
<1>5. /\ next \in Links /\ \A c \in Main : Good(next, c) /\ Linked(c) = MembersOf(next, c)
      /\ \A c \in Main : Linked(c) \subseteq Buckets
  BY ListsGood
<1>6. /\ h \in Extra /\ h # Nil /\ Moves(t, b, h) /\ \A c \in Main : h \notin Linked(c)
      /\ h \notin FreeOnes /\ h \in Buckets
  BY <1>0, <1>2, HandMoves, BucketIds
<1>7. /\ next' \in Links /\ next'[h] = free
      /\ \A x : x \in Buckets /\ x # h => next'[x] = next[x]
  <2>1. free \in Extra \cup {Nil}
    BY <1>3 DEF Types
  <2> QED
    BY <1>1, <1>5, <1>6, <2>1 DEF Links
<1>8. \A c \in Main : \A x \in Linked(c) : next'[x] = next[x]
  BY <1>5, <1>6, <1>7
<1>9. Good(next', b) /\ MembersOf(next', b) = Linked(b)
  <2>1. Good(next, b) /\ Linked(b) = MembersOf(next, b)
    BY <1>5
  <2> QED
    BY <1>5, <1>7, <1>8, <2>1, ChainStays
<1>10. /\ free' # Nil => Good(next', free')
       /\ Frees(next', free') = FreeOnes
  <2>1. CASE free = Nil
    BY <1>1, <2>1, After DEF Frees
  <2>2. CASE free # Nil
    <3>1. Good(next, free) /\ FreeOnes = MembersOf(next, free)
      BY <2>2, ListsGood, After DEF Frees
    <3>2. \A x \in MembersOf(next, free) : next'[x] = next[x]
      BY <1>5, <1>6, <1>7, <3>1, ChainClosed
    <3>3. Good(next', free) /\ MembersOf(next', free) = MembersOf(next, free)
      BY <1>5, <1>7, <3>1, <3>2, ChainStays
    <3> QED
      BY <1>1, <2>2, <3>1, <3>3 DEF Frees
  <2> QED
    BY <2>1, <2>2
<1>11. pc'[t] = l /\ hand'[t] = h
  BY <1>0, <1>1, <1>3 DEF Types
<1>12. Moved(t, b, h)
  BY <1>1, <1>2, <1>6, <1>7, <1>9, <1>10, <1>11 DEF Moved
<1>13. /\ old[t] = Nil
       /\ pc[t] \in Filling => Placed(t) /\ AtLoc(t) = Nil
  BY <1>2, <1>3 DEF Mut
<1>14. Types' /\ \A u \in Threads : u # t => Stay(u)
  <2>1. l \in PCs
    BY <1>2 DEF PCs
  <2> QED
    BY <1>1, <1>3, <1>7, <2>1 DEF Types, Stay, pool, Links
<1>15. Mut(t)'
  <2>1. B(t)' = B(t)
    BY <1>1 DEF B, Key
  <2>2. Linked(B(t))' = Linked(B(t))
    <3>1. Chain(B(t))' = ChainOf(next', b)
      BY <1>4, <2>1 DEF Chain, ChainOf
    <3> QED
      BY SMTT(30), <1>4, <1>9, <3>1 DEF Linked, MembersOf
  <2>3. Placed(t)' = Placed(t) /\ AtLoc(t)' = AtLoc(t)
    BY <1>1, <2>2 DEF Placed, AtLoc
  <2>4. \A s \in {pc'[t]} : s \notin Inserting \cup Growing \cup { "unlock", "release", "moved", "detach" }
    BY <1>2, <1>11
  <2>5. pc'[t] \in Filling => pc[t] \in Filling
    BY <1>2, <1>11
  <2> QED
    BY <1>1, <1>13, <2>3, <2>4, <2>5 DEF Mut
<1>16. \A x \in MembersOf(next', b), i \in Indices : next'[x] # Nil /\ slots[x][i] = Nil =>
         pc'[t] \in Filling /\ loc'[t].b = x /\ loc'[t].i = i
  <2> SUFFICES ASSUME NEW x \in Linked(b), NEW i \in Indices, next[x] # Nil, slots[x][i] = Nil
               PROVE  pc'[t] \in Filling /\ loc'[t].b = x /\ loc'[t].i = i
    BY <1>8, <1>9
  <2>1. pc[t] \in Filling /\ IsAt(t, x, i)
    BY <1>2, <1>4, MyHole
  <2> QED
    BY <1>1, <1>2, <1>11, <2>1 DEF IsAt
<1>17. \A c \in Main : c # b => \A x \in Linked(c) : next'[x] = next[x]
  BY <1>8
<1>18. \A u \in Threads : u # t /\ pc[u] \in AtList =>
         flock' = u /\ free' = free /\ next'[hand[u]] = next[hand[u]]
  BY <1>1, AtListAlone
<1>19. /\ pc'[t] \in Inside \ { "publish", "moved" }
       /\ pc'[t] \in Inserting \cup Growing => call[t].op # "del"
       /\ pc'[t] \in AtList => flock' = t
  BY <1>1, <1>2, <1>11
<1>20. /\ b = B(t) /\ h \in Extra /\ old[t] = Nil /\ pc[t] \in Inside \ { "publish", "moved" }
       /\ Moves(t, b, h) /\ Good(next', b) /\ (free' # Nil => Good(next', free'))
       /\ UNCHANGED <<locked, slots, pool, call, item, old, same, buf, cur>>
  BY <1>1, <1>2, <1>4, <1>6, <1>9, <1>10, <1>13
<1> QED
  BY <1>12, <1>14, <1>15, <1>16, <1>17, <1>18, <1>19, <1>20, LinkStep

\* ... and puts the bucket on it.
LEMMA StepFreePush ==
  ASSUME IInv, NEW t \in Threads, setting' = setting, FreePush(t)
  PROVE  IInv'
<1>0. PICK h, lb, l : /\ h = hand[t] /\ lb = loc[t].b
                      /\ l = IF pc[t] = "head" THEN "unlock" ELSE "fill"
  OBVIOUS
<1>1. /\ pc[t] \in { "head", "head again" } /\ pc' = [pc EXCEPT ![t] = l]
      /\ free' = h /\ flock' = Nobody /\ hand' = [hand EXCEPT ![t] = Nil]
      /\ UNCHANGED <<locked, slots, pool, call, item, old, same, buf, cur>>
      /\ next' = next /\ loc' = loc /\ slots' = slots /\ old' = old
  BY <1>0 DEF FreePush, At, Goto
<1>2. /\ pc[t] \in Inside \ { "publish", "moved" } /\ pc[t] \in Inside /\ pc[t] \in Handing
      /\ pc[t] # "unlink" /\ pc[t] \in AtList
      /\ pc[t] \notin Inserting \cup { "unlock", "release" }
      /\ l \in Inside \ { "publish", "moved" } /\ l \notin Handing \cup AtList
      /\ l \notin Inserting \cup Growing
      /\ l \notin { "release", "moved", "detach", "unlink", "link", "head", "head again" }
      /\ (l \in Filling) <=> (pc[t] \in Filling)
  BY <1>0, <1>1 DEF Inside, Handing, Freeing, Filling, Inserting, Growing, AtList
<1>3. Types /\ Mut(t) /\ CallOK(t) /\ flock = t
  BY <1>2 DEF IInv, Locks
<1>4. PICK b \in Main : b = B(t)
  BY <1>2, MyChain
<1>5. /\ next \in Links /\ \A c \in Main : Good(next, c) /\ Linked(c) = MembersOf(next, c)
      /\ \A c \in Main : Linked(c) \subseteq Buckets
  BY ListsGood
<1>6. /\ h \in Extra /\ h # Nil /\ Moves(t, b, h) /\ \A c \in Main : h \notin Linked(c)
      /\ h \notin FreeOnes /\ h \in Buckets /\ next[h] = free
  BY <1>0, <1>1, <1>2, HandMoves, BucketIds
<1>7. Good(next', b) /\ MembersOf(next', b) = Linked(b)
  BY <1>1, <1>5
<1>8. /\ Good(next', free')
      /\ Frees(next', free') = FreeOnes \cup {h}
  <2>1. CASE free = Nil
    <3>1. Good(next, h) /\ MembersOf(next, h) = {h}
      BY <1>5, <1>6, <2>1, ChainOfOne
    <3> QED
      BY <1>1, <1>6, <2>1, <3>1 DEF Frees, FreeOnes
  <2>2. CASE free # Nil
    <3>1. Good(next, free) /\ FreeOnes = MembersOf(next, free)
      BY <2>2, ListsGood, After DEF Frees
    <3>2. Good(next, h) /\ MembersOf(next, h) = MembersOf(next, free) \cup {h}
      BY <1>5, <1>6, <3>1, ChainPushed
    <3> QED
      BY <1>1, <1>6, <3>1, <3>2 DEF Frees
  <2> QED
    BY <2>1, <2>2
<1>9. pc'[t] = l /\ hand'[t] = Nil
  BY <1>1, <1>3 DEF Types
<1>10. Moved(t, b, h)
  BY <1>2, <1>6, <1>7, <1>8, <1>9 DEF Moved
<1>11. /\ old[t] = Nil
       /\ pc[t] \in Filling => Placed(t) /\ AtLoc(t) = Nil
  BY <1>2, <1>3 DEF Mut
<1>12. Types' /\ \A u \in Threads : u # t => Stay(u)
  <2>1. l \in PCs
    BY <1>2 DEF PCs
  <2> QED
    BY <1>1, <1>3, <1>6, <2>1 DEF Types, Stay, pool
<1>13. Mut(t)'
  <2>1. B(t)' = B(t)
    BY <1>1 DEF B, Key
  <2>2. Linked(B(t))' = Linked(B(t))
    <3>1. Chain(B(t))' = ChainOf(next', b)
      BY <1>4, <2>1 DEF Chain, ChainOf
    <3> QED
      BY SMTT(30), <1>4, <1>7, <3>1 DEF Linked, MembersOf
  <2>3. Placed(t)' = Placed(t) /\ AtLoc(t)' = AtLoc(t)
    BY <1>1, <2>2 DEF Placed, AtLoc
  <2>4. \A s \in {pc'[t]} : s \notin Inserting \cup Growing \cup { "release", "moved", "detach" }
    BY <1>2, <1>9
  <2>5. pc'[t] \in Filling => pc[t] \in Filling
    BY <1>2, <1>9
  <2> QED
    BY <1>1, <1>11, <2>3, <2>4, <2>5 DEF Mut
<1>14. \A x \in MembersOf(next', b), i \in Indices : next'[x] # Nil /\ slots[x][i] = Nil =>
         pc'[t] \in Filling /\ loc'[t].b = x /\ loc'[t].i = i
  <2> SUFFICES ASSUME NEW x \in Linked(b), NEW i \in Indices, next[x] # Nil, slots[x][i] = Nil
               PROVE  pc'[t] \in Filling /\ loc'[t].b = x /\ loc'[t].i = i
    <3>1. MembersOf(next', b) = Linked(b) /\ next' = next
      BY <1>1, <1>7
    <3> QED
      BY <3>1
  <2>1. pc[t] \in Filling /\ IsAt(t, x, i)
    BY <1>2, <1>4, MyHole
  <2> QED
    BY <1>1, <1>2, <1>9, <2>1 DEF IsAt
<1>15. \A c \in Main : c # b => \A x \in Linked(c) : next'[x] = next[x]
  BY <1>1
<1>16. \A u \in Threads : u # t /\ pc[u] \in AtList =>
         flock' = u /\ free' = free /\ next'[hand[u]] = next[hand[u]]
  BY <1>3, AtListAlone
<1>17. /\ pc'[t] \in Inside \ { "publish", "moved" }
       /\ pc'[t] \in Inserting \cup Growing => call[t].op # "del"
       /\ pc'[t] \in AtList => flock' = t
  BY <1>2, <1>9
<1>18. /\ b = B(t) /\ h \in Extra /\ old[t] = Nil /\ pc[t] \in Inside \ { "publish", "moved" }
       /\ Moves(t, b, h) /\ Good(next', b) /\ (free' # Nil => Good(next', free'))
       /\ UNCHANGED <<locked, slots, pool, call, item, old, same, buf, cur>>
  BY <1>1, <1>2, <1>4, <1>6, <1>7, <1>8, <1>11
<1> QED
  BY <1>10, <1>12, <1>13, <1>14, <1>15, <1>16, <1>17, <1>18, LinkStep

-----------------------------------------------------------------------------
(* The invariant holds, and what follows from it.                          *)

\* reset() strings every extra bucket on the free list.
Above(e) == { x \in Extra : x >= e }
LEMMA FirstLinks ==
  ASSUME Init
  PROVE  /\ next \in Links
         /\ \A b \in Main : next[b] = Nil
         /\ \A e \in Extra : IF Above(e) = {e} THEN next[e] = Nil
                             ELSE next[e] \in Extra /\ Above(next[e]) = Above(e) \ {e}
<1>1. next = [b \in Buckets |-> FreeNext(b)]
  BY DEF Init
<1>2. \A b \in Main : b \in Buckets /\ FreeNext(b) = Nil
  BY BucketIds DEF FreeNext
<1>3. Extra \subseteq Nat /\ Extra \subseteq Buckets /\ \A b \in Main : b \notin Extra
  BY ChainsAssumption DEF Buckets
<1>4. ASSUME NEW e \in Extra
      PROVE  IF Above(e) = {e} THEN FreeNext(e) = Nil
             ELSE FreeNext(e) \in Extra /\ Above(FreeNext(e)) = Above(e) \ {e}
  <2> DEFINE S == { x \in Extra : x > e }
  <2>1. S \in SUBSET Nat /\ e \in Nat /\ e \notin Main
    BY <1>3
  <2>2. FreeNext(e) = IF S = {} THEN Nil ELSE Smallest(S)
    BY <2>1 DEF FreeNext
  <2>3. Above(e) = S \cup {e} /\ e \notin S
    <3>1. \A x \in Extra : (x >= e <=> x > e \/ x = e) /\ ~(e > e)
      BY <1>3, <2>1
    <3>2. \A x : x \in Above(e) <=> x \in S \/ x = e
      BY <3>1 DEF Above
    <3> QED
      BY <3>1, <3>2
  <2>4. CASE S = {}
    BY <2>2, <2>3, <2>4
  <2>5. CASE S # {}
    <3>1. PICK m : m = Smallest(S)
      OBVIOUS
    <3>2. m \in S /\ \A y \in S : m <= y
      <4> HIDE DEF S
      <4> QED
        BY <2>1, <2>5, <3>1, SmallestIs
    <3>3. m \in Extra /\ m \in Nat /\ m > e
      BY <1>3, <3>2
    <3>4. \A x : x \in Above(m) <=> x \in S
      <4>1. \A x : x \in Above(m) => x \in S
        BY <1>3, <2>1, <3>3 DEF Above
      <4>2. \A x : x \in S => x \in Above(m)
        BY <1>3, <3>2, <3>3 DEF Above
      <4> QED
        BY <4>1, <4>2
    <3>5. Above(m) = Above(e) \ {e}
      BY <2>3, <3>4
    <3> HIDE DEF S
    <3> QED
      BY <2>2, <2>3, <2>5, <3>1, <3>3, <3>5
  <2> QED
    BY <2>4, <2>5
<1>5. \A b \in Buckets : FreeNext(b) \in Extra \cup {Nil}
  <2>1. \A e \in Extra : FreeNext(e) \in Extra \cup {Nil}
    BY <1>4
  <2> QED
    BY <1>2, <2>1 DEF Buckets
<1>6. next \in Links
  BY <1>1, <1>5 DEF Links
<1>7. \A b \in Buckets : next[b] = FreeNext(b)
  BY <1>1
<1> QED
  BY <1>2, <1>3, <1>4, <1>6, <1>7

\* So the free list leads through all of them, from any on.
LEMMA FirstFree ==
  ASSUME Init, NEW e \in Extra
  PROVE  Good(next, e) /\ MembersOf(next, e) = Above(e)
<1> DEFINE R(x) == Good(next, x) /\ MembersOf(next, x) = Above(x)
           T == { Cardinality(Above(x)) : x \in { y \in Extra : ~R(y) } }
<1> SUFFICES ASSUME ~R(e) PROVE FALSE
  OBVIOUS
<1>1. \A x \in Extra : IsFiniteSet(Above(x)) /\ x \in Above(x) /\ Cardinality(Above(x)) \in Nat
  <2> SUFFICES ASSUME NEW x \in Extra
               PROVE  IsFiniteSet(Above(x)) /\ x \in Above(x) /\ Cardinality(Above(x)) \in Nat
    OBVIOUS
  <2>1. Above(x) \subseteq Extra /\ x \in Above(x)
    BY ChainsAssumption DEF Above
  <2>2. IsFiniteSet(Above(x))
    BY <2>1, ChainsAssumption, FS_Subset
  <2> QED
    BY <2>1, <2>2, FS_CardinalityType
<1>2. T \in SUBSET Nat /\ T # {}
  BY <1>1
<1>3. PICK n \in T : \A m \in T : n <= m
  <2> HIDE DEF T
  <2> QED
    BY <1>2, LeastElement
<1>4. PICK x \in Extra : ~R(x) /\ n = Cardinality(Above(x))
  BY <1>3
<1>5. /\ next \in Links /\ x \in Buckets
      /\ IF Above(x) = {x} THEN next[x] = Nil
         ELSE next[x] \in Extra /\ Above(next[x]) = Above(x) \ {x}
  BY FirstLinks, BucketIds
<1>6. CASE Above(x) = {x}
  BY <1>4, <1>5, <1>6, ChainOfOne
<1>7. CASE Above(x) # {x}
  <2>1. PICK m : m = next[x]
    OBVIOUS
  <2>2. m \in Extra /\ Above(m) = Above(x) \ {x} /\ next[x] = m
    BY <1>5, <1>7, <2>1
  <2>3. Cardinality(Above(m)) = n - 1 /\ n \in Nat
    BY <1>1, <1>4, <2>2, FS_RemoveElement
  <2>4. ~R(m) => n - 1 \in T
    BY <2>2, <2>3
  <2>5. R(m)
    <3> HIDE DEF T, R
    <3> QED
      BY <1>3, <2>3, <2>4
  <2>6. Good(next, x) /\ MembersOf(next, x) = MembersOf(next, m) \cup {x}
    BY <1>5, <2>2, <2>5, ChainPushed
  <2>7. Above(x) = Above(m) \cup {x}
    BY <1>1, <2>2
  <2> QED
    BY <1>4, <2>5, <2>6, <2>7
<1> QED
  BY <1>6, <1>7

\* The table starts sound: all extra buckets are free, and nothing is in it.
LEMMA InitIInv ==
  ASSUME Init
  PROVE  IInv
<1>1. /\ setting \in Settings /\ locked = {}
      /\ slots = [b \in Buckets |-> [i \in Indices |-> Nil]]
      /\ free = IF Extra = {} THEN Nil ELSE Smallest(Extra)
      /\ mem = [o \in Offsets |-> [key |-> Nil, v |-> Nil]] /\ live = {}
      /\ pc = [t \in Threads |-> "idle"]
      /\ call = [t \in Threads |-> NoCall]
      /\ loc = [t \in Threads |-> Start(Nil)]
      /\ hand = [t \in Threads |-> Nil]
      /\ item = [t \in Threads |-> Nil]
      /\ old = [t \in Threads |-> Nil]
      /\ same = [t \in Threads |-> TRUE]
      /\ buf = [t \in Threads |-> Nil]
      /\ cur = [k \in Keys |-> Nil]
  BY DEF Init
<1>2. next \in Links /\ \A b \in Main : next[b] = Nil
  BY FirstLinks
<1>3. \A b \in Main : Good(next, b) /\ Linked(b) = {b} /\ b \in Buckets
  <2> SUFFICES ASSUME NEW b \in Main PROVE Good(next, b) /\ Linked(b) = {b} /\ b \in Buckets
    OBVIOUS
  <2>1. b \in Buckets /\ next[b] = Nil
    BY <1>2, BucketIds
  <2> QED
    BY <1>2, <2>1, ChainOfOne, ChainIsOf
<1>4. /\ free \in Extra \cup {Nil} /\ FreeOnes = Extra
      /\ free # Nil => Good(next, free)
  <2>1. CASE Extra = {}
    BY <1>1, <2>1 DEF FreeOnes
  <2>2. CASE Extra # {}
    <3>1. free = Smallest(Extra) /\ Extra \in SUBSET Nat
      BY <1>1, <2>2, ChainsAssumption
    <3>2. free \in Extra /\ \A y \in Extra : free <= y
      BY <2>2, <3>1, SmallestIs
    <3>3. free # Nil
      BY <3>2, BucketIds
    <3>4. Above(free) = Extra
      BY <3>1, <3>2 DEF Above
    <3>5. Good(next, free) /\ MembersOf(next, free) = Extra
      BY <3>2, <3>4, FirstFree
    <3>6. FreeOnes = Extra
      BY <3>3, <3>5, ChainIsOf DEF FreeOnes
    <3> QED
      BY <3>2, <3>5, <3>6
  <2> QED
    BY <2>1, <2>2
<1>5. \A t \in Threads : pc[t] = "idle" /\ hand[t] = Nil /\ old[t] = Nil
  BY <1>1
<1>6. Types
  <2>1. "idle" \in PCs
    BY DEF PCs
  <2>2. Start(Nil) \in [b : Buckets \cup {Nil}, i : Nat]
    BY DEF Start
  <2> QED
    BY <1>1, <1>2, <1>4, <2>1, <2>2 DEF Types, Links
<1>7. "idle" \notin Inside \cup AtList \cup Reading \cup Walking \cup Handing
                  \cup { "begin", "lock", "release", "unlock", "publish" }
  BY DEF Inside, AtList, Reading, Walking, Handing, Freeing, Filling, Inserting, Growing
<1>8. Locks
  BY <1>5, <1>7 DEF Locks
<1>9. Paths
  BY <1>3, <1>4, ChainIsOf DEF Paths, Good
<1>10. Apart
  BY <1>3, <1>4, BucketIds DEF Apart
<1>11. Hands
  <2>1. \A b \in Main : Nil \notin Linked(b)
    BY <1>3, BucketIds
  <2>2. ASSUME NEW t \in Threads PROVE HandOK(t)
    <3>1. pc[t] \notin Handing
      BY <1>5, <1>7
    <3>2. pc[t] \notin { "unlink", "link", "head", "head again" }
      BY <1>5
    <3> QED
      BY <1>5, <2>1, <3>1, <3>2 DEF HandOK
  <2> QED
    BY <1>5, <2>2 DEF Hands
<1>12. \A x \in Buckets, i \in Indices : slots[x][i] = Nil
  BY <1>1
<1>13. Cover
  BY <1>3, <1>4, <1>12 DEF Cover, Buckets
<1>14. Pool
  BY <1>5 DEF Pool, Held
<1>15. ASSUME NEW t \in Threads PROVE CallOK(t) /\ Mut(t) /\ Reader(t)
  <2>1. \A s \in {pc[t]} : s \notin Inside \cup Reading \cup Walking \cup Inserting \cup Growing
                                    \cup Filling \cup { "lock", "release", "begin", "moved", "detach" }
    BY <1>5, <1>7 DEF Inside
  <2>2. CallOK(t)
    BY <2>1 DEF CallOK
  <2>3. Mut(t)
    BY <1>5, <2>1 DEF Mut
  <2>4. Reader(t)
    BY <2>1 DEF Reader
  <2> QED
    BY <2>2, <2>3, <2>4
<1>16. ASSUME NEW b \in Main PROVE Items(b) /\ Once(b) /\ Packed(b)
  <2>1. \A x \in Linked(b), i \in Indices : slots[x][i] = Nil /\ next[x] = Nil
    BY <1>2, <1>3, <1>12
  <2>2. \A k \in Keys : cur[k] = Nil
    BY <1>1
  <2> QED
    BY <2>1, <2>2 DEF Items, Once, Packed
<1> QED
  BY <1>6, <1>8, <1>9, <1>10, <1>11, <1>13, <1>14, <1>15, <1>16 DEF IInv

\* A step that changes nothing.
LEMMA Stutter ==
  ASSUME IInv, UNCHANGED vars
  PROVE  IInv'
<1>1. /\ setting' = setting /\ locked' = locked /\ next' = next /\ slots' = slots /\ free' = free
      /\ flock' = flock /\ mem' = mem /\ live' = live /\ pc' = pc /\ call' = call /\ loc' = loc
      /\ hand' = hand /\ item' = item /\ old' = old /\ same' = same /\ buf' = buf /\ cur' = cur
  BY DEF vars, chains, pool, locals
<1>2. /\ \A b : Chain(b)' = Chain(b) /\ Linked(b)' = Linked(b)
      /\ FreeOnes' = FreeOnes
  BY <1>1, SameLinks
<1>3. \A u \in Threads : Stay(u) /\ B(u)' = B(u)
  BY <1>1 DEF Stay, B, Key
<1>4. \A b : ChainSame(b)
  BY <1>1, <1>2 DEF ChainSame
<1>5. \A u \in Threads : ChainSame(B(u))
  <2> SUFFICES ASSUME NEW u \in Threads PROVE ChainSame(B(u))
    OBVIOUS
  <2>1. PICK b : b = B(u)
    OBVIOUS
  <2>2. B(u)' = B(u) /\ ChainSame(b)
    BY <1>3, <1>4
  <2> QED
    BY <2>1, <2>2, SameChain
<1>6. ASSUME NEW u \in Threads PROVE CallOK(u)' /\ Mut(u)' /\ Reader(u)'
  <2>1. CallOK(u) /\ Mut(u) /\ Reader(u) /\ Stay(u) /\ ChainSame(B(u))
    BY <1>3, <1>5 DEF IInv
  <2>2. pc[u] \in Reading /\ same'[u] => same[u] /\ B(u) \notin locked' /\ ChainSame(B(u))
    BY <1>1, <2>1 DEF Reader
  <2> QED
    BY <2>1, <2>2, CallKeeps, MutKeeps, ReaderKeeps
<1>7. ASSUME NEW b \in Main PROVE Items(b)' /\ Once(b)' /\ Packed(b)'
  <2>1. Items(b) /\ Once(b) /\ Packed(b) /\ ChainSame(b)
    BY <1>4 DEF IInv
  <2> QED
    BY <1>3, <2>1, ChainKeeps
<1>8. Types'
  BY <1>1 DEF IInv, Types
<1>9. Locks'
  BY <1>1, <1>3 DEF IInv, Locks
<1>10. Paths'
  <2>1. \A b \in Main : (IsPath(next, Chain(b), b))'
    BY <1>1, <1>2 DEF IInv, Paths, IsPath
  <2>2. Chain(free)' = Chain(free)
    BY <1>1 DEF Chain
  <2>3. (free # Nil => IsPath(next, Chain(free), free))'
    BY <1>1, <2>2 DEF IInv, Paths, IsPath
  <2> QED
    BY <2>1, <2>3 DEF Paths
<1>11. Apart'
  BY <1>2 DEF IInv, Apart
<1>12. Hands'
  <2>1. ASSUME NEW u \in Threads PROVE HandOK(u)'
    <3>1. HandOK(u)
      BY DEF IInv, Hands
    <3> QED
      BY <1>1, <1>2, <3>1 DEF HandOK
  <2> QED
    BY <1>1, <2>1 DEF IInv, Hands
<1>13. Cover'
  BY <1>1, <1>2 DEF IInv, Cover
<1>14. Pool'
  <2>1. \A u \in Threads : Held(u)' = Held(u)
    BY <1>1 DEF Held
  <2>2. \A u \in Threads : Key(u)' = Key(u)
    BY <1>1 DEF Key
  <2> QED
    BY <1>1, <2>1, <2>2 DEF IInv, Pool
<1> QED
  BY <1>6, <1>7, <1>8, <1>9, <1>10, <1>11, <1>12, <1>13, <1>14 DEF IInv

\* Every step of a mutator keeps the invariant, ...
LEMMA StepMutating ==
  ASSUME IInv, NEW t \in Threads, setting' = setting, Mutating(t)
  PROVE  IInv'
<1>1. CASE LockBucket(t)
  BY <1>1, StepLockBucket
<1>2. CASE UnlockBucket(t)
  BY <1>2, StepUnlockBucket
<1>3. CASE Release(t)
  BY <1>3, StepRelease
<1>4. CASE Exists(t) \/ DelMiss(t) \/ GrowFails(t)
  BY <1>4, StepExists
<1>5. CASE SetInPlace(t)
  BY <1>5, StepSetInPlace
<1>6. CASE SetReplace(t)
  BY <1>6, StepSetReplace
<1>7. CASE SetEmpty(t)
  BY <1>7, StepSetEmpty
<1>8. CASE GrowTake(t)
  BY <1>8, StepGrowTake
<1>9. CASE GrowUnlink(t)
  BY <1>9, StepGrowUnlink
<1>10. CASE GrowLink(t)
  BY <1>10, StepGrowLink
<1>11. CASE Allocate(t)
  BY <1>11, StepAllocate
<1>12. CASE AllocateFails(t)
  BY <1>12, StepAllocateFails
<1>13. CASE Publish(t)
  BY <1>13, StepPublish
<1>14. CASE Del(t)
  BY <1>14, StepDel
<1>15. CASE NoHole(t)
  BY <1>15, StepNoHole
<1>16. CASE FillMove(t)
  BY <1>16, StepFillMove
<1>17. CASE FillClear(t)
  BY <1>17, StepFillClear
<1>18. CASE FillAgain(t) \/ FreeDetach(t)
  BY <1>18, StepDetach
<1>19. CASE FreeLock(t)
  BY <1>19, StepFreeLock
<1>20. CASE FreePush(t)
  BY <1>20, StepFreePush
<1> QED
  BY <1>1, <1>2, <1>3, <1>4, <1>5, <1>6, <1>7, <1>8, <1>9, <1>10, <1>11, <1>12, <1>13, <1>14,
     <1>15, <1>16, <1>17, <1>18, <1>19, <1>20 DEF Mutating

\* ... and of a reader.
LEMMA StepGetting ==
  ASSUME IInv, NEW t \in Threads, setting' = setting, Getting(t)
  PROVE  IInv'
<1>1. CASE BeginRead(t)
  BY <1>1, StepBeginRead
<1>2. CASE Scan(t)
  BY <1>2, StepScan
<1>3. CASE Compare(t)
  BY <1>3, StepCompare
<1>4. CASE WalkOn(t)
  BY <1>4, StepWalkOn
<1>5. CASE Load(t)
  BY <1>5, StepLoad
<1>6. CASE Retry(t)
  BY <1>6, StepRetry
<1>7. CASE Answer(t)
  BY <1>7, StepAnswer
<1> QED
  BY <1>1, <1>2, <1>3, <1>4, <1>5, <1>6, <1>7 DEF Getting

\* The invariant is inductive.
LEMMA IInvStep ==
  ASSUME IInv, [Next]_vars
  PROVE  IInv'
<1>1. CASE UNCHANGED vars
  BY <1>1, Stutter
<1>2. CASE Next
  <2>1. PICK t \in setting.threads :
          \/ \E k \in Keys : Get(t, k) \/ Begin(t, "del", k, Nil)
          \/ \E k \in Keys, v \in Values, op \in {"set", "add"} : Begin(t, op, k, v)
          \/ Mutating(t) \/ Getting(t)
    BY <1>2 DEF Next
  <2>2. setting' = setting /\ t \in Threads
    BY <1>2, ChainsAssumption DEF Next, IInv, Types
  <2>3. CASE \E k \in Keys : Get(t, k)
    BY <2>2, <2>3, StepGet
  <2>4. CASE \E k \in Keys : Begin(t, "del", k, Nil)
    BY <2>2, <2>4, StepBegin
  <2>5. CASE \E k \in Keys, v \in Values, op \in {"set", "add"} : Begin(t, op, k, v)
    BY <2>2, <2>5, StepBegin
  <2>6. CASE Mutating(t) \/ Getting(t)
    BY <2>2, <2>6, StepMutating, StepGetting
  <2> QED
    BY <2>1, <2>3, <2>4, <2>5, <2>6
<1> QED
  BY <1>1, <1>2

\* The inductive invariant: the chains and the free list are paths of buckets
\* that are apart, the items of a chain are those of its keys, and each thread
\* in the middle of an operation knows its place (ltable_impl/bucket.h:40-187,
\* set.h:8-129, del.h:8-50, get.h:8-95), whatever the others do.
THEOREM Invariance == Spec => []IInv
<1>1. Init => IInv
  BY InitIInv
<1>2. IInv /\ [Next]_vars => IInv'
  BY IInvStep
<1> QED
  BY <1>1, <1>2, PTL DEF Spec

\* The properties follow from the invariant.
LEMMA SoundFromIInv ==
  ASSUME IInv
  PROVE  ChainsSound
<1>1. Types /\ Apart /\ Cover /\ Locks /\ \A t \in Threads : HandOK(t)
  BY DEF IInv, Hands
<1>2. TypeOK
  <2>1. \A b \in Main : next[b] # b
    BY <1>1, BucketIds DEF Types
  <2> QED
    BY <1>1, <2>1 DEF Types, TypeOK
<1>3. ExtrasPartitioned
  <2>1. \A b, c \in Main : b # c => Linked(b) \cap Linked(c) = {}
    BY <1>1 DEF Apart
  <2>2. \A b \in Main : Linked(b) \cap FreeOnes = {}
    BY <1>1 DEF Apart
  <2>3. \A b \in Main : Linked(b) \subseteq Buckets
    BY ListsGood
  <2>4. FreeOnes \subseteq Buckets
    <3>1. CASE free = Nil
      BY <3>1 DEF FreeOnes
    <3>2. CASE free # Nil
      BY <3>2, ListsGood, ChainClosed, ChainIsOf DEF FreeOnes
    <3> QED
      BY <3>1, <3>2
  <2>5. InHand \subseteq Buckets
    <3>1. \A t \in Threads : hand[t] \in Extra \cup {Nil}
      BY <1>1 DEF Types
    <3> QED
      BY <3>1, BucketIds DEF InHand
  <2>6. \A x \in Buckets : x \in FreeOnes \cup InHand \cup UNION { Linked(b) : b \in Main }
    <3> SUFFICES ASSUME NEW x \in Buckets, \A b \in Main : x \notin Linked(b)
                 PROVE  x \in FreeOnes \cup InHand
      OBVIOUS
    <3>1. x # Nil
      BY BucketIds
    <3> QED
      BY <1>1, <3>1 DEF Cover, InHand
  <2>7. ASSUME NEW x \in FreeOnes \cup InHand PROVE Used(x) = {}
    <3>1. \A b \in Main : x \notin Linked(b)
      BY <1>1, <2>7 DEF Apart, InHand, HandOK
    <3>2. \A i \in Indices : slots[x][i] = Nil
      BY <1>1, <2>4, <2>5, <3>1 DEF Cover
    <3> QED
      BY <3>2 DEF Used
  <2>8. FreeOnes \cup InHand \cup UNION { Linked(b) : b \in Main } = Buckets
    BY <2>3, <2>4, <2>5, <2>6
  <2> QED
    BY <2>1, <2>2, <2>7, <2>8 DEF ExtrasPartitioned
<1>4. ChainsPacked
  <2> SUFFICES ASSUME NEW b \in Main, b \notin locked, NEW c \in Linked(b), next[c] # Nil
               PROVE  Used(c) = Indices
    BY DEF ChainsPacked, Quiet
  <2>1. \A t \in Threads : pc[t] \in Filling => B(t) # b
    BY <1>1 DEF Locks, Inside
  <2>2. \A i \in Indices : slots[c][i] # Nil
    BY <2>1 DEF IInv, Packed
  <2> QED
    BY <2>2 DEF Used
<1> QED
  BY <1>2, <1>3, <1>4 DEF ChainsSound

LEMMA KeysFromIInv ==
  ASSUME IInv
  PROVE  ChainsHoldKeys
<1> SUFFICES ASSUME NEW b \in Main, b \notin locked, NEW k \in Keys, BucketOf[k] = b
             PROVE  LET S == { x \in ItemsIn(b) : mem[slots[x[1]][x[2]]].key = k }
                    IN  IF cur[k] = Nil THEN S = {}
                        ELSE \E x \in S : S = {x} /\ slots[x[1]][x[2]] \in live
                                          /\ mem[slots[x[1]][x[2]]].v = cur[k]
  BY DEF ChainsHoldKeys, Quiet
<1> DEFINE S == { x \in ItemsIn(b) : mem[slots[x[1]][x[2]]].key = k }
<1>1. Items(b) /\ Once(b) /\ Locks
  BY DEF IInv
<1>2. \A x : x \in S => /\ x \in Linked(b) \X Indices /\ x[1] \in Linked(b) /\ x[2] \in Indices
                        /\ x = <<x[1], x[2]>> /\ Holds(x[1], x[2], k)
  BY DEF ItemsIn, Holds
<1>3. ASSUME NEW c \in Linked(b), NEW i \in Indices, Holds(c, i, k) PROVE <<c, i>> \in S
  BY <1>3 DEF ItemsIn, Holds
<1>4. \A c \in Linked(b), i \in Indices :
        Holds(c, i, k) => slots[c][i] \in live /\ cur[k] # Nil /\ mem[slots[c][i]].v = cur[k]
  BY <1>1 DEF Items, Holds
<1>5. \A t \in Threads : pc[t] = "moved" => B(t) # b
  BY <1>1 DEF Locks, Inside
<1>6. \A c, d \in Linked(b), i, j \in Indices : Holds(c, i, k) /\ Holds(d, j, k) => c = d /\ i = j
  <2> SUFFICES ASSUME NEW c \in Linked(b), NEW d \in Linked(b), NEW i \in Indices, NEW j \in Indices,
                      Holds(c, i, k), Holds(d, j, k)
               PROVE  c = d /\ i = j
    OBVIOUS
  <2>1. slots[c][i] # Nil /\ slots[c][i] = slots[d][j]
    BY <1>1 DEF Items, Holds
  <2> QED
    BY <1>1, <1>5, <2>1 DEF Once
<1> HIDE DEF S
<1>7. CASE cur[k] = Nil
  BY <1>2, <1>4, <1>7 DEF S
<1>8. CASE cur[k] # Nil
  <2>1. PICK c \in Linked(b), i \in Indices : Holds(c, i, k)
    BY <1>1, <1>8 DEF Items
  <2>2. PICK x : x = <<c, i>>
    OBVIOUS
  <2>3. x \in S /\ x[1] = c /\ x[2] = i
    BY <1>3, <2>1, <2>2
  <2>4. \A y \in S : y = x
    <3> SUFFICES ASSUME NEW y \in S PROVE y = x
      OBVIOUS
    <3>1. y[1] = c /\ y[2] = i /\ y = <<y[1], y[2]>>
      BY <1>2, <1>6, <2>1
    <3> QED
      BY <2>2, <3>1
  <2>5. S = {x}
    BY <2>3, <2>4
  <2>6. slots[x[1]][x[2]] \in live /\ mem[slots[x[1]][x[2]]].v = cur[k]
    BY <1>4, <2>1, <2>3
  <2> QED
    BY <1>8, <2>3, <2>5, <2>6 DEF S
<1> QED
  BY <1>7, <1>8 DEF S

LEMMA GetFromIInv ==
  ASSUME IInv
  PROVE  GetIsRight
<1>1. \A t \in Getters : t \in Threads
  BY DEF Threads
<1>2. { "hit", "miss" } \subseteq Reading
  BY DEF Reading
<1> QED
  BY <1>1, <1>2 DEF IInv, Reader, GetIsRight, Unchanged

\* No extra bucket is in two chains, or in a chain and on the free list; none
\* is lost; a free one is empty; and a chain that nobody has locked wastes no
\* slot but in its last bucket (bucket.h:56-187), for any threads that grow and
\* shrink chains at a time, and any number of buckets.
THEOREM ChainsStaySound == Spec => []ChainsSound
<1>1. IInv => ChainsSound
  BY SoundFromIInv
<1> QED
  BY <1>1, Invariance, PTL

\* A quiet chain holds each of its keys once, with its value, at an offset that
\* is live, and no other (set.h:23-126, del.h:19-49).
THEOREM ChainsKeepKeys == Spec => []ChainsHoldKeys
<1>1. IInv => ChainsHoldKeys
  BY KeysFromIInv
<1> QED
  BY <1>1, Invariance, PTL

\* A get that finds its version unchanged answers with the value of its key, or
\* rightly finds none, whatever freed buckets and reused items it has walked
\* through (get.h:22-93).
THEOREM GetsAreRight == Spec => []GetIsRight
<1>1. IInv => GetIsRight
  BY GetFromIInv
<1> QED
  BY <1>1, Invariance, PTL
=============================================================================
