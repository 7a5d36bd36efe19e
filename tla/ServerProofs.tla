---------------------------- MODULE ServerProofs ----------------------------
(***************************************************************************)
(* Theorems about Server, for any number of endpoints, buffers, packets,   *)
(* requests in a packet, and any bursts, stage gaps and ring sizes.        *)
(***************************************************************************)
EXTENDS Server, WellFoundedInduction, SequenceTheorems, FiniteSetTheorems, TLAPS

-----------------------------------------------------------------------------
(* Remainders, least elements.                                             *)

\* The defining equation of quotient and remainder: where a ring counter is.
LEMMA ModDef ==
  ASSUME NEW a \in Int, NEW M \in Nat \ {0}
  PROVE  /\ a % M \in 0 .. M - 1
         /\ a \div M \in Int
         /\ a = (M * (a \div M)) + (a % M)
BY SMT

\* A positive multiple of the ring size is at least one turn of the ring.
LEMMA OneTurn ==
  ASSUME NEW k \in Int, NEW M \in Nat \ {0}, k >= 1
  PROVE  M * k >= M
BY SMT

\* Two numbers whose difference is less than one turn and a whole number of
\* turns are equal.
LEMMA NoTurn ==
  ASSUME NEW k \in Int, NEW M \in Nat \ {0}, -M < M * k, M * k < M
  PROVE  k = 0
<1>1. CASE k >= 1
  BY <1>1, OneTurn
<1>2. CASE -k >= 1
  <2>1. M * (-k) >= M
    BY <1>2, OneTurn
  <2>2. M * (-k) = -(M * k)
    OBVIOUS
  <2> QED
    BY <2>1, <2>2
<1> QED
  BY <1>1, <1>2

\* Counters less than one turn apart are at different addresses.
LEMMA ModDistinct ==
  ASSUME NEW a \in Int, NEW b \in Int, NEW M \in Nat \ {0}, a < b, b - a < M
  PROVE  a % M # b % M
<1> SUFFICES ASSUME a % M = b % M PROVE FALSE
  OBVIOUS
<1> DEFINE k == (b \div M) - (a \div M)
<1>1. /\ a \div M \in Int /\ b \div M \in Int
      /\ a = (M * (a \div M)) + (a % M)
      /\ b = (M * (b \div M)) + (b % M)
      /\ a % M \in 0 .. M - 1
  BY ModDef
<1>2. k \in Int /\ M * k = b - a
  BY <1>1
<1> HIDE DEF k
<1>3. k = 0
  BY <1>2, NoTurn
<1> QED
  BY <1>2, <1>3

\* d is a whole number of turns of a ring of M cells.
Turns(M, d) == \E k \in Int : d = M * k

\* Counters a whole number of turns apart are at the same address.
LEMMA ModEqual ==
  ASSUME NEW a \in Int, NEW b \in Int, NEW M \in Nat \ {0}, Turns(M, a - b)
  PROVE  a % M = b % M
<1>1. PICK k \in Int : a - b = M * k
  BY DEF Turns
<1> DEFINE p == a \div M
           q == b \div M
           r == a % M
           s == b % M
           n == k - (p - q)
<1>2. p \in Int /\ r \in 0 .. M - 1 /\ a = (M * p) + r
  BY ModDef
<1>3. q \in Int /\ s \in 0 .. M - 1 /\ b = (M * q) + s
  BY ModDef
<1> HIDE DEF p, q, r, s
<1>4. n \in Int /\ M * n = r - s
  BY <1>1, <1>2, <1>3
<1> HIDE DEF n
<1>5. n = 0
  BY <1>2, <1>3, <1>4, NoTurn
<1> QED
  BY <1>2, <1>3, <1>4, <1>5 DEF r, s

\* A set of naturals that is not empty has a least element.
LEMMA LeastElement ==
  ASSUME NEW T \in SUBSET Nat, T # {}
  PROVE  \E x \in T : \A y \in T : x <= y
<1>1. IsWellFoundedOn(OpToRel(<, Nat), Nat)
  BY NatLessThanWellFounded
<1>2. \A x, y \in Nat : x < y => <<x, y>> \in OpToRel(<, Nat)
  BY DEF OpToRel
<1>3. \E x \in T : \A y \in T : ~ (<<y, x>> \in OpToRel(<, Nat))
  BY <1>1, WFMin
<1> DEFINE R == OpToRel(<, Nat)
<1>4. \A x, y \in Nat : x < y => <<x, y>> \in R
  BY <1>2
<1>5. \E x \in T : \A y \in T : ~ (<<y, x>> \in R)
  BY <1>3
<1> HIDE DEF R
<1>6. PICK x \in T : \A y \in T : ~ (<<y, x>> \in R)
  BY <1>5
<1>7. ASSUME NEW y \in T PROVE x <= y
  <2>1. x \in Nat /\ y \in Nat
    OBVIOUS
  <2>2. ~(y < x)
    BY <1>4, <1>6, <2>1
  <2> QED
    BY <2>1, <2>2
<1> QED
  BY <1>7

-----------------------------------------------------------------------------
(* Least elements.                                                         *)

LEMMA MinIsLeast ==
  ASSUME NEW T \in SUBSET Nat, T # {}
  PROVE  Min(T) \in T /\ \A y \in T : Min(T) <= y
BY LeastElement DEF Min

LEMMA MinOfTwo ==
  ASSUME NEW a \in Nat, NEW b \in Nat
  PROVE  Min({ a, b }) = IF a <= b THEN a ELSE b
<1>1. { a, b } \in SUBSET Nat /\ { a, b } # {}
  OBVIOUS
<1>2. Min({ a, b }) \in { a, b } /\ \A y \in { a, b } : Min({ a, b }) <= y
  BY <1>1, MinIsLeast
<1> QED
  BY <1>2

\* The buffer that allocate() takes is one of the pool.
LEMMA FreshIsFree ==
  ASSUME NEW S \in SUBSET Buffers, S # {}
  PROVE  Fresh(S) \in S
<1>1. S \in SUBSET Nat
  BY ServerAssumption DEF Buffers
<1> QED
  BY <1>1, LeastElement DEF Fresh

\* Three stage gaps fit in partition_ids.
LEMMA PipelineHolds ==
  ASSUME NEW g \in StageGaps
  PROVE  PipelineSize(g) \in Nat \ {0} /\ PipelineSize(g) >= 3 * g /\ g \in Nat \ {0}
<1>1. g \in 1 .. 255
  BY ServerAssumption
<1>2. \A k \in 0 .. 10 : 2 ^ k \in Nat
  <2> DEFINE power(k) == 2 ^ k
  <2>1. /\ power(0) = 1 /\ power(1) = 2 /\ power(2) = 4 /\ power(3) = 8 /\ power(4) = 16
        /\ power(5) = 32 /\ power(6) = 64 /\ power(7) = 128 /\ power(8) = 256
        /\ power(9) = 512 /\ power(10) = 1024
    OBVIOUS
  <2> HIDE DEF power
  <2>2. \A k \in 0 .. 10 : power(k) \in Nat
    BY <2>1
  <2> QED
    BY <2>2 DEF power
<1>3. 1024 \in PowersOfTwo /\ PowersOfTwo \subseteq Nat
  <2>1. 2 ^ 10 = 1024 /\ 10 \in 0 .. 10
    OBVIOUS
  <2> QED
    BY <1>2, <2>1 DEF PowersOfTwo
<1> DEFINE T == { n \in PowersOfTwo : n >= 3 * g }
<1>4. T \in SUBSET Nat /\ T # {}
  <2>1. 1024 >= 3 * g
    BY <1>1
  <2> QED
    BY ZenonT(40), <1>3, <2>1
<1>5. Min(T) \in T
  BY <1>4, MinIsLeast
<1> QED
  <2>1. PipelineSize(g) = Min(T)
    BY DEF PipelineSize
  <2>2. Min(T) \in Nat /\ Min(T) >= 3 * g
    BY <1>3, <1>5
  <2> HIDE DEF T
  <2> QED
    BY <1>1, <2>1, <2>2

-----------------------------------------------------------------------------
(* Lists of buffers.                                                       *)

LEMMA ListOf ==
  ASSUME NEW S, NEW q \in Seq(S)
  PROVE  /\ Len(q) \in Nat /\ DOMAIN q = 1 .. Len(q)
         /\ ToSet(q) = { q[k] : k \in 1 .. Len(q) } /\ ToSet(q) \in SUBSET S
         /\ IsInjective(q) <=> \A j, k \in 1 .. Len(q) : q[j] = q[k] => j = k
         /\ q = <<>> <=> ToSet(q) = {}
         /\ q = <<>> <=> Len(q) = 0
<1>1. Len(q) \in Nat /\ DOMAIN q = 1 .. Len(q)
  BY LenProperties
<1>2. \A k \in 1 .. Len(q) : q[k] \in S
  BY ElementOfSeq
<1>3. q # <<>> => Len(q) \in Nat \ {0}
  BY EmptySeq
<1>4. q = <<>> => Len(q) = 0
  BY EmptySeq
<1>5. ToSet(q) = { q[k] : k \in 1 .. Len(q) }
  BY <1>1 DEF ToSet
<1>6. q # <<>> => q[1] \in ToSet(q)
  BY <1>1, <1>3, <1>5
<1>7. q = <<>> => ToSet(q) = {}
  BY <1>1, <1>4, <1>5
<1>8. IsInjective(q) <=> \A j, k \in 1 .. Len(q) : q[j] = q[k] => j = k
  BY <1>1 DEF IsInjective
<1> QED
  BY <1>1, <1>2, <1>3, <1>4, <1>5, <1>6, <1>7, <1>8

LEMMA Appended ==
  ASSUME NEW S, NEW q \in Seq(S), NEW c \in S
  PROVE  /\ Append(q, c) \in Seq(S) /\ Len(Append(q, c)) = Len(q) + 1
         /\ ToSet(Append(q, c)) = ToSet(q) \cup { c }
         /\ IsInjective(q) /\ c \notin ToSet(q) => IsInjective(Append(q, c))
<1> DEFINE r == Append(q, c)
<1>1. /\ r \in Seq(S) /\ Len(r) = Len(q) + 1 /\ r[Len(q) + 1] = c
      /\ \A k \in 1 .. Len(q) : r[k] = q[k]
  BY AppendProperties
<1>2. /\ Len(q) \in Nat /\ ToSet(q) = { q[k] : k \in 1 .. Len(q) }
      /\ IsInjective(q) <=> \A j, k \in 1 .. Len(q) : q[j] = q[k] => j = k
  BY ListOf
<1>3. /\ ToSet(r) = { r[k] : k \in 1 .. Len(r) }
      /\ IsInjective(r) <=> \A j, k \in 1 .. Len(r) : r[j] = r[k] => j = k
  BY <1>1, ListOf
<1> HIDE DEF r
<1>4. ToSet(r) = ToSet(q) \cup { c }
  <2>1. \A k \in 1 .. Len(r) : r[k] = IF k = Len(q) + 1 THEN c ELSE q[k]
    BY <1>1, <1>2
  <2>2. Len(q) + 1 \in 1 .. Len(r) /\ 1 .. Len(q) \subseteq 1 .. Len(r)
    BY <1>1, <1>2
  <2>3. \A k \in 1 .. Len(r) : k = Len(q) + 1 \/ k \in 1 .. Len(q)
    BY <1>1, <1>2
  <2> QED
    BY <1>1, <1>2, <1>3, <2>1, <2>2, <2>3
<1>5. ASSUME IsInjective(q), c \notin ToSet(q) PROVE IsInjective(r)
  <2>1. ASSUME NEW j \in 1 .. Len(r), NEW k \in 1 .. Len(r), r[j] = r[k] PROVE j = k
    <3>1. \A l \in 1 .. Len(r) : l = Len(q) + 1 \/ l \in 1 .. Len(q)
      BY <1>1, <1>2
    <3>2. \A l \in 1 .. Len(q) : r[l] \in ToSet(q)
      BY <1>1, <1>2
    <3> QED
      BY <1>1, <1>2, <1>5, <2>1, <3>1, <3>2
  <2> QED
    BY <1>3, <2>1
<1> QED
  BY <1>1, <1>4, <1>5 DEF r

\* A list cut in two.
LEMMA Cut ==
  ASSUME NEW S, NEW q \in Seq(S), NEW n \in 0 .. Len(q)
  PROVE  /\ SubSeq(q, 1, n) \in Seq(S) /\ SubSeq(q, n + 1, Len(q)) \in Seq(S)
         /\ Len(SubSeq(q, 1, n)) = n /\ Len(SubSeq(q, n + 1, Len(q))) = Len(q) - n
         /\ \A k \in 1 .. n : SubSeq(q, 1, n)[k] = q[k]
         /\ \A k \in 1 .. Len(q) - n : SubSeq(q, n + 1, Len(q))[k] = q[n + k]
         /\ ToSet(SubSeq(q, 1, n)) = { q[k] : k \in 1 .. n }
         /\ ToSet(SubSeq(q, n + 1, Len(q))) = { q[k] : k \in n + 1 .. Len(q) }
         /\ ToSet(q) = ToSet(SubSeq(q, 1, n)) \cup ToSet(SubSeq(q, n + 1, Len(q)))
         /\ IsInjective(q) =>
              /\ IsInjective(SubSeq(q, 1, n)) /\ IsInjective(SubSeq(q, n + 1, Len(q)))
              /\ ToSet(SubSeq(q, 1, n)) \cap ToSet(SubSeq(q, n + 1, Len(q))) = {}
<1> DEFINE L == Len(q)
           a == SubSeq(q, 1, n)
           b == SubSeq(q, n + 1, L)
<1>1. /\ L \in Nat /\ n \in Nat /\ n <= L /\ \A k \in 1 .. L : q[k] \in S
      /\ ToSet(q) = { q[k] : k \in 1 .. L }
      /\ IsInjective(q) <=> \A j, k \in 1 .. L : q[j] = q[k] => j = k
  <2>1. L \in Nat
    BY LenProperties
  <2>2. \A k \in 1 .. L : q[k] \in S
    BY ElementOfSeq
  <2> QED
    BY <2>1, <2>2, ListOf
<1>2. a \in Seq(S) /\ Len(a) = n /\ \A k \in 1 .. n : a[k] = q[k]
  <2>1. 1 \in Int /\ n \in Int /\ \A k \in 1 .. n : q[k] \in S
    BY <1>1
  <2> HIDE DEF a, L
  <2>2. /\ a \in Seq(S) /\ Len(a) = (IF 1 <= n THEN n - 1 + 1 ELSE 0)
        /\ \A k \in 1 .. n - 1 + 1 : a[k] = q[1 + k - 1]
    BY <2>1, SubSeqProperties DEF a
  <2>3. n - 1 + 1 = n /\ \A k \in 1 .. n : 1 + k - 1 = k
    BY <1>1
  <2> QED
    BY <1>1, <2>2, <2>3
<1>3. b \in Seq(S) /\ Len(b) = L - n /\ \A k \in 1 .. L - n : b[k] = q[n + k]
  <2>1. n + 1 \in Int /\ L \in Int /\ \A k \in n + 1 .. L : q[k] \in S
    BY <1>1
  <2> HIDE DEF b, L
  <2>2. /\ b \in Seq(S) /\ Len(b) = (IF n + 1 <= L THEN L - (n + 1) + 1 ELSE 0)
        /\ \A k \in 1 .. L - (n + 1) + 1 : b[k] = q[n + 1 + k - 1]
    BY <2>1, SubSeqProperties DEF b
  <2>3. L - (n + 1) + 1 = L - n /\ \A k \in 1 .. L - n : n + 1 + k - 1 = n + k
    BY <1>1
  <2> QED
    BY <1>1, <2>2, <2>3
<1> HIDE DEF a, b, L
<1>4. ToSet(a) = { q[k] : k \in 1 .. n }
  BY <1>2, ListOf
<1>5. ToSet(b) = { q[k] : k \in n + 1 .. L }
  <2>1. ToSet(b) = { b[k] : k \in 1 .. L - n }
    BY <1>3, ListOf
  <2>2. \A k \in 1 .. L - n : n + k \in n + 1 .. L
    BY <1>1
  <2>3. \A k \in n + 1 .. L : k - n \in 1 .. L - n /\ n + (k - n) = k
    BY <1>1
  <2> QED
    BY <1>3, <2>1, <2>2, <2>3
<1>6. 1 .. L = (1 .. n) \cup (n + 1 .. L)
  BY <1>1
<1>7. ToSet(q) = ToSet(a) \cup ToSet(b)
  BY <1>1, <1>4, <1>5, <1>6
<1>8. ASSUME IsInjective(q)
      PROVE  IsInjective(a) /\ IsInjective(b) /\ ToSet(a) \cap ToSet(b) = {}
  <2>1. \A j, k \in 1 .. L : q[j] = q[k] => j = k
    BY <1>1, <1>8
  <2>2. IsInjective(a)
    <3>1. \A j, k \in 1 .. Len(a) : a[j] = a[k] => j = k
      BY <1>1, <1>2, <2>1
    <3> QED
      BY <1>2, <3>1, ListOf
  <2>3. IsInjective(b)
    <3>1. ASSUME NEW j \in 1 .. Len(b), NEW k \in 1 .. Len(b), b[j] = b[k] PROVE j = k
      <4>1. q[n + j] = q[n + k] /\ n + j \in 1 .. L /\ n + k \in 1 .. L
        BY <1>1, <1>3, <3>1
      <4>2. n + j = n + k
        BY <2>1, <4>1
      <4> QED
        BY <1>1, <4>2
    <3> QED
      BY <1>3, <3>1, ListOf
  <2>4. ToSet(a) \cap ToSet(b) = {}
    <3>1. ASSUME NEW j \in 1 .. n, NEW k \in n + 1 .. L PROVE q[j] # q[k]
      BY <1>1, <2>1
    <3> QED
      BY <1>4, <1>5, <3>1
  <2> QED
    BY <2>2, <2>3, <2>4
<1> QED
  BY <1>2, <1>3, <1>4, <1>5, <1>7, <1>8 DEF a, b, L

LEMMA Headed ==
  ASSUME NEW S, NEW q \in Seq(S), q # <<>>
  PROVE  /\ Head(q) \in ToSet(q) /\ Tail(q) \in Seq(S) /\ Len(Tail(q)) = Len(q) - 1
         /\ IsInjective(q) => IsInjective(Tail(q)) /\ ToSet(Tail(q)) = ToSet(q) \ { Head(q) }
<1> DEFINE b == SubSeq(q, 2, Len(q))
<1>1. Tail(q) = b
  BY TailIsSubSeq
<1>2. Len(q) \in Nat \ {0}
  BY EmptySeq
<1>3. Head(q) = q[1]
  <2>1. SubSeq(q, 1, Len(q)) = q
    BY SubSeqFull
  <2>2. 1 \in 1 .. Len(q) /\ Len(q) \in 1 .. Len(q)
    BY <1>2
  <2> QED
    BY <2>1, <2>2, HeadTailOfSubSeq
<1>4. 1 \in 0 .. Len(q) /\ 1 + 1 = 2 /\ 1 \in 1 .. Len(q)
  BY <1>2
<1>5. /\ b \in Seq(S) /\ Len(b) = Len(q) - 1
      /\ ToSet(SubSeq(q, 1, 1)) = { q[k] : k \in 1 .. 1 }
      /\ ToSet(q) = ToSet(SubSeq(q, 1, 1)) \cup ToSet(b)
      /\ IsInjective(q) => IsInjective(b) /\ ToSet(SubSeq(q, 1, 1)) \cap ToSet(b) = {}
  <2>1. PICK n \in 0 .. Len(q) : n = 1
    BY <1>4
  <2>2. /\ SubSeq(q, n + 1, Len(q)) \in Seq(S) /\ Len(SubSeq(q, n + 1, Len(q))) = Len(q) - n
        /\ ToSet(SubSeq(q, 1, n)) = { q[k] : k \in 1 .. n }
        /\ ToSet(q) = ToSet(SubSeq(q, 1, n)) \cup ToSet(SubSeq(q, n + 1, Len(q)))
        /\ IsInjective(q) => /\ IsInjective(SubSeq(q, n + 1, Len(q)))
                             /\ ToSet(SubSeq(q, 1, n)) \cap ToSet(SubSeq(q, n + 1, Len(q))) = {}
    BY Cut
  <2> QED
    BY <1>4, <2>1, <2>2
<1>6. ToSet(SubSeq(q, 1, 1)) = { q[1] }
  BY <1>5
<1> HIDE DEF b
<1> QED
  BY <1>1, <1>3, <1>5, <1>6

LEMMA Joined ==
  ASSUME NEW S, NEW q \in Seq(S), NEW r \in Seq(S)
  PROVE  /\ q \o r \in Seq(S) /\ Len(q \o r) = Len(q) + Len(r)
         /\ ToSet(q \o r) = ToSet(q) \cup ToSet(r)
         /\ IsInjective(q) /\ IsInjective(r) /\ ToSet(q) \cap ToSet(r) = {} => IsInjective(q \o r)
<1> DEFINE s == q \o r
           L == Len(q)
           M == Len(r)
<1>1. /\ s \in Seq(S) /\ Len(s) = L + M
      /\ \A k \in 1 .. L + M : s[k] = IF k <= L THEN q[k] ELSE r[k - L]
  BY ConcatProperties
<1>2. /\ L \in Nat /\ ToSet(q) = { q[k] : k \in 1 .. L }
      /\ IsInjective(q) <=> \A j, k \in 1 .. L : q[j] = q[k] => j = k
  BY ListOf
<1>3. /\ M \in Nat /\ ToSet(r) = { r[k] : k \in 1 .. M }
      /\ IsInjective(r) <=> \A j, k \in 1 .. M : r[j] = r[k] => j = k
  BY ListOf
<1>4. /\ ToSet(s) = { s[k] : k \in 1 .. L + M }
      /\ IsInjective(s) <=> \A j, k \in 1 .. L + M : s[j] = s[k] => j = k
  BY <1>1, ListOf
<1> HIDE DEF s, L, M
<1>5. \A k \in 1 .. L + M : \/ k \in 1 .. L /\ s[k] = q[k]
                            \/ k - L \in 1 .. M /\ s[k] = r[k - L]
  BY <1>1, <1>2, <1>3
<1>6. /\ \A k \in 1 .. L : k \in 1 .. L + M /\ s[k] = q[k]
      /\ \A k \in 1 .. M : k + L \in 1 .. L + M /\ s[k + L] = r[k]
  <2>1. ASSUME NEW k \in 1 .. L PROVE k \in 1 .. L + M /\ s[k] = q[k]
    BY <1>1, <1>2, <1>3
  <2>2. ASSUME NEW k \in 1 .. M PROVE k + L \in 1 .. L + M /\ s[k + L] = r[k]
    <3>1. k + L \in 1 .. L + M /\ ~(k + L <= L) /\ (k + L) - L = k
      BY <1>2, <1>3
    <3> QED
      BY <1>1, <3>1
  <2> QED
    BY <2>1, <2>2
<1>7. ToSet(s) = ToSet(q) \cup ToSet(r)
  <2>1. ToSet(s) \subseteq ToSet(q) \cup ToSet(r)
    BY <1>2, <1>3, <1>4, <1>5
  <2>2. \A k \in 1 .. L : q[k] \in ToSet(s)
    BY <1>4, <1>6
  <2>3. \A k \in 1 .. M : r[k] \in ToSet(s)
    BY <1>4, <1>6
  <2> QED
    BY <1>2, <1>3, <2>1, <2>2, <2>3
<1>8. ASSUME IsInjective(q), IsInjective(r), ToSet(q) \cap ToSet(r) = {}
      PROVE  IsInjective(s)
  <2>1. ASSUME NEW j \in 1 .. L + M, NEW k \in 1 .. L + M, s[j] = s[k] PROVE j = k
    <3>1. \A x \in 1 .. L, y \in 1 .. M : q[x] # r[y]
      BY SMTT(30), <1>2, <1>3, <1>8
    <3>2. CASE j \in 1 .. L /\ s[j] = q[j]
      BY <1>2, <1>5, <1>8, <2>1, <3>1, <3>2
    <3>3. CASE j - L \in 1 .. M /\ s[j] = r[j - L]
      <4>1. k - L \in 1 .. M /\ s[k] = r[k - L]
        BY <1>5, <2>1, <3>1, <3>3
      <4>2. j - L = k - L
        BY <1>3, <1>8, <2>1, <3>3, <4>1
      <4> QED
        BY <1>2, <4>2
    <3> QED
      BY <1>5, <3>2, <3>3
  <2> QED
    BY <1>4, <2>1
<1> QED
  BY <1>1, <1>7, <1>8 DEF s, L, M

-----------------------------------------------------------------------------
(* Sets of places, and buffers that move between them.                     *)

Disjoint(F) == \A p, q \in Places : p # q => F[p] \cap F[q] = {}
Everywhere(F) == UNION { F[p] : p \in Places }
Move(F, from, to, M) ==
  [p \in Places |-> IF p = from THEN F[p] \ M ELSE IF p = to THEN F[p] \cup M ELSE F[p]]

LEMMA Moved ==
  ASSUME NEW F, NEW from \in Places, NEW to \in Places, from # to,
         NEW M \in SUBSET F[from], Disjoint(F)
  PROVE  /\ Disjoint(Move(F, from, to, M))
         /\ Everywhere(Move(F, from, to, M)) = Everywhere(F)
<1> DEFINE G == Move(F, from, to, M)
<1>1. \A p \in Places : G[p] = IF p = from THEN F[p] \ M
                               ELSE IF p = to THEN F[p] \cup M ELSE F[p]
  BY DEF Move
<1> HIDE DEF G
<1>2. Disjoint(G)
  BY <1>1 DEF Disjoint
<1>3. ASSUME NEW b PROVE b \in Everywhere(G) <=> b \in Everywhere(F)
  <2>1. ASSUME NEW p \in Places, b \in G[p] PROVE \E q \in Places : b \in F[q]
    BY <1>1, <2>1
  <2>2. ASSUME NEW p \in Places, b \in F[p] PROVE \E q \in Places : b \in G[q]
    BY <1>1, <2>2
  <2> QED
    BY <2>1, <2>2 DEF Everywhere
<1> QED
  BY <1>2, <1>3 DEF G

-----------------------------------------------------------------------------
(* The inductive invariant.                                                *)

\* The card's rings and the responses that wait for it.
Network ==
  /\ pool \in SUBSET Buffers /\ lost \in SUBSET Buffers
  /\ rx \in [Endpoints -> Seq(Buffers)] /\ tx \in [Endpoints -> Seq(Buffers)]
  /\ pendingTx \in [Endpoints -> Seq(Buffers)] /\ late \in [Endpoints -> BOOLEAN]
  /\ \A e \in Endpoints :
       Len(rx[e]) <= RXDesc /\ Len(tx[e]) <= TXDesc /\ Len(pendingTx[e]) < TXBurst
  /\ arrived \in 0 .. MaxPackets

IsResponse(d) == d.kind = "response" /\ d.to \in 1 .. MaxPackets /\ d.answers \in Answers
Packet == DOMAIN data = Buffers /\ \A b \in Buffers : data[b] \in Contents \/ IsResponse(data[b])

\* The arrays of RequestAccessor and process().
Rows == [src : 0 .. NumBuffers, id : Ids, last : BOOLEAN]
Arrays ==
  /\ bufs \in Seq(Buffers) /\ Len(bufs) <= RXBurst /\ parsed \in 0 .. Len(bufs)
  /\ requests \in [0 .. Ring - 1 -> Rows]
  /\ batch \in [buf : Buffers, answers : Answers]
  /\ stageGap \in StageGaps
  /\ slots \in [0 .. PipelineSize(stageGap) - 1 -> Ids]

\* The requests retired when the loop is at n.
Behind(n) == IF n <= 3 * stageGap THEN 0 ELSE n - 3 * stageGap

\* How far the loop and the two ends of the window have come.
Progress ==
  /\ pc \in { "receive", "fetch", "execute", "check", "aborted" }
  /\ nextIndex \in Endpoints /\ ep \in Endpoints
  /\ i \in Nat /\ prepareIdx \in Nat /\ retireIdx \in Nat
  /\ retireIdx <= prepareIdx /\ prepareIdx - retireIdx <= Ring
  /\ prepareIdx <= parsed * MaxRequests
  /\ count = Unlimited \/ (count = prepareIdx /\ parsed = Len(bufs))
  /\ pc \in { "receive", "check" } => retireIdx = prepareIdx /\ parsed = Len(bufs)
  /\ pc \in { "fetch", "execute" } => retireIdx = Behind(i)
  /\ pc = "fetch" => IF count = Unlimited THEN i <= prepareIdx ELSE i < count + 3 * stageGap
  /\ pc = "execute" => IF count = Unlimited THEN i < prepareIdx ELSE i < count + 3 * stageGap

\* A buffer is in one place, and there once.  A worker that aborts holds none
\* for its next responses.
Home == [p \in Places |-> IF p[1] = "batch" /\ pc = "aborted" THEN {} ELSE Holding(p)]
Placed ==
  /\ Disjoint(Home)
  /\ pc # "aborted" => Everywhere(Home) = Buffers
  /\ IsInjective(Burst)
  /\ \A e \in Endpoints : IsInjective(rx[e]) /\ IsInjective(tx[e]) /\ IsInjective(pendingTx[e])

\* The requests of the window are those of whole packets, but for the first.
Row(k) == requests[k % Ring]
RowRight(k) ==
  LET r == Row(k) IN
  /\ r.src \in Buffers /\ HasRequests(r.src)
  /\ r.id = <<data[r.src].num, r.id[2]>> /\ r.id[2] \in 1 .. data[r.src].size
  /\ r.last <=> r.id[2] = data[r.src].size
  /\ k + 1 = prepareIdx => r.last
  /\ k + 1 \in Window => IF r.last THEN Row(k + 1).id[2] = 1
                         ELSE Row(k + 1).src = r.src /\ Row(k + 1).id[2] = r.id[2] + 1
  /\ \A l \in Window : Row(l).src = r.src => l - Row(l).id[2] = k - r.id[2]
InWindow == \A k \in Window : RowRight(k)

\* The answers to the first n requests of a packet.
AnswersTo(num, n) == [j \in 1 .. n |-> [id |-> RequestId(num, j), part |-> RequestId(num, j)]]

\* The pending batch answers what is retired of the packet at hand; the slots
\* hold the partitions of the requests that the first stages have passed.
Answering ==
  /\ pc # "aborted" =>
       batch.answers = IF Window = {} THEN <<>>
                       ELSE AnswersTo(Row(retireIdx).id[1], Row(retireIdx).id[2] - 1)
  /\ pc \in { "fetch", "execute" } =>
       \A k \in Window : (k < i - stageGap \/ (pc = "execute" /\ k = i - stageGap)) =>
         slots[k % PipelineSize(stageGap)] = Row(k).id

\* The packets on their way have numbers of their own, not yet answered.
Live == (UNION { ToSet(rx[e]) : e \in Endpoints }) \cup ToSet(Burst) \cup Held
Numbered ==
  /\ \A b \in Live : IsBatch(b) =>
       /\ data[b].num <= arrived
       /\ \A k \in DOMAIN replies : replies[k].to # data[b].num
       /\ \A c \in Live : IsBatch(c) /\ data[c].num = data[b].num => c = b
  /\ replies \in Seq([to : Nat, size : Nat, answers : Answers])
  /\ \A k \in DOMAIN replies :
       /\ replies[k].to \in 1 .. arrived
       /\ replies[k].answers = AnswersTo(replies[k].to, replies[k].size)
       /\ \A j \in DOMAIN replies : replies[j].to = replies[k].to => j = k

IInv == Network /\ Packet /\ Arrays /\ Progress /\ Placed /\ InWindow /\ Answering /\ Numbered

-----------------------------------------------------------------------------
(* The places.                                                             *)

AtPool == <<"pool", 0>>
AtLost == <<"lost", 0>>
AtBurst == <<"burst", 0>>
AtHeld == <<"held", 0>>
AtBatch == <<"batch", 0>>
AtRx(e) == <<"rx", e>>
AtTx(e) == <<"tx", e>>
AtPending(e) == <<"pending", e>>

Fixed == { AtPool, AtLost, AtBurst, AtHeld, AtBatch }
Own == IF pc = "aborted" THEN {} ELSE { batch.buf }

\* F says of every place which buffers are there.
Charts(F) ==
  /\ F[AtPool] = pool /\ F[AtLost] = lost /\ F[AtBurst] = ToSet(Burst)
  /\ F[AtHeld] = Held /\ F[AtBatch] = Own
  /\ \A e \in Endpoints : /\ F[AtRx(e)] = ToSet(rx[e]) /\ F[AtTx(e)] = ToSet(tx[e])
                          /\ F[AtPending(e)] = ToSet(pendingTx[e])

LEMMA PlacesApart ==
  /\ Fixed \subseteq Places
  /\ \A e \in Endpoints : AtRx(e) \in Places /\ AtTx(e) \in Places /\ AtPending(e) \in Places
  /\ \A p \in Places : \/ p \in Fixed
                       \/ \E e \in Endpoints : p \in { AtRx(e), AtTx(e), AtPending(e) }
  /\ AtPool \notin { AtLost, AtBurst, AtHeld, AtBatch }
  /\ AtLost \notin { AtPool, AtBurst, AtHeld, AtBatch }
  /\ AtBurst \notin { AtLost, AtPool, AtHeld, AtBatch }
  /\ AtHeld \notin { AtLost, AtBurst, AtPool, AtBatch }
  /\ AtBatch \notin { AtLost, AtBurst, AtHeld, AtPool }
  /\ \A e \in Endpoints : { AtRx(e), AtTx(e), AtPending(e) } \cap Fixed = {}
  /\ \A e, f \in Endpoints :
       /\ AtRx(e) # AtTx(f) /\ AtRx(e) # AtPending(f) /\ AtTx(e) # AtPending(f)
       /\ e # f => AtRx(e) # AtRx(f) /\ AtTx(e) # AtTx(f) /\ AtPending(e) # AtPending(f)
BY DEF Places, Fixed, AtPool, AtLost, AtBurst, AtHeld, AtBatch, AtRx, AtTx, AtPending

LEMMA HomeCharts == Charts(Home)
<1>1. \A e \in Endpoints :
        /\ AtRx(e) \in Places /\ Holding(AtRx(e)) = ToSet(rx[e]) /\ AtRx(e)[1] # "batch"
        /\ AtTx(e) \in Places /\ Holding(AtTx(e)) = ToSet(tx[e]) /\ AtTx(e)[1] # "batch"
        /\ AtPending(e) \in Places /\ Holding(AtPending(e)) = ToSet(pendingTx[e])
        /\ AtPending(e)[1] # "batch"
  BY DEF Places, Holding, AtRx, AtTx, AtPending
<1>2. /\ Holding(AtPool) = pool /\ Holding(AtLost) = lost /\ Holding(AtBurst) = ToSet(Burst)
      /\ Holding(AtHeld) = Held /\ Holding(AtBatch) = { batch.buf } /\ AtBatch[1] = "batch"
      /\ AtPool[1] # "batch" /\ AtLost[1] # "batch" /\ AtBurst[1] # "batch" /\ AtHeld[1] # "batch"
  BY DEF Holding, AtPool, AtLost, AtBurst, AtHeld, AtBatch
<1>3. Fixed \subseteq Places
  BY PlacesApart
<1> QED
  BY <1>1, <1>2, <1>3 DEF Home, Charts, Fixed, Own

\* F says of every place which buffers are there after the step.
ChartsNext(F) ==
  /\ F[AtPool] = pool' /\ F[AtLost] = lost' /\ F[AtBurst] = ToSet(Burst')
  /\ F[AtHeld] = Held' /\ F[AtBatch] = Own'
  /\ \A e \in Endpoints : /\ F[AtRx(e)] = ToSet(rx'[e]) /\ F[AtTx(e)] = ToSet(tx'[e])
                          /\ F[AtPending(e)] = ToSet(pendingTx'[e])

LEMMA HomeChartsNext == ChartsNext(Home')
<1>1. \A e \in Endpoints :
        /\ AtRx(e) \in Places /\ Holding(AtRx(e))' = ToSet(rx'[e]) /\ AtRx(e)[1] # "batch"
        /\ AtTx(e) \in Places /\ Holding(AtTx(e))' = ToSet(tx'[e]) /\ AtTx(e)[1] # "batch"
        /\ AtPending(e) \in Places /\ Holding(AtPending(e))' = ToSet(pendingTx'[e])
        /\ AtPending(e)[1] # "batch"
  BY DEF Places, Holding, AtRx, AtTx, AtPending
<1>2. /\ Holding(AtPool)' = pool' /\ Holding(AtLost)' = lost' /\ Holding(AtBurst)' = ToSet(Burst')
      /\ Holding(AtHeld)' = Held' /\ Holding(AtBatch)' = { batch'.buf } /\ AtBatch[1] = "batch"
      /\ AtPool[1] # "batch" /\ AtLost[1] # "batch" /\ AtBurst[1] # "batch" /\ AtHeld[1] # "batch"
  BY DEF Holding, AtPool, AtLost, AtBurst, AtHeld, AtBatch
<1>3. Fixed \subseteq Places
  BY PlacesApart
<1> QED
  BY <1>1, <1>2, <1>3 DEF Home, ChartsNext, Fixed, Own

\* After a step, the buffers are where any description says they are.
LEMMA Charted ==
  ASSUME NEW F, ChartsNext(F), Disjoint(F)
  PROVE  Disjoint(Home') /\ Everywhere(Home') = Everywhere(F)
<1>1. ChartsNext(Home')
  BY HomeChartsNext
<1>2. \A p \in Places : Home'[p] = F[p]
  BY <1>1, PlacesApart DEF ChartsNext, Fixed
<1> QED
  BY <1>2 DEF Disjoint, Everywhere

-----------------------------------------------------------------------------
(* What a step leaves alone.                                               *)

LEMMA LiveApart ==
  ASSUME Placed
  PROVE  /\ pool \cap Live = {} /\ lost \cap Live = {} /\ Own \cap Live = {}
         /\ \A e \in Endpoints : /\ ToSet(tx[e]) \cap Live = {} /\ ToSet(pendingTx[e]) \cap Live = {}
                                 /\ ToSet(rx[e]) \cap pool = {}
<1>1. Charts(Home) /\ Disjoint(Home)
  BY HomeCharts DEF Placed
<1>2. ASSUME NEW p \in Places, p # AtBurst, p # AtHeld, \A e \in Endpoints : p # AtRx(e)
      PROVE  Home[p] \cap Live = {}
  <2>1. \A e \in Endpoints : Home[p] \cap Home[AtRx(e)] = {}
    BY <1>1, <1>2, PlacesApart DEF Disjoint
  <2>2. Home[p] \cap Home[AtBurst] = {} /\ Home[p] \cap Home[AtHeld] = {}
    BY <1>1, <1>2, PlacesApart DEF Disjoint, Fixed
  <2> QED
    BY <1>1, <2>1, <2>2 DEF Charts, Live
<1>3. \A e \in Endpoints : ToSet(rx[e]) \cap pool = {}
  BY <1>1, PlacesApart DEF Charts, Disjoint, Fixed
<1>4. \A e \in Endpoints : AtRx(e) \notin Fixed
  BY PlacesApart
<1>5. Home[AtPool] \cap Live = {} /\ Home[AtLost] \cap Live = {} /\ Home[AtBatch] \cap Live = {}
  BY <1>2, <1>4, PlacesApart DEF Fixed
<1>6. \A e \in Endpoints : Home[AtTx(e)] \cap Live = {} /\ Home[AtPending(e)] \cap Live = {}
  BY <1>2, PlacesApart DEF Fixed
<1> QED
  BY <1>1, <1>3, <1>5, <1>6 DEF Charts

LEMMA NumberedKept ==
  ASSUME Numbered, UNCHANGED <<arrived, replies>>, Live' \subseteq Live,
         \A b \in Live' : data'[b] = data[b]
  PROVE  Numbered'
BY DEF Numbered, IsBatch

LEMMA WindowKept ==
  ASSUME InWindow, UNCHANGED <<requests, retireIdx, prepareIdx>>,
         \A b \in Held : data'[b] = data[b]
  PROVE  InWindow' /\ Held' = Held
<1>1. Window' = Window /\ Held' = Held /\ \A k : Row(k)' = Row(k)
  BY DEF Window, Held, Row
<1>2. \A k \in Window : Row(k).src \in Held
  BY DEF Held, Row
<1>3. ASSUME NEW k \in Window, RowRight(k) PROVE RowRight(k)'
  BY <1>1, <1>2, <1>3 DEF RowRight, HasRequests, IsBatch
<1> QED
  BY <1>1, <1>3 DEF InWindow

\* A step of the card or of the clock.
LEMMA ProcessKept ==
  ASSUME UNCHANGED <<pc, nextIndex, ep, accessor, pipeline, stageGap>>
  PROVE  /\ Arrays => Arrays'
         /\ Progress => Progress'
         /\ UNCHANGED <<Burst, Held, Own>>
         /\ UNCHANGED replies => (Answering => Answering')
BY DEF accessor, pipeline, Arrays, Progress, Behind, Burst, Held, Own, Window, Answering, Row

-----------------------------------------------------------------------------
(* The card and the clock.                                                 *)

LEMMA ArriveSteps ==
  ASSUME IInv, NEW e \in Endpoints, NEW packet \in Packets, Arrive(e, packet)
  PROVE  IInv'
<1> DEFINE b == Fresh(pool)
<1>1. /\ arrived < MaxPackets /\ Len(rx[e]) < RXDesc /\ pool # {}
      /\ pool' = pool \ { b } /\ data' = [data EXCEPT ![b] = packet]
      /\ rx' = [rx EXCEPT ![e] = Append(rx[e], b)] /\ arrived' = arrived + 1
      /\ UNCHANGED <<tx, pc, worker, accessor, pipeline, stageGap, history>>
  BY DEF Arrive
<1>2. b \in pool /\ b \in Buffers /\ pool \in SUBSET Buffers
  BY <1>1, FreshIsFree DEF IInv, Network
<1> HIDE DEF b
<1>3. /\ UNCHANGED <<nextIndex, ep, pendingTx, late, lost, replies>>
      /\ Arrays' /\ Progress' /\ Answering' /\ UNCHANGED <<Burst, Held, Own>>
  BY <1>1, ProcessKept DEF worker, history, IInv
<1>4. /\ rx \in [Endpoints -> Seq(Buffers)] /\ rx[e] \in Seq(Buffers) /\ IsInjective(rx[e])
      /\ arrived \in 0 .. MaxPackets /\ MaxPackets \in Nat /\ RXDesc \in Nat
  BY ServerAssumption DEF IInv, Network, Placed
<1>5. b \notin ToSet(rx[e]) /\ b \notin Live
  BY <1>2, LiveApart DEF IInv
<1> DEFINE q == Append(rx[e], b)
<1>6. /\ q \in Seq(Buffers) /\ Len(q) = Len(rx[e]) + 1 /\ IsInjective(q)
      /\ ToSet(q) = ToSet(rx[e]) \cup { b }
  BY <1>2, <1>4, <1>5, Appended
<1> HIDE DEF q
<1>7. rx' \in [Endpoints -> Seq(Buffers)] /\ \A f \in Endpoints : rx'[f] = IF f = e THEN q ELSE rx[f]
  BY <1>1, <1>4, <1>6 DEF q
<1>8. Network'
  <2>1. Len(rx[e]) \in Nat
    BY <1>4, LenProperties
  <2>2. \A f \in Endpoints : Len(rx'[f]) <= RXDesc
    BY <1>1, <1>4, <1>6, <1>7, <2>1 DEF IInv, Network
  <2>3. arrived' \in 0 .. MaxPackets
    BY <1>1, <1>4
  <2> QED
    BY <1>1, <1>2, <1>3, <1>7, <2>2, <2>3 DEF IInv, Network
<1>9. packet \in Contents /\ (packet.kind = "request" => packet.num = arrived + 1)
  <2>1. arrived + 1 \in 1 .. MaxPackets
    BY <1>1, <1>4
  <2>2. CASE packet = BadPacket
    BY <2>2 DEF Contents, BadPacket
  <2>3. CASE \E n \in Sizes : packet = Batch(arrived + 1, n)
    BY <2>1, <2>3 DEF Contents, Batch
  <2> QED
    BY <2>2, <2>3 DEF Packets
<1>10. DOMAIN data = Buffers /\ \A c \in Buffers : data[c] \in Contents \/ IsResponse(data[c])
  BY DEF IInv, Packet
<1>11. /\ DOMAIN data' = Buffers
       /\ \A c \in Buffers : data'[c] = IF c = b THEN packet ELSE data[c]
  BY <1>1, <1>2, <1>10
<1>12. Packet'
  BY <1>9, <1>10, <1>11 DEF Packet, IsResponse
<1>13. Placed'
  <2> DEFINE F == Move(Home, AtPool, AtRx(e), { b })
  <2>1. Charts(Home) /\ Disjoint(Home) /\ (pc # "aborted" => Everywhere(Home) = Buffers)
    BY HomeCharts DEF IInv, Placed
  <2>2. AtPool \in Places /\ AtRx(e) \in Places /\ AtPool # AtRx(e)
    BY PlacesApart DEF Fixed
  <2>3. { b } \in SUBSET Home[AtPool]
    BY <1>2, <2>1 DEF Charts
  <2>4. Disjoint(F) /\ Everywhere(F) = Everywhere(Home)
    BY <2>1, <2>2, <2>3, Moved
  <2>5. \A p \in Places : F[p] = IF p = AtPool THEN Home[p] \ { b }
                                 ELSE IF p = AtRx(e) THEN Home[p] \cup { b } ELSE Home[p]
    BY DEF Move
  <2> HIDE DEF F
  <2>6. ChartsNext(F)
    BY ZenonT(40), <1>1, <1>3, <1>6, <1>7, <2>1, <2>5, PlacesApart DEF Charts, ChartsNext, Fixed
  <2>7. Disjoint(Home') /\ Everywhere(Home') = Everywhere(F)
    BY <2>4, <2>6, Charted
  <2> QED
    BY <1>1, <1>3, <1>6, <1>7, <2>1, <2>4, <2>7 DEF IInv, Placed
<1>14. \A c \in Held : data'[c] = data[c]
  <2>1. Held \subseteq Live
    BY DEF Live
  <2>2. Held \subseteq Buffers
    BY DEF IInv, InWindow, RowRight, Held, Row
  <2> QED
    BY <1>5, <1>11, <2>1, <2>2
<1>15. InWindow'
  BY <1>1, <1>14, WindowKept DEF accessor, IInv
<1>16. Numbered'
  <2>1. Live' = Live \cup { b }
    BY <1>3, <1>6, <1>7 DEF Live
  <2>2. \A c \in Live : c # b /\ c \in Buffers
    <3>1. \A f \in Endpoints : ToSet(rx[f]) \in SUBSET Buffers
      BY <1>4, ListOf
    <3>2. Burst \in Seq(Buffers)
      BY Cut DEF Burst, IInv, Arrays
    <3>3. Held \subseteq Buffers
      BY DEF IInv, InWindow, RowRight, Held, Row
    <3> QED
      BY <1>5, <3>1, <3>2, <3>3, ListOf DEF Live
  <2>3. \A c \in Live' : data'[c] = IF c = b THEN packet ELSE data[c]
    BY <1>2, <1>11, <2>1, <2>2
  <2>4. \A c \in Live : IsBatch(c) => data[c].num \in Nat /\ data[c].num <= arrived
    <3>1. \A c \in Live : IsBatch(c) => data[c].num \in Nat
      <4>1. \A c \in Buffers : IsBatch(c) => data[c] \in [kind : {"request"}, num : 1 .. MaxPackets, size : Sizes]
        BY <1>10 DEF IsBatch, Contents, NoPacket, BadPacket, IsResponse
      <4> QED
        BY <2>2, <4>1
    <3> QED
      BY <3>1 DEF IInv, Numbered
  <2>5. \A k \in DOMAIN replies : replies[k].to \in 1 .. arrived
    BY DEF IInv, Numbered
  <2>6. \A c \in Live' : IsBatch(c)' =>
           /\ data'[c].num <= arrived'
           /\ \A k \in DOMAIN replies : replies[k].to # data'[c].num
           /\ \A d \in Live' : IsBatch(d)' /\ data'[d].num = data'[c].num => d = c
    <3>1. ASSUME NEW c \in Live', IsBatch(c)'
          PROVE  IF c = b THEN data'[c].num = arrived + 1
                 ELSE c \in Live /\ IsBatch(c) /\ data'[c].num = data[c].num /\ data[c].num \in 0 .. arrived
      BY <1>4, <1>9, <2>1, <2>3, <2>4, <3>1 DEF IsBatch
    <3>2. \A k \in DOMAIN replies : replies[k].to # arrived + 1
      BY <1>4, <2>5
    <3> SUFFICES ASSUME NEW c \in Live', IsBatch(c)'
                 PROVE  /\ data'[c].num <= arrived'
                        /\ \A k \in DOMAIN replies : replies[k].to # data'[c].num
                        /\ \A d \in Live' : IsBatch(d)' /\ data'[d].num = data'[c].num => d = c
      OBVIOUS
    <3>3. data'[c].num <= arrived'
      BY <1>1, <1>4, <3>1
    <3>4. \A k \in DOMAIN replies : replies[k].to # data'[c].num
      BY <3>1, <3>2 DEF IInv, Numbered
    <3>5. ASSUME NEW d \in Live', IsBatch(d)', data'[d].num = data'[c].num PROVE d = c
      BY <1>4, <3>1, <3>5 DEF IInv, Numbered
    <3> QED
      BY <3>3, <3>4, <3>5
  <2>7. \A k \in DOMAIN replies : replies[k].to \in 1 .. arrived'
    BY <1>1, <1>4, <2>5
  <2> QED
    BY <1>3, <2>6, <2>7 DEF IInv, Numbered
<1> QED
  BY <1>3, <1>8, <1>12, <1>13, <1>15, <1>16 DEF IInv

LEMMA TransmitSteps ==
  ASSUME IInv, NEW e \in Endpoints, Transmit(e)
  PROVE  IInv'
<1> DEFINE q == tx[e]
           b == Head(tx[e])
<1>1. /\ q # <<>> /\ tx' = [tx EXCEPT ![e] = Tail(q)] /\ pool' = pool \cup { b }
      /\ UNCHANGED <<data, rx, arrived, bad, pc, worker, accessor, pipeline, stageGap, history>>
  BY DEF Transmit
<1>2. /\ UNCHANGED <<nextIndex, ep, pendingTx, late, lost, replies>>
      /\ Arrays' /\ Progress' /\ Answering' /\ UNCHANGED <<Burst, Held, Own>>
  BY <1>1, ProcessKept DEF worker, history, IInv
<1>3. tx \in [Endpoints -> Seq(Buffers)] /\ q \in Seq(Buffers) /\ IsInjective(q)
  BY DEF IInv, Network, Placed
<1>4. /\ b \in ToSet(q) /\ b \in Buffers /\ Tail(q) \in Seq(Buffers) /\ Len(Tail(q)) = Len(q) - 1
      /\ IsInjective(Tail(q)) /\ ToSet(Tail(q)) = ToSet(q) \ { b }
  BY <1>1, <1>3, Headed, ListOf
<1>5. /\ tx' \in [Endpoints -> Seq(Buffers)]
      /\ \A f \in Endpoints : tx'[f] = IF f = e THEN Tail(q) ELSE tx[f]
  BY <1>1, <1>3, <1>4
<1> HIDE DEF b
<1>6. Network'
  <2>1. Len(q) \in Nat /\ TXDesc \in Nat
    BY <1>3, LenProperties, ServerAssumption
  <2>2. \A f \in Endpoints : Len(tx'[f]) <= TXDesc
    BY <1>4, <1>5, <2>1 DEF IInv, Network
  <2> QED
    BY <1>1, <1>2, <1>4, <1>5, <2>2 DEF IInv, Network
<1>7. Packet'
  BY <1>1 DEF IInv, Packet, IsResponse
<1>8. Placed'
  <2> DEFINE F == Move(Home, AtTx(e), AtPool, { b })
  <2>1. Charts(Home) /\ Disjoint(Home) /\ (pc # "aborted" => Everywhere(Home) = Buffers)
    BY HomeCharts DEF IInv, Placed
  <2>2. AtPool \in Places /\ AtTx(e) \in Places /\ AtPool # AtTx(e)
    BY PlacesApart DEF Fixed
  <2>3. { b } \in SUBSET Home[AtTx(e)]
    BY <1>4, <2>1 DEF Charts
  <2>4. Disjoint(F) /\ Everywhere(F) = Everywhere(Home)
    BY <2>1, <2>2, <2>3, Moved
  <2>5. \A p \in Places : F[p] = IF p = AtTx(e) THEN Home[p] \ { b }
                                 ELSE IF p = AtPool THEN Home[p] \cup { b } ELSE Home[p]
    BY DEF Move
  <2> HIDE DEF F
  <2>6. ChartsNext(F)
    <3>1. \A f \in Endpoints : F[AtTx(f)] = ToSet(tx'[f])
      <4>1. \A f \in Endpoints : /\ AtTx(f) \in Places /\ AtTx(f) # AtPool /\ Home[AtTx(f)] = ToSet(tx[f])
                                 /\ f # e => AtTx(f) # AtTx(e)
        BY <2>1, PlacesApart DEF Charts, Fixed
      <4>2. F[AtTx(e)] = ToSet(tx'[e])
        BY <1>4, <1>5, <2>1, <2>2, <2>5 DEF Charts
      <4>3. ASSUME NEW f \in Endpoints, f # e PROVE F[AtTx(f)] = ToSet(tx'[f])
        BY <1>5, <2>5, <4>1, <4>3
      <4> QED
        BY <4>2, <4>3
    <3>2. \A f \in Endpoints : /\ F[AtRx(f)] = ToSet(rx'[f]) /\ F[AtPending(f)] = ToSet(pendingTx'[f])
      BY <1>1, <1>2, <2>1, <2>5, PlacesApart DEF Charts, Fixed
    <3>3. F[AtPool] = pool'
      BY <1>1, <2>1, <2>2, <2>5 DEF Charts
    <3>4. /\ F[AtLost] = lost' /\ F[AtBurst] = ToSet(Burst') /\ F[AtHeld] = Held' /\ F[AtBatch] = Own'
      BY <1>2, <2>1, <2>5, PlacesApart DEF Charts, Fixed
    <3> QED
      BY <3>1, <3>2, <3>3, <3>4 DEF ChartsNext
  <2>7. Disjoint(Home') /\ Everywhere(Home') = Everywhere(F)
    BY <2>4, <2>6, Charted
  <2> QED
    BY <1>1, <1>2, <1>4, <1>5, <2>1, <2>4, <2>7 DEF IInv, Placed
<1>9. InWindow'
  BY <1>1, WindowKept DEF accessor, IInv
<1>10. Numbered'
  <2>1. Live' = Live
    BY <1>1, <1>2 DEF Live
  <2> QED
    BY <1>1, <1>2, <2>1, NumberedKept DEF IInv
<1> QED
  BY <1>2, <1>6, <1>7, <1>8, <1>9, <1>10 DEF IInv

\* A step that moves no buffer.
LEMMA NothingMoves ==
  ASSUME Placed, UNCHANGED <<pool, lost, rx, tx, pendingTx, Burst, Held, Own>>,
         pc' # "aborted" => pc # "aborted"
  PROVE  Placed'
<1>1. Charts(Home) /\ Disjoint(Home)
  BY HomeCharts DEF Placed
<1>2. ChartsNext(Home)
  BY <1>1 DEF Charts, ChartsNext
<1>3. Disjoint(Home') /\ Everywhere(Home') = Everywhere(Home)
  BY <1>1, <1>2, Charted
<1> QED
  BY <1>3 DEF Placed

LEMMA QuietSteps ==
  ASSUME IInv, UNCHANGED vars \/ \E e \in Endpoints : Age(e)
  PROVE  IInv'
<1>1. UNCHANGED <<network, pc, nextIndex, ep, pendingTx, accessor, pipeline, stageGap, history>>
  BY DEF vars, Age, worker
<1>2. Arrays' /\ Progress' /\ Answering' /\ UNCHANGED <<Burst, Held, Own>>
  BY <1>1, ProcessKept DEF history, IInv
<1>3. late' \in [Endpoints -> BOOLEAN]
  BY DEF vars, worker, Age, IInv, Network
<1>4. Network' /\ Packet'
  BY <1>1, <1>3 DEF IInv, Network, Packet, network, history, IsResponse
<1>5. Placed'
  BY <1>1, <1>2, NothingMoves DEF network, history, IInv
<1>6. InWindow'
  BY <1>1, WindowKept DEF accessor, network, IInv
<1>7. Numbered'
  <2>1. Live' = Live
    BY <1>1, <1>2 DEF Live, network
  <2> QED
    BY <1>1, <2>1, NumberedKept DEF network, history, IInv
<1> QED
  BY <1>2, <1>4, <1>5, <1>6, <1>7 DEF IInv

-----------------------------------------------------------------------------
(* The worker.                                                             *)

LEMMA OneMove ==
  ASSUME Placed, NEW from \in Places, NEW to \in Places, from # to,
         NEW M \in SUBSET Home[from], NEW F, F = Move(Home, from, to, M), ChartsNext(F)
  PROVE  Disjoint(Home') /\ Everywhere(Home') = Everywhere(Home)
<1>1. Disjoint(Home)
  BY DEF Placed
<1>2. Disjoint(F) /\ Everywhere(F) = Everywhere(Home)
  BY <1>1, Moved
<1> QED
  BY <1>2, Charted

\* The buffers of the lists are buffers, and a batch of requests has a number and a size.
LEMMA InBuffers ==
  ASSUME IInv
  PROVE  /\ Burst \in Seq(Buffers) /\ Held \subseteq Buffers /\ Live \subseteq Buffers
         /\ \A c \in Buffers : IsBatch(c) =>
              data[c].num \in 1 .. MaxPackets /\ data[c].size \in Sizes
         /\ Sizes \subseteq 0 .. MaxRequests
<1>1. Burst \in Seq(Buffers)
  BY Cut DEF Burst, IInv, Arrays
<1>2. Held \subseteq Buffers
  BY DEF IInv, InWindow, RowRight, Held, Row
<1>3. \A f \in Endpoints : ToSet(rx[f]) \in SUBSET Buffers
  <2>1. \A f \in Endpoints : rx[f] \in Seq(Buffers)
    BY DEF IInv, Network
  <2> QED
    BY <2>1, ListOf
<1>4. Live \subseteq Buffers
  BY <1>1, <1>2, <1>3, ListOf DEF Live
<1>5. \A c \in Buffers : IsBatch(c) =>
        data[c].num \in 1 .. MaxPackets /\ data[c].size \in Sizes
  BY DEF IInv, Packet, IsBatch, Contents, NoPacket, BadPacket, IsResponse
<1> QED
  BY <1>1, <1>2, <1>4, <1>5, ServerAssumption

\* Nothing is under way between two bursts.
LEMMA Resting ==
  ASSUME IInv, pc \in { "receive", "check" }
  PROVE  Window = {} /\ Held = {} /\ Burst = <<>> /\ Own = { batch.buf } /\ batch.answers = <<>>
<1>1. retireIdx \in Nat /\ prepareIdx = retireIdx /\ parsed = Len(bufs)
  BY DEF IInv, Progress
<1>2. Window = {} /\ Held = {}
  BY <1>1 DEF Window, Held
<1>3. Burst = <<>>
  <2>1. bufs \in Seq(Buffers) /\ parsed \in 0 .. Len(bufs) /\ Len(bufs) \in Nat
    BY LenProperties DEF IInv, Arrays
  <2>2. Len(Burst) = Len(bufs) - parsed /\ Burst \in Seq(Buffers)
    BY <2>1, Cut DEF Burst
  <2>3. Len(Burst) = 0
    BY <1>1, <2>1, <2>2
  <2> QED
    BY <2>2, <2>3, ListOf
<1>4. Own = { batch.buf } /\ batch.answers = <<>>
  BY <1>2 DEF Own, IInv, Answering
<1> QED
  BY <1>2, <1>3, <1>4

LEMMA ReceiveSteps ==
  ASSUME IInv, Receive
  PROVE  IInv'
<1> DEFINE e == nextIndex
           q == rx[e]
           n == Min({ RXBurst, Len(q) })
           a == SubSeq(q, 1, n)
           b == SubSeq(q, n + 1, Len(q))
<1>1. /\ pc = "receive" /\ ep' = e /\ nextIndex' = (e + 1) % NumEndpoints
      /\ bufs' = a /\ rx' = [rx EXCEPT ![e] = b] /\ pc' = IF n > 0 THEN "fetch" ELSE "check"
      /\ parsed' = 0 /\ prepareIdx' = 0 /\ retireIdx' = 0
      /\ i' = 0 /\ count' = Unlimited /\ slots' = NoSlots(stageGap)
      /\ UNCHANGED <<pool, data, tx, arrived, bad, pendingTx, late, requests,
                     batch, stageGap, lost, replies>>
  BY DEF Receive, history
<1>2. e \in Endpoints /\ q \in Seq(Buffers) /\ Len(q) \in Nat /\ IsInjective(q)
      /\ rx \in [Endpoints -> Seq(Buffers)] /\ Len(q) <= RXDesc
  BY LenProperties DEF IInv, Progress, Network, Placed
<1>3. /\ NumEndpoints \in Nat \ {0} /\ RXBurst \in Nat \ {0} /\ MaxRequests \in Nat /\ RXDesc \in Nat
      /\ MaxPackets \in Nat
  BY ServerAssumption
<1>4. n \in 0 .. Len(q) /\ n <= RXBurst
  BY <1>2, <1>3, MinOfTwo
<1>5. /\ a \in Seq(Buffers) /\ b \in Seq(Buffers) /\ Len(a) = n /\ Len(b) = Len(q) - n
      /\ ToSet(q) = ToSet(a) \cup ToSet(b) /\ ToSet(a) \cap ToSet(b) = {}
      /\ IsInjective(a) /\ IsInjective(b)
  <2> HIDE DEF n
  <2> QED
    BY <1>2, <1>4, Cut
<1> HIDE DEF a, b, n
<1>6. Window = {} /\ Held = {} /\ Burst = <<>> /\ Own = { batch.buf } /\ batch.answers = <<>>
  BY <1>1, Resting
<1>7. Window' = {} /\ Held' = {} /\ Own' = Own
  <2>1. Window' = {}
    BY <1>1 DEF Window
  <2> QED
    BY <1>1, <1>6, <2>1 DEF Held, Own
<1>8. Burst' = a
  <2>1. Burst' = SubSeq(a, 0 + 1, Len(a))
    BY <1>1 DEF Burst
  <2>2. SubSeq(a, 1, Len(a)) = a
    BY <1>5, SubSeqFull
  <2> QED
    BY <2>1, <2>2
<1>9. /\ rx' \in [Endpoints -> Seq(Buffers)]
      /\ \A f \in Endpoints : rx'[f] = IF f = e THEN b ELSE rx[f]
  BY <1>1, <1>2, <1>5
<1>10. Network'
  <2>1. \A f \in Endpoints : Len(rx'[f]) <= RXDesc
    <3>1. \A f \in Endpoints : Len(rx[f]) <= RXDesc
      BY DEF IInv, Network
    <3>2. Len(b) <= RXDesc
      BY <1>2, <1>3, <1>4, <1>5
    <3> QED
      BY <1>9, <3>1, <3>2
  <2> QED
    BY <1>1, <1>9, <2>1 DEF IInv, Network
<1>11. Packet'
  BY <1>1 DEF IInv, Packet, IsResponse
<1>12. Arrays'
  <2>1. NoSlots(stageGap) \in [0 .. PipelineSize(stageGap) - 1 -> Ids]
    BY <1>3 DEF NoSlots, Ids
  <2>2. parsed' \in 0 .. Len(bufs') /\ Len(bufs') <= RXBurst
    BY <1>1, <1>4, <1>5
  <2> QED
    BY <1>1, <1>5, <2>1, <2>2 DEF IInv, Arrays
<1>13. Progress'
  <2>1. nextIndex' \in Endpoints
    <3>1. e + 1 \in Int
      BY <1>2, <1>3 DEF Endpoints
    <3> QED
      BY <1>1, <1>3, <3>1, ModDef DEF Endpoints
  <2>2. 0 <= 0 * MaxRequests /\ Ring \in Nat
    BY <1>3, ServerAssumption
  <2>3. Behind(i)' = 0
    <3>1. stageGap \in Nat
      BY <1>1, PipelineHolds DEF IInv, Arrays
    <3>2. i' <= 3 * stageGap'
      BY <1>1, <3>1
    <3> QED
      BY <3>2 DEF Behind
  <2>4. n > 0 \/ parsed' = Len(bufs')
    BY <1>1, <1>4, <1>5
  <2>5. pc' \in { "fetch", "check" } /\ (pc' = "check" => parsed' = Len(bufs'))
    BY <1>1, <2>4
  <2>6. retireIdx' <= prepareIdx' /\ prepareIdx' - retireIdx' <= Ring
    BY <1>1, <2>2
  <2>7. prepareIdx' <= parsed' * MaxRequests
    BY <1>1, <2>2
  <2>8. retireIdx' = Behind(i)'
    BY <1>1, <2>3
  <2> QED
    BY <1>1, <1>2, <2>1, <2>5, <2>6, <2>7, <2>8 DEF Progress, Unlimited
<1>14. Placed'
  <2> DEFINE F == Move(Home, AtRx(e), AtBurst, ToSet(a))
  <2>1. Charts(Home)
    BY HomeCharts
  <2>2. AtRx(e) \in Places /\ AtBurst \in Places /\ AtRx(e) # AtBurst
    BY <1>2, PlacesApart DEF Fixed
  <2>3. ToSet(a) \in SUBSET Home[AtRx(e)]
    BY <1>2, <1>5, <2>1 DEF Charts
  <2>4. \A p \in Places : F[p] = IF p = AtRx(e) THEN Home[p] \ ToSet(a)
                                 ELSE IF p = AtBurst THEN Home[p] \cup ToSet(a) ELSE Home[p]
    BY DEF Move
  <2>5. F = Move(Home, AtRx(e), AtBurst, ToSet(a))
    OBVIOUS
  <2> HIDE DEF F
  <2>6. ChartsNext(F)
    <3>1. \A f \in Endpoints : F[AtRx(f)] = ToSet(rx'[f])
      <4>1. \A f \in Endpoints : /\ AtRx(f) \in Places /\ AtRx(f) # AtBurst /\ Home[AtRx(f)] = ToSet(rx[f])
                                 /\ f # e => AtRx(f) # AtRx(e)
        BY <1>2, <2>1, PlacesApart DEF Charts, Fixed
      <4>2. F[AtRx(e)] = ToSet(rx'[e])
        <5>1. F[AtRx(e)] = Home[AtRx(e)] \ ToSet(a) /\ Home[AtRx(e)] = ToSet(q)
          BY <1>2, <2>2, <2>4, <4>1
        <5>2. rx'[e] = b
          BY <1>2, <1>9
        <5>3. ToSet(q) \ ToSet(a) = ToSet(b)
          BY <1>5
        <5> QED
          BY <5>1, <5>2, <5>3
      <4>3. ASSUME NEW f \in Endpoints, f # e PROVE F[AtRx(f)] = ToSet(rx'[f])
        BY <1>9, <2>4, <4>1, <4>3
      <4> QED
        BY <4>2, <4>3
    <3>2. \A f \in Endpoints : /\ F[AtTx(f)] = ToSet(tx'[f]) /\ F[AtPending(f)] = ToSet(pendingTx'[f])
      BY <1>1, <1>2, <2>1, <2>4, PlacesApart DEF Charts, Fixed
    <3>3. F[AtBurst] = ToSet(Burst')
      <4>1. Home[AtBurst] = {}
        BY <1>6, <2>1 DEF Charts, ToSet
      <4> QED
        BY <1>8, <2>2, <2>4, <4>1
    <3>4. /\ F[AtPool] = pool' /\ F[AtLost] = lost' /\ F[AtHeld] = Held' /\ F[AtBatch] = Own'
      BY <1>1, <1>2, <1>6, <1>7, <2>1, <2>4, PlacesApart DEF Charts, Fixed
    <3> QED
      BY <3>1, <3>2, <3>3, <3>4 DEF ChartsNext
  <2>7. Disjoint(Home') /\ Everywhere(Home') = Everywhere(Home)
    BY <2>2, <2>3, <2>5, <2>6, OneMove DEF IInv
  <2> QED
    BY <1>1, <1>5, <1>8, <1>9, <2>7 DEF IInv, Placed
<1>15. InWindow'
  BY <1>7 DEF InWindow
<1>16. Answering'
  <2>1. batch'.answers = <<>>
    BY <1>1, <1>6
  <2> QED
    BY <1>7, <2>1 DEF Answering
<1>17. Numbered'
  <2>1. Live' = Live
    <3>1. ToSet(Burst) = {} /\ ToSet(Burst') = ToSet(a)
      BY <1>6, <1>8 DEF ToSet
    <3>2. UNION { ToSet(rx[f]) : f \in Endpoints } = (UNION { ToSet(rx'[f]) : f \in Endpoints }) \cup ToSet(a)
      <4>1. ASSUME NEW c, NEW f \in Endpoints, c \in ToSet(rx[f])
            PROVE  c \in ToSet(rx'[f]) \/ c \in ToSet(a)
        BY <1>5, <1>9, <4>1
      <4>2. ASSUME NEW c, NEW f \in Endpoints, c \in ToSet(rx'[f]) PROVE c \in ToSet(rx[f])
        BY <1>2, <1>5, <1>9, <4>2
      <4>3. \A c \in ToSet(a) : c \in ToSet(rx[e])
        BY <1>5
      <4> QED
        BY <1>2, <4>1, <4>2, <4>3
    <3> QED
      BY <1>6, <1>7, <3>1, <3>2 DEF Live
  <2> QED
    BY <1>1, <2>1, NumberedKept DEF IInv
<1> QED
  BY <1>10, <1>11, <1>12, <1>13, <1>14, <1>15, <1>16, <1>17 DEF IInv

\* send() takes what fits and releases the rest.
LEMMA Sent ==
  ASSUME Network, NEW e \in Endpoints, NEW out \in Seq(Buffers), IsInjective(out)
  PROVE  /\ Taken(e, out) \in Seq(Buffers) /\ IsInjective(Taken(e, out))
         /\ Len(tx[e] \o Taken(e, out)) <= TXDesc
         /\ ToSet(out) = ToSet(Taken(e, out)) \cup Dropped(e, out)
         /\ ToSet(Taken(e, out)) \cap Dropped(e, out) = {}
         /\ Dropped(e, out) \subseteq Buffers
<1> DEFINE n == Min({ Room(e), Len(out) })
<1>1. /\ tx[e] \in Seq(Buffers) /\ Len(tx[e]) \in Nat /\ Len(out) \in Nat
      /\ Len(tx[e]) <= TXDesc /\ TXDesc \in Nat
  BY ServerAssumption, LenProperties DEF Network
<1>2. Room(e) \in Nat /\ Room(e) = TXDesc - Len(tx[e])
  BY <1>1 DEF Room
<1>3. n \in 0 .. Len(out) /\ n <= Room(e)
  BY <1>1, <1>2, MinOfTwo
<1>4. Taken(e, out) = SubSeq(out, 1, n)
  BY DEF Taken
<1> HIDE DEF n
<1>5. Len(Taken(e, out)) = n /\ Taken(e, out) \in Seq(Buffers) /\ IsInjective(Taken(e, out))
  BY <1>3, <1>4, Cut
<1>6. Dropped(e, out) = ToSet(SubSeq(out, n + 1, Len(out)))
  BY <1>5 DEF Dropped
<1>7. /\ ToSet(out) = ToSet(Taken(e, out)) \cup Dropped(e, out)
      /\ ToSet(Taken(e, out)) \cap Dropped(e, out) = {}
  BY <1>3, <1>4, <1>6, Cut
<1>8. Len(tx[e] \o Taken(e, out)) <= TXDesc
  <2>1. Len(tx[e] \o Taken(e, out)) = Len(tx[e]) + n
    BY <1>1, <1>5, Joined
  <2> QED
    BY <1>1, <1>2, <1>3, <2>1
<1> QED
  BY <1>5, <1>7, <1>8, ListOf

Send(F, e, T) == Move(Move(F, AtPending(e), AtTx(e), T), AtPending(e), AtPool, F[AtPending(e)] \ T)

LEMMA SendMoves ==
  ASSUME NEW F, Disjoint(F), NEW e \in Endpoints, NEW T \in SUBSET F[AtPending(e)]
  PROVE  /\ Disjoint(Send(F, e, T)) /\ Everywhere(Send(F, e, T)) = Everywhere(F)
         /\ \A p \in Places : Send(F, e, T)[p] = IF p = AtPending(e) THEN {}
                                                 ELSE IF p = AtTx(e) THEN F[p] \cup T
                                                 ELSE IF p = AtPool THEN F[p] \cup (F[AtPending(e)] \ T)
                                                 ELSE F[p]
<1> DEFINE D == F[AtPending(e)] \ T
           G == Move(F, AtPending(e), AtTx(e), T)
           H == Move(G, AtPending(e), AtPool, D)
<1>1. /\ AtPending(e) \in Places /\ AtTx(e) \in Places /\ AtPool \in Places
      /\ AtPending(e) # AtTx(e) /\ AtPending(e) # AtPool /\ AtTx(e) # AtPool
  BY PlacesApart DEF Fixed
<1>2. T \in SUBSET F[AtPending(e)]
  OBVIOUS
<1>3. Disjoint(G) /\ Everywhere(G) = Everywhere(F)
  BY <1>1, <1>2, Moved
<1>4. \A p \in Places : G[p] = IF p = AtPending(e) THEN F[p] \ T
                               ELSE IF p = AtTx(e) THEN F[p] \cup T ELSE F[p]
  BY DEF Move
<1>5. \A p \in Places : H[p] = IF p = AtPending(e) THEN G[p] \ D
                               ELSE IF p = AtPool THEN G[p] \cup D ELSE G[p]
  BY DEF Move
<1>6. Disjoint(H) /\ Everywhere(H) = Everywhere(G)
  <2> HIDE DEF G
  <2>1. G[AtPending(e)] = D
    BY <1>1, <1>4 DEF D
  <2>2. D \in SUBSET G[AtPending(e)]
    BY <2>1
  <2> QED
    BY <1>1, <1>3, <2>2, Moved
<1> HIDE DEF G, H, D
<1>7. \A p \in Places : H[p] = IF p = AtPending(e) THEN {}
                               ELSE IF p = AtTx(e) THEN F[p] \cup T
                               ELSE IF p = AtPool THEN F[p] \cup D ELSE F[p]
  <2>1. H[AtPending(e)] = {}
    BY <1>1, <1>4, <1>5 DEF D
  <2> QED
    BY <1>1, <1>4, <1>5, <2>1
<1> QED
  BY <1>3, <1>6, <1>7 DEF Send, G, H, D

LEMMA CheckPendingSteps ==
  ASSUME IInv, CheckPending
  PROVE  IInv'
<1> DEFINE out == pendingTx[ep]
           a == Taken(ep, out)
           d == Dropped(ep, out)
           t == tx[ep] \o a
<1>1. /\ pc = "check" /\ pc' = "receive"
      /\ UNCHANGED <<data, rx, arrived, bad, nextIndex, ep, late, accessor, pipeline,
                     stageGap, lost, replies>>
      /\ \/ /\ tx' = [tx EXCEPT ![ep] = t] /\ pool' = pool \cup d
            /\ pendingTx' = [pendingTx EXCEPT ![ep] = <<>>]
         \/ UNCHANGED <<tx, pool, pendingTx>>
  BY DEF CheckPending, history
<1>2. /\ ep \in Endpoints /\ tx \in [Endpoints -> Seq(Buffers)]
      /\ pendingTx \in [Endpoints -> Seq(Buffers)] /\ IsInjective(out)
      /\ out \in Seq(Buffers) /\ tx[ep] \in Seq(Buffers) /\ IsInjective(tx[ep])
  BY DEF IInv, Progress, Network, Placed
<1>3. /\ a \in Seq(Buffers) /\ IsInjective(a) /\ Len(t) <= TXDesc
      /\ ToSet(out) = ToSet(a) \cup d /\ ToSet(a) \cap d = {} /\ d \subseteq Buffers
  BY <1>2, Sent DEF IInv
<1>4. t \in Seq(Buffers) /\ ToSet(t) = ToSet(tx[ep]) \cup ToSet(a)
  BY <1>2, <1>3, Joined
<1>5. ToSet(tx[ep]) \cap ToSet(out) = {}
  <2>1. Home[AtTx(ep)] \cap Home[AtPending(ep)] = {}
    BY <1>2, PlacesApart DEF IInv, Placed, Disjoint
  <2> QED
    BY <1>2, <2>1, HomeCharts DEF Charts
<1>6. IsInjective(t)
  <2>1. ToSet(tx[ep]) \cap ToSet(a) = {}
    BY <1>3, <1>5
  <2> QED
    BY <1>2, <1>3, <2>1, Joined
<1> HIDE DEF a, d, t, out
<1>7. /\ tx' \in [Endpoints -> Seq(Buffers)] /\ pendingTx' \in [Endpoints -> Seq(Buffers)]
      /\ \A f \in Endpoints : \/ tx'[f] = tx[f] /\ pendingTx'[f] = pendingTx[f]
                              \/ f = ep /\ tx'[f] = t /\ pendingTx'[f] = <<>>
      /\ pool' \in SUBSET Buffers
  <2>1. <<>> \in Seq(Buffers) /\ pool \in SUBSET Buffers
    BY EmptySeq DEF IInv, Network
  <2> QED
    BY <1>1, <1>2, <1>3, <1>4, <2>1
<1>8. Network'
  <2>1. \A f \in Endpoints : Len(tx'[f]) <= TXDesc
    BY <1>3, <1>7 DEF IInv, Network
  <2>2. \A f \in Endpoints : Len(pendingTx'[f]) < TXBurst
    <3>1. Len(<<>>) < TXBurst
      BY EmptySeq, ServerAssumption
    <3> QED
      BY <1>7, <3>1 DEF IInv, Network
  <2> QED
    BY <1>1, <1>7, <2>1, <2>2 DEF IInv, Network
<1>9. Packet'
  BY <1>1 DEF IInv, Packet, IsResponse
<1>10. Window = {} /\ Held = {} /\ Burst = <<>> /\ Own = { batch.buf } /\ batch.answers = <<>>
  BY <1>1, Resting
<1>11. UNCHANGED <<Burst, Held, Own, Window>>
  BY <1>1 DEF accessor, Burst, Held, Own, Window
<1>12. Arrays'
  BY <1>1 DEF accessor, pipeline, Arrays, IInv
<1>13. Progress'
  BY <1>1 DEF accessor, pipeline, Progress, IInv
<1>14. Placed'
  <2>1. CASE UNCHANGED <<tx, pool, pendingTx>>
    BY <1>1, <1>11, <2>1, NothingMoves DEF IInv
  <2>2. CASE /\ tx' = [tx EXCEPT ![ep] = t] /\ pool' = pool \cup d
             /\ pendingTx' = [pendingTx EXCEPT ![ep] = <<>>]
    <3>1. Charts(Home) /\ Disjoint(Home)
      BY HomeCharts DEF IInv, Placed
    <3>2. Home[AtPending(ep)] = ToSet(a) \cup d
      BY <1>2, <1>3, <3>1 DEF Charts, out
    <3> DEFINE T == ToSet(a)
               G == Send(Home, ep, T)
    <3>3. /\ Disjoint(G) /\ Everywhere(G) = Everywhere(Home)
          /\ \A p \in Places : G[p] = IF p = AtPending(ep) THEN {}
                                      ELSE IF p = AtTx(ep) THEN Home[p] \cup ToSet(a)
                                      ELSE IF p = AtPool THEN Home[p] \cup d ELSE Home[p]
      <4>1. T \in SUBSET Home[AtPending(ep)] /\ d = Home[AtPending(ep)] \ T
        BY <1>3, <3>2
      <4> HIDE DEF T
      <4>2. /\ Disjoint(G) /\ Everywhere(G) = Everywhere(Home)
            /\ \A p \in Places : G[p] = IF p = AtPending(ep) THEN {}
                                 ELSE IF p = AtTx(ep) THEN Home[p] \cup T
                                 ELSE IF p = AtPool THEN Home[p] \cup (Home[AtPending(ep)] \ T)
                                 ELSE Home[p]
        BY ZenonT(40), <1>2, <3>1, <4>1, SendMoves
      <4> HIDE DEF G
      <4> QED
        BY <4>1, <4>2 DEF T
    <3> HIDE DEF G
    <3>4. ChartsNext(G)
      <4>1. G[AtTx(ep)] = ToSet(t) /\ G[AtPending(ep)] = {} /\ G[AtPool] = pool'
        BY <1>2, <1>4, <2>2, <3>1, <3>3, PlacesApart DEF Charts, Fixed
      <4>2. tx'[ep] = t /\ pendingTx'[ep] = <<>> /\ ToSet(<<>>) = {}
        BY <1>2, <2>2 DEF ToSet
      <4>3. \A f \in Endpoints :
              /\ AtTx(f) \in Places /\ AtTx(f) # AtPool /\ AtTx(f) # AtPending(ep)
              /\ Home[AtTx(f)] = ToSet(tx[f]) /\ (f # ep => AtTx(f) # AtTx(ep))
              /\ AtPending(f) \in Places /\ AtPending(f) # AtPool /\ AtPending(f) # AtTx(ep)
              /\ Home[AtPending(f)] = ToSet(pendingTx[f])
              /\ f # ep => AtPending(f) # AtPending(ep)
              /\ AtRx(f) \in Places /\ AtRx(f) # AtPool /\ AtRx(f) # AtTx(ep) /\ AtRx(f) # AtPending(ep)
              /\ Home[AtRx(f)] = ToSet(rx[f])
        BY <1>2, <3>1, PlacesApart DEF Charts, Fixed
      <4>4. ASSUME NEW f \in Endpoints, f # ep
            PROVE  G[AtTx(f)] = ToSet(tx'[f]) /\ G[AtPending(f)] = ToSet(pendingTx'[f])
        <5>1. tx'[f] = tx[f] /\ pendingTx'[f] = pendingTx[f]
          BY <1>7, <4>4
        <5> QED
          BY <3>3, <4>3, <4>4, <5>1
      <4>5. \A f \in Endpoints : G[AtRx(f)] = ToSet(rx'[f])
        BY <1>1, <3>3, <4>3
      <4>6. G[AtLost] = lost' /\ G[AtBurst] = ToSet(Burst') /\ G[AtHeld] = Held' /\ G[AtBatch] = Own'
        BY <1>1, <1>2, <1>11, <3>1, <3>3, PlacesApart DEF Charts, Fixed
      <4> QED
        BY <4>1, <4>2, <4>4, <4>5, <4>6 DEF ChartsNext
    <3>5. Disjoint(Home') /\ Everywhere(Home') = Everywhere(G)
      BY <3>3, <3>4, Charted
    <3>6. IsInjective(<<>>)
      BY DEF IsInjective
    <3> QED
      BY <1>1, <1>6, <1>7, <1>11, <3>3, <3>5, <3>6 DEF IInv, Placed
  <2> QED
    BY <1>1, <2>1, <2>2
<1>15. InWindow'
  BY <1>10, <1>11 DEF InWindow
<1>16. Answering'
  BY <1>1, <1>10, <1>11 DEF Answering, accessor
<1>17. Numbered'
  <2>1. Live' = Live
    BY <1>1, <1>11 DEF Live
  <2> QED
    BY <1>1, <2>1, NumberedKept DEF IInv
<1> QED
  BY <1>8, <1>9, <1>12, <1>13, <1>14, <1>15, <1>16, <1>17 DEF IInv

-----------------------------------------------------------------------------
(* Parsing.                                                                *)

\* What is left of a list after its first n.
LEMMA Rest ==
  ASSUME NEW S, NEW q \in Seq(S), NEW n \in 0 .. Len(q)
  PROVE  /\ SubSeq(q, n + 1, Len(q)) \in Seq(S)
         /\ ToSet(SubSeq(q, n + 1, Len(q))) = { q[k] : k \in n + 1 .. Len(q) }
         /\ IsInjective(SubSeq(q, n + 1, Len(q)))
              <=> \A j, k \in n + 1 .. Len(q) : q[j] = q[k] => j = k
<1> DEFINE L == Len(q)
           b == SubSeq(q, n + 1, L)
<1>1. /\ b \in Seq(S) /\ Len(b) = L - n /\ \A k \in 1 .. L - n : b[k] = q[n + k]
      /\ ToSet(b) = { q[k] : k \in n + 1 .. L }
  BY Cut
<1>2. L \in Nat /\ n \in Nat /\ n <= L
  BY LenProperties
<1> HIDE DEF b, L
<1>3. IsInjective(b) <=> \A j, k \in 1 .. L - n : b[j] = b[k] => j = k
  BY <1>1, ListOf
<1>4. ASSUME IsInjective(b), NEW j \in n + 1 .. L, NEW k \in n + 1 .. L, q[j] = q[k] PROVE j = k
  <2>1. /\ j - n \in 1 .. L - n /\ k - n \in 1 .. L - n
        /\ n + (j - n) = j /\ n + (k - n) = k
    BY <1>2
  <2>2. b[j - n] = q[j] /\ b[k - n] = q[k]
    BY <1>1, <2>1
  <2>3. j - n = k - n
    BY <1>3, <1>4, <2>1, <2>2
  <2> QED
    BY <1>2, <2>3
<1>5. ASSUME \A j, k \in n + 1 .. L : q[j] = q[k] => j = k PROVE IsInjective(b)
  <2>1. ASSUME NEW j \in 1 .. L - n, NEW k \in 1 .. L - n, b[j] = b[k] PROVE j = k
    <3>1. n + j \in n + 1 .. L /\ n + k \in n + 1 .. L /\ q[n + j] = q[n + k]
      BY <1>1, <1>2, <2>1
    <3>2. n + j = n + k
      BY <1>5, <3>1
    <3> QED
      BY <1>2, <3>2
  <2> QED
    BY <1>3, <2>1
<1> QED
  BY <1>1, <1>4, <1>5 DEF b, L

\* The next packet with requests is the first one; what lies before it has none.
LEMMA NextBatchIs ==
  ASSUME Arrays
  PROVE  /\ NextBatch \in parsed + 1 .. Len(bufs) + 1
         /\ NextBatch <= Len(bufs) => HasRequests(bufs[NextBatch])
         /\ \A m \in parsed + 1 .. NextBatch - 1 : ~HasRequests(bufs[m])
         /\ Min({ NextBatch, Len(bufs) }) = IF NextBatch <= Len(bufs) THEN NextBatch ELSE Len(bufs)
         /\ parsed \in Nat /\ Len(bufs) \in Nat /\ parsed <= Len(bufs)
<1> DEFINE S == { m \in parsed + 1 .. Len(bufs) : HasRequests(bufs[m]) }
<1>1. parsed \in Nat /\ Len(bufs) \in Nat /\ parsed <= Len(bufs)
  BY LenProperties DEF Arrays
<1>2. S \in SUBSET Nat
  BY <1>1
<1>3. NextBatch = IF S = {} THEN Len(bufs) + 1 ELSE Min(S)
  BY DEF NextBatch
<1>4. \A m : m \in S <=> m \in parsed + 1 .. Len(bufs) /\ HasRequests(bufs[m])
  OBVIOUS
<1> HIDE DEF S
<1>5. /\ NextBatch \in parsed + 1 .. Len(bufs) + 1
      /\ NextBatch <= Len(bufs) => HasRequests(bufs[NextBatch])
      /\ \A m \in parsed + 1 .. NextBatch - 1 : ~HasRequests(bufs[m])
  <2>1. CASE S = {}
    <3>1. NextBatch = Len(bufs) + 1
      BY <1>3, <2>1
    <3> QED
      BY <1>1, <1>4, <2>1, <3>1
  <2>2. CASE S # {}
    <3>1. NextBatch \in S /\ \A m \in S : NextBatch <= m
      BY <1>2, <1>3, <2>2, MinIsLeast
    <3>2. NextBatch \in parsed + 1 .. Len(bufs) /\ HasRequests(bufs[NextBatch])
      BY <1>4, <3>1
    <3>3. ASSUME NEW m \in parsed + 1 .. NextBatch - 1 PROVE ~HasRequests(bufs[m])
      <4>1. m \in parsed + 1 .. Len(bufs) /\ ~(NextBatch <= m)
        BY <1>1, <3>2
      <4> QED
        BY <1>4, <3>1, <4>1
    <3> QED
      BY <1>1, <3>2, <3>3
  <2> QED
    BY <2>1, <2>2
<1>6. Min({ NextBatch, Len(bufs) }) = IF NextBatch <= Len(bufs) THEN NextBatch ELSE Len(bufs)
  <2>1. NextBatch \in Nat
    BY <1>1, <1>5
  <2> QED
    BY <1>1, <2>1, MinOfTwo
<1> QED
  BY <1>1, <1>5, <1>6

\* PassOver splits the packets that the parser has reached.
LEMMA PassedOverSplit ==
  ASSUME IInv
  PROVE  /\ ToSet(Burst) = { bufs[k] : k \in parsed + 1 .. Len(bufs) }
         /\ PassedOver \subseteq ToSet(Burst) /\ PassedOver \subseteq Buffers
         /\ \A j, k \in parsed + 1 .. Len(bufs) : bufs[j] = bufs[k] => j = k
         /\ bufs \in Seq(Buffers)
<1>1. /\ bufs \in Seq(Buffers) /\ parsed \in 0 .. Len(bufs) /\ IsInjective(Burst)
      /\ ToSet(Burst) \subseteq Buffers
  BY InBuffers, ListOf DEF IInv, Arrays, Placed
<1>2. /\ ToSet(Burst) = { bufs[k] : k \in parsed + 1 .. Len(bufs) }
      /\ \A j, k \in parsed + 1 .. Len(bufs) : bufs[j] = bufs[k] => j = k
  BY <1>1, Rest DEF Burst
<1>3. PassedOver \subseteq ToSet(Burst)
  <2>1. parsed + 1 .. NextBatch - 1 \subseteq parsed + 1 .. Len(bufs)
    BY NextBatchIs DEF IInv
  <2> QED
    BY <1>2, <2>1 DEF PassedOver
<1> QED
  BY <1>1, <1>2, <1>3

\* The loop knows how many requests there are only when there are no more.
LEMMA Bounds ==
  ASSUME IInv
  PROVE  /\ Unlimited \in Nat /\ prepareIdx < Unlimited /\ MaxRequests \in Nat
         /\ Ring \in Nat \ {0} /\ stageGap \in Nat \ {0} /\ stageGap \in StageGaps
         /\ PipelineSize(stageGap) \in Nat \ {0} /\ 3 * stageGap <= PipelineSize(stageGap)
         /\ i \in Nat /\ prepareIdx \in Nat /\ retireIdx \in Nat /\ count \in Nat
         /\ retireIdx <= prepareIdx
<1>1. RXBurst \in Nat \ {0} /\ MaxRequests \in Nat /\ Ring \in Nat \ {0}
  BY ServerAssumption
<1>2. Unlimited \in Nat
  BY <1>1 DEF Unlimited
<1>3. parsed \in Nat /\ parsed <= RXBurst
  BY <1>1, LenProperties DEF IInv, Arrays
<1>4. prepareIdx \in Nat /\ prepareIdx <= parsed * MaxRequests
  BY DEF IInv, Progress
<1>5. parsed * MaxRequests <= RXBurst * MaxRequests
  <2>1. PICK d \in Nat : RXBurst = parsed + d
    <3>1. RXBurst - parsed \in Nat /\ RXBurst = parsed + (RXBurst - parsed)
      BY <1>1, <1>3
    <3> QED
      BY <3>1
  <2>2. RXBurst * MaxRequests = parsed * MaxRequests + d * MaxRequests
    BY <1>1, <1>3, <2>1
  <2>3. d * MaxRequests >= 0
    BY <1>1, <2>1
  <2>4. d * MaxRequests \in Int /\ parsed * MaxRequests \in Int
    BY <1>1, <1>3, <2>1
  <2> QED
    BY <2>2, <2>3, <2>4
<1>6. prepareIdx < Unlimited
  <2>1. parsed * MaxRequests \in Int /\ RXBurst * MaxRequests \in Int
    BY <1>1, <1>3
  <2> QED
    BY <1>4, <1>5, <2>1 DEF Unlimited
<1>7. i \in Nat /\ retireIdx \in Nat /\ retireIdx <= prepareIdx /\ count \in Nat
  BY <1>2 DEF IInv, Progress
<1>8. stageGap \in StageGaps
  BY DEF IInv, Arrays
<1> QED
  BY <1>1, <1>2, <1>4, <1>6, <1>7, <1>8, PipelineHolds

\* The slots that stage 1 fills are apart for as long as stage 3 needs them.
LEMMA SlotsFilled ==
  ASSUME IInv, Fetch,
         requests' \in [0 .. Ring - 1 -> Rows], prepareIdx' \in Nat, prepareIdx' <= count',
         count' \in Nat, \A k \in Window' : k < i - stageGap => k \in Window /\ Row(k)' = Row(k)
  PROVE  /\ slots' \in [0 .. PipelineSize(stageGap) - 1 -> Ids]
         /\ \A k \in Window' : k <= i - stageGap => slots'[k % PipelineSize(stageGap)] = Row(k)'.id
<1> DEFINE P == PipelineSize(stageGap)
           n == i - stageGap
<1>1. /\ pc = "fetch" /\ UNCHANGED <<retireIdx, i, stageGap>>
      /\ slots' = IF 0 <= n /\ n < count'
                  THEN [slots EXCEPT ![n % P] = requests'[n % Ring].id] ELSE slots
  BY DEF Fetch, PartitionId
<1>2. /\ Ring \in Nat \ {0} /\ stageGap \in Nat \ {0} /\ P \in Nat \ {0} /\ 3 * stageGap <= P
      /\ i \in Nat /\ retireIdx \in Nat /\ n \in Int
  BY Bounds
<1>3. slots \in [0 .. P - 1 -> Ids]
  BY DEF IInv, Arrays
<1> HIDE DEF P
<1>4. n % Ring \in 0 .. Ring - 1 /\ n % P \in 0 .. P - 1
  BY <1>2, ModDef
<1>5. requests'[n % Ring].id \in Ids
  BY <1>4 DEF Rows
<1>6. slots' \in [0 .. P - 1 -> Ids]
  BY <1>1, <1>3, <1>5
<1>7. retireIdx = Behind(i)
  BY <1>1 DEF IInv, Progress
<1>8. n - retireIdx < P
  BY <1>2, <1>7 DEF Behind, n
<1> HIDE DEF n
<1>9. \A k : Row(k)' = requests'[k % Ring]
  BY DEF Row
<1>10. \A k \in Window' : k \in Int /\ retireIdx <= k /\ 0 <= k /\ k < count'
  <2>1. Window' = retireIdx .. prepareIdx' - 1
    BY <1>1 DEF Window
  <2>2. ASSUME NEW l \in Nat, NEW m \in Nat, NEW c \in Nat, m <= c, NEW k \in l .. m - 1
        PROVE  k \in Int /\ l <= k /\ 0 <= k /\ k < c
    BY <2>2
  <2> QED
    BY <1>2, <2>1, <2>2
<1>11. ASSUME NEW k \in Window', k = n PROVE slots'[k % P] = Row(k)'.id
  <2>1. slots'[n % P] = requests'[n % Ring].id
    BY <1>1, <1>3, <1>4, <1>10, <1>11
  <2> QED
    BY <1>9, <1>11, <2>1
<1>12. ASSUME NEW k \in Window', k < n PROVE slots'[k % P] = Row(k)'.id
  <2>1. k % P # n % P
    <3>1. n - k < P
      BY <1>2, <1>8, <1>10
    <3> QED
      BY <1>2, <1>10, <1>12, <3>1, ModDistinct
  <2>2. slots'[k % P] = slots[k % P]
    <3>1. k % P \in 0 .. P - 1
      BY <1>2, <1>10, ModDef
    <3> QED
      BY <1>1, <1>3, <1>4, <2>1, <3>1
  <2>3. k \in Window /\ Row(k)' = Row(k)
    BY <1>12 DEF n
  <2>4. slots[k % P] = Row(k).id
    BY <1>1, <1>12, <2>3 DEF IInv, Answering, P, n
  <2> QED
    BY <2>2, <2>3, <2>4
<1> QED
  <2>1. \A k \in Window' : k <= n => k = n \/ k < n
    BY <1>2, <1>10 DEF n
  <2> QED
    BY <1>6, <1>11, <1>12, <2>1 DEF P, n

\* What the three ways of preparing a request have to show.
LEMMA Fetched ==
  ASSUME IInv, Fetch,
         pool' \in SUBSET Buffers, lost' \in SUBSET Buffers,
         parsed' \in 0 .. Len(bufs), requests' \in [0 .. Ring - 1 -> Rows],
         prepareIdx' \in Nat, retireIdx <= prepareIdx', prepareIdx' - retireIdx <= Ring,
         prepareIdx' <= parsed' * MaxRequests, prepareIdx' <= count', count' \in Nat,
         count' = Unlimited \/ (count' = prepareIdx' /\ parsed' = Len(bufs)),
         IF count' = Unlimited THEN i < prepareIdx' ELSE i < count' + 3 * stageGap,
         \A k \in Window' : k < i - stageGap => k \in Window /\ Row(k)' = Row(k),
         batch.answers = IF Window' = {} THEN <<>>
                         ELSE AnswersTo(Row(retireIdx)'.id[1], Row(retireIdx)'.id[2] - 1),
         InWindow', Live' \subseteq Live, IsInjective(Burst'),
         Disjoint(Home'), Everywhere(Home') = Everywhere(Home)
  PROVE  IInv'
<1>1. /\ pc = "fetch" /\ pc' = "execute"
      /\ UNCHANGED <<data, rx, tx, arrived, bad, nextIndex, ep, pendingTx, late, bufs,
                     retireIdx, batch, stageGap, i, replies>>
  BY DEF Fetch, worker
<1>2. /\ slots' \in [0 .. PipelineSize(stageGap) - 1 -> Ids]
      /\ \A k \in Window' : k <= i - stageGap => slots'[k % PipelineSize(stageGap)] = Row(k)'.id
  BY SlotsFilled
<1>3. Network'
  BY <1>1 DEF IInv, Network
<1>4. Packet'
  BY <1>1 DEF IInv, Packet, IsResponse
<1>5. Arrays'
  BY <1>1, <1>2 DEF IInv, Arrays
<1>6. Progress'
  <2>1. retireIdx' = Behind(i)'
    BY <1>1 DEF IInv, Progress, Behind
  <2> QED
    BY <1>1, <2>1 DEF IInv, Progress, Unlimited
<1>7. Placed'
  BY <1>1 DEF IInv, Placed
<1>8. Answering'
  <2>1. \A k \in Window' : k \in Int
    BY <1>1, Bounds DEF Window
  <2>2. \A k \in Window' : (k < i - stageGap \/ k = i - stageGap) =>
          slots'[k % PipelineSize(stageGap)] = Row(k)'.id
    <3> SUFFICES ASSUME NEW k \in Window', k < i - stageGap \/ k = i - stageGap
                 PROVE  slots'[k % PipelineSize(stageGap)] = Row(k)'.id
      OBVIOUS
    <3>1. k \in Int /\ i - stageGap \in Int
      BY <2>1, Bounds
    <3>2. k <= i - stageGap
      BY <3>1
    <3> QED
      BY <1>2, <3>2
  <2>3. batch'.answers = IF Window' = {} THEN <<>>
                         ELSE AnswersTo(Row(retireIdx)'.id[1], Row(retireIdx)'.id[2] - 1)
    BY <1>1
  <2> QED
    BY <1>1, <2>2, <2>3 DEF Answering
<1>9. Numbered'
  BY <1>1, NumberedKept DEF IInv
<1> QED
  BY <1>3, <1>4, <1>5, <1>6, <1>7, <1>8, <1>9 DEF IInv

LEMMA PassOverMoves ==
  ASSUME IInv, PassOver, NEW C,
         ToSet(Burst) = (PassedOver \cup C) \cup ToSet(Burst'), PassedOver \cap C = {},
         ToSet(Burst') \cap (PassedOver \cup C) = {}, Held' = Held \cup C,
         UNCHANGED <<rx, tx, pendingTx, Own>>
  PROVE  /\ pool' \in SUBSET Buffers /\ lost' \in SUBSET Buffers
         /\ Disjoint(Home') /\ Everywhere(Home') = Everywhere(Home)
<1> DEFINE A == { c \in PassedOver : ~IsBatch(c) }
           B == { c \in PassedOver : IsBatch(c) }
           G == Move(Home, AtBurst, AtLost, A)
           H == Move(G, AtBurst, AtPool, B)
           F == Move(H, AtBurst, AtHeld, C)
<1>1. lost' = lost \cup A /\ pool' = pool \cup B
  BY DEF PassOver
<1>2. A \cup B = PassedOver /\ A \cap B = {}
  OBVIOUS
<1> HIDE DEF A, B
<1>3. Charts(Home) /\ Disjoint(Home)
  BY HomeCharts DEF IInv, Placed
<1>4. Home[AtBurst] = ToSet(Burst)
  BY <1>3 DEF Charts
<1>5. /\ A \in SUBSET Home[AtBurst] /\ B \in SUBSET (Home[AtBurst] \ A)
      /\ C \in SUBSET ((Home[AtBurst] \ A) \ B)
  BY <1>2, <1>4
<1>6. /\ Disjoint(F) /\ Everywhere(F) = Everywhere(Home)
      /\ \A p \in Places : F[p] = IF p = AtBurst THEN ((Home[p] \ A) \ B) \ C
                                  ELSE IF p = AtLost THEN Home[p] \cup A
                                  ELSE IF p = AtPool THEN Home[p] \cup B
                                  ELSE IF p = AtHeld THEN Home[p] \cup C ELSE Home[p]
  <2>1. /\ AtBurst \in Places /\ AtLost \in Places /\ AtPool \in Places /\ AtHeld \in Places
        /\ AtBurst # AtLost /\ AtBurst # AtPool /\ AtBurst # AtHeld /\ AtLost # AtPool
        /\ AtLost # AtHeld /\ AtPool # AtHeld
    BY PlacesApart DEF Fixed
  <2>2. Disjoint(G) /\ Everywhere(G) = Everywhere(Home)
    BY <1>3, <1>5, <2>1, Moved
  <2>3. \A p \in Places : G[p] = IF p = AtBurst THEN Home[p] \ A
                                 ELSE IF p = AtLost THEN Home[p] \cup A ELSE Home[p]
    BY DEF Move
  <2>4. \A p \in Places : H[p] = IF p = AtBurst THEN G[p] \ B
                                 ELSE IF p = AtPool THEN G[p] \cup B ELSE G[p]
    BY DEF Move
  <2>5. \A p \in Places : F[p] = IF p = AtBurst THEN H[p] \ C
                                 ELSE IF p = AtHeld THEN H[p] \cup C ELSE H[p]
    BY DEF Move
  <2>6. Disjoint(H) /\ Everywhere(H) = Everywhere(G)
    <3> HIDE DEF G
    <3>1. B \in SUBSET G[AtBurst]
      BY <1>5, <2>1, <2>3
    <3> QED
      BY <2>1, <2>2, <3>1, Moved
  <2>7. Disjoint(F) /\ Everywhere(F) = Everywhere(H)
    <3> HIDE DEF G, H
    <3>1. C \in SUBSET H[AtBurst]
      BY <1>5, <2>1, <2>3, <2>4
    <3> QED
      BY <2>1, <2>6, <3>1, Moved
  <2> HIDE DEF F, G, H
  <2>8. /\ F[AtBurst] = ((Home[AtBurst] \ A) \ B) \ C /\ F[AtLost] = Home[AtLost] \cup A
        /\ F[AtPool] = Home[AtPool] \cup B /\ F[AtHeld] = Home[AtHeld] \cup C
    BY <2>1, <2>3, <2>4, <2>5
  <2>9. \A p \in Places : p \notin { AtBurst, AtLost, AtPool, AtHeld } => F[p] = Home[p]
    BY <2>3, <2>4, <2>5
  <2> QED
    BY <2>2, <2>6, <2>7, <2>8, <2>9
<1> HIDE DEF F, G, H
<1>7. ChartsNext(F)
  <2>1. F[AtBurst] = ToSet(Burst')
    <3>1. F[AtBurst] = ((ToSet(Burst) \ A) \ B) \ C
      BY <1>4, <1>6, PlacesApart DEF Fixed
    <3> QED
      BY <1>2, <3>1
  <2>2. F[AtLost] = lost' /\ F[AtPool] = pool' /\ F[AtHeld] = Held'
    BY <1>1, <1>3, <1>6, PlacesApart DEF Charts, Fixed
  <2>3. F[AtBatch] = Own'
    BY <1>3, <1>6, PlacesApart DEF Charts, Fixed
  <2>4. \A f \in Endpoints : /\ F[AtRx(f)] = ToSet(rx'[f]) /\ F[AtTx(f)] = ToSet(tx'[f])
                             /\ F[AtPending(f)] = ToSet(pendingTx'[f])
    BY <1>3, <1>6, PlacesApart DEF Charts, Fixed
  <2> QED
    BY <2>1, <2>2, <2>3, <2>4 DEF ChartsNext
<1>8. Disjoint(Home') /\ Everywhere(Home') = Everywhere(F)
  BY <1>6, <1>7, Charted
<1>9. pool' \in SUBSET Buffers /\ lost' \in SUBSET Buffers
  <2>1. PassedOver \subseteq Buffers
    BY PassedOverSplit
  <2> QED
    BY <1>1, <1>2, <2>1 DEF IInv, Network
<1> QED
  BY <1>6, <1>8, <1>9

LEMMA NoParseSteps ==
  ASSUME IInv, Fetch, NoParse, ~(count = Unlimited /\ i = prepareIdx)
  PROVE  IInv'
<1>1. /\ pc = "fetch" /\ pc' = "execute"
      /\ UNCHANGED <<lost, pool, parsed, requests, prepareIdx, count>>
      /\ UNCHANGED <<data, rx, tx, pendingTx, bufs, retireIdx, batch, stageGap>>
  BY DEF NoParse, Fetch, worker
<1>2. Window' = Window /\ Burst' = Burst /\ \A k : Row(k)' = Row(k)
  BY <1>1 DEF Window, Burst, Row
<1>3. Held' = Held /\ Own' = Own /\ Live' = Live
  <2>1. Held' = Held
    BY <1>1, <1>2 DEF Held
  <2> QED
    BY <1>1, <1>2, <2>1 DEF Own, Live
<1>4. Disjoint(Home') /\ Everywhere(Home') = Everywhere(Home)
  <2>1. Charts(Home) /\ Disjoint(Home)
    BY HomeCharts DEF IInv, Placed
  <2>2. ChartsNext(Home)
    BY <1>1, <1>2, <1>3, <2>1 DEF Charts, ChartsNext
  <2> QED
    BY <2>1, <2>2, Charted
<1>5. InWindow'
  BY <1>1, WindowKept DEF IInv
<1>6. pool' \in SUBSET Buffers /\ lost' \in SUBSET Buffers
  BY <1>1 DEF IInv, Network
<1>7. parsed' \in 0 .. Len(bufs) /\ requests' \in [0 .. Ring - 1 -> Rows]
  BY <1>1 DEF IInv, Arrays
<1>8. /\ prepareIdx' \in Nat /\ retireIdx <= prepareIdx' /\ prepareIdx' - retireIdx <= Ring
      /\ prepareIdx' <= parsed' * MaxRequests /\ count' \in Nat
      /\ count' = Unlimited \/ (count' = prepareIdx' /\ parsed' = Len(bufs))
  BY <1>1, Bounds DEF IInv, Progress
<1>9. prepareIdx' <= count'
  BY <1>1, <1>8, Bounds
<1>10. IF count' = Unlimited THEN i < prepareIdx' ELSE i < count' + 3 * stageGap
  <2>1. count = Unlimited => i <= prepareIdx /\ i # prepareIdx
    BY <1>1 DEF IInv, Progress
  <2>2. count # Unlimited => i < count + 3 * stageGap
    BY <1>1 DEF IInv, Progress
  <2>3. i \in Nat /\ prepareIdx \in Nat
    BY Bounds
  <2> QED
    BY <1>1, <2>1, <2>2, <2>3
<1>11. batch.answers = IF Window' = {} THEN <<>>
                       ELSE AnswersTo(Row(retireIdx)'.id[1], Row(retireIdx)'.id[2] - 1)
  <2>1. Row(retireIdx)' = Row(retireIdx)
    BY <1>1 DEF Row
  <2> QED
    BY <1>1, <1>2, <2>1 DEF IInv, Answering
<1>12. IsInjective(Burst')
  BY <1>2 DEF IInv, Placed
<1>13. \A k \in Window' : k < i - stageGap => k \in Window /\ Row(k)' = Row(k)
  BY <1>2
<1> QED
  BY <1>3, <1>4, <1>5, <1>6, <1>7, <1>8, <1>9, <1>10, <1>11, <1>12, <1>13, Fetched

\* More packets parsed, no fewer requests that fit in them.
LEMMA Product ==
  ASSUME NEW a \in Nat, NEW b \in Nat, NEW m \in Nat, a <= b
  PROVE  a * m <= b * m
<1>1. PICK d \in Nat : b = a + d
  <2>1. b - a \in Nat /\ b = a + (b - a)
    OBVIOUS
  <2> QED
    BY <2>1
<1>2. b * m = a * m + d * m
  BY <1>1
<1>3. d * m >= 0 /\ d * m \in Int /\ a * m \in Int
  BY <1>1
<1> QED
  BY <1>2, <1>3

LEMMA ParseNothingSteps ==
  ASSUME IInv, Fetch, ParseNothing, count = Unlimited, i = prepareIdx
  PROVE  IInv'
<1>1. /\ pc = "fetch" /\ pc' = "execute" /\ NextBatch > Len(bufs) /\ PassOver /\ count' = i
      /\ UNCHANGED <<requests, prepareIdx>>
      /\ UNCHANGED <<data, rx, tx, pendingTx, bufs, retireIdx, batch, stageGap>>
  BY DEF ParseNothing, Fetch, worker
<1>2. /\ NextBatch = Len(bufs) + 1 /\ parsed' = Len(bufs) /\ Len(bufs) \in Nat
      /\ parsed \in Nat /\ parsed <= Len(bufs)
  <2>1. /\ NextBatch \in parsed + 1 .. Len(bufs) + 1 /\ Len(bufs) \in Nat
        /\ Min({ NextBatch, Len(bufs) }) = IF NextBatch <= Len(bufs) THEN NextBatch ELSE Len(bufs)
        /\ parsed \in Nat /\ parsed <= Len(bufs)
    BY NextBatchIs DEF IInv
  <2>2. NextBatch = Len(bufs) + 1
    BY <1>1, <2>1
  <2> QED
    BY <1>1, <2>1, <2>2 DEF PassOver
<1>3. Window' = Window /\ \A k : Row(k)' = Row(k)
  BY <1>1 DEF Window, Row
<1>4. Held' = Held /\ Own' = Own
  BY <1>1, <1>3 DEF Held, Own
<1>5. PassedOver = ToSet(Burst)
  <2>1. NextBatch - 1 = Len(bufs)
    BY <1>2
  <2> QED
    BY <2>1, PassedOverSplit DEF PassedOver
<1>6. ToSet(Burst') = {} /\ IsInjective(Burst')
  <2>1. Burst' = SubSeq(bufs, Len(bufs) + 1, Len(bufs))
    BY <1>1, <1>2 DEF Burst
  <2>2. bufs \in Seq(Buffers) /\ Len(bufs) \in 0 .. Len(bufs)
    BY <1>2, PassedOverSplit
  <2>3. PICK n \in 0 .. Len(bufs) : n = Len(bufs)
    BY <2>2
  <2>4. n + 1 .. Len(bufs) = {}
    BY <1>2, <2>3
  <2>5. /\ ToSet(SubSeq(bufs, n + 1, Len(bufs))) = { bufs[k] : k \in n + 1 .. Len(bufs) }
        /\ IsInjective(SubSeq(bufs, n + 1, Len(bufs)))
              <=> \A j, k \in n + 1 .. Len(bufs) : bufs[j] = bufs[k] => j = k
    BY <2>2, Rest
  <2>6. ToSet(SubSeq(bufs, n + 1, Len(bufs))) = {} /\ IsInjective(SubSeq(bufs, n + 1, Len(bufs)))
    BY <2>4, <2>5
  <2> QED
    BY <2>1, <2>3, <2>6
<1>7. /\ pool' \in SUBSET Buffers /\ lost' \in SUBSET Buffers
      /\ Disjoint(Home') /\ Everywhere(Home') = Everywhere(Home)
  <2> DEFINE C == {}
  <2>1. /\ ToSet(Burst) = (PassedOver \cup C) \cup ToSet(Burst') /\ PassedOver \cap C = {}
        /\ ToSet(Burst') \cap (PassedOver \cup C) = {} /\ Held' = Held \cup C
    BY <1>4, <1>5, <1>6
  <2> HIDE DEF C
  <2> QED
    BY <1>1, <1>4, <2>1, PassOverMoves
<1>8. InWindow'
  BY <1>1, WindowKept DEF IInv
<1>9. parsed' \in 0 .. Len(bufs) /\ requests' \in [0 .. Ring - 1 -> Rows]
  BY <1>1, <1>2 DEF IInv, Arrays
<1>10. prepareIdx' <= parsed' * MaxRequests
  <2>1. parsed * MaxRequests <= parsed' * MaxRequests
    BY <1>2, Bounds, Product
  <2>2. prepareIdx <= parsed * MaxRequests
    BY DEF IInv, Progress
  <2>3. parsed * MaxRequests \in Int /\ parsed' * MaxRequests \in Int
    BY <1>2, Bounds
  <2> QED
    BY <1>1, <2>1, <2>2, <2>3, Bounds
<1>11. /\ prepareIdx' \in Nat /\ retireIdx <= prepareIdx' /\ prepareIdx' - retireIdx <= Ring
       /\ prepareIdx' <= count' /\ count' \in Nat /\ count' = prepareIdx'
  BY <1>1, Bounds DEF IInv, Progress
<1>12. IF count' = Unlimited THEN i < prepareIdx' ELSE i < count' + 3 * stageGap
  BY <1>1, Bounds
<1>13. batch.answers = IF Window' = {} THEN <<>>
                       ELSE AnswersTo(Row(retireIdx)'.id[1], Row(retireIdx)'.id[2] - 1)
  <2>1. Row(retireIdx)' = Row(retireIdx)
    BY <1>1 DEF Row
  <2> QED
    BY <1>1, <1>3, <2>1 DEF IInv, Answering
<1>14. Live' \subseteq Live
  BY <1>1, <1>4, <1>6 DEF Live
<1>15. \A k \in Window' : k < i - stageGap => k \in Window /\ Row(k)' = Row(k)
  BY <1>3
<1>16. count' = Unlimited \/ (count' = prepareIdx' /\ parsed' = Len(bufs))
  BY <1>2, <1>11
<1> QED
  BY <1>6, <1>7, <1>8, <1>9, <1>10, <1>11, <1>12, <1>13, <1>14, <1>15, <1>16, Fetched

\* The indices of a window no longer than a ring are at slots of their own.
LEMMA WindowApart ==
  ASSUME NEW M \in Nat \ {0}, NEW l \in Int, NEW h \in Int, h - l <= M
  PROVE  \A j, k \in l .. h - 1 : j % M = k % M => j = k
<1> SUFFICES ASSUME NEW j \in l .. h - 1, NEW k \in l .. h - 1, j % M = k % M, j # k PROVE FALSE
  OBVIOUS
<1>1. j \in Int /\ k \in Int /\ j - k < M /\ k - j < M /\ (j < k \/ k < j)
  OBVIOUS
<1> QED
  BY <1>1, ModDistinct

\* What parsing a packet writes to the ring.
LEMMA RowsParsed ==
  ASSUME IInv, Fetch, Parse, i = prepareIdx, NEW b, b = bufs[NextBatch]
  PROVE  /\ b \in Buffers /\ HasRequests(b) /\ data[b].num \in 1 .. MaxPackets
         /\ data[b].size \in 1 .. MaxRequests /\ prepareIdx' = prepareIdx + data[b].size
         /\ prepareIdx' - retireIdx <= Ring
         /\ requests' \in [0 .. Ring - 1 -> Rows]
         /\ Window' = retireIdx .. prepareIdx' - 1
         /\ \A k \in Window' :
              IF k < prepareIdx THEN Row(k)' = Row(k)
              ELSE /\ Row(k)'.src = b /\ Row(k)'.id = <<data[b].num, k - prepareIdx + 1>>
                   /\ Row(k)'.last <=> k = prepareIdx' - 1
<1> DEFINE size == data[b].size
           num == data[b].num
           next == prepareIdx + size
           J(k) == { j \in 1 .. size : (prepareIdx + j - 1) % Ring = k }
           last == (next + Ring - 1) % Ring
           written == [k \in 0 .. Ring - 1 |->
             IF J(k) = {} THEN requests[k]
             ELSE [src |-> b, id |-> <<num, Max(J(k))>>, last |-> FALSE]]
<1>1. /\ NextBatch <= Len(bufs) /\ pc = "fetch" /\ UNCHANGED <<retireIdx, data>>
      /\ requests' = [written EXCEPT ![last].last = TRUE] /\ prepareIdx' = next
  BY DEF Parse, Fetch, LastPrepared, RequestId
<1>2. NextBatch \in parsed + 1 .. Len(bufs) /\ HasRequests(b)
  <2>1. /\ NextBatch \in parsed + 1 .. Len(bufs) + 1 /\ Len(bufs) \in Nat /\ parsed \in Nat
        /\ HasRequests(b)
    BY <1>1, NextBatchIs DEF IInv
  <2>2. ASSUME NEW l \in Nat, NEW h \in Nat, NEW m \in l + 1 .. h + 1, m <= h
        PROVE  m \in l + 1 .. h
    BY <2>2
  <2> QED
    BY <1>1, <2>1, <2>2
<1>3. b \in Buffers
  <2>1. NextBatch \in 1 .. Len(bufs)
    BY <1>2, NextBatchIs DEF IInv
  <2> QED
    BY <2>1, ElementOfSeq DEF IInv, Arrays
<1>4. num \in 1 .. MaxPackets /\ size \in Sizes /\ size \in 1 .. MaxRequests /\ MaxRequests \in Nat
  <2>1. num \in 1 .. MaxPackets /\ size \in Sizes /\ size > 0 /\ Sizes \subseteq 0 .. MaxRequests
    BY <1>2, <1>3, InBuffers DEF HasRequests
  <2>2. ASSUME NEW m \in Nat, NEW n \in 0 .. m, n > 0 PROVE n \in 1 .. m
    BY <2>2
  <2>3. size \in 0 .. MaxRequests /\ MaxRequests \in Nat
    BY <2>1, Bounds
  <2> HIDE DEF size, num
  <2> QED
    BY <2>1, <2>2, <2>3
<1>5. /\ Ring \in Nat \ {0} /\ stageGap \in Nat \ {0} /\ size + 3 * stageGap <= Ring
      /\ prepareIdx \in Nat /\ retireIdx \in Nat /\ retireIdx <= prepareIdx
      /\ prepareIdx - retireIdx <= 3 * stageGap
  <2>1. retireIdx = Behind(prepareIdx)
    BY <1>1 DEF IInv, Progress
  <2>2. /\ Ring \in Nat \ {0} /\ stageGap \in Nat \ {0} /\ stageGap \in StageGaps
        /\ prepareIdx \in Nat /\ retireIdx \in Nat /\ retireIdx <= prepareIdx
    BY Bounds
  <2>3. prepareIdx - retireIdx <= 3 * stageGap
    BY <2>1, <2>2 DEF Behind
  <2>4. size + 3 * stageGap <= Ring
    BY <1>4, <2>2, ServerAssumption
  <2> QED
    BY <2>2, <2>3, <2>4
<1> HIDE DEF size, num, next, J, last, written
<1>6. /\ next \in Nat /\ next - retireIdx <= Ring /\ next = prepareIdx + size /\ size \in Nat \ {0}
      /\ retireIdx < next
  BY <1>4, <1>5 DEF next
<1>7. \A j, k \in retireIdx .. next - 1 : j % Ring = k % Ring => j = k
  <2>1. /\ Ring \in Nat \ {0} /\ retireIdx \in Int /\ next \in Int /\ next - retireIdx <= Ring
    BY <1>5, <1>6
  <2> QED
    BY <2>1, WindowApart
<1>8. /\ last \in 0 .. Ring - 1 /\ last = (next - 1) % Ring
  <2>1. next + Ring - 1 \in Int /\ next - 1 \in Int /\ (next + Ring - 1) - (next - 1) = Ring * 1
    BY <1>5, <1>6
  <2>2. Turns(Ring, (next + Ring - 1) - (next - 1))
    BY <2>1 DEF Turns
  <2> QED
    BY <1>5, <2>1, <2>2, ModEqual, ModDef DEF last
<1>9. \A k : \A j : j \in J(k) <=> j \in 1 .. size /\ (prepareIdx + j - 1) % Ring = k
  BY DEF J
<1>10. ASSUME NEW j, Max({ j }) # j PROVE FALSE
  BY <1>10 DEF Max
<1>11. ASSUME NEW k \in 0 .. Ring - 1, NEW j \in J(k) PROVE J(k) = { j } /\ Max(J(k)) = j
  <2>1. ASSUME NEW l \in J(k) PROVE l = j
    <3>1. /\ j \in 1 .. size /\ l \in 1 .. size
          /\ (prepareIdx + j - 1) % Ring = (prepareIdx + l - 1) % Ring
      BY <1>9, <1>11, <2>1
    <3>2. prepareIdx + j - 1 \in retireIdx .. next - 1 /\ prepareIdx + l - 1 \in retireIdx .. next - 1
      BY <1>5, <1>6, <3>1
    <3>3. prepareIdx + j - 1 = prepareIdx + l - 1
      BY <1>7, <3>1, <3>2
    <3> QED
      BY <1>5, <1>6, <3>1, <3>3
  <2>2. J(k) = { j }
    BY <1>11, <2>1
  <2> QED
    BY <1>10, <2>2
<1>12. \A k \in 0 .. Ring - 1 : written[k] = IF J(k) = {} THEN requests[k]
                                 ELSE [src |-> b, id |-> <<num, Max(J(k))>>, last |-> FALSE]
  BY DEF written
<1>13. requests \in [0 .. Ring - 1 -> Rows]
  BY DEF IInv, Arrays
<1>14. written \in [0 .. Ring - 1 -> Rows]
  <2>1. ASSUME NEW k \in 0 .. Ring - 1 PROVE written[k] \in Rows
    <3>1. CASE J(k) = {}
      BY <1>12, <1>13, <3>1
    <3>2. CASE J(k) # {}
      <4>1. PICK j : j \in J(k)
        BY <3>2
      <4>2. Max(J(k)) = j /\ j \in 1 .. size
        BY <1>9, <1>11, <4>1
      <4>3. <<num, Max(J(k))>> \in Ids
        BY <1>4, <4>2, ServerAssumption DEF Ids
      <4>4. b \in 0 .. NumBuffers
        BY <1>3, ServerAssumption DEF Buffers
      <4>5. [src |-> b, id |-> <<num, Max(J(k))>>, last |-> FALSE] \in Rows
        BY <4>3, <4>4 DEF Rows
      <4> QED
        BY <1>12, <3>2, <4>5
    <3> QED
      BY <3>1, <3>2
  <2>2. written = [k \in 0 .. Ring - 1 |-> written[k]]
    BY DEF written
  <2> QED
    BY <2>1, <2>2
<1>15. /\ requests' \in [0 .. Ring - 1 -> Rows]
       /\ \A k \in 0 .. Ring - 1 :
            requests'[k] = IF k = last THEN [written[k] EXCEPT !.last = TRUE] ELSE written[k]
  <2>1. \A k \in 0 .. Ring - 1 :
          requests'[k] = IF k = last THEN [written[k] EXCEPT !.last = TRUE] ELSE written[k]
    BY <1>1, <1>8, <1>14
  <2>2. [written[last] EXCEPT !.last = TRUE] \in Rows
    BY <1>8, <1>14 DEF Rows
  <2> QED
    BY <1>1, <1>8, <1>14, <2>1, <2>2
<1>16. Window' = retireIdx .. next - 1
  BY <1>1 DEF Window
<1>17. ASSUME NEW k \in Window'
       PROVE  /\ k \in Int /\ retireIdx <= k /\ k < next /\ k % Ring \in 0 .. Ring - 1
              /\ k % Ring = last <=> k = next - 1
  <2>1. k \in Int /\ retireIdx <= k /\ k < next
    BY <1>5, <1>6, <1>16
  <2>2. k % Ring \in 0 .. Ring - 1
    BY <1>5, <2>1, ModDef
  <2>3. next - 1 \in retireIdx .. next - 1
    BY <1>5, <1>6
  <2> QED
    BY <1>7, <1>8, <1>16, <2>1, <2>2, <2>3
<1>18. ASSUME NEW k \in Window', k < prepareIdx PROVE Row(k)' = Row(k)
  <2>1. J(k % Ring) = {}
    <3> SUFFICES ASSUME NEW j \in J(k % Ring) PROVE FALSE
      OBVIOUS
    <3>1. j \in 1 .. size /\ (prepareIdx + j - 1) % Ring = k % Ring
      BY <1>9
    <3>2. prepareIdx + j - 1 \in retireIdx .. next - 1 /\ prepareIdx + j - 1 # k
      BY <1>5, <1>6, <1>17, <1>18, <3>1
    <3> QED
      BY <1>7, <1>16, <3>1, <3>2
  <2>2. k % Ring # last /\ k % Ring \in 0 .. Ring - 1
    BY <1>5, <1>6, <1>17, <1>18
  <2> QED
    BY <1>12, <1>15, <2>1, <2>2 DEF Row
<1>19. ASSUME NEW k \in Window', ~(k < prepareIdx)
       PROVE  /\ Row(k)'.src = b /\ Row(k)'.id = <<num, k - prepareIdx + 1>>
              /\ Row(k)'.last <=> k = next - 1
  <2> DEFINE j == k - prepareIdx + 1
             s == k % Ring
  <2>1. j \in 1 .. size /\ prepareIdx + j - 1 = k
    BY <1>5, <1>6, <1>17, <1>19
  <2>2. j \in J(s) /\ s \in 0 .. Ring - 1
    BY <1>9, <1>17, <2>1
  <2> HIDE DEF j, s
  <2>3. J(s) # {} /\ Max(J(s)) = j
    BY <1>11, <2>2
  <2>4. written[s] = [src |-> b, id |-> <<num, j>>, last |-> FALSE]
    BY <1>12, <2>2, <2>3
  <2>5. requests'[s].src = b /\ requests'[s].id = <<num, j>> /\ (requests'[s].last <=> s = last)
    <3>1. CASE s = last
      <4>1. requests'[s] = [written[s] EXCEPT !.last = TRUE]
        BY <1>15, <2>2, <3>1
      <4>2. requests'[s] = [[src |-> b, id |-> <<num, j>>, last |-> FALSE] EXCEPT !.last = TRUE]
        BY <2>4, <4>1
      <4>3. requests'[s] = [src |-> b, id |-> <<num, j>>, last |-> TRUE]
        BY <4>2
      <4> QED
        BY <3>1, <4>3
    <3>2. CASE s # last
      <4>1. requests'[s] = [src |-> b, id |-> <<num, j>>, last |-> FALSE]
        BY <1>15, <2>2, <2>4, <3>2
      <4> QED
        BY <3>2, <4>1
    <3> QED
      BY <3>1, <3>2
  <2>6. s = last <=> k = next - 1
    BY <1>17 DEF s
  <2> QED
    BY <2>5, <2>6 DEF Row, s, j
<1> QED
  BY <1>1, <1>2, <1>3, <1>4, <1>6, <1>15, <1>16, <1>18, <1>19 DEF num, size

LEMMA ParseSteps ==
  ASSUME IInv, Fetch, Parse, count = Unlimited, i = prepareIdx
  PROVE  IInv'
<1> DEFINE b == bufs[NextBatch]
           m == NextBatch
           size == data[b].size
           num == data[b].num
           next == prepareIdx + size
           L == Len(bufs)
<1>1. /\ pc = "fetch" /\ pc' = "execute" /\ m <= L /\ PassOver /\ UNCHANGED count
      /\ UNCHANGED <<data, rx, tx, pendingTx, bufs, retireIdx, batch, stageGap>>
  BY DEF Parse, Fetch, worker
<1>2. /\ b \in Buffers /\ HasRequests(b) /\ num \in 1 .. MaxPackets
      /\ size \in 1 .. MaxRequests /\ prepareIdx' = next
      /\ prepareIdx' - retireIdx <= Ring
      /\ requests' \in [0 .. Ring - 1 -> Rows]
      /\ Window' = retireIdx .. prepareIdx' - 1
      /\ \A k \in Window' :
           IF k < prepareIdx THEN Row(k)' = Row(k)
           ELSE /\ Row(k)'.src = b /\ Row(k)'.id = <<num, k - prepareIdx + 1>>
                /\ Row(k)'.last <=> k = prepareIdx' - 1
  BY RowsParsed
<1>3. /\ m \in Int /\ parsed \in Nat /\ L \in Nat /\ parsed + 1 <= m /\ m <= L
      /\ parsed' = m /\ m \in Nat
  <2>1. /\ m \in parsed + 1 .. L + 1 /\ L \in Nat /\ parsed \in Nat
        /\ Min({ m, L }) = IF m <= L THEN m ELSE L
    BY NextBatchIs DEF IInv
  <2>2. m \in Int /\ parsed + 1 <= m
    BY <2>1
  <2>3. parsed' = m
    BY <1>1, <2>1 DEF PassOver
  <2> HIDE DEF m, L
  <2> QED
    BY <1>1, <2>1, <2>2, <2>3
<1>4. /\ ToSet(Burst) = { bufs[k] : k \in parsed + 1 .. L }
      /\ PassedOver = { bufs[k] : k \in parsed + 1 .. m - 1 }
      /\ \A j, k \in parsed + 1 .. L : bufs[j] = bufs[k] => j = k
      /\ bufs \in Seq(Buffers) /\ b = bufs[m]
  BY PassedOverSplit DEF PassedOver
<1>5. /\ Ring \in Nat \ {0} /\ stageGap \in Nat \ {0} /\ MaxRequests \in Nat
      /\ prepareIdx \in Nat /\ retireIdx \in Nat /\ retireIdx <= prepareIdx
      /\ Window = retireIdx .. prepareIdx - 1
  BY Bounds DEF Window
<1> HIDE DEF b, m, L, size, num, next
<1>6. size \in Nat /\ 1 <= size /\ size <= MaxRequests /\ next \in Nat /\ next = prepareIdx + size
  BY <1>2, <1>5 DEF next
<1>7. /\ ToSet(Burst') = { bufs[k] : k \in m + 1 .. L } /\ IsInjective(Burst')
  <2>1. Burst' = SubSeq(bufs, m + 1, L)
    BY <1>1, <1>3 DEF Burst, L
  <2>2. m \in 0 .. L
    BY <1>3
  <2>3. /\ ToSet(SubSeq(bufs, m + 1, L)) = { bufs[k] : k \in m + 1 .. L }
        /\ IsInjective(SubSeq(bufs, m + 1, L))
              <=> \A j, k \in m + 1 .. L : bufs[j] = bufs[k] => j = k
    BY <1>4, <2>2, Rest DEF L
  <2>4. m + 1 .. L \subseteq parsed + 1 .. L
    BY <1>3
  <2> QED
    BY <1>4, <2>1, <2>3, <2>4
<1>8. /\ parsed + 1 .. L = ((parsed + 1 .. m - 1) \cup { m }) \cup (m + 1 .. L)
      /\ m \notin parsed + 1 .. m - 1 /\ m \notin m + 1 .. L
      /\ (parsed + 1 .. m - 1) \cap (m + 1 .. L) = {}
  BY <1>3
<1>9. /\ ToSet(Burst) = (PassedOver \cup { b }) \cup ToSet(Burst')
      /\ PassedOver \cap { b } = {} /\ ToSet(Burst') \cap (PassedOver \cup { b }) = {}
  <2> DEFINE I == parsed + 1 .. m - 1
             K == m + 1 .. L
             T == parsed + 1 .. L
  <2>1. /\ T = (I \cup { m }) \cup K /\ m \notin I /\ m \notin K /\ I \cap K = {}
        /\ ToSet(Burst) = { bufs[k] : k \in T } /\ PassedOver = { bufs[k] : k \in I }
        /\ ToSet(Burst') = { bufs[k] : k \in K } /\ b = bufs[m]
        /\ \A j, k \in T : bufs[j] = bufs[k] => j = k
    BY <1>4, <1>7, <1>8
  <2> HIDE DEF I, K, T
  <2>2. I \subseteq T /\ K \subseteq T /\ m \in T
    BY <2>1
  <2>3. ToSet(Burst) = (PassedOver \cup { b }) \cup ToSet(Burst')
    BY <2>1
  <2>4. PassedOver \cap { b } = {}
    BY <2>1, <2>2
  <2>5. ToSet(Burst') \cap PassedOver = {}
    BY <2>1, <2>2
  <2>6. b \notin ToSet(Burst')
    BY <2>1, <2>2
  <2> QED
    BY <2>3, <2>4, <2>5, <2>6
<1>10. /\ Window \subseteq Window' /\ \A k \in Window' : k \in Int /\ retireIdx <= k /\ k < next
       /\ \A k \in Window' : k < prepareIdx <=> k \in Window
       /\ \A k \in Window' : k < prepareIdx \/ (prepareIdx <= k /\ k - prepareIdx + 1 \in 1 .. size)
       /\ prepareIdx \in Window' /\ next - 1 \in Window' /\ retireIdx \in Window'
  <2>1. Window' = retireIdx .. next - 1 /\ Window = retireIdx .. prepareIdx - 1
    BY <1>2, <1>5 DEF next
  <2> QED
    BY <1>5, <1>6, <2>1
<1>11. \A k \in Window' : /\ k \in Window => Row(k)' = Row(k)
                          /\ k \notin Window =>
                               /\ Row(k)'.src = b /\ Row(k)'.id = <<num, k - prepareIdx + 1>>
                               /\ Row(k)'.last <=> k = next - 1
  BY <1>2, <1>10
<1>12. Held' = Held \cup { b }
  <2>1. Held = { Row(k).src : k \in Window } /\ Held' = { Row(k)'.src : k \in Window' }
    BY DEF Held, Row
  <2>2. prepareIdx \notin Window
    BY <1>5
  <2> QED
    BY <1>10, <1>11, <2>1, <2>2
<1>13. b \notin Held
  <2>1. Charts(Home) /\ Disjoint(Home)
    BY HomeCharts DEF IInv, Placed
  <2>2. ToSet(Burst) \cap Held = {}
    BY <2>1, PlacesApart DEF Charts, Disjoint, Fixed
  <2> QED
    BY <1>9, <2>2
<1>14. Own' = Own
  BY <1>1 DEF Own
<1>15. /\ pool' \in SUBSET Buffers /\ lost' \in SUBSET Buffers
       /\ Disjoint(Home') /\ Everywhere(Home') = Everywhere(Home)
  <2> DEFINE C == { b }
  <2>1. /\ ToSet(Burst) = (PassedOver \cup C) \cup ToSet(Burst') /\ PassedOver \cap C = {}
        /\ ToSet(Burst') \cap (PassedOver \cup C) = {} /\ Held' = Held \cup C
    BY <1>9, <1>12
  <2> HIDE DEF C
  <2> QED
    BY <1>1, <1>14, <2>1, PassOverMoves
<1>16. InWindow'
  <2>1. \A k \in Window : RowRight(k)
    BY DEF IInv, InWindow
  <2>2. \A k \in Window : Row(k).src # b
    BY <1>13 DEF Held, Row
  <2>3. \A c : HasRequests(c)' = HasRequests(c)
    BY <1>1 DEF HasRequests, IsBatch
  <2> SUFFICES ASSUME NEW k \in Window' PROVE RowRight(k)'
    BY DEF InWindow
  <2>4. CASE k \in Window
    <3>1. Row(k)' = Row(k) /\ k \in Int /\ k < prepareIdx
      BY <1>10, <1>11, <2>4
    <3>2. /\ Row(k).src \in Buffers /\ HasRequests(Row(k).src)
          /\ Row(k).id = <<data[Row(k).src].num, Row(k).id[2]>>
          /\ Row(k).id[2] \in 1 .. data[Row(k).src].size
          /\ Row(k).last <=> Row(k).id[2] = data[Row(k).src].size
      BY <2>1, <2>4 DEF RowRight
    <3>3. k + 1 # prepareIdx'
      BY <1>2, <1>5, <1>6, <3>1
    <3>4. ASSUME k + 1 \in Window'
          PROVE IF Row(k).last THEN Row(k + 1)'.id[2] = 1
                ELSE Row(k + 1)'.src = Row(k).src /\ Row(k + 1)'.id[2] = Row(k).id[2] + 1
      <4>1. CASE k + 1 \in Window
        <5>1. Row(k + 1)' = Row(k + 1)
          BY <1>11, <3>4, <4>1
        <5> QED
          BY <2>1, <2>4, <4>1, <5>1 DEF RowRight
      <4>2. CASE k + 1 \notin Window
        <5>1. k + 1 = prepareIdx
          BY <1>5, <1>10, <3>1, <3>4, <4>2
        <5>2. Row(k).last
          BY <2>1, <2>4, <5>1 DEF RowRight
        <5>3. Row(k + 1)'.id = <<num, (k + 1) - prepareIdx + 1>>
          BY <1>11, <3>4, <4>2
        <5>4. (k + 1) - prepareIdx + 1 = 1
          BY <1>5, <5>1
        <5> QED
          BY <5>2, <5>3, <5>4
      <4> QED
        BY <4>1, <4>2
    <3>5. ASSUME NEW l \in Window', Row(l)'.src = Row(k).src
          PROVE  l - Row(l)'.id[2] = k - Row(k).id[2]
      <4>1. l \in Window
        BY <1>11, <2>2, <2>4, <3>5
      <4>2. Row(l)' = Row(l)
        BY <1>11, <3>5, <4>1
      <4> QED
        BY <2>1, <2>4, <3>5, <4>1, <4>2 DEF RowRight
    <3> QED
      BY <1>1, <2>3, <3>1, <3>2, <3>3, <3>4, <3>5 DEF RowRight
  <2>5. CASE k \notin Window
    <3> DEFINE j == k - prepareIdx + 1
    <3>1. /\ k \in Int /\ j \in 1 .. size /\ prepareIdx <= k /\ j \in Int
      BY <1>6, <1>10, <1>11, <2>5
    <3>2. /\ Row(k)'.src = b /\ Row(k)'.id = <<num, j>> /\ Row(k)'.id[2] = j
          /\ Row(k)'.last <=> k = next - 1
      BY <1>11, <2>5
    <3>3. k = next - 1 <=> j = size
      BY <1>5, <1>6, <3>1
    <3>4. k + 1 = next <=> k = next - 1
      BY <1>6, <3>1
    <3>5. ASSUME k + 1 \in Window'
          PROVE  ~Row(k)'.last /\ Row(k + 1)'.src = b /\ Row(k + 1)'.id[2] = j + 1
      <4>1. k + 1 < next /\ k + 1 \notin Window
        BY <1>5, <1>10, <3>1, <3>5
      <4>2. Row(k + 1)'.src = b /\ Row(k + 1)'.id = <<num, (k + 1) - prepareIdx + 1>>
        BY <1>11, <3>5, <4>1
      <4>3. (k + 1) - prepareIdx + 1 = j + 1 /\ k # next - 1
        BY <1>5, <1>6, <3>1, <4>1
      <4> QED
        BY <3>2, <4>2, <4>3
    <3>6. ASSUME NEW l \in Window', Row(l)'.src = b PROVE l - Row(l)'.id[2] = k - j
      <4>1. l \notin Window
        BY <1>11, <2>2, <3>6
      <4>2. Row(l)'.id[2] = l - prepareIdx + 1 /\ l \in Int
        BY <1>10, <1>11, <4>1
      <4> QED
        BY <1>5, <3>1, <4>2
    <3> HIDE DEF j
    <3> QED
      BY <1>1, <1>2, <2>3, <3>1, <3>2, <3>3, <3>4, <3>5, <3>6 DEF RowRight, num, size
  <2> QED
    BY <2>4, <2>5
<1>17. parsed' \in 0 .. Len(bufs)
  BY <1>3 DEF L
<1>18. prepareIdx' <= parsed' * MaxRequests
  <2>1. prepareIdx <= parsed * MaxRequests
    BY DEF IInv, Progress
  <2>2. (parsed + 1) * MaxRequests <= m * MaxRequests
    BY <1>3, <1>5, Product
  <2>3. (parsed + 1) * MaxRequests = parsed * MaxRequests + MaxRequests
    BY <1>3, <1>5
  <2>4. parsed * MaxRequests \in Int /\ m * MaxRequests \in Int
    BY <1>3, <1>5
  <2>5. prepareIdx + size <= m * MaxRequests
    BY <1>5, <1>6, <2>1, <2>2, <2>3, <2>4
  <2> QED
    BY <1>2, <1>3, <1>6, <2>5
<1>19. Live' \subseteq Live
  BY <1>1, <1>9, <1>12 DEF Live
<1>20. prepareIdx' \in Nat /\ retireIdx <= prepareIdx' /\ i < prepareIdx'
  BY <1>2, <1>5, <1>6
<1>21. count' = Unlimited /\ count' \in Nat /\ prepareIdx' <= count'
  <2>1. m * MaxRequests <= RXBurst * MaxRequests
    <3>1. RXBurst \in Nat /\ m <= RXBurst
      BY <1>3, ServerAssumption DEF IInv, Arrays, L
    <3> QED
      BY <1>3, <1>5, <3>1, Product
  <2>2. m * MaxRequests \in Int /\ RXBurst * MaxRequests \in Int
    BY <1>3, <1>5, ServerAssumption
  <2> QED
    BY <1>1, <1>3, <1>18, <1>20, <2>1, <2>2, Bounds DEF Unlimited
<1>22. batch.answers = IF Window' = {} THEN <<>>
                       ELSE AnswersTo(Row(retireIdx)'.id[1], Row(retireIdx)'.id[2] - 1)
  <2>1. batch.answers = IF Window = {} THEN <<>>
                        ELSE AnswersTo(Row(retireIdx).id[1], Row(retireIdx).id[2] - 1)
    BY <1>1 DEF IInv, Answering
  <2>2. CASE Window = {}
    <3>1. retireIdx = prepareIdx /\ retireIdx \notin Window
      BY <1>5, <2>2
    <3>2. PICK k \in Window' : k = retireIdx
      BY <1>10
    <3>3. Row(k)'.id = <<num, k - prepareIdx + 1>> /\ k - prepareIdx + 1 = 1
      BY <1>5, <1>11, <3>1, <3>2
    <3>4. Row(retireIdx)' = Row(k)'
      BY <1>1, <3>2 DEF Row
    <3>6. Row(retireIdx)'.id[1] = num /\ Row(retireIdx)'.id[2] = 1
      BY <3>3, <3>4
    <3>5. AnswersTo(num, 1 - 1) = <<>>
      BY DEF AnswersTo
    <3> QED
      BY <1>10, <2>1, <2>2, <3>5, <3>6
  <2>3. CASE Window # {}
    <3>1. retireIdx \in Window
      BY <1>5, <2>3
    <3>2. PICK k \in Window' : k = retireIdx
      BY <1>10
    <3>3. Row(k)' = Row(k)
      BY <1>11, <3>1, <3>2
    <3>4. Row(retireIdx)' = Row(retireIdx)
      BY <1>1, <3>2, <3>3 DEF Row
    <3> QED
      BY <1>10, <2>1, <2>3, <3>4
  <2> QED
    BY <2>2, <2>3
<1>23. \A k \in Window' : k < i - stageGap => k \in Window /\ Row(k)' = Row(k)
  <2> SUFFICES ASSUME NEW k \in Window', k < i - stageGap PROVE k \in Window /\ Row(k)' = Row(k)
    OBVIOUS
  <2>1. k < prepareIdx
    BY <1>5, <1>10
  <2> QED
    BY <1>10, <1>11, <2>1
<1> QED
  BY <1>2, <1>7, <1>15, <1>16, <1>17, <1>18, <1>19, <1>20, <1>21, <1>22, <1>23, Fetched

LEMMA FetchSteps ==
  ASSUME IInv, Fetch
  PROVE  IInv'
<1>1. CASE count = Unlimited /\ i = prepareIdx
  <2>1. Parse \/ ParseNothing
    BY <1>1 DEF Fetch
  <2> QED
    BY <1>1, <2>1, ParseSteps, ParseNothingSteps
<1>2. CASE ~(count = Unlimited /\ i = prepareIdx)
  <2>1. NoParse
    BY <1>2 DEF Fetch
  <2> QED
    BY <1>2, <2>1, NoParseSteps
<1> QED
  BY <1>1, <1>2

-----------------------------------------------------------------------------
(* Answering.                                                              *)

\* One more answer.
LEMMA AnswersGrow ==
  ASSUME NEW num, NEW j \in Nat \ {0}, AnswersTo(num, j - 1) \in Answers,
         NEW a \in [id : Ids, part : Ids], a = [id |-> <<num, j>>, part |-> <<num, j>>]
  PROVE  /\ Append(AnswersTo(num, j - 1), a) = AnswersTo(num, j)
         /\ AnswersTo(num, j) \in Answers
<1> DEFINE s == AnswersTo(num, j - 1)
           t == Append(s, a)
           u == AnswersTo(num, j)
           S == [id : Ids, part : Ids]
<1>1. s \in Seq(S)
  BY DEF Answers
<1>2. /\ DOMAIN s = 1 .. j - 1
      /\ \A k \in 1 .. j - 1 : s[k] = [id |-> <<num, k>>, part |-> <<num, k>>]
  BY DEF AnswersTo, RequestId
<1>3. /\ DOMAIN u = 1 .. j /\ u = [k \in 1 .. j |-> u[k]]
      /\ \A k \in 1 .. j : u[k] = [id |-> <<num, k>>, part |-> <<num, k>>]
  BY DEF AnswersTo, RequestId
<1>4. Len(s) = j - 1
  <2>1. Len(s) \in Nat /\ DOMAIN s = 1 .. Len(s)
    BY <1>1, LenProperties
  <2> QED
    BY <1>2, <2>1
<1> HIDE DEF s, u
<1>5. /\ t \in Seq(S) /\ Len(t) = Len(s) + 1 /\ t[Len(s) + 1] = a
      /\ \A k \in 1 .. Len(s) : t[k] = s[k]
  BY <1>1, AppendProperties DEF S
<1> HIDE DEF t
<1>6. /\ Len(t) = j /\ t[j] = a /\ \A k \in 1 .. j - 1 : t[k] = s[k]
  <2>1. Len(s) + 1 = j
    BY <1>4
  <2> QED
    BY <1>4, <1>5, <2>1
<1>7. \A k \in 1 .. j : t[k] = u[k]
  <2>1. \A k \in 1 .. j : k = j \/ k \in 1 .. j - 1
    OBVIOUS
  <2> QED
    BY <1>2, <1>3, <1>6, <2>1
<1>8. DOMAIN t = 1 .. j /\ t = [k \in 1 .. j |-> t[k]]
  <2>1. DOMAIN t = 1 .. j
    BY <1>5, <1>6, LenProperties
  <2>2. t \in [1 .. Len(t) -> S]
    BY <1>5, LenProperties
  <2> QED
    BY <2>1, <2>2
<1>9. t = u
  BY <1>3, <1>7, <1>8
<1> QED
  BY <1>5, <1>9 DEF t, u, s, S, Answers

\* The request at the last stage is the first of the window.
LEMMA AtFront ==
  ASSUME IInv, pc = "execute", 0 <= Index, Index < count
  PROVE  /\ retireIdx = Index /\ retireIdx \in Window /\ Request = Row(retireIdx)
         /\ retireIdx + 1 = Behind(i + 1) /\ retireIdx + 1 <= prepareIdx
         /\ RowRight(retireIdx) /\ Row(retireIdx).src \in Buffers
         /\ Row(retireIdx).id[1] = data[Row(retireIdx).src].num
         /\ Row(retireIdx).id[2] \in Nat \ {0} /\ Row(retireIdx).id \in Ids
         /\ slots[retireIdx % PipelineSize(stageGap)] = Row(retireIdx).id
<1>1. /\ stageGap \in Nat \ {0} /\ i \in Nat /\ count \in Nat /\ prepareIdx \in Nat
      /\ retireIdx \in Nat /\ PipelineSize(stageGap) \in Nat \ {0} /\ Ring \in Nat \ {0}
  BY Bounds
<1>2. retireIdx = Behind(i) /\ IF count = Unlimited THEN i < prepareIdx ELSE count = prepareIdx
  BY DEF IInv, Progress
<1>3. /\ retireIdx = Index /\ retireIdx = i - 3 * stageGap
  BY <1>1, <1>2 DEF Behind, Index
<1>4. retireIdx < prepareIdx
  BY <1>1, <1>2, <1>3
<1>5. retireIdx \in Window /\ retireIdx + 1 <= prepareIdx
  BY <1>1, <1>4 DEF Window
<1>6. retireIdx + 1 = Behind(i + 1)
  BY <1>1, <1>3 DEF Behind
<1>7. Request = Row(retireIdx)
  BY <1>3 DEF Request, Row
<1>8. RowRight(retireIdx)
  BY <1>5 DEF IInv, InWindow
<1>9. /\ Row(retireIdx).src \in Buffers /\ HasRequests(Row(retireIdx).src) /\ Row(retireIdx).id = <<data[Row(retireIdx).src].num, Row(retireIdx).id[2]>>
      /\ Row(retireIdx).id[2] \in 1 .. data[Row(retireIdx).src].size
  BY <1>8 DEF RowRight
<1>10. Row(retireIdx).id[2] \in Nat \ {0}
  <2>1. data[Row(retireIdx).src].size \in 0 .. MaxRequests /\ MaxRequests \in Nat
    BY <1>9, InBuffers, Bounds DEF HasRequests
  <2> QED
    BY <1>9, <2>1
<1>11. Row(retireIdx).id \in Ids
  <2>1. retireIdx % Ring \in 0 .. Ring - 1
    <3>1. retireIdx \in Int /\ Ring \in Nat \ {0}
      BY <1>1
    <3> QED
      BY <3>1, ModDef
  <2> QED
    BY <2>1 DEF IInv, Arrays, Rows, Row
<1>12. slots[retireIdx % PipelineSize(stageGap)] = Row(retireIdx).id
  <2>1. retireIdx < i - stageGap
    BY <1>1, <1>3
  <2> QED
    BY <1>5, <2>1 DEF IInv, Answering
<1>13. Row(retireIdx).id[1] = data[Row(retireIdx).src].num
  BY <1>9
<1>14. Row(retireIdx).src \in Buffers /\ retireIdx = Index
  BY <1>3, <1>9
<1> QED
  BY <1>5, <1>6, <1>7, <1>8, <1>10, <1>11, <1>12, <1>13, <1>14

LEMMA FrontAnswers ==
  ASSUME IInv, pc = "execute", 0 <= Index, Index < count,
         NEW num, num = Row(retireIdx).id[1], NEW j, j = Row(retireIdx).id[2]
  PROVE  Append(batch.answers, Answer) = AnswersTo(num, j) /\ AnswersTo(num, j) \in Answers
<1>1. /\ retireIdx = Index /\ retireIdx \in Window /\ Request = Row(retireIdx)
      /\ Row(retireIdx).id[2] \in Nat \ {0} /\ Row(retireIdx).id \in Ids
      /\ slots[retireIdx % PipelineSize(stageGap)] = Row(retireIdx).id
  BY AtFront
<1>2. Answer = [id |-> Row(retireIdx).id, part |-> Row(retireIdx).id]
  BY <1>1 DEF Answer
<1>3. batch.answers = AnswersTo(num, j - 1) /\ batch.answers \in Answers
  BY <1>1 DEF IInv, Answering, Arrays
<1>4. Row(retireIdx).id = <<num, j>>
  BY <1>1 DEF Ids
<1>5. /\ j \in Nat \ {0} /\ AnswersTo(num, j - 1) \in Answers
      /\ Answer \in [id : Ids, part : Ids] /\ Answer = [id |-> <<num, j>>, part |-> <<num, j>>]
  BY <1>1, <1>2, <1>3, <1>4
<1> QED
  BY SMTT(30), <1>3, <1>5, AnswersGrow

\* The loop goes on.
LEMMA Advanced ==
  ASSUME IInv, pc = "execute", Advance, retireIdx' = Behind(i + 1), retireIdx' <= prepareIdx,
         UNCHANGED <<count, prepareIdx, parsed, bufs, stageGap, nextIndex, ep>>
  PROVE  Progress' /\ i' = i + 1 /\ pc' \in { "fetch", "check" }
<1>1. /\ stageGap \in Nat \ {0} /\ i \in Nat /\ count \in Nat /\ prepareIdx \in Nat
      /\ retireIdx \in Nat /\ Unlimited \in Nat /\ prepareIdx < Unlimited /\ Ring \in Nat
  BY Bounds
<1>2. /\ IF count = Unlimited THEN i < prepareIdx ELSE i < count + 3 * stageGap
      /\ count = Unlimited \/ (count = prepareIdx /\ parsed = Len(bufs))
      /\ prepareIdx - retireIdx <= Ring /\ retireIdx = Behind(i)
  BY DEF IInv, Progress
<1>3. i' = i + 1 /\ pc' = IF i + 1 < count + 3 * stageGap THEN "fetch" ELSE "check"
  BY DEF Advance
<1>4. retireIdx' \in Nat /\ retireIdx <= retireIdx'
  BY <1>1, <1>2 DEF Behind
<1>5. prepareIdx - retireIdx' <= Ring
  BY <1>1, <1>2, <1>4
<1>6. CASE i + 1 < count + 3 * stageGap
  <2>1. pc' = "fetch"
    BY <1>3, <1>6
  <2>2. IF count = Unlimited THEN i + 1 <= prepareIdx ELSE i + 1 < count + 3 * stageGap
    BY <1>1, <1>2, <1>6
  <2>3. retireIdx' = Behind(i)'
    BY <1>3 DEF Behind
  <2> QED
    BY <1>1, <1>3, <1>4, <1>5, <2>1, <2>2, <2>3 DEF IInv, Progress, Unlimited
<1>7. CASE ~(i + 1 < count + 3 * stageGap)
  <2>1. pc' = "check"
    BY <1>3, <1>7
  <2>2. count # Unlimited
    BY <1>1, <1>2, <1>7
  <2>3. count = prepareIdx /\ parsed = Len(bufs) /\ i + 1 = prepareIdx + 3 * stageGap
    BY <1>1, <1>2, <1>7, <2>2
  <2>4. retireIdx' = prepareIdx
    BY <1>1, <2>3 DEF Behind
  <2> QED
    BY <1>1, <1>3, <1>4, <1>5, <2>1, <2>3, <2>4 DEF IInv, Progress, Unlimited
<1> QED
  BY <1>3, <1>6, <1>7

\* The slots of the requests that remain.
LEMMA SlotsRemain ==
  ASSUME IInv, pc = "execute", i' = i + 1, Window' \subseteq Window,
         UNCHANGED <<requests, slots, stageGap>>
  PROVE  \A k \in Window' : k < i' - stageGap => slots'[k % PipelineSize(stageGap)] = Row(k)'.id
<1> SUFFICES ASSUME NEW k \in Window', k < i' - stageGap
             PROVE  slots'[k % PipelineSize(stageGap)] = Row(k)'.id
  OBVIOUS
<1>1. k \in Window /\ k \in Int /\ stageGap \in Nat /\ i \in Nat
  BY Bounds DEF Window
<1>2. k < i - stageGap \/ k = i - stageGap
  BY <1>1
<1> QED
  BY <1>1, <1>2 DEF IInv, Answering, Row

LEMMA IdleSteps ==
  ASSUME IInv, Idle
  PROVE  IInv'
<1>1. /\ pc = "execute" /\ ~(0 <= Index /\ Index < count) /\ Advance
      /\ UNCHANGED <<pool, data, rx, tx, arrived, bad, nextIndex, ep, pendingTx, late, bufs,
                     parsed, requests, prepareIdx, retireIdx, batch, count, slots, stageGap,
                     lost, replies>>
  BY DEF Idle, network, worker, accessor, history
<1>2. retireIdx = Behind(i + 1)
  <2>1. /\ stageGap \in Nat \ {0} /\ i \in Nat /\ count \in Nat /\ prepareIdx \in Nat
        /\ Unlimited \in Nat /\ prepareIdx < Unlimited
    BY Bounds
  <2>2. /\ IF count = Unlimited THEN i < prepareIdx ELSE i < count + 3 * stageGap
        /\ retireIdx = Behind(i)
    BY <1>1 DEF IInv, Progress
  <2>3. i - 3 * stageGap < 0
    BY <1>1, <2>1, <2>2 DEF Index
  <2> QED
    BY <2>1, <2>2, <2>3 DEF Behind
<1>3. Progress' /\ i' = i + 1 /\ pc' \in { "fetch", "check" }
  <2>1. retireIdx' = Behind(i + 1) /\ retireIdx' <= prepareIdx
    BY <1>1, <1>2, Bounds
  <2> QED
    BY <1>1, <2>1, Advanced
<1>4. UNCHANGED <<Burst, Held, Own, Window>> /\ Row(retireIdx)' = Row(retireIdx)
  BY <1>1, <1>3 DEF Burst, Held, Own, Window, Row
<1>5. Network' /\ Packet' /\ Arrays'
  BY <1>1 DEF IInv, Network, Packet, Arrays, IsResponse
<1>6. Placed'
  BY <1>1, <1>4, NothingMoves DEF IInv
<1>7. InWindow'
  BY <1>1, WindowKept DEF IInv
<1>8. Answering'
  <2>1. \A k \in Window' : k < i' - stageGap => slots'[k % PipelineSize(stageGap)] = Row(k)'.id
    BY <1>1, <1>3, <1>4, SlotsRemain
  <2>2. batch'.answers = IF Window' = {} THEN <<>>
                         ELSE AnswersTo(Row(retireIdx)'.id[1], Row(retireIdx)'.id[2] - 1)
    BY <1>1, <1>4 DEF IInv, Answering
  <2> QED
    BY <1>1, <1>3, <2>1, <2>2 DEF Answering
<1>9. Numbered'
  <2>1. Live' = Live
    BY <1>1, <1>4 DEF Live
  <2> QED
    BY <1>1, <2>1, NumberedKept DEF IInv
<1> QED
  BY <1>3, <1>5, <1>6, <1>7, <1>8, <1>9 DEF IInv

\* When the first of the window is retired, the rest of it stays right.
LEMMA WindowShrinks ==
  ASSUME IInv, retireIdx \in Window, retireIdx' = retireIdx + 1,
         UNCHANGED <<requests, prepareIdx>>, \A b \in Held : data'[b] = data[b]
  PROVE  /\ InWindow' /\ Window' = Window \ { retireIdx } /\ Held' \subseteq Held
         /\ Window' # {} => retireIdx + 1 \in Window' /\ retireIdx + 1 \in Window
         /\ Window' = {} => retireIdx + 1 = prepareIdx
<1>1. retireIdx \in Nat /\ prepareIdx \in Nat
  BY Bounds
<1>2. Window' = retireIdx + 1 .. prepareIdx - 1 /\ Window = retireIdx .. prepareIdx - 1
  BY DEF Window
<1>3. /\ Window' = Window \ { retireIdx }
      /\ Window' # {} => retireIdx + 1 \in Window' /\ retireIdx + 1 \in Window
      /\ Window' = {} => retireIdx + 1 = prepareIdx
  BY <1>1, <1>2
<1>4. \A k : Row(k)' = Row(k)
  BY DEF Row
<1>5. Held = { Row(k).src : k \in Window } /\ Held' = { Row(k).src : k \in Window' }
  BY <1>4 DEF Held, Row
<1>6. ASSUME NEW k \in Window' PROVE RowRight(k)'
  <2>1. RowRight(k) /\ k \in Window /\ Row(k).src \in Held
    BY <1>3, <1>5 DEF IInv, InWindow
  <2>2. data'[Row(k).src] = data[Row(k).src]
    BY <2>1
  <2>3. HasRequests(Row(k).src)' <=> HasRequests(Row(k).src)
    BY <1>4, <2>2 DEF HasRequests, IsBatch
  <2>4. /\ Row(k).src \in Buffers /\ HasRequests(Row(k).src)
        /\ Row(k).id = <<data[Row(k).src].num, Row(k).id[2]>>
        /\ Row(k).id[2] \in 1 .. data[Row(k).src].size
        /\ Row(k).last <=> Row(k).id[2] = data[Row(k).src].size
    BY <2>1 DEF RowRight
  <2>5. k + 1 = prepareIdx => Row(k).last
    BY <2>1 DEF RowRight
  <2>6. k + 1 \in Window' => IF Row(k).last THEN Row(k + 1).id[2] = 1
                             ELSE Row(k + 1).src = Row(k).src /\ Row(k + 1).id[2] = Row(k).id[2] + 1
    BY <1>3, <2>1 DEF RowRight
  <2>7. \A l \in Window' : Row(l).src = Row(k).src => l - Row(l).id[2] = k - Row(k).id[2]
    BY <1>3, <2>1 DEF RowRight
  <2> QED
    BY <1>4, <2>2, <2>3, <2>4, <2>5, <2>6, <2>7 DEF RowRight
<1> QED
  BY <1>3, <1>5, <1>6 DEF InWindow

LEMMA RetireSteps ==
  ASSUME IInv, Retire
  PROVE  IInv'
<1> DEFINE r == Row(retireIdx)
           num == r.id[1]
           j == r.id[2]
<1>1. /\ pc = "execute" /\ 0 <= Index /\ Index < count /\ ~Request.last /\ Advance
      /\ batch' = [batch EXCEPT !.answers = Append(batch.answers, Answer)]
      /\ retireIdx' = retireIdx + 1
      /\ UNCHANGED <<pool, data, rx, tx, arrived, bad, nextIndex, ep, pendingTx, late, bufs,
                     parsed, requests, prepareIdx, count, slots, stageGap, lost, replies>>
  BY DEF Retire, network, worker, history
<1>2. /\ retireIdx \in Window /\ Request = r /\ retireIdx + 1 = Behind(i + 1)
      /\ retireIdx + 1 <= prepareIdx /\ RowRight(retireIdx) /\ r.src \in Buffers
      /\ num = data[r.src].num /\ j \in Nat \ {0}
  BY <1>1, AtFront
<1>3. Append(batch.answers, Answer) = AnswersTo(num, j) /\ AnswersTo(num, j) \in Answers
  BY <1>1, FrontAnswers
<1>4. batch \in [buf : Buffers, answers : Answers]
  BY DEF IInv, Arrays
<1>5. /\ batch' \in [buf : Buffers, answers : Answers]
      /\ batch'.buf = batch.buf /\ batch'.answers = AnswersTo(num, j)
  BY <1>1, <1>3, <1>4
<1>6. Progress' /\ i' = i + 1 /\ pc' \in { "fetch", "check" }
  <2>1. retireIdx' = Behind(i + 1) /\ retireIdx' <= prepareIdx
    BY <1>1, <1>2
  <2> QED
    BY <1>1, <2>1, Advanced
<1>7. /\ InWindow' /\ Window' = Window \ { retireIdx } /\ Held' \subseteq Held
      /\ Window' # {} => retireIdx + 1 \in Window' /\ retireIdx + 1 \in Window
      /\ Window' = {} => retireIdx + 1 = prepareIdx
  BY <1>1, <1>2, WindowShrinks
<1>8. /\ retireIdx + 1 \in Window /\ retireIdx + 1 \in Window'
      /\ Row(retireIdx + 1).src = r.src /\ Row(retireIdx + 1).id[2] = j + 1
  <2>1. retireIdx + 1 # prepareIdx
    BY <1>1, <1>2 DEF RowRight
  <2>2. retireIdx + 1 \in Window /\ retireIdx + 1 \in Window'
    BY <1>7, <2>1
  <2> QED
    BY <1>1, <1>2, <2>2 DEF RowRight
<1>9. \A k : Row(k)' = Row(k)
  BY <1>1 DEF Row
<1>10. Held' = Held
  <2>1. Held = { Row(k).src : k \in Window } /\ Held' = { Row(k).src : k \in Window' }
    BY <1>9 DEF Held, Row
  <2> QED
    BY <1>7, <1>8, <2>1
<1>11. UNCHANGED <<Burst, Own>>
  BY <1>1, <1>5, <1>6 DEF Burst, Own
<1>12. Network' /\ Packet' /\ Arrays'
  BY <1>1, <1>5 DEF IInv, Network, Packet, Arrays, IsResponse
<1>13. Placed'
  BY <1>1, <1>6, <1>10, <1>11, NothingMoves DEF IInv
<1>14. Answering'
  <2>1. \A k \in Window' : k < i' - stageGap => slots'[k % PipelineSize(stageGap)] = Row(k)'.id
    BY <1>1, <1>6, <1>7, SlotsRemain
  <2> DEFINE n == retireIdx + 1
  <2>2. Row(n).id[1] = num
    <3>1. RowRight(n)
      BY <1>8 DEF IInv, InWindow
    <3>2. Row(n).id = <<data[Row(n).src].num, Row(n).id[2]>>
      BY <3>1 DEF RowRight
    <3> QED
      BY <1>2, <1>8, <3>2
  <2>3. Row(n).id[2] - 1 = j
    BY <1>2, <1>8
  <2>4. Row(retireIdx)' = Row(n)
    BY <1>1 DEF Row
  <2>5. batch'.answers = AnswersTo(Row(retireIdx)'.id[1], Row(retireIdx)'.id[2] - 1)
    BY <1>5, <2>2, <2>3, <2>4
  <2> QED
    BY <1>1, <1>6, <1>8, <2>1, <2>5 DEF Answering
<1>15. Numbered'
  <2>1. Live' = Live
    BY <1>1, <1>10, <1>11 DEF Live
  <2> QED
    BY <1>1, <2>1, NumberedKept DEF IInv
<1> QED
  BY <1>6, <1>7, <1>12, <1>13, <1>14, <1>15 DEF IInv

\* Where the buffers are when the finished batch has joined the pending ones.
Joining(F) == Move(F, AtBatch, AtPending(ep), { batch.buf })

LEMMA JoiningMoves ==
  ASSUME IInv, pc = "execute", NEW out, out = Append(pendingTx[ep], batch.buf)
  PROVE  /\ ep \in Endpoints /\ out \in Seq(Buffers) /\ IsInjective(out)
         /\ Len(out) = Len(pendingTx[ep]) + 1 /\ Len(out) <= TXBurst /\ Len(out) \in Nat
         /\ batch.buf \in Buffers /\ batch.buf \notin Live
         /\ Disjoint(Joining(Home)) /\ Everywhere(Joining(Home)) = Everywhere(Home)
         /\ Joining(Home)[AtPending(ep)] = ToSet(out) /\ Joining(Home)[AtBatch] = {}
         /\ \A p \in Places : p # AtPending(ep) /\ p # AtBatch => Joining(Home)[p] = Home[p]
<1> DEFINE q == pendingTx[ep]
           c == batch.buf
           F == Joining(Home)
<1>1. /\ ep \in Endpoints /\ q \in Seq(Buffers) /\ IsInjective(q) /\ c \in Buffers
      /\ Len(q) < TXBurst /\ TXBurst \in Nat /\ Len(q) \in Nat
  BY LenProperties, ServerAssumption DEF IInv, Progress, Network, Placed, Arrays
<1>2. Charts(Home) /\ Disjoint(Home) /\ Own = { c }
  BY HomeCharts DEF IInv, Placed, Own
<1>3. /\ AtBatch \in Places /\ AtPending(ep) \in Places /\ AtBatch # AtPending(ep)
      /\ Home[AtBatch] = { c } /\ Home[AtPending(ep)] = ToSet(q)
  BY <1>1, <1>2, PlacesApart DEF Charts, Fixed
<1>4. c \notin ToSet(q)
  BY <1>2, <1>3 DEF Disjoint
<1>5. /\ out \in Seq(Buffers) /\ Len(out) = Len(q) + 1 /\ ToSet(out) = ToSet(q) \cup { c }
      /\ IsInjective(out)
  BY <1>1, <1>4, Appended
<1>6. c \notin Live
  BY <1>2, LiveApart DEF IInv
<1>7. { c } \in SUBSET Home[AtBatch]
  BY <1>3
<1>8. Disjoint(F) /\ Everywhere(F) = Everywhere(Home)
  BY <1>2, <1>3, <1>7, Moved DEF Joining
<1>9. \A p \in Places : F[p] = IF p = AtBatch THEN Home[p] \ { c }
                               ELSE IF p = AtPending(ep) THEN Home[p] \cup { c } ELSE Home[p]
  BY DEF Joining, Move
<1> HIDE DEF F
<1>10. F[AtBatch] = {} /\ F[AtPending(ep)] = ToSet(out)
  BY <1>3, <1>5, <1>9
<1>11. \A p \in Places : p # AtPending(ep) /\ p # AtBatch => F[p] = Home[p]
  BY <1>9
<1>12. Len(out) <= TXBurst /\ Len(out) \in Nat
  BY <1>1, <1>5
<1> QED
  BY <1>1, <1>5, <1>6, <1>8, <1>10, <1>11, <1>12 DEF F

\* ... and when a full burst of them has been sent.
Flushing(F, out) == IF Full(out) THEN Send(F, ep, ToSet(Taken(ep, out))) ELSE F
Left(out) == IF Full(out) THEN pool \cup Dropped(ep, out) ELSE pool

LEMMA FlushingMoves ==
  ASSUME IInv, pc = "execute", NEW out, out = Append(pendingTx[ep], batch.buf),
         tx' = IF Full(out) THEN [tx EXCEPT ![ep] = tx[ep] \o Taken(ep, out)] ELSE tx,
         pendingTx' = [pendingTx EXCEPT ![ep] = IF Full(out) THEN <<>> ELSE out],
         NEW F, F = Flushing(Joining(Home), out)
  PROVE  /\ Disjoint(F) /\ Everywhere(F) = Everywhere(Home)
         /\ F[AtPool] = Left(out) /\ Left(out) \in SUBSET Buffers /\ F[AtBatch] = {}
         /\ F[AtLost] = lost /\ F[AtBurst] = ToSet(Burst) /\ F[AtHeld] = Held
         /\ \A e \in Endpoints : /\ F[AtRx(e)] = ToSet(rx[e]) /\ F[AtTx(e)] = ToSet(tx'[e])
                                 /\ F[AtPending(e)] = ToSet(pendingTx'[e])
         /\ tx' \in [Endpoints -> Seq(Buffers)] /\ pendingTx' \in [Endpoints -> Seq(Buffers)]
         /\ \A e \in Endpoints : Len(tx'[e]) <= TXDesc /\ Len(pendingTx'[e]) < TXBurst
         /\ \A e \in Endpoints : IsInjective(tx'[e]) /\ IsInjective(pendingTx'[e])
<1> DEFINE G == Joining(Home)
           a == Taken(ep, out)
           d == Dropped(ep, out)
           t == tx[ep] \o a
<1>1. /\ ep \in Endpoints /\ out \in Seq(Buffers) /\ IsInjective(out)
      /\ Len(out) <= TXBurst /\ Len(out) \in Nat
      /\ Disjoint(G) /\ Everywhere(G) = Everywhere(Home)
      /\ G[AtPending(ep)] = ToSet(out) /\ G[AtBatch] = {}
      /\ \A p \in Places : p # AtPending(ep) /\ p # AtBatch => G[p] = Home[p]
  BY JoiningMoves
<1>2. /\ tx \in [Endpoints -> Seq(Buffers)] /\ pendingTx \in [Endpoints -> Seq(Buffers)]
      /\ pool \in SUBSET Buffers /\ tx[ep] \in Seq(Buffers) /\ TXBurst \in Nat \ {0}
      /\ \A e \in Endpoints : Len(tx[e]) <= TXDesc /\ Len(pendingTx[e]) < TXBurst
      /\ \A e \in Endpoints : IsInjective(tx[e]) /\ IsInjective(pendingTx[e])
  BY <1>1, ServerAssumption DEF IInv, Network, Placed
<1>3. Charts(Home)
  BY HomeCharts
<1>4. /\ a \in Seq(Buffers) /\ IsInjective(a) /\ Len(t) <= TXDesc
      /\ ToSet(out) = ToSet(a) \cup d /\ ToSet(a) \cap d = {} /\ d \subseteq Buffers
  BY <1>1, Sent DEF IInv
<1>5. t \in Seq(Buffers) /\ ToSet(t) = ToSet(tx[ep]) \cup ToSet(a)
  BY <1>2, <1>4, Joined
<1> HIDE DEF G, a, d
<1>6. \A e \in Endpoints :
        /\ AtTx(e) \in Places /\ G[AtTx(e)] = ToSet(tx[e])
        /\ AtTx(e) # AtPool /\ AtTx(e) # AtPending(ep) /\ (e # ep => AtTx(e) # AtTx(ep))
        /\ AtRx(e) \in Places /\ G[AtRx(e)] = ToSet(rx[e])
        /\ AtRx(e) # AtPool /\ AtRx(e) # AtPending(ep) /\ AtRx(e) # AtTx(ep)
        /\ AtPending(e) \in Places /\ AtPending(e) # AtPool /\ AtPending(e) # AtTx(ep)
        /\ (e # ep => AtPending(e) # AtPending(ep) /\ G[AtPending(e)] = ToSet(pendingTx[e]))
  BY <1>1, <1>3, PlacesApart DEF Charts, Fixed
<1>7. /\ G[AtPool] = pool /\ G[AtLost] = lost /\ G[AtBurst] = ToSet(Burst) /\ G[AtHeld] = Held
      /\ Fixed \subseteq Places /\ AtPending(ep) \notin Fixed /\ AtTx(ep) \notin Fixed
      /\ AtPool # AtLost /\ AtPool # AtBurst /\ AtPool # AtHeld /\ AtPool # AtBatch
  BY <1>1, <1>3, PlacesApart DEF Charts, Fixed
<1>8. IsInjective(t)
  <2>1. ToSet(tx[ep]) \cap ToSet(out) = {}
    BY <1>1, <1>6 DEF Disjoint
  <2>2. ToSet(tx[ep]) \cap ToSet(a) = {}
    BY <1>4, <2>1
  <2> QED
    BY <1>1, <1>2, <1>4, <2>2, Joined
<1> HIDE DEF t
<1>9. <<>> \in Seq(Buffers) /\ Len(<<>>) = 0 /\ IsInjective(<<>>) /\ ToSet(<<>>) = {}
  BY EmptySeq DEF IsInjective, ToSet
<1>10. CASE Full(out)
  <2>1. F = Send(G, ep, ToSet(a)) /\ Left(out) = pool \cup d
    BY <1>10 DEF Flushing, Left, G, a, d
  <2>2. ToSet(a) \in SUBSET G[AtPending(ep)] /\ G[AtPending(ep)] \ ToSet(a) = d
    BY <1>1, <1>4
  <2> DEFINE T == ToSet(a)
  <2>3. /\ Disjoint(F) /\ Everywhere(F) = Everywhere(G)
        /\ \A p \in Places : F[p] = IF p = AtPending(ep) THEN {}
                                    ELSE IF p = AtTx(ep) THEN G[p] \cup T
                                    ELSE IF p = AtPool THEN G[p] \cup d ELSE G[p]
    <3> HIDE DEF T
    <3>1. T \in SUBSET G[AtPending(ep)] /\ F = Send(G, ep, T) /\ d = G[AtPending(ep)] \ T
      BY <2>1, <2>2 DEF T
    <3> DEFINE H == Send(G, ep, T)
    <3>2. /\ Disjoint(H) /\ Everywhere(H) = Everywhere(G)
          /\ \A p \in Places : H[p] = IF p = AtPending(ep) THEN {}
                                      ELSE IF p = AtTx(ep) THEN G[p] \cup T
                                      ELSE IF p = AtPool THEN G[p] \cup (G[AtPending(ep)] \ T)
                                      ELSE G[p]
      <4>1. ep \in Endpoints /\ Disjoint(G) /\ T \in SUBSET G[AtPending(ep)]
        BY <1>1, <3>1
      <4> QED
        BY ONLY ZenonT(40), <4>1, SendMoves
    <3> HIDE DEF H
    <3>3. F = H
      BY <3>1 DEF H
    <3> QED
      BY <3>1, <3>2, <3>3
  <2>4. /\ tx' \in [Endpoints -> Seq(Buffers)] /\ pendingTx' \in [Endpoints -> Seq(Buffers)]
        /\ \A e \in Endpoints : tx'[e] = IF e = ep THEN t ELSE tx[e]
        /\ \A e \in Endpoints : pendingTx'[e] = IF e = ep THEN <<>> ELSE pendingTx[e]
    BY <1>1, <1>2, <1>5, <1>9, <1>10 DEF t, a
  <2>5. /\ F[AtPool] = Left(out) /\ F[AtBatch] = {}
        /\ F[AtLost] = lost /\ F[AtBurst] = ToSet(Burst) /\ F[AtHeld] = Held
    BY <1>1, <1>7, <2>1, <2>3 DEF Fixed
  <2>6. F[AtTx(ep)] = ToSet(tx'[ep]) /\ F[AtPending(ep)] = ToSet(pendingTx'[ep])
    BY <1>1, <1>5, <1>6, <1>9, <2>3, <2>4
  <2>7. \A e \in Endpoints : e # ep => /\ F[AtTx(e)] = ToSet(tx'[e])
                                       /\ F[AtPending(e)] = ToSet(pendingTx'[e])
    BY <1>6, <2>3, <2>4
  <2>8. \A e \in Endpoints : F[AtRx(e)] = ToSet(rx[e])
    BY <1>6, <2>3
  <2>9. \A e \in Endpoints : /\ F[AtRx(e)] = ToSet(rx[e]) /\ F[AtTx(e)] = ToSet(tx'[e])
                             /\ F[AtPending(e)] = ToSet(pendingTx'[e])
    BY <2>6, <2>7, <2>8
  <2>10. /\ \A e \in Endpoints : Len(tx'[e]) <= TXDesc /\ Len(pendingTx'[e]) < TXBurst
         /\ \A e \in Endpoints : IsInjective(tx'[e]) /\ IsInjective(pendingTx'[e])
    <3>1. Len(t) <= TXDesc /\ 0 < TXBurst
      BY <1>2, <1>4 DEF t
    <3> QED
      BY <1>2, <1>8, <1>9, <2>4, <3>1
  <2>11. Left(out) \in SUBSET Buffers /\ Everywhere(F) = Everywhere(Home)
    BY <1>1, <1>2, <1>4, <2>1, <2>3
  <2> QED
    BY <2>3, <2>4, <2>5, <2>9, <2>10, <2>11
<1>11. CASE ~Full(out)
  <2>1. F = G /\ Left(out) = pool
    BY <1>11 DEF Flushing, Left, G
  <2>2. /\ tx' = tx /\ pendingTx' \in [Endpoints -> Seq(Buffers)]
        /\ \A e \in Endpoints : pendingTx'[e] = IF e = ep THEN out ELSE pendingTx[e]
    BY <1>1, <1>2, <1>11
  <2>3. \A e \in Endpoints : F[AtPending(e)] = ToSet(pendingTx'[e])
    BY <1>1, <1>6, <2>1, <2>2
  <2>4. Len(out) < TXBurst
    BY <1>1, <1>2, <1>11 DEF Full
  <2>5. /\ \A e \in Endpoints : Len(tx'[e]) <= TXDesc /\ Len(pendingTx'[e]) < TXBurst
        /\ \A e \in Endpoints : IsInjective(tx'[e]) /\ IsInjective(pendingTx'[e])
    BY <1>1, <1>2, <2>2, <2>4
  <2>6. \A e \in Endpoints : /\ F[AtRx(e)] = ToSet(rx[e]) /\ F[AtTx(e)] = ToSet(tx'[e])
                             /\ F[AtPending(e)] = ToSet(pendingTx'[e])
    BY <1>6, <2>1, <2>2, <2>3
  <2>7. /\ F[AtPool] = Left(out) /\ F[AtBatch] = {}
        /\ F[AtLost] = lost /\ F[AtBurst] = ToSet(Burst) /\ F[AtHeld] = Held
    BY <1>1, <1>7, <2>1
  <2>8. Disjoint(F) /\ Everywhere(F) = Everywhere(Home)
    BY <1>1, <2>1
  <2> QED
    BY <1>2, <2>1, <2>2, <2>5, <2>6, <2>7, <2>8
<1> QED
  BY <1>10, <1>11

\* The replies stay right when the packet src is answered and leaves.
LEMMA NumberedReply ==
  ASSUME IInv, NEW src \in Live, IsBatch(src), NEW num, num = data[src].num,
         NEW size \in Nat, num \in 1 .. MaxPackets, AnswersTo(num, size) \in Answers,
         replies' = Append(replies, [to |-> num, size |-> size, answers |-> AnswersTo(num, size)]),
         arrived' = arrived, Live' \subseteq Live \ { src }, \A b \in Live' : data'[b] = data[b]
  PROVE  Numbered'
<1> DEFINE S == [to : Nat, size : Nat, answers : Answers]
           e == [to |-> num, size |-> size, answers |-> AnswersTo(num, size)]
           n == Len(replies)
<1>1. replies \in Seq(S) /\ e \in S /\ arrived \in Nat
  <2>1. num \in Nat /\ arrived \in Nat
    BY ServerAssumption DEF IInv, Network
  <2> QED
    BY <2>1 DEF IInv, Numbered
<1>2. e.to = num /\ e.size = size /\ e.answers = AnswersTo(num, size)
  OBVIOUS
<1> HIDE DEF S, e, n
<1>3. /\ replies' \in Seq(S) /\ Len(replies') = n + 1 /\ replies'[n + 1] = e /\ n \in Nat
      /\ \A k \in 1 .. n : replies'[k] = replies[k]
  BY <1>1, AppendProperties, LenProperties DEF n, e
<1>4. DOMAIN replies = 1 .. n /\ DOMAIN replies' = 1 .. n + 1
  BY <1>1, <1>3, LenProperties DEF n
<1>5. \A k \in DOMAIN replies' : \/ k = n + 1 /\ replies'[k] = e
                                 \/ k # n + 1 /\ k \in DOMAIN replies /\ replies'[k] = replies[k]
  <2>1. \A k \in 1 .. n + 1 : k = n + 1 \/ (k # n + 1 /\ k \in 1 .. n)
    BY <1>3
  <2> QED
    BY <1>3, <1>4, <2>1
<1>6. /\ num <= arrived /\ \A k \in DOMAIN replies : replies[k].to # num
      /\ \A b \in Live : IsBatch(b) /\ data[b].num = num => b = src
  BY DEF IInv, Numbered
<1>7. num \in 1 .. arrived
  BY <1>1, <1>6
<1>8. \A k \in DOMAIN replies :
        /\ replies[k].to \in 1 .. arrived
        /\ replies[k].answers = AnswersTo(replies[k].to, replies[k].size)
        /\ \A j \in DOMAIN replies : replies[j].to = replies[k].to => j = k
  BY DEF IInv, Numbered
<1>9. ASSUME NEW k \in DOMAIN replies'
      PROVE  /\ replies'[k].to \in 1 .. arrived
             /\ replies'[k].answers = AnswersTo(replies'[k].to, replies'[k].size)
             /\ \A j \in DOMAIN replies' : replies'[j].to = replies'[k].to => j = k
  <2>1. CASE k = n + 1 /\ replies'[k] = e
    <3>1. \A j \in DOMAIN replies' : replies'[j].to = num => j = k
      BY <1>5, <1>6, <2>1
    <3> QED
      BY <1>2, <1>7, <2>1, <3>1
  <2>2. CASE k # n + 1 /\ k \in DOMAIN replies /\ replies'[k] = replies[k]
    <3>1. \A j \in DOMAIN replies' : replies'[j].to = replies[k].to => j = k
      BY <1>2, <1>5, <1>6, <1>8, <2>2
    <3> QED
      BY <1>8, <2>2, <3>1
  <2> QED
    BY <1>5, <2>1, <2>2
<1>10. ASSUME NEW b \in Live', IsBatch(b)'
       PROVE  /\ data'[b].num <= arrived
              /\ \A k \in DOMAIN replies' : replies'[k].to # data'[b].num
              /\ \A d \in Live' : IsBatch(d)' /\ data'[d].num = data'[b].num => d = b
  <2>1. b \in Live /\ b # src /\ data'[b] = data[b] /\ IsBatch(b)
    BY <1>10 DEF IsBatch
  <2>2. /\ data[b].num <= arrived /\ \A k \in DOMAIN replies : replies[k].to # data[b].num
        /\ \A d \in Live : IsBatch(d) /\ data[d].num = data[b].num => d = b
    BY <2>1 DEF IInv, Numbered
  <2>3. data[b].num # num
    BY <1>6, <2>1
  <2>4. \A k \in DOMAIN replies' : replies'[k].to # data'[b].num
    BY <1>2, <1>5, <2>1, <2>2, <2>3
  <2>5. ASSUME NEW d \in Live', IsBatch(d)', data'[d].num = data'[b].num PROVE d = b
    <3>1. d \in Live /\ data'[d] = data[d] /\ IsBatch(d)
      BY <2>5 DEF IsBatch
    <3> QED
      BY <2>1, <2>2, <2>5, <3>1
  <2> QED
    BY <2>1, <2>2, <2>4, <2>5
<1> QED
  BY <1>3, <1>9, <1>10 DEF Numbered, S

LEMMA RetireLastSteps ==
  ASSUME IInv, RetireLast
  PROVE  IInv'
<1> DEFINE r == Row(retireIdx)
           src == r.src
           num == r.id[1]
           size == r.id[2]
           c == batch.buf
           out == Append(pendingTx[ep], batch.buf)
           F == Flushing(Joining(Home), out)
           left == Left(out)
           answers == Append(batch.answers, Answer)
<1>1. /\ pc = "execute" /\ 0 <= Index /\ Index < count /\ Request.last
      /\ data' = [data EXCEPT ![c] = Response(data[Request.src].num, answers)]
      /\ replies' = Append(replies, [to |-> data[Request.src].num, size |-> data[Request.src].size,
                                     answers |-> answers])
      /\ tx' = IF Full(out) THEN [tx EXCEPT ![ep] = tx[ep] \o Taken(ep, out)] ELSE tx
      /\ pendingTx' = [pendingTx EXCEPT ![ep] = IF Full(out) THEN <<>> ELSE out]
      /\ late' = [late EXCEPT ![ep] = late[ep] /\ pendingTx[ep] # <<>>]
      /\ retireIdx' = retireIdx + 1
      /\ UNCHANGED <<rx, arrived, bad, nextIndex, ep, bufs, parsed, requests, prepareIdx, count,
                     slots, stageGap, lost>>
  BY DEF RetireLast
<1>2. IF left = {}
      THEN pc' = "aborted" /\ UNCHANGED <<pool, batch, i>>
      ELSE /\ batch' = [buf |-> Fresh(left), answers |-> <<>>]
           /\ pool' = (left \ { Fresh(left) }) \cup Released(Request) /\ Advance
  BY DEF RetireLast, Left
<1>3. /\ retireIdx \in Window /\ Request = r /\ retireIdx + 1 = Behind(i + 1)
      /\ retireIdx + 1 <= prepareIdx /\ RowRight(retireIdx) /\ src \in Buffers
      /\ num = data[src].num /\ size \in Nat \ {0}
  BY <1>1, AtFront
<1>4. answers = AnswersTo(num, size) /\ AnswersTo(num, size) \in Answers
  BY <1>1, FrontAnswers
<1>5. r.last /\ size = data[src].size /\ HasRequests(src)
  BY <1>1, <1>3 DEF RowRight
<1>6. num \in 1 .. MaxPackets
  BY <1>3, <1>5, InBuffers DEF HasRequests
<1>7. /\ ep \in Endpoints /\ c \in Buffers /\ c \notin Live
  BY <1>1, JoiningMoves
<1>8. /\ Disjoint(F) /\ Everywhere(F) = Everywhere(Home)
      /\ F[AtPool] = left /\ left \in SUBSET Buffers /\ F[AtBatch] = {}
      /\ F[AtLost] = lost /\ F[AtBurst] = ToSet(Burst) /\ F[AtHeld] = Held
      /\ \A e \in Endpoints : /\ F[AtRx(e)] = ToSet(rx[e]) /\ F[AtTx(e)] = ToSet(tx'[e])
                              /\ F[AtPending(e)] = ToSet(pendingTx'[e])
      /\ tx' \in [Endpoints -> Seq(Buffers)] /\ pendingTx' \in [Endpoints -> Seq(Buffers)]
      /\ \A e \in Endpoints : Len(tx'[e]) <= TXDesc /\ Len(pendingTx'[e]) < TXBurst
      /\ \A e \in Endpoints : IsInjective(tx'[e]) /\ IsInjective(pendingTx'[e])
  BY <1>1, FlushingMoves
<1> HIDE DEF out, F, left, answers
<1>9. src \in Held /\ Held \subseteq Live
  BY <1>3 DEF Held, Live, Row
<1>10. DOMAIN data = Buffers /\ \A b \in Buffers : data[b] \in Contents \/ IsResponse(data[b])
  BY DEF IInv, Packet
<1>11. /\ DOMAIN data' = Buffers
       /\ \A b \in Buffers : data'[b] = IF b = c THEN Response(num, answers) ELSE data[b]
  BY <1>1, <1>3, <1>7, <1>10
<1>12. Packet'
  <2>1. IsResponse(Response(num, answers))
    BY <1>4, <1>6 DEF IsResponse, Response
  <2> QED
    BY <1>10, <1>11, <2>1 DEF Packet, IsResponse
<1>13. \A b \in Live : data'[b] = data[b]
  BY <1>7, <1>11, InBuffers
<1>14. /\ InWindow' /\ Window' = Window \ { retireIdx } /\ Held' \subseteq Held
       /\ Window' # {} => retireIdx + 1 \in Window' /\ retireIdx + 1 \in Window
       /\ Window' = {} => retireIdx + 1 = prepareIdx
  BY <1>1, <1>3, <1>9, <1>13, WindowShrinks
<1>15. Held' = Held \ { src }
  <2>1. \A k : Row(k)' = Row(k)
    BY <1>1 DEF Row
  <2>2. Held = { Row(k).src : k \in Window } /\ Held' = { Row(k).src : k \in Window' }
    BY <2>1 DEF Held, Row
  <2>3. ASSUME NEW l \in Window' PROVE Row(l).src # src
    <3> SUFFICES ASSUME Row(l).src = src PROVE FALSE
      OBVIOUS
    <3>1. l \in Window /\ l \in Int /\ retireIdx < l /\ retireIdx \in Int
      BY <1>14, Bounds DEF Window
    <3>2. l - Row(l).id[2] = retireIdx - size
      BY <1>3, <3>1 DEF RowRight
    <3>3. RowRight(l)
      BY <3>1 DEF IInv, InWindow
    <3>4. Row(l).id[2] \in 1 .. data[Row(l).src].size
      BY <3>3 DEF RowRight
    <3>5. Row(l).id[2] \in 1 .. size
      BY <1>5, <3>4
    <3> QED
      BY <1>3, <3>1, <3>2, <3>5
  <2> QED
    BY <1>14, <2>2, <2>3
<1>16. Burst' = Burst
  BY <1>1 DEF Burst
<1>17. Live' \subseteq Live \ { src } /\ \A b \in Live' : data'[b] = data[b]
  <2>1. F[AtHeld] \cap F[AtBurst] = {} /\ \A e \in Endpoints : F[AtHeld] \cap F[AtRx(e)] = {}
    BY <1>8, PlacesApart DEF Disjoint, Fixed
  <2>2. src \notin ToSet(Burst) /\ \A e \in Endpoints : src \notin ToSet(rx[e])
    BY <1>8, <1>9, <2>1
  <2>3. Live' \subseteq Live \ { src }
    BY <1>1, <1>15, <1>16, <2>2 DEF Live
  <2> QED
    BY <1>13, <2>3
<1>18. Numbered'
  <2>1. replies' = Append(replies, [to |-> num, size |-> size, answers |-> AnswersTo(num, size)])
    BY <1>1, <1>3, <1>4, <1>5
  <2>2. src \in Live /\ IsBatch(src) /\ size \in Nat
    BY <1>3, <1>5, <1>9 DEF HasRequests
  <2> HIDE DEF src, num, size
  <2> QED
    BY <1>1, <1>3, <1>4, <1>6, <1>17, <2>1, <2>2, NumberedReply
<1>19. late' \in [Endpoints -> BOOLEAN]
  <2>1. late \in [Endpoints -> BOOLEAN]
    BY DEF IInv, Network
  <2>2. (late[ep] /\ pendingTx[ep] # <<>>) \in BOOLEAN
    BY Zenon
  <2> DEFINE x == late[ep] /\ pendingTx[ep] # <<>>
  <2> HIDE DEF x
  <2>3. late' = [late EXCEPT ![ep] = x] /\ x \in BOOLEAN
    BY <1>1, <2>2 DEF x
  <2> QED
    BY <2>1, <2>3
<1>20. UNCHANGED <<bufs, parsed, requests, stageGap, slots>> /\ IsInjective(Burst') /\ IsInjective(Burst)
  BY <1>1, <1>16 DEF IInv, Placed
<1>21. \A e \in Endpoints : IsInjective(rx'[e])
  BY <1>1 DEF IInv, Placed
<1>22. CASE left = {}
  <2>1. pc' = "aborted" /\ UNCHANGED <<pool, batch, i>>
    BY <1>2, <1>22
  <2>2. pool = {}
    BY <1>22 DEF left, Left
  <2>3. Network'
    BY <1>1, <1>8, <1>19, <2>1 DEF IInv, Network
  <2>4. Arrays'
    BY <1>1, <2>1 DEF IInv, Arrays
  <2>5. Progress'
    <3>1. prepareIdx - (retireIdx + 1) <= Ring /\ retireIdx + 1 \in Nat
      BY Bounds DEF IInv, Progress
    <3> QED
      BY <1>1, <1>3, <2>1, <3>1 DEF IInv, Progress, Unlimited
  <2>6. Placed'
    <3> DEFINE G == [p \in Places |-> IF p = AtHeld THEN F[p] \ { src } ELSE F[p]]
    <3>1. \A p \in Places : G[p] = IF p = AtHeld THEN F[p] \ { src } ELSE F[p]
      OBVIOUS
    <3> HIDE DEF G
    <3>2. Disjoint(G)
      BY <1>8, <3>1 DEF Disjoint
    <3>3. Own' = {}
      BY <2>1 DEF Own
    <3>4. G[AtHeld] = Held' /\ G[AtPool] = pool' /\ G[AtLost] = lost' /\ G[AtBatch] = Own'
      BY <1>1, <1>8, <1>15, <1>22, <2>1, <2>2, <3>1, <3>3, PlacesApart DEF Fixed
    <3>5. G[AtBurst] = ToSet(Burst')
      BY <1>8, <1>16, <3>1, PlacesApart DEF Fixed
    <3>6. \A e \in Endpoints : /\ G[AtRx(e)] = ToSet(rx'[e]) /\ G[AtTx(e)] = ToSet(tx'[e])
                               /\ G[AtPending(e)] = ToSet(pendingTx'[e])
      BY <1>1, <1>8, <3>1, PlacesApart DEF Fixed
    <3>7. ChartsNext(G)
      BY <3>4, <3>5, <3>6 DEF ChartsNext
    <3>8. Disjoint(Home')
      BY <3>2, <3>7, Charted
    <3> QED
      BY <1>8, <1>20, <1>21, <2>1, <3>8 DEF Placed
  <2>7. Answering'
    BY <2>1 DEF Answering
  <2> QED
    BY <1>12, <1>14, <1>18, <2>3, <2>4, <2>5, <2>6, <2>7 DEF IInv
<1>23. CASE left # {}
  <2> DEFINE b == Fresh(left)
  <2>1. /\ batch' = [buf |-> b, answers |-> <<>>] /\ Advance
        /\ pool' = (left \ { b }) \cup { src }
    BY <1>2, <1>3, <1>5, <1>23 DEF Released
  <2>2. b \in left /\ b \in Buffers
    BY <1>8, <1>23, FreshIsFree
  <2> HIDE DEF b
  <2>3. Progress' /\ i' = i + 1 /\ pc' \in { "fetch", "check" }
    <3>1. retireIdx' = Behind(i + 1) /\ retireIdx' <= prepareIdx
      BY <1>1, <1>3
    <3> QED
      BY <1>1, <2>1, <3>1, Advanced
  <2>4. pool' \in SUBSET Buffers
    BY <1>3, <1>8, <2>1
  <2>5. Network'
    BY <1>1, <1>8, <1>19, <2>4 DEF IInv, Network
  <2>6. Arrays'
    <3>1. <<>> \in Answers
      BY EmptySeq DEF Answers
    <3> QED
      BY <1>1, <2>1, <2>2, <3>1 DEF IInv, Arrays
  <2>7. Placed'
    <3> DEFINE G == Move(F, AtHeld, AtPool, { src })
               H == Move(G, AtPool, AtBatch, { b })
    <3>1. /\ AtHeld \in Places /\ AtPool \in Places /\ AtBatch \in Places
          /\ AtHeld # AtPool /\ AtPool # AtBatch /\ AtHeld # AtBatch
      BY PlacesApart DEF Fixed
    <3>2. Disjoint(G) /\ Everywhere(G) = Everywhere(F)
      <4>1. { src } \in SUBSET F[AtHeld]
        BY <1>8, <1>9
      <4> QED
        BY <1>8, <3>1, <4>1, Moved
    <3>3. \A p \in Places : G[p] = IF p = AtHeld THEN F[p] \ { src }
                                   ELSE IF p = AtPool THEN F[p] \cup { src } ELSE F[p]
      BY DEF Move
    <3>4. \A p \in Places : H[p] = IF p = AtPool THEN G[p] \ { b }
                                   ELSE IF p = AtBatch THEN G[p] \cup { b } ELSE G[p]
      BY DEF Move
    <3> HIDE DEF G
    <3>5. Disjoint(H) /\ Everywhere(H) = Everywhere(G)
      <4>1. { b } \in SUBSET G[AtPool]
        BY <1>8, <2>2, <3>1, <3>3
      <4> QED
        BY <3>1, <3>2, <4>1, Moved
    <3> HIDE DEF H
    <3>6. src # b
      <4>1. F[AtHeld] \cap F[AtPool] = {}
        BY <1>8, <3>1 DEF Disjoint
      <4> QED
        BY <1>8, <1>9, <2>2, <4>1
    <3>7. H[AtPool] = pool' /\ H[AtHeld] = Held' /\ H[AtBatch] = { b }
      BY <1>8, <1>15, <2>1, <3>1, <3>3, <3>4, <3>6
    <3>8. Own' = { b }
      BY <2>1, <2>3 DEF Own
    <3>9. \A p \in Places : p \notin { AtPool, AtHeld, AtBatch } => H[p] = F[p]
      BY <3>3, <3>4
    <3>10. H[AtLost] = lost' /\ H[AtBurst] = ToSet(Burst')
      BY <1>1, <1>8, <1>16, <3>9, PlacesApart DEF Fixed
    <3>11. \A e \in Endpoints : /\ H[AtRx(e)] = ToSet(rx'[e]) /\ H[AtTx(e)] = ToSet(tx'[e])
                                /\ H[AtPending(e)] = ToSet(pendingTx'[e])
      BY <1>1, <1>8, <3>9, PlacesApart DEF Fixed
    <3>12. ChartsNext(H)
      BY <3>7, <3>8, <3>10, <3>11 DEF ChartsNext
    <3>13. Disjoint(Home') /\ Everywhere(Home') = Everywhere(H)
      BY <3>5, <3>12, Charted
    <3>14. Everywhere(Home') = Buffers
      BY <1>1, <1>8, <3>2, <3>5, <3>13 DEF IInv, Placed
    <3> QED
      BY <1>8, <1>20, <1>21, <3>13, <3>14 DEF Placed
  <2>8. Answering'
    <3>1. \A k \in Window' : k < i' - stageGap => slots'[k % PipelineSize(stageGap)] = Row(k)'.id
      BY <1>1, <1>14, <2>3, SlotsRemain
    <3> DEFINE n == retireIdx + 1
    <3>2. ASSUME Window' # {} PROVE Row(n).id[2] = 1
      BY <1>3, <1>5, <1>14, <3>2 DEF RowRight
    <3>3. Row(retireIdx)' = Row(n)
      BY <1>1 DEF Row
    <3>4. Window' # {} => AnswersTo(Row(retireIdx)'.id[1], Row(retireIdx)'.id[2] - 1) = <<>>
      <4>1. \A m : AnswersTo(m, 1 - 1) = <<>>
        BY DEF AnswersTo
      <4> QED
        BY <3>2, <3>3, <4>1
    <3>5. batch'.answers = IF Window' = {} THEN <<>>
                           ELSE AnswersTo(Row(retireIdx)'.id[1], Row(retireIdx)'.id[2] - 1)
      BY <2>1, <3>4
    <3> QED
      BY <1>1, <2>3, <3>1, <3>5 DEF Answering
  <2> QED
    BY <1>12, <1>14, <1>18, <2>3, <2>5, <2>6, <2>7, <2>8 DEF IInv
<1> QED
  BY <1>22, <1>23

-----------------------------------------------------------------------------
(* The specification.                                                      *)

\* The worker starts between two bursts, with a buffer for its next responses.
LEMMA Initially == Init => IInv
<1> SUFFICES ASSUME Init PROVE IInv
  OBVIOUS
<1>1. /\ { NumEndpoints, RXBurst, TXBurst, TXMinBurst, Ring, RXDesc, TXDesc,
           NumBuffers } \subseteq Nat \ {0}
      /\ MaxRequests \in Nat /\ MaxPackets \in Nat
  BY ServerAssumption
<1>2. Buffers = 1 .. NumBuffers /\ 1 \in Buffers /\ Unlimited \in Nat /\ 0 \in Endpoints
  BY <1>1 DEF Buffers, Unlimited, Endpoints
<1>3. <<>> \in Seq(Buffers) /\ Len(<<>>) = 0 /\ ToSet(<<>>) = {} /\ DOMAIN <<>> = {}
  BY DEF ToSet
<1>4. IsInjective(<<>>)
  BY DEF IsInjective
<1>5. Burst = <<>> /\ Window = {} /\ Held = {} /\ Own = { 1 }
  <2>1. Burst = <<>>
    BY DEF Init, Burst
  <2>2. Window = {}
    BY DEF Init, Window
  <2>3. Own = { 1 }
    BY DEF Init, Own
  <2> QED
    BY <2>1, <2>2, <2>3 DEF Held
<1>6. <<0, 0>> \in Ids /\ NoRequest \in Rows
  BY <1>1 DEF Ids, NoRequest, Rows
<1>7. Network
  BY <1>1, <1>2, <1>3 DEF Init, Network
<1>8. Packet
  BY DEF Init, Packet, Contents
<1>9. Arrays
  <2>1. <<>> \in Answers
    BY DEF Answers
  <2>2. batch \in [buf : Buffers, answers : Answers]
    BY <1>2, <2>1 DEF Init
  <2>3. slots \in [0 .. PipelineSize(stageGap) - 1 -> Ids]
    BY <1>6 DEF Init, NoSlots
  <2>4. requests \in [0 .. Ring - 1 -> Rows]
    BY <1>6 DEF Init
  <2>5. bufs \in Seq(Buffers) /\ Len(bufs) <= RXBurst /\ parsed \in 0 .. Len(bufs)
    BY <1>1, <1>3 DEF Init
  <2>6. stageGap \in StageGaps
    BY DEF Init
  <2> QED
    BY <2>2, <2>3, <2>4, <2>5, <2>6 DEF Arrays
<1>10. Progress
  <2>1. 0 * MaxRequests = 0
    BY <1>1
  <2> QED
    BY <1>1, <1>2, <1>3, <2>1 DEF Init, Progress
<1>11. Placed
  <2>1. /\ Home[AtPool] = Buffers \ { 1 } /\ Home[AtLost] = {} /\ Home[AtBurst] = {}
        /\ Home[AtHeld] = {} /\ Home[AtBatch] = { 1 }
        /\ \A e \in Endpoints : /\ Home[AtRx(e)] = {} /\ Home[AtTx(e)] = {}
                                /\ Home[AtPending(e)] = {}
    BY <1>3, <1>5, HomeCharts DEF Charts, Init
  <2>2. \A p \in Places : p # AtPool /\ p # AtBatch => Home[p] = {}
    BY <2>1, PlacesApart DEF Fixed
  <2>3. Disjoint(Home)
    BY <2>1, <2>2 DEF Disjoint
  <2>4. Everywhere(Home) = Buffers
    <3>1. AtPool \in Places /\ AtBatch \in Places
      BY PlacesApart DEF Fixed
    <3> QED
      BY <1>2, <2>1, <2>2, <3>1 DEF Everywhere
  <2> QED
    BY <1>4, <1>5, <2>3, <2>4 DEF Placed, Init
<1>12. InWindow
  BY <1>5 DEF InWindow
<1>13. Answering
  BY <1>5 DEF Answering, Init
<1>14. Numbered
  <2>1. Live = {}
    BY <1>3, <1>5 DEF Live, Init
  <2>2. replies = <<>>
    BY DEF Init
  <2> QED
    BY <1>3, <2>1, <2>2 DEF Numbered
<1> QED
  BY <1>7, <1>8, <1>9, <1>10, <1>11, <1>12, <1>13, <1>14 DEF IInv

LEMMA EveryStep == IInv /\ [Next]_vars => IInv'
<1> SUFFICES ASSUME IInv, [Next]_vars PROVE IInv'
  OBVIOUS
<1>1. CASE \E e \in Endpoints, packet \in Packets : Arrive(e, packet)
  BY <1>1, ArriveSteps
<1>2. CASE \E e \in Endpoints : Transmit(e)
  BY <1>2, TransmitSteps
<1>3. CASE \E e \in Endpoints : Age(e)
  BY <1>3, QuietSteps
<1>4. CASE Receive
  BY <1>4, ReceiveSteps
<1>5. CASE CheckPending
  BY <1>5, CheckPendingSteps
<1>6. CASE Fetch
  BY <1>6, FetchSteps
<1>7. CASE Idle
  BY <1>7, IdleSteps
<1>8. CASE Retire
  BY <1>8, RetireSteps
<1>9. CASE RetireLast
  BY <1>9, RetireLastSteps
<1>10. CASE UNCHANGED vars
  BY <1>10, QuietSteps
<1> QED
  BY <1>1, <1>2, <1>3, <1>4, <1>5, <1>6, <1>7, <1>8, <1>9, <1>10 DEF Next

\* The buffers, the window, the answers and the numbers of the packets fit
\* together whatever arrives and in whatever order the card and the worker's
\* loop take their steps.
THEOREM Inductive == Spec => []IInv
BY Initially, EveryStep, PTL DEF Spec

\* No array of worker_proc() and RequestAccessor is written past its end,
\* and no descriptor ring or burst overflows.
THEOREM Shapes == Spec => []TypeOK
<1>1. IInv => TypeOK
  <2> SUFFICES ASSUME IInv PROVE TypeOK
    OBVIOUS
  <2>1. \A b \in Buffers : data[b] \in Contents
          \/ /\ data[b].kind = "response"
             /\ data[b].to \in 1 .. MaxPackets /\ data[b].answers \in Answers
    BY DEF IInv, Packet, IsResponse
  <2>2. { prepareIdx, retireIdx, count } \subseteq 0 .. Unlimited
    <3>1. count = Unlimited \/ count = prepareIdx
      BY DEF IInv, Progress
    <3> QED
      BY <3>1, Bounds
  <2>3. batch.buf \in Buffers /\ batch.answers \in Answers
    BY DEF IInv, Arrays
  <2>4. /\ bufs \in Seq(Buffers) /\ Len(bufs) <= RXBurst /\ parsed \in 0 .. Len(bufs)
        /\ requests \in [0 .. Ring - 1 -> Rows] /\ stageGap \in StageGaps
        /\ slots \in [0 .. PipelineSize(stageGap) - 1 -> Ids]
    BY DEF IInv, Arrays
  <2>5. /\ pool \subseteq Buffers /\ lost \subseteq Buffers
        /\ \A e \in Endpoints :
             /\ rx[e] \in Seq(Buffers) /\ Len(rx[e]) <= RXDesc
             /\ tx[e] \in Seq(Buffers) /\ Len(tx[e]) <= TXDesc
             /\ pendingTx[e] \in Seq(Buffers) /\ Len(pendingTx[e]) < TXBurst
             /\ late[e] \in BOOLEAN
    BY DEF IInv, Network
  <2>6. /\ pc \in { "receive", "fetch", "execute", "check", "aborted" }
        /\ nextIndex \in Endpoints /\ ep \in Endpoints /\ i \in Nat
    BY DEF IInv, Progress
  <2> QED
    BY <2>1, <2>2, <2>3, <2>4, <2>5, <2>6 DEF TypeOK, Rows
<1> QED
  BY <1>1, Inductive, PTL

\* A worker that runs has every packet buffer in one place, and there once:
\* receive(), release(), send() and allocate() balance, but for the packets
\* that parse_request_batch() leaves behind.
THEOREM NoBufferTwice == Spec => []BuffersAccounted
<1>1. IInv => BuffersAccounted
  <2> SUFFICES ASSUME IInv, pc # "aborted" PROVE
        /\ \A b \in Buffers : \E p \in Places : { q \in Places : b \in Holding(q) } = { p }
        /\ \A list \in Lists : IsInjective(list)
    BY DEF BuffersAccounted
  <2>1. \A p \in Places : Home[p] = Holding(p)
    BY DEF Home
  <2>2. Disjoint(Home) /\ Everywhere(Home) = Buffers
    BY DEF IInv, Placed
  <2>3. ASSUME NEW b \in Buffers
        PROVE  \E p \in Places : { q \in Places : b \in Holding(q) } = { p }
    <3>1. PICK p \in Places : b \in Home[p]
      BY <2>2 DEF Everywhere
    <3>2. \A q \in Places : b \in Home[q] => q = p
      BY <2>2, <3>1 DEF Disjoint
    <3> QED
      BY <2>1, <3>1, <3>2
  <2>4. \A list \in Lists : IsInjective(list)
    BY DEF Lists, IInv, Placed
  <2> QED
    BY <2>3, <2>4
<1> QED
  BY <1>1, Inductive, PTL

\* The ring of parsed requests never runs over itself, and last_in_packet
\* marks the last request of a packet and no other.
THEOREM RingHolds == Spec => []WindowIntact
<1>1. IInv => WindowIntact
  <2> SUFFICES ASSUME IInv, NEW k \in Window
               PROVE LET r == Row(k)
                         next == Row(k + 1)
                     IN  /\ HasRequests(r.src)
                         /\ r.id[1] = data[r.src].num
                         /\ r.last <=> r.id[2] = data[r.src].size
                         /\ k + 1 \in Window =>
                              IF r.last THEN next.id[2] = 1 ELSE next.id = <<r.id[1], r.id[2] + 1>>
    BY DEF WindowIntact, Row
  <2>1. RowRight(k) /\ (k + 1 \in Window => RowRight(k + 1))
    BY DEF IInv, InWindow
  <2>2. Row(k).id[1] = data[Row(k).src].num
    BY <2>1 DEF RowRight
  <2>3. k + 1 \in Window => Row(k + 1).id = <<data[Row(k + 1).src].num, Row(k + 1).id[2]>>
    BY <2>1 DEF RowRight
  <2> QED
    BY <2>1, <2>2, <2>3 DEF RowRight
<1> QED
  BY <1>1, Inductive, PTL

\* A response batch answers one packet: all its requests, in their order, each
\* with what its own partition gave; and no packet is answered twice.
THEOREM AnswersBelong == Spec => []RepliesRight
<1>1. IInv => RepliesRight
  <2> SUFFICES ASSUME Numbered PROVE RepliesRight
    BY DEF IInv
  <2>1. \A r \in ToSet(replies) : r.answers = AnswersTo(r.to, r.size)
    BY DEF Numbered, ToSet
  <2>2. \A j, k \in DOMAIN replies : replies[j].to = replies[k].to => j = k
    BY DEF Numbered
  <2> QED
    BY <2>1, <2>2 DEF RepliesRight, AnswersTo
<1> QED
  BY <1>1, Inductive, PTL
-----------------------------------------------------------------------------
(* Counting buffers.                                                       *)

AtMost(S, n) == IsFiniteSet(S) /\ Cardinality(S) <= n

LEMMA UpTo ==
  ASSUME NEW n \in Nat
  PROVE  IsFiniteSet(1 .. n) /\ Cardinality(1 .. n) = n
<1>1. /\ IsFiniteSet(1 .. n)
      /\ Cardinality(1 .. n) = IF 1 > n THEN 0 ELSE n - 1 + 1
  <2>1. 1 \in Int /\ n \in Int
    OBVIOUS
  <2> QED
    BY <2>1, FS_Interval
<1>2. (IF 1 > n THEN 0 ELSE n - 1 + 1) = n
  OBVIOUS
<1> QED
  BY <1>1, <1>2

LEMMA JustOne ==
  ASSUME NEW x
  PROVE  AtMost({ x }, 1)
<1>1. IsFiniteSet({ x }) /\ Cardinality({ x }) = 1
  BY Zenon, FS_Singleton
<1> QED
  BY <1>1 DEF AtMost

LEMMA AtMostNat ==
  ASSUME NEW S, NEW n, AtMost(S, n)
  PROVE  Cardinality(S) \in Nat
BY FS_CardinalityType DEF AtMost

LEMMA AtMostOfSubset ==
  ASSUME NEW T, NEW n \in Nat, AtMost(T, n), NEW S \in SUBSET T
  PROVE  AtMost(S, n)
<1>1. IsFiniteSet(S) /\ Cardinality(S) <= Cardinality(T) /\ Cardinality(S) \in Nat
  BY FS_Subset, FS_CardinalityType DEF AtMost
<1> QED
  BY <1>1, AtMostNat DEF AtMost

LEMMA AtMostOfUnion ==
  ASSUME NEW S, NEW T, NEW m \in Nat, NEW n \in Nat, AtMost(S, m), AtMost(T, n)
  PROVE  AtMost(S \cup T, m + n)
<1>1. /\ IsFiniteSet(S \cup T)
      /\ Cardinality(S \cup T) = Cardinality(S) + Cardinality(T) - Cardinality(S \cap T)
  BY FS_Union DEF AtMost
<1>2. IsFiniteSet(S \cap T)
  BY FS_Intersection DEF AtMost
<1>3. Cardinality(S) \in Nat /\ Cardinality(T) \in Nat /\ Cardinality(S \cap T) \in Nat
  BY <1>2, AtMostNat, FS_CardinalityType
<1> QED
  BY <1>1, <1>3 DEF AtMost

LEMMA AtMostOfList ==
  ASSUME NEW S, NEW q \in Seq(S)
  PROVE  AtMost(ToSet(q), Len(q))
<1>1. Len(q) \in Nat /\ DOMAIN q = 1 .. Len(q) /\ ToSet(q) = { q[k] : k \in 1 .. Len(q) }
  BY ListOf
<1>2. IsFiniteSet(1 .. Len(q)) /\ Cardinality(1 .. Len(q)) = Len(q)
  BY <1>1, UpTo
<1>3. q = [k \in 1 .. Len(q) |-> q[k]]
  BY <1>1, SeqDef
<1>4. q \in Surjection(1 .. Len(q), ToSet(q))
  BY <1>1, <1>3 DEF Surjection
<1> QED
  BY <1>2, <1>4, FS_Surjection DEF AtMost

LEMMA AtMostOfAll ==
  ASSUME NEW n \in Nat, NEW F, NEW C \in Nat, \A e \in 0 .. n - 1 : AtMost(F[e], C)
  PROVE  AtMost(UNION { F[e] : e \in 0 .. n - 1 }, n * C)
<1> DEFINE U(m) == UNION { F[e] : e \in 0 .. m - 1 }
           T == { m \in 0 .. n : ~AtMost(U(m), m * C) }
<1>1. SUFFICES ASSUME T # {} PROVE FALSE
  <2>1. n \in 0 .. n
    OBVIOUS
  <2> QED
    BY <1>1, <2>1
<1>2. T \in SUBSET Nat
  OBVIOUS
<1> HIDE DEF T
<1>3. PICK m \in T : \A l \in T : m <= l
  BY <1>1, <1>2, LeastElement
<1>4. m \in 0 .. n /\ ~AtMost(U(m), m * C)
  BY <1>3 DEF T
<1>5. CASE m = 0
  <2>1. U(0) = {} /\ 0 * C = 0
    OBVIOUS
  <2>2. AtMost({}, 0)
    BY FS_EmptySet DEF AtMost
  <2> QED
    BY <1>4, <1>5, <2>1, <2>2
<1>6. CASE m # 0
  <2> DEFINE l == m - 1
  <2>1. l \in 0 .. n /\ l \in 0 .. n - 1 /\ ~(m <= l) /\ m = l + 1
    BY <1>4, <1>6
  <2>2. AtMost(U(l), l * C)
    BY <1>3, <2>1 DEF T
  <2>3. U(m) = U(l) \cup F[l]
    <3>1. 0 .. m - 1 = (0 .. l - 1) \cup { l }
      BY <1>4, <2>1
    <3> QED
      BY <3>1
  <2> HIDE DEF l, U
  <2>4. l * C \in Nat /\ m * C = l * C + C
    BY <2>1
  <2>5. AtMost(U(l) \cup F[l], l * C + C)
    BY <2>1, <2>2, <2>4, AtMostOfUnion
  <2> QED
    BY <1>4, <2>3, <2>4, <2>5
<1> QED
  BY <1>5, <1>6

-----------------------------------------------------------------------------
(* The worker never runs out of buffers.                                   *)

\* The buffers that packets without a request occupy, wherever they lie.
Waste == lost \cup { b \in Live : ~IsBatch(b) }

\* What the window holds comes from the burst, and a packet without a request
\* costs one buffer at most.
Counted ==
  /\ Held \subseteq { bufs[m] : m \in 1 .. parsed }
  /\ bad \in 0 .. MaxBad /\ Cardinality(Waste) <= bad

LEMMA WasteIsFinite ==
  ASSUME IInv
  PROVE  IsFiniteSet(Buffers) /\ Cardinality(Buffers) = NumBuffers /\ Waste \subseteq Buffers
         /\ IsFiniteSet(Waste) /\ Cardinality(Waste) \in Nat
<1>1. IsFiniteSet(Buffers) /\ Cardinality(Buffers) = NumBuffers
  BY ServerAssumption, UpTo DEF Buffers
<1>2. Waste \subseteq Buffers
  BY InBuffers DEF Waste, IInv, Network
<1> QED
  BY <1>1, <1>2, FS_Subset, FS_CardinalityType

\* A step that brings no packet.
LEMMA WasteKept ==
  ASSUME IInv, Counted, UNCHANGED bad, lost' \subseteq Waste, Live' \subseteq Live,
         \A b \in Live : data'[b] = data[b]
  PROVE  bad' \in 0 .. MaxBad /\ Cardinality(Waste') <= bad'
<1>1. Waste' \subseteq Waste
  BY DEF Waste, IsBatch
<1>2. AtMost(Waste, bad) /\ bad \in Nat
  BY WasteIsFinite, ServerAssumption DEF Counted, AtMost
<1> QED
  BY <1>1, <1>2, AtMostOfSubset DEF Counted, AtMost

LEMMA CountedArrive ==
  ASSUME IInv, Counted, NEW e \in Endpoints, NEW packet \in Packets, Arrive(e, packet)
  PROVE  Counted'
<1> DEFINE b == Fresh(pool)
<1>1. /\ pool # {}
      /\ packet.kind = "bad" => bad < MaxBad
      /\ data' = [data EXCEPT ![b] = packet]
      /\ rx' = [rx EXCEPT ![e] = Append(rx[e], b)]
      /\ bad' = IF packet.kind = "bad" THEN bad + 1 ELSE bad
      /\ UNCHANGED <<bufs, parsed, requests, prepareIdx, retireIdx, lost>>
  BY DEF Arrive, accessor, history
<1>2. b \in pool /\ b \in Buffers /\ pool \in SUBSET Buffers
  BY <1>1, FreshIsFree DEF IInv, Network
<1> HIDE DEF b
<1>3. Held' = Held /\ Burst' = Burst
  BY <1>1 DEF Held, Window, Burst
<1>4. b \notin Live
  BY <1>2, LiveApart DEF IInv
<1>5. Live' \subseteq Live \cup { b }
  <2>1. rx \in [Endpoints -> Seq(Buffers)]
    BY DEF IInv, Network
  <2>2. ToSet(Append(rx[e], b)) = ToSet(rx[e]) \cup { b }
    BY <1>2, <2>1, Appended
  <2>3. \A f \in Endpoints : ToSet(rx'[f]) \subseteq ToSet(rx[f]) \cup { b }
    BY <1>1, <2>1, <2>2
  <2> QED
    BY <1>3, <2>3 DEF Live
<1>6. \A c \in Buffers : data'[c] = IF c = b THEN packet ELSE data[c]
  BY <1>1, <1>2 DEF IInv, Packet
<1>7. Live \subseteq Buffers
  BY InBuffers
<1>8. Waste' \subseteq Waste \cup { b } /\ (packet.kind = "request" => Waste' \subseteq Waste)
  <2>1. \A c \in Live' : c # b => c \in Live /\ (IsBatch(c)' <=> IsBatch(c))
    BY <1>5, <1>6, <1>7 DEF IsBatch
  <2>2. data'[b] = packet
    BY <1>2, <1>6
  <2>3. ASSUME NEW c \in Waste', c # b PROVE c \in Waste
    <3>1. c \in lost \/ (c \in Live' /\ ~IsBatch(c)')
      BY <1>1, <2>3 DEF Waste
    <3> QED
      BY <2>1, <2>3, <3>1 DEF Waste
  <2>4. ASSUME packet.kind = "request", b \in Waste' PROVE b \in Waste
    <3>1. b \in lost
      BY <1>1, <2>2, <2>4 DEF Waste, IsBatch
    <3> QED
      BY <3>1 DEF Waste
  <2> QED
    BY <2>3, <2>4
<1>9. packet.kind = "bad" \/ packet.kind = "request"
  BY DEF Packets, BadPacket, Batch
<1>10. AtMost(Waste, bad) /\ bad \in 0 .. MaxBad /\ MaxBad \in Nat
  BY WasteIsFinite, ServerAssumption DEF Counted, AtMost
<1>11. CASE packet.kind = "request"
  <2>1. AtMost(Waste', bad)
    BY <1>8, <1>10, <1>11, AtMostOfSubset
  <2> QED
    BY <1>1, <1>3, <1>10, <1>11, <2>1 DEF Counted, AtMost
<1>12. CASE packet.kind = "bad"
  <2>1. AtMost({ b }, 1)
    BY JustOne
  <2>2. AtMost(Waste \cup { b }, bad + 1)
    BY <1>10, <2>1, AtMostOfUnion
  <2>3. AtMost(Waste', bad + 1)
    BY <1>8, <1>10, <2>2, AtMostOfSubset
  <2>4. bad' = bad + 1 /\ bad' \in 0 .. MaxBad
    BY <1>1, <1>10, <1>12
  <2>5. Held' \subseteq { bufs'[m] : m \in 1 .. parsed' }
    BY <1>1, <1>3 DEF Counted
  <2> QED
    BY <2>3, <2>4, <2>5 DEF Counted, AtMost
<1> QED
  BY <1>9, <1>11, <1>12

\* A step that leaves the burst and the window alone.
LEMMA CountedKept ==
  ASSUME IInv, Counted, UNCHANGED <<bad, lost, data, rx, bufs, parsed, requests, prepareIdx, retireIdx>>
  PROVE  Counted'
<1>1. Held' = Held /\ Burst' = Burst
  BY DEF Held, Window, Burst
<1>2. Live' = Live
  BY <1>1 DEF Live
<1>3. lost' \subseteq Waste
  BY DEF Waste
<1>4. bad' \in 0 .. MaxBad /\ Cardinality(Waste') <= bad'
  BY <1>2, <1>3, WasteKept
<1> QED
  BY <1>1, <1>4 DEF Counted

LEMMA CountedReceive ==
  ASSUME IInv, Counted, Receive
  PROVE  Counted'
<1> DEFINE e == nextIndex
           q == rx[e]
           n == Min({ RXBurst, Len(q) })
           a == SubSeq(q, 1, n)
           r == SubSeq(q, n + 1, Len(q))
<1>1. /\ pc = "receive" /\ bufs' = a /\ rx' = [rx EXCEPT ![e] = r] /\ parsed' = 0
      /\ prepareIdx' = 0 /\ retireIdx' = 0 /\ UNCHANGED <<bad, data, lost>>
  BY DEF Receive, history
<1>2. /\ e \in Endpoints /\ q \in Seq(Buffers) /\ Len(q) \in Nat /\ RXBurst \in Nat
      /\ rx \in [Endpoints -> Seq(Buffers)]
  BY LenProperties, ServerAssumption DEF IInv, Progress, Network
<1>3. n \in 0 .. Len(q)
  <2>1. n = IF RXBurst <= Len(q) THEN RXBurst ELSE Len(q)
    BY <1>2, MinOfTwo
  <2> HIDE DEF n, q
  <2> QED
    BY <1>2, <2>1
<1>4. /\ a \in Seq(Buffers) /\ Len(a) = n /\ ToSet(q) = ToSet(a) \cup ToSet(r)
  <2> HIDE DEF n
  <2> QED
    BY <1>2, <1>3, Cut
<1> HIDE DEF a, r, n
<1>5. Held' = {}
  BY <1>1 DEF Held, Window
<1>6. Burst' = a
  <2>1. Burst' = SubSeq(a, 0 + 1, Len(a))
    BY <1>1 DEF Burst
  <2>2. SubSeq(a, 1, Len(a)) = a
    BY <1>4, SubSeqFull
  <2> QED
    BY <2>1, <2>2
<1>7. \A f \in Endpoints : rx'[f] = IF f = e THEN r ELSE rx[f]
  BY <1>1, <1>2
<1>8. Live' \subseteq Live
  <2>1. \A f \in Endpoints : ToSet(rx'[f]) \subseteq ToSet(rx[f])
    BY <1>4, <1>7
  <2>2. ToSet(Burst') \subseteq ToSet(rx[e])
    BY <1>4, <1>6
  <2> QED
    BY <1>2, <1>5, <2>1, <2>2 DEF Live
<1>9. lost' \subseteq Waste
  BY <1>1 DEF Waste
<1>10. bad' \in 0 .. MaxBad /\ Cardinality(Waste') <= bad'
  BY <1>1, <1>8, <1>9, WasteKept
<1> QED
  BY <1>5, <1>10 DEF Counted

\* The parser leaves packets without a request behind, which are waste already.
LEMMA CountedPassOver ==
  ASSUME IInv, Counted, PassOver, UNCHANGED <<bufs, data, bad, rx>>,
         Held' \subseteq Held \cup (IF NextBatch <= Len(bufs) THEN { bufs[NextBatch] } ELSE {})
  PROVE  Counted'
<1> DEFINE n == parsed'
           L == Len(bufs)
<1>1. /\ n = IF NextBatch <= L THEN NextBatch ELSE L
      /\ lost' = lost \cup { b \in PassedOver : ~IsBatch(b) }
      /\ NextBatch \in parsed + 1 .. L + 1
      /\ parsed \in Nat /\ L \in Nat /\ parsed <= L
  BY NextBatchIs DEF PassOver, IInv
<1>2. /\ ToSet(Burst) = { bufs[k] : k \in parsed + 1 .. L } /\ PassedOver \subseteq ToSet(Burst)
      /\ bufs \in Seq(Buffers)
  BY PassedOverSplit
<1>3. /\ n \in Nat /\ parsed <= n /\ n <= L /\ n \in 0 .. L
      /\ NextBatch <= L => n = NextBatch /\ NextBatch \in parsed + 1 .. L
  BY <1>1
<1>4. ToSet(Burst') = { bufs[k] : k \in n + 1 .. L }
  <2>1. Burst' = SubSeq(bufs, n + 1, L)
    BY DEF Burst
  <2> HIDE DEF n
  <2>2. n \in 0 .. Len(bufs)
    BY <1>3
  <2>3. ToSet(SubSeq(bufs, n + 1, Len(bufs))) = { bufs[k] : k \in n + 1 .. Len(bufs) }
    BY <1>2, <2>2, Rest
  <2> QED
    BY <2>1, <2>3
<1> HIDE DEF n, L
<1>5. ToSet(Burst') \subseteq ToSet(Burst)
  <2>1. n + 1 .. L \subseteq parsed + 1 .. L
    BY <1>1, <1>3
  <2> QED
    BY <1>2, <1>4, <2>1
<1>6. Held' \subseteq Held \cup ToSet(Burst) /\ Held' \subseteq { bufs[k] : k \in 1 .. n }
  <2>1. CASE NextBatch <= L
    <3>1. NextBatch \in parsed + 1 .. L /\ n = NextBatch /\ n \in 1 .. n /\ 1 .. parsed \subseteq 1 .. n
      BY <1>1, <1>3, <2>1
    <3>2. Held' \subseteq Held \cup { bufs[n] }
      BY <2>1, <3>1 DEF L
    <3>3. bufs[n] \in ToSet(Burst) /\ bufs[n] \in { bufs[k] : k \in 1 .. n }
      BY <1>2, <3>1
    <3>4. Held \subseteq { bufs[k] : k \in 1 .. n }
      BY <3>1 DEF Counted
    <3> QED
      BY <3>2, <3>3, <3>4
  <2>2. CASE ~(NextBatch <= L)
    <3>1. Held' \subseteq Held /\ 1 .. parsed \subseteq 1 .. n
      BY <1>1, <1>3, <2>2 DEF L
    <3>2. Held \subseteq { bufs[k] : k \in 1 .. n }
      BY <3>1 DEF Counted
    <3> QED
      BY <3>1, <3>2
  <2> QED
    BY <2>1, <2>2
<1>7. Live' \subseteq Live
  BY <1>5, <1>6 DEF Live
<1>8. lost' \subseteq Waste
  BY <1>1, <1>2 DEF Waste, Live
<1>9. bad' \in 0 .. MaxBad /\ Cardinality(Waste') <= bad'
  BY <1>7, <1>8, WasteKept
<1> QED
  BY <1>6, <1>9 DEF Counted, n

LEMMA CountedFetch ==
  ASSUME IInv, Counted, Fetch
  PROVE  Counted'
<1>1. UNCHANGED <<data, rx, bad, bufs, retireIdx>>
  BY DEF Fetch
<1>2. CASE count = Unlimited /\ i = prepareIdx /\ Parse
  <2>1. PassOver /\ NextBatch <= Len(bufs)
    BY SMTT(30), <1>2 DEF Parse
  <2>2. PICK b : b = bufs[NextBatch]
    OBVIOUS
  <2>3. /\ prepareIdx \in Nat /\ prepareIdx' \in Int /\ retireIdx \in Nat
        /\ Window' = retireIdx .. prepareIdx' - 1
        /\ \A k \in Window' : IF k < prepareIdx THEN Row(k)' = Row(k) ELSE Row(k)'.src = b
    <3>1. /\ prepareIdx' = prepareIdx + data[b].size /\ data[b].size \in 1 .. MaxRequests
          /\ Window' = retireIdx .. prepareIdx' - 1
          /\ \A k \in Window' : IF k < prepareIdx THEN Row(k)' = Row(k) ELSE Row(k)'.src = b
      BY <1>2, <2>2, RowsParsed
    <3>2. prepareIdx \in Nat /\ retireIdx \in Nat /\ MaxRequests \in Nat
      BY Bounds
    <3>3. prepareIdx' \in Int
      <4>1. data[b].size \in Int
        BY <3>1, <3>2
      <4> QED
        BY <3>1, <3>2, <4>1
    <3> QED
      BY <3>1, <3>2, <3>3
  <2>4. \A k \in Window' : k < prepareIdx => k \in Window
    <3>1. Window = retireIdx .. prepareIdx - 1
      BY DEF Window
    <3>2. ASSUME NEW l \in Nat, NEW m \in Nat, NEW h \in Int, NEW k \in l .. h - 1, k < m
          PROVE  k \in l .. m - 1
      BY <3>2
    <3> QED
      BY <2>3, <3>1, <3>2
  <2>5. Held' \subseteq Held \cup { b }
    <3>1. Held = { Row(k).src : k \in Window } /\ Held' = { Row(k)'.src : k \in Window' }
      BY DEF Held, Row
    <3> QED
      BY <2>3, <2>4, <3>1
  <2> QED
    BY <1>1, <2>1, <2>2, <2>5, CountedPassOver
<1>3. CASE count = Unlimited /\ i = prepareIdx /\ ParseNothing
  <2>1. PassOver /\ UNCHANGED <<requests, prepareIdx>>
    BY <1>3 DEF ParseNothing
  <2>2. Held' = Held
    BY <1>1, <2>1 DEF Held, Window
  <2> QED
    BY <1>1, <2>1, <2>2, CountedPassOver
<1>4. CASE NoParse
  <2>1. UNCHANGED <<lost, parsed, requests, prepareIdx>>
    BY <1>4 DEF NoParse
  <2> QED
    BY <1>1, <2>1, CountedKept
<1> QED
  BY <1>2, <1>3, <1>4 DEF Fetch

LEMMA CountedRetire ==
  ASSUME IInv, Counted, Retire \/ RetireLast
  PROVE  Counted'
<1>1. /\ pc = "execute" /\ 0 <= Index /\ Index < count /\ retireIdx' = retireIdx + 1
      /\ UNCHANGED <<rx, bad, bufs, parsed, requests, prepareIdx, lost>>
      /\ data' = data \/ \E d : data' = [data EXCEPT ![batch.buf] = d]
  BY DEF Retire, RetireLast, network, worker, history
<1>2. retireIdx \in Window
  BY <1>1, AtFront
<1>3. \A b \in Live : data'[b] = data[b]
  <2>1. batch.buf \notin Live
    BY <1>1, LiveApart DEF IInv, Own
  <2>2. Live \subseteq Buffers /\ DOMAIN data = Buffers
    BY InBuffers DEF IInv, Packet
  <2> QED
    BY <1>1, <2>1, <2>2
<1>4. Held' \subseteq Held
  <2>1. \A b \in Held : data'[b] = data[b]
    BY <1>3 DEF Live
  <2> QED
    BY <1>1, <1>2, <2>1, WindowShrinks
<1>5. Live' \subseteq Live
  <2>1. Burst' = Burst
    BY <1>1 DEF Burst
  <2> QED
    BY <1>1, <1>4, <2>1 DEF Live
<1>6. lost' \subseteq Waste
  BY <1>1 DEF Waste
<1>7. bad' \in 0 .. MaxBad /\ Cardinality(Waste') <= bad'
  BY <1>1, <1>3, <1>5, <1>6, WasteKept
<1> QED
  BY <1>1, <1>4, <1>7 DEF Counted

LEMMA CountedStep == IInv /\ Counted /\ [Next]_vars => Counted'
<1> SUFFICES ASSUME IInv, Counted, [Next]_vars PROVE Counted'
  OBVIOUS
<1>1. CASE \E e \in Endpoints, packet \in Packets : Arrive(e, packet)
  BY <1>1, CountedArrive
<1>2. CASE \/ UNCHANGED vars \/ CheckPending \/ Idle
           \/ \E e \in Endpoints : Transmit(e) \/ Age(e)
  <2>1. UNCHANGED <<bad, lost, data, rx, bufs, parsed, requests, prepareIdx, retireIdx>>
    BY <1>2 DEF vars, network, accessor, history, CheckPending, Idle, Transmit, Age
  <2> QED
    BY <2>1, CountedKept
<1>3. CASE Receive
  BY <1>3, CountedReceive
<1>4. CASE Fetch
  BY <1>4, CountedFetch
<1>5. CASE Retire \/ RetireLast
  BY <1>5, CountedRetire
<1> QED
  BY <1>1, <1>2, <1>3, <1>4, <1>5 DEF Next

LEMMA CountedInitially == Init => Counted
<1> SUFFICES ASSUME Init PROVE Counted
  OBVIOUS
<1>1. Held = {}
  BY DEF Init, Held, Window
<1>2. Waste = {}
  <2>1. IInv
    BY Initially
  <2>2. Burst = <<>>
    BY <2>1, Resting DEF Init
  <2>3. ToSet(<<>>) = {}
    BY DEF ToSet
  <2>4. \A e \in Endpoints : rx[e] = <<>>
    BY DEF Init
  <2>5. Live = {}
    BY <1>1, <2>2, <2>3, <2>4 DEF Live
  <2> QED
    BY <2>5 DEF Waste, Init
<1> QED
  BY <1>1, <1>2, FS_EmptySet, ServerAssumption DEF Counted, Init

\* The most buffers that an endpoint's rings and its pending responses hold.
PerEndpoint == RXDesc + TXDesc + TXBurst - 1

\* The pool is larger than all the places a buffer can be kept in.  The code
\* gives every endpoint 4096 buffers for 128 + 512 descriptors and bursts of 32
\* (dpdk.h:47-52, dpdk_impl.h:152-154): a worker of one endpoint can leave
\* 3391 invalid packets behind.
Spare == NumBuffers > NumEndpoints * PerEndpoint + RXBurst + MaxBad + 1

\* With everything full, a worker that has a batch in hand leaves a buffer free.
LEMMA PoolLeft ==
  ASSUME IInv, Counted, Spare, pc # "aborted"
  PROVE  pool # {}
<1> DEFINE F == [e \in Endpoints |-> ToSet(rx[e]) \cup ToSet(tx[e]) \cup ToSet(pendingTx[e])]
           E == UNION { F[e] : e \in Endpoints }
           B == ToSet(bufs)
           C == PerEndpoint
<1>1. /\ NumEndpoints \in Nat /\ RXBurst \in Nat /\ MaxBad \in Nat /\ RXDesc \in Nat /\ TXDesc \in Nat
      /\ TXBurst \in Nat \ {0} /\ NumBuffers \in Nat /\ C \in Nat
  BY ServerAssumption DEF PerEndpoint
<1>2. ASSUME NEW e \in Endpoints PROVE AtMost(F[e], C)
  <2>1. /\ rx[e] \in Seq(Buffers) /\ tx[e] \in Seq(Buffers) /\ pendingTx[e] \in Seq(Buffers)
        /\ Len(rx[e]) <= RXDesc /\ Len(tx[e]) <= TXDesc /\ Len(pendingTx[e]) < TXBurst
    BY DEF IInv, Network
  <2>2. Len(rx[e]) \in Nat /\ Len(tx[e]) \in Nat /\ Len(pendingTx[e]) \in Nat
    BY <2>1, LenProperties
  <2>3. /\ AtMost(ToSet(rx[e]), Len(rx[e])) /\ AtMost(ToSet(tx[e]), Len(tx[e]))
        /\ AtMost(ToSet(pendingTx[e]), Len(pendingTx[e]))
    BY <2>1, AtMostOfList
  <2> DEFINE l == Len(rx[e]) + Len(tx[e])
             n == l + Len(pendingTx[e])
  <2>4. l \in Nat /\ AtMost(ToSet(rx[e]) \cup ToSet(tx[e]), l)
    <3>1. \A x, y \in Nat : x + y \in Nat
      OBVIOUS
    <3>2. l \in Nat
      BY <2>2, <3>1
    <3> QED
      BY <2>2, <2>3, <3>2, AtMostOfUnion
  <2>5. n \in Nat /\ n <= C
    <3>1. ASSUME NEW x \in Nat, NEW y \in Nat, NEW z \in Nat, x <= RXDesc, y <= TXDesc, z < TXBurst
          PROVE  x + y + z \in Nat /\ x + y + z <= RXDesc + TXDesc + TXBurst - 1
      BY <1>1, <3>1
    <3> QED
      BY <2>1, <2>2, <3>1 DEF PerEndpoint
  <2>6. AtMost((ToSet(rx[e]) \cup ToSet(tx[e])) \cup ToSet(pendingTx[e]), n)
    <3> HIDE DEF l
    <3> QED
      BY <2>2, <2>3, <2>4, AtMostOfUnion
  <2>7. F[e] = (ToSet(rx[e]) \cup ToSet(tx[e])) \cup ToSet(pendingTx[e])
    OBVIOUS
  <2> HIDE DEF F, n, C
  <2>8. Cardinality(F[e]) \in Nat
    BY <2>6, <2>7, AtMostNat
  <2> QED
    BY <1>1, <2>5, <2>6, <2>7, <2>8 DEF AtMost
<1> HIDE DEF F, C
<1>3. AtMost(E, NumEndpoints * C) /\ NumEndpoints * C \in Nat
  BY <1>1, <1>2, AtMostOfAll DEF Endpoints
<1>4. AtMost(B, RXBurst)
  <2>1. bufs \in Seq(Buffers) /\ Len(bufs) <= RXBurst /\ Len(bufs) \in Nat
    BY LenProperties DEF IInv, Arrays
  <2>2. AtMost(B, Len(bufs))
    BY <2>1, AtMostOfList
  <2> HIDE DEF B
  <2>3. Cardinality(B) \in Nat
    BY <2>2, AtMostNat
  <2> QED
    BY <1>1, <2>1, <2>2, <2>3 DEF AtMost
<1>5. AtMost(lost, MaxBad)
  <2>1. AtMost(Waste, MaxBad)
    BY <1>1, WasteIsFinite DEF Counted, AtMost
  <2> QED
    BY <1>1, <2>1, AtMostOfSubset DEF Waste
<1>6. AtMost({ batch.buf }, 1)
  BY JustOne
<1>7. ToSet(Burst) \subseteq B /\ Held \subseteq B
  <2>1. bufs \in Seq(Buffers) /\ parsed \in 0 .. Len(bufs) /\ Len(bufs) \in Nat
    BY LenProperties DEF IInv, Arrays
  <2>2. B = { bufs[k] : k \in 1 .. Len(bufs) }
    BY <2>1, ListOf
  <2>3. 1 .. parsed \subseteq 1 .. Len(bufs) /\ parsed + 1 .. Len(bufs) \subseteq 1 .. Len(bufs)
    BY <2>1
  <2> HIDE DEF B
  <2>4. ToSet(Burst) = { bufs[k] : k \in parsed + 1 .. Len(bufs) }
    BY PassedOverSplit
  <2> QED
    BY <2>2, <2>3, <2>4 DEF Counted
<1> DEFINE A == ((E \cup B) \cup lost) \cup { batch.buf }
<1>8. AtMost(A, NumEndpoints * C + RXBurst + MaxBad + 1)
  <2> DEFINE k == NumEndpoints * C
             l == k + RXBurst
             m == l + MaxBad
  <2> HIDE DEF E, B
  <2>1. k \in Nat /\ AtMost(E, k)
    BY <1>3
  <2> HIDE DEF k
  <2>2. l \in Nat /\ AtMost(E \cup B, l)
    BY <1>1, <1>4, <2>1, AtMostOfUnion
  <2> HIDE DEF l
  <2>3. m \in Nat /\ AtMost((E \cup B) \cup lost, m)
    BY <1>1, <1>5, <2>2, AtMostOfUnion
  <2> HIDE DEF m
  <2>4. AtMost(A, m + 1)
    BY <1>6, <2>3, AtMostOfUnion
  <2> QED
    BY <2>4 DEF k, l, m
<1>9. Buffers \subseteq pool \cup A
  <2>1. Charts(Home) /\ Everywhere(Home) = Buffers
    BY HomeCharts DEF IInv, Placed
  <2>2. ASSUME NEW e \in Endpoints
        PROVE  ToSet(rx[e]) \subseteq E /\ ToSet(tx[e]) \subseteq E /\ ToSet(pendingTx[e]) \subseteq E
    BY DEF F
  <2>3. ASSUME NEW p \in Places PROVE Home[p] \subseteq pool \cup A
    <3>1. CASE p \in Fixed
      BY <1>7, <2>1, <3>1 DEF Charts, Fixed, Own
    <3>2. CASE \E e \in Endpoints : p \in { AtRx(e), AtTx(e), AtPending(e) }
      BY <2>1, <2>2, <3>2 DEF Charts
    <3> QED
      BY <3>1, <3>2, PlacesApart
  <2> QED
    BY <2>1, <2>3 DEF Everywhere
<1>10. ASSUME pool = {} PROVE FALSE
  <2> HIDE DEF A
  <2>1. Buffers \subseteq A
    BY <1>9, <1>10
  <2>2. AtMost(Buffers, NumEndpoints * C + RXBurst + MaxBad + 1)
    BY <1>1, <1>3, <1>8, <2>1, AtMostOfSubset
  <2>3. Cardinality(Buffers) = NumBuffers
    BY WasteIsFinite
  <2> QED
    BY <1>1, <1>3, <2>2, <2>3 DEF AtMost, Spare, C
<1> QED
  BY <1>10

\* A pool with the code's reserve never runs dry: allocate() finds a buffer
\* whenever a finished batch asks for the next, so that neither assertion fails.
\* Every packet that is no valid request takes one buffer for good.
THEOREM AllocNeverFails ==
  ASSUME Spare
  PROVE  Spec => []AllocSucceeds
<1>1. IInv /\ Counted /\ AllocSucceeds /\ [Next]_vars => AllocSucceeds'
  <2> SUFFICES ASSUME IInv, Counted, AllocSucceeds, [Next]_vars PROVE AllocSucceeds'
    OBVIOUS
  <2>1. pc # "aborted"
    BY DEF AllocSucceeds
  <2>2. CASE RetireLast
    <3>1. pool # {}
      BY <2>1, PoolLeft
    <3>2. pc' # "aborted"
      BY <2>2, <3>1 DEF RetireLast, Advance
    <3> QED
      BY <3>2 DEF AllocSucceeds
  <2>3. CASE Receive \/ CheckPending \/ Fetch \/ Idle \/ Retire
    BY <2>3 DEF AllocSucceeds, Receive, CheckPending, Fetch, Idle, Retire, Advance
  <2>4. CASE \/ UNCHANGED vars \/ \E e \in Endpoints : Transmit(e) \/ Age(e)
             \/ \E e \in Endpoints, packet \in Packets : Arrive(e, packet)
    BY <2>1, <2>4 DEF AllocSucceeds, vars, Transmit, Age, Arrive
  <2> QED
    BY <2>2, <2>3, <2>4 DEF Next
<1>2. Init => AllocSucceeds
  BY DEF Init, AllocSucceeds
<1> QED
  BY <1>1, <1>2, Initially, EveryStep, CountedInitially, CountedStep, PTL DEF Spec
=============================================================================
