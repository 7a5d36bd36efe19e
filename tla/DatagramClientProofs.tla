------------------------- MODULE DatagramClientProofs -------------------------
(***************************************************************************)
(* Theorems about DatagramClient, for every number of descriptors, epochs, *)
(* partitions and endpoints, and all time-outs and bursts that the         *)
(* module's assumptions allow.                                             *)
(***************************************************************************)
EXTENDS DatagramClient, WellFoundedInduction, FiniteSetTheorems, TLAPS

-----------------------------------------------------------------------------
(* Remainders, least elements, walks along links.                          *)

\* The defining equation of quotient and remainder: where a ring counter is.
LEMMA ModDef ==
  ASSUME NEW a \in Int, NEW M \in Nat \ {0}
  PROVE  /\ a % M \in 0 .. M - 1
         /\ a \div M \in Int
         /\ a = (M * (a \div M)) + (a % M)
BY SMT

\* A positive multiple of the ring size is at least one turn of the ring.
LEMMA OneTurn ==
  ASSUME NEW k \in Int, NEW M \in Nat \ {0}, k >= 1
  PROVE  M * k >= M
BY SMT

\* Two numbers whose difference is less than one turn and a whole number of
\* turns are equal.
LEMMA NoTurn ==
  ASSUME NEW k \in Int, NEW M \in Nat \ {0}, -M < M * k, M * k < M
  PROVE  k = 0
<1>1. CASE k >= 1
  BY <1>1, OneTurn
<1>2. CASE -k >= 1
  <2>1. M * (-k) >= M
    BY <1>2, OneTurn
  <2>2. M * (-k) = -(M * k)
    OBVIOUS
  <2> QED
    BY <2>1, <2>2
<1> QED
  BY <1>1, <1>2

\* Counters less than one turn apart are at different addresses.
LEMMA ModDistinct ==
  ASSUME NEW a \in Int, NEW b \in Int, NEW M \in Nat \ {0}, a < b, b - a < M
  PROVE  a % M # b % M
<1> SUFFICES ASSUME a % M = b % M PROVE FALSE
  OBVIOUS
<1> DEFINE k == (b \div M) - (a \div M)
<1>1. /\ a \div M \in Int /\ b \div M \in Int
      /\ a = (M * (a \div M)) + (a % M)
      /\ b = (M * (b \div M)) + (b % M)
      /\ a % M \in 0 .. M - 1
  BY ModDef
<1>2. k \in Int /\ M * k = b - a
  BY <1>1
<1> HIDE DEF k
<1>3. k = 0
  BY <1>2, NoTurn
<1> QED
  BY <1>2, <1>3

\* d is a whole number of turns of a ring of M cells.
Turns(M, d) == \E k \in Int : d = M * k

\* Counters a whole number of turns apart are at the same address.
LEMMA ModEqual ==
  ASSUME NEW a \in Int, NEW b \in Int, NEW M \in Nat \ {0}, Turns(M, a - b)
  PROVE  a % M = b % M
<1>1. PICK k \in Int : a - b = M * k
  BY DEF Turns
<1> DEFINE p == a \div M
           q == b \div M
           r == a % M
           s == b % M
           n == k - (p - q)
<1>2. p \in Int /\ r \in 0 .. M - 1 /\ a = (M * p) + r
  BY ModDef
<1>3. q \in Int /\ s \in 0 .. M - 1 /\ b = (M * q) + s
  BY ModDef
<1> HIDE DEF p, q, r, s
<1>4. n \in Int /\ M * n = r - s
  BY <1>1, <1>2, <1>3
<1> HIDE DEF n
<1>5. n = 0
  BY <1>2, <1>3, <1>4, NoTurn
<1> QED
  BY <1>2, <1>3, <1>4, <1>5 DEF r, s

\* A counter that has not gone round once is its own address.
LEMMA ModSmall ==
  ASSUME NEW M \in Nat \ {0}, NEW a \in 0 .. M - 1
  PROVE  a % M = a
BY SMT

\* A set of naturals that is not empty has a least element.
LEMMA LeastElement ==
  ASSUME NEW T \in SUBSET Nat, T # {}
  PROVE  \E x \in T : \A y \in T : x <= y
<1>1. IsWellFoundedOn(OpToRel(<, Nat), Nat)
  BY NatLessThanWellFounded
<1>2. \A x, y \in Nat : x < y => <<x, y>> \in OpToRel(<, Nat)
  BY DEF OpToRel
<1>3. \E x \in T : \A y \in T : ~ (<<y, x>> \in OpToRel(<, Nat))
  BY <1>1, WFMin
<1> DEFINE R == OpToRel(<, Nat)
<1>4. \A x, y \in Nat : x < y => <<x, y>> \in R
  BY <1>2
<1>5. \E x \in T : \A y \in T : ~ (<<y, x>> \in R)
  BY <1>3
<1> HIDE DEF R
<1>6. PICK x \in T : \A y \in T : ~ (<<y, x>> \in R)
  BY <1>5
<1>7. ASSUME NEW y \in T PROVE x <= y
  <2>1. x \in Nat /\ y \in Nat
    OBVIOUS
  <2>2. ~(y < x)
    BY <1>4, <1>6, <2>1
  <2> QED
    BY <2>1, <2>2
<1> QED
  BY <1>7

\* A function can be applied M times over.
Walk(V, f, a, M, g) == g \in [0 .. M -> V] /\ g[0] = a /\ \A i \in 1 .. M : g[i] = f[g[i - 1]]
LEMMA Iterate ==
  ASSUME NEW V, NEW f, f \in [V -> V], NEW a \in V, NEW M \in Nat
  PROVE  \E g : Walk(V, f, a, M, g)
<1> DEFINE Good(m, g) == g[0] = a /\ \A i \in 1 .. m : g[i] = f[g[i - 1]]
           T == { m \in Nat : ~ \E g \in [0 .. m -> V] : Good(m, g) }
<1>1. SUFFICES ASSUME T # {} PROVE FALSE
  <2>1. M \notin T
    BY <1>1
  <2> QED
    BY <2>1 DEF Walk
<1>2. PICK m \in T : \A n \in T : m <= n
  BY <1>1, LeastElement
<1>3. m # 0
  <2>1. [i \in 0 .. 0 |-> a] \in [0 .. 0 -> V] /\ Good(0, [i \in 0 .. 0 |-> a])
    OBVIOUS
  <2> QED
    BY <2>1
<1>4. m - 1 \in Nat /\ m - 1 \notin T
  <2>1. m \in Nat /\ m - 1 \in Nat /\ ~(m <= m - 1)
    BY <1>2, <1>3
  <2> HIDE DEF T
  <2> QED
    BY <1>2, <2>1
<1>5. PICK g \in [0 .. m - 1 -> V] : Good(m - 1, g)
  BY <1>4
<1> DEFINE h == [i \in 0 .. m |-> IF i = m THEN f[g[m - 1]] ELSE g[i]]
<1>6. h \in [0 .. m -> V]
  <2>1. g[m - 1] \in V
    BY <1>4
  <2>2. \A i \in 0 .. m : i # m => g[i] \in V
    BY <1>4
  <2> QED
    BY <2>1, <2>2
<1>7. Good(m, h)
  <2>1. h[0] = a
    BY <1>3, <1>5
  <2>2. ASSUME NEW i \in 1 .. m PROVE h[i] = f[h[i - 1]]
    <3>1. h[i - 1] = g[i - 1]
      BY <1>4
    <3> QED
      BY <1>4, <1>5, <3>1
  <2> QED
    BY <2>1, <2>2
<1> QED
  BY <1>6, <1>7

-----------------------------------------------------------------------------
(* The inductive invariant.                                                *)

\* Links never leave a list, and the unused list does not join itself.
UnusedLinks ==
  /\ unusedFirst \in (Rds \ held) \cup {NullRD}
  /\ \A r \in Rds \ held : /\ next[r] \in (Rds \ held) \cup {NullRD}
                           /\ next[r] = NullRD \/ next[r] # unusedFirst
  /\ \A r, s \in Rds \ held : next[r] = next[s] => r = s \/ next[r] = NullRD

ActiveLinks ==
  /\ activeFirst \in held \cup {NullRD} /\ activeLast \in held \cup {NullRD}
  /\ activeFirst = NullRD <=> activeLast = NullRD
  /\ \A r \in held :
       /\ next[r] \in held \cup {NullRD} /\ prev[r] \in held \cup {NullRD}
       /\ next[r] # NullRD => prev[next[r]] = r
       /\ prev[r] # NullRD => next[prev[r]] = r
       /\ next[r] = NullRD <=> activeLast = r
       /\ prev[r] = NullRD <=> activeFirst = r

Lists == UnusedLinks /\ ActiveLinks

\* pos numbers the n descriptors of S in the order in which the links pass them.
Ranked(S, link, first, n, pos) ==
  /\ first = NullRD <=> S = {}
  /\ first # NullRD => first \in S /\ pos[first] = 0
  /\ \A r \in S :
       /\ pos[r] < n
       /\ \A q \in S : pos[r] = pos[q] => r = q
       /\ IF link[r] = NullRD THEN pos[r] + 1 = n ELSE link[r] \in S /\ pos[link[r]] = pos[r] + 1
       /\ pos[r] # 0 => \E d \in S : link[d] = r /\ pos[d] + 1 = pos[r]

InOrder(S, link, first, n) == \E pos \in [Rds -> Nat] : Ranked(S, link, first, n, pos)

\* Both lists pass all their descriptors, the active one in the order in which
\* the requests expire.
Ordered ==
  /\ InOrder(held, next, activeFirst, count)
  /\ InOrder(Rds \ held, next, unusedFirst, NumRds - count)
  /\ count \in 0 .. NumRds /\ count = Cardinality(held)
  /\ \A r \in held : next[r] # NullRD => left[r] <= left[next[r]]

\* A packet's epoch is as far behind its descriptor's as the uses since, and a
\* packet of the present use belongs to an outstanding request.
Stamped ==
  \A m \in net \cup pending :
    /\ (m.epoch + m.old) % EpochMod = epoch[m.rd]
    /\ m.old = 0 => m.rd \in held

\* A packet in pending_tx is of the present use, is the first of it, and has
\* not waited longer than the oldest one.
Waiting ==
  \A m \in pending :
    /\ m.old = 0
    /\ age = TXTimeout \/ left[m.rd] + age >= RequestTimeout
    /\ \A n \in net : n.rd = m.rd => n.old # 0
    /\ pc \in {"receive", "expire"} => m.rd \notin due

\* A route that is not the owner's has the flag set, or will have, or is still
\* to be looked at.
Ahead(p) ==
  /\ pc = "routes"
  /\ \/ at[1] < p
     \/ at[1] = p /\ \A f \in Endpoints : f < at[2] => LcoreOf[f] # owner[p]

Routing ==
  /\ dirAt = 0 => ~changed
  /\ pc # "routes" => at = <<0, 0>>
  /\ ~refresh /\ ~changed => \A p \in Parts : LcoreOf[route[p]] = owner[p] \/ Ahead(p)

IInv == TypeOK /\ Lists /\ Ordered /\ Stamped /\ Waiting /\ Routing

-----------------------------------------------------------------------------
(* Arithmetic of the epochs.                                               *)

\* One use more is one epoch more, modulo the number of epochs.
LEMMA ModSucc ==
  ASSUME NEW x \in Int, NEW M \in Nat \ {0}
  PROVE  (x + 1) % M = ((x % M) + 1) % M
<1> DEFINE e == x % M
           q == x \div M
<1>1. x = (M * q) + e /\ q \in Int /\ e \in Int
  BY ModDef
<1> HIDE DEF e, q
<1> DEFINE a == x + 1
           b == e + 1
<1>2. a \in Int /\ b \in Int /\ a - b = M * q
  BY <1>1
<1> HIDE DEF a, b
<1>3. Turns(M, a - b)
  BY <1>1, <1>2 DEF Turns
<1>4. a % M = b % M
  BY <1>2, <1>3, ModEqual
<1> QED
  BY <1>4 DEF a, b, e

\* An epoch comes round only after EpochMod uses.
LEMMA EpochOnce ==
  ASSUME NEW M \in Nat \ {0}, NEW a \in 0 .. M - 1, NEW d \in 0 .. M - 1, (a + d) % M = a
  PROVE  d = 0
<1> SUFFICES ASSUME d # 0 PROVE FALSE
  OBVIOUS
<1>1. a % M = a
  BY ModSmall
<1>2. a % M # (a + d) % M
  BY ModDistinct
<1> QED
  BY <1>1, <1>2

-----------------------------------------------------------------------------
(* Packets.                                                                *)

\* m was one of M before the release of rd.
Older(m, M, rd) ==
  \/ m.rd # rd /\ m \in M
  \/ m.rd = rd /\ \E x \in M : x.rd = rd /\ m.old = x.old + 1 /\ m.epoch = x.epoch

\* What a packet of a released descriptor becomes, and what others stay.
LEMMA AgedPackets ==
  ASSUME NEW M, M \subseteq Packets, NEW rd \in Rds
  PROVE  /\ Aged(M, rd) \subseteq Packets
         /\ \A m \in Aged(M, rd) : Older(m, M, rd)
<1> SUFFICES ASSUME NEW m \in Aged(M, rd)
             PROVE  /\ m \in Packets
                    /\ Older(m, M, rd)
  OBVIOUS
<1>1. CASE m \in M /\ m.rd # rd
  BY <1>1 DEF Older
<1>2. CASE \E x \in M : x.rd = rd /\ x.old + 1 < EpochMod /\ m = [x EXCEPT !.old = @ + 1]
  <2>1. PICK x \in M : x.rd = rd /\ x.old + 1 < EpochMod /\ m = [x EXCEPT !.old = @ + 1]
    BY <1>2
  <2>2. x \in Packets
    BY <2>1
  <2>3. x.old \in Nat /\ x.old + 1 \in 0 .. EpochMod - 1
    BY <2>1, <2>2, ClientAssumption DEF Packets
  <2>4. m.rd = rd /\ m.old = x.old + 1 /\ m.epoch = x.epoch /\ m \in Packets
    BY <2>1, <2>2, <2>3 DEF Packets
  <2> QED
    BY <2>1, <2>4 DEF Older
<1> QED
  BY <1>1, <1>2 DEF Aged

\* The response carries its request's descriptor and epoch.
LEMMA ResponsePacket ==
  ASSUME NEW m \in Packets
  PROVE  /\ Response(m) \in Packets /\ Response(m).rd = m.rd
         /\ Response(m).epoch = m.epoch /\ Response(m).old = m.old
BY DEF Response, Packets

\* A new request.
LEMMA RequestPacket ==
  ASSUME TypeOK, NEW rd \in Rds
  PROVE  /\ Packet("request", rd) \in Packets /\ Packet("request", rd).rd = rd
         /\ Packet("request", rd).old = 0 /\ Packet("request", rd).epoch = epoch[rd]
         /\ epoch[rd] \in 0 .. EpochMod - 1
BY ClientAssumption DEF Packet, Packets, TypeOK

\* A response that matches belongs to the present use of its descriptor.
LEMMA MatchIsOwn ==
  ASSUME TypeOK, Stamped, NEW m \in net, Matches(m)
  PROVE  m.old = 0 /\ m.rd \in held /\ m.rd \in Rds
<1>1. /\ m \in Packets /\ m.rd \in Rds /\ m.old \in 0 .. EpochMod - 1
      /\ m.epoch \in 0 .. EpochMod - 1 /\ EpochMod \in Nat \ {0}
  BY ClientAssumption DEF TypeOK, Packets
<1>2. (m.epoch + m.old) % EpochMod = m.epoch
  BY DEF Stamped, Matches
<1>3. m.old = 0
  BY <1>1, <1>2, EpochOnce
<1> QED
  BY <1>1, <1>3 DEF Stamped

-----------------------------------------------------------------------------
(* The lists.                                                              *)

LEMMA NullIsNone == NullRD \notin Rds
BY ClientAssumption DEF NullRD, Rds

\* A descriptor that is handed out was in nobody's hands.
LEMMA AllocateLists ==
  ASSUME TypeOK, Lists, NEW rd \in Rds, AllocateRd(rd)
  PROVE  rd \notin held /\ Lists'
<1>1. /\ rd \in Rds \ held /\ rd # NullRD /\ held' = held \cup {rd} /\ held \subseteq Rds
      /\ rd = unusedFirst /\ NullRD \notin Rds
  BY NullIsNone DEF Lists, UnusedLinks, AllocateRd, TypeOK
<1>2. \A r \in Rds : /\ next'[r] = IF r = rd THEN NullRD ELSE IF r = activeLast THEN rd ELSE next[r]
                     /\ prev'[r] = IF r = rd THEN activeLast ELSE prev[r]
  BY DEF AllocateRd, TypeOK
<1>3. UnusedLinks'
  <2>1. \A r \in Rds \ held' : r \in Rds \ held /\ next'[r] = next[r] /\ r # rd
    BY <1>1, <1>2 DEF Lists, ActiveLinks
  <2>2. unusedFirst' = next[rd]
    BY <1>1 DEF AllocateRd
  <2> QED
    BY <1>1, <2>1, <2>2 DEF Lists, UnusedLinks
<1>4. ActiveLinks'
  <2>1. /\ activeLast' = rd
        /\ activeFirst' = IF activeFirst = NullRD THEN rd ELSE activeFirst
    BY DEF AllocateRd
  <2>2. ASSUME NEW r \in held'
        PROVE  /\ next'[r] \in held' \cup {NullRD} /\ prev'[r] \in held' \cup {NullRD}
               /\ next'[r] # NullRD => prev'[next'[r]] = r
               /\ prev'[r] # NullRD => next'[prev'[r]] = r
               /\ next'[r] = NullRD <=> activeLast' = r
               /\ prev'[r] = NullRD <=> activeFirst' = r
    <3>1. CASE r = rd
      BY <1>1, <1>2, <2>1, <3>1 DEF Lists, ActiveLinks
    <3>2. CASE r # rd
      BY <1>1, <1>2, <2>1, <3>2 DEF Lists, ActiveLinks
    <3> QED
      BY <3>1, <3>2
  <2> QED
    BY <1>1, <2>1, <2>2 DEF Lists, ActiveLinks
<1> QED
  BY <1>1, <1>3, <1>4 DEF Lists

\* A release from any place of the active list leaves both lists whole.
LEMMA ReleaseLists ==
  ASSUME TypeOK, Lists, NEW rd \in held, NEW N, ReleaseRd(rd, N)
  PROVE  Lists'
<1>1. /\ rd \in Rds /\ rd # NullRD /\ held' = held \ {rd} /\ held \subseteq Rds
      /\ NullRD \notin Rds
  BY NullIsNone DEF ReleaseRd, TypeOK
<1>2. \A r \in Rds : /\ next'[r] = IF r = rd THEN unusedFirst ELSE IF r = prev[rd] THEN next[rd] ELSE next[r]
                     /\ prev'[r] = IF r = next[rd] THEN prev[rd] ELSE prev[r]
  BY DEF ReleaseRd, TypeOK
<1>3. UnusedLinks'
  <2>1. \A r \in Rds \ held' : \/ r = rd /\ next'[r] = unusedFirst
                               \/ r \in Rds \ held /\ next'[r] = next[r]
    BY <1>1, <1>2 DEF Lists, ActiveLinks
  <2>2. unusedFirst' = rd
    BY DEF ReleaseRd
  <2> QED
    BY <1>1, <2>1, <2>2 DEF Lists, UnusedLinks
<1>4. ActiveLinks'
  <2>1. /\ activeLast' = IF activeLast = rd THEN prev[rd] ELSE activeLast
        /\ activeFirst' = IF activeFirst = rd THEN next[rd] ELSE activeFirst
    BY DEF ReleaseRd, LastWithout
  <2>2. ASSUME NEW r \in held'
        PROVE  /\ next'[r] \in held' \cup {NullRD} /\ prev'[r] \in held' \cup {NullRD}
               /\ next'[r] # NullRD => prev'[next'[r]] = r
               /\ prev'[r] # NullRD => next'[prev'[r]] = r
               /\ next'[r] = NullRD <=> activeLast' = r
               /\ prev'[r] = NullRD <=> activeFirst' = r
    BY <1>1, <1>2, <2>1 DEF Lists, ActiveLinks
  <2>3. activeFirst' \in held' \cup {NullRD} /\ activeLast' \in held' \cup {NullRD}
    BY <1>1, <2>1 DEF Lists, ActiveLinks
  <2>4. activeFirst' = NullRD <=> activeLast' = NullRD
    BY <1>1, <2>1 DEF Lists, ActiveLinks
  <2> QED
    BY <2>2, <2>3, <2>4 DEF ActiveLinks
<1> QED
  BY <1>3, <1>4 DEF Lists

-----------------------------------------------------------------------------
(* The order of the lists.                                                 *)

\* Without one of its descriptors, wherever it is, a list is still in order.
LEMMA RankedWithout ==
  ASSUME NEW S \in SUBSET Rds, NEW link, NEW first, NEW n \in Int, InOrder(S, link, first, n),
         NEW rd \in S, NEW link2, NEW first2,
         first = rd => first2 = link[rd], first # rd => first2 = first,
         \A r \in S \ {rd} : link2[r] = IF link[r] = rd THEN link[rd] ELSE link[r]
  PROVE  InOrder(S \ {rd}, link2, first2, n - 1) /\ n > 0
<1>1. PICK pos \in [Rds -> Nat] : Ranked(S, link, first, n, pos)
  BY DEF InOrder
<1> DEFINE T == S \ {rd}
           new == [r \in Rds |-> IF pos[r] > pos[rd] THEN pos[r] - 1 ELSE pos[r]]
<1>2. new \in [Rds -> Nat] /\ \A r \in Rds : new[r] = IF pos[r] > pos[rd] THEN pos[r] - 1 ELSE pos[r]
  OBVIOUS
<1>3. \A r \in S : r \in Rds /\ pos[r] \in Nat /\ r # NullRD /\ pos[r] < n
  BY <1>1, NullIsNone DEF Ranked
<1>4. \A r, q \in S : pos[r] = pos[q] => r = q
  BY <1>1 DEF Ranked
<1>5. \A r \in S : IF link[r] = NullRD THEN pos[r] + 1 = n ELSE link[r] \in S /\ pos[link[r]] = pos[r] + 1
  BY <1>1 DEF Ranked
<1>6. \A r \in S : pos[r] # 0 => \E d \in S : link[d] = r /\ pos[d] + 1 = pos[r]
  BY <1>1 DEF Ranked
<1>7. \A r \in T : r \in S /\ new[r] = (IF pos[r] > pos[rd] THEN pos[r] - 1 ELSE pos[r]) /\ pos[r] # pos[rd]
  BY <1>2, <1>3, <1>4
<1> HIDE DEF new
<1>8. \A r \in T : new[r] < n - 1
  BY <1>3, <1>7
<1>9. \A r, q \in T : new[r] = new[q] => r = q
  BY <1>3, <1>4, <1>7
<1>10. ASSUME NEW r \in T
       PROVE  IF link2[r] = NullRD THEN new[r] + 1 = n - 1 ELSE link2[r] \in T /\ new[link2[r]] = new[r] + 1
  <2>1. CASE link[r] = rd
    <3>1. link2[r] = link[rd] /\ pos[rd] = pos[r] + 1 /\ r \in S /\ new[r] = pos[r]
      BY <1>3, <1>5, <1>7, <2>1
    <3>2. CASE link[rd] = NullRD
      BY <1>3, <1>5, <3>1, <3>2
    <3>3. CASE link[rd] # NullRD
      <4>1. PICK q \in S : q = link[rd] /\ pos[q] = pos[rd] + 1
        BY <1>5, <3>3
      <4>2. q \in T /\ new[q] = pos[q] - 1
        BY <1>3, <1>7, <4>1
      <4> QED
        BY <1>3, <3>1, <3>3, <4>1, <4>2
    <3> QED
      BY <3>2, <3>3
  <2>2. CASE link[r] # rd /\ link[r] = NullRD
    BY <1>3, <1>5, <1>7, <2>2
  <2>3. CASE link[r] # rd /\ link[r] # NullRD
    <3>1. PICK q \in T : q = link[r] /\ pos[q] = pos[r] + 1
      BY <1>5, <2>3
    <3>2. new[q] = new[r] + 1
      BY <1>3, <1>7, <3>1
    <3> QED
      BY <2>3, <3>1, <3>2
  <2> QED
    BY <2>1, <2>2, <2>3
<1>11. ASSUME NEW r \in T, new[r] # 0
       PROVE  \E d \in T : link2[d] = r /\ new[d] + 1 = new[r]
  <2>1. PICK d \in S : link[d] = r /\ pos[d] + 1 = pos[r]
    BY <1>3, <1>6, <1>7, <1>11
  <2>2. CASE d = rd
    <3>1. new[r] = pos[rd] /\ pos[rd] # 0
      BY <1>3, <1>7, <1>11, <2>1, <2>2
    <3>2. PICK e \in S : link[e] = rd /\ pos[e] + 1 = pos[rd]
      BY <1>6, <3>1
    <3>3. e \in T /\ new[e] = pos[e]
      BY <1>3, <1>7, <3>2
    <3> QED
      BY <2>1, <2>2, <3>1, <3>2, <3>3
  <2>3. CASE d # rd
    <3>1. d \in T /\ link2[d] = r
      BY <2>1, <2>3
    <3>2. new[d] + 1 = new[r]
      BY <1>3, <1>7, <2>1, <3>1
    <3> QED
      BY <3>1, <3>2
  <2> QED
    BY <2>2, <2>3
<1>12. (first2 = NullRD <=> T = {}) /\ (first2 # NullRD => first2 \in T /\ new[first2] = 0)
  <2>1. first \in S /\ pos[first] = 0
    BY <1>1 DEF Ranked
  <2>2. CASE first = rd /\ link[rd] = NullRD
    <3>1. n = 1
      BY <1>5, <2>1, <2>2
    <3>2. T = {}
      BY <1>3, <1>4, <2>1, <2>2, <3>1
    <3> QED
      BY <2>2, <3>2
  <2>3. CASE first = rd /\ link[rd] # NullRD
    <3>1. PICK q \in S : q = link[rd] /\ pos[q] = 1
      BY <1>5, <2>1, <2>3
    <3>2. q \in T /\ new[q] = 0
      BY <1>3, <1>7, <2>1, <2>3, <3>1
    <3> QED
      BY <2>3, <3>1, <3>2
  <2>4. CASE first # rd
    <3>1. first \in T /\ new[first] = 0 /\ first # NullRD
      BY <1>3, <1>7, <2>1, <2>4
    <3> QED
      BY <2>4, <3>1
  <2> QED
    BY <2>2, <2>3, <2>4
<1>13. Ranked(T, link2, first2, n - 1, new)
  BY <1>8, <1>9, <1>10, <1>11, <1>12 DEF Ranked
<1> QED
  BY <1>2, <1>3, <1>13 DEF InOrder

\* With one more in front.
LEMMA RankedPush ==
  ASSUME NEW S \in SUBSET Rds, NEW link, NEW first, NEW n \in Nat, InOrder(S, link, first, n),
         n = 0 <=> S = {}, NEW rd \in Rds \ S, NEW link2, link2[rd] = first,
         \A r \in S : link2[r] = link[r]
  PROVE  InOrder(S \cup {rd}, link2, rd, n + 1)
<1>1. PICK pos \in [Rds -> Nat] : Ranked(S, link, first, n, pos)
  BY DEF InOrder
<1> DEFINE T == S \cup {rd}
           new == [r \in Rds |-> IF r = rd THEN 0 ELSE pos[r] + 1]
<1>2. new \in [Rds -> Nat] /\ new[rd] = 0
  OBVIOUS
<1>3. \A r \in S : new[r] = pos[r] + 1 /\ pos[r] \in Nat /\ r # NullRD /\ r # rd
  BY NullIsNone
<1>4. rd # NullRD
  BY NullIsNone
<1> HIDE DEF new
<1>5. \A r \in T : new[r] < n + 1 /\ \A q \in T : new[r] = new[q] => r = q
  BY <1>1, <1>2, <1>3 DEF Ranked
<1>6. ASSUME NEW r \in T
      PROVE  IF link2[r] = NullRD THEN new[r] + 1 = n + 1 ELSE link2[r] \in T /\ new[link2[r]] = new[r] + 1
  <2>1. CASE r = rd
    BY <1>1, <1>2, <1>3, <2>1 DEF Ranked
  <2>2. CASE r \in S
    BY <1>1, <1>3, <2>2 DEF Ranked
  <2> QED
    BY <2>1, <2>2
<1>7. ASSUME NEW r \in T, new[r] # 0
      PROVE  \E d \in T : link2[d] = r /\ new[d] + 1 = new[r]
  <2>1. r \in S
    BY <1>2, <1>7
  <2>2. CASE pos[r] = 0
    <3>1. r = first
      BY <1>1, <2>1, <2>2 DEF Ranked
    <3> QED
      BY <1>2, <1>3, <2>1, <2>2, <3>1
  <2>3. CASE pos[r] # 0
    <3>1. PICK d \in S : link[d] = r /\ pos[d] + 1 = pos[r]
      BY <1>1, <2>1, <2>3 DEF Ranked
    <3> QED
      BY <1>3, <2>1, <3>1
  <2> QED
    BY <2>2, <2>3
<1>8. Ranked(T, link2, rd, n + 1, new)
  BY <1>2, <1>4, <1>5, <1>6, <1>7 DEF Ranked
<1> QED
  BY <1>2, <1>8 DEF InOrder

\* With one more at the end.
LEMMA RankedAppend ==
  ASSUME NEW S \in SUBSET Rds, NEW link, NEW first, NEW n \in Nat, InOrder(S, link, first, n),
         n = 0 <=> S = {}, NEW rd \in Rds \ S, NEW link2, link2[rd] = NullRD,
         \A r \in S : link[r] \in S \cup {NullRD},
         \A r \in S : link2[r] = IF link[r] = NullRD THEN rd ELSE link[r],
         S # {} => \E r \in S : link[r] = NullRD
  PROVE  InOrder(S \cup {rd}, link2, IF first = NullRD THEN rd ELSE first, n + 1)
<1>1. PICK pos \in [Rds -> Nat] : Ranked(S, link, first, n, pos)
  BY DEF InOrder
<1> DEFINE T == S \cup {rd}
           new == [pos EXCEPT ![rd] = n]
           head == IF first = NullRD THEN rd ELSE first
<1>2. new \in [Rds -> Nat] /\ new[rd] = n
  OBVIOUS
<1>3. \A r \in S : new[r] = pos[r] /\ pos[r] \in Nat /\ r # NullRD /\ r # rd
  BY NullIsNone
<1>4. rd # NullRD
  BY NullIsNone
<1> HIDE DEF new
<1>5. \A r \in T : new[r] < n + 1 /\ \A q \in T : new[r] = new[q] => r = q
  BY <1>1, <1>2, <1>3 DEF Ranked
<1>6. ASSUME NEW r \in T
      PROVE  IF link2[r] = NullRD THEN new[r] + 1 = n + 1 ELSE link2[r] \in T /\ new[link2[r]] = new[r] + 1
  <2>1. CASE r = rd
    BY <1>2, <2>1
  <2>2. CASE r \in S
    BY <1>1, <1>2, <1>3, <1>4, <2>2 DEF Ranked
  <2> QED
    BY <2>1, <2>2
<1>7. ASSUME NEW r \in T, new[r] # 0
      PROVE  \E d \in T : link2[d] = r /\ new[d] + 1 = new[r]
  <2>1. CASE r = rd
    <3>1. PICK d \in S : link[d] = NullRD
      BY <1>2, <1>7, <2>1
    <3>2. pos[d] + 1 = n /\ link2[d] = rd
      BY <1>1, <3>1 DEF Ranked
    <3> QED
      BY <1>2, <1>3, <2>1, <3>1, <3>2
  <2>2. CASE r \in S
    <3>1. PICK d \in S : link[d] = r /\ pos[d] + 1 = pos[r]
      BY <1>1, <1>3, <1>7, <2>2 DEF Ranked
    <3> QED
      BY <1>3, <2>2, <3>1
  <2> QED
    BY <2>1, <2>2
<1>8. head # NullRD /\ head \in T /\ new[head] = 0
  <2>1. CASE first = NullRD
    BY <1>1, <1>2, <1>4, <2>1 DEF Ranked
  <2>2. CASE first # NullRD
    BY <1>1, <1>3, <2>2 DEF Ranked
  <2> QED
    BY <2>1, <2>2
<1>9. Ranked(T, link2, head, n + 1, new)
  BY <1>5, <1>6, <1>7, <1>8 DEF Ranked
<1> QED
  BY <1>2, <1>9 DEF InOrder

LEMMA FewRds == IsFiniteSet(Rds) /\ Cardinality(Rds) = NumRds
<1>1. 0 \in Int /\ NumRds - 1 \in Int /\ ~(0 > NumRds - 1) /\ NumRds - 1 - 0 + 1 = NumRds
  BY ClientAssumption
<1> QED
  BY <1>1, FS_Interval DEF Rds

\* A count of no descriptors is an empty list.
LEMMA EmptyLists ==
  ASSUME TypeOK, Ordered
  PROVE  /\ count = 0 <=> held = {}
         /\ NumRds - count = 0 <=> Rds \ held = {}
         /\ count \in Nat /\ NumRds - count \in Nat
<1>1. IsFiniteSet(Rds) /\ Cardinality(Rds) = NumRds
  BY FewRds
<1>2. held \in SUBSET Rds /\ count = Cardinality(held) /\ count \in 0 .. NumRds
  BY DEF TypeOK, Ordered
<1>3. IsFiniteSet(held) /\ (Cardinality(Rds) = Cardinality(held) => Rds = held)
  BY <1>1, <1>2, FS_Subset
<1>4. Cardinality(held) = 0 <=> held = {}
  BY <1>3, FS_EmptySet
<1>5. NumRds - count = 0 <=> Rds = held
  BY <1>1, <1>2, <1>3, ClientAssumption
<1> QED
  BY <1>2, <1>4, <1>5, ClientAssumption

\* allocate_rd() takes the first of one list and adds it at the end of the other.
LEMMA AllocateOrders ==
  ASSUME TypeOK, Lists, Ordered, NEW rd \in Rds, AllocateRd(rd)
  PROVE  Ordered'
<1>1. /\ rd \notin held /\ held' = held \cup {rd} /\ held \in SUBSET Rds /\ count' = count + 1
      /\ rd = unusedFirst /\ unusedFirst' = next[rd] /\ NullRD \notin Rds
      /\ activeFirst' = IF activeFirst = NullRD THEN rd ELSE activeFirst
      /\ left' = [left EXCEPT ![rd] = RequestTimeout] /\ left \in [Rds -> 0 .. RequestTimeout]
  BY AllocateLists, NullIsNone DEF AllocateRd, TypeOK
<1>2. /\ next'[rd] = NullRD
      /\ \A r \in Rds \ {rd} : next'[r] = IF r = activeLast THEN rd ELSE next[r]
  BY DEF AllocateRd, TypeOK
<1>3. InOrder(held', next', activeFirst', count')
  <2>1. \A r \in held : next'[r] = (IF next[r] = NullRD THEN rd ELSE next[r]) /\ next[r] \in held \cup {NullRD}
    BY <1>1, <1>2 DEF Lists, ActiveLinks
  <2>2. held # {} => \E r \in held : next[r] = NullRD
    <3> SUFFICES ASSUME held # {} PROVE \E r \in held : next[r] = NullRD
      OBVIOUS
    <3>1. activeFirst # NullRD
      BY DEF Ordered, InOrder, Ranked
    <3> QED
      BY <3>1 DEF Lists, ActiveLinks
  <2>3. InOrder(held, next, activeFirst, count) /\ count \in Nat /\ (count = 0 <=> held = {})
    BY EmptyLists DEF Ordered
  <2>4. InOrder(held \cup {rd}, next', IF activeFirst = NullRD THEN rd ELSE activeFirst, count + 1)
    BY SMTT(30), <1>1, <1>2, <2>1, <2>2, <2>3, RankedAppend
  <2> QED
    BY <1>1, <2>4
<1>4. InOrder(Rds \ held', next', unusedFirst', NumRds - count') /\ NumRds - count > 0
  <2> DEFINE S == Rds \ held
  <2>1. \A r \in S \ {rd} : next'[r] = IF next[r] = rd THEN next[rd] ELSE next[r]
    BY <1>1, <1>2 DEF Lists, UnusedLinks, ActiveLinks
  <2>2. InOrder(S, next, unusedFirst, NumRds - count) /\ NumRds - count \in Int
    BY EmptyLists DEF Ordered
  <2>3. rd \in S /\ unusedFirst' = IF unusedFirst = rd THEN next[rd] ELSE unusedFirst
    BY <1>1
  <2>4. InOrder(S \ {rd}, next', unusedFirst', NumRds - count - 1) /\ NumRds - count > 0
    <3> S \in SUBSET Rds
      OBVIOUS
    <3> HIDE DEF S
    <3> QED
      BY <2>1, <2>2, <2>3, RankedWithout
  <2>5. Rds \ held' = S \ {rd} /\ NumRds - count' = NumRds - count - 1
    BY <1>1, EmptyLists, ClientAssumption DEF TypeOK
  <2> QED
    BY <2>4, <2>5
<1>5. count' \in 0 .. NumRds /\ count' = Cardinality(held')
  <2>1. IsFiniteSet(held)
    BY <1>1, FewRds, FS_Subset
  <2>2. Cardinality(held') = Cardinality(held) + 1
    BY <1>1, <2>1, FS_AddElement
  <2> QED
    BY <1>1, <1>4, <2>2, ClientAssumption DEF Ordered
<1>6. ASSUME NEW r \in held', next'[r] # NullRD
      PROVE  left'[r] <= left'[next'[r]]
  <2>1. r \in held /\ r # rd
    BY <1>1, <1>2, <1>6
  <2>2. CASE r = activeLast
    BY <1>1, <1>2, <2>1, <2>2, ClientAssumption
  <2>3. CASE r # activeLast
    <3>1. next'[r] = next[r] /\ next[r] \in held /\ left[r] <= left[next[r]]
      BY <1>1, <1>2, <1>6, <2>1, <2>3 DEF Lists, ActiveLinks, Ordered
    <3> QED
      BY <1>1, <2>1, <3>1
  <2> QED
    BY <2>2, <2>3
<1> QED
  BY <1>3, <1>4, <1>5, <1>6 DEF Ordered

\* release_rd() takes one from wherever it is and puts it first in the other.
LEMMA ReleaseOrders ==
  ASSUME TypeOK, Lists, Ordered, NEW rd \in held, NEW N, ReleaseRd(rd, N)
  PROVE  Ordered'
<1>1. /\ rd \in Rds /\ held' = held \ {rd} /\ held \in SUBSET Rds /\ count' = count - 1
      /\ unusedFirst' = rd /\ NullRD \notin Rds
      /\ activeFirst' = IF activeFirst = rd THEN next[rd] ELSE activeFirst
      /\ left' = left /\ left \in [Rds -> 0 .. RequestTimeout]
  BY NullIsNone DEF ReleaseRd, TypeOK
<1>2. /\ next'[rd] = unusedFirst
      /\ \A r \in Rds \ {rd} : next'[r] = IF r = prev[rd] THEN next[rd] ELSE next[r]
  BY <1>1 DEF ReleaseRd, TypeOK
<1>3. \A r \in held \ {rd} : next'[r] = IF next[r] = rd THEN next[rd] ELSE next[r]
  BY <1>1, <1>2 DEF Lists, ActiveLinks
<1>4. InOrder(held', next', activeFirst', count') /\ count > 0
  <2>1. InOrder(held, next, activeFirst, count) /\ count \in Int
    BY EmptyLists DEF Ordered
  <2>2. /\ held \in SUBSET Rds /\ rd \in held
        /\ activeFirst = rd => activeFirst' = next[rd]
        /\ activeFirst # rd => activeFirst' = activeFirst
    BY <1>1
  <2>3. InOrder(held \ {rd}, next', activeFirst', count - 1) /\ count > 0
    BY <1>3, <2>1, <2>2, RankedWithout
  <2> QED
    BY <1>1, <2>3
<1>5. InOrder(Rds \ held', next', unusedFirst', NumRds - count')
  <2> DEFINE S == Rds \ held
  <2>1. \A r \in S : next'[r] = next[r]
    BY <1>1, <1>2 DEF Lists, ActiveLinks
  <2>2. InOrder(S, next, unusedFirst, NumRds - count) /\ NumRds - count \in Nat /\ (NumRds - count = 0 <=> S = {})
    BY EmptyLists DEF Ordered
  <2>3. InOrder(S \cup {rd}, next', rd, NumRds - count + 1)
    <3>1. S \in SUBSET Rds /\ rd \in Rds \ S
      BY <1>1
    <3> HIDE DEF S
    <3> QED
      BY <1>2, <2>1, <2>2, <3>1, RankedPush
  <2>4. Rds \ held' = S \cup {rd} /\ NumRds - count' = NumRds - count + 1
    BY <1>1, EmptyLists, ClientAssumption DEF TypeOK
  <2> QED
    BY <1>1, <2>3, <2>4
<1>6. count' \in 0 .. NumRds /\ count' = Cardinality(held')
  <2>1. IsFiniteSet(held)
    BY <1>1, FewRds, FS_Subset
  <2>2. Cardinality(held') = Cardinality(held) - 1
    BY <1>1, <2>1, FS_RemoveElement
  <2> QED
    BY <1>1, <1>4, <2>2, ClientAssumption DEF Ordered
<1>7. ASSUME NEW r \in held', next'[r] # NullRD
      PROVE  left'[r] <= left'[next'[r]]
  <2>1. r \in held /\ r # rd
    BY <1>1
  <2>2. \A q \in held : next[q] # NullRD => next[q] \in held /\ left[q] <= left[next[q]] /\ left[q] \in Nat
    BY <1>1 DEF Lists, ActiveLinks, Ordered
  <2>3. CASE next[r] = rd
    <3>1. next'[r] = next[rd] /\ next[rd] \in held /\ left[r] <= left[rd] /\ left[rd] <= left[next[rd]]
      BY <1>1, <1>3, <1>7, <2>1, <2>2, <2>3
    <3> QED
      BY <1>1, <2>1, <3>1
  <2>4. CASE next[r] # rd
    BY <1>1, <1>3, <1>7, <2>1, <2>2, <2>4
  <2> QED
    BY <2>3, <2>4
<1> QED
  BY <1>4, <1>5, <1>6, <1>7 DEF Ordered

\* A walk along links that are in order passes the whole list.
LEMMA ListIsAll ==
  ASSUME NEW S \in SUBSET Rds, NEW first, NEW n \in 0 .. NumRds, InOrder(S, next, first, n)
  PROVE  ListFrom(first) = S
<1>1. PICK pos \in [Rds -> Nat] : Ranked(S, next, first, n, pos)
  BY DEF InOrder
<1> DEFINE V == S \cup {NullRD}
           M == NumRds - 1
           f == [r \in V |-> IF r = NullRD THEN NullRD ELSE next[r]]
           Nth[k \in Rds] == IF k = 0 THEN first
                             ELSE IF Nth[k - 1] = NullRD THEN NullRD ELSE next[Nth[k - 1]]
<1>2. first \in V /\ \A r \in V : r # NullRD => next[r] \in V
  BY <1>1 DEF Ranked
<1>3. f \in [V -> V] /\ \A r \in V : f[r] = IF r = NullRD THEN NullRD ELSE next[r]
  BY <1>2
<1>4. M \in Nat /\ Rds = 0 .. M
  BY ClientAssumption DEF Rds
<1>5. \A k \in 1 .. M : k \in Rds /\ k - 1 \in Rds /\ k # 0
  BY <1>4
<1> HIDE DEF V, M, f
<1>6. PICK g \in [Rds -> V] : g[0] = first /\ \A k \in 1 .. M : g[k] = f[g[k - 1]]
  <2>1. \E g : Walk(V, f, first, M, g)
    BY <1>2, <1>3, <1>4, Iterate
  <2> QED
    BY <1>4, <2>1 DEF Walk
<1>7. g = [k \in Rds |-> IF k = 0 THEN first
             ELSE IF g[k - 1] = NullRD THEN NullRD ELSE next[g[k - 1]]]
  <2>1. ASSUME NEW k \in Rds
        PROVE  g[k] = IF k = 0 THEN first ELSE IF g[k - 1] = NullRD THEN NullRD ELSE next[g[k - 1]]
    <3>1. k # 0 => k \in 1 .. M /\ k - 1 \in Rds
      BY <1>4
    <3> QED
      BY <1>3, <1>6, <3>1
  <2> QED
    BY <2>1
<1>8. Nth = [k \in Rds |-> IF k = 0 THEN first
               ELSE IF Nth[k - 1] = NullRD THEN NullRD ELSE next[Nth[k - 1]]]
  BY <1>7
<1>9. ListFrom(first) = { Nth[k] : k \in Rds } \ {NullRD}
  BY DEF ListFrom
<1> HIDE DEF Nth
<1>10. /\ Nth[0] = first
       /\ \A k \in 1 .. M : Nth[k] = IF Nth[k - 1] = NullRD THEN NullRD ELSE next[Nth[k - 1]]
  <2>1. 0 \in Rds
    BY <1>4
  <2> QED
    BY <1>5, <1>8, <2>1
\* No step leaves the list.
<1>11. \A k \in Rds : Nth[k] \in V
  <2> DEFINE T == { k \in Nat : k <= M /\ Nth[k] \notin V }
  <2>1. T = {}
    <3> SUFFICES ASSUME T # {} PROVE FALSE
      OBVIOUS
    <3>1. PICK k \in T : \A j \in T : k <= j
      BY LeastElement
    <3>2. k # 0
      BY <1>2, <1>10, <3>1
    <3>3. k - 1 \in Nat /\ k - 1 <= M /\ k \in 1 .. M
      BY <1>4, <3>1, <3>2
    <3>4. Nth[k - 1] \in V
      BY <3>1, <3>3
    <3>5. Nth[k] = IF Nth[k - 1] = NullRD THEN NullRD ELSE next[Nth[k - 1]]
      BY <1>10, <3>3
    <3> QED
      BY <1>2, <3>1, <3>4, <3>5 DEF V
  <2> QED
    BY <1>4, <2>1
\* The step that reaches a descriptor is its number.
<1>12. \A r \in S : pos[r] \in Rds /\ Nth[pos[r]] = r
  <2>1. \A r \in S : pos[r] \in Nat /\ pos[r] <= M /\ r # NullRD
    BY <1>1, ClientAssumption, NullIsNone DEF Ranked, M
  <2> DEFINE T == { k \in Nat : \E r \in S : pos[r] = k /\ Nth[k] # r }
  <2>2. T = {}
    <3> SUFFICES ASSUME T # {} PROVE FALSE
      OBVIOUS
    <3>1. PICK k \in T : \A j \in T : k <= j
      BY LeastElement
    <3>2. PICK r \in S : pos[r] = k /\ Nth[k] # r
      BY <3>1
    <3>3. k # 0
      BY <1>1, <1>10, <3>2 DEF Ranked
    <3>4. PICK d \in S : next[d] = r /\ pos[d] + 1 = k
      BY <1>1, <3>2, <3>3 DEF Ranked
    <3>5. k - 1 \in Nat /\ k \in 1 .. M /\ pos[d] = k - 1
      BY SMTT(30), <1>4, <2>1, <3>2, <3>3, <3>4
    <3>6. Nth[k - 1] = d
      <4>1. k - 1 \notin T
        <5> k \in Nat /\ ~(k <= k - 1)
          OBVIOUS
        <5> HIDE DEF T
        <5> QED
          BY <3>1
      <4> QED
        BY <3>5, <4>1
    <3> QED
      BY <1>10, <2>1, <3>2, <3>4, <3>5, <3>6
  <2> QED
    BY <1>4, <2>1, <2>2
<1>13. ListFrom(first) \subseteq S
  BY <1>9, <1>11 DEF V
<1>14. S \subseteq ListFrom(first)
  BY <1>9, <1>12, NullIsNone
<1> QED
  BY <1>13, <1>14

-----------------------------------------------------------------------------
(* Types.                                                                  *)

\* Every owner has an endpoint, and the first one is a route.
LEMMA FirstRoute ==
  ASSUME NEW c \in Lcores
  PROVE  \E e \in Endpoints : LcoreOf[e] = c /\ \A f \in Endpoints : LcoreOf[f] = c => e <= f
<1> DEFINE T == { e \in Endpoints : LcoreOf[e] = c }
           R == OpToRel(<, Nat)
<1>1. T \subseteq Nat /\ T # {}
  BY RouteAssumption DEF Endpoints, Lcores
<1>2. PICK e \in T : \A f \in T : <<f, e>> \notin R
  <2>1. IsWellFoundedOn(R, Nat)
    BY NatLessThanWellFounded
  <2> HIDE DEF T, R
  <2> QED
    BY <1>1, <2>1, WFMin
<1>3. \A f \in T : ~ (f < e)
  BY <1>1, <1>2 DEF OpToRel
<1> QED
  BY <1>1, <1>3

LEMMA InitTypes == Init => TypeOK
<1> SUFFICES ASSUME Init PROVE TypeOK
  OBVIOUS
<1>1. /\ next \in [Rds -> Rds \cup {NullRD}] /\ prev \in [Rds -> Rds \cup {NullRD}]
      /\ epoch \in [Rds -> 0 .. EpochMod - 1] /\ left \in [Rds -> 0 .. RequestTimeout]
      /\ {activeFirst, activeLast, unusedFirst} \subseteq Rds \cup {NullRD}
      /\ count \in Int /\ held \subseteq Rds
  BY ClientAssumption DEF Init, InitRds, Rds, NullRD
<1>2. /\ pending \subseteq Packets /\ net \subseteq Packets /\ due \subseteq Rds
      /\ pc \in {"user", "receive", "expire", "routes"} /\ age \in 0 .. TXTimeout
  BY ClientAssumption DEF Init
<1>3. /\ owner \in [Parts -> Lcores] /\ dirAt \in 0 .. NumParts
      /\ changed \in BOOLEAN /\ refresh \in BOOLEAN /\ at \in Parts \X Endpoints
  <2>1. 0 \in Parts /\ 0 \in Endpoints /\ 0 \in 0 .. NumParts
    BY RouteAssumption DEF Parts, Endpoints
  <2> QED
    BY <2>1 DEF Init, InitRoutes
<1>4. route \in [Parts -> Endpoints]
  <2>1. ASSUME NEW p \in Parts
        PROVE  (CHOOSE e \in Endpoints : LcoreOf[e] = owner[p]
                   /\ \A f \in Endpoints : LcoreOf[f] = owner[p] => e <= f) \in Endpoints
    BY <1>3, FirstRoute
  <2> QED
    BY <2>1 DEF Init, InitRoutes
<1> QED
  BY <1>1, <1>2, <1>3, <1>4 DEF TypeOK

\* What a thread puts into the network or into pending_tx are packets.
LEMMA SendTypes ==
  ASSUME TypeOK, NEW M \in SUBSET Packets, SendAll(M)
  PROVE  /\ pending' = {} /\ pending' \subseteq Packets /\ net' \subseteq Packets
         /\ net' \subseteq net \cup M
BY DEF SendAll, Sent, TypeOK

LEMMA QueueTypes ==
  ASSUME TypeOK, NEW p \in Packets, Queue(p)
  PROVE  /\ pending' \subseteq Packets /\ net' \subseteq Packets /\ age' \in 0 .. TXTimeout
         /\ age' = IF pending = {} THEN 0 ELSE age
         /\ \/ pending' = pending \cup {p} /\ net' = net
            \/ pending' = {} /\ net' \subseteq net \cup pending \cup {p}
<1>1. pending \cup {p} \in SUBSET Packets /\ net \subseteq Packets /\ age \in 0 .. TXTimeout
  BY DEF TypeOK
<1>2. age' \in 0 .. TXTimeout /\ age' = IF pending = {} THEN 0 ELSE age
  BY <1>1, ClientAssumption DEF Queue
<1>3. CASE SendAll(pending \cup {p})
  BY <1>1, <1>2, <1>3, SendTypes
<1>4. CASE pending' = pending \cup {p} /\ UNCHANGED net
  BY <1>1, <1>2, <1>4
<1> QED
  BY <1>3, <1>4 DEF Queue

LEMMA ReleaseTypes ==
  ASSUME TypeOK, NEW rd \in Rds, NEW N \in SUBSET net, ReleaseRd(rd, N)
  PROVE  /\ next' \in [Rds -> Rds \cup {NullRD}] /\ prev' \in [Rds -> Rds \cup {NullRD}]
         /\ epoch' \in [Rds -> 0 .. EpochMod - 1] /\ left' \in [Rds -> 0 .. RequestTimeout]
         /\ {activeFirst, activeLast, unusedFirst}' \subseteq Rds \cup {NullRD}
         /\ count' \in Int /\ held' \subseteq Rds /\ due' \subseteq Rds
         /\ net' \subseteq Packets /\ pending' \subseteq Packets
<1>1. net' \subseteq Packets /\ pending' \subseteq Packets
  BY AgedPackets DEF ReleaseRd, TypeOK
<1>2. \A e \in 0 .. EpochMod - 1 : NextEpoch(e) \in 0 .. EpochMod - 1
  BY ClientAssumption, ModDef DEF NextEpoch
<1>3. epoch' \in [Rds -> 0 .. EpochMod - 1]
  BY <1>2 DEF ReleaseRd, TypeOK
<1>4. /\ next' \in [Rds -> Rds \cup {NullRD}] /\ prev' \in [Rds -> Rds \cup {NullRD}]
      /\ left' \in [Rds -> 0 .. RequestTimeout]
  BY DEF ReleaseRd, TypeOK
<1>5. /\ {activeFirst, activeLast, unusedFirst}' \subseteq Rds \cup {NullRD}
      /\ count' \in Int /\ held' \subseteq Rds /\ due' \subseteq Rds
  BY DEF ReleaseRd, LastWithout, TypeOK
<1> QED
  BY <1>1, <1>3, <1>4, <1>5

\* update_remote_eid() stays within the partitions and their endpoints.
LEMMA NextPlace ==
  ASSUME NEW p \in Parts, NEW e \in Endpoints
  PROVE  /\ 0 \in Parts /\ 0 \in Endpoints
         /\ p + 1 # NumParts => p + 1 \in Parts
         /\ e + 1 # NumEndpoints => e + 1 \in Endpoints
BY RouteAssumption DEF Parts, Endpoints

\* Every step keeps the types.
LEMMA TypeStep == TypeOK /\ [Next]_vars => TypeOK'
<1> SUFFICES ASSUME TypeOK, [Next]_vars PROVE TypeOK'
  OBVIOUS
<1> USE DEF directory, routes
<1>1. CASE AppendRequest
  <2>1. PICK rd \in Rds, p \in Parts :
          AllocateRd(rd) /\ IF route[p] \in Reachable THEN Queue(Packet("request", rd)) ELSE Drop
    BY <1>1 DEF AppendRequest
  <2>2. pending' \subseteq Packets /\ net' \subseteq Packets /\ age' \in 0 .. TXTimeout
    <3>1. CASE Queue(Packet("request", rd))
      BY <3>1, RequestPacket, QueueTypes
    <3>2. CASE Drop
      BY <3>2 DEF Drop, TypeOK
    <3> QED
      BY <2>1, <3>1, <3>2
  <2>3. /\ next' \in [Rds -> Rds \cup {NullRD}] /\ prev' \in [Rds -> Rds \cup {NullRD}]
        /\ epoch' \in [Rds -> 0 .. EpochMod - 1] /\ left' \in [Rds -> 0 .. RequestTimeout]
    BY <2>1, ClientAssumption DEF AllocateRd, TypeOK
  <2>4. /\ {activeFirst, activeLast, unusedFirst}' \subseteq Rds \cup {NullRD}
        /\ count' \in Int /\ held' \subseteq Rds
    BY <2>1 DEF AllocateRd, TypeOK
  <2> QED
    BY <1>1, <2>2, <2>3, <2>4 DEF AppendRequest, TypeOK
<1>2. CASE HandleBegin
  <2>1. pending' \subseteq Packets /\ net' \subseteq Packets
    <3>1. CASE SendAll(pending)
      BY <3>1, SendTypes DEF TypeOK
    <3>2. CASE UNCHANGED <<pending, net>>
      BY <3>2 DEF TypeOK
    <3> QED
      BY <1>2, <3>1, <3>2 DEF HandleBegin
  <2> QED
    BY <1>2, <2>1 DEF HandleBegin, TypeOK, rds
<1>3. CASE Receive
  <2>1. PICK m \in net : \E N \in {net, net \ {m}} :
          IF Matches(m) THEN ReleaseRd(m.rd, N) ELSE net' = N /\ UNCHANGED <<rds, due, pending>>
    BY <1>3 DEF Receive
  <2>2. PICK N \in SUBSET net :
          \/ ReleaseRd(m.rd, N)
          \/ net' = N /\ UNCHANGED <<rds, due, pending>>
    BY <2>1
  <2>3. CASE ReleaseRd(m.rd, N)
    <3>1. m.rd \in Rds
      BY DEF TypeOK, Packets
    <3> QED
      BY <1>3, <2>3, <3>1, ReleaseTypes DEF Receive, TypeOK
  <2>4. CASE net' = N /\ UNCHANGED <<rds, due, pending>>
    BY <1>3, <2>4 DEF Receive, TypeOK, rds
  <2> QED
    BY <2>2, <2>3, <2>4
<1>4. CASE ReceiveEnd
  BY <1>4 DEF ReceiveEnd, TypeOK, rds
<1>5. CASE Expire
  <2>1. activeFirst \in Rds /\ ReleaseRd(activeFirst, net)
    BY <1>5 DEF Expire, TypeOK
  <2> QED
    BY <1>5, <2>1, ReleaseTypes DEF Expire, TypeOK
<1>6. CASE ExpireEnd
  BY <1>6 DEF ExpireEnd, TypeOK, rds
<1>7. CASE UpdateRemoteEid
  <2>1. at[1] \in Parts /\ at[2] \in Endpoints
    BY DEF TypeOK
  <2>2. at' \in Parts \X Endpoints
    BY <1>7, <2>1, NextPlace DEF UpdateRemoteEid
  <2>3. route' \in [Parts -> Endpoints]
    BY <1>7, <2>1 DEF UpdateRemoteEid, TypeOK
  <2> QED
    BY <1>7, <2>2, <2>3 DEF UpdateRemoteEid, TypeOK, rds
<1>8. CASE RefreshOwner
  <2>1. dirAt' \in 0 .. NumParts
    BY <1>8, RouteAssumption DEF RefreshOwner, TypeOK
  <2> QED
    BY <1>8, <2>1 DEF RefreshOwner, TypeOK, rds
<1>9. CASE RefreshEnd
  <2>1. dirAt' \in 0 .. NumParts
    BY <1>9, RouteAssumption DEF RefreshEnd
  <2> QED
    BY <1>9, <2>1 DEF RefreshEnd, TypeOK, rds
<1>10. CASE Tick
  <2>1. left' \in [Rds -> 0 .. RequestTimeout] /\ age' \in 0 .. TXTimeout
    BY <1>10, ClientAssumption DEF Tick, TypeOK
  <2> QED
    BY <1>10, <2>1 DEF Tick, TypeOK
<1>11. CASE Lose
  BY <1>11 DEF Lose, TypeOK, rds
<1>12. CASE Answer
  <2>1. PICK m \in net : \E N \in {net, net \ {m}} : net' = N \cup {Response(m)}
    BY <1>12 DEF Answer
  <2>2. net' \subseteq Packets
    BY <2>1, ResponsePacket DEF TypeOK
  <2> QED
    BY <1>12, <2>2 DEF Answer, TypeOK, rds
<1>13. CASE UNCHANGED vars
  BY <1>13 DEF TypeOK, vars
<1> QED
  BY <1>1, <1>2, <1>3, <1>4, <1>5, <1>6, <1>7, <1>8, <1>9, <1>10, <1>11, <1>12, <1>13 DEF Next

\* The client's state stays within its types (datagram_client_impl.h): the list
\* heads name descriptors or kNullRD, epochs wrap, routes are endpoints.
THEOREM TypeCorrect == Spec => []TypeOK
<1> QED
  BY InitTypes, TypeStep, PTL DEF Spec

-----------------------------------------------------------------------------
(* The lists and the packets in every step.                                *)

\* A descriptor is released because of a response to its present use, or
\* because it is the first of the active list and has timed out.
Releases(rd, N) ==
  /\ ReleaseRd(rd, N) /\ N \subseteq net
  /\ UNCHANGED <<age, pc>>
  /\ \/ \E m \in net : m.rd = rd /\ m.old = 0
     \/ rd \in due /\ pc = "expire"

LEMMA ReceiveReleases ==
  ASSUME TypeOK, Stamped, Receive
  PROVE  /\ pc = "receive"
         /\ \/ \E rd \in held, N \in SUBSET net : Releases(rd, N)
            \/ net' \subseteq net /\ UNCHANGED <<rds, due, pending, age, pc>>
<1>1. PICK m \in net : \E N \in {net, net \ {m}} :
        IF Matches(m) THEN ReleaseRd(m.rd, N) ELSE net' = N /\ UNCHANGED <<rds, due, pending>>
  BY DEF Receive
<1>2. PICK N \in SUBSET net :
        \/ Matches(m) /\ ReleaseRd(m.rd, N)
        \/ net' = N /\ UNCHANGED <<rds, due, pending>>
  BY <1>1
<1>3. pc = "receive" /\ UNCHANGED <<age, pc>>
  BY DEF Receive
<1>4. CASE Matches(m) /\ ReleaseRd(m.rd, N)
  BY <1>3, <1>4, MatchIsOwn DEF Releases
<1>5. CASE net' = N /\ UNCHANGED <<rds, due, pending>>
  BY <1>3, <1>5
<1> QED
  BY <1>2, <1>3, <1>4, <1>5

LEMMA ExpireReleases ==
  ASSUME TypeOK, Lists, Expire
  PROVE  activeFirst \in held /\ Releases(activeFirst, net)
BY NullIsNone DEF Expire, Releases, Lists, ActiveLinks, TypeOK

LEMMA ListsStep == TypeOK /\ Lists /\ Stamped /\ [Next]_vars => Lists'
<1> SUFFICES ASSUME TypeOK, Lists, Stamped, [Next]_vars PROVE Lists'
  OBVIOUS
<1>1. CASE AppendRequest
  BY <1>1, AllocateLists DEF AppendRequest
<1>2. CASE \E rd \in held, N \in SUBSET net : Releases(rd, N)
  BY <1>2, ReleaseLists DEF Releases
<1>3. CASE UNCHANGED <<next, prev, activeFirst, activeLast, unusedFirst, held>>
  BY <1>3 DEF Lists, UnusedLinks, ActiveLinks
<1>4. CASE Receive
  BY <1>2, <1>3, <1>4, ReceiveReleases DEF rds
<1>5. CASE Expire
  BY <1>2, <1>5, ExpireReleases
<1> QED
  BY <1>1, <1>3, <1>4, <1>5 DEF Next, HandleBegin, ReceiveEnd, ExpireEnd, UpdateRemoteEid,
     RefreshOwner, RefreshEnd, Tick, Lose, Answer, rds, vars

LEMMA OrderedStep == TypeOK /\ Lists /\ Ordered /\ Stamped /\ [Next]_vars => Ordered'
<1> SUFFICES ASSUME TypeOK, Lists, Ordered, Stamped, [Next]_vars PROVE Ordered'
  OBVIOUS
<1>1. CASE AppendRequest
  BY <1>1, AllocateOrders DEF AppendRequest
<1>2. CASE \E rd \in held, N \in SUBSET net : Releases(rd, N)
  BY <1>2, ReleaseOrders DEF Releases
<1>3. CASE UNCHANGED rds
  BY <1>3 DEF Ordered, rds
<1>4. CASE Tick
  <2>1. UNCHANGED <<next, activeFirst, unusedFirst, count, held>>
    BY <1>4 DEF Tick
  <2>2. ASSUME NEW r \in held', next'[r] # NullRD
        PROVE  left'[r] <= left'[next'[r]]
    <3>1. PICK q \in held : q = next[r] /\ left[r] <= left[q] /\ r \in held
      BY <2>1, <2>2 DEF Lists, ActiveLinks, Ordered
    <3>2. /\ left'[r] = IF left[r] > 0 THEN left[r] - 1 ELSE 0
          /\ left'[q] = IF left[q] > 0 THEN left[q] - 1 ELSE 0
          /\ left[r] \in Int /\ left[q] \in Int
      BY <1>4, <3>1, ClientAssumption DEF Tick, TypeOK
    <3> QED
      BY <2>1, <3>1, <3>2
  <2> QED
    BY <2>1, <2>2 DEF Ordered
<1>5. CASE Receive
  BY <1>2, <1>3, <1>5, ReceiveReleases
<1>6. CASE Expire
  BY <1>2, <1>6, ExpireReleases
<1> QED
  BY <1>1, <1>3, <1>4, <1>5, <1>6 DEF Next, HandleBegin, ReceiveEnd, ExpireEnd, UpdateRemoteEid,
     RefreshOwner, RefreshEnd, Lose, Answer, vars, rds

\* A release makes every packet of the descriptor one use older.
LEMMA ReleaseStamps ==
  ASSUME TypeOK, Stamped, NEW rd \in Rds, NEW N \in SUBSET net, ReleaseRd(rd, N)
  PROVE  /\ Stamped'
         /\ \A m \in net' \cup pending' : m.rd = rd => m.old # 0
         /\ \A m \in net' : m.rd # rd => m \in net
         /\ \A m \in pending' : m.rd # rd => m \in pending
<1>1. /\ net' = Aged(N, rd) /\ pending' = Aged(pending, rd) /\ held' = held \ {rd}
      /\ N \subseteq Packets /\ pending \subseteq Packets /\ N \subseteq net
      /\ EpochMod \in Nat \ {0}
  BY ClientAssumption DEF ReleaseRd, TypeOK
<1>2. /\ epoch'[rd] = (epoch[rd] + 1) % EpochMod
      /\ \A r \in Rds : r # rd => epoch'[r] = epoch[r]
  BY DEF ReleaseRd, NextEpoch, TypeOK
<1>3. Aged(N, rd) \subseteq Packets /\ \A m \in Aged(N, rd) : Older(m, N, rd)
  BY <1>1, AgedPackets
<1>4. Aged(pending, rd) \subseteq Packets /\ \A m \in Aged(pending, rd) : Older(m, pending, rd)
  BY <1>1, AgedPackets
<1>5. ASSUME NEW m \in net' \cup pending'
      PROVE  /\ (m.epoch + m.old) % EpochMod = epoch'[m.rd]
             /\ m.old = 0 => m.rd \in held'
             /\ m.rd = rd => m.old # 0
  <2>1. CASE m.rd # rd
    <3>1. m \in net \cup pending /\ m.rd \in Rds
      BY <1>1, <1>3, <1>4, <2>1 DEF Packets, Older
    <3> QED
      BY <1>1, <1>2, <2>1, <3>1 DEF Stamped
  <2>2. CASE m.rd = rd
    <3>1. PICK x \in N \cup pending : x.rd = rd /\ m.old = x.old + 1 /\ m.epoch = x.epoch
      BY <1>1, <1>3, <1>4, <2>2 DEF Older
    <3>2. x.epoch \in Nat /\ x.old \in Nat /\ (x.epoch + x.old) % EpochMod = epoch[rd]
      BY <1>1, <3>1 DEF Stamped, Packets
    <3> DEFINE s == x.epoch + x.old
    <3>3. s \in Int /\ m.epoch + m.old = s + 1 /\ m.old # 0
      BY <3>1, <3>2
    <3>4. s % EpochMod = epoch[rd]
      BY <3>2
    <3> HIDE DEF s
    <3>5. (s + 1) % EpochMod = ((s % EpochMod) + 1) % EpochMod
      BY <1>1, <3>3, ModSucc
    <3> QED
      BY <1>2, <2>2, <3>3, <3>4, <3>5
  <2> QED
    BY <2>1, <2>2
<1> QED
  BY <1>1, <1>3, <1>4, <1>5 DEF Stamped, Older

\* A new request is stamped with the present epoch of its descriptor.
LEMMA AppendPackets ==
  ASSUME TypeOK, Lists, AppendRequest
  PROVE  \E rd \in Rds \ held :
           /\ AllocateRd(rd)
           /\ \/ Queue(Packet("request", rd))
              \/ Drop
           /\ Packet("request", rd) \in Packets
           /\ Packet("request", rd).rd = rd /\ Packet("request", rd).old = 0
           /\ Packet("request", rd).epoch = epoch[rd] /\ epoch[rd] % EpochMod = epoch[rd]
           /\ epoch[rd] \in Nat
<1>1. PICK rd \in Rds : AllocateRd(rd) /\ (Queue(Packet("request", rd)) \/ Drop)
  BY DEF AppendRequest
<1>2. rd \notin held
  BY <1>1, AllocateLists
<1>3. epoch[rd] \in 0 .. EpochMod - 1 /\ EpochMod \in Nat \ {0}
  BY ClientAssumption DEF TypeOK
<1>4. epoch[rd] % EpochMod = epoch[rd]
  BY <1>3, ModSmall
<1> QED
  BY <1>1, <1>2, <1>3, <1>4, RequestPacket

LEMMA StampedStep == TypeOK /\ Lists /\ Stamped /\ [Next]_vars => Stamped'
<1> SUFFICES ASSUME TypeOK, Lists, Stamped, [Next]_vars PROVE Stamped'
  OBVIOUS
<1>1. CASE net' \cup pending' \subseteq net \cup pending /\ UNCHANGED <<epoch, held>>
  BY <1>1 DEF Stamped
<1>2. CASE \E rd \in held, N \in SUBSET net : Releases(rd, N)
  BY <1>2, ReleaseStamps DEF Releases, TypeOK
<1>3. CASE AppendRequest
  <2>1. PICK rd \in Rds \ held :
          /\ AllocateRd(rd)
          /\ Queue(Packet("request", rd)) \/ Drop
          /\ Packet("request", rd) \in Packets
          /\ Packet("request", rd).rd = rd /\ Packet("request", rd).old = 0
          /\ Packet("request", rd).epoch = epoch[rd] /\ epoch[rd] % EpochMod = epoch[rd]
          /\ epoch[rd] \in Nat
    BY <1>3, AppendPackets
  <2> DEFINE q == Packet("request", rd)
  <2>2. q \in Packets /\ q.rd = rd /\ q.epoch + q.old = epoch[rd] /\ epoch[rd] % EpochMod = epoch[rd]
    BY <2>1
  <2>3. net' \cup pending' \subseteq net \cup pending \cup {q}
    <3>1. CASE Queue(q)
      BY <2>2, <3>1, QueueTypes
    <3>2. CASE Drop
      BY <3>2 DEF Drop
    <3> QED
      BY <2>1, <3>1, <3>2
  <2>4. epoch' = epoch /\ held' = held \cup {rd}
    BY <2>1 DEF AllocateRd
  <2> HIDE DEF q
  <2> QED
    BY <2>2, <2>3, <2>4 DEF Stamped
<1>4. CASE HandleBegin
  <2>1. SendAll(pending) => net' \cup pending' \subseteq net \cup pending
    BY SendTypes DEF TypeOK
  <2> QED
    BY <1>1, <1>4, <2>1 DEF HandleBegin, rds
<1>5. CASE Receive
  BY <1>1, <1>2, <1>5, ReceiveReleases DEF rds
<1>6. CASE Expire
  BY <1>2, <1>6, ExpireReleases
<1>7. CASE Answer
  <2>1. PICK m \in net : net' \subseteq net \cup {Response(m)} /\ UNCHANGED <<epoch, held, pending>>
    BY <1>7 DEF Answer, rds
  <2>2. /\ Response(m).rd = m.rd /\ Response(m).epoch = m.epoch /\ Response(m).old = m.old
    BY ResponsePacket DEF TypeOK
  <2> QED
    BY <2>1, <2>2 DEF Stamped
<1>8. CASE Lose
  BY <1>1, <1>8 DEF Lose, rds
<1> QED
  BY <1>1, <1>3, <1>4, <1>5, <1>6, <1>7, <1>8 DEF Next, ReceiveEnd, ExpireEnd, UpdateRemoteEid,
     RefreshOwner, RefreshEnd, Tick, rds, vars

LEMMA WaitingStep == TypeOK /\ Lists /\ Stamped /\ Waiting /\ [Next]_vars => Waiting'
<1> SUFFICES ASSUME TypeOK, Lists, Stamped, Waiting, [Next]_vars PROVE Waiting'
  OBVIOUS
<1>0. /\ age \in 0 .. TXTimeout /\ left \in [Rds -> 0 .. RequestTimeout]
      /\ \A m \in pending : m.rd \in Rds /\ left[m.rd] \in 0 .. RequestTimeout /\ m.rd \in held
      /\ TXTimeout \in Nat /\ RequestTimeout \in Nat /\ TXTimeout <= RequestTimeout
  BY ClientAssumption DEF TypeOK, Packets, Stamped, Waiting
<1>1. CASE net' \subseteq net /\ UNCHANGED <<pending, age, left, due, pc>>
  BY <1>1 DEF Waiting
<1>2. CASE \E rd \in held, N \in SUBSET net : Releases(rd, N)
  <2>1. PICK rd \in held, N \in SUBSET net : Releases(rd, N)
    BY <1>2
  <2>2. \A m \in pending : m.rd # rd
    BY <2>1 DEF Releases, Waiting
  <2>3. /\ \A m \in net' : m.rd # rd => m \in net
        /\ pending' \subseteq pending
        /\ UNCHANGED <<age, left, pc>> /\ due' \subseteq due
    <3>1. pending' = Aged(pending, rd) /\ UNCHANGED <<age, left, pc>> /\ due' \subseteq due
      BY <2>1 DEF Releases, ReleaseRd
    <3>2. pending' \subseteq pending
      BY <2>2, <3>1 DEF Aged
    <3> QED
      BY <2>1, <3>1, <3>2, ReleaseStamps DEF Releases, TypeOK
  <2> QED
    BY <2>2, <2>3 DEF Waiting
<1>3. CASE AppendRequest
  <2>1. PICK rd \in Rds \ held :
          /\ AllocateRd(rd)
          /\ Queue(Packet("request", rd)) \/ Drop
          /\ Packet("request", rd) \in Packets
          /\ Packet("request", rd).rd = rd /\ Packet("request", rd).old = 0
    BY <1>3, AppendPackets
  <2> DEFINE q == Packet("request", rd)
  <2>2. q \in Packets /\ q.rd = rd /\ q.old = 0
    BY <2>1
  <2>3. /\ left'[rd] = RequestTimeout /\ \A r \in Rds : r # rd => left'[r] = left[r]
        /\ pc' = "user"
    BY <1>3, <2>1 DEF AllocateRd, TypeOK, AppendRequest
  <2>4. CASE pending' \subseteq pending /\ net' = net /\ age' = age
    BY <1>0, <2>1, <2>3, <2>4 DEF Waiting
  <2>5. CASE /\ pending' = pending \cup {q} /\ net' = net
             /\ age' = IF pending = {} THEN 0 ELSE age
    <3>1. \A n \in net : n.rd = rd => n.old # 0
      BY <2>1 DEF Stamped
    <3>2. age' \in Nat /\ RequestTimeout + age' >= RequestTimeout
      BY <1>0, <2>5
    <3> HIDE DEF q
    <3>3. ASSUME NEW m \in pending'
          PROVE  /\ m.old = 0
                 /\ age' = TXTimeout \/ left'[m.rd] + age' >= RequestTimeout
                 /\ \A n \in net' : n.rd = m.rd => n.old # 0
                 /\ pc' \in {"receive", "expire"} => m.rd \notin due'
      <4>1. CASE m = q
        BY <2>2, <2>3, <2>5, <3>1, <3>2, <4>1
      <4>2. CASE m \in pending
        <5>1. age' = age /\ left'[m.rd] = left[m.rd]
          BY <1>0, <2>1, <2>3, <2>5, <4>2
        <5> QED
          BY <2>3, <2>5, <4>2, <5>1 DEF Waiting
      <4> QED
        BY <2>5, <4>1, <4>2
    <3> QED
      BY <3>3 DEF Waiting
  <2>6. CASE pending' = {}
    BY <2>6 DEF Waiting
  <2>7. CASE Queue(q)
    BY <2>2, <2>5, <2>6, <2>7, QueueTypes
  <2>8. CASE Drop
    BY <2>4, <2>8 DEF Drop
  <2> QED
    BY <2>1, <2>7, <2>8
<1>4. CASE HandleBegin
  <2>1. CASE ToSend
    <3>1. pending' = {}
      BY <1>4, <2>1 DEF HandleBegin, SendAll
    <3> QED
      BY <3>1 DEF Waiting
  <2>2. CASE ~ToSend
    <3>1. /\ due' = { rd \in held : left[rd] = 0 }
          /\ UNCHANGED <<pending, net, age, left>>
      BY <1>4, <2>2 DEF HandleBegin, rds
    <3>2. ASSUME NEW m \in pending PROVE left[m.rd] # 0
      <4>1. age < TXTimeout
        BY <1>0, <2>2 DEF ToSend
      <4>2. left[m.rd] + age >= RequestTimeout
        BY <1>0, <4>1 DEF Waiting
      <4> QED
        BY <1>0, <4>1, <4>2
    <3> QED
      BY <3>1, <3>2 DEF Waiting
  <2> QED
    BY <2>1, <2>2
<1>5. CASE Receive
  BY <1>1, <1>2, <1>5, ReceiveReleases DEF rds
<1>6. CASE Expire
  BY <1>2, <1>6, ExpireReleases
<1>7. CASE ReceiveEnd
  <2>1. UNCHANGED <<pending, age, left, due, net>> /\ pc = "receive"
    BY <1>7 DEF ReceiveEnd, rds
  <2> QED
    BY <2>1 DEF Waiting
<1>8. CASE ExpireEnd \/ UpdateRemoteEid
  <2>1. UNCHANGED <<pending, age, left, net>> /\ pc' \in {"user", "routes"}
    BY <1>8 DEF ExpireEnd, UpdateRemoteEid, rds
  <2> QED
    BY <2>1 DEF Waiting
<1>9. CASE Tick
  <2>1. UNCHANGED <<pending, net, due, pc>>
    BY <1>9 DEF Tick
  <2>2. ASSUME NEW m \in pending
        PROVE  age' = TXTimeout \/ left'[m.rd] + age' >= RequestTimeout
    <3>1. /\ left'[m.rd] = IF left[m.rd] > 0 THEN left[m.rd] - 1 ELSE 0
          /\ age' = IF age < TXTimeout THEN age + 1 ELSE age
      BY <1>0, <1>9 DEF Tick
    <3> QED
      BY <1>0, <3>1 DEF Waiting
  <2> QED
    BY <2>1, <2>2 DEF Waiting
<1>10. CASE Answer
  <2>1. PICK m \in net : net' \subseteq net \cup {Response(m)} /\ UNCHANGED <<pending, age, left, due, pc>>
    BY <1>10 DEF Answer, rds
  <2>2. Response(m).rd = m.rd /\ Response(m).old = m.old
    BY ResponsePacket DEF TypeOK
  <2> QED
    BY <2>1, <2>2 DEF Waiting
<1>11. CASE Lose
  BY <1>1, <1>11 DEF Lose, rds
<1> QED
  BY <1>1, <1>3, <1>4, <1>5, <1>6, <1>7, <1>8, <1>9, <1>10, <1>11
     DEF Next, RefreshOwner, RefreshEnd, rds, vars

-----------------------------------------------------------------------------
(* The routes in every step.                                               *)

LEMMA RoutingStep == TypeOK /\ Routing /\ [Next]_vars => Routing'
<1> SUFFICES ASSUME TypeOK, Routing, [Next]_vars PROVE Routing'
  OBVIOUS
<1> USE DEF directory, routes
<1>1. CASE UNCHANGED <<owner, dirAt, changed, refresh, route, at, pc>>
  BY <1>1 DEF Routing, Ahead
<1>2. CASE /\ pc # "routes" /\ pc' # "routes"
           /\ UNCHANGED <<owner, dirAt, changed, refresh, route, at>>
  BY <1>2 DEF Routing, Ahead
<1>3. CASE ExpireEnd
  <2>1. /\ at = <<0, 0>> /\ at' = at /\ pc' = IF refresh THEN "routes" ELSE "user"
        /\ UNCHANGED <<owner, dirAt, changed, route>> /\ pc # "routes" /\ ~refresh'
    BY <1>3 DEF ExpireEnd, Routing
  <2>2. CASE refresh
    <3>1. \A p \in Parts : at'[1] = p \/ at'[1] < p
      BY <2>1, RouteAssumption DEF Parts
    <3>2. \A f \in Endpoints : ~ (f < at'[2])
      BY <2>1, RouteAssumption DEF Endpoints
    <3>3. \A p \in Parts : Ahead(p)'
      BY <2>1, <2>2, <3>1, <3>2 DEF Ahead
    <3> QED
      BY <2>1, <2>2, <3>3 DEF Routing
  <2>3. CASE ~refresh
    BY <2>1, <2>3 DEF Routing, Ahead
  <2> QED
    BY <2>2, <2>3
<1>4. CASE UpdateRemoteEid
  <2> DEFINE p == at[1]
             e == at[2]
             over == Chosen(p, e) \/ e + 1 = NumEndpoints
             last == over /\ p + 1 = NumParts
  <2>1. /\ p \in Parts /\ e \in Endpoints /\ at = <<p, e>> /\ owner[p] \in Lcores
        /\ route \in [Parts -> Endpoints]
    BY DEF TypeOK
  <2>2. /\ pc = "routes" /\ UNCHANGED <<owner, dirAt, changed, refresh>>
        /\ route' = IF Chosen(p, e) THEN [route EXCEPT ![p] = e] ELSE route
        /\ at' = IF last THEN <<0, 0>> ELSE IF over THEN <<p + 1, 0>> ELSE <<p, e + 1>>
        /\ pc' = IF last THEN "user" ELSE pc
    BY <1>4 DEF UpdateRemoteEid
  <2>3. \A q \in Parts : q # p => route'[q] = route[q]
    BY <2>1, <2>2
  <2> HIDE DEF p, e
  <2>4. ASSUME ~refresh, ~changed, over PROVE LcoreOf[route'[p]] = owner[p]
    <3>1. CASE Chosen(p, e)
      BY <2>1, <2>2, <3>1 DEF Chosen
    <3>2. CASE ~Chosen(p, e) /\ LcoreOf[route[p]] # owner[p]
      <4>1. \A f \in Endpoints : f < e => LcoreOf[f] # owner[p]
        BY <2>1, <2>4, <3>2, RouteAssumption DEF Routing, Ahead, Parts
      <4>2. LcoreOf[e] # owner[p]
        BY <3>2 DEF Chosen
      <4>3. e + 1 = NumEndpoints
        BY <2>4, <3>2
      <4>4. \A f \in Endpoints : f < e \/ f = e
        BY <2>1, <4>3, RouteAssumption DEF Endpoints
      <4> QED
        BY <2>1, <4>1, <4>2, <4>4 DEF Lcores
    <3> QED
      BY <2>2, <3>1, <3>2
  <2>5. ASSUME ~refresh, ~changed, NEW q \in Parts
        PROVE  LcoreOf[route'[q]] = owner[q] \/ Ahead(q)'
    <3>1. CASE q = p /\ over
      BY <2>4, <2>5, <3>1
    <3>2. CASE q = p /\ ~over
      <4>1. route' = route /\ at'[1] = p /\ at'[2] = e + 1 /\ pc' = "routes"
        BY <2>2, <3>2
      <4>2. CASE LcoreOf[route[p]] = owner[p]
        BY <3>2, <4>1, <4>2
      <4>3. CASE LcoreOf[route[p]] # owner[p]
        <5>1. \A f \in Endpoints : f < e => LcoreOf[f] # owner[p]
          BY <2>1, <2>5, <4>3, RouteAssumption DEF Routing, Ahead, Parts
        <5>2. LcoreOf[e] # owner[p]
          BY <3>2, <4>3 DEF Chosen
        <5>3. \A f \in Endpoints : f < e + 1 => f < e \/ f = e
          BY <2>1, RouteAssumption DEF Endpoints
        <5> QED
          BY <2>2, <3>2, <4>1, <5>1, <5>2, <5>3 DEF Ahead
      <4> QED
        BY <4>2, <4>3
    <3>3. CASE q # p
      <4>1. route'[q] = route[q]
        BY <2>3, <3>3
      <4>2. LcoreOf[route[q]] = owner[q] \/ p < q
        BY <2>1, <2>5, <3>3 DEF Routing, Ahead
      <4>3. ASSUME p < q PROVE Ahead(q)'
        <5>1. ~last
          BY <2>1, <4>3, RouteAssumption DEF Parts
        <5>2. p + 1 = q \/ p + 1 < q
          BY <2>1, <4>3, RouteAssumption DEF Parts
        <5>3. \A f \in Endpoints : ~ (f < 0)
          BY RouteAssumption DEF Endpoints
        <5>4. pc' = "routes" /\ (at' = <<p + 1, 0>> \/ at' = <<p, e + 1>>)
          BY <2>2, <5>1
        <5> QED
          BY <4>3, <5>2, <5>3, <5>4 DEF Ahead
      <4> QED
        BY <4>1, <4>2, <4>3
    <3> QED
      BY <3>1, <3>2, <3>3
  <2>6. pc' # "routes" => at' = <<0, 0>>
    BY <2>2
  <2> QED
    BY <2>2, <2>5, <2>6 DEF Routing
<1>5. CASE RefreshOwner
  <2>1. PICK c \in Lcores : /\ owner' = [owner EXCEPT ![dirAt] = c]
                            /\ changed' = (changed \/ c # owner[dirAt])
    BY <1>5 DEF RefreshOwner
  <2>2. /\ dirAt \in Parts /\ dirAt' # 0 /\ UNCHANGED <<refresh, route, at, pc>>
    BY <1>5, RouteAssumption DEF RefreshOwner, TypeOK, Parts
  <2>3. ~changed' => owner' = owner /\ ~changed
    BY <2>1, <2>2 DEF TypeOK
  <2> QED
    BY <2>2, <2>3 DEF Routing, Ahead
<1>6. CASE RefreshEnd
  <2>1. /\ ~changed' /\ refresh' = (refresh \/ changed) /\ UNCHANGED <<owner, route, at, pc>>
    BY <1>6 DEF RefreshEnd
  <2> QED
    BY <2>1 DEF Routing, Ahead
<1>7. CASE UNCHANGED vars
  BY <1>1, <1>7 DEF vars
<1> QED
  BY <1>1, <1>2, <1>3, <1>4, <1>5, <1>6, <1>7 DEF Next, AppendRequest, HandleBegin, Receive,
     ReceiveEnd, Expire, Tick, Lose, Answer

-----------------------------------------------------------------------------
(* The theorems.                                                           *)

LEMMA InitInvariant == Init => IInv
<1> SUFFICES ASSUME Init PROVE IInv
  OBVIOUS
<1>1. TypeOK
  BY InitTypes
<1>2. UnusedLinks /\ ActiveLinks
  <2>1. /\ held = {} /\ unusedFirst = 0 /\ activeFirst = NullRD /\ activeLast = NullRD
        /\ \A r \in Rds : next[r] = r + 1
    BY DEF Init, InitRds
  <2>2. 0 \in Rds /\ \A r \in Rds : /\ r + 1 \in Rds \cup {NullRD} /\ r + 1 # 0
                                   /\ \A q \in Rds : r + 1 = q + 1 => r = q
    BY ClientAssumption DEF Rds, NullRD
  <2> QED
    BY <2>1, <2>2 DEF UnusedLinks, ActiveLinks
<1>3. Stamped /\ Waiting
  BY DEF Init, Stamped, Waiting
<1>4. Ordered
  <2> DEFINE pos == [r \in Rds |-> r]
  <2>1. /\ held = {} /\ count = 0 /\ unusedFirst = 0 /\ activeFirst = NullRD /\ Rds \ held = Rds
        /\ \A r \in Rds : next[r] = r + 1
    BY DEF Init, InitRds
  <2>2. pos \in [Rds -> Nat] /\ \A r \in Rds : pos[r] = r
    BY ClientAssumption DEF Rds
  <2> HIDE DEF pos
  <2>3. InOrder(held, next, activeFirst, count)
    BY <2>1, <2>2 DEF InOrder, Ranked
  <2>4. 0 \in Rds /\ NullRD \notin Rds
    BY NullIsNone, ClientAssumption DEF Rds
  <2>5. ASSUME NEW r \in Rds
        PROVE  /\ pos[r] < NumRds
               /\ IF next[r] = NullRD THEN pos[r] + 1 = NumRds ELSE next[r] \in Rds /\ pos[next[r]] = pos[r] + 1
               /\ pos[r] # 0 => \E d \in Rds : next[d] = r /\ pos[d] + 1 = pos[r]
    <3>1. r \in Nat /\ r < NumRds /\ (r + 1 = NumRds \/ r + 1 \in Rds) /\ (r = 0 \/ r - 1 \in Rds)
      BY ClientAssumption DEF Rds
    <3>2. NullRD = NumRds
      BY DEF NullRD
    <3>3. r # 0 => next[r - 1] = r /\ pos[r - 1] + 1 = pos[r]
      BY <2>1, <2>2, <3>1
    <3> QED
      BY <2>1, <2>2, <3>1, <3>2, <3>3
  <2>6. Ranked(Rds, next, unusedFirst, NumRds, pos)
    BY <2>1, <2>2, <2>4, <2>5 DEF Ranked
  <2>7. InOrder(Rds \ held, next, unusedFirst, NumRds - count)
    <3>1. NumRds - count = NumRds
      BY <2>1, ClientAssumption
    <3> QED
      BY <2>1, <2>2, <2>6, <3>1 DEF InOrder
  <2>8. count \in 0 .. NumRds /\ count = Cardinality(held)
    BY <2>1, ClientAssumption, FS_EmptySet
  <2> QED
    BY <2>1, <2>3, <2>7, <2>8 DEF Ordered
<1>5. Routing
  <2>1. \A p \in Parts : LcoreOf[route[p]] = owner[p]
    <3> SUFFICES ASSUME NEW p \in Parts PROVE LcoreOf[route[p]] = owner[p]
      OBVIOUS
    <3>1. owner[p] \in Lcores
      BY <1>1 DEF TypeOK
    <3>2. route[p] = CHOOSE e \in Endpoints :
             LcoreOf[e] = owner[p] /\ \A f \in Endpoints : LcoreOf[f] = owner[p] => e <= f
      BY DEF Init, InitRoutes
    <3> QED
      BY <3>1, <3>2, FirstRoute
  <2> QED
    BY <2>1 DEF Init, InitRoutes, Routing
<1> QED
  BY <1>1, <1>2, <1>3, <1>4, <1>5 DEF IInv, Lists

THEOREM Inductive == Spec => []IInv
<1>1. IInv /\ [Next]_vars => IInv'
  BY TypeStep, ListsStep, OrderedStep, StampedStep, WaitingStep, RoutingStep DEF IInv
<1> QED
  BY InitInvariant, <1>1, PTL DEF Spec

\* Every descriptor is in exactly one of the two lists, and the active one is in
\* the order of the time-outs, so that handle_response() may stop at the first
\* request that has not expired (datagram_client_impl.h:975-1036, :750-765).
THEOREM ListsAreWhole == Spec => []DescriptorsListed
<1>1. IInv => DescriptorsListed
  <2> SUFFICES ASSUME IInv PROVE DescriptorsListed
    OBVIOUS
  <2>1. TypeOK /\ Lists /\ Ordered
    BY DEF IInv
  <2>2. Active = held /\ Unused = Rds \ held
    <3>1. held \in SUBSET Rds /\ Rds \ held \in SUBSET Rds
      BY <2>1 DEF TypeOK
    <3>2. count \in 0 .. NumRds /\ NumRds - count \in 0 .. NumRds
      BY <2>1, ClientAssumption DEF Ordered
    <3>3. ListFrom(activeFirst) = held
      BY <2>1, <3>1, <3>2, ListIsAll DEF Ordered
    <3>4. ListFrom(unusedFirst) = Rds \ held
      BY <2>1, <3>1, <3>2, ListIsAll DEF Ordered
    <3> QED
      BY <3>3, <3>4 DEF Active, Unused
  <2>3. held # {} => activeLast \in held /\ next[activeLast] = NullRD /\ prev[activeFirst] = NullRD
    <3> SUFFICES ASSUME held # {} PROVE activeLast \in held /\ next[activeLast] = NullRD /\ prev[activeFirst] = NullRD
      OBVIOUS
    <3>1. activeFirst # NullRD
      BY <2>1 DEF Ordered, InOrder, Ranked
    <3> QED
      BY <2>1, <3>1 DEF Lists, ActiveLinks
  <2>4. \A rd \in held \ {activeLast} : prev[next[rd]] = rd /\ left[rd] <= left[next[rd]]
    BY <2>1 DEF Lists, ActiveLinks, Ordered
  <2> QED
    BY <2>1, <2>2, <2>3, <2>4 DEF DescriptorsListed, Ordered
<1> QED
  BY <1>1, Inductive, PTL

\* A response is accepted only for the request it answers
\* (datagram_client_impl.h:712-724, :1026-1028).
THEOREM ResponsesOwn == Spec => []OwnResponse
<1>1. IInv => OwnResponse
  BY MatchIsOwn DEF IInv, OwnResponse
<1> QED
  BY <1>1, Inductive, PTL

\* No request is reported as timed out and sent afterwards
\* (datagram_client_impl.h:664-665, :1218-1260).
THEOREM TimeoutAfterSend == Spec => []SentBeforeTimeout
<1>1. IInv => SentBeforeTimeout
  BY DEF IInv, SentBeforeTimeout, Waiting, Stamped
<1> QED
  BY <1>1, Inductive, PTL

\* No change of owner is missed by the client, though the directory thread
\* and the client share the owners and the flag without a lock
\* (datagram_client_impl.h:194-208, :400-436, :767-770).
THEOREM RoutesFollowOwners == Spec => []RoutesSettled
<1>1. IInv => RoutesSettled
  BY DEF IInv, RoutesSettled, Routing, Ahead
<1> QED
  BY <1>1, Inductive, PTL
=============================================================================
