----------------------------- MODULE QueueProofs -----------------------------
(***************************************************************************)
(* Theorems about Queue, for every capacity, any number of producers and   *)
(* consumers and both settings of either lock: the ends never work on one  *)
(* cell, and the ring implements Fifo.                                     *)
(***************************************************************************)
EXTENDS Queue, SequenceTheorems, TLAPS

-----------------------------------------------------------------------------
(* Remainders.                                                             *)

\* The defining equation of quotient and remainder: where a ring counter is.
LEMMA ModDef ==
  ASSUME NEW a \in Int, NEW M \in Nat \ {0}
  PROVE  /\ a % M \in 0 .. M - 1
         /\ a \div M \in Int
         /\ a = (M * (a \div M)) + (a % M)
BY SMT

\* A positive multiple of the ring size is at least one turn of the ring.
LEMMA OneTurn ==
  ASSUME NEW k \in Int, NEW M \in Nat \ {0}, k >= 1
  PROVE  M * k >= M
BY SMT

\* Two numbers whose difference is less than one turn and a whole number of
\* turns are equal.
LEMMA NoTurn ==
  ASSUME NEW k \in Int, NEW M \in Nat \ {0}, -M < M * k, M * k < M
  PROVE  k = 0
<1>1. CASE k >= 1
  BY <1>1, OneTurn
<1>2. CASE -k >= 1
  <2>1. M * (-k) >= M
    BY <1>2, OneTurn
  <2>2. M * (-k) = -(M * k)
    OBVIOUS
  <2> QED
    BY <2>1, <2>2
<1> QED
  BY <1>1, <1>2

\* d is a whole number of turns of a ring of M cells.
Turns(M, d) == \E k \in Int : d = M * k

\* Counters a whole number of turns apart are at the same address.
LEMMA ModEqual ==
  ASSUME NEW a \in Int, NEW b \in Int, NEW M \in Nat \ {0}, Turns(M, a - b)
  PROVE  a % M = b % M
<1>1. PICK k \in Int : a - b = M * k
  BY DEF Turns
<1> DEFINE p == a \div M
           q == b \div M
           r == a % M
           s == b % M
           n == k - (p - q)
<1>2. p \in Int /\ r \in 0 .. M - 1 /\ a = (M * p) + r
  BY ModDef
<1>3. q \in Int /\ s \in 0 .. M - 1 /\ b = (M * q) + s
  BY ModDef
<1> HIDE DEF p, q, r, s
<1>4. n \in Int /\ M * n = r - s
  BY <1>1, <1>2, <1>3
<1> HIDE DEF n
<1>5. n = 0
  BY <1>2, <1>3, <1>4, NoTurn
<1> QED
  BY <1>2, <1>3, <1>4, <1>5 DEF r, s

\* A counter that has not gone round once is its own address.
LEMMA ModSmall ==
  ASSUME NEW M \in Nat \ {0}, NEW a \in 0 .. M - 1
  PROVE  a % M = a
BY SMT

-----------------------------------------------------------------------------
(* The inductive invariant.                                                *)

AtTail == {"read tail", "full?", "store", "advance tail", "unlock tail"}
AtHead == {"read head", "empty?", "load", "advance head", "unlock head"}
Answered == {"unlock tail", "unlock head", "return"}

\* Where a thread can be.
Places ==
  /\ DOMAIN pc = Threads
  /\ \A t \in Producers : pc[t] \in {"idle", "lock tail", "return"} \cup AtTail
  /\ \A t \in Consumers : pc[t] \in {"idle", "lock head", "return"} \cup AtHead

\* A lock is held by the one thread inside the section it guards.
Locked ==
  /\ MultipleProducer => \A t \in Producers : pc[t] \in AtTail <=> tailLock = t
  /\ MultipleConsumer => \A t \in Consumers : pc[t] \in AtHead <=> headLock = t

\* What the producer inside knows at each step.
Storing ==
  \A t \in Producers :
    /\ pc[t] \in {"full?", "store", "advance tail"} => seen[t] = tail
    /\ pc[t] \in {"store", "advance tail"} => Succ(tail) # head
    /\ pc[t] = "advance tail" => items[tail] = asked[t]

\* What the consumer inside knows at each step.
Loading ==
  \A t \in Consumers :
    /\ pc[t] \in {"empty?", "load", "advance head"} => seen[t] = head
    /\ pc[t] \in {"load", "advance head"} => head # tail
    /\ pc[t] = "advance head" => out[t] = items[head]

\* The call and its answer.
Calls ==
  /\ \A t \in Producers : asked[t] \in IF pc[t] = "idle" THEN {Nothing} ELSE Values
  /\ \A t \in Consumers : asked[t] = IF pc[t] = "idle" THEN Nothing ELSE "dequeue"
  /\ \A t \in Threads : answer[t] # Nothing <=> pc[t] \in Answered

IInv == TypeOK /\ Places /\ Locked /\ Storing /\ Loading /\ Calls

-----------------------------------------------------------------------------
(* One thread at an end.                                                   *)

LEMMA OneProducer ==
  ASSUME TypeOK, Locked, NEW s \in Producers, NEW t \in Producers,
         pc[s] \in AtTail, pc[t] \in AtTail
  PROVE  s = t
BY QueueAssumption DEF TypeOK, Locked

LEMMA OneConsumer ==
  ASSUME TypeOK, Locked, NEW s \in Consumers, NEW t \in Consumers,
         pc[s] \in AtHead, pc[t] \in AtHead
  PROVE  s = t
BY QueueAssumption DEF TypeOK, Locked

-----------------------------------------------------------------------------
(* The invariant is kept.                                                  *)

LEMMA SuccCell == \A i \in Cells : Succ(i) \in Cells
BY QueueAssumption DEF Succ, Cells

\* Going round the ring keeps cells apart.
LEMMA SuccApart ==
  ASSUME NEW i \in Cells, NEW j \in Cells, i # j
  PROVE  Succ(i) # Succ(j)
BY QueueAssumption DEF Succ, Cells

LEMMA TypeStep == ASSUME IInv, [Next]_vars PROVE TypeOK'
<1> USE DEF TypeOK, ring, locks, Goto, Say, Threads
<1>1. ASSUME NEW t \in Threads, NEW v \in Values, Enqueue(t, v) PROVE TypeOK'
  BY <1>1 DEF IInv, Enqueue
<1>2. ASSUME NEW t \in Threads, Dequeue(t) PROVE TypeOK'
  BY <1>2 DEF IInv, Dequeue
<1>3. ASSUME NEW t \in Threads, Producing(t) PROVE TypeOK'
  <2>0. t \in Producers
    BY <1>3, QueueAssumption DEF IInv, Places, AtHead, Producing, At,
       LockTail, ReadTail, TestFull, StoreItem, AdvanceTail, UnlockTail
  <2>1. CASE LockTail(t)
    BY <2>0, <2>1 DEF IInv, LockTail
  <2>2. CASE ReadTail(t)
    BY <2>2 DEF IInv, ReadTail
  <2>3. CASE TestFull(t)
    BY <2>3 DEF IInv, TestFull
  <2>4. CASE StoreItem(t)
    <3>1. asked[t] \in Values
      BY <2>0, <2>4 DEF IInv, Calls, StoreItem, At
    <3> QED
      BY <2>4, <3>1 DEF IInv, StoreItem
  <2>5. CASE AdvanceTail(t)
    BY <2>5, SuccCell DEF IInv, AdvanceTail
  <2>6. CASE UnlockTail(t)
    BY <2>6 DEF IInv, UnlockTail
  <2> QED
    BY <1>3, <2>1, <2>2, <2>3, <2>4, <2>5, <2>6 DEF Producing
<1>4. ASSUME NEW t \in Threads, Consuming(t) PROVE TypeOK'
  <2>0. t \in Consumers
    BY <1>4, QueueAssumption DEF IInv, Places, AtTail, Consuming, At,
       LockHead, ReadHead, TestEmpty, LoadItem, AdvanceHead, UnlockHead
  <2>1. CASE LockHead(t)
    BY <2>0, <2>1 DEF IInv, LockHead
  <2>2. CASE ReadHead(t)
    BY <2>2 DEF IInv, ReadHead
  <2>3. CASE TestEmpty(t)
    BY <2>3 DEF IInv, TestEmpty
  <2>4. CASE LoadItem(t)
    BY <2>4 DEF IInv, LoadItem
  <2>5. CASE AdvanceHead(t)
    BY <2>5, SuccCell DEF IInv, AdvanceHead
  <2>6. CASE UnlockHead(t)
    BY <2>6 DEF IInv, UnlockHead
  <2> QED
    BY <1>4, <2>1, <2>2, <2>3, <2>4, <2>5, <2>6 DEF Consuming
<1>5. ASSUME NEW t \in Threads, Return(t) PROVE TypeOK'
  <2>1. 0 \in Cells
    BY QueueAssumption DEF Cells
  <2> QED
    BY <1>5, <2>1 DEF IInv, Return
<1>6. CASE UNCHANGED vars
  BY <1>6 DEF IInv, vars
<1> QED
  BY <1>1, <1>2, <1>3, <1>4, <1>5, <1>6 DEF Next

\* Each step of a thread, as the later lemmas need it: who can take it.
LEMMA StepKinds ==
  ASSUME IInv, [Next]_vars
  PROVE  \/ \E t \in Producers, v \in Values : Enqueue(t, v)
         \/ \E t \in Consumers : Dequeue(t)
         \/ \E t \in Producers : Producing(t)
         \/ \E t \in Consumers : Consuming(t)
         \/ \E t \in Threads : Return(t)
         \/ UNCHANGED vars
<1>1. ASSUME NEW t \in Threads, Producing(t) PROVE t \in Producers
  BY <1>1, QueueAssumption DEF IInv, Places, AtHead, Threads, Producing, At,
     LockTail, ReadTail, TestFull, StoreItem, AdvanceTail, UnlockTail
<1>2. ASSUME NEW t \in Threads, Consuming(t) PROVE t \in Consumers
  BY <1>2, QueueAssumption DEF IInv, Places, AtTail, Threads, Consuming, At,
     LockHead, ReadHead, TestEmpty, LoadItem, AdvanceHead, UnlockHead
<1> QED
  BY <1>1, <1>2 DEF Next, Enqueue, Dequeue

LEMMA PlacesStep == ASSUME IInv, [Next]_vars PROVE Places'
<1> USE QueueAssumption DEF IInv, Places, At, Goto, Threads, AtTail, AtHead
<1>1. ASSUME NEW t \in Producers, NEW v \in Values, Enqueue(t, v) PROVE Places'
  BY <1>1 DEF Enqueue
<1>2. ASSUME NEW t \in Consumers, Dequeue(t) PROVE Places'
  BY <1>2 DEF Dequeue
<1>3. ASSUME NEW t \in Producers, Producing(t) PROVE Places'
  BY <1>3 DEF Producing, LockTail, ReadTail, TestFull, StoreItem, AdvanceTail, UnlockTail
<1>4. ASSUME NEW t \in Consumers, Consuming(t) PROVE Places'
  BY <1>4 DEF Consuming, LockHead, ReadHead, TestEmpty, LoadItem, AdvanceHead, UnlockHead
<1>5. ASSUME NEW t \in Threads, Return(t) PROVE Places'
  BY <1>5 DEF Return
<1>6. CASE UNCHANGED vars
  BY <1>6 DEF vars
<1> QED
  BY StepKinds, <1>1, <1>2, <1>3, <1>4, <1>5, <1>6

LEMMA LockedStep == ASSUME IInv, [Next]_vars PROVE Locked'
<1> USE QueueAssumption DEF IInv, Places, Locked, At, Goto, locks, Threads, AtTail, AtHead
<1>1. ASSUME NEW t \in Producers, NEW v \in Values, Enqueue(t, v) PROVE Locked'
  BY <1>1 DEF Enqueue
<1>2. ASSUME NEW t \in Consumers, Dequeue(t) PROVE Locked'
  BY <1>2 DEF Dequeue
<1>3. ASSUME NEW t \in Producers, Producing(t) PROVE Locked'
  <2>1. CASE LockTail(t)
    BY <1>3, <2>1 DEF LockTail
  <2>2. CASE ReadTail(t)
    BY <1>3, <2>2 DEF ReadTail
  <2>3. CASE TestFull(t)
    BY ZenonT(40), <1>3, <2>3 DEF TestFull
  <2>4. CASE StoreItem(t)
    BY <1>3, <2>4 DEF StoreItem
  <2>5. CASE AdvanceTail(t)
    BY <1>3, <2>5 DEF AdvanceTail
  <2>6. CASE UnlockTail(t)
    BY <1>3, <2>6 DEF UnlockTail
  <2> QED
    BY <1>3, <2>1, <2>2, <2>3, <2>4, <2>5, <2>6 DEF Producing
<1>4. ASSUME NEW t \in Consumers, Consuming(t) PROVE Locked'
  <2>1. CASE LockHead(t)
    BY <1>4, <2>1 DEF LockHead
  <2>2. CASE ReadHead(t)
    BY <1>4, <2>2 DEF ReadHead
  <2>3. CASE TestEmpty(t)
    BY <1>4, <2>3 DEF TestEmpty
  <2>4. CASE LoadItem(t)
    BY <1>4, <2>4 DEF LoadItem
  <2>5. CASE AdvanceHead(t)
    BY <1>4, <2>5 DEF AdvanceHead
  <2>6. CASE UnlockHead(t)
    BY <1>4, <2>6 DEF UnlockHead
  <2> QED
    BY <1>4, <2>1, <2>2, <2>3, <2>4, <2>5, <2>6 DEF Consuming
<1>5. ASSUME NEW t \in Threads, Return(t) PROVE Locked'
  BY <1>5 DEF Return
<1>6. CASE UNCHANGED vars
  BY <1>6 DEF vars
<1> QED
  BY StepKinds, <1>1, <1>2, <1>3, <1>4, <1>5, <1>6

\* Updates of a thread's entry keep the others.
LEMMA Entries ==
  ASSUME TypeOK
  PROVE  /\ DOMAIN asked = Threads /\ DOMAIN answer = Threads
         /\ DOMAIN seen = Threads /\ DOMAIN out = Threads /\ DOMAIN items = Cells
         /\ head \in Cells /\ tail \in Cells
BY DEF TypeOK

LEMMA CallsStep == ASSUME IInv, [Next]_vars PROVE Calls'
<1> USE QueueAssumption DEF IInv, Places, Calls, At, Goto, Say, Threads, AtTail, AtHead, Answered
<1>0. DOMAIN asked = Threads /\ DOMAIN answer = Threads
  BY Entries
<1>1. ASSUME NEW t \in Producers, NEW v \in Values, Enqueue(t, v) PROVE Calls'
  BY <1>0, <1>1 DEF Enqueue
<1>2. ASSUME NEW t \in Consumers, Dequeue(t) PROVE Calls'
  BY <1>0, <1>2 DEF Dequeue
<1>3. ASSUME NEW t \in Producers, Producing(t) PROVE Calls'
  <2>1. CASE LockTail(t)
    BY <1>0, <1>3, <2>1 DEF LockTail
  <2>2. CASE ReadTail(t)
    BY <1>0, <1>3, <2>2 DEF ReadTail
  <2>3. CASE TestFull(t)
    BY ZenonT(40), <1>0, <1>3, <2>3 DEF TestFull
  <2>4. CASE StoreItem(t)
    BY <1>0, <1>3, <2>4 DEF StoreItem
  <2>5. CASE AdvanceTail(t)
    BY <1>0, <1>3, <2>5 DEF AdvanceTail
  <2>6. CASE UnlockTail(t)
    BY <1>0, <1>3, <2>6 DEF UnlockTail
  <2> QED
    BY <1>0, <1>3, <2>1, <2>2, <2>3, <2>4, <2>5, <2>6 DEF Producing
<1>4. ASSUME NEW t \in Consumers, Consuming(t) PROVE Calls'
  <2>1. CASE LockHead(t)
    BY <1>0, <1>4, <2>1 DEF LockHead
  <2>2. CASE ReadHead(t)
    BY <1>0, <1>4, <2>2 DEF ReadHead
  <2>3. CASE TestEmpty(t)
    <3>1. /\ asked' = asked
          /\ \/ /\ pc' = [pc EXCEPT ![t] = "unlock head"]
                /\ answer' = [answer EXCEPT ![t] = "no"]
             \/ pc' = [pc EXCEPT ![t] = "load"] /\ answer' = answer
      BY <2>3 DEF TestEmpty
    <3>2. pc[t] = "empty?"
      BY <2>3 DEF TestEmpty
    <3> QED
      BY ZenonT(40), <1>0, <1>4, <3>1, <3>2
  <2>4. CASE LoadItem(t)
    BY <1>0, <1>4, <2>4 DEF LoadItem
  <2>5. CASE AdvanceHead(t)
    <3>1. out[t] \in Values
      <4>1. out[t] = items[head]
        BY <2>5 DEF AdvanceHead, Loading
      <4>2. items \in [Cells -> Values] /\ head \in Cells
        BY DEF TypeOK
      <4> QED
        BY <4>1, <4>2
    <3> QED
      BY <1>0, <1>4, <2>5, <3>1 DEF AdvanceHead
  <2>6. CASE UnlockHead(t)
    BY <1>0, <1>4, <2>6 DEF UnlockHead
  <2> QED
    BY <1>0, <1>4, <2>1, <2>2, <2>3, <2>4, <2>5, <2>6 DEF Consuming
<1>5. ASSUME NEW t \in Threads, Return(t) PROVE Calls'
  BY <1>0, <1>5 DEF Return
<1>6. CASE UNCHANGED vars
  BY <1>0, <1>6 DEF vars
<1> QED
  BY StepKinds, <1>1, <1>2, <1>3, <1>4, <1>5, <1>6

\* Producers write the items, only the one inside the section moves tail_, and
\* its cell is not the one at head_.
LEMMA StoringStep == ASSUME IInv, [Next]_vars PROVE Storing'
<1> USE QueueAssumption DEF Storing, Places, At, Goto, ring, locks, Threads, AtTail, AtHead
<1>0. /\ Places /\ Storing /\ Loading
      /\ DOMAIN asked = Threads /\ DOMAIN seen = Threads /\ DOMAIN out = Threads
      /\ DOMAIN items = Cells /\ head \in Cells /\ tail \in Cells
  BY Entries DEF IInv
<1>1. ASSUME NEW t \in Producers, NEW v \in Values, Enqueue(t, v) PROVE Storing'
  BY <1>0, <1>1 DEF Enqueue
<1>2. ASSUME NEW t \in Consumers, Dequeue(t) PROVE Storing'
  BY <1>0, <1>2 DEF Dequeue
<1>3. ASSUME NEW t \in Producers, Producing(t) PROVE Storing'
  <2>1. \A s \in Producers : pc[t] \in AtTail /\ pc[s] \in AtTail => s = t
    BY OneProducer DEF IInv
  <2>2. CASE LockTail(t)
    BY <1>0, <2>2 DEF LockTail
  <2>3. CASE ReadTail(t)
    BY <1>0, <2>1, <2>3 DEF ReadTail
  <2>4. CASE TestFull(t)
    BY ZenonT(40), <1>0, <2>1, <2>4 DEF TestFull, IsFull
  <2>5. CASE StoreItem(t)
    BY <1>0, <2>1, <2>5 DEF StoreItem
  <2>6. CASE AdvanceTail(t)
    BY <1>0, <2>1, <2>6 DEF AdvanceTail
  <2>7. CASE UnlockTail(t)
    BY <1>0, <2>7 DEF UnlockTail
  <2> QED
    BY <1>3, <2>2, <2>3, <2>4, <2>5, <2>6, <2>7 DEF Producing
<1>4. ASSUME NEW t \in Consumers, Consuming(t) PROVE Storing'
  <2>1. CASE AdvanceHead(t)
    \* head_ moves to a cell that is queued or is the tail: never past it.
    <3>1. seen[t] = head /\ head # tail /\ head' = Succ(head)
      BY <1>0, <2>1 DEF AdvanceHead, Loading
    <3>2. Succ(tail) # Succ(head)
      BY <1>0, <3>1, SuccApart
    <3> QED
      BY <1>0, <1>4, <2>1, <3>1, <3>2 DEF AdvanceHead
  <2> QED
    BY ZenonT(40), <1>0, <1>4, <2>1 DEF Consuming, LockHead, ReadHead, TestEmpty, LoadItem, UnlockHead
<1>5. ASSUME NEW t \in Threads, Return(t) PROVE Storing'
  BY <1>0, <1>5 DEF Return
<1>6. CASE UNCHANGED vars
  BY <1>0, <1>6 DEF vars
<1> QED
  BY StepKinds, <1>1, <1>2, <1>3, <1>4, <1>5, <1>6

\* The consumer inside works on the cell at head_; a store never meets it.
LEMMA LoadingStep == ASSUME IInv, [Next]_vars PROVE Loading'
<1> USE QueueAssumption DEF Loading, Places, At, Goto, ring, locks, Threads, AtTail, AtHead
<1>0. /\ Places /\ Storing /\ Loading
      /\ DOMAIN asked = Threads /\ DOMAIN seen = Threads /\ DOMAIN out = Threads
      /\ DOMAIN items = Cells /\ head \in Cells /\ tail \in Cells
  BY Entries DEF IInv
<1>1. ASSUME NEW t \in Producers, NEW v \in Values, Enqueue(t, v) PROVE Loading'
  BY <1>0, <1>1 DEF Enqueue
<1>2. ASSUME NEW t \in Consumers, Dequeue(t) PROVE Loading'
  BY <1>0, <1>2 DEF Dequeue
<1>3. ASSUME NEW t \in Producers, Producing(t) PROVE Loading'
  <2>1. CASE StoreItem(t)
    <3>1. seen[t] = tail
      BY <1>0, <1>3, <2>1 DEF StoreItem, Storing
    <3> QED
      BY <1>0, <1>3, <2>1, <3>1 DEF StoreItem
  <2>2. CASE AdvanceTail(t)
    <3>1. tail' = Succ(tail) /\ Succ(tail) # head
      BY <1>0, <1>3, <2>2 DEF AdvanceTail, Storing
    <3> QED
      BY <1>0, <1>3, <2>2, <3>1 DEF AdvanceTail
  <2>3. CASE TestFull(t)
    BY ZenonT(40), <1>0, <1>3, <2>3 DEF TestFull
  <2> QED
    BY ZenonT(40), <1>0, <1>3, <2>1, <2>2, <2>3 DEF Producing, LockTail, ReadTail, UnlockTail
<1>4. ASSUME NEW t \in Consumers, Consuming(t) PROVE Loading'
  <2>1. \A s \in Consumers : pc[t] \in AtHead /\ pc[s] \in AtHead => s = t
    BY OneConsumer DEF IInv
  <2>2. CASE LockHead(t)
    BY <1>0, <2>2 DEF LockHead
  <2>3. CASE ReadHead(t)
    BY <1>0, <2>1, <2>3 DEF ReadHead
  <2>4. CASE TestEmpty(t)
    <3>1. /\ pc[t] = "empty?" /\ UNCHANGED <<items, head, tail, seen, out>>
          /\ pc' = [pc EXCEPT ![t] = IF seen[t] = tail THEN "unlock head" ELSE "load"]
      BY <2>4 DEF TestEmpty
    <3>2. \A s \in Consumers : s # t => pc'[s] = pc[s]
      BY <1>0, <3>1
    <3>3. pc'[t] = IF seen[t] = tail THEN "unlock head" ELSE "load"
      BY <1>0, <3>1
    <3>4. seen[t] = head
      BY <1>0, <3>1
    <3> QED
      BY ONLY <1>0, <3>1, <3>2, <3>3, <3>4 DEF Loading
  <2>5. CASE LoadItem(t)
    BY <1>0, <2>1, <2>5 DEF LoadItem
  <2>6. CASE AdvanceHead(t)
    BY <1>0, <2>1, <2>6 DEF AdvanceHead
  <2>7. CASE UnlockHead(t)
    BY <1>0, <2>7 DEF UnlockHead
  <2> QED
    BY <1>4, <2>2, <2>3, <2>4, <2>5, <2>6, <2>7 DEF Consuming
<1>5. ASSUME NEW t \in Threads, Return(t) PROVE Loading'
  BY <1>0, <1>5 DEF Return
<1>6. CASE UNCHANGED vars
  BY <1>0, <1>6 DEF vars
<1> QED
  BY StepKinds, <1>1, <1>2, <1>3, <1>4, <1>5, <1>6

\* Whatever the threads interleave, the invariant holds.
THEOREM Inductive == Spec => []IInv
<1>1. Init => IInv
  <2> USE QueueAssumption DEF Init, Threads
  <2>1. Init => TypeOK /\ Places /\ Locked
    BY DEF TypeOK, Places, Locked, AtTail, AtHead, Cells
  <2>2. Init => Storing /\ Loading /\ Calls
    BY DEF Storing, Loading, Calls, Answered
  <2> QED
    BY <2>1, <2>2 DEF IInv
<1>2. IInv /\ [Next]_vars => IInv'
  BY TypeStep, PlacesStep, LockedStep, StoringStep, LoadingStep, CallsStep DEF IInv
<1> QED
  BY <1>1, <1>2, PTL DEF Spec

\* A cell is never the producer's and the consumer's at once, and what a
\* consumer copies out is queued (queue.h:40-50, :66-80).
THEOREM CellsApart == Spec => []CellsOwned
<1>1. IInv => CellsOwned
  BY DEF IInv, CellsOwned, LoadsQueuedItem, StoresFreeCell, Loading, Storing
<1> QED
  BY <1>1, Inductive, PTL

-----------------------------------------------------------------------------
(* The queue in the ring.  Span and Wrap are the remainders of Contents    *)
(* without the division.                                                   *)

Window(h, t, cells) == [i \in 1 .. (t - h) % Capacity |-> cells[(h + i - 1) % Capacity]]

Span(h, t) == IF h <= t THEN t - h ELSE (t - h) + Capacity
Wrap(k) == IF k < Capacity THEN k ELSE k - Capacity

LEMMA Remainders ==
  ASSUME NEW h \in Cells, NEW t \in Cells
  PROVE  /\ (t - h) % Capacity = Span(h, t) /\ Span(h, t) \in 0 .. Capacity - 1
         /\ \A i \in 1 .. Capacity : /\ (h + i - 1) % Capacity = Wrap(h + i - 1)
                                     /\ Wrap(h + i - 1) \in Cells
<1> DEFINE M == Capacity
<1>1. M \in Nat \ {0} /\ h \in 0 .. M - 1 /\ t \in 0 .. M - 1
  BY QueueAssumption DEF Cells
<1> HIDE DEF M
<1>2. ASSUME NEW k \in Int, -M <= k, k < 2 * M
      PROVE  k % M = IF k < 0 THEN k + M ELSE IF k < M THEN k ELSE k - M
  <2> DEFINE r == IF k < 0 THEN k + M ELSE IF k < M THEN k ELSE k - M
  <2>1. r \in 0 .. M - 1 /\ r \in Int
    BY <1>1, <1>2
  <2>2. k - r = M * 0 \/ k - r = M * 1 \/ k - r = M * (-1)
    BY <1>1, <1>2
  <2>3. Turns(M, k - r)
    BY <2>2 DEF Turns
  <2> HIDE DEF r
  <2>4. k % M = r % M
    BY <1>1, <2>1, <2>3, ModEqual
  <2> QED
    BY <1>1, <2>1, <2>4, ModSmall DEF r
<1>3. (t - h) % M = Span(h, t) /\ Span(h, t) \in 0 .. M - 1
  BY <1>1, <1>2 DEF Span, M
<1>4. \A i \in 1 .. M : (h + i - 1) % M = Wrap(h + i - 1) /\ Wrap(h + i - 1) \in 0 .. M - 1
  BY <1>1, <1>2 DEF Wrap, M
<1> QED
  BY <1>3, <1>4 DEF M, Cells

LEMMA WindowFacts ==
  ASSUME NEW h \in Cells, NEW t \in Cells, NEW c \in [Cells -> Values]
  PROVE  /\ Window(h, t, c) \in Seq(Values)
         /\ Len(Window(h, t, c)) = Span(h, t)
         /\ \A i \in 1 .. Span(h, t) : Window(h, t, c)[i] = c[Wrap(h + i - 1)]
<1> DEFINE n == Span(h, t)
<1>1. n \in Nat /\ n <= Capacity /\ Capacity \in Nat
  <2>1. n \in 0 .. Capacity - 1
    BY Remainders
  <2> HIDE DEF n
  <2> QED
    BY <2>1, QueueAssumption
<1>2. \A i \in 1 .. n : (h + i - 1) % Capacity = Wrap(h + i - 1) /\ Wrap(h + i - 1) \in Cells
  BY <1>1, Remainders
<1>3. Window(h, t, c) = [i \in 1 .. n |-> c[(h + i - 1) % Capacity]]
  BY Remainders DEF Window
<1> HIDE DEF n
<1>4. Window(h, t, c) \in [1 .. n -> Values]
  BY <1>2, <1>3
<1>5. Window(h, t, c) \in Seq(Values)
  BY <1>1, <1>4, SeqDef
<1> QED
  BY <1>1, <1>2, <1>3, <1>4, <1>5 DEF n

\* The room of the queue: one cell is always left free.
LEMMA WindowLength ==
  ASSUME NEW h \in Cells, NEW t \in Cells
  PROVE  /\ Span(h, t) = 0 <=> h = t
         /\ Span(h, t) = Capacity - 1 <=> Succ(t) = h
         /\ Span(h, t) <= Capacity - 1
BY QueueAssumption DEF Span, Succ, Cells

\* A store outside the queue does not change it.
LEMMA WindowStore ==
  ASSUME NEW h \in Cells, NEW t \in Cells, NEW c \in [Cells -> Values], NEW v \in Values
  PROVE  Window(h, t, [c EXCEPT ![t] = v]) = Window(h, t, c)
<1> DEFINE d == [c EXCEPT ![t] = v]
<1>1. d \in [Cells -> Values] /\ \A k \in Cells : k # t => d[k] = c[k]
  OBVIOUS
<1> HIDE DEF d
<1>2. \A i \in 1 .. Span(h, t) : Wrap(h + i - 1) \in Cells /\ Wrap(h + i - 1) # t
  BY QueueAssumption DEF Span, Wrap, Cells
<1>3. \A i \in 1 .. Span(h, t) : Window(h, t, d)[i] = Window(h, t, c)[i]
  BY <1>1, <1>2, WindowFacts
<1>4. /\ Window(h, t, d) \in Seq(Values) /\ Window(h, t, c) \in Seq(Values)
      /\ Len(Window(h, t, d)) = Span(h, t) /\ Len(Window(h, t, c)) = Span(h, t)
  BY <1>1, WindowFacts
<1> QED
  BY <1>3, <1>4, SeqEqual DEF d

\* Moving tail_ over a stored item puts it at the end.
LEMMA WindowPut ==
  ASSUME NEW h \in Cells, NEW t \in Cells, NEW c \in [Cells -> Values], Succ(t) # h
  PROVE  Window(h, Succ(t), c) = Append(Window(h, t, c), c[t])
<1> DEFINE w == Window(h, t, c)
           x == Window(h, Succ(t), c)
           n == Span(h, t)
<1>1. Succ(t) \in Cells /\ Span(h, Succ(t)) = n + 1 /\ n \in Nat
  BY QueueAssumption DEF Span, Succ, Cells
<1>2. Wrap(h + n) = t
  BY QueueAssumption DEF Span, Wrap, Cells
<1>3. w \in Seq(Values) /\ Len(w) = n /\ \A i \in 1 .. n : w[i] = c[Wrap(h + i - 1)]
  BY WindowFacts
<1>4. x \in Seq(Values) /\ Len(x) = n + 1 /\ \A i \in 1 .. n + 1 : x[i] = c[Wrap(h + i - 1)]
  BY SMTT(30), <1>1, WindowFacts
<1>5. h \in Int /\ (h + (n + 1)) - 1 = h + n
  BY <1>1 DEF Cells
<1>6. c[t] \in Values
  OBVIOUS
<1> HIDE DEF w, x, n
<1>7. x[n + 1] = c[t]
  BY <1>1, <1>2, <1>4, <1>5
<1>8. \A i \in 1 .. n : x[i] = w[i]
  BY <1>1, <1>3, <1>4
<1>9. /\ Append(w, c[t]) \in Seq(Values) /\ Len(Append(w, c[t])) = n + 1
      /\ Append(w, c[t])[n + 1] = c[t] /\ \A i \in 1 .. n : Append(w, c[t])[i] = w[i]
  BY <1>1, <1>3, <1>6
<1>10. \A i \in 1 .. n + 1 : i \in 1 .. n \/ i = n + 1
  BY <1>1
<1>11. \A i \in 1 .. Len(x) : x[i] = Append(w, c[t])[i]
  BY <1>4, <1>7, <1>8, <1>9, <1>10
<1>12. x = Append(w, c[t])
  BY <1>4, <1>9, <1>11, SeqEqual
<1> QED
  BY <1>12 DEF w, x

\* Moving head_ takes the first item away.
LEMMA WindowTake ==
  ASSUME NEW h \in Cells, NEW t \in Cells, NEW c \in [Cells -> Values], h # t
  PROVE  /\ Window(h, t, c) # <<>>
         /\ Head(Window(h, t, c)) = c[h]
         /\ Window(Succ(h), t, c) = Tail(Window(h, t, c))
<1> DEFINE w == Window(h, t, c)
           x == Window(Succ(h), t, c)
           n == Span(h, t)
<1>1. Succ(h) \in Cells /\ Span(Succ(h), t) = n - 1 /\ n \in Nat /\ n >= 1
  BY QueueAssumption DEF Span, Succ, Cells
<1>2. Wrap(h) = h /\ h \in Int
  BY QueueAssumption DEF Wrap, Cells
<1>3. \A i \in 1 .. n - 1 : Wrap(Succ(h) + i - 1) = Wrap(h + (i + 1) - 1)
  BY QueueAssumption DEF Span, Succ, Wrap, Cells
<1>4. w \in Seq(Values) /\ Len(w) = n /\ \A i \in 1 .. n : w[i] = c[Wrap(h + i - 1)]
  BY WindowFacts
<1>5. x \in Seq(Values) /\ Len(x) = n - 1
      /\ \A i \in 1 .. n - 1 : x[i] = c[Wrap(Succ(h) + i - 1)]
  BY SMTT(30), <1>1, WindowFacts
<1> HIDE DEF w, x, n
<1>6. w # <<>>
  BY <1>1, <1>4
<1>7. Head(w) = c[h]
  <2>1. 1 \in 1 .. n
    BY <1>1
  <2>2. w[1] = c[h]
    <3>1. w[1] = c[Wrap(h + 1 - 1)]
      BY <1>4, <2>1
    <3>2. h + 1 - 1 = h
      BY <1>2
    <3> QED
      BY <1>2, <3>1, <3>2
  <2>3. Head(w) = w[1]
    <3>1. SubSeq(w, 1, n) = w
      BY <1>4, SubSeqFull
    <3>2. n \in 1 .. n
      BY <1>1
    <3> QED
      BY <1>4, <2>1, <3>1, <3>2, HeadTailOfSubSeq
  <2> QED
    BY <2>2, <2>3
<1>8. /\ Tail(w) \in Seq(Values) /\ Len(Tail(w)) = n - 1
      /\ \A i \in 1 .. n - 1 : Tail(w)[i] = w[i + 1]
  BY <1>4, <1>6, HeadTailProperties
<1>9. \A i \in 1 .. n - 1 : i + 1 \in 1 .. n
  BY <1>1
<1>10. \A i \in 1 .. Len(x) : x[i] = Tail(w)[i]
  BY <1>3, <1>4, <1>5, <1>8, <1>9
<1>11. x = Tail(w)
  BY <1>5, <1>8, <1>10, SeqEqual
<1> QED
  BY <1>6, <1>7, <1>11 DEF w, x

-----------------------------------------------------------------------------
(* The ring implements Fifo: every step is a step of the queue or changes  *)
(* nothing that the queue's users see.                                     *)

LEMMA Mapping ==
  /\ Contents = Window(head, tail, items)
  /\ Contents' = Window(head', tail', items')
BY DEF Contents, Window

\* Steps that leave the queue, the calls and the answers alone.
LEMMA Stutter ==
  ASSUME UNCHANGED <<head, tail, items, asked, answer>>
  PROVE  UNCHANGED Atomic!fifo
BY Mapping DEF Atomic!fifo

\* enqueue() takes effect when it stores tail_, or when it finds the ring full.
LEMMA ProducerSteps ==
  ASSUME IInv, NEW t \in Producers, Producing(t)
  PROVE  Atomic!Put(t) \/ Atomic!Refuse(t) \/ UNCHANGED Atomic!fifo
<1> USE DEF At, Goto, Say, ring, locks
<1>0. /\ head \in Cells /\ tail \in Cells /\ items \in [Cells -> Values]
      /\ Capacity \in Nat /\ Places
  BY QueueAssumption DEF IInv, TypeOK
<1>1. pc[t] \in {"full?", "advance tail"} => asked[t] \in Values /\ asked[t] # Nothing /\ answer[t] = Nothing
  BY QueueAssumption DEF IInv, Calls, Answered, Threads
<1>2. CASE TestFull(t)
  <2>1. CASE Succ(tail) = head
    <3>1. pc[t] = "full?" /\ seen[t] = tail
      BY <1>2 DEF TestFull, IInv, Storing
    <3>2. answer' = [answer EXCEPT ![t] = "no"] /\ UNCHANGED <<head, tail, items, asked>>
      BY <1>2, <2>1, <3>1 DEF TestFull, IsFull
    <3>3. Len(Contents) = Capacity - 1
      BY <1>0, <2>1, Mapping, WindowFacts, WindowLength
    <3>4. Contents' = Contents
      BY <3>2, Mapping
    <3> QED
      BY <1>1, <3>1, <3>2, <3>3, <3>4 DEF Atomic!Refuse, Atomic!Answer, Atomic!Waiting
  <2>2. CASE Succ(tail) # head
    <3>1. seen[t] = tail
      BY <1>2 DEF TestFull, IInv, Storing
    <3> QED
      BY <1>2, <2>2, <3>1, Stutter DEF TestFull, IsFull
  <2> QED
    BY <2>1, <2>2
<1>3. CASE StoreItem(t)
  <2>1. seen[t] = tail /\ asked[t] \in Values
    BY <1>3, QueueAssumption DEF StoreItem, IInv, Storing, Calls
  <2>2. items' = [items EXCEPT ![tail] = asked[t]] /\ UNCHANGED <<head, tail, asked, answer>>
    BY <1>3, <2>1 DEF StoreItem
  <2>3. Contents' = Contents
    BY <1>0, <2>1, <2>2, Mapping, WindowStore
  <2> QED
    BY <2>2, <2>3 DEF Atomic!fifo
<1>4. CASE AdvanceTail(t)
  <2>1. pc[t] = "advance tail" /\ seen[t] = tail /\ Succ(tail) # head /\ items[tail] = asked[t]
    BY <1>4 DEF AdvanceTail, IInv, Storing
  <2>2. /\ tail' = Succ(tail) /\ answer' = [answer EXCEPT ![t] = "yes"]
        /\ UNCHANGED <<head, items, asked>>
    BY <1>4, <2>1 DEF AdvanceTail
  <2>3. Contents' = Append(Contents, asked[t])
    BY ZenonT(40), <1>0, <2>1, <2>2, Mapping, WindowPut
  <2>4. Len(Contents) < Capacity - 1
    <3>1. Len(Contents) = Span(head, tail)
      BY <1>0, Mapping, WindowFacts
    <3>2. Span(head, tail) \in 0 .. Capacity - 1
      BY <1>0, Remainders
    <3>3. Span(head, tail) # Capacity - 1
      BY <1>0, <2>1, WindowLength
    <3> QED
      BY <1>0, <3>1, <3>2, <3>3
  <2> QED
    BY <1>1, <2>1, <2>2, <2>3, <2>4 DEF Atomic!Put, Atomic!Answer, Atomic!Waiting
<1>5. CASE LockTail(t) \/ ReadTail(t) \/ UnlockTail(t)
  BY <1>5, Stutter DEF LockTail, ReadTail, UnlockTail
<1> QED
  BY <1>2, <1>3, <1>4, <1>5 DEF Producing

\* dequeue() takes effect when it stores head_, or when it finds the ring empty.
LEMMA ConsumerSteps ==
  ASSUME IInv, NEW t \in Consumers, Consuming(t)
  PROVE  Atomic!Take(t) \/ Atomic!Miss(t) \/ UNCHANGED Atomic!fifo
<1> USE DEF At, Goto, Say, ring, locks
<1>0. /\ head \in Cells /\ tail \in Cells /\ items \in [Cells -> Values]
      /\ Capacity \in Nat /\ Places
  BY QueueAssumption DEF IInv, TypeOK
<1>1. pc[t] \in {"empty?", "advance head"} => asked[t] # Nothing /\ answer[t] = Nothing
  BY QueueAssumption DEF IInv, Calls, Answered, Threads
<1>2. CASE TestEmpty(t)
  <2>0. pc[t] = "empty?" /\ seen[t] = head
    BY <1>2 DEF TestEmpty, IInv, Loading
  <2>1. CASE head = tail
    <3>1. answer' = [answer EXCEPT ![t] = "no"] /\ UNCHANGED <<head, tail, items, asked>>
      BY <1>2, <2>0, <2>1 DEF TestEmpty
    <3>2. Contents = <<>>
      <4>1. Contents \in Seq(Values) /\ Len(Contents) = 0
        BY <1>0, <2>1, Mapping, WindowFacts, WindowLength
      <4> QED
        BY <4>1, EmptySeq
    <3>3. Contents' = Contents
      BY <3>1, Mapping
    <3> QED
      BY <1>1, <2>0, <3>1, <3>2, <3>3 DEF Atomic!Miss, Atomic!Answer, Atomic!Waiting
  <2>2. CASE head # tail
    BY <1>2, <2>0, <2>2, Stutter DEF TestEmpty
  <2> QED
    BY <2>1, <2>2
<1>3. CASE AdvanceHead(t)
  <2>1. pc[t] = "advance head" /\ seen[t] = head /\ head # tail /\ out[t] = items[head]
    BY <1>3 DEF AdvanceHead, IInv, Loading
  <2>2. /\ head' = Succ(head) /\ answer' = [answer EXCEPT ![t] = items[head]]
        /\ UNCHANGED <<tail, items, asked>>
    BY <1>3, <2>1 DEF AdvanceHead
  <2>3. Contents # <<>> /\ Contents' = Tail(Contents) /\ Head(Contents) = items[head]
    BY <1>0, <2>1, <2>2, Mapping, WindowTake
  <2> QED
    BY <1>1, <2>1, <2>2, <2>3 DEF Atomic!Take, Atomic!Answer, Atomic!Waiting
<1>4. CASE LockHead(t) \/ ReadHead(t) \/ LoadItem(t) \/ UnlockHead(t)
  BY <1>4, Stutter DEF LockHead, ReadHead, LoadItem, UnlockHead
<1> QED
  BY <1>2, <1>3, <1>4 DEF Consuming

\* Every behaviour of the ring is one of a bounded first-in first-out queue of
\* Capacity - 1 items whose calls take effect at once (queue.h:31-85).
THEOREM ImplementsFifo == Spec => IsFifo
<1>1. Init => Atomic!Init
  <2> SUFFICES ASSUME Init PROVE Atomic!Init
    OBVIOUS
  <2>1. head = 0 /\ tail = 0 /\ items \in [Cells -> Values] /\ 0 \in Cells
    BY QueueAssumption DEF Init, Cells
  <2>2. Contents \in Seq(Values) /\ Len(Contents) = 0
    BY <2>1, Mapping, WindowFacts, WindowLength
  <2>3. Contents = <<>>
    BY <2>2, EmptySeq
  <2> QED
    BY <2>3 DEF Init, Atomic!Init, Atomic!Callers, Threads
<1>2. IInv /\ [Next]_vars => [Atomic!Next]_(Atomic!fifo)
  <2> SUFFICES ASSUME IInv, [Next]_vars PROVE [Atomic!Next]_(Atomic!fifo)
    OBVIOUS
  <2> USE DEF Atomic!Next
  <2>1. ASSUME NEW t \in Producers, NEW v \in Values, Enqueue(t, v)
        PROVE  Atomic!Next
    <3>1. pc[t] = "idle" /\ asked' = [asked EXCEPT ![t] = v] /\ UNCHANGED <<head, tail, items, answer>>
      BY <2>1 DEF Enqueue, At, ring
    <3>2. asked[t] = Nothing
      BY <3>1 DEF IInv, Calls
    <3>3. Atomic!Call(t, v)
      BY <3>1, <3>2, Mapping DEF Atomic!Call
    <3> QED
      BY <3>3
  <2>2. ASSUME NEW t \in Consumers, Dequeue(t) PROVE Atomic!Next
    <3>1. /\ pc[t] = "idle" /\ asked' = [asked EXCEPT ![t] = "dequeue"]
          /\ UNCHANGED <<head, tail, items, answer>>
      BY <2>2 DEF Dequeue, At, ring
    <3>2. asked[t] = Nothing
      BY <3>1 DEF IInv, Calls
    <3>3. Atomic!Call(t, "dequeue")
      BY <3>1, <3>2, Mapping DEF Atomic!Call
    <3> QED
      BY <3>3
  <2>3. ASSUME NEW t \in Producers, Producing(t) PROVE [Atomic!Next]_(Atomic!fifo)
    BY <2>3, ProducerSteps
  <2>4. ASSUME NEW t \in Consumers, Consuming(t) PROVE [Atomic!Next]_(Atomic!fifo)
    BY <2>4, ConsumerSteps
  <2>5. ASSUME NEW t \in Threads, Return(t) PROVE Atomic!Next
    <3>1. /\ pc[t] = "return" /\ UNCHANGED <<head, tail, items>>
          /\ asked' = [asked EXCEPT ![t] = Nothing] /\ answer' = [answer EXCEPT ![t] = Nothing]
      BY <2>5 DEF Return, At, ring
    <3>2. answer[t] # Nothing
      BY <3>1 DEF IInv, Calls, Answered
    <3>3. Atomic!Return(t)
      BY <3>1, <3>2, Mapping DEF Atomic!Return
    <3> QED
      BY <3>3 DEF Atomic!Callers, Threads
  <2>6. CASE UNCHANGED vars
    BY <2>6, Stutter DEF vars
  <2> QED
    BY StepKinds, <2>1, <2>2, <2>3, <2>4, <2>5, <2>6
<1> QED
  BY <1>1, <1>2, Inductive, PTL DEF Spec, IsFifo, Atomic!Spec
=============================================================================
