------------------------------- MODULE Queue --------------------------------
(***************************************************************************)
(* The ring that carries ownership changes between cores                   *)
(* (mica/util/queue.h), one shared load or store per step.  A lock byte    *)
(* guards each end that several threads use; the two ends meet only in     *)
(* head_ and tail_, which each side reads without the other's lock.        *)
(* Stores take effect in program order, as they do on x86-64.              *)
(***************************************************************************)
EXTENDS Integers, Sequences

CONSTANTS
  Producers, Consumers,
  MultipleProducer, MultipleConsumer,  \* the template arguments
  Capacity,
  Values,     \* the T's that are enqueued
  Nothing     \* no thread, no call, no answer

Threads == Producers \cup Consumers
Cells == 0 .. Capacity - 1

ASSUME QueueAssumption ==
  /\ Capacity \in Nat /\ Capacity >= 2
  /\ MultipleProducer \in BOOLEAN /\ MultipleConsumer \in BOOLEAN
  /\ ~MultipleProducer => \A s, t \in Producers : s = t
  /\ ~MultipleConsumer => \A s, t \in Consumers : s = t
  /\ Producers \cap Consumers = {}
  /\ Nothing \notin Threads \cup Values \cup {"yes", "no", "dequeue"}

VARIABLES
  head, tail, items,    \* head_, tail_, items_
  headLock, tailLock,   \* head_lock_, tail_lock_: the thread that holds it
  pc,
  asked,                \* the call: v of enqueue(), "dequeue"
  seen,                 \* the thread's local copy of tail (enqueue) or head (dequeue)
  out,                  \* *out_v
  answer                \* the value to be returned

vars == <<head, tail, items, headLock, tailLock, pc, asked, seen, out, answer>>
ring == <<head, tail, items>>
locks == <<headLock, tailLock>>

\* head_next, tail_next
Succ(i) == IF i + 1 = Capacity THEN 0 ELSE i + 1

Init ==
  /\ head = 0 /\ tail = 0
  /\ items \in [Cells -> Values]    \* uninitialised
  /\ headLock = Nothing /\ tailLock = Nothing
  /\ pc = [t \in Threads |-> "idle"]
  /\ asked = [t \in Threads |-> Nothing]
  /\ seen = [t \in Threads |-> 0]
  /\ out = [t \in Threads |-> Nothing]
  /\ answer = [t \in Threads |-> Nothing]

At(t, l) == pc[t] = l
Goto(t, l) == pc' = [pc EXCEPT ![t] = l]
Say(t, a) == answer' = [answer EXCEPT ![t] = a]

-----------------------------------------------------------------------------
(* enqueue()                                                               *)

\* Enqueue without the lock that several producers need.
Enqueue_NoLock(t, v) ==
  /\ At(t, "idle") /\ t \in Producers
  /\ asked' = [asked EXCEPT ![t] = v]
  /\ Goto(t, "read tail")
  /\ UNCHANGED <<ring, locks, seen, out, answer>>

Enqueue(t, v) ==
  /\ At(t, "idle") /\ t \in Producers
  /\ asked' = [asked EXCEPT ![t] = v]
  /\ Goto(t, IF MultipleProducer THEN "lock tail" ELSE "read tail")
  /\ UNCHANGED <<ring, locks, seen, out, answer>>

LockTail(t) ==
  /\ At(t, "lock tail") /\ tailLock = Nothing
  /\ tailLock' = t
  /\ Goto(t, "read tail")
  /\ UNCHANGED <<ring, headLock, asked, seen, out, answer>>

ReadTail(t) ==
  /\ At(t, "read tail")
  /\ seen' = [seen EXCEPT ![t] = tail]
  /\ Goto(t, "full?")
  /\ UNCHANGED <<ring, locks, asked, out, answer>>

\* IsFull without the cell that is kept free.
IsFull_NoGap(t) == FALSE

IsFull(t) == Succ(seen[t]) = head

TestFull(t) ==
  /\ At(t, "full?")
  /\ IF IsFull(t)
     THEN Say(t, "no") /\ Goto(t, "unlock tail")
     ELSE Goto(t, "store") /\ UNCHANGED answer
  /\ UNCHANGED <<ring, locks, asked, seen, out>>

StoreItem(t) ==
  /\ At(t, "store")
  /\ items' = [items EXCEPT ![seen[t]] = asked[t]]
  /\ Goto(t, "advance tail")
  /\ UNCHANGED <<head, tail, locks, asked, seen, out, answer>>

AdvanceTail(t) ==
  /\ At(t, "advance tail")
  /\ tail' = Succ(seen[t])
  /\ Say(t, "yes")
  /\ Goto(t, "unlock tail")
  /\ UNCHANGED <<head, items, locks, asked, seen, out>>

UnlockTail(t) ==
  /\ At(t, "unlock tail")
  /\ tailLock' = IF MultipleProducer THEN Nothing ELSE tailLock
  /\ Goto(t, "return")
  /\ UNCHANGED <<ring, headLock, asked, seen, out, answer>>

-----------------------------------------------------------------------------
(* dequeue()                                                               *)

Dequeue(t) ==
  /\ At(t, "idle") /\ t \in Consumers
  /\ asked' = [asked EXCEPT ![t] = "dequeue"]
  /\ Goto(t, IF MultipleConsumer THEN "lock head" ELSE "read head")
  /\ UNCHANGED <<ring, locks, seen, out, answer>>

LockHead(t) ==
  /\ At(t, "lock head") /\ headLock = Nothing
  /\ headLock' = t
  /\ Goto(t, "read head")
  /\ UNCHANGED <<ring, tailLock, asked, seen, out, answer>>

ReadHead(t) ==
  /\ At(t, "read head")
  /\ seen' = [seen EXCEPT ![t] = head]
  /\ Goto(t, "empty?")
  /\ UNCHANGED <<ring, locks, asked, out, answer>>

TestEmpty(t) ==
  /\ At(t, "empty?")
  /\ IF seen[t] = tail
     THEN Say(t, "no") /\ Goto(t, "unlock head")
     ELSE Goto(t, "load") /\ UNCHANGED answer
  /\ UNCHANGED <<ring, locks, asked, seen, out>>

LoadItem(t) ==
  /\ At(t, "load")
  /\ out' = [out EXCEPT ![t] = items[seen[t]]]
  /\ Goto(t, "advance head")
  /\ UNCHANGED <<ring, locks, asked, seen, answer>>

AdvanceHead(t) ==
  /\ At(t, "advance head")
  /\ head' = Succ(seen[t])
  /\ Say(t, out[t])
  /\ Goto(t, "unlock head")
  /\ UNCHANGED <<tail, items, locks, asked, seen, out>>

UnlockHead(t) ==
  /\ At(t, "unlock head")
  /\ headLock' = IF MultipleConsumer THEN Nothing ELSE headLock
  /\ Goto(t, "return")
  /\ UNCHANGED <<ring, tailLock, asked, seen, out, answer>>

Return(t) ==
  /\ At(t, "return")
  /\ asked' = [asked EXCEPT ![t] = Nothing]
  /\ answer' = [answer EXCEPT ![t] = Nothing]
  /\ seen' = [seen EXCEPT ![t] = 0]
  /\ out' = [out EXCEPT ![t] = Nothing]
  /\ Goto(t, "idle")
  /\ UNCHANGED <<ring, locks>>

Producing(t) ==
  \/ LockTail(t) \/ ReadTail(t) \/ TestFull(t) \/ StoreItem(t)
  \/ AdvanceTail(t) \/ UnlockTail(t)

Consuming(t) ==
  \/ LockHead(t) \/ ReadHead(t) \/ TestEmpty(t) \/ LoadItem(t)
  \/ AdvanceHead(t) \/ UnlockHead(t)

Next ==
  \E t \in Threads :
    \/ \E v \in Values : Enqueue(t, v)
    \/ Dequeue(t)
    \/ Producing(t) \/ Consuming(t) \/ Return(t)

Spec == Init /\ [][Next]_vars

-----------------------------------------------------------------------------
(* The items between head_ and tail_, oldest first.                        *)
Contents ==
  [i \in 1 .. (tail - head) % Capacity |-> items[(head + i - 1) % Capacity]]

\* The ring is a bounded first-in first-out queue of Capacity - 1 items,
\* whatever enqueue() and dequeue() interleave (queue.h:31-85): each call takes
\* effect at once, none is refused without reason, nothing is lost, repeated or
\* reordered.
Atomic == INSTANCE Fifo WITH contents <- Contents, Room <- Capacity - 1
IsFifo == Atomic!Spec

\* Type correctness; a lock is held by a thread inside the section it guards.
TypeOK ==
  /\ head \in Cells /\ tail \in Cells /\ items \in [Cells -> Values]
  /\ seen \in [Threads -> Cells]
  /\ asked \in [Threads -> Values \cup {"dequeue", Nothing}]
  /\ out \in [Threads -> Values \cup {Nothing}]
  /\ answer \in [Threads -> Values \cup {"yes", "no", Nothing}]
  /\ tailLock \in Producers \cup {Nothing}
  /\ headLock \in Consumers \cup {Nothing}

\* A consumer that has found the queue not empty copies out an item that no
\* producer can be overwriting (queue.h:49,77): the cell is still queued.
LoadsQueuedItem ==
  \A t \in Consumers :
    pc[t] \in {"load", "advance head"} => seen[t] = head /\ head # tail

\* While a producer stores an item, its cell lies outside the queue and the
\* queue stays short of full (queue.h:40-50).
StoresFreeCell ==
  \A t \in Producers :
    pc[t] \in {"store", "advance tail"} => seen[t] = tail /\ Succ(tail) # head

\* A cell is the producer's or the consumer's who works on it, never both's.
CellsOwned == TypeOK /\ LoadsQueuedItem /\ StoresFreeCell
=============================================================================
