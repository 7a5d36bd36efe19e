-------------------------- MODULE PartitionsProofs --------------------------
(***************************************************************************)
(* Theorems about Partitions, for any number of cores, workers, domains,   *)
(* partitions and rebalances, and queues of any size.                      *)
(***************************************************************************)
EXTENDS Partitions, SequenceTheorems, FiniteSetTheorems, TLAPS

-----------------------------------------------------------------------------
(* The inductive invariant.                                                *)

Served == Range(CoreList)
Changes == [part : Parts, new : Served]

\* A change moves its partition within the domain it is in.
Local(c) == c \in Changes /\ NumaOf[c.new] = NumaOf[owner[c.part]]

\* The arrays have the sizes init.h gives them.
Arrays ==
  /\ owner \in [Parts -> Served]
  /\ left \in [Workers -> 0 .. MaxBatch]
  /\ scan \in 0 .. Cardinality(Cores)
  /\ DOMAIN pending = Cores /\ DOMAIN pc = Threads /\ DOMAIN req = Workers
  /\ DOMAIN change = Threads /\ DOMAIN target = Threads

\* Changes that are planned, queued or in a thread's hand are local.
Planned == plan \in Seq(Changes) /\ \A k \in 1 .. Len(plan) : Local(plan[k])
Queued ==
  \A c \in Cores : /\ pending[c] \in Seq(Changes) /\ Len(pending[c]) <= Room
                   /\ \A k \in 1 .. Len(pending[c]) : Local(pending[c][k])
InHand ==
  \A t \in Threads :
    /\ pc[t] \in {"give", "redirect", "queue"} => Local(change[t])
    /\ pc[t] \in {"redirect", "queue"} => target[t] \in Cores
    /\ change[t] # NoChange => Local(change[t])

Moves == Arrays /\ Planned /\ Queued /\ InHand

\* A worker in a table, or about to enter it, has the right to be there.
MayVisit(w) ==
  /\ req[w].part \in Parts /\ req[w].kind # "reset"
  /\ \/ owner[req[w].part] = w
     \/ ConcurrentWrite
     \/ concurrentRead /\ ~req[w].mutate
Requests == [kind : Kinds \cup {"none"}, part : Parts \cup {0}, mutate : BOOLEAN]
Visits ==
  /\ req \in [Workers -> Requests]
  /\ \A w \in Workers : /\ pc[w] = "table" => MayVisit(w)
                        /\ pc[w] = "allow" => MayVisit(w) /\ ~req[w].mutate

-----------------------------------------------------------------------------
(* Threads and cores.                                                      *)

LEMMA Actors ==
  /\ Workers \subseteq Cores /\ Workers \subseteq Threads /\ Director \in Threads
  /\ Director \notin Workers /\ DirLcore \in Cores
  /\ Served \subseteq Cores /\ CoreList \in Seq(Cores) /\ Len(CoreList) \in Nat \ {0}
  /\ \A k \in 1 .. Len(CoreList) : CoreList[k] \in Served
  /\ \A t \in Threads : Lcore(t) \in Cores
<1>1. CoreList \in Seq(Cores) /\ CoreList # <<>>
  BY PartitionsAssumption
<1>2. Len(CoreList) \in Nat \ {0} /\ DOMAIN CoreList = 1 .. Len(CoreList)
      /\ \A k \in 1 .. Len(CoreList) : CoreList[k] \in Cores
  BY <1>1, EmptySeq, LenProperties, ElementOfSeq
<1>3. Served \subseteq Cores /\ \A k \in 1 .. Len(CoreList) : CoreList[k] \in Served
  BY <1>2 DEF Served, Range
<1> QED
  BY <1>1, <1>2, <1>3, PartitionsAssumption DEF Threads, Lcore

\* Who takes a step.
LEMMA Steps ==
  ASSUME [Next]_vars
  PROVE  \/ \E w \in Workers : Receive(w) \/ Idle(w) \/ Accept(w) \/ AllowMutation(w)
                                \/ Retire(w) \/ EndBatch(w)
         \/ \E t \in Threads : Dequeue(t) \/ Give(t) \/ Redirect(t)
         \/ Rebalance \/ AssignOwner \/ QueueChange \/ Rebalanced \/ Scan
         \/ UNCHANGED vars
BY DEF Next, Processing, Applying, Directing, Threads

LEMMA ModeFixed == [Next]_vars => UNCHANGED concurrentRead
BY DEF Next, vars

-----------------------------------------------------------------------------
(* Sequences of changes.                                                   *)

LEMMA QueueGrows ==
  ASSUME NEW S, NEW q \in Seq(S), NEW c \in S
  PROVE  /\ Append(q, c) \in Seq(S) /\ Len(Append(q, c)) = Len(q) + 1
         /\ \A k \in 1 .. Len(q) + 1 : Append(q, c)[k] = IF k <= Len(q) THEN q[k] ELSE c
OBVIOUS

LEMMA QueueShrinks ==
  ASSUME NEW S, NEW q \in Seq(S), q # <<>>
  PROVE  /\ Len(q) \in Nat \ {0} /\ Head(q) = q[1] /\ Tail(q) \in Seq(S)
         /\ Len(Tail(q)) = Len(q) - 1
         /\ \A k \in 1 .. Len(q) - 1 : Tail(q)[k] = q[k + 1] /\ k + 1 \in 1 .. Len(q)
<1>1. Len(q) \in Nat \ {0}
  BY EmptySeq
<1>2. /\ Tail(q) \in Seq(S) /\ Len(Tail(q)) = Len(q) - 1
      /\ \A k \in 1 .. Len(Tail(q)) : Tail(q)[k] = q[k + 1]
  BY HeadTailProperties
<1>3. Head(q) = q[1]
  <2>1. SubSeq(q, 1, Len(q)) = q
    BY SubSeqFull
  <2>2. 1 \in 1 .. Len(q) /\ Len(q) \in 1 .. Len(q)
    BY <1>1
  <2> QED
    BY <2>1, <2>2, HeadTailOfSubSeq
<1> QED
  BY <1>1, <1>2, <1>3

-----------------------------------------------------------------------------
(* Steps that move no partition.                                           *)

LEMMA SameOwners ==
  ASSUME UNCHANGED owner
  PROVE  \A c : Local(c) => Local(c)'
BY DEF Local

\* What a worker does in a batch.
LEMMA BatchMoves ==
  ASSUME Moves, NEW w \in Workers,
         Receive(w) \/ Idle(w) \/ Accept(w) \/ AllowMutation(w) \/ Retire(w) \/ EndBatch(w)
  PROVE  Moves'
<1>1. UNCHANGED <<owner, pending, change, target, plan, scan>>
  BY DEF Receive, Idle, Accept, AllowMutation, Retire, EndBatch, work, director
<1>2. \E l \in {"request", "dequeue", "table", "allow"} : pc' = [pc EXCEPT ![w] = l] \/ pc' = pc
  BY DEF Receive, Idle, Accept, AllowMutation, Retire, EndBatch, Goto
<1>3. DOMAIN req' = Workers
  BY DEF Moves, Arrays, Receive, Idle, Accept, AllowMutation, Retire, EndBatch, work
<1>4. left' \in [Workers -> 0 .. MaxBatch]
  <2>0. left \in [Workers -> 0 .. MaxBatch] /\ MaxBatch \in Nat
    BY PartitionsAssumption DEF Moves, Arrays
  <2>1. CASE Receive(w)
    BY <2>0, <2>1 DEF Receive
  <2>2. CASE Accept(w)
    BY <2>0, <2>2 DEF Accept
  <2>3. CASE Idle(w) \/ AllowMutation(w) \/ Retire(w) \/ EndBatch(w)
    BY <2>0, <2>3 DEF Idle, AllowMutation, Retire, EndBatch, work
  <2> QED
    BY <2>1, <2>2, <2>3
<1>5. Arrays'
  BY <1>1, <1>2, <1>3, <1>4 DEF Moves, Arrays
<1>6. Planned' /\ Queued'
  BY <1>1, SameOwners DEF Moves, Planned, Queued
<1>7. InHand'
  <2>1. \A t \in Threads : pc'[t] \in {"give", "redirect", "queue"} => pc'[t] = pc[t]
    BY <1>2 DEF Moves, Arrays
  <2> QED
    BY <1>1, <2>1, SameOwners DEF Moves, InHand
<1> QED
  BY <1>5, <1>6, <1>7 DEF Moves

\* The next change of a thread's queue.
LEMMA DequeueMoves ==
  ASSUME Moves, NEW t \in Threads, Dequeue(t)
  PROVE  Moves'
<1> DEFINE q == pending[Lcore(t)]
<1>1. UNCHANGED <<owner, left, req, target, plan, scan>>
  BY DEF Dequeue, work, director
<1>2. /\ Lcore(t) \in Cores /\ q \in Seq(Changes) /\ Len(q) <= Room
      /\ \A k \in 1 .. Len(q) : Local(q[k])
  BY Actors DEF Moves, Queued
<1>3. CASE q = <<>>
  <2>1. UNCHANGED <<pending, change>>
    BY <1>3 DEF Dequeue
  <2>2. pc' = [pc EXCEPT ![t] = IF t = Director THEN "scan" ELSE "poll"]
    BY <1>3 DEF Dequeue, Goto
  <2>3. \A s \in Threads : pc'[s] \in {"give", "redirect", "queue"} => pc'[s] = pc[s]
    BY <2>2 DEF Moves, Arrays
  <2>4. Arrays'
    BY <1>1, <2>1, <2>2 DEF Moves, Arrays
  <2>5. Planned' /\ Queued'
    BY <1>1, <2>1, SameOwners DEF Moves, Planned, Queued
  <2>6. InHand'
    BY <1>1, <2>1, <2>3, SameOwners DEF Moves, InHand
  <2> QED
    BY <2>4, <2>5, <2>6 DEF Moves
<1>4. CASE q # <<>>
  <2>1. /\ change' = [change EXCEPT ![t] = Head(q)]
        /\ pending' = [pending EXCEPT ![Lcore(t)] = Tail(q)]
        /\ pc' = [pc EXCEPT ![t] = "give"]
    BY <1>4 DEF Dequeue, Goto
  <2>2. /\ Len(q) \in Nat \ {0} /\ Head(q) = q[1] /\ Tail(q) \in Seq(Changes)
        /\ Len(Tail(q)) = Len(q) - 1
        /\ \A k \in 1 .. Len(q) - 1 : Tail(q)[k] = q[k + 1] /\ k + 1 \in 1 .. Len(q)
    BY <1>2, <1>4, QueueShrinks
  <2> HIDE DEF q
  <2>3. Local(Head(q)) /\ \A k \in 1 .. Len(Tail(q)) : Local(Tail(q)[k])
    <3>1. 1 \in 1 .. Len(q)
      BY <2>2
    <3> QED
      BY <1>2, <2>2, <3>1
  <2>4. Arrays'
    BY <1>1, <2>1 DEF Moves, Arrays
  <2>5. Planned'
    BY <1>1, SameOwners DEF Moves, Planned
  <2>6. Queued'
    <3>1. Len(Tail(q)) <= Room
      BY <1>2, <2>2, PartitionsAssumption
    <3>2. \A c \in Cores : pending'[c] = IF c = Lcore(t) THEN Tail(q) ELSE pending[c]
      BY <2>1 DEF Moves, Arrays
    <3> QED
      BY <1>1, <2>2, <2>3, <3>1, <3>2, SameOwners DEF Moves, Queued
  <2>7. InHand'
    <3>1. \A s \in Threads : /\ pc'[s] = IF s = t THEN "give" ELSE pc[s]
                             /\ change'[s] = IF s = t THEN Head(q) ELSE change[s]
      BY <2>1 DEF Moves, Arrays
    <3> QED
      BY <1>1, <2>3, <3>1, SameOwners DEF Moves, InHand
  <2> QED
    BY <2>4, <2>5, <2>6, <2>7 DEF Moves
<1> QED
  BY <1>3, <1>4

\* A change is queued where a thread sends it, or lost.
LEMMA EnqueueKeeps ==
  ASSUME Moves, NEW c \in Cores, NEW chg, Local(chg), Enqueue(c, chg), UNCHANGED owner
  PROVE  Queued' /\ DOMAIN pending' = Cores
<1>1. CASE Len(pending[c]) < Room
  <2>1. pending' = [pending EXCEPT ![c] = Append(pending[c], chg)]
    BY <1>1 DEF Enqueue
  <2>2. DOMAIN pending' = Cores
        /\ \A d \in Cores : pending'[d] = IF d = c THEN Append(pending[c], chg) ELSE pending[d]
    BY <2>1 DEF Moves, Arrays
  <2>3. chg \in Changes /\ pending[c] \in Seq(Changes)
        /\ \A k \in 1 .. Len(pending[c]) : Local(pending[c][k])
    BY DEF Moves, Queued, Local
  <2> DEFINE q == pending[c]
             r == Append(q, chg)
  <2>4. /\ r \in Seq(Changes) /\ Len(r) = Len(q) + 1
        /\ \A k \in 1 .. Len(q) + 1 : r[k] = IF k <= Len(q) THEN q[k] ELSE chg
    BY <2>3, QueueGrows
  <2>5. Len(q) \in Nat
    BY <2>3, LenProperties
  <2> HIDE DEF q, r
  <2>6. \A k \in 1 .. Len(r) : Local(r[k])
    BY <2>3, <2>4, <2>5 DEF q
  <2>7. Len(r) <= Room
    BY <1>1, <2>4, <2>5, PartitionsAssumption DEF q
  <2>8. \A d \in Cores : pending'[d] = IF d = c THEN r ELSE pending[d]
    BY <2>2 DEF r, q
  <2> QED
    BY <2>2, <2>4, <2>6, <2>7, <2>8, SameOwners DEF Moves, Queued
<1>2. CASE ~(Len(pending[c]) < Room)
  <2>1. pending' = pending
    BY <1>2 DEF Enqueue
  <2> QED
    BY <2>1, SameOwners DEF Moves, Queued, Arrays
<1> QED
  BY <1>1, <1>2

\* A change of another core's partition goes to that core.
LEMMA RedirectMoves ==
  ASSUME Moves, NEW t \in Threads, Redirect(t)
  PROVE  Moves'
<1>1. /\ pc[t] = "redirect" /\ Enqueue(target[t], change[t])
      /\ change' = [change EXCEPT ![t] = NoChange] /\ target' = [target EXCEPT ![t] = 0]
      /\ pc' = [pc EXCEPT ![t] = "dequeue"]
      /\ UNCHANGED <<owner, left, req, plan, scan>>
  BY DEF Redirect, At, Goto, work, director
<1>2. target[t] \in Cores /\ Local(change[t])
  BY <1>1 DEF Moves, InHand
<1>3. Queued' /\ DOMAIN pending' = Cores
  BY <1>1, <1>2, EnqueueKeeps
<1>4. Arrays'
  BY <1>1, <1>3 DEF Moves, Arrays
<1>5. Planned'
  BY <1>1, SameOwners DEF Moves, Planned
<1>6. InHand'
  <2>1. \A s \in Threads : /\ pc'[s] = IF s = t THEN "dequeue" ELSE pc[s]
                           /\ change'[s] = IF s = t THEN NoChange ELSE change[s]
                           /\ target'[s] = IF s = t THEN 0 ELSE target[s]
    BY <1>1 DEF Moves, Arrays
  <2> QED
    BY <1>1, <2>1, SameOwners DEF Moves, InHand
<1> QED
  BY <1>3, <1>4, <1>5, <1>6 DEF Moves

\* The director queues the change it has computed.
LEMMA QueueChangeMoves ==
  ASSUME Moves, QueueChange
  PROVE  Moves'
<1> DEFINE t == Director
<1>0. t \in Threads
  BY Actors
<1>1. /\ pc[t] = "queue" /\ Enqueue(target[t], change[t])
      /\ change' = [change EXCEPT ![t] = NoChange] /\ target' = [target EXCEPT ![t] = 0]
      /\ pc' = [pc EXCEPT ![t] = "assign"]
      /\ UNCHANGED <<owner, left, req, plan, scan>>
  BY DEF QueueChange, At, Goto, work, director
<1> HIDE DEF t
<1>2. target[t] \in Cores /\ Local(change[t])
  BY <1>0, <1>1 DEF Moves, InHand
<1>3. Queued' /\ DOMAIN pending' = Cores
  BY <1>1, <1>2, EnqueueKeeps
<1>4. Arrays'
  BY <1>1, <1>3 DEF Moves, Arrays
<1>5. Planned'
  BY <1>1, SameOwners DEF Moves, Planned
<1>6. InHand'
  <2>1. \A s \in Threads : /\ pc'[s] = IF s = t THEN "assign" ELSE pc[s]
                           /\ change'[s] = IF s = t THEN NoChange ELSE change[s]
                           /\ target'[s] = IF s = t THEN 0 ELSE target[s]
    BY <1>1 DEF Moves, Arrays
  <2> QED
    BY <1>1, <2>1, SameOwners DEF Moves, InHand
<1> QED
  BY <1>3, <1>4, <1>5, <1>6 DEF Moves

\* The owner gives its partition away, or passes the change on.
LEMMA GiveMoves ==
  ASSUME Moves, NEW t \in Threads, Give(t)
  PROVE  Moves' /\ \A p \in Parts : NumaOf[owner'[p]] = NumaOf[owner[p]]
<1> DEFINE c == change[t]
<1>1. /\ pc[t] = "give" /\ UNCHANGED <<pending, left, req, plan, scan>>
  BY DEF Give, At, work, director
<1>2. Local(c)
  BY <1>1 DEF Moves, InHand
<1>3. CASE owner[c.part] = Lcore(t)
  <2>1. /\ owner' = [owner EXCEPT ![c.part] = c.new] /\ UNCHANGED target
        /\ change' = [change EXCEPT ![t] = NoChange] /\ pc' = [pc EXCEPT ![t] = "dequeue"]
    BY <1>3 DEF Give, Goto
  <2> HIDE DEF c
  <2>2. owner' \in [Parts -> Served] /\ \A p \in Parts : NumaOf[owner'[p]] = NumaOf[owner[p]]
    BY <1>2, <2>1 DEF Moves, Arrays, Local, Changes
  <2>3. \A d : Local(d) => Local(d)'
    BY <2>2 DEF Local, Changes
  <2>4. Arrays'
    BY <1>1, <2>1, <2>2 DEF Moves, Arrays
  <2>5. Planned' /\ Queued'
    BY <1>1, <2>3 DEF Moves, Planned, Queued
  <2>6. InHand'
    <3>1. \A s \in Threads : /\ pc'[s] = IF s = t THEN "dequeue" ELSE pc[s]
                             /\ change'[s] = IF s = t THEN NoChange ELSE change[s]
      BY <2>1 DEF Moves, Arrays
    <3> QED
      BY <2>1, <2>3, <3>1 DEF Moves, InHand
  <2> QED
    BY <2>2, <2>4, <2>5, <2>6 DEF Moves
<1>4. CASE owner[c.part] # Lcore(t)
  <2>1. /\ target' = [target EXCEPT ![t] = owner[c.part]]
        /\ pc' = [pc EXCEPT ![t] = "redirect"] /\ UNCHANGED <<owner, change>>
    BY <1>4 DEF Give, Goto
  <2>2. owner[c.part] \in Cores
    BY <1>2, Actors DEF Moves, Arrays, Local, Changes
  <2>3. Arrays'
    BY <1>1, <2>1 DEF Moves, Arrays
  <2>4. Planned' /\ Queued'
    BY <1>1, <2>1, SameOwners DEF Moves, Planned, Queued
  <2>5. InHand'
    <3>1. \A s \in Threads : /\ pc'[s] = IF s = t THEN "redirect" ELSE pc[s]
                             /\ target'[s] = IF s = t THEN owner[c.part] ELSE target[s]
      BY <2>1 DEF Moves, Arrays
    <3> QED
      BY <1>2, <2>1, <2>2, <3>1, SameOwners DEF Moves, InHand
  <2> QED
    BY <2>1, <2>3, <2>4, <2>5 DEF Moves
<1> QED
  BY <1>3, <1>4

-----------------------------------------------------------------------------
(* The director's steps.                                                   *)

\* A step that leaves owners and changes alone, and takes no thread to where
\* it holds a change.
LEMMA QuietMoves ==
  ASSUME Moves, UNCHANGED <<owner, left, req, pending, change, target>>,
         DOMAIN pc' = Threads, scan' \in 0 .. Cardinality(Cores), Planned',
         \A t \in Threads : pc'[t] \in {"give", "redirect", "queue"} => pc'[t] = pc[t]
  PROVE  Moves'
<1>1. Arrays'
  BY DEF Moves, Arrays
<1>2. Queued'
  BY SameOwners DEF Moves, Queued
<1>3. InHand'
  BY SameOwners DEF Moves, InHand
<1> QED
  BY <1>1, <1>2, <1>3 DEF Moves

\* rebalance_load() packs a domain's partitions on the domain's lcores.
LEMMA RebalanceMoves ==
  ASSUME Moves, Rebalance
  PROVE  Moves'
<1>1. /\ UNCHANGED <<owner, left, req, pending, change, target, scan>>
      /\ pc' = [pc EXCEPT ![Director] = "assign"]
  BY DEF Rebalance, Goto, work
<1>2a. PICK load \in [Parts -> 0 .. MaxLoad] :
         \E to \in { to \in [Parts -> DOMAIN CoreList] : Packing(load, to) } :
         \E order \in [1 .. Cardinality(Requested(load)) -> Requested(load)] :
           plan' = [k \in DOMAIN order |-> [part |-> order[k], new |-> CoreList[to[order[k]]]]]
  BY DEF Rebalance
<1>2b. PICK to \in [Parts -> DOMAIN CoreList] :
         /\ Packing(load, to)
         /\ \E order \in [1 .. Cardinality(Requested(load)) -> Requested(load)] :
              plan' = [k \in DOMAIN order |-> [part |-> order[k], new |-> CoreList[to[order[k]]]]]
  BY <1>2a
<1>2. PICK order \in [1 .. Cardinality(Requested(load)) -> Requested(load)] :
         plan' = [k \in DOMAIN order |-> [part |-> order[k], new |-> CoreList[to[order[k]]]]]
  BY <1>2b
<1> DEFINE n == Cardinality(Requested(load))
<1>3. n \in Nat
  <2>1. Requested(load) \subseteq Parts
    BY DEF Requested
  <2>2. IsFiniteSet(Requested(load))
    BY <2>1, PartitionsAssumption, FS_Subset
  <2> QED
    BY <2>2, FS_CardinalityType
<1>4. \A k \in 1 .. n : order[k] \in Parts
  BY DEF Requested
<1>5. \A p \in Parts : CoreList[to[p]] \in Served /\ NumaOf[CoreList[to[p]]] = NumaOf[owner[p]]
  BY <1>2b, Actors DEF Packing, Candidates, Served, Range
<1> HIDE DEF n
<1>6. plan' = [k \in 1 .. n |-> [part |-> order[k], new |-> CoreList[to[order[k]]]]]
  BY <1>2 DEF n
<1>7. \A k \in 1 .. n : /\ plan'[k] = [part |-> order[k], new |-> CoreList[to[order[k]]]]
                        /\ plan'[k] \in Changes /\ Local(plan'[k])
  BY <1>4, <1>5, <1>6 DEF Local, Changes
<1>8. plan' \in Seq(Changes) /\ Len(plan') = n
  <2>1. plan' \in [1 .. n -> Changes]
    BY <1>6, <1>7
  <2>2. plan' \in Seq(Changes)
    BY <1>3, <2>1, SeqDef
  <2>3. 1 .. Len(plan') = 1 .. n /\ Len(plan') \in Nat
    BY <2>1, <2>2, LenProperties
  <2> QED
    BY <1>3, <2>2, <2>3
<1>9. Planned'
  BY <1>1, <1>7, <1>8, SameOwners DEF Planned
<1>10. /\ DOMAIN pc' = Threads
       /\ \A t \in Threads : pc'[t] = IF t = Director THEN "assign" ELSE pc[t]
  BY <1>1 DEF Moves, Arrays
<1> QED
  BY <1>1, <1>9, <1>10, QuietMoves DEF Moves, Arrays

\* set_new_owner_lcore_id() addresses the owner a change is for.
LEMMA AssignMoves ==
  ASSUME Moves, AssignOwner
  PROVE  Moves'
<1> DEFINE c == Head(plan)
<1>1. /\ plan # <<>> /\ plan' = Tail(plan)
      /\ UNCHANGED <<owner, pending, left, req, scan>>
  BY DEF AssignOwner, work
<1>2. plan \in Seq(Changes) /\ \A k \in 1 .. Len(plan) : Local(plan[k])
  BY DEF Moves, Planned
<1>3. /\ Len(plan) \in Nat \ {0} /\ c = plan[1] /\ Tail(plan) \in Seq(Changes)
      /\ Len(Tail(plan)) = Len(plan) - 1
      /\ \A k \in 1 .. Len(plan) - 1 : Tail(plan)[k] = plan[k + 1] /\ k + 1 \in 1 .. Len(plan)
  BY <1>1, <1>2, QueueShrinks
<1>4. Local(c)
  <2>1. 1 \in 1 .. Len(plan)
    BY <1>3
  <2> QED
    BY <1>2, <1>3, <2>1
<1>5. Planned'
  BY <1>1, <1>2, <1>3, SameOwners DEF Planned
<1>6. CASE owner[c.part] = c.new
  <2>1. UNCHANGED <<change, target, pc>>
    BY <1>6 DEF AssignOwner
  <2> QED
    BY <1>1, <1>5, <2>1, QuietMoves DEF Moves, Arrays
<1>7. CASE owner[c.part] # c.new
  <2>1. /\ change' = [change EXCEPT ![Director] = c]
        /\ target' = [target EXCEPT ![Director] = owner[c.part]]
        /\ pc' = [pc EXCEPT ![Director] = "queue"]
    BY <1>7 DEF AssignOwner, Goto
  <2> HIDE DEF c
  <2>2. owner[c.part] \in Cores
    BY <1>4, Actors DEF Moves, Arrays, Local, Changes
  <2>3. Arrays'
    BY <1>1, <2>1 DEF Moves, Arrays
  <2>4. Queued'
    BY <1>1, SameOwners DEF Moves, Queued
  <2>5. InHand'
    <3>1. \A s \in Threads : /\ pc'[s] = IF s = Director THEN "queue" ELSE pc[s]
                             /\ change'[s] = IF s = Director THEN c ELSE change[s]
                             /\ target'[s] = IF s = Director THEN owner[c.part] ELSE target[s]
      BY <2>1 DEF Moves, Arrays
    <3> QED
      BY <1>1, <1>4, <2>2, <3>1, SameOwners DEF Moves, InHand
  <2> QED
    BY <1>5, <2>3, <2>4, <2>5 DEF Moves
<1> QED
  BY <1>6, <1>7

\* The wait begins and looks at the queues one after the other.
LEMMA WaitMoves ==
  ASSUME Moves, Rebalanced \/ Scan
  PROVE  Moves'
<1>1. UNCHANGED <<owner, left, req, pending, change, target, plan>>
  BY DEF Rebalanced, Scan, work, director
<1>2. PICK l \in {"rest", "dequeue"} : pc' = [pc EXCEPT ![Director] = l] \/ pc' = pc
  BY DEF Rebalanced, Scan, Goto
<1>3. scan' \in 0 .. Cardinality(Cores)
  <2>1. Cardinality(Cores) \in Nat
    BY PartitionsAssumption, FS_CardinalityType
  <2>2. scan \in 0 .. Cardinality(Cores)
    BY DEF Moves, Arrays
  <2> QED
    BY <2>1, <2>2 DEF Rebalanced, Scan, director
<1>4. Planned'
  BY <1>1, SameOwners DEF Moves, Planned
<1>5. /\ DOMAIN pc' = Threads
      /\ \A t \in Threads : pc'[t] = pc[t] \/ pc'[t] = l
  BY <1>2 DEF Moves, Arrays
<1> QED
  BY <1>1, <1>3, <1>4, <1>5, QuietMoves

-----------------------------------------------------------------------------
(* Every step.                                                             *)

LEMMA InitMoves == Init => Moves
<1> SUFFICES ASSUME Init PROVE Moves
  OBVIOUS
<1>1. /\ owner = [p \in Parts |-> CoreList[(p % Len(CoreList)) + 1]]
      /\ pending = [c \in Cores |-> <<>>]
      /\ pc = [t \in Threads |-> IF t = Director THEN "rest" ELSE "poll"]
      /\ left = [w \in Workers |-> 0] /\ req = [w \in Workers |-> NoRequest]
      /\ change = [t \in Threads |-> NoChange] /\ target = [t \in Threads |-> 0]
      /\ plan = <<>> /\ scan = 0
  BY DEF Init
<1>2. owner \in [Parts -> Served]
  <2>1. \A p \in Parts : (p % Len(CoreList)) + 1 \in 1 .. Len(CoreList)
    <3> SUFFICES ASSUME NEW p \in Parts
                 PROVE  (p % Len(CoreList)) + 1 \in 1 .. Len(CoreList)
      OBVIOUS
    <3>1. p \in Int /\ Len(CoreList) \in Nat \ {0}
      BY Actors, PartitionsAssumption
    <3>2. p % Len(CoreList) \in 0 .. Len(CoreList) - 1
      BY SMT, <3>1
    <3> QED
      BY <3>1, <3>2
  <2> QED
    BY <1>1, <2>1, Actors
<1>3. MaxBatch \in Nat /\ Room \in Nat /\ Cardinality(Cores) \in Nat
  BY PartitionsAssumption, FS_CardinalityType
<1>4. Arrays
  <2>1. left \in [Workers -> 0 .. MaxBatch] /\ scan \in 0 .. Cardinality(Cores)
    BY <1>1, <1>3
  <2> QED
    BY <1>1, <1>2, <2>1 DEF Arrays
<1>5. <<>> \in Seq(Changes) /\ Len(<<>>) = 0
  BY EmptySeq
<1>6. Planned
  BY <1>1, <1>5 DEF Planned
<1>7. Queued
  BY <1>1, <1>3, <1>5 DEF Queued
<1>8. InHand
  BY <1>1 DEF InHand
<1> QED
  BY <1>4, <1>6, <1>7, <1>8 DEF Moves

LEMMA NextMoves ==
  ASSUME Moves, [Next]_vars
  PROVE  Moves'
<1>1. ASSUME NEW w \in Workers, Receive(w) \/ Idle(w) \/ Accept(w) \/ AllowMutation(w)
                                 \/ Retire(w) \/ EndBatch(w)
      PROVE  Moves'
  BY <1>1, BatchMoves
<1>2. ASSUME NEW t \in Threads, Dequeue(t) \/ Give(t) \/ Redirect(t)
      PROVE  Moves'
  BY <1>2, DequeueMoves, GiveMoves, RedirectMoves
<1>3. CASE Rebalance \/ AssignOwner \/ QueueChange \/ Rebalanced \/ Scan
  BY <1>3, RebalanceMoves, AssignMoves, QueueChangeMoves, WaitMoves
<1>4. CASE UNCHANGED vars
  BY <1>4 DEF vars, Moves, Arrays, Planned, Queued, InHand, Local
<1> QED
  BY <1>1, <1>2, <1>3, <1>4, Steps

\* Whatever is planned, queued, dropped, taken, stale or redirected, a change
\* is for a configured lcore of the partition's own domain, and no queue
\* outgrows its room (info.h:31-107).
THEOREM MovesInvariant == Spec => []Moves
<1> QED
  BY InitMoves, NextMoves, PTL DEF Spec

\* Only giving a partition away changes its owner.
LEMMA OwnerChanges ==
  ASSUME [Next]_vars
  PROVE  UNCHANGED owner \/ \E t \in Threads : Give(t)
BY Steps DEF Receive, Idle, Accept, AllowMutation, Retire, EndBatch, Dequeue, Redirect,
             Rebalance, AssignOwner, QueueChange, Rebalanced, Scan, vars

\* A partition never leaves the domain its memory is in.
THEOREM DomainsKept == Spec => StaysInDomain
<1>1. Moves /\ [Next]_vars => [\A p \in Parts : NumaOf[owner'[p]] = NumaOf[owner[p]]]_vars
  <2> SUFFICES ASSUME Moves, [Next]_vars
               PROVE  \A p \in Parts : NumaOf[owner'[p]] = NumaOf[owner[p]]
    OBVIOUS
  <2>1. CASE UNCHANGED owner
    BY <2>1
  <2>2. ASSUME NEW t \in Threads, Give(t)
        PROVE  \A p \in Parts : NumaOf[owner'[p]] = NumaOf[owner[p]]
    BY <2>2, GiveMoves
  <2> QED
    BY <2>1, <2>2, OwnerChanges
<1> QED
  BY <1>1, MovesInvariant, PTL DEF Spec, StaysInDomain

-----------------------------------------------------------------------------
(* One thread in a table.                                                  *)

\* Moves gives the type invariant.
LEMMA MovesTyped == Moves => TypeOK
<1> SUFFICES ASSUME Moves PROVE TypeOK
  OBVIOUS
<1>1. \A t \in Threads : change[t] # NoChange => change[t].new \in Served
  BY DEF Moves, InHand, Local, Changes
<1> QED
  BY <1>1 DEF Moves, Arrays, Queued, TypeOK, Served

LEMMA InitVisits == Init => Visits
<1> SUFFICES ASSUME Init PROVE Visits
  OBVIOUS
<1>1. /\ pc = [t \in Threads |-> IF t = Director THEN "rest" ELSE "poll"]
      /\ req = [w \in Workers |-> NoRequest]
  BY DEF Init
<1>2. \A w \in Workers : pc[w] = "poll"
  BY <1>1, Actors
<1>3. NoRequest \in Requests
  BY DEF NoRequest, Requests
<1> QED
  BY <1>1, <1>2, <1>3 DEF Visits

\* Steps outside a batch leave the requests alone.
LEMMA OthersVisit ==
  ASSUME Visits, Arrays, UNCHANGED <<owner, concurrentRead, req>>, NEW t \in Threads,
         NEW l \in {"request", "dequeue", "give", "redirect", "scan", "poll", "assign",
                    "queue", "rest"},
         pc' = [pc EXCEPT ![t] = l] \/ pc' = pc
  PROVE  Visits'
<1>1. \A w \in Workers : pc'[w] \in {"table", "allow"} => pc'[w] = pc[w]
  BY Actors DEF Arrays
<1> QED
  BY <1>1 DEF Visits, MayVisit

\* An accepted request is for the owner, or the configuration lets others in.
LEMMA AcceptVisits ==
  ASSUME Visits, Arrays, NEW w \in Workers, Accept(w), UNCHANGED concurrentRead,
         "reset" \notin Kinds
  PROVE  Visits'
<1>1. UNCHANGED owner
  BY DEF Accept
<1>2. PICK k \in Kinds, p \in Parts :
        IF Accepted(w, k, p)
        THEN /\ req' = [req EXCEPT ![w] = [kind |-> k, part |-> p, mutate |-> k \notin Reads]]
             /\ pc' = [pc EXCEPT ![w] = IF k = "get" THEN "allow" ELSE "table"]
        ELSE UNCHANGED <<req, pc>>
  BY DEF Accept, Goto
<1>3. CASE ~Accepted(w, k, p)
  BY <1>1, <1>2, <1>3 DEF Visits, MayVisit
<1>4. CASE Accepted(w, k, p)
  <2> DEFINE r == [kind |-> k, part |-> p, mutate |-> k \notin Reads]
  <2>1. /\ req' = [req EXCEPT ![w] = r]
        /\ pc' = [pc EXCEPT ![w] = IF k = "get" THEN "allow" ELSE "table"]
    BY <1>2, <1>4
  <2>2. r \in Requests /\ r.part = p /\ r.kind = k /\ r.mutate = (k \notin Reads)
    BY DEF Requests
  <2> HIDE DEF r
  <2>3. /\ req' \in [Workers -> Requests]
        /\ \A v \in Workers : /\ req'[v] = IF v = w THEN r ELSE req[v]
                              /\ pc'[v] = IF v = w
                                          THEN IF k = "get" THEN "allow" ELSE "table"
                                          ELSE pc[v]
    BY <2>1, <2>2, Actors DEF Visits, Arrays
  <2>4. k \in Reads \/ k \notin Reads
    OBVIOUS
  <2>5. owner[p] = w \/ ConcurrentWrite \/ (concurrentRead /\ k \in Reads)
    BY <1>4 DEF Accepted
  <2>6. MayVisit(w)'
    <3>1. req'[w] = r
      BY <2>3
    <3>2. r.kind # "reset"
      BY <2>2
    <3>3. CASE k \in Reads
      BY <1>1, <2>2, <2>5, <3>1, <3>2, <3>3 DEF MayVisit
    <3>4. CASE k \notin Reads
      BY <1>1, <2>2, <2>5, <3>1, <3>2, <3>4 DEF MayVisit
    <3> QED
      BY <3>3, <3>4
  <2>7. k = "get" => ~req'[w].mutate
    BY <2>2, <2>3 DEF Reads
  <2>8. \A v \in Workers : v # w => (MayVisit(v) => MayVisit(v)')
    BY <1>1, <2>3 DEF MayVisit
  <2> QED
    BY <2>3, <2>6, <2>7, <2>8 DEF Visits
<1> QED
  BY <1>3, <1>4

\* A get changes the table only if its thread owns it at that moment.
LEMMA AllowVisits ==
  ASSUME Visits, Arrays, NEW w \in Workers, AllowMutation(w), UNCHANGED concurrentRead
  PROVE  Visits'
<1> DEFINE m == (owner[req[w].part] = w)
<1>1. /\ pc[w] = "allow" /\ req' = [req EXCEPT ![w].mutate = m]
      /\ pc' = [pc EXCEPT ![w] = "table"] /\ UNCHANGED owner
  BY DEF AllowMutation, At, Goto
<1>2. MayVisit(w) /\ ~req[w].mutate /\ req[w] \in Requests
  BY <1>1 DEF Visits
<1>3. m \in BOOLEAN
  OBVIOUS
<1>4. m \/ ConcurrentWrite \/ (concurrentRead /\ ~m)
  BY <1>2 DEF MayVisit
<1>5. m => owner[req[w].part] = w
  OBVIOUS
<1> HIDE DEF m
<1>6. /\ req'[w] \in Requests /\ req'[w].part = req[w].part /\ req'[w].kind = req[w].kind
      /\ req'[w].mutate = m /\ req' \in [Workers -> Requests]
      /\ \A v \in Workers : /\ v # w => req'[v] = req[v]
                            /\ pc'[v] = IF v = w THEN "table" ELSE pc[v]
  BY <1>1, <1>2, <1>3, Actors DEF Visits, Arrays, Requests
<1>7. MayVisit(w)'
  BY <1>1, <1>2, <1>4, <1>5, <1>6 DEF MayVisit
<1>8. \A v \in Workers : v # w => (MayVisit(v) => MayVisit(v)')
  BY <1>1, <1>6 DEF MayVisit
<1> QED
  BY <1>6, <1>7, <1>8 DEF Visits

\* A worker leaves the table behind before it gives anything away.
LEMMA RetireVisits ==
  ASSUME Visits, Arrays, NEW w \in Workers, Retire(w), UNCHANGED concurrentRead
  PROVE  Visits'
<1>1. /\ req' = [req EXCEPT ![w] = NoRequest] /\ pc' = [pc EXCEPT ![w] = "request"]
      /\ UNCHANGED owner
  BY DEF Retire, Goto
<1>2. NoRequest \in Requests
  BY DEF NoRequest, Requests
<1>3. \A v \in Workers : /\ req'[v] = IF v = w THEN NoRequest ELSE req[v]
                         /\ pc'[v] = IF v = w THEN "request" ELSE pc[v]
  BY <1>1, Actors DEF Visits, Arrays
<1>4. req' \in [Workers -> Requests]
  BY <1>1, <1>2 DEF Visits
<1> QED
  BY <1>1, <1>3, <1>4 DEF Visits, MayVisit

\* A thread gives away only what its own lcore has.
LEMMA GiveOwn ==
  ASSUME Moves, NEW t \in Threads, Give(t)
  PROVE  /\ UNCHANGED req /\ pc[t] = "give"
         /\ \E l \in {"dequeue", "redirect"} : pc' = [pc EXCEPT ![t] = l]
         /\ \A p \in Parts : owner'[p] # owner[p] =>
                               owner[p] = Lcore(t) /\ pc'[t] = "dequeue"
<1> DEFINE c == change[t]
<1>1. pc[t] = "give" /\ UNCHANGED req
  BY DEF Give, At, work
<1>2. c.part \in Parts /\ owner \in [Parts -> Served] /\ DOMAIN pc = Threads
  BY <1>1 DEF Moves, InHand, Arrays, Local, Changes
<1>3. CASE owner[c.part] = Lcore(t)
  <2>1. owner' = [owner EXCEPT ![c.part] = c.new] /\ pc' = [pc EXCEPT ![t] = "dequeue"]
    BY <1>3 DEF Give, Goto
  <2> HIDE DEF c
  <2>2. \A p \in Parts : p # c.part => owner'[p] = owner[p]
    BY <1>2, <2>1
  <2> QED
    BY <1>1, <1>2, <1>3, <2>1, <2>2
<1>4. CASE owner[c.part] # Lcore(t)
  BY <1>1, <1>4 DEF Give, Goto
<1> QED
  BY <1>3, <1>4

\* What a worker's lcore has is given away by that worker: the director's lcore
\* has none.
LEMMA GiveByOwner ==
  ASSUME Moves, NEW t \in Threads, Give(t), DirLcore \notin Workers
  PROVE  \A p \in Parts : owner'[p] # owner[p] /\ owner[p] \in Workers =>
           owner[p] = t /\ pc[owner[p]] = "give" /\ pc'[owner[p]] = "dequeue"
BY GiveOwn, Actors DEF Lcore

\* A thread that gives a partition away is in no table.
LEMMA GiveVisits ==
  ASSUME Visits, Moves, NEW t \in Threads, Give(t), UNCHANGED concurrentRead,
         DirLcore \notin Workers
  PROVE  Visits'
<1>1. PICK l \in {"dequeue", "redirect"} : pc' = [pc EXCEPT ![t] = l]
  BY GiveOwn
<1>2. \A s \in Threads : pc'[s] = IF s = t THEN l ELSE pc[s]
  BY <1>1 DEF Moves, Arrays
<1>3. UNCHANGED req
  BY GiveOwn
<1>4. \A w \in Workers : w # t => (MayVisit(w) => MayVisit(w)')
  BY <1>3, GiveByOwner DEF MayVisit
<1> QED
  BY <1>2, <1>3, <1>4, Actors DEF Visits

LEMMA NextVisits ==
  ASSUME Visits, Moves, [Next]_vars, DirLcore \notin Workers, "reset" \notin Kinds
  PROVE  Visits'
<1> USE ModeFixed, Actors DEF Moves
<1>1. ASSUME NEW w \in Workers, Receive(w) \/ Idle(w) \/ EndBatch(w)
      PROVE  Visits'
  <2>1. /\ UNCHANGED <<owner, req>>
        /\ \E l \in {"request", "dequeue"} : pc' = [pc EXCEPT ![w] = l]
    BY <1>1 DEF Receive, Idle, EndBatch, Goto, work
  <2> QED
    BY <2>1, OthersVisit
<1>2. ASSUME NEW w \in Workers, Accept(w) \/ AllowMutation(w) \/ Retire(w)
      PROVE  Visits'
  BY <1>2, AcceptVisits, AllowVisits, RetireVisits
<1>3. ASSUME NEW t \in Threads, Dequeue(t) \/ Redirect(t)
      PROVE  Visits'
  <2>1. /\ UNCHANGED <<owner, req>>
        /\ \E l \in {"scan", "poll", "give", "dequeue"} : pc' = [pc EXCEPT ![t] = l]
    BY <1>3 DEF Dequeue, Redirect, Goto, work
  <2> QED
    BY <2>1, OthersVisit
<1>4. ASSUME NEW t \in Threads, Give(t)
      PROVE  Visits'
  BY <1>4, GiveVisits
<1>5. CASE Rebalance \/ AssignOwner \/ QueueChange \/ Rebalanced \/ Scan
  <2>1. /\ UNCHANGED <<owner, req>>
        /\ \E l \in {"assign", "queue", "dequeue", "rest"} :
              pc' = [pc EXCEPT ![Director] = l] \/ pc' = pc
    BY <1>5 DEF Rebalance, AssignOwner, QueueChange, Rebalanced, Scan, Goto, work
  <2> QED
    BY <2>1, OthersVisit
<1>6. CASE UNCHANGED vars
  BY <1>6 DEF vars, Visits, MayVisit
<1> QED
  BY <1>1, <1>2, <1>3, <1>4, <1>5, <1>6, Steps

\* Two that may visit one table may be there together.
LEMMA VisitsSole ==
  ASSUME Visits
  PROVE  SoleMutator
<1> SUFFICES ASSUME ~ConcurrentWrite, NEW v \in Workers, NEW w \in Workers, v # w,
                    Touched(v) \cap Touched(w) # {}
             PROVE  concurrentRead /\ ~(req[v].mutate /\ req[w].mutate)
  BY DEF SoleMutator
<1>1. pc[v] = "table" /\ pc[w] = "table"
  BY DEF Touched
<1>2. MayVisit(v) /\ MayVisit(w)
  BY <1>1 DEF Visits
<1>3. Touched(v) = {req[v].part} /\ Touched(w) = {req[w].part}
  BY <1>1, <1>2 DEF Touched, MayVisit
<1>4. req[v].part = req[w].part
  BY <1>3
<1> QED
  BY <1>2, <1>4 DEF MayVisit

\* Whatever changes are lost, stale or redirected while requests are processed,
\* nobody but the owner works on a table it must have to itself, provided the
\* directory thread's lcore serves no requests and none of them is a reset.
THEOREM OwnersAlone ==
  ASSUME DirLcore \notin Workers, "reset" \notin Kinds
  PROVE  Spec => []OwnersSound
<1>1. Moves /\ Visits => OwnersSound
  BY MovesTyped, VisitsSole DEF OwnersSound
<1>2. Moves /\ Visits /\ [Next]_vars => Visits'
  BY NextVisits
<1> QED
  BY <1>1, <1>2, MovesInvariant, InitVisits, PTL DEF Spec

\* Only an owner's own thread gives a partition away, between two batches,
\* provided the directory thread's lcore serves no requests.
THEOREM OwnersGive ==
  ASSUME DirLcore \notin Workers
  PROVE  Spec => OwnerGives
<1>1. Moves /\ [Next]_vars =>
        [\A p \in Parts : owner'[p] # owner[p] /\ owner[p] \in Workers =>
                            pc[owner[p]] = "give" /\ pc'[owner[p]] = "dequeue"]_vars
  <2> SUFFICES ASSUME Moves, [Next]_vars
               PROVE  \A p \in Parts : owner'[p] # owner[p] /\ owner[p] \in Workers =>
                            pc[owner[p]] = "give" /\ pc'[owner[p]] = "dequeue"
    OBVIOUS
  <2>1. CASE UNCHANGED owner
    BY <2>1
  <2>2. ASSUME NEW t \in Threads, Give(t)
        PROVE  \A p \in Parts : owner'[p] # owner[p] /\ owner[p] \in Workers =>
                            pc[owner[p]] = "give" /\ pc'[owner[p]] = "dequeue"
    BY <2>2, GiveByOwner
  <2> QED
    BY <2>1, <2>2, OwnerChanges
<1> QED
  BY <1>1, MovesInvariant, PTL DEF Spec, OwnerGives
=============================================================================
