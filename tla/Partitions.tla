----------------------------- MODULE Partitions -----------------------------
(***************************************************************************)
(* The request processor (mica/processor/partitions.h, partitions_impl/)   *)
(* as its threads share it: worker loops that process requests for the     *)
(* partitions they own, and the directory thread of DatagramServer, which  *)
(* rebalances the load and waits for the owners to hand partitions over.   *)
(*                                                                         *)
(* An lcore learns from its pending queue which partition to give away;    *)
(* the queue is the bounded FIFO that Queue.tla implements.  A table is    *)
(* here only a thing being read or changed: LTable.tla is its model.       *)
(***************************************************************************)
EXTENDS Integers, Sequences, FiniteSets, SequencesExt

CONSTANTS
  Cores,            \* the lcore ids, 0 .. lcore_count() - 1
  Workers,          \* lcores whose worker_proc() has an endpoint to serve
  Director,         \* the directory thread
  DirLcore,         \* directory_refresh_lcore_
  CoreList,         \* lcores_, in the order of the configuration
  NumaOf,           \* lcore -> NUMA domain
  Parts,            \* 0 .. partition_count_ - 1
  ReadModes,        \* settings of concurrent_read exercised
  ConcurrentWrite,
  UseEnso,          \* the build: a poll without packets repeats at once
  Kinds,            \* operations exercised: "get", "set", "reset"
  Room,             \* changes a pending queue holds (Capacity - 1)
  MaxLoad,          \* request counts exercised
  MaxBatch,         \* requests in one process() call
  MaxRounds         \* bound on the rebalances

ASSUME PartitionsAssumption ==
  /\ IsFiniteSet(Cores) /\ Cores = 0 .. Cardinality(Cores) - 1
  /\ Cores # {} /\ Workers \subseteq Cores
  /\ DirLcore \in Cores /\ Director \notin Cores
  /\ CoreList \in Seq(Cores) /\ CoreList # <<>>
  /\ NumaOf \in [Cores -> Nat]
  /\ Parts \subseteq Nat /\ IsFiniteSet(Parts) /\ ReadModes \subseteq BOOLEAN
  /\ Room \in Nat /\ MaxLoad \in Nat /\ MaxBatch \in Nat /\ MaxRounds \in Nat

Threads == Workers \cup {Director}
Lcore(t) == IF t = Director THEN DirLcore ELSE t   \* lcore_id()

VARIABLES
  concurrentRead,   \* the configuration's concurrent_read, fixed at the start
  owner,     \* owner_lcore_ids_
  pending,   \* pending_owner_lcore_changes_
  pc,
  left,      \* requests left in a worker's batch
  req,       \* the request being processed
  change,    \* c: the change a thread has taken from its queue
  target,    \* the lcore whose queue a change goes to
  plan,      \* assignments rebalance_load() has still to make
  scan,      \* queues wait_for_pending_owner_lcore_changes() has found empty
  rounds     \* rebalances so far

vars == <<concurrentRead, owner, pending, pc, left, req, change, target,
          plan, scan, rounds>>
work == <<left, req>>
director == <<plan, scan, rounds>>

NoRequest == [kind |-> "none", part |-> 0, mutate |-> FALSE]
NoChange == [part |-> 0, new |-> 0]

Init ==
  /\ concurrentRead \in ReadModes
  /\ owner = [p \in Parts |-> CoreList[(p % Len(CoreList)) + 1]]
  /\ pending = [c \in Cores |-> <<>>]
  /\ pc = [t \in Threads |-> IF t = Director THEN "rest" ELSE "poll"]
  /\ left = [w \in Workers |-> 0]
  /\ req = [w \in Workers |-> NoRequest]
  /\ change = [t \in Threads |-> NoChange]
  /\ target = [t \in Threads |-> 0]
  /\ plan = <<>> /\ scan = 0 /\ rounds = 0

At(t, l) == pc[t] = l
Goto(t, l) == pc' = [pc EXCEPT ![t] = l]

-----------------------------------------------------------------------------
(* process(): the requests of one batch.                                   *)

Receive(w) ==
  /\ At(w, "poll")
  /\ \E n \in 1 .. MaxBatch : left' = [left EXCEPT ![w] = n]
  /\ Goto(w, "request")
  /\ UNCHANGED <<owner, pending, req, change, target, director>>

\* No packet: the DPDK loop goes on to the pending changes, the Ensō loop polls.
Idle(w) ==
  /\ At(w, "poll") /\ ~UseEnso
  /\ Goto(w, "dequeue")
  /\ UNCHANGED <<owner, pending, work, change, target, director>>

Reads == {"get", "test"}

Accepted(w, k, p) ==
  \/ owner[p] = w
  \/ IF k \in Reads THEN concurrentRead ELSE ConcurrentWrite

Accept(w) ==
  /\ At(w, "request") /\ left[w] > 0
  /\ left' = [left EXCEPT ![w] = @ - 1]
  /\ \E k \in Kinds, p \in Parts :
       IF Accepted(w, k, p)
       THEN /\ req' = [req EXCEPT ![w] = [kind |-> k, part |-> p, mutate |-> k \notin Reads]]
            /\ Goto(w, IF k = "get" THEN "allow" ELSE "table")
       ELSE UNCHANGED <<req, pc>>    \* kRejected
  /\ UNCHANGED <<owner, pending, change, target, director>>

\* AllowMutation for every accepted get.
AllowMutation_Always(w) ==
  /\ At(w, "allow")
  /\ req' = [req EXCEPT ![w].mutate = TRUE]
  /\ Goto(w, "table")
  /\ UNCHANGED <<owner, pending, left, change, target, director>>

\* A get may move its item to the head of the log if the core owns the table.
AllowMutation(w) ==
  /\ At(w, "allow")
  /\ req' = [req EXCEPT ![w].mutate = (owner[req[w].part] = w)]
  /\ Goto(w, "table")
  /\ UNCHANGED <<owner, pending, left, change, target, director>>

Retire(w) ==
  /\ At(w, "table")
  /\ req' = [req EXCEPT ![w] = NoRequest]
  /\ Goto(w, "request")
  /\ UNCHANGED <<owner, pending, left, change, target, director>>

EndBatch(w) ==
  /\ At(w, "request") /\ left[w] = 0
  /\ Goto(w, "dequeue")
  /\ UNCHANGED <<owner, pending, work, change, target, director>>

\* The tables a request works on: a reset goes through the whole array.
Touched(w) ==
  IF pc[w] # "table" THEN {} ELSE IF req[w].kind = "reset" THEN Parts ELSE {req[w].part}

-----------------------------------------------------------------------------
(* apply_pending_owner_lcore_changes(), by workers and by the director.    *)

\* enqueue(): a change that meets a full queue is gone, and nobody is told.
Enqueue(c, chg) ==
  pending' = IF Len(pending[c]) < Room
             THEN [pending EXCEPT ![c] = Append(@, chg)]
             ELSE pending

Dequeue(t) ==
  /\ At(t, "dequeue")
  /\ LET q == pending[Lcore(t)]
     IN  IF q = <<>>
         THEN /\ Goto(t, IF t = Director THEN "scan" ELSE "poll")
              /\ UNCHANGED <<pending, change>>
         ELSE /\ change' = [change EXCEPT ![t] = Head(q)]
              /\ pending' = [pending EXCEPT ![Lcore(t)] = Tail(q)]
              /\ Goto(t, "give")
  /\ UNCHANGED <<owner, work, target, director>>

\* Give that sends a change of another core's partition back to its own queue.
Give_ToSelf(t) ==
  /\ At(t, "give")
  /\ IF owner[change[t].part] = Lcore(t)
     THEN /\ owner' = [owner EXCEPT ![change[t].part] = change[t].new]
          /\ change' = [change EXCEPT ![t] = NoChange]
          /\ Goto(t, "dequeue")
          /\ UNCHANGED target
     ELSE /\ target' = [target EXCEPT ![t] = Lcore(t)]
          /\ Goto(t, "redirect")
          /\ UNCHANGED <<owner, change>>
  /\ UNCHANGED <<pending, work, director>>

Give(t) ==
  /\ At(t, "give")
  /\ IF owner[change[t].part] = Lcore(t)
     THEN /\ owner' = [owner EXCEPT ![change[t].part] = change[t].new]
          /\ change' = [change EXCEPT ![t] = NoChange]
          /\ Goto(t, "dequeue")
          /\ UNCHANGED target
     ELSE /\ target' = [target EXCEPT ![t] = owner[change[t].part]]
          /\ Goto(t, "redirect")
          /\ UNCHANGED <<owner, change>>
  /\ UNCHANGED <<pending, work, director>>

Redirect(t) ==
  /\ At(t, "redirect")
  /\ Enqueue(target[t], change[t])
  /\ change' = [change EXCEPT ![t] = NoChange]
  /\ target' = [target EXCEPT ![t] = 0]
  /\ Goto(t, "dequeue")
  /\ UNCHANGED <<owner, work, director>>

-----------------------------------------------------------------------------
(* rebalance_load().  The request counts are arbitrary: they are sums of   *)
(* counters the workers increase meanwhile.                                *)

\* The partitions of p's domain that are packed before p: those with more
\* requests, and of those with as many the earlier ones (stable_sort).
Before(load, p) ==
  { q \in Parts : /\ NumaOf[owner[q]] = NumaOf[owner[p]]
                  /\ load[q] > load[p] \/ (load[q] = load[p] /\ q < p) }

\* estimated_load of the k-th lcore when p's turn comes.
Estimated(load, to, p, k) ==
  MapThenSumSet(LAMBDA q : load[q], { q \in Before(load, p) : to[q] = k })

\* Candidates that take the lcores of every domain.
Candidates_AllCores(p) == DOMAIN CoreList

Candidates(p) == { k \in DOMAIN CoreList : NumaOf[CoreList[k]] = NumaOf[owner[p]] }

\* The greedy packing: each partition to the first of the least loaded lcores
\* of its domain.
Packing(load, to) ==
  \A p \in Parts :
    /\ to[p] \in Candidates(p)
    /\ \A k \in Candidates(p) :
         \/ Estimated(load, to, p, to[p]) < Estimated(load, to, p, k)
         \/ Estimated(load, to, p, to[p]) = Estimated(load, to, p, k) /\ to[p] <= k

\* Domains without a request are left alone.
Requested(load) ==
  { p \in Parts : \E q \in Parts : NumaOf[owner[q]] = NumaOf[owner[p]] /\ load[q] > 0 }

\* Domain after domain, the most requested partition first.
InOrder(load, order) ==
  \A j, k \in DOMAIN order :
    j < k => \/ NumaOf[owner[order[j]]] < NumaOf[owner[order[k]]]
             \/ order[j] \in Before(load, order[k])

Rebalance ==
  /\ At(Director, "rest") /\ rounds < MaxRounds
  /\ rounds' = rounds + 1
  /\ \E load \in [Parts -> 0 .. MaxLoad] :
     \E to \in { to \in [Parts -> DOMAIN CoreList] : Packing(load, to) } :
     \E order \in [1 .. Cardinality(Requested(load)) -> Requested(load)] :
       /\ InOrder(load, order)
       /\ plan' = [k \in DOMAIN order |-> [part |-> order[k], new |-> CoreList[to[order[k]]]]]
  /\ Goto(Director, "assign")
  /\ UNCHANGED <<owner, pending, work, change, target, scan>>

\* AssignOwner that stores the new owner itself.
AssignOwner_Directly ==
  /\ At(Director, "assign") /\ plan # <<>>
  /\ owner' = [owner EXCEPT ![Head(plan).part] = Head(plan).new]
  /\ plan' = Tail(plan)
  /\ UNCHANGED <<pending, pc, work, change, target, scan, rounds>>

\* set_new_owner_lcore_id(): the owner is read here, the change queued later.
AssignOwner ==
  /\ At(Director, "assign") /\ plan # <<>>
  /\ LET c == Head(plan)
     IN  IF owner[c.part] = c.new
         THEN UNCHANGED <<change, target, pc>>
         ELSE /\ change' = [change EXCEPT ![Director] = c]
              /\ target' = [target EXCEPT ![Director] = owner[c.part]]
              /\ Goto(Director, "queue")
  /\ plan' = Tail(plan)
  /\ UNCHANGED <<owner, pending, work, scan, rounds>>

QueueChange ==
  /\ At(Director, "queue")
  /\ Enqueue(target[Director], change[Director])
  /\ change' = [change EXCEPT ![Director] = NoChange]
  /\ target' = [target EXCEPT ![Director] = 0]
  /\ Goto(Director, "assign")
  /\ UNCHANGED <<owner, work, director>>

\* rebalance_load() is done: wait_for_pending_owner_lcore_changes() begins.
Rebalanced ==
  /\ At(Director, "assign") /\ plan = <<>>
  /\ Goto(Director, "dequeue")
  /\ UNCHANGED <<owner, pending, work, change, target, director>>

\* One queue's approximate_empty(): all found empty ends the wait.
Scan ==
  /\ At(Director, "scan")
  /\ IF scan = Cardinality(Cores)
     THEN scan' = 0 /\ Goto(Director, "rest")
     ELSE IF pending[scan] = <<>>
     THEN scan' = scan + 1 /\ UNCHANGED pc
     ELSE scan' = 0 /\ Goto(Director, "dequeue")
  /\ UNCHANGED <<owner, pending, work, change, target, plan, rounds>>

Applying(t) == Dequeue(t) \/ Give(t) \/ Redirect(t)
Processing(w) == Accept(w) \/ AllowMutation(w) \/ Retire(w) \/ EndBatch(w)
Directing == AssignOwner \/ QueueChange \/ Rebalanced \/ Scan \/ Applying(Director)

Next ==
  /\ \/ \E w \in Workers : Receive(w) \/ Idle(w) \/ Processing(w) \/ Applying(w)
     \/ Rebalance \/ Directing
  /\ UNCHANGED concurrentRead

\* Threads keep running; when packets arrive and loads shift is not theirs to say.
Fairness ==
  /\ \A w \in Workers :
       WF_vars((Idle(w) \/ Processing(w) \/ Applying(w)) /\ UNCHANGED concurrentRead)
  /\ WF_vars(Directing /\ UNCHANGED concurrentRead)

Spec == Init /\ [][Next]_vars
FairSpec == Spec /\ Fairness

-----------------------------------------------------------------------------
(* Properties.                                                             *)

\* Type correctness; partitions are only ever given to configured lcores.
TypeOK ==
  /\ owner \in [Parts -> Range(CoreList)]
  /\ \A c \in Cores : Len(pending[c]) <= Room
  /\ \A t \in Threads : change[t] # NoChange => change[t].new \in Range(CoreList)
  /\ left \in [Workers -> 0 .. MaxBatch]
  /\ scan \in 0 .. Cardinality(Cores)

\* Two workers never work on one table unless the configuration lets them
\* (partitions.h:33-36, process.h:118-139): without concurrent_write one thread
\* changes it, without concurrent_read one thread uses it, also while ownership
\* moves between the requests of two cores.
SoleMutator ==
  ConcurrentWrite \/
  \A v, w \in Workers :
    (v # w /\ Touched(v) \cap Touched(w) # {}) =>
      concurrentRead /\ ~(req[v].mutate /\ req[w].mutate)

\* Whatever changes are lost, stale or redirected, a partition belongs to a
\* configured lcore, the queues keep within their room, and nobody but the
\* owner works on a table it must have to itself.
OwnersSound == TypeOK /\ SoleMutator

\* Only the current owner lcore can give a partition away (info.h:86-87), and
\* not while its worker is busy with a request.
OwnerGives ==
  [][\A p \in Parts :
       owner'[p] # owner[p] /\ owner[p] \in Workers =>
         pc[owner[p]] = "give" /\ pc'[owner[p]] = "dequeue"]_vars

\* A partition never leaves the NUMA domain its memory is in (init.h:80,96,
\* info.h:117-122), however stale the owners a change is computed from.
StaysInDomain == [][\A p \in Parts : NumaOf[owner'[p]] = NumaOf[owner[p]]]_vars

\* The wait ends: queued changes are applied or sent on until every queue has
\* been seen empty (info.h:57-80), and the director refreshes the directory.
WaitEnds == (pc[Director] # "rest") ~> (pc[Director] = "rest")
=============================================================================
