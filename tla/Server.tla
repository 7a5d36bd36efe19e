------------------------------- MODULE Server -------------------------------
(***************************************************************************)
(* One worker of DatagramServer, in the build on DPDK: worker_proc(), the  *)
(* RequestAccessor it hands to the processor, the stages of                *)
(* Partitions::process(), and the packet buffers of the network back end.  *)
(*                                                                         *)
(* A burst of packets is parsed one packet at a time into a ring of parsed *)
(* requests.  process() runs every request through stages that lie         *)
(* stage_gap requests apart; the last stage answers it and retires it, and *)
(* the last request of a packet sends the answers off and frees the packet.*)
(* What a table does with a request is LTable's matter, and which requests *)
(* are rejected is that of Partitions: here an answer is the partition it came from.*)
(***************************************************************************)
EXTENDS Integers, Sequences, FiniteSets, FiniteSetsExt, SequencesExt

CONSTANTS
  NumEndpoints,   \* endpoints of the worker
  RXBurst, TXBurst, TXMinBurst,   \* kRXBurst, kTXBurst, kTXMinBurst
  Ring,           \* kMaxParsedRequestCount
  StageGaps,      \* values of the configuration's stage_gap
  RXDesc, TXDesc, \* kRXDescCount, kTXDescCount
  NumBuffers,     \* packet buffers of the pool
  MaxRequests,    \* requests that fit in a packet
  Sizes,          \* the numbers of requests exercised
  MaxPackets,     \* bound on the packets that arrive
  MaxBad          \* and on those among them that are no valid request

\* The comment on kMaxParsedRequestCount asks for the larger of the two
\* summands only; the ring has to hold their sum.
ASSUME ServerAssumption ==
  /\ { NumEndpoints, RXBurst, TXBurst, TXMinBurst, Ring, RXDesc, TXDesc,
       NumBuffers } \subseteq Nat \ {0}
  /\ { MaxRequests, MaxPackets, MaxBad } \subseteq Nat
  /\ StageGaps \subseteq 1 .. 255     \* uint8_t
  /\ Sizes \subseteq 0 .. MaxRequests
  /\ TXMinBurst <= TXBurst
  /\ \A g \in StageGaps, n \in Sizes : n + 3 * g <= Ring

Endpoints == 0 .. NumEndpoints - 1
Buffers == 1 .. NumBuffers

VARIABLES          \* the network back end
  pool,            \* the mempool
  data,            \* what a buffer holds
  rx, tx,          \* the descriptor rings of an endpoint
  arrived, bad     \* packets, and bad packets, so far

VARIABLES          \* worker_proc()
  pc,
  nextIndex,       \* next_index: the endpoint to serve next
  ep,              \* the endpoint being served
  pendingTx,       \* pending_tx.bufs of each endpoint
  late             \* pending_tx.oldest_time lies kTXBurstTimeout before now

VARIABLES          \* RequestAccessor
  bufs, parsed,    \* bufs_ and next_packet_index_to_parse_
  requests,        \* requests_
  prepareIdx,      \* next_index_to_prepare_
  retireIdx,       \* next_index_to_retire_
  batch            \* pending_response_batch_

VARIABLES          \* Partitions::process()
  stageGap, i, count,
  slots            \* partition_ids

VARIABLES          \* for the properties
  lost,            \* buffers that nobody will release any more
  replies          \* response batches, in the order they were finished

network == <<pool, data, rx, tx, arrived, bad>>
worker == <<nextIndex, ep, pendingTx, late>>
accessor == <<bufs, parsed, requests, prepareIdx, retireIdx, batch>>
pipeline == <<i, count, slots>>
history == <<lost, replies>>
vars == <<network, pc, worker, accessor, pipeline, stageGap, history>>
-----------------------------------------------------------------------------
(* Packets: a batch of `size' requests, anything else, or a response.      *)

NoPacket == [kind |-> "none"]
Batch(num, size) == [kind |-> "request", num |-> num, size |-> size]
BadPacket == [kind |-> "bad"]
Response(to, answers) == [kind |-> "response", to |-> to, answers |-> answers]

\* The j-th request of packet num.  Requests are told apart by the partition
\* of their key, the most that the stages could confuse.
RequestId(num, j) == <<num, j>>
PartitionId(id) == id
NoRequest == [src |-> 0, id |-> <<0, 0>>, last |-> FALSE]

\* is_valid(), is_request(), and at least one find_next().
IsBatch(b) == data[b].kind = "request"
HasRequests(b) == IsBatch(b) /\ data[b].size > 0

\* Buffers of the pool are alike: which one is taken does not matter.
Fresh(S) == CHOOSE b \in S : \A c \in S : b <= c

\* More than any burst holds: static_cast<uint32_t>(-1).
Unlimited == RXBurst * MaxRequests + 1

PowersOfTwo == { 2 ^ k : k \in 0 .. 10 }

\* next_power_of_two(3 * stage_gap), the size of partition_ids.
\* Mutant: two gaps of slots between the stage that writes and the one that reads.
PipelineSize_Short(g) == Min({ n \in PowersOfTwo : n >= 2 * g })

PipelineSize(g) == Min({ n \in PowersOfTwo : n >= 3 * g })
NoSlots(g) == [k \in 0 .. PipelineSize(g) - 1 |-> <<0, 0>>]

Init ==
  /\ pool = Buffers \ {1}
  /\ data = [b \in Buffers |-> NoPacket]
  /\ rx = [e \in Endpoints |-> <<>>] /\ tx = [e \in Endpoints |-> <<>>]
  /\ arrived = 0 /\ bad = 0
  /\ pc = "receive" /\ nextIndex = 0 /\ ep = 0
  /\ pendingTx = [e \in Endpoints |-> <<>>]
  /\ late = [e \in Endpoints |-> FALSE]
  /\ bufs = <<>> /\ parsed = 0
  /\ requests = [k \in 0 .. Ring - 1 |-> NoRequest]
  /\ prepareIdx = 0 /\ retireIdx = 0
  /\ batch = [buf |-> 1, answers |-> <<>>]
  /\ stageGap \in StageGaps
  /\ i = 0 /\ count = Unlimited
  /\ slots = NoSlots(stageGap)
  /\ lost = {} /\ replies = <<>>
-----------------------------------------------------------------------------
(* The network.                                                            *)

\* The card writes a packet into a buffer of the pool; without a buffer or
\* a free descriptor it drops the packet.
Arrive(e, packet) ==
  /\ arrived < MaxPackets
  /\ packet.kind = "bad" => bad < MaxBad
  /\ Len(rx[e]) < RXDesc /\ pool # {}
  /\ LET b == Fresh(pool) IN
     /\ pool' = pool \ {b}
     /\ data' = [data EXCEPT ![b] = packet]
     /\ rx' = [rx EXCEPT ![e] = Append(@, b)]
  /\ arrived' = arrived + 1
  /\ bad' = IF packet.kind = "bad" THEN bad + 1 ELSE bad
  /\ UNCHANGED <<tx, pc, worker, accessor, pipeline, stageGap, history>>

\* The card has sent a packet, and its buffer goes back to the pool.
Transmit(e) ==
  /\ tx[e] # <<>>
  /\ tx' = [tx EXCEPT ![e] = Tail(@)]
  /\ pool' = pool \cup {Head(tx[e])}
  /\ UNCHANGED <<data, rx, arrived, bad, pc, worker, accessor, pipeline,
                 stageGap, history>>

\* send(): packets that find no descriptor are dropped and released.
Room(e) == TXDesc - Len(tx[e])
Taken(e, out) == SubSeq(out, 1, Min({ Room(e), Len(out) }))

Dropped(e, out) == ToSet(SubSeq(out, Len(Taken(e, out)) + 1, Len(out)))
-----------------------------------------------------------------------------
(* worker_proc().                                                          *)

\* kTXBurstTimeout passes since the first pending response was finished, in
\* time for the loop's next `now'.
Age(e) ==
  /\ pc = "receive" /\ pendingTx[e] # <<>> /\ ~late[e]
  /\ late' = [late EXCEPT ![e] = TRUE]
  /\ UNCHANGED <<network, pc, nextIndex, ep, pendingTx, accessor, pipeline,
                 stageGap, history>>

\* receive() of the next endpoint, and setup() and the start of process()
\* when there is something.
Receive ==
  /\ pc = "receive"
  /\ ep' = nextIndex
  /\ nextIndex' = (nextIndex + 1) % NumEndpoints
  /\ LET n == Min({ RXBurst, Len(rx[nextIndex]) }) IN
     /\ bufs' = SubSeq(rx[nextIndex], 1, n)
     /\ rx' = [rx EXCEPT ![nextIndex] = SubSeq(@, n + 1, Len(@))]
     /\ pc' = IF n > 0 THEN "fetch" ELSE "check"
  /\ parsed' = 0 /\ prepareIdx' = 0 /\ retireIdx' = 0
  /\ i' = 0 /\ count' = Unlimited /\ slots' = NoSlots(stageGap)
  /\ UNCHANGED <<pool, data, tx, arrived, bad, pendingTx, late, requests,
                 batch, stageGap, history>>

\* check_pending_tx_min() and check_pending_tx_timeout().

\* Mutant: the timeout is forgotten.
MustSend_AtMin(e) == Len(pendingTx[e]) = TXMinBurst

MustSend(e) == \/ Len(pendingTx[e]) = TXMinBurst
               \/ pendingTx[e] # <<>> /\ late[e]

CheckPending ==
  /\ pc = "check"
  /\ IF MustSend(ep)
     THEN /\ tx' = [tx EXCEPT ![ep] = @ \o Taken(ep, pendingTx[ep])]
          /\ pool' = pool \cup Dropped(ep, pendingTx[ep])
          /\ pendingTx' = [pendingTx EXCEPT ![ep] = <<>>]
     ELSE UNCHANGED <<tx, pool, pendingTx>>
  /\ pc' = "receive"
  /\ UNCHANGED <<data, rx, arrived, bad, nextIndex, ep, late, accessor,
                 pipeline, stageGap, history>>
-----------------------------------------------------------------------------
(* process(): an iteration of its loop is a Fetch and an Execute.          *)

\* parse_request_batch(): the next packet with requests, if there is one,
\* and the packets passed over on the way to it.
NextBatch ==
  LET S == { m \in parsed + 1 .. Len(bufs) : HasRequests(bufs[m]) }
  IN  IF S = {} THEN Len(bufs) + 1 ELSE Min(S)
PassedOver == { bufs[m] : m \in parsed + 1 .. NextBatch - 1 }

\* An invalid packet is left behind; an empty batch is released.

\* Mutant: an empty batch is left behind too.
PassOver_KeepsEmpty ==
  /\ UNCHANGED <<lost, pool>>
  /\ parsed' = Min({ NextBatch, Len(bufs) })

PassOver ==
  /\ lost' = lost \cup { b \in PassedOver : ~IsBatch(b) }
  /\ pool' = pool \cup { b \in PassedOver : IsBatch(b) }
  /\ parsed' = Min({ NextBatch, Len(bufs) })

\* The slot of requests_ that gets last_in_packet.

\* Mutant: the slot after the packet's last request.
LastPrepared_Off(next) == next % Ring

LastPrepared(next) == (next + Ring - 1) % Ring

Parse ==
  /\ NextBatch <= Len(bufs)
  /\ PassOver
  /\ LET b == bufs[NextBatch]
         next == prepareIdx + data[b].size
         written == [k \in 0 .. Ring - 1 |->
           LET J == { j \in 1 .. data[b].size : (prepareIdx + j - 1) % Ring = k }
           IN  IF J = {} THEN requests[k]
               ELSE [src |-> b, id |-> RequestId(data[b].num, Max(J)),
                     last |-> FALSE]]
     IN  /\ requests' = [written EXCEPT ![LastPrepared(next)].last = TRUE]
         /\ prepareIdx' = next
  /\ UNCHANGED count

ParseNothing ==
  /\ NextBatch > Len(bufs)
  /\ PassOver
  /\ count' = i
  /\ UNCHANGED <<requests, prepareIdx>>

\* prepare() where the request has been parsed already.
NoParse == UNCHANGED <<lost, pool, parsed, requests, prepareIdx, count>>

\* Stages 0 and 1: prepare() and the choice of the partition.
Fetch ==
  /\ pc = "fetch"
  /\ IF count = Unlimited /\ i = prepareIdx
     THEN Parse \/ ParseNothing
     ELSE NoParse
  /\ LET k == i - stageGap IN
     slots' = IF 0 <= k /\ k < count'
              THEN [slots EXCEPT ![k % PipelineSize(stageGap)] =
                                    PartitionId(requests'[k % Ring].id)]
              ELSE slots
  /\ pc' = "execute"
  /\ UNCHANGED <<data, rx, tx, arrived, bad, worker, bufs, retireIdx, batch,
                 stageGap, i, replies>>

\* The request at stage 3, and the answer its partition gives.
Index == i - 3 * stageGap
Request == requests[Index % Ring]
Answer == [id |-> Request.id, part |-> slots[Index % PipelineSize(stageGap)]]

\* The loop's head: i_ < count_plus_gap.
Advance ==
  /\ i' = i + 1
  /\ pc' = IF i + 1 < count + 3 * stageGap THEN "fetch" ELSE "check"

\* Stage 3 has nothing to do at the start and at the end of a burst.
Idle ==
  /\ pc = "execute"
  /\ ~(0 <= Index /\ Index < count)
  /\ Advance
  /\ UNCHANGED <<network, worker, accessor, count, slots, stageGap, history>>

\* Stage 3 and retire() of a request that is not the last of its packet.
Retire ==
  /\ pc = "execute"
  /\ 0 <= Index /\ Index < count
  /\ ~Request.last
  /\ batch' = [batch EXCEPT !.answers = Append(@, Answer)]
  /\ retireIdx' = retireIdx + 1
  /\ Advance
  /\ UNCHANGED <<network, worker, bufs, parsed, requests, prepareIdx, count,
                 slots, stageGap, history>>

\* Mutant: the packet is kept.
Released_Never(r) == {}

\* retire() releases a packet with its last request.
Released(r) == IF r.last THEN {r.src} ELSE {}

\* check_pending_tx_full().
\* Mutant: it sends when one more than a burst is pending.
Full_Late(out) == Len(out) > TXBurst

Full(out) == Len(out) = TXBurst

\* The last of its packet: flush_pending_response_batch(), which sends when
\* the endpoint's pending packets fill a burst (check_pending_tx_full), then
\* make_new_pending_response_batch() and the release of the packet.
RetireLast ==
  /\ pc = "execute"
  /\ 0 <= Index /\ Index < count
  /\ Request.last
  /\ LET answers == Append(batch.answers, Answer)
         src == Request.src
         out == Append(pendingTx[ep], batch.buf)
         left == IF Full(out) THEN pool \cup Dropped(ep, out) ELSE pool
     IN  /\ data' = [data EXCEPT ![batch.buf] = Response(data[src].num, answers)]
         /\ replies' = Append(replies, [to |-> data[src].num,
                                        size |-> data[src].size,
                                        answers |-> answers])
         /\ tx' = IF Full(out) THEN [tx EXCEPT ![ep] = @ \o Taken(ep, out)] ELSE tx
         /\ pendingTx' = [pendingTx EXCEPT ![ep] = IF Full(out) THEN <<>> ELSE out]
         /\ late' = [late EXCEPT ![ep] = @ /\ pendingTx[ep] # <<>>]
         /\ IF left = {}
            THEN /\ pc' = "aborted"
                 /\ UNCHANGED <<pool, batch, i>>
            ELSE /\ batch' = [buf |-> Fresh(left), answers |-> <<>>]
                 /\ pool' = (left \ {Fresh(left)}) \cup Released(Request)
                 /\ Advance
  /\ retireIdx' = retireIdx + 1
  /\ UNCHANGED <<rx, arrived, bad, nextIndex, ep, bufs, parsed, requests,
                 prepareIdx, count, slots, stageGap, lost>>
-----------------------------------------------------------------------------
Packets == {BadPacket} \cup { Batch(arrived + 1, n) : n \in Sizes }

Next ==
  \/ \E e \in Endpoints, packet \in Packets : Arrive(e, packet)
  \/ \E e \in Endpoints : Transmit(e) \/ Age(e)
  \/ Receive \/ CheckPending
  \/ Fetch \/ Idle \/ Retire \/ RetireLast

\* The worker is a pinned thread that never blocks, and time passes: responses
\* that the worker keeps finding pending grow old, which is strong fairness,
\* as Age is enabled once per loop.  Nothing is assumed of the card or of the
\* clients.
Work == Receive \/ CheckPending \/ Fetch \/ Idle \/ Retire \/ RetireLast
Fairness == WF_vars(Work) /\ \A e \in Endpoints : SF_vars(Age(e))

Spec == Init /\ [][Next]_vars /\ Fairness
-----------------------------------------------------------------------------
(* Properties.                                                             *)

Ids == (0 .. MaxPackets) \X (0 .. MaxRequests)
Answers == Seq([id : Ids, part : Ids])
Contents == { NoPacket, BadPacket }
            \cup [kind : {"request"}, num : 1 .. MaxPackets, size : Sizes]

\* The worker's state has the shape the code gives it: no array is written
\* past its end.
TypeOK ==
  /\ pool \subseteq Buffers /\ lost \subseteq Buffers
  /\ \A b \in Buffers :
       data[b] \in Contents
       \/ /\ data[b].kind = "response"
          /\ data[b].to \in 1 .. MaxPackets /\ data[b].answers \in Answers
  /\ \A e \in Endpoints :
       /\ rx[e] \in Seq(Buffers) /\ Len(rx[e]) <= RXDesc
       /\ tx[e] \in Seq(Buffers) /\ Len(tx[e]) <= TXDesc
       /\ pendingTx[e] \in Seq(Buffers) /\ Len(pendingTx[e]) < TXBurst
       /\ late[e] \in BOOLEAN
  /\ pc \in {"receive", "fetch", "execute", "check", "aborted"}
  /\ nextIndex \in Endpoints /\ ep \in Endpoints
  /\ bufs \in Seq(Buffers) /\ Len(bufs) <= RXBurst /\ parsed \in 0 .. Len(bufs)
  /\ requests \in [0 .. Ring - 1 -> [src : 0 .. NumBuffers, id : Ids, last : BOOLEAN]]
  /\ {prepareIdx, retireIdx, count} \subseteq 0 .. Unlimited
  /\ batch.buf \in Buffers /\ batch.answers \in Answers
  /\ stageGap \in StageGaps /\ i \in Nat
  /\ slots \in [0 .. PipelineSize(stageGap) - 1 -> Ids]

\* The parsed requests that are still to be retired.
Window == retireIdx .. prepareIdx - 1
Held == { requests[k % Ring].src : k \in Window }

\* Where the packet buffers are: the lists, and the sets of buffers.
Burst == SubSeq(bufs, parsed + 1, Len(bufs))
Lists == { Burst } \cup UNION { { rx[e], tx[e], pendingTx[e] } : e \in Endpoints }
Places ==
  ({ "pool", "lost", "burst", "held", "batch" } \X {0}) \cup ({ "rx", "tx", "pending" } \X Endpoints)
Holding(p) ==
  CASE p[1] = "pool"    -> pool
    [] p[1] = "lost"    -> lost
    [] p[1] = "burst"   -> ToSet(Burst)
    [] p[1] = "held"    -> Held
    [] p[1] = "batch"   -> { batch.buf }
    [] p[1] = "rx"      -> ToSet(rx[p[2]])
    [] p[1] = "tx"      -> ToSet(tx[p[2]])
    [] p[1] = "pending" -> ToSet(pendingTx[p[2]])

\* Every packet buffer is in exactly one place, and there once, unless the
\* process has aborted: none is released twice, used after its release, or
\* dropped on the floor, but for the packets that parse_request_batch() finds
\* invalid (datagram_server_impl.h:745).
BuffersAccounted ==
  pc # "aborted" =>
    /\ \A b \in Buffers : \E p \in Places : { q \in Places : b \in Holding(q) } = { p }
    /\ \A list \in Lists : IsInjective(list)

\* The ring of parsed requests never runs over itself: the requests between
\* the next to retire and the next to prepare are those of the packets
\* still held, in order, and the last of a packet, and it alone, is marked
\* (the assertion at datagram_server_impl.h:751 and last_in_packet).
WindowIntact ==
  \A k \in Window :
    LET r == requests[k % Ring]
        next == requests[(k + 1) % Ring]
    IN  /\ HasRequests(r.src)
        /\ r.id[1] = data[r.src].num
        /\ r.last <=> r.id[2] = data[r.src].size
        /\ k + 1 \in Window =>
             IF r.last THEN next.id[2] = 1 ELSE next.id = <<r.id[1], r.id[2] + 1>>

\* A response batch answers one packet, all its requests in order, each with
\* the result of its own partition, and no packet is answered twice.
RepliesRight ==
  /\ \A r \in ToSet(replies) :
       r.answers = [j \in 1 .. r.size |-> [id |-> RequestId(r.to, j),
                                           part |-> RequestId(r.to, j)]]
  /\ \A j, k \in DOMAIN replies : replies[j].to = replies[k].to => j = k

\* The buffers a queue is given beyond its descriptors (kSpareMBufCount) are
\* enough for make_new_pending_response_batch() to find one
\* (the assertions at datagram_server_impl.h:798 and dpdk_impl.h:476).
AllocSucceeds == pc # "aborted"

\* Every request packet that reached a descriptor is answered, and its
\* answer leaves for the card; that only one of check_pending_tx_full, _min
\* and _timeout has to notice it is not enough for a test to show.
Waiting(p) == \E e \in Endpoints : \E b \in ToSet(rx[e]) :
                HasRequests(b) /\ data[b].num = p
Answered(p) == /\ \E r \in ToSet(replies) : r.to = p
               /\ \A e \in Endpoints : \A b \in ToSet(pendingTx[e]) : data[b].to # p
RepliesLeave == \A p \in 1 .. MaxPackets : Waiting(p) ~> Answered(p)
=============================================================================
