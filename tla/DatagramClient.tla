--------------------------- MODULE DatagramClient ---------------------------
(***************************************************************************)
(* One thread of MICA's datagram client (mica/datagram/datagram_client.h,  *)
(* datagram_client_impl.h, the DPDK build) and the network it uses.        *)
(*                                                                         *)
(* A request holds a request descriptor from append_request() until its    *)
(* response or its time-out is handled.  The descriptors are linked in two *)
(* lists, the active one in the order of allocation.  A request carries    *)
(* the descriptor and its epoch; the server copies both into the response, *)
(* which is accepted only while the epoch is still the descriptor's.       *)
(*                                                                         *)
(* Request packets wait in pending_tx until a burst is full or the oldest  *)
(* of them has waited TXTimeout.  The network loses, delays, reorders and  *)
(* duplicates packets.  The server executes whatever request it receives.  *)
(*                                                                         *)
(* A request goes to an endpoint of the lcore that owns its partition.  A  *)
(* directory thread refreshes the owners and then tells the client thread  *)
(* by a flag to choose the endpoints again; there is no lock.              *)
(*                                                                         *)
(* Times are counted in ticks; a tick may fall anywhere, also inside a     *)
(* call of handle_response(), which compares with the time it started at.  *)
(***************************************************************************)
EXTENDS Integers, FiniteSets

CONSTANTS
  NumRds,          \* kMaxOutstandingRequestCount
  EpochMod,        \* 2^16, the number of epochs
  RequestTimeout,  \* kRequestTimeout
  TXBurst,         \* kTXBurst
  TXMinBurst,      \* kTXMinBurst
  TXTimeout,       \* kTXBurstTimeout
  MaxNet,          \* bound on the packets in flight
  NumParts,        \* partition_count of the server
  NumEndpoints,    \* endpoint_count of the server
  LcoreOf,         \* ServerEndpointInfo::owner_lcore_id: endpoint -> lcore
  Reachable        \* endpoints some local endpoint can talk to

Rds == 0 .. NumRds - 1
NullRD == NumRds   \* kNullRD, a number above every descriptor

Parts == 0 .. NumParts - 1
Endpoints == 0 .. NumEndpoints - 1
Lcores == { LcoreOf[e] : e \in Endpoints }

ASSUME RouteAssumption ==
  /\ NumParts \in Nat \ {0} /\ NumEndpoints \in Nat \ {0}
  /\ DOMAIN LcoreOf = Endpoints /\ Reachable \subseteq Endpoints

ASSUME ClientAssumption ==
  /\ NumRds \in Nat \ {0} /\ EpochMod \in Nat /\ EpochMod > 1
  /\ TXMinBurst \in Nat \ {0} /\ TXBurst \in Nat /\ TXMinBurst <= TXBurst
  /\ TXTimeout \in Nat \ {0} /\ RequestTimeout \in Nat
  /\ TXTimeout <= RequestTimeout
  /\ MaxNet \in Nat

VARIABLES
  next, prev,               \* rd_items[].next and .prev
  epoch,                    \* rd_items[].epoch
  left,                     \* rd_items[].expire_time, as the ticks until then
  activeFirst, activeLast,  \* rd_active_first, rd_active_last
  unusedFirst,              \* rd_unused_first
  count,                    \* outstanding_request_count
  held,                     \* ghost: the descriptors handed out and not released
  pending,                  \* pending_tx.bufs
  age,                      \* the ticks since pending_tx.oldest_time
  pc,                       \* where the thread is: "user" between two calls
  due,                      \* the requests that had expired when the call started
  net,                      \* the packets in flight
  owner,                    \* servers_[].partitions[].owner_lcore_id
  dirAt, changed,           \* the directory thread: the partition to refresh next
  refresh,                  \* need_to_update_remote_eid
  route,                    \* RequestState::e[].remote_eid_index
  at                        \* update_remote_eid(): the partition and endpoint reached

rds == <<next, prev, epoch, left, activeFirst, activeLast, unusedFirst, count, held>>
vars == <<next, prev, epoch, left, activeFirst, activeLast, unusedFirst, count,
          held, pending, age, pc, due, net, owner, dirAt, changed, refresh, route, at>>
directory == <<owner, dirAt, changed>>
routes == <<refresh, route, at>>

-----------------------------------------------------------------------------
(* Packets.  `old' is a ghost: how often the descriptor has been released  *)
(* since the packet's request was made, so 0 is the present use.           *)

Packet(kind, rd) == [kind |-> kind, rd |-> rd, epoch |-> epoch[rd], old |-> 0]

Packets ==
  [kind : {"request", "response"}, rd : Rds, epoch : 0 .. EpochMod - 1, old : 0 .. EpochMod - 1]

Response(m) == [m EXCEPT !.kind = "response"]

\* A release ages the packets of the descriptor.  The network's packets live
\* shorter than EpochMod uses of a descriptor: what the code relies on.
Aged(M, rd) ==
  { [m EXCEPT !.old = @ + 1] : m \in { x \in M : x.rd = rd /\ x.old + 1 < EpochMod } }
  \cup { m \in M : m.rd # rd }

\* The NIC takes any of the packets of a burst; send() frees the others.
Sent(M) == { N \in SUBSET (net \cup M) : net \subseteq N /\ Cardinality(N) <= MaxNet }

-----------------------------------------------------------------------------
(* The descriptor lists.                                                   *)


\* The descriptors linked from one.
ListFrom(first) ==
  LET walk[n \in Rds] ==
        IF n = 0 THEN first
        ELSE IF walk[n - 1] = NullRD THEN NullRD ELSE next[walk[n - 1]]
  IN  { walk[n] : n \in Rds } \ {NullRD}

Active == ListFrom(activeFirst)
Unused == ListFrom(unusedFirst)

\* init_rds()
InitRds ==
  /\ next = [rd \in Rds |-> rd + 1]      \* the last one's is kNullRD
  /\ prev = [rd \in Rds |-> NullRD]
  /\ epoch = [rd \in Rds |-> 0]
  /\ left = [rd \in Rds |-> 0]
  /\ activeFirst = NullRD /\ activeLast = NullRD /\ unusedFirst = 0
  /\ count = 0 /\ held = {}

\* probe_reachability() ends with update_remote_eid(): the first endpoint of
\* each partition's owner.
InitRoutes ==
  /\ owner \in [Parts -> Lcores]
  /\ dirAt = 0 /\ changed = FALSE /\ refresh = FALSE
  /\ route = [p \in Parts |-> CHOOSE e \in Endpoints :
                 LcoreOf[e] = owner[p] /\ \A f \in Endpoints : LcoreOf[f] = owner[p] => e <= f]
  /\ at = <<0, 0>>

Init ==
  /\ InitRds /\ InitRoutes
  /\ pending = {} /\ age = 0
  /\ pc = "user" /\ due = {}
  /\ net = {}

\* AllocateRd that puts the request at the head of the active list.
AllocateRd_AtHead(rd) ==
  /\ rd = unusedFirst
  /\ unusedFirst' = next[rd]
  /\ prev' = [r \in Rds |-> IF r = rd THEN NullRD ELSE IF r = activeFirst THEN rd ELSE prev[r]]
  /\ next' = [next EXCEPT ![rd] = activeFirst]
  /\ activeFirst' = rd
  /\ activeLast' = IF activeLast = NullRD THEN rd ELSE activeLast
  /\ left' = [left EXCEPT ![rd] = RequestTimeout]
  /\ count' = count + 1
  /\ held' = held \cup {rd}
  /\ UNCHANGED epoch

\* allocate_rd(): the first unused descriptor goes to the end of the active list.
AllocateRd(rd) ==
  /\ rd = unusedFirst
  /\ unusedFirst' = next[rd]
  /\ prev' = [prev EXCEPT ![rd] = activeLast]
  /\ next' = [r \in Rds |-> IF r = rd THEN NullRD
                            ELSE IF r = activeLast THEN rd ELSE next[r]]
  /\ activeFirst' = IF activeFirst = NullRD THEN rd ELSE activeFirst
  /\ activeLast' = rd
  /\ left' = [left EXCEPT ![rd] = RequestTimeout]
  /\ count' = count + 1
  /\ held' = held \cup {rd}
  /\ UNCHANGED epoch

\* The epoch of a descriptor's next use that is not incremented.
NextEpoch_Same(e) == e

\* ... that does not wrap.
NextEpoch_NoWrap(e) == e + 1

NextEpoch(e) == (e + 1) % EpochMod

\* The end of the active list when its last request is released, unnoticed.
LastWithout_Unchanged(rd) == activeLast

LastWithout(rd) == IF activeLast = rd THEN prev[rd] ELSE activeLast

\* release_rd(): unlinked from the active list, first of the unused list, and
\* no response to it matches any more.  N is what is in flight then.
ReleaseRd(rd, N) ==
  /\ prev' = [r \in Rds |-> IF r = next[rd] THEN prev[rd] ELSE prev[r]]
  /\ next' = [r \in Rds |-> IF r = rd THEN unusedFirst
                            ELSE IF r = prev[rd] THEN next[rd] ELSE next[r]]
  /\ activeFirst' = IF activeFirst = rd THEN next[rd] ELSE activeFirst
  /\ activeLast' = LastWithout(rd)
  /\ unusedFirst' = rd
  /\ epoch' = [epoch EXCEPT ![rd] = NextEpoch(@)]
  /\ count' = count - 1
  /\ held' = held \ {rd}
  /\ due' = due \ {rd}
  /\ net' = Aged(N, rd) /\ pending' = Aged(pending, rd)
  /\ UNCHANGED left

-----------------------------------------------------------------------------
(* The thread.                                                             *)

\* network_->send() of everything pending.
SendAll(M) == net' \in Sent(M) /\ pending' = {}

\* flush_pending_request_batch() with check_pending_tx_full().
Queue(p) ==
  /\ age' = IF pending = {} THEN 0 ELSE age
  /\ IF Cardinality(pending \cup {p}) < TXBurst
     THEN pending' = pending \cup {p} /\ UNCHANGED net
     ELSE SendAll(pending \cup {p})

\* No local endpoint for the partition's: the packet is dropped and the
\* request is left to time out.
Drop == UNCHANGED <<pending, age, net>>

\* append_request(), which the user may call when can_request().
AppendRequest ==
  /\ pc = "user" /\ count < NumRds
  /\ \E rd \in Rds, p \in Parts :
       /\ AllocateRd(rd)
       /\ IF route[p] \in Reachable THEN Queue(Packet("request", rd)) ELSE Drop
  /\ UNCHANGED <<pc, due, directory, routes>>

\* ToSend without the time-out.
ToSend_FullOnly == Cardinality(pending) >= TXMinBurst

\* check_pending_tx_min() and check_pending_tx_timeout().
ToSend == Cardinality(pending) >= TXMinBurst \/ (pending # {} /\ age >= TXTimeout)

\* handle_response() notes the time and sends what is due to be sent.
HandleBegin ==
  /\ pc = "user" /\ pc' = "receive"
  /\ due' = { rd \in held : left[rd] = 0 }
  /\ IF ToSend THEN SendAll(pending) ELSE UNCHANGED <<pending, net>>
  /\ UNCHANGED <<rds, age, directory, routes>>

\* A response that does not match is ignored.
Matches(m) == epoch[m.rd] = m.epoch

\* One response of a burst; a copy of it may still be on the way.
Receive ==
  /\ pc = "receive"
  /\ \E m \in net :
       /\ m.kind = "response"
       /\ \E N \in {net, net \ {m}} :
            IF Matches(m)
            THEN ReleaseRd(m.rd, N)
            ELSE net' = N /\ UNCHANGED <<rds, due, pending>>
  /\ UNCHANGED <<age, pc, directory, routes>>

\* A burst that is not full was the last.
ReceiveEnd ==
  /\ pc = "receive" /\ pc' = "expire"
  /\ UNCHANGED <<rds, pending, age, due, net, directory, routes>>

\* The oldest request has timed out.
Expire ==
  /\ pc = "expire" /\ activeFirst \in due
  /\ ReleaseRd(activeFirst, net)
  /\ UNCHANGED <<age, pc, directory, routes>>

\* No more requests have timed out; the flag is cleared before the owners are read.
ExpireEnd ==
  /\ pc = "expire" /\ activeFirst \notin due
  /\ due' = {}
  /\ pc' = IF refresh THEN "routes" ELSE "user"
  /\ refresh' = FALSE
  /\ UNCHANGED <<rds, pending, age, net, directory, route, at>>

\* The endpoint may serve the partition and is not its present one.
Chosen(p, e) == LcoreOf[e] = owner[p] /\ route[p] # e

\* UpdateRemoteEid that clears the flag when it is done.
UpdateRemoteEid_Clears ==
  /\ pc = "routes"
  /\ LET p == at[1]
         e == at[2]
         over == Chosen(p, e) \/ e + 1 = NumEndpoints
         last == over /\ p + 1 = NumParts
     IN  /\ route' = IF Chosen(p, e) THEN [route EXCEPT ![p] = e] ELSE route
         /\ at' = IF last THEN <<0, 0>> ELSE IF over THEN <<p + 1, 0>> ELSE <<p, e + 1>>
         /\ pc' = IF last THEN "user" ELSE pc
         /\ refresh' = (refresh /\ ~last)
  /\ UNCHANGED <<rds, pending, age, due, net, directory>>

\* One comparison of update_remote_eid(): the first endpoint chosen ends the
\* search for its partition.
UpdateRemoteEid ==
  /\ pc = "routes"
  /\ LET p == at[1]
         e == at[2]
         over == Chosen(p, e) \/ e + 1 = NumEndpoints
         last == over /\ p + 1 = NumParts
     IN  /\ route' = IF Chosen(p, e) THEN [route EXCEPT ![p] = e] ELSE route
         /\ at' = IF last THEN <<0, 0>> ELSE IF over THEN <<p + 1, 0>> ELSE <<p, e + 1>>
         /\ pc' = IF last THEN "user" ELSE pc
  /\ UNCHANGED <<rds, pending, age, due, net, directory, refresh>>

-----------------------------------------------------------------------------
(* The directory thread.                                                   *)

\* update_servers_config() for one partition: the server may have published
\* any owner since the last refresh.
RefreshOwner ==
  /\ dirAt < NumParts
  /\ \E c \in Lcores :
       /\ owner' = [owner EXCEPT ![dirAt] = c]
       /\ changed' = (changed \/ c # owner[dirAt])
  /\ dirAt' = dirAt + 1
  /\ UNCHANGED <<rds, pending, age, pc, due, net, routes>>

RefreshEnd ==
  /\ dirAt = NumParts
  /\ dirAt' = 0 /\ changed' = FALSE
  /\ refresh' = (refresh \/ changed)
  /\ UNCHANGED <<rds, pending, age, pc, due, net, owner, route, at>>

-----------------------------------------------------------------------------
(* Time, the network and the server.                                       *)

Tick ==
  /\ (\E rd \in Rds : left[rd] > 0) \/ (pending # {} /\ age < TXTimeout)
  /\ left' = [rd \in Rds |-> IF left[rd] > 0 THEN left[rd] - 1 ELSE 0]
  /\ age' = IF age < TXTimeout THEN age + 1 ELSE age
  /\ UNCHANGED <<next, prev, epoch, activeFirst, activeLast, unusedFirst, count,
                 held, pending, pc, due, net, directory, routes>>

Lose ==
  /\ \E m \in net : net' = net \ {m}
  /\ UNCHANGED <<rds, pending, age, pc, due, directory, routes>>

\* The server executes a request, now and perhaps again if it is duplicated.
Answer ==
  /\ \E m \in net :
       /\ m.kind = "request"
       /\ \E N \in {net, net \ {m}} :
            /\ net' = N \cup {Response(m)}
            /\ Cardinality(net') <= MaxNet
  /\ UNCHANGED <<rds, pending, age, pc, due, directory, routes>>

Next ==
  \/ AppendRequest \/ HandleBegin \/ Receive \/ ReceiveEnd \/ Expire \/ ExpireEnd
  \/ UpdateRemoteEid \/ RefreshOwner \/ RefreshEnd \/ Tick \/ Lose \/ Answer

Spec == Init /\ [][Next]_vars

\* The user's loop calls handle_response() again and again, and time passes.
Fairness ==
  /\ WF_vars(HandleBegin) /\ WF_vars(ReceiveEnd) /\ WF_vars(Expire) /\ WF_vars(ExpireEnd)
  /\ WF_vars(UpdateRemoteEid) /\ WF_vars(Tick)

FairSpec == Spec /\ Fairness

-----------------------------------------------------------------------------
(* Properties.                                                             *)

TypeOK ==
  /\ next \in [Rds -> Rds \cup {NullRD}] /\ prev \in [Rds -> Rds \cup {NullRD}]
  /\ epoch \in [Rds -> 0 .. EpochMod - 1] /\ left \in [Rds -> 0 .. RequestTimeout]
  /\ {activeFirst, activeLast, unusedFirst} \subseteq Rds \cup {NullRD}
  /\ count \in Int /\ held \subseteq Rds
  /\ pending \subseteq Packets /\ age \in 0 .. TXTimeout
  /\ pc \in {"user", "receive", "expire", "routes"} /\ due \subseteq Rds
  /\ net \subseteq Packets
  /\ owner \in [Parts -> Lcores] /\ dirAt \in 0 .. NumParts
  /\ changed \in BOOLEAN /\ refresh \in BOOLEAN
  /\ route \in [Parts -> Endpoints] /\ at \in Parts \X Endpoints

\* Every descriptor is in exactly one of the two lists, the active list can be
\* walked both ways, and its requests are in the order in which they expire
\* (datagram_client_impl.h:975-1036, :750-765).
DescriptorsListed ==
  /\ Active = held /\ Unused = Rds \ held /\ count = Cardinality(held)
  /\ Active # {} => activeLast \in Active /\ next[activeLast] = NullRD
                    /\ prev[activeFirst] = NullRD
  /\ \A rd \in Active \ {activeLast} :
       prev[next[rd]] = rd /\ left[rd] <= left[next[rd]]

\* A response that would be accepted answers the request that now holds its
\* descriptor, whatever was lost, delayed, duplicated or timed out before
\* (datagram_client_impl.h:712-724, :1026-1028).
OwnResponse ==
  \A m \in net : m.kind = "response" /\ Matches(m) => m.rd \in held /\ m.old = 0

\* A request that waits to be sent is still outstanding: none is reported as
\* timed out and goes to the server afterwards (datagram_client_impl.h:664-665, :750-765, :1218-1260).
SentBeforeTimeout ==
  \A m \in pending : m.rd \in held /\ m.old = 0

\* When the directory thread is between two refreshes and has left the client
\* nothing to look up, requests go to an endpoint of their partition's owner:
\* no change of owner is missed, though nothing is locked
\* (datagram_client_impl.h:194-208, :400-436, :767-770).
RoutesSettled ==
  dirAt = 0 /\ ~refresh /\ pc # "routes" => \A p \in Parts : LcoreOf[route[p]] = owner[p]

\* Every request is completed or timed out.
RequestEnds == \A rd \in Rds : (rd \in held) ~> (rd \notin held)
=============================================================================
