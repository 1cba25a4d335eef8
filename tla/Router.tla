------------------------------- MODULE Router -------------------------------
(***************************************************************************)
(* The IP router (code-exp7: main.c, ip.c, ip_base.c, icmp.c, arp.c,       *)
(* rtable.c over arpcache.c).  Two threads share the ARP cache: the packet *)
(* thread (ustack_run), which handles one frame at a time, and the sweep   *)
(* thread, which ages the cache, repeats requests and, with the lock       *)
(* RELEASED, reports the packets of a request it gives up.  Both reach     *)
(* iface_send_packet_by_arp, whose lookup and append are two separate      *)
(* sections under the lock.  List updates are single steps; the memory of  *)
(* a request freed under the sweep thread is a crash.                      *)
(***************************************************************************)
EXTENDS ArpCache, SequencesExt

CONSTANTS
  Traffic,     \* IP packets that may arrive once: [id, in, src, dst]
  Ttls,        \* the values their TTL may have on arrival
  Hosts,       \* addresses that may be heard by ARP
  IfaceIp,     \* [interface -> address]
  RTables      \* routing tables the kernel may hold: sequences of [dest, mask, gw, iface]

VARIABLES
  rtable,      \* the routing table, in list order
  arrived,     \* ids of the packets received so far
  todo,        \* [thread -> packets it has still to give to iface_send_packet_by_arp]
  missed,      \* [thread -> its lookup for the first of them found nothing]
  sweep,       \* where the sweep thread is
  fate,        \* [id -> what was done with the packet]
  crashed      \* freed memory was followed: nothing is known afterwards

vars == <<entries, req_list, rtable, arrived, todo, missed, sweep, fate, crashed>>

Threads == {"packet", "sweep"}
Ids == {p.id : p \in Traffic}
OwnIps == Range(IfaceIp)

Addrs == Seq(Nat)

ASSUME RouterAssumption ==
  /\ IfaceIp \in [DOMAIN IfaceIp -> Addrs]
  /\ \A p \in Traffic : p.in \in DOMAIN IfaceIp /\ p.src \in Addrs /\ p.dst \in Addrs /\ p.id # 0
  /\ \A p, q \in Traffic : p.id = q.id => p = q
  /\ RTables \subseteq Seq([dest : Addrs, mask : Nat, gw : Addrs, iface : DOMAIN IfaceIp])

\* A packet in the router.  The router's own ICMP packets have id 0.
Packet(id, src, dst, by) == [id |-> id, src |-> src, dst |-> dst, by |-> by]
Job(packet, iface, nexthop) == [packet |-> packet, iface |-> iface, nexthop |-> nexthop]

NoRequest == <<>>
Asleep == [at |-> "sleep", req |-> NoRequest, temp |-> NoRequest, more |-> FALSE]
Key(r) == <<r.iface, r.ip4>>

Init ==
  /\ arpcache_init
  /\ rtable \in RTables
  /\ arrived = {}
  /\ todo = [t \in Threads |-> <<>>]
  /\ missed = [t \in Threads |-> FALSE]
  /\ sweep = Asleep
  /\ fate = [p \in Ids |-> <<>>]
  /\ crashed = FALSE

-----------------------------------------------------------------------------
(* Routing and ICMP: no state of their own.                                *)

NoEntry == [dest |-> NoAddr, mask |-> -1, gw |-> NoAddr, iface |-> "none"]

\* (dst & mask) == (dest & mask), for a mask of e.mask leading digits.
Matches(dst, e) == SubSeq(dst, 1, e.mask) = SubSeq(e.dest, 1, e.mask)

\* mutant: a later match replaces an earlier one, however short
longest_prefix_match_last(dst) ==
  LET best[k \in 0..Len(rtable)] ==
        IF k = 0 THEN NoEntry
        ELSE IF Matches(dst, rtable[k]) THEN rtable[k] ELSE best[k - 1]
  IN  best[Len(rtable)]

\* best[k] is best_match after k turns of the loop over the table.
longest_prefix_match(dst) ==
  LET best[k \in 0..Len(rtable)] ==
        IF k = 0 THEN NoEntry
        ELSE IF Matches(dst, rtable[k]) /\ rtable[k].mask > best[k - 1].mask
             THEN rtable[k] ELSE best[k - 1]
  IN  best[Len(rtable)]

NextHop(e, dst) == IF e.gw # NoAddr THEN e.gw ELSE dst

\* ip_send_packet: a packet made by the router itself; without a route it is freed.
ip_send_packet(packet) ==
  LET e == longest_prefix_match(packet.dst)
  IN  IF e = NoEntry THEN <<>> ELSE <<Job(packet, e.iface, NextHop(e, packet.dst))>>

\* The ICMP packet sent about a packet from src by thread t: an error or an echo reply.
icmp_send_packet(src, t) ==
  LET e == longest_prefix_match(src)
  IN  IF e = NoEntry THEN <<>> ELSE ip_send_packet(Packet(0, IfaceIp[e.iface], src, t))

\* mutant: an expired packet is reported and freed, and then forwarded all the
\* same: what code-exp5/ip.c does, which has no return after the free
ip_forward_packet_no_return(p, ttl) ==
  LET e == longest_prefix_match(p.dst)
      job == Job(Packet(p.id, p.src, p.dst, "packet"), e.iface, NextHop(e, p.dst))
  IN  IF e = NoEntry THEN [fate |-> << <<"unrouted">> >>, todo |-> icmp_send_packet(p.src, "packet")]
      ELSE IF ttl <= 1
           THEN [fate |-> << <<"expired">> >>, todo |-> icmp_send_packet(p.src, "packet") \o <<job>>]
      ELSE [fate |-> <<>>, todo |-> <<job>>]

\* What the packet thread does with a packet that is not for the router: the
\* fate that is settled at once, if any, and what is to be sent.
ip_forward_packet(p, ttl) ==
  LET e == longest_prefix_match(p.dst)
  IN  IF ttl <= 1 THEN [fate |-> << <<"expired">> >>, todo |-> icmp_send_packet(p.src, "packet")]
      ELSE IF e = NoEntry THEN [fate |-> << <<"unrouted">> >>, todo |-> icmp_send_packet(p.src, "packet")]
      ELSE [fate |-> <<>>,
            todo |-> <<Job(Packet(p.id, p.src, p.dst, "packet"), e.iface, NextHop(e, p.dst))>>]

-----------------------------------------------------------------------------
(* The packet thread: one frame at a time, each handled to its end.        *)

Receiving == ~crashed /\ todo["packet"] = <<>>

\* A packet for another address is forwarded.
Forward(p, ttl) ==
  /\ Receiving
  /\ p.id \notin arrived
  /\ p.dst # IfaceIp[p.in]
  /\ arrived' = arrived \cup {p.id}
  /\ LET result == ip_forward_packet(p, ttl)
     IN  /\ todo' = [todo EXCEPT !["packet"] = result.todo]
         /\ fate' = [fate EXCEPT ![p.id] = result.fate]
  /\ UNCHANGED <<entries, req_list, rtable, missed, sweep, crashed>>

\* A packet for the interface it came in by: an echo request is answered,
\* anything else is freed (mOSPF packets are handled in Mospf).
Local(p, echo) ==
  /\ Receiving
  /\ p.id \notin arrived
  /\ p.dst = IfaceIp[p.in]
  /\ arrived' = arrived \cup {p.id}
  /\ todo' = [todo EXCEPT !["packet"] = IF echo THEN icmp_send_packet(p.src, "packet") ELSE <<>>]
  /\ fate' = [fate EXCEPT ![p.id] = << <<"local">> >>]
  /\ UNCHANGED <<entries, req_list, rtable, missed, sweep, crashed>>

Sent(iface, ip4) == <<"sent", iface, ip4>>

\* Ids of the forwarded packets that wait in request r.
Waiting(r) == {r.cached[i].id : i \in DOMAIN r.cached} \ {0}

\* An ARP packet for the router: the mapping is inserted and every packet that
\* waits for it goes out (a request is also answered, which changes nothing
\* here).  If the sweep thread is inside one of the requests that are freed, or
\* holds one as its next, it will follow freed memory.
handle_arp_packet(h) ==
  /\ Receiving
  /\ arpcache_insert(h)
  /\ fate' = [p \in Ids |->
                LET in == {k \in Answered(h) : p \in Waiting(req_list[k])}
                IN  IF in = {} THEN fate[p]
                    ELSE Append(fate[p], Sent(req_list[Min(in)].iface, h))]
  /\ crashed' = \E k \in Answered(h) : Key(req_list[k]) \in {sweep.req, sweep.temp}
  /\ UNCHANGED <<rtable, arrived, todo, missed, sweep>>

-----------------------------------------------------------------------------
(* iface_send_packet_by_arp, by either thread: lookup, then, with the lock *)
(* released in between, append.                                            *)

Sending(t) == ~crashed /\ todo[t] # <<>>

\* The mapping is known: the packet goes out.
LookupHit(t) ==
  LET job == Head(todo[t])
  IN  /\ Sending(t)
      /\ ~missed[t]
      /\ arpcache_lookup(job.nexthop)
      /\ todo' = [todo EXCEPT ![t] = Tail(@)]
      /\ fate' = IF job.packet.id = 0 THEN fate
                 ELSE [fate EXCEPT ![job.packet.id] = Append(@, Sent(job.iface, job.nexthop))]
      /\ UNCHANGED <<entries, req_list, rtable, arrived, missed, sweep, crashed>>

LookupMiss(t) ==
  /\ Sending(t)
  /\ ~missed[t]
  /\ ~arpcache_lookup(Head(todo[t]).nexthop)
  /\ missed' = [missed EXCEPT ![t] = TRUE]
  /\ UNCHANGED <<entries, req_list, rtable, arrived, todo, sweep, fate, crashed>>

\* The packet joins its request or starts one; an ARP request is sent.
AppendPacket(t) ==
  LET job == Head(todo[t])
  IN  /\ Sending(t)
      /\ missed[t]
      /\ req_list' = arpcache_append_packet(job.iface, job.nexthop, job.packet)
      /\ todo' = [todo EXCEPT ![t] = Tail(@)]
      /\ missed' = [missed EXCEPT ![t] = FALSE]
      /\ UNCHANGED <<entries, rtable, arrived, sweep, fate, crashed>>

-----------------------------------------------------------------------------
(* arpcache_sweep.                                                         *)

\* The scan of the list from index k to the first request that is given up,
\* all under the lock: there the lock is released, else the round is over.
ScanFrom(list, k) ==
  LET dead == GivenUp(list, k)
  IN  IF dead = {}
      THEN /\ req_list' = Scanned(list, k, Len(list) + 1)
           /\ sweep' = Asleep
      ELSE LET j == Min(dead)
           IN  /\ req_list' = Scanned(list, k, j)
               /\ sweep' = [at |-> "drain", req |-> Key(list[j]),
                            temp |-> IF j = Len(list) THEN NoRequest ELSE Key(list[j + 1]),
                            more |-> list[j].cached # <<>>]

\* A round begins after sleep(1).
SweepRound(late) ==
  /\ ~crashed
  /\ sweep.at = "sleep"
  /\ entries' = SweptEntries
  /\ ScanFrom(Ripened(late), 1)
  /\ UNCHANGED <<rtable, arrived, todo, missed, fate, crashed>>

Draining == ~crashed /\ sweep.at = "drain" /\ todo["sweep"] = <<>>

\* The request with this key, which is in the list while the sweep thread is in it.
Index(key) == CHOOSE k \in DOMAIN req_list : Key(req_list[k]) = key

\* The next packet of the dead request is reported unreachable and freed.  The
\* packet after it was read first: one appended behind the last is not seen.
DrainPacket ==
  LET k == Index(sweep.req)
      packet == Head(req_list[k].cached)
  IN  /\ Draining
      /\ sweep.more
      /\ req_list' = [req_list EXCEPT ![k].cached = Tail(@)]
      /\ sweep' = [sweep EXCEPT !.more = Len(req_list[k].cached) > 1]
      /\ todo' = [todo EXCEPT !["sweep"] = icmp_send_packet(packet.src, "sweep")]
      /\ fate' = IF packet.id = 0 THEN fate
                 ELSE [fate EXCEPT ![packet.id] = Append(@, <<"unreachable">>)]
      /\ UNCHANGED <<entries, rtable, arrived, missed, crashed>>

\* The dead request is unlinked and freed, with what was appended meanwhile;
\* the lock is taken again and the scan goes on with the request read before.
DrainDone ==
  LET k == Index(sweep.req)
  IN  /\ Draining
      /\ ~sweep.more
      /\ fate' = [p \in Ids |-> IF p \in Waiting(req_list[k]) THEN Append(fate[p], <<"lost">>) ELSE fate[p]]
      /\ ScanFrom(RemoveAt(req_list, k), IF sweep.temp = NoRequest THEN Len(req_list) ELSE Index(sweep.temp) - 1)
      /\ UNCHANGED <<entries, rtable, arrived, todo, missed, crashed>>

-----------------------------------------------------------------------------
Next ==
  \/ \E p \in Traffic : (\E ttl \in Ttls : Forward(p, ttl)) \/ (\E echo \in BOOLEAN : Local(p, echo))
  \/ \E h \in Hosts : handle_arp_packet(h)
  \/ \E t \in Threads : LookupHit(t) \/ LookupMiss(t) \/ AppendPacket(t)
  \/ \E late \in 0..Len(req_list) : SweepRound(late)
  \/ DrainPacket \/ DrainDone

\* Both threads run; nothing makes a host answer.
Spec ==
  /\ Init /\ [][Next]_vars
  /\ \A t \in Threads : WF_vars(LookupHit(t) \/ LookupMiss(t) \/ AppendPacket(t))
  /\ WF_vars(\E late \in 0..Len(req_list) : SweepRound(late))
  /\ WF_vars(DrainPacket \/ DrainDone)

-----------------------------------------------------------------------------
Packets == [id : Ids \cup {0}, src : Addrs, dst : Addrs, by : Threads]

\* Types, with the bounds the code keeps: a request is never sent more often
\* than ARP_REQUEST_MAX_RETRIES (arpcache.c:184), no entry outlives its
\* timeout (line 176), and between two rounds a request in the list holds a packet.
TypeOK ==
  /\ \A i \in Slots : entries[i].valid \in BOOLEAN /\ entries[i].age \in 0..ARP_ENTRY_TIMEOUT
  /\ \A k \in DOMAIN req_list :
       /\ req_list[k].age \in Ages
       /\ req_list[k].retries \in 1..ARP_REQUEST_MAX_RETRIES
       /\ req_list[k].cached \in Seq(Packets)
       /\ Key(req_list[k]) # sweep.req => req_list[k].cached # <<>>
       /\ \A j \in DOMAIN req_list : Key(req_list[j]) = Key(req_list[k]) => j = k
  /\ arrived \subseteq Ids
  /\ missed \in [Threads -> BOOLEAN]
  /\ sweep.at \in {"sleep", "drain"} /\ sweep.more \in BOOLEAN
  /\ crashed \in BOOLEAN

\* Every packet the router has received is in exactly one place: with the packet
\* thread, waiting in one request, or settled once.  None is sent twice, sent and
\* reported, or left behind in freed memory unsettled (arpcache_insert,
\* arpcache_sweep and ip_forward_packet each hand packets on or free them).
Places(p) ==
  LET queued == UNION {{k} \X {i \in DOMAIN req_list[k].cached : req_list[k].cached[i].id = p} :
                         k \in DOMAIN req_list}
      held == {i \in DOMAIN todo["packet"] : todo["packet"][i].packet.id = p}
  IN  Cardinality(queued) + Cardinality(held) + Len(fate[p])
OneFate == \A p \in Ids : Places(p) = IF p \in arrived THEN 1 ELSE 0

\* A packet waits only for an address that is not known: the test of the cache and
\* the append are two sections under the lock, yet no mapping can come in
\* between, since only the packet thread inserts.  The reports of the sweep
\* thread are the exception: they can miss the mapping and then wait beside it.
WaitsOnlyIfUnknown ==
  \A k \in DOMAIN req_list :
    (\E s \in Slots : entries[s].valid /\ entries[s].ip4 = req_list[k].ip4) =>
      \A i \in DOMAIN req_list[k].cached : req_list[k].cached[i].by = "sweep"

\* A forwarded packet left by a route that matches its destination with the
\* longest prefix of all that match, to that route's next hop, whether it was
\* sent at once or waited for ARP (longest_prefix_match, ip_forward_packet).
ForwardedByLongestMatch ==
  \A p \in Traffic : \A i \in DOMAIN fate[p.id] :
    fate[p.id][i][1] = "sent" =>
      \E e \in Range(rtable) :
        /\ Matches(p.dst, e)
        /\ \A o \in Range(rtable) : Matches(p.dst, o) => o.mask <= e.mask
        /\ fate[p.id][i] = Sent(e.iface, NextHop(e, p.dst))

\* Two reports about the router's own packets wait for one of its own addresses.
\* Nobody answers for it, and giving them up makes two more in the same request:
\* the sweep thread never leaves it.
ReportsToItself ==
  \E k \in DOMAIN req_list :
    /\ req_list[k].ip4 \in OwnIps
    /\ Cardinality({i \in DOMAIN req_list[k].cached : req_list[k].cached[i].src \in OwnIps}) >= 2

\* A packet that waits for an address is sent, reported or freed in the end, even
\* if nobody ever answers: the retries run out (arpcache_sweep).  The two ways out
\* are the memory error in the sweep thread's unlocked section and the
\* endless reports to itself.
PendingIsSettled ==
  \A p \in Ids : (p \in arrived) ~> (fate[p] # <<>> \/ crashed \/ ReportsToItself)
=============================================================================
