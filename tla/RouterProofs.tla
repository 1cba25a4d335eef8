---------------------------- MODULE RouterProofs ----------------------------
(***************************************************************************)
(* Proofs about the router: what Router promises holds for every set of    *)
(* interfaces, routing table, traffic and size of the ARP cache.  The      *)
(* invariant follows each packet from list to list; a crash ends the       *)
(* behaviour, so what the sweep thread points at matters only before one.  *)
(***************************************************************************)
EXTENDS Router, ListProofs, FiniteSetTheorems, TLAPS

-----------------------------------------------------------------------------
(***************************************************************************)
(* The inductive invariant.                                                *)
(***************************************************************************)

Request == [iface : DOMAIN IfaceIp, ip4 : Addrs, age : Ages,
            retries : 1..ARP_REQUEST_MAX_RETRIES, cached : Seq(Packets)]
Jobs == [packet : Packets, iface : DOMAIN IfaceIp, nexthop : Addrs]
Entries == [valid : BOOLEAN, ip4 : Hosts \cup {NoAddr}, age : 0..ARP_ENTRY_TIMEOUT]
Keys == (DOMAIN IfaceIp) \X Addrs
NotSent == {<<"expired">>, <<"unrouted">>, <<"local">>, <<"unreachable">>, <<"lost">>}
Fates == NotSent \cup {Sent(i, a) : i \in DOMAIN IfaceIp, a \in Addrs}

\* Packet p waits in request r, and only once; a packet of the packet thread does.
Has(r, p) == \E i \in DOMAIN r.cached : r.cached[i].id = p
HasOnce(r, p) == \A i, j \in DOMAIN r.cached : r.cached[i].id = p /\ r.cached[j].id = p => i = j
Forwards(r) == \E i \in DOMAIN r.cached : r.cached[i].by = "packet"

\* No two requests of the list have one key; all but the one being drained hold a packet.
KeysOnce(list) == \A j, k \in DOMAIN list : Key(list[j]) = Key(list[k]) => j = k
Filled(list, dry) == \A k \in DOMAIN list : Key(list[k]) # dry => list[k].cached # <<>>

\* Where packet p waits in the list.
SomeIn(list, p) == \E k \in DOMAIN list : Has(list[k], p)
OnceIn(list, p) ==
  /\ \A k \in DOMAIN list : HasOnce(list[k], p)
  /\ \A k, l \in DOMAIN list : Has(list[k], p) /\ Has(list[l], p) => k = l

ListInv == req_list \in Seq(Request) /\ KeysOnce(req_list) /\ Filled(req_list, sweep.req)

\* The table of the cache has a mapping for the address.
Known(table, ip4) == \E i \in Slots : table[i].valid /\ table[i].ip4 = ip4

\* Each thread has one packet in hand at most, its own.  What the packet thread
\* has missed in the cache is still not in it.
ThreadInv ==
  /\ todo \in [Threads -> Seq(Jobs)]
  /\ \A t \in Threads : Len(todo[t]) <= 1 /\ (todo[t] # <<>> => Head(todo[t]).packet.by = t)
  /\ todo["sweep"] # <<>> => Head(todo["sweep"]).packet.id = 0
  /\ missed \in [Threads -> BOOLEAN]
  /\ missed["packet"] => todo["packet"] # <<>> /\ ~Known(entries, Head(todo["packet"]).nexthop)

\* The request being drained is in the list, before the one to go on with.
At(list, k) ==
  /\ Key(list[k]) = sweep.req
  /\ sweep.more => list[k].cached # <<>>
  /\ sweep.temp = NoRequest \/ \E l \in DOMAIN list : k < l /\ Key(list[l]) = sweep.temp
SweepInv ==
  /\ sweep \in [at : {"sleep", "drain"}, req : Keys \cup {NoRequest}, temp : Keys \cup {NoRequest},
                more : BOOLEAN]
  /\ sweep.at = "sleep" => sweep = Asleep
  /\ sweep.at = "drain" /\ ~crashed => \E k \in DOMAIN req_list : At(req_list, k)
  /\ crashed \in BOOLEAN

\* Packet p is in one place.
Held(p) == todo["packet"] # <<>> /\ Head(todo["packet"]).packet.id = p
Placed(p) ==
  /\ OnceIn(req_list, p)
  /\ Len(fate[p]) <= 1
  /\ SomeIn(req_list, p) => ~Held(p) /\ fate[p] = <<>> /\ p \in arrived
  /\ Held(p) => fate[p] = <<>> /\ p \in arrived
  /\ fate[p] # <<>> => p \in arrived
  /\ p \in arrived => SomeIn(req_list, p) \/ Held(p) \/ fate[p] # <<>>
PlaceInv ==
  /\ fate \in [Ids -> Seq(Fates)]
  /\ arrived \subseteq Ids
  /\ \A p \in Ids : Placed(p)

\* The way the routing table has for packet p, and that it was sent that way.
Goes(routes, p, iface, nexthop) ==
  \E e \in Range(routes) :
    /\ Matches(p.dst, e)
    /\ \A o \in Range(routes) : Matches(p.dst, o) => o.mask <= e.mask
    /\ iface = e.iface /\ nexthop = NextHop(e, p.dst)
SentRight(routes, p, f) ==
  f[1] = "sent" => \E iface, nexthop : Goes(routes, p, iface, nexthop) /\ f = Sent(iface, nexthop)
RouteInv ==
  /\ rtable \in RTables
  /\ \A p \in Traffic : \A k \in DOMAIN req_list :
       Has(req_list[k], p.id) => Goes(rtable, p, req_list[k].iface, req_list[k].ip4)
  /\ \A p \in Traffic :
       Held(p.id) => Goes(rtable, p, Head(todo["packet"]).iface, Head(todo["packet"]).nexthop)
  /\ \A p \in Traffic : \A i \in DOMAIN fate[p.id] : SentRight(rtable, p, fate[p.id][i])

CacheInv ==
  /\ entries \in [Slots -> Entries]
  /\ \A k \in DOMAIN req_list : Known(entries, req_list[k].ip4) => ~Forwards(req_list[k])

Inv == ListInv /\ ThreadInv /\ SweepInv /\ PlaceInv /\ RouteInv /\ CacheInv

-----------------------------------------------------------------------------
(***************************************************************************)
(* The look-up in the routing table, and what is sent by it.               *)
(***************************************************************************)

Route == [dest : Addrs, mask : Nat, gw : Addrs, iface : DOMAIN IfaceIp]
Found == Route \cup {NoEntry}

\* One turn of the look-up: v is the best entry so far, e the entry looked at.
Better(dst, v, e) == IF Matches(dst, e) /\ e.mask > v.mask THEN e ELSE v

\* F follows the recursion of longest_prefix_match.
BestBy(F, dst) ==
  /\ F[0] = NoEntry
  /\ \A k \in 1..Len(rtable) : F[k] = Better(dst, F[k - 1], rtable[k])
  /\ longest_prefix_match(dst) = F[Len(rtable)]

\* The look-up by its recursion.
LEMMA BestRecursion ==
  ASSUME NEW dst, rtable \in RTables
  PROVE  rtable \in Seq(Route) /\ \E F \in [0..Len(rtable) -> Found] : BestBy(F, dst)
<1> DEFINE n == Len(rtable)
           V == Found
           base == NoEntry
           step == [p \in (1..n) \X V |-> Better(dst, p[2], rtable[p[1]])]
           best[k \in 0..n] ==
             IF k = 0 THEN NoEntry
             ELSE IF Matches(dst, rtable[k]) /\ rtable[k].mask > best[k - 1].mask
                  THEN rtable[k] ELSE best[k - 1]
<1>0. rtable \in Seq(Route)
  BY RouterAssumption DEF Route
<1>1. n \in Nat /\ base \in V /\ \A k \in 1..n : rtable[k] \in V
  BY <1>0 DEF Found
<1>2. step \in [(1..n) \X V -> V]
  <2>1. ASSUME NEW p \in (1..n) \X V PROVE Better(dst, p[2], rtable[p[1]]) \in V
    <3> HIDE DEF n, V
    <3>1. p[1] \in 1..n /\ p[2] \in V
      OBVIOUS
    <3> QED
      BY <3>1, <1>1 DEF Better
  <2> QED
    BY <2>1
<1>3. PICK F \in [0..n -> V] : Solves(F, n, base, step)
  <2> HIDE DEF n, step, V, base, best
  <2> QED
    BY <1>1, <1>2, RecursionExists
<1>4. F[0] = NoEntry /\ \A i \in 1..n : F[i] = step[<<i, F[i - 1]>>]
  BY <1>3 DEF Solves
<1>5. ASSUME NEW k \in 1..n PROVE F[k] = Better(dst, F[k - 1], rtable[k])
  <2>1. k - 1 \in 0..n /\ F[k - 1] \in V
    BY <1>1, <1>3
  <2>2. F[k] = step[<<k, F[k - 1]>>]
    BY <1>4
  <2> HIDE DEF n, V
  <2> QED
    BY <2>1, <2>2
<1>6. F = [k \in 0..n |-> IF k = 0 THEN NoEntry
                          ELSE IF Matches(dst, rtable[k]) /\ rtable[k].mask > F[k - 1].mask
                               THEN rtable[k] ELSE F[k - 1]]
  <2> HIDE DEF n, V
  <2>1. ASSUME NEW k \in 0..n
        PROVE  F[k] = IF k = 0 THEN NoEntry
                      ELSE IF Matches(dst, rtable[k]) /\ rtable[k].mask > F[k - 1].mask
                           THEN rtable[k] ELSE F[k - 1]
    <3>1. k # 0 => k \in 1..n
      BY <1>1
    <3> QED
      BY <3>1, <1>4, <1>5 DEF Better
  <2> QED
    BY <2>1, <1>3
<1>7. best = [k \in 0..n |-> IF k = 0 THEN NoEntry
                          ELSE IF Matches(dst, rtable[k]) /\ rtable[k].mask > best[k - 1].mask
                               THEN rtable[k] ELSE best[k - 1]]
  <2> HIDE DEF n
  <2> QED
    BY <1>6, Zenon
<1>8. longest_prefix_match(dst) = best[n]
  BY Zenon DEF longest_prefix_match
<1> HIDE DEF best, step
<1> DEFINE Q == {k \in Nat : k <= n => best[k] = F[k]}
<1>9. 0 \in Q
  BY <1>1, <1>4, <1>7
<1>10. ASSUME NEW k \in Nat, k \in Q PROVE k + 1 \in Q
  <2> SUFFICES ASSUME k + 1 <= n PROVE best[k + 1] = F[k + 1]
    OBVIOUS
  <2>1. k + 1 \in 0..n /\ k + 1 # 0 /\ (k + 1) - 1 = k /\ k + 1 \in 1..n
    BY <1>1
  <2>2. best[k] = F[k]
    BY <1>1, <1>10
  <2> HIDE DEF n
  <2>3. best[k + 1] = Better(dst, best[k], rtable[k + 1])
    BY <2>1, <1>7 DEF Better
  <2> QED
    BY <2>1, <2>2, <2>3, <1>5
<1>11. n \in Q
  <2> HIDE DEF Q
  <2> QED
    BY <1>1, <1>9, <1>10, Counting
<1>12. longest_prefix_match(dst) = F[n]
  BY <1>1, <1>8, <1>11
<1> QED
  BY <1>0, <1>3, <1>4, <1>5, <1>12 DEF BestBy

\* What the look-up finds: an entry of the table that matches, the longest of all.
LEMMA BestIs ==
  ASSUME NEW dst, rtable \in RTables, NEW e, e = longest_prefix_match(dst), e # NoEntry
  PROVE  /\ rtable \in Seq(Route) /\ e \in Range(rtable) /\ e \in Route
         /\ Matches(dst, e)
         /\ \A o \in Range(rtable) : Matches(dst, o) => o.mask <= e.mask
<1>1. rtable \in Seq(Route)
  BY BestRecursion
<1>2. PICK F \in [0..Len(rtable) -> Found] : BestBy(F, dst)
  BY BestRecursion
<1> DEFINE n == Len(rtable)
           Good(v, k) ==
             /\ v # NoEntry => v \in Range(rtable) /\ v \in Route /\ Matches(dst, v)
             /\ \A i \in 1..k : Matches(dst, rtable[i]) => rtable[i].mask <= v.mask
           Q == {k \in Nat : k <= n => Good(F[k], k)}
<1>3. n \in Nat /\ \A k \in 1..n : rtable[k] \in Route /\ rtable[k].mask \in Nat /\ rtable[k] \in Range(rtable)
  <2>1. n \in Nat /\ \A k \in 1..n : rtable[k] \in Route
    BY <1>1
  <2>2. \A k \in 1..n : rtable[k].mask \in Nat
    BY <2>1 DEF Route
  <2>3. \A k \in 1..n : rtable[k] \in Range(rtable)
    BY <1>1 DEF Range
  <2> QED
    BY <2>1, <2>2, <2>3
<1>4. 0 \in Q
  BY <1>2, <1>3 DEF BestBy
<1>5. ASSUME NEW k \in Nat, k \in Q PROVE k + 1 \in Q
  <2> SUFFICES ASSUME k + 1 <= n PROVE Good(F[k + 1], k + 1)
    OBVIOUS
  <2>1. k + 1 \in 1..n /\ (k + 1) - 1 = k /\ k \in 0..n
    BY <1>3
  <2>2. Good(F[k], k)
    BY <1>3, <1>5
  <2>3. F[k + 1] = Better(dst, F[k], rtable[k + 1])
    BY <1>2, <2>1 DEF BestBy
  <2>4. rtable[k + 1] \in Route /\ rtable[k + 1] \in Range(rtable) /\ rtable[k + 1].mask \in Nat
    BY <1>3, <2>1
  <2>5. F[k].mask \in Int
    BY <1>2, <2>1 DEF Found, Route, NoEntry
  <2>6. \A i \in 1..(k + 1) : i \in 1..k \/ i = k + 1
    OBVIOUS
  <2>7. \A i \in 1..k : rtable[i].mask \in Nat
    BY <1>3, <2>1
  <2>8. CASE Matches(dst, rtable[k + 1]) /\ rtable[k + 1].mask > F[k].mask
    <3>1. F[k + 1] = rtable[k + 1]
      BY <2>3, <2>8 DEF Better
    <3>2. \A i \in 1..k : Matches(dst, rtable[i]) => rtable[i].mask <= rtable[k + 1].mask
      BY <2>2, <2>4, <2>5, <2>7, <2>8
    <3>3. rtable[k + 1].mask <= rtable[k + 1].mask
      BY <2>4
    <3> QED
      BY <2>4, <2>6, <2>8, <3>1, <3>2, <3>3
  <2>9. CASE ~(Matches(dst, rtable[k + 1]) /\ rtable[k + 1].mask > F[k].mask)
    <3>1. F[k + 1] = F[k]
      BY <2>3, <2>9 DEF Better
    <3>2. Matches(dst, rtable[k + 1]) => rtable[k + 1].mask <= F[k].mask
      BY <2>4, <2>5, <2>9
    <3> QED
      BY <2>2, <2>6, <3>1, <3>2
  <2> QED
    BY <2>8, <2>9
<1>6. n \in Q
  <2> HIDE DEF Q
  <2> QED
    BY <1>3, <1>4, <1>5, Counting
<1>7. e = F[n] /\ Good(e, n)
  BY <1>2, <1>3, <1>6 DEF BestBy
<1>8. \A o \in Range(rtable) : \E i \in 1..n : o = rtable[i]
  BY <1>1 DEF Range
<1> QED
  BY <1>1, <1>7, <1>8

\* A packet by the way it is found goes right.
LEMMA GoesBest ==
  ASSUME rtable \in RTables, NEW p, NEW e, e = longest_prefix_match(p.dst), e # NoEntry
  PROVE  Goes(rtable, p, e.iface, NextHop(e, p.dst))
<1>1. /\ e \in Range(rtable)
      /\ Matches(p.dst, e)
      /\ \A o \in Range(rtable) : Matches(p.dst, o) => o.mask <= e.mask
  BY BestIs
<1> QED
  BY <1>1 DEF Goes

\* What the thread t has to send is one packet at most, made by the router.
Own(s, t) ==
  /\ s \in Seq(Jobs) /\ Len(s) <= 1
  /\ s # <<>> => Head(s).packet.by = t /\ Head(s).packet.id = 0

\* An ICMP packet is the router's own.
LEMMA IcmpIsOwn ==
  ASSUME rtable \in RTables, NEW src \in Addrs, NEW t \in Threads
  PROVE  Own(icmp_send_packet(src, t), t)
<1>0. <<>> \in Seq(Jobs) /\ Own(<<>>, t)
  BY DEF Own
<1> DEFINE e == longest_prefix_match(src)
           q == Packet(0, IfaceIp[e.iface], src, t)
           d == longest_prefix_match(q.dst)
           job == Job(q, d.iface, NextHop(d, q.dst))
<1>1. CASE e = NoEntry
  BY <1>0, <1>1 DEF icmp_send_packet
<1>2. CASE e # NoEntry
  <2>1. e \in Route
    BY <1>2, BestIs
  <2>2. q \in Packets /\ q.dst = src /\ q.id = 0 /\ q.by = t
    BY <2>1, RouterAssumption DEF Packet, Packets, Route
  <2>3. icmp_send_packet(src, t) = ip_send_packet(q)
    BY <1>2 DEF icmp_send_packet
  <2> HIDE DEF q
  <2>4. CASE d = NoEntry
    BY <1>0, <2>3, <2>4 DEF ip_send_packet
  <2>5. CASE d # NoEntry
    <3>1. d \in Route
      BY <2>5, BestIs
    <3>2. job \in Jobs /\ job.packet = q
      BY <2>2, <3>1 DEF Job, Jobs, Route, NextHop
    <3>3. icmp_send_packet(src, t) = <<job>>
      BY <2>3, <2>5 DEF ip_send_packet
    <3> HIDE DEF job
    <3> QED
      BY <2>2, <3>2, <3>3 DEF Own
  <2> QED
    BY <2>4, <2>5
<1> QED
  BY <1>1, <1>2

-----------------------------------------------------------------------------
(***************************************************************************)
(* The request list.                                                       *)
(***************************************************************************)

\* What is known of a request by its type.
LEMMA RequestIs ==
  ASSUME NEW r \in Request
  PROVE  /\ r.iface \in DOMAIN IfaceIp /\ r.ip4 \in Addrs /\ r.age \in Ages
         /\ r.retries \in 1..ARP_REQUEST_MAX_RETRIES /\ r.cached \in Seq(Packets)
         /\ r.retries \in Nat
         /\ Key(r) \in Keys /\ Key(r) # NoRequest
         /\ r = [iface |-> r.iface, ip4 |-> r.ip4, age |-> r.age, retries |-> r.retries, cached |-> r.cached]
<1>1. /\ r.iface \in DOMAIN IfaceIp /\ r.ip4 \in Addrs /\ r.age \in Ages
      /\ r.retries \in 1..ARP_REQUEST_MAX_RETRIES /\ r.cached \in Seq(Packets)
      /\ r = [iface |-> r.iface, ip4 |-> r.ip4, age |-> r.age, retries |-> r.retries, cached |-> r.cached]
  BY DEF Request
<1>2. r.retries \in Nat
  BY <1>1, ArpCacheAssumption
<1>3. Key(r) \in Keys /\ Key(r) # NoRequest
  BY <1>1 DEF Key, Keys, NoRequest
<1> QED
  BY <1>1, <1>2, <1>3

\* The lists s and t differ in the ages and tries of their requests alone.
Same(s, t) ==
  /\ s \in Seq(Request) /\ t \in Seq(Request) /\ DOMAIN t = DOMAIN s /\ Len(t) = Len(s)
  /\ \A k \in DOMAIN s : t[k].iface = s[k].iface /\ t[k].ip4 = s[k].ip4 /\ t[k].cached = s[k].cached

\* Such lists hold the same packets.
LEMMA SameHolds ==
  ASSUME NEW s, NEW t, Same(s, t)
  PROVE  /\ \A k \in DOMAIN s : Key(t[k]) = Key(s[k]) /\ (Forwards(t[k]) <=> Forwards(s[k]))
         /\ \A p : \A k \in DOMAIN s : Has(t[k], p) <=> Has(s[k], p)
         /\ KeysOnce(s) => KeysOnce(t)
         /\ \A dry : Filled(s, dry) => Filled(t, dry)
         /\ \A p : OnceIn(s, p) => OnceIn(t, p)
         /\ \A p : SomeIn(t, p) <=> SomeIn(s, p)
<1>0. DOMAIN t = DOMAIN s /\ \A k \in DOMAIN s : t[k].iface = s[k].iface /\ t[k].ip4 = s[k].ip4 /\ t[k].cached = s[k].cached
  BY DEF Same
<1>1. \A k \in DOMAIN s : Key(t[k]) = Key(s[k]) /\ (Forwards(t[k]) <=> Forwards(s[k]))
  BY <1>0 DEF Key, Forwards
<1>2. \A p : \A k \in DOMAIN s : Has(t[k], p) <=> Has(s[k], p)
  BY <1>0 DEF Has
<1>3. \A p : \A k \in DOMAIN s : HasOnce(s[k], p) => HasOnce(t[k], p)
  BY <1>0 DEF HasOnce
<1>4. KeysOnce(s) => KeysOnce(t)
  BY <1>0, <1>1 DEF KeysOnce
<1>5. \A dry : Filled(s, dry) => Filled(t, dry)
  BY <1>0, <1>1 DEF Filled
<1>6. \A p : OnceIn(s, p) => OnceIn(t, p)
  BY <1>0, <1>2, <1>3 DEF OnceIn
<1>7. \A p : SomeIn(t, p) <=> SomeIn(s, p)
  BY <1>0, <1>2 DEF SomeIn
<1> QED
  BY <1>1, <1>2, <1>4, <1>5, <1>6, <1>7

\* One change after another.
LEMMA SameTwice ==
  ASSUME NEW s, NEW t, NEW u, Same(s, t), Same(t, u) PROVE Same(s, u)
BY DEF Same

\* A request with another age and number of tries.
LEMMA Aged ==
  ASSUME NEW r \in Request, NEW a \in Ages, NEW n \in 1..ARP_REQUEST_MAX_RETRIES,
         NEW x, x = [iface |-> r.iface, ip4 |-> r.ip4, age |-> a, retries |-> n, cached |-> r.cached]
  PROVE  x \in Request /\ x.iface = r.iface /\ x.ip4 = r.ip4 /\ x.cached = r.cached
BY DEF Request

\* The clock changes ages alone.
LEMMA RipenedSame ==
  ASSUME req_list \in Seq(Request), NEW late PROVE Same(req_list, Ripened(late))
<1> DEFINE r(k) == req_list[k]
           a(k) == IF r(k).age # "new" \/ k <= late THEN "ripe" ELSE "waits"
           t == Ripened(late)
<1>1. ASSUME NEW k \in DOMAIN req_list
      PROVE  t[k] \in Request /\ t[k].iface = r(k).iface /\ t[k].ip4 = r(k).ip4 /\ t[k].cached = r(k).cached
  <2>1. r(k) \in Request
    OBVIOUS
  <2>2. t[k] = [r(k) EXCEPT !.age = a(k)]
    BY DEF Ripened
  <2>3. a(k) \in Ages
    BY DEF Ages
  <2> HIDE DEF r, a, t
  <2>4. t[k] = [iface |-> r(k).iface, ip4 |-> r(k).ip4, age |-> a(k), retries |-> r(k).retries, cached |-> r(k).cached]
    BY <2>1, <2>2, RequestIs
  <2>5. r(k).retries \in 1..ARP_REQUEST_MAX_RETRIES
    BY <2>1, RequestIs
  <2> QED
    BY <2>1, <2>3, <2>4, <2>5, Aged
<1>2. DOMAIN t = DOMAIN req_list
  BY DEF Ripened
<1>3. t \in [1..Len(req_list) -> Request] /\ Len(req_list) \in Nat
  <2>1. t = [k \in DOMAIN req_list |-> t[k]] /\ DOMAIN req_list = 1..Len(req_list) /\ Len(req_list) \in Nat
    BY DEF Ripened
  <2> HIDE DEF t
  <2> QED
    BY <1>1, <2>1
<1> HIDE DEF t
<1>4. t \in Seq(Request) /\ Len(t) = Len(req_list)
  BY <1>3
<1>5. Same(req_list, t)
  BY <1>1, <1>2, <1>4 DEF Same
<1> QED
  BY <1>5 DEF t

\* The scan sends the due requests again, none of them too often.
LEMMA ScannedSame ==
  ASSUME NEW s \in Seq(Request), NEW k \in Nat, NEW stop \in Nat,
         \A j \in DOMAIN s : k <= j /\ j < stop => j \notin GivenUp(s, k)
  PROVE  Same(s, Scanned(s, k, stop))
<1> DEFINE t == Scanned(s, k, stop)
<1>0. DOMAIN s = 1..Len(s) /\ Len(s) \in Nat
  OBVIOUS
<1>1. ASSUME NEW j \in DOMAIN s
      PROVE  t[j] \in Request /\ t[j].iface = s[j].iface /\ t[j].ip4 = s[j].ip4 /\ t[j].cached = s[j].cached
  <2> DEFINE r == s[j]
  <2>1. r \in Request
    OBVIOUS
  <2>2. t[j] = IF k <= j /\ j < stop THEN Resent(r) ELSE r
    BY DEF Scanned
  <2>3. CASE ~(k <= j /\ j < stop /\ r.age = "ripe")
    <3>1. t[j] = r
      BY <2>2, <2>3 DEF Resent
    <3> QED
      BY <2>1, <3>1
  <2>4. CASE k <= j /\ j < stop /\ r.age = "ripe"
    <3>1. t[j] = [r EXCEPT !.age = "waits", !.retries = @ + 1]
      BY <2>2, <2>4 DEF Resent
    <3>2. r.retries < ARP_REQUEST_MAX_RETRIES
      <4>1. j \notin GivenUp(s, k) /\ j \in k..Len(s)
        BY <2>4, <1>0
      <4>2. ~(r.retries >= ARP_REQUEST_MAX_RETRIES)
        BY <4>1, <2>4 DEF GivenUp
      <4> QED
        BY <2>1, <4>2, RequestIs, ArpCacheAssumption
    <3> HIDE DEF r, t
    <3>3. r.retries + 1 \in 1..ARP_REQUEST_MAX_RETRIES /\ "waits" \in Ages
      BY <2>1, <3>2, RequestIs, ArpCacheAssumption DEF Ages
    <3>4. t[j] = [iface |-> r.iface, ip4 |-> r.ip4, age |-> "waits", retries |-> r.retries + 1, cached |-> r.cached]
      BY <2>1, <3>1, RequestIs
    <3>5. t[j] \in Request /\ t[j].iface = r.iface /\ t[j].ip4 = r.ip4 /\ t[j].cached = r.cached
      BY <2>1, <3>3, <3>4, Aged
    <3> QED
      BY <3>5 DEF r
  <2> QED
    BY <2>3, <2>4
<1>2. DOMAIN t = DOMAIN s
  BY DEF Scanned
<1>3. t \in [1..Len(s) -> Request]
  <2>1. t = [j \in DOMAIN s |-> t[j]]
    BY DEF Scanned
  <2> HIDE DEF t
  <2> QED
    BY <1>0, <1>1, <2>1
<1> HIDE DEF t
<1>4. t \in Seq(Request) /\ Len(t) = Len(s)
  BY <1>0, <1>3
<1>5. Same(s, t)
  BY <1>1, <1>2, <1>4 DEF Same
<1> QED
  BY <1>5 DEF t

\* v is the list s without the requests that are not in S.
Drops(v, s, S) ==
  /\ v \in Seq(Request)
  /\ \A a \in DOMAIN v : v[a] \in S
  /\ \A a, b \in DOMAIN v : \E i, j \in DOMAIN s : v[a] = s[i] /\ v[b] = s[j] /\ Ordered(a, b, i, j)
  /\ \A i \in DOMAIN s : s[i] \in S => \E a \in DOMAIN v : v[a] = s[i]

\* Kept drops.
LEMMA KeptDrops ==
  ASSUME NEW s \in Seq(Request), NEW S PROVE Drops(Kept(s, S), s, S)
<1> DEFINE v == Kept(s, S)
<1>1. v \in Seq(Request) /\ KeptOf(v, s, S, Len(s))
  BY KeptIs
<1> HIDE DEF v
<1>2. DOMAIN v = 1..Len(v) /\ DOMAIN s = 1..Len(s)
  BY <1>1
<1>3. Drops(v, s, S)
  BY <1>1, <1>2 DEF KeptOf, Drops
<1> QED
  BY <1>3 DEF v

\* RemoveAt drops one request; those behind it move up.
LEMMA RemoveDrops ==
  ASSUME NEW s \in Seq(Request), KeysOnce(s), NEW k \in DOMAIN s,
         NEW S, S = {r \in Range(s) : Key(r) # Key(s[k])}
  PROVE  /\ Drops(RemoveAt(s, k), s, S)
         /\ Len(RemoveAt(s, k)) = Len(s) - 1
<1> DEFINE v == RemoveAt(s, k)
           at(a) == IF a < k THEN a ELSE a + 1
<1>0. Len(s) \in Nat /\ k \in 1..Len(s) /\ DOMAIN s = 1..Len(s)
  OBVIOUS
<1>1. SubSeq(s, 1, k - 1) \in Seq(Request) /\ SubSeq(s, k + 1, Len(s)) \in Seq(Request)
  BY <1>0
<1>2. Len(SubSeq(s, 1, k - 1)) = k - 1 /\ Len(SubSeq(s, k + 1, Len(s))) = Len(s) - k
  BY <1>0
<1>3. v \in Seq(Request) /\ Len(v) = Len(s) - 1
  BY <1>0, <1>1, <1>2 DEF RemoveAt
<1>4. \A a \in 1..(Len(s) - 1) : v[a] = s[at(a)]
  <2> DEFINE x == SubSeq(s, 1, k - 1)
             y == SubSeq(s, k + 1, Len(s))
  <2>1. v = x \o y
    BY DEF RemoveAt
  <2>2. \A a \in 1..(k - 1) : x[a] = s[a]
    BY <1>0
  <2>3. \A a \in 1..(Len(s) - k) : y[a] = s[a + k]
    BY <1>0
  <2>0. x \in Seq(Request) /\ y \in Seq(Request) /\ Len(x) = k - 1 /\ Len(y) = Len(s) - k
    BY <1>1, <1>2
  <2> HIDE DEF v, x, y
  <2>4. \A a \in 1..(Len(s) - 1) : v[a] = IF a <= k - 1 THEN x[a] ELSE y[a - (k - 1)]
    BY <1>0, <2>0, <2>1
  <2> SUFFICES ASSUME NEW a \in 1..(Len(s) - 1) PROVE v[a] = s[at(a)]
    OBVIOUS
  <2>5. CASE a < k
    BY <1>0, <2>2, <2>4, <2>5
  <2>6. CASE ~(a < k)
    <3>1. a - (k - 1) \in 1..(Len(s) - k) /\ (a - (k - 1)) + k = a + 1 /\ ~(a <= k - 1)
      BY <1>0, <2>6
    <3> QED
      BY <2>3, <2>4, <2>6, <3>1
  <2> QED
    BY <2>5, <2>6
<1> HIDE DEF v
<1>5. DOMAIN v = 1..(Len(s) - 1)
  BY <1>0, <1>3
<1>6. \A a \in DOMAIN v : at(a) \in DOMAIN s /\ at(a) # k /\ a \in Nat
  BY <1>0, <1>5
<1>7. \A a, b \in DOMAIN v : Ordered(a, b, at(a), at(b))
  BY <1>0, <1>5 DEF Ordered
<1>8. \A i \in DOMAIN s : i # k => \E a \in DOMAIN v : at(a) = i
  <2> SUFFICES ASSUME NEW i \in DOMAIN s, i # k PROVE \E a \in DOMAIN v : at(a) = i
    OBVIOUS
  <2> DEFINE a == IF i < k THEN i ELSE i - 1
  <2>1. a \in DOMAIN v /\ at(a) = i
    BY <1>0, <1>5
  <2> QED
    BY <2>1
<1> HIDE DEF at
<1>9. \A i \in DOMAIN s : s[i] \in S <=> i # k
  BY DEF KeysOnce, Range
<1>10. Drops(v, s, S)
  BY <1>3, <1>4, <1>5, <1>6, <1>7, <1>8, <1>9 DEF Drops
<1> QED
  BY <1>3, <1>10 DEF v

\* What a list holds after some requests were dropped.
LEMMA DropsHolds ==
  ASSUME NEW s \in Seq(Request), KeysOnce(s), NEW S, NEW v, Drops(v, s, S)
  PROVE  /\ v \in Seq(Request) /\ KeysOnce(v)
         /\ \A a \in DOMAIN v : v[a] \in S /\ \E i \in DOMAIN s : v[a] = s[i]
         /\ \A i \in DOMAIN s : s[i] \in S => \E a \in DOMAIN v : v[a] = s[i]
         /\ \A dry : Filled(s, dry) => Filled(v, dry)
         /\ \A p : OnceIn(s, p) => OnceIn(v, p)
         /\ \A p : SomeIn(v, p) <=> \E k \in DOMAIN s : s[k] \in S /\ Has(s[k], p)
         /\ \A k, l \in DOMAIN s : s[k] \in S /\ s[l] \in S /\ k < l =>
              \E a, b \in DOMAIN v : a < b /\ v[a] = s[k] /\ v[b] = s[l]
<1>0. v \in Seq(Request) /\ DOMAIN v \subseteq Nat /\ DOMAIN s \subseteq Nat
  <2>1. v \in Seq(Request)
    BY DEF Drops
  <2> QED
    BY <2>1
<1>1. \A a \in DOMAIN v : v[a] \in S /\ \E i \in DOMAIN s : v[a] = s[i]
  BY DEF Drops
<1>2. \A i \in DOMAIN s : s[i] \in S => \E a \in DOMAIN v : v[a] = s[i]
  BY DEF Drops
<1>3. ASSUME NEW a \in DOMAIN v, NEW b \in DOMAIN v
      PROVE  \E i, j \in DOMAIN s : v[a] = s[i] /\ v[b] = s[j] /\ (i = j => a = b) /\ (i < j => a <= b)
  <2>1. PICK i \in DOMAIN s, j \in DOMAIN s : v[a] = s[i] /\ v[b] = s[j] /\ Ordered(a, b, i, j)
    BY DEF Drops
  <2>2. (i = j => a = b) /\ (i < j => a <= b)
    BY <1>0, <2>1 DEF Ordered
  <2> QED
    BY <2>1, <2>2
<1>4. KeysOnce(v)
  BY <1>3 DEF KeysOnce
<1>5. \A dry : Filled(s, dry) => Filled(v, dry)
  BY <1>1 DEF Filled
<1>6. \A p : OnceIn(s, p) => OnceIn(v, p)
  BY <1>1, <1>3 DEF OnceIn
<1>7. \A p : SomeIn(v, p) <=> \E k \in DOMAIN s : s[k] \in S /\ Has(s[k], p)
  BY <1>1, <1>2 DEF SomeIn
<1>8. ASSUME NEW k \in DOMAIN s, NEW l \in DOMAIN s, s[k] \in S, s[l] \in S, k < l
      PROVE  \E a, b \in DOMAIN v : a < b /\ v[a] = s[k] /\ v[b] = s[l]
  <2>1. PICK a \in DOMAIN v, b \in DOMAIN v : v[a] = s[k] /\ v[b] = s[l]
    BY <1>2, <1>8
  <2>2. PICK i \in DOMAIN s, j \in DOMAIN s : v[a] = s[i] /\ v[b] = s[j] /\ (i = j => a = b) /\ (i < j => a <= b)
    BY <1>3
  <2>3. i = k /\ j = l
    BY <2>1, <2>2 DEF KeysOnce
  <2>4. a # b
    <3>1. s[k] # s[l]
      BY <1>0, <1>8 DEF KeysOnce
    <3> QED
      BY <2>1, <3>1
  <2>5. a < b
    BY <1>0, <1>8, <2>2, <2>3, <2>4
  <2> QED
    BY <2>1, <2>5
<1> QED
  BY <1>0, <1>1, <1>2, <1>4, <1>5, <1>6, <1>7, <1>8

\* A request with other packets.
LEMMA Recached ==
  ASSUME NEW r \in Request, NEW c \in Seq(Packets), NEW e, e = [r EXCEPT !.cached = c]
  PROVE  e \in Request /\ e.iface = r.iface /\ e.ip4 = r.ip4 /\ e.cached = c /\ Key(e) = Key(r)
<1>1. e \in Request /\ e.iface = r.iface /\ e.ip4 = r.ip4 /\ e.cached = c
  BY DEF Request
<1> QED
  BY <1>1 DEF Key

\* t is s with other packets in request m.
Puts(t, s, m, c) == t = [s EXCEPT ![m].cached = c]

\* The packets of one request are changed.
LEMMA OneChanged ==
  ASSUME NEW s \in Seq(Request), NEW m \in DOMAIN s, NEW c \in Seq(Packets),
         NEW t, Puts(t, s, m, c)
  PROVE  /\ t \in Seq(Request) /\ DOMAIN t = DOMAIN s
         /\ \A k \in DOMAIN s : k # m => t[k] = s[k]
         /\ t[m].cached = c
         /\ \A k \in DOMAIN s : Key(t[k]) = Key(s[k]) /\ t[k].iface = s[k].iface /\ t[k].ip4 = s[k].ip4
         /\ KeysOnce(s) => KeysOnce(t)
<1> DEFINE r == s[m]
           e == [r EXCEPT !.cached = c]
<1>1. r \in Request
  OBVIOUS
<1>2. t = [s EXCEPT ![m] = e]
  BY DEF Puts
<1>3. e \in Request /\ e.iface = r.iface /\ e.ip4 = r.ip4 /\ e.cached = c /\ Key(e) = Key(r)
  <2> HIDE DEF r
  <2> QED
    BY <1>1, Recached
<1> HIDE DEF e
<1>4. t \in Seq(Request) /\ DOMAIN t = DOMAIN s /\ \A k \in DOMAIN s : t[k] = IF k = m THEN e ELSE s[k]
  BY <1>2, <1>3, OneElement
<1>5. \A k \in DOMAIN s : Key(t[k]) = Key(s[k]) /\ t[k].iface = s[k].iface /\ t[k].ip4 = s[k].ip4
  BY <1>3, <1>4
<1>6. KeysOnce(s) => KeysOnce(t)
  <2>1. DOMAIN t = DOMAIN s
    BY <1>4
  <2>2. \A k \in DOMAIN s : Key(t[k]) = Key(s[k])
    BY <1>5
  <2> QED
    BY <2>1, <2>2 DEF KeysOnce
<1> QED
  BY <1>3, <1>4, <1>5, <1>6

\* A packet joins a request.
LEMMA PacketAdded ==
  ASSUME NEW r, r.cached \in Seq(Packets), NEW q \in Packets, NEW x, x.cached = Append(r.cached, q)
  PROVE  /\ \A p : Has(x, p) <=> Has(r, p) \/ q.id = p
         /\ \A p : HasOnce(r, p) /\ ~(Has(r, p) /\ q.id = p) => HasOnce(x, p)
         /\ Forwards(x) <=> Forwards(r) \/ q.by = "packet"
<1> DEFINE c == r.cached
           n == Len(c)
           d == x.cached
<1>1. n \in Nat /\ DOMAIN c = 1..n /\ DOMAIN d = 1..(n + 1)
  OBVIOUS
<1>2. d[n + 1] = q /\ \A i \in DOMAIN c : d[i] = c[i] /\ i \in DOMAIN d
  OBVIOUS
<1>3. n + 1 \in DOMAIN d /\ \A i \in DOMAIN d : i \in DOMAIN c \/ i = n + 1
  BY <1>1
<1> HIDE DEF n
<1>4. \A p : Has(x, p) <=> Has(r, p) \/ q.id = p
  BY <1>2, <1>3 DEF Has
<1>5. \A p : HasOnce(r, p) /\ ~(Has(r, p) /\ q.id = p) => HasOnce(x, p)
  BY <1>2, <1>3 DEF Has, HasOnce
<1>6. Forwards(x) <=> Forwards(r) \/ q.by = "packet"
  BY <1>2, <1>3 DEF Forwards
<1> QED
  BY <1>4, <1>5, <1>6

\* The first packet leaves a request.
LEMMA PacketTaken ==
  ASSUME NEW r, r.cached \in Seq(Packets), r.cached # <<>>, NEW x, x.cached = Tail(r.cached)
  PROVE  /\ \A p : Has(r, p) <=> Has(x, p) \/ Head(r.cached).id = p
         /\ \A p : HasOnce(r, p) => HasOnce(x, p) /\ ~(Has(x, p) /\ Head(r.cached).id = p)
         /\ Forwards(x) => Forwards(r)
<1> DEFINE c == r.cached
           n == Len(c)
           d == x.cached
<1>1. n \in Nat /\ n >= 1 /\ DOMAIN c = 1..n /\ DOMAIN d = 1..(n - 1) /\ Head(c) = c[1]
  OBVIOUS
<1>2. \A i \in DOMAIN d : d[i] = c[i + 1] /\ i + 1 \in DOMAIN c /\ i + 1 # 1 /\ i \in Nat
  BY <1>1
<1>3. 1 \in DOMAIN c /\ \A i \in DOMAIN c : i = 1 \/ (i - 1 \in DOMAIN d /\ d[i - 1] = c[i])
  BY <1>1
<1>4. \A p : Has(r, p) <=> Has(x, p) \/ Head(r.cached).id = p
  <2> SUFFICES ASSUME NEW p PROVE Has(r, p) <=> Has(x, p) \/ Head(r.cached).id = p
    OBVIOUS
  <2>1. Has(r, p) => Has(x, p) \/ Head(r.cached).id = p
    BY <1>1, <1>3 DEF Has
  <2>2. Has(x, p) => Has(r, p)
    BY <1>2 DEF Has
  <2>3. Head(r.cached).id = p => Has(r, p)
    BY <1>1, <1>3 DEF Has
  <2> QED
    BY <2>1, <2>2, <2>3
<1>5. \A p : HasOnce(r, p) => HasOnce(x, p) /\ ~(Has(x, p) /\ Head(r.cached).id = p)
  <2> SUFFICES ASSUME NEW p, HasOnce(r, p) PROVE HasOnce(x, p) /\ ~(Has(x, p) /\ Head(r.cached).id = p)
    OBVIOUS
  <2>1. ~(Has(x, p) /\ Head(r.cached).id = p)
    BY <1>1, <1>2, <1>3 DEF Has, HasOnce
  <2>2. ASSUME NEW i \in DOMAIN d, NEW j \in DOMAIN d, d[i].id = p, d[j].id = p PROVE i = j
    <3>1. i + 1 = j + 1 /\ i \in Nat /\ j \in Nat
      BY <1>2, <2>2 DEF HasOnce
    <3> QED
      BY <3>1
  <2> QED
    BY <2>1, <2>2 DEF HasOnce
<1>6. Forwards(x) => Forwards(r)
  BY <1>2 DEF Forwards
<1> QED
  BY <1>4, <1>5, <1>6

\* The ids of packets are not that of the router's own.
LEMMA IdsAre == 0 \notin Ids /\ \A p \in Traffic : p.id \in Ids
BY RouterAssumption DEF Ids

\* Waiting is Has, for packets that are not the router's own.
LEMMA WaitingIs ==
  ASSUME NEW r, NEW p \in Ids PROVE p \in Waiting(r) <=> Has(r, p)
BY IdsAre DEF Waiting, Has

\* A request is found by its key.
LEMMA IndexIs ==
  ASSUME KeysOnce(req_list), NEW k \in DOMAIN req_list PROVE Index(Key(req_list[k])) = k
<1> DEFINE key == Key(req_list[k])
           i == Index(key)
<1>1. \E l \in DOMAIN req_list : Key(req_list[l]) = key
  OBVIOUS
<1>2. i \in DOMAIN req_list /\ Key(req_list[i]) = key
  <2> HIDE DEF key
  <2> QED
    BY <1>1, Zenon DEF Index
<1> HIDE DEF i
<1>3. i = k
  BY <1>2 DEF KeysOnce
<1> QED
  BY <1>3 DEF i

\* What the scan leaves: the same packets, and the sweep thread asleep or at the
\* request it gives up.
LEMMA ScanIs ==
  ASSUME NEW s \in Seq(Request), KeysOnce(s), Filled(s, NoRequest), NEW k \in Nat \ {0},
         ScanFrom(s, k), crashed' \in BOOLEAN
  PROVE  Same(s, req_list') /\ ListInv' /\ SweepInv'
<1> DEFINE dead == GivenUp(s, k)
<1>0. DOMAIN s = 1..Len(s) /\ Len(s) \in Nat
  OBVIOUS
<1>1. dead \subseteq k..Len(s) /\ dead \subseteq Nat /\ dead \subseteq DOMAIN s
  BY <1>0 DEF GivenUp
<1>2. \A j \in DOMAIN s : s[j] \in Request /\ Key(s[j]) \in Keys /\ Key(s[j]) # NoRequest
  BY RequestIs
<1>3. \A j \in DOMAIN s : s[j].cached # <<>>
  BY <1>2 DEF Filled
<1>4. CASE dead = {}
  <2>1. req_list' = Scanned(s, k, Len(s) + 1) /\ sweep' = Asleep
    BY <1>4 DEF ScanFrom
  <2>2. Same(s, req_list')
    <3>1. Len(s) + 1 \in Nat /\ \A j \in DOMAIN s : j \notin GivenUp(s, k)
      BY <1>0, <1>4
    <3> HIDE DEF dead
    <3> QED
      BY <2>1, <3>1, ScannedSame
  <2>3. req_list' \in Seq(Request) /\ KeysOnce(req_list') /\ Filled(req_list', NoRequest)
    BY <2>2, SameHolds DEF Same
  <2>4. sweep'.req = NoRequest /\ sweep'.at = "sleep"
    BY <2>1 DEF Asleep
  <2>5. ListInv'
    BY <2>3, <2>4 DEF ListInv
  <2>6. SweepInv'
    BY <2>1, <2>4 DEF SweepInv, Asleep
  <2> QED
    BY <2>2, <2>5, <2>6
<1>5. CASE dead # {}
  <2> DEFINE j == Min(dead)
             temp == IF j = Len(s) THEN NoRequest ELSE Key(s[j + 1])
  <2>1. req_list' = Scanned(s, k, j)
    BY <1>5 DEF ScanFrom
  <2>2. sweep' = [at |-> "drain", req |-> Key(s[j]), temp |-> temp, more |-> s[j].cached # <<>>]
    BY <1>5 DEF ScanFrom
  <2>3. j \in dead /\ \A i \in dead : j <= i
    <3> HIDE DEF dead
    <3> QED
      BY <1>1, <1>5, MinIs
  <2>4. j \in DOMAIN s /\ j \in Nat
    BY <1>1, <2>3
  <2> HIDE DEF j
  <2>5. \A i \in DOMAIN s : i < j => i \notin dead
    BY <1>0, <2>3, <2>4
  <2>6. Same(s, req_list')
    BY <2>1, <2>4, <2>5, ScannedSame
  <2>7. req_list' \in Seq(Request) /\ KeysOnce(req_list') /\ Filled(req_list', NoRequest)
        /\ DOMAIN req_list' = DOMAIN s
    BY <2>6, SameHolds DEF Same
  <2>8. \A i \in DOMAIN s : Key(req_list'[i]) = Key(s[i]) /\ req_list'[i].cached = s[i].cached
    BY <2>6, SameHolds DEF Same
  <2>9. \A i \in DOMAIN req_list' : req_list'[i].cached # <<>>
    BY <1>3, <2>7, <2>8
  <2>10. ListInv'
    BY <2>7, <2>9 DEF ListInv, Filled
  <2>11. j + 1 \in DOMAIN s \/ temp = NoRequest
    BY <1>0, <2>4
  <2>12. temp = NoRequest \/ temp \in Keys
    BY <1>2, <2>11
  <2>13. temp = NoRequest \/ \E l \in DOMAIN req_list' : j < l /\ Key(req_list'[l]) = temp
    <3> SUFFICES ASSUME temp # NoRequest PROVE \E l \in DOMAIN req_list' : j < l /\ Key(req_list'[l]) = temp
      OBVIOUS
    <3>1. j + 1 \in DOMAIN req_list' /\ j < j + 1 /\ temp = Key(s[j + 1])
      BY <2>4, <2>7, <2>11
    <3> QED
      BY <2>7, <2>8, <3>1
  <2> HIDE DEF temp
  <2>14. sweep'.at = "drain" /\ sweep'.req = Key(s[j]) /\ sweep'.temp = temp /\ sweep'.more \in BOOLEAN
    BY <2>2
  <2>15. sweep' \in [at : {"sleep", "drain"}, req : Keys \cup {NoRequest}, temp : Keys \cup {NoRequest},
                     more : BOOLEAN]
    BY <1>2, <2>2, <2>4, <2>12
  <2>16. At(req_list, j)' /\ j \in DOMAIN req_list'
    BY <1>3, <2>4, <2>7, <2>8, <2>9, <2>13, <2>14 DEF At
  <2>17. SweepInv'
    BY <2>14, <2>15, <2>16 DEF SweepInv
  <2> QED
    BY <2>6, <2>10, <2>17
<1> QED
  BY <1>4, <1>5

\* A packet is appended: it is in the list once more, in a request for its next hop.
LEMMA AppendGives ==
  ASSUME req_list \in Seq(Request), KeysOnce(req_list),
         NEW iface \in DOMAIN IfaceIp, NEW a \in Addrs, NEW q \in Packets,
         NEW list, list = arpcache_append_packet(iface, a, q)
  PROVE  /\ list \in Seq(Request) /\ KeysOnce(list)
         /\ \A dry : Filled(req_list, dry) => Filled(list, dry)
         /\ \A p : SomeIn(list, p) <=> SomeIn(req_list, p) \/ q.id = p
         /\ \A p : OnceIn(req_list, p) /\ ~(SomeIn(req_list, p) /\ q.id = p) => OnceIn(list, p)
         /\ \A k \in DOMAIN req_list :
              /\ k \in DOMAIN list /\ Key(list[k]) = Key(req_list[k])
              /\ req_list[k].cached # <<>> => list[k].cached # <<>>
         /\ \A k \in DOMAIN list : \A p : Has(list[k], p) =>
              \/ /\ k \in DOMAIN req_list /\ Has(req_list[k], p)
                 /\ list[k].iface = req_list[k].iface /\ list[k].ip4 = req_list[k].ip4
              \/ q.id = p /\ list[k].iface = iface /\ list[k].ip4 = a
         /\ \A k \in DOMAIN list : Forwards(list[k]) =>
              \/ k \in DOMAIN req_list /\ Forwards(req_list[k]) /\ list[k].ip4 = req_list[k].ip4
              \/ q.by = "packet" /\ list[k].ip4 = a
<1>0. DOMAIN req_list = 1..Len(req_list) /\ Len(req_list) \in Nat
      /\ \A k \in DOMAIN req_list : req_list[k] \in Request /\ req_list[k].cached \in Seq(Packets)
  BY RequestIs
<1>1. CASE Joined(iface, a) # {}
  <2> DEFINE m == Min(Joined(iface, a))
             r == req_list[m]
             c == Append(r.cached, q)
  <2>1. m \in DOMAIN req_list /\ r.ip4 = a /\ r.iface = iface
    <3>1. Joined(iface, a) \subseteq Nat
      BY <1>0 DEF Joined
    <3>2. m \in Joined(iface, a)
      BY <1>1, <3>1, MinIs
    <3> QED
      BY <3>2 DEF Joined
  <2>2. list = [req_list EXCEPT ![m].cached = c]
    BY <1>1 DEF arpcache_append_packet
  <2>3. c \in Seq(Packets) /\ c # <<>>
    <3>1. r.cached \in Seq(Packets)
      BY <1>0, <2>1
    <3> HIDE DEF r
    <3> QED
      BY <3>1
  <2>4. /\ list \in Seq(Request) /\ DOMAIN list = DOMAIN req_list
        /\ \A k \in DOMAIN req_list : k # m => list[k] = req_list[k]
        /\ list[m].cached = c
        /\ \A k \in DOMAIN req_list : Key(list[k]) = Key(req_list[k]) /\ list[k].iface = req_list[k].iface
                                      /\ list[k].ip4 = req_list[k].ip4
        /\ KeysOnce(list)
    <3>1. Puts(list, req_list, m, c)
      BY <2>2 DEF Puts
    <3> HIDE DEF c, m
    <3> QED
      BY <2>1, <2>3, <3>1, OneChanged
  <2>5. /\ \A p : Has(list[m], p) <=> Has(r, p) \/ q.id = p
        /\ \A p : HasOnce(r, p) /\ ~(Has(r, p) /\ q.id = p) => HasOnce(list[m], p)
        /\ Forwards(list[m]) <=> Forwards(r) \/ q.by = "packet"
    <3>1. r.cached \in Seq(Packets)
      BY <1>0, <2>1
    <3>2. list[m].cached = Append(r.cached, q)
      BY <2>4
    <3> HIDE DEF r
    <3> QED
      BY <3>1, <3>2, PacketAdded
  <2> HIDE DEF m, c
  <2>6. \A dry : Filled(req_list, dry) => Filled(list, dry)
    BY <2>1, <2>3, <2>4 DEF Filled
  <2>7. \A p : SomeIn(list, p) <=> SomeIn(req_list, p) \/ q.id = p
    BY <2>1, <2>4, <2>5 DEF SomeIn
  <2>8. ASSUME NEW p, OnceIn(req_list, p), ~(SomeIn(req_list, p) /\ q.id = p) PROVE OnceIn(list, p)
    <3>1. \A k \in DOMAIN list : HasOnce(list[k], p)
      BY <2>1, <2>4, <2>5, <2>8 DEF OnceIn, SomeIn
    <3>2. \A k, l \in DOMAIN list : Has(list[k], p) /\ Has(list[l], p) => k = l
      BY <2>1, <2>4, <2>5, <2>8 DEF OnceIn, SomeIn
    <3> QED
      BY <3>1, <3>2 DEF OnceIn
  <2>9. \A k \in DOMAIN req_list : req_list[k].cached # <<>> => list[k].cached # <<>>
    BY <2>3, <2>4
  <2>10. ASSUME NEW k \in DOMAIN list, NEW p, Has(list[k], p)
         PROVE  \/ Has(req_list[k], p)
                \/ q.id = p /\ list[k].iface = iface /\ list[k].ip4 = a
    BY <2>1, <2>4, <2>5, <2>10
  <2>11. ASSUME NEW k \in DOMAIN list, Forwards(list[k])
         PROVE  Forwards(req_list[k]) \/ (q.by = "packet" /\ list[k].ip4 = a)
    BY <2>1, <2>4, <2>5, <2>11
  <2> QED
    BY <2>4, <2>6, <2>7, <2>8, <2>9, <2>10, <2>11
<1>2. CASE Joined(iface, a) = {}
  <2> DEFINE n == Len(req_list) + 1
             e == [iface |-> iface, ip4 |-> a, age |-> "new", retries |-> 1, cached |-> <<q>>]
  <2>1. e \in Request
    <3>1. 1 \in 1..ARP_REQUEST_MAX_RETRIES /\ "new" \in Ages /\ <<q>> \in Seq(Packets)
      BY ArpCacheAssumption DEF Ages
    <3> QED
      BY <3>1 DEF Request
  <2>2. list = Append(req_list, e)
    BY <1>2 DEF arpcache_append_packet
  <2>3. /\ \A p : Has(e, p) <=> q.id = p
        /\ \A p : HasOnce(e, p)
        /\ Forwards(e) <=> q.by = "packet"
    BY DEF Has, HasOnce, Forwards
  <2>4. e.iface = iface /\ e.ip4 = a /\ e.cached # <<>>
    OBVIOUS
  <2>5. \A k \in DOMAIN req_list : Key(req_list[k]) # Key(e)
    <3> SUFFICES ASSUME NEW k \in DOMAIN req_list, Key(req_list[k]) = Key(e) PROVE FALSE
      OBVIOUS
    <3>1. req_list[k].iface = iface /\ req_list[k].ip4 = a
      BY <2>4 DEF Key
    <3> QED
      BY <1>2, <3>1 DEF Joined
  <2> HIDE DEF e
  <2>6. list \in Seq(Request)
    BY <2>1, <2>2
  <2>7. \A k \in DOMAIN req_list : k \in DOMAIN list /\ k # n /\ list[k] = req_list[k]
    BY <1>0, <2>2
  <2>8. n \in DOMAIN list /\ list[n] = e
    BY <1>0, <2>2
  <2>9. \A k \in DOMAIN list : k \in DOMAIN req_list \/ k = n
    BY <1>0, <2>2
  <2> HIDE DEF n
  <2>10. KeysOnce(list)
    BY <2>5, <2>7, <2>8, <2>9 DEF KeysOnce
  <2>11. \A dry : Filled(req_list, dry) => Filled(list, dry)
    BY <2>4, <2>7, <2>8, <2>9 DEF Filled
  <2>12. \A p : SomeIn(list, p) <=> SomeIn(req_list, p) \/ q.id = p
    BY <2>3, <2>7, <2>8, <2>9 DEF SomeIn
  <2>13. ASSUME NEW p, OnceIn(req_list, p), ~(SomeIn(req_list, p) /\ q.id = p) PROVE OnceIn(list, p)
    <3>1. \A k \in DOMAIN list : HasOnce(list[k], p)
      BY <2>3, <2>7, <2>8, <2>9, <2>13 DEF OnceIn
    <3>2. \A k, l \in DOMAIN list : Has(list[k], p) /\ Has(list[l], p) => k = l
      BY <2>3, <2>7, <2>8, <2>9, <2>13 DEF OnceIn, SomeIn
    <3> QED
      BY <3>1, <3>2 DEF OnceIn
  <2>14. \A k \in DOMAIN req_list :
           /\ k \in DOMAIN list /\ Key(list[k]) = Key(req_list[k])
           /\ req_list[k].cached # <<>> => list[k].cached # <<>>
    BY <2>7
  <2>15. ASSUME NEW k \in DOMAIN list, NEW p, Has(list[k], p)
         PROVE  \/ /\ k \in DOMAIN req_list /\ Has(req_list[k], p)
                   /\ list[k].iface = req_list[k].iface /\ list[k].ip4 = req_list[k].ip4
                \/ q.id = p /\ list[k].iface = iface /\ list[k].ip4 = a
    BY <2>3, <2>4, <2>7, <2>8, <2>9, <2>15
  <2>16. ASSUME NEW k \in DOMAIN list, Forwards(list[k])
         PROVE  \/ k \in DOMAIN req_list /\ Forwards(req_list[k]) /\ list[k].ip4 = req_list[k].ip4
                \/ q.by = "packet" /\ list[k].ip4 = a
    BY <2>3, <2>4, <2>7, <2>8, <2>9, <2>16
  <2> QED
    BY <2>6, <2>10, <2>11, <2>12, <2>13, <2>14, <2>15, <2>16
<1> QED
  BY <1>1, <1>2

-----------------------------------------------------------------------------
(***************************************************************************)
(* The invariant is inductive.                                             *)
(***************************************************************************)

\* The router starts empty.
LEMMA InitInv == ASSUME Init PROVE Inv
<1> USE DEF Init
<1>1. req_list = <<>> /\ DOMAIN req_list = {} /\ req_list \in Seq(Request)
  BY DEF arpcache_init
<1>2. ListInv
  BY <1>1 DEF ListInv, KeysOnce, Filled
<1>3. todo["packet"] = <<>> /\ todo["sweep"] = <<>> /\ todo \in [Threads -> Seq(Jobs)]
      /\ \A t \in Threads : todo[t] = <<>> /\ missed[t] = FALSE
  BY DEF Threads
<1>4. ThreadInv
  BY <1>3 DEF ThreadInv, Threads
<1>5. SweepInv
  BY DEF SweepInv, Asleep
<1>6. fate \in [Ids -> Seq(Fates)] /\ \A p \in Ids : fate[p] = <<>>
  OBVIOUS
<1>7. PlaceInv
  BY <1>1, <1>3, <1>6 DEF PlaceInv, Placed, OnceIn, SomeIn, Held
<1>8. RouteInv
  BY <1>1, <1>3, <1>6, IdsAre DEF RouteInv, Held
<1>9. entries = [i \in Slots |-> [valid |-> FALSE, ip4 |-> NoAddr, age |-> 0]] /\ 0 \in 0..ARP_ENTRY_TIMEOUT
  BY ArpCacheAssumption DEF arpcache_init
<1>10. entries \in [Slots -> Entries]
  BY <1>9 DEF Entries
<1>11. CacheInv
  BY <1>1, <1>10 DEF CacheInv
<1> QED
  BY <1>2, <1>4, <1>5, <1>7, <1>8, <1>11 DEF Inv

\* What was settled without sending was not sent wrong.
LEMMA NotSentIs ==
  ASSUME NEW f \in NotSent, NEW routes, NEW p PROVE f \in Fates /\ SentRight(routes, p, f)
<1>1. f[1] # "sent"
  BY DEF NotSent
<1> QED
  BY <1>1 DEF Fates, SentRight

\* What was sent the right way was sent right.
LEMMA SentIs ==
  ASSUME NEW routes, NEW p, NEW i \in DOMAIN IfaceIp, NEW a \in Addrs
  PROVE  Sent(i, a) \in Fates /\ (Goes(routes, p, i, a) => SentRight(routes, p, Sent(i, a)))
<1>1. Sent(i, a) \in Fates
  BY DEF Fates
<1> HIDE DEF Goes
<1>2. Goes(routes, p, i, a) => SentRight(routes, p, Sent(i, a))
  BY DEF SentRight
<1> QED
  BY <1>1, <1>2

\* A packet to be forwarded is settled at once or in hand, by the route it needs.
LEMMA ForwardGives ==
  ASSUME rtable \in RTables, NEW p \in Traffic, NEW ttl, NEW result, result = ip_forward_packet(p, ttl)
  PROVE  \/ /\ \E f \in NotSent : result.fate = <<f>>
            /\ Own(result.todo, "packet")
         \/ /\ result.fate = <<>>
            /\ \E job \in Jobs :
                 /\ result.todo = <<job>> /\ job.packet.id = p.id /\ job.packet.by = "packet"
                 /\ Goes(rtable, p, job.iface, job.nexthop)
<1> DEFINE e == longest_prefix_match(p.dst)
           icmp == icmp_send_packet(p.src, "packet")
           job == Job(Packet(p.id, p.src, p.dst, "packet"), e.iface, NextHop(e, p.dst))
<1>0. p.src \in Addrs /\ p.dst \in Addrs /\ p.id \in Ids /\ "packet" \in Threads
  BY RouterAssumption, IdsAre DEF Threads
<1>1. Own(icmp, "packet")
  BY <1>0, IcmpIsOwn
<1>2. <<"expired">> \in NotSent /\ <<"unrouted">> \in NotSent
  BY DEF NotSent
<1>3. CASE ttl <= 1
  <2>1. result = [fate |-> << <<"expired">> >>, todo |-> icmp]
    BY <1>3 DEF ip_forward_packet
  <2> HIDE DEF icmp
  <2>2. result.fate = << <<"expired">> >> /\ result.todo = icmp
    BY <2>1
  <2> QED
    BY <1>1, <1>2, <2>2
<1>4. CASE ~(ttl <= 1) /\ e = NoEntry
  <2>1. result = [fate |-> << <<"unrouted">> >>, todo |-> icmp]
    BY <1>4 DEF ip_forward_packet
  <2> HIDE DEF icmp
  <2>2. result.fate = << <<"unrouted">> >> /\ result.todo = icmp
    BY <2>1
  <2> QED
    BY <1>1, <1>2, <2>2
<1>5. CASE ~(ttl <= 1) /\ e # NoEntry
  <2>1. result = [fate |-> <<>>, todo |-> <<job>>]
    BY <1>5 DEF ip_forward_packet
  <2>2. e \in Route
    BY <1>5, BestIs
  <2>3. Goes(rtable, p, e.iface, NextHop(e, p.dst))
    BY <1>5, GoesBest
  <2>4. Packet(p.id, p.src, p.dst, "packet") \in Packets
    BY <1>0 DEF Packet, Packets
  <2>5. NextHop(e, p.dst) \in Addrs /\ e.iface \in DOMAIN IfaceIp
    BY <1>0, <2>2 DEF NextHop, Route
  <2>6. job \in Jobs /\ job.iface = e.iface /\ job.nexthop = NextHop(e, p.dst)
        /\ job.packet = Packet(p.id, p.src, p.dst, "packet")
    BY <2>4, <2>5 DEF Job, Jobs
  <2>7. job.packet.id = p.id /\ job.packet.by = "packet"
    BY <2>6 DEF Packet
  <2> HIDE DEF job, e
  <2>8. result.fate = <<>> /\ result.todo = <<job>>
    BY <2>1
  <2>9. Goes(rtable, p, job.iface, job.nexthop)
    BY <2>3, <2>6
  <2> QED
    BY <2>6, <2>7, <2>8, <2>9
<1> QED
  BY <1>3, <1>4, <1>5

\* A packet arrives: it is settled or in hand.  The common part of Forward and Local.
Takes(p, f, s) ==
  /\ Receiving
  /\ p.id \notin arrived
  /\ arrived' = arrived \cup {p.id}
  /\ todo' = [todo EXCEPT !["packet"] = s]
  /\ fate' = [fate EXCEPT ![p.id] = f]
  /\ UNCHANGED <<entries, req_list, rtable, missed, sweep, crashed>>
Fits(p, f, s) ==
  \/ (\E g \in NotSent : f = <<g>>) /\ Own(s, "packet")
  \/ /\ f = <<>>
     /\ \E job \in Jobs :
          /\ s = <<job>> /\ job.packet.id = p.id /\ job.packet.by = "packet"
          /\ Goes(rtable, p, job.iface, job.nexthop)

\* A packet arrives.
LEMMA TakesKeeps ==
  ASSUME Inv, NEW p \in Traffic, NEW f, NEW s, Takes(p, f, s), Fits(p, f, s) PROVE Inv'
<1>0. /\ p.id \in Ids /\ p.id \notin arrived /\ arrived' = arrived \cup {p.id}
      /\ 0 \notin Ids
      /\ todo["packet"] = <<>>
      /\ entries' = entries /\ req_list' = req_list /\ rtable' = rtable /\ missed' = missed
      /\ sweep' = sweep /\ crashed' = crashed
  BY IdsAre DEF Takes, Receiving
<1>1. ListInv'
  BY <1>0 DEF Inv, ListInv
<1>2. SweepInv'
  BY <1>0 DEF Inv, SweepInv, At
<1>3. CacheInv'
  BY <1>0 DEF Inv, CacheInv
<1>4. s \in Seq(Jobs) /\ Len(s) <= 1 /\ (s # <<>> => Head(s).packet.by = "packet")
  BY DEF Fits, Own
<1>5. "packet" \in Threads /\ "sweep" \in Threads /\ "packet" # "sweep"
  BY DEF Threads
<1>6. todo' \in [Threads -> Seq(Jobs)] /\ todo'["packet"] = s
      /\ \A t \in Threads : t # "packet" => todo'[t] = todo[t]
  BY <1>4, <1>5 DEF Takes, Inv, ThreadInv
<1>7. ThreadInv'
  BY <1>0, <1>4, <1>5, <1>6 DEF Inv, ThreadInv
<1>8. f \in Seq(Fates) /\ Len(f) <= 1 /\ \A i \in DOMAIN f : SentRight(rtable, p, f[i])
  <2>1. CASE f = <<>>
    BY <2>1
  <2>2. ASSUME NEW g \in NotSent, f = <<g>>
        PROVE  f \in Seq(Fates) /\ Len(f) <= 1 /\ \A i \in DOMAIN f : SentRight(rtable, p, f[i])
    <3>1. g \in Fates /\ SentRight(rtable, p, g)
      BY NotSentIs
    <3> QED
      BY <2>2, <3>1
  <2> QED
    BY <2>1, <2>2 DEF Fits
<1>9. fate' \in [Ids -> Seq(Fates)] /\ fate'[p.id] = f /\ \A q \in Ids : q # p.id => fate'[q] = fate[q]
  BY <1>0, <1>8 DEF Takes, Inv, PlaceInv
<1>10. \A q \in Ids : ~Held(q)
  BY <1>0 DEF Held
<1>11. \A q \in Ids : Held(q)' <=> (q = p.id /\ f = <<>>)
  <2> SUFFICES ASSUME NEW q \in Ids PROVE Held(q)' <=> (q = p.id /\ f = <<>>)
    OBVIOUS
  <2>1. CASE (\E g \in NotSent : f = <<g>>) /\ Own(s, "packet")
    <3>1. f # <<>>
      BY <2>1
    <3> QED
      BY <1>0, <1>6, <2>1, <3>1 DEF Held, Own
  <2>2. ASSUME f = <<>>, NEW job \in Jobs, s = <<job>>, job.packet.id = p.id
        PROVE  Held(q)' <=> (q = p.id /\ f = <<>>)
    <3>1. Head(s) = job /\ s # <<>>
      BY <2>2
    <3> QED
      BY <1>6, <2>2, <3>1 DEF Held
  <2> QED
    BY <2>1, <2>2 DEF Fits
<1>12. PlaceInv'
  <2>1. ASSUME NEW q \in Ids PROVE Placed(q)'
    <3>1. Placed(q)
      BY DEF Inv, PlaceInv
    <3> QED
      BY <1>0, <1>8, <1>9, <1>10, <1>11, <3>1 DEF Placed
  <2>2. arrived' \subseteq Ids
    BY <1>0 DEF Inv, PlaceInv
  <2> QED
    BY <1>9, <2>1, <2>2 DEF PlaceInv
<1>13. RouteInv'
  <2>1. ASSUME NEW q \in Traffic, Held(q.id)'
        PROVE  Goes(rtable, q, Head(s).iface, Head(s).nexthop)
    <3>1. q.id = p.id /\ f = <<>>
      BY <1>11, <2>1, IdsAre
    <3>2. q = p
      BY <3>1, RouterAssumption
    <3>3. PICK job \in Jobs : s = <<job>> /\ Goes(rtable, p, job.iface, job.nexthop)
      BY <3>1 DEF Fits
    <3>4. Head(s) = job
      BY <3>3
    <3> QED
      BY <3>2, <3>3, <3>4
  <2>2. ASSUME NEW q \in Traffic, NEW i \in DOMAIN fate'[q.id]
        PROVE  SentRight(rtable, q, fate'[q.id][i])
    <3>1. CASE q.id = p.id
      <4>1. q = p
        BY <3>1, RouterAssumption
      <4> QED
        BY <1>8, <1>9, <2>2, <4>1
    <3>2. CASE q.id # p.id
      BY <1>9, <2>2, <3>2, IdsAre DEF Inv, RouteInv
    <3> QED
      BY <3>1, <3>2
  <2>3. rtable \in RTables /\ \A q \in Traffic : \A k \in DOMAIN req_list :
          Has(req_list[k], q.id) => Goes(rtable, q, req_list[k].iface, req_list[k].ip4)
    BY DEF Inv, RouteInv
  <2> QED
    BY <1>0, <1>6, <2>1, <2>2, <2>3 DEF RouteInv
<1> QED
  BY <1>1, <1>2, <1>3, <1>7, <1>12, <1>13 DEF Inv

\* A packet for another address.
LEMMA ForwardKeeps == ASSUME Inv, NEW p \in Traffic, NEW ttl, Forward(p, ttl) PROVE Inv'
<1> DEFINE result == ip_forward_packet(p, ttl)
<1>1. Takes(p, result.fate, result.todo)
  BY DEF Forward, Takes
<1>2. Fits(p, result.fate, result.todo)
  <2>1. rtable \in RTables
    BY DEF Inv, RouteInv
  <2> HIDE DEF result
  <2> QED
    BY <2>1, ForwardGives DEF Fits, result
<1> HIDE DEF result
<1> QED
  BY <1>1, <1>2, TakesKeeps

\* A packet for the router.
LEMMA LocalKeeps == ASSUME Inv, NEW p \in Traffic, NEW echo, Local(p, echo) PROVE Inv'
<1> DEFINE f == << <<"local">> >>
           s == IF echo THEN icmp_send_packet(p.src, "packet") ELSE <<>>
<1>1. Takes(p, f, s)
  BY DEF Local, Takes
<1>2. Own(icmp_send_packet(p.src, "packet"), "packet")
  BY RouterAssumption, IcmpIsOwn DEF Inv, RouteInv, Threads
<1>3. Own(<<>>, "packet")
  BY DEF Own
<1>4. Fits(p, f, s)
  <2>1. <<"local">> \in NotSent
    BY DEF NotSent
  <2>2. Own(s, "packet")
    BY <1>2, <1>3
  <2> HIDE DEF s
  <2> QED
    BY <2>1, <2>2 DEF Fits
<1> HIDE DEF f, s
<1> QED
  BY <1>1, <1>4, TakesKeeps

\* What a thread has in hand.
LEMMA InHand ==
  ASSUME Inv, NEW t \in Threads, todo[t] # <<>>, NEW job, job = Head(todo[t]),
         todo' = [todo EXCEPT ![t] = Tail(@)]
  PROVE  /\ job \in Jobs /\ job.packet \in Packets /\ job.iface \in DOMAIN IfaceIp /\ job.nexthop \in Addrs
         /\ job.packet.by = t /\ (job.packet.id = 0 \/ job.packet.id \in Ids)
         /\ t = "sweep" => job.packet.id = 0
         /\ todo' \in [Threads -> Seq(Jobs)] /\ todo'[t] = <<>>
         /\ \A u \in Threads : u # t => todo'[u] = todo[u]
         /\ \A p \in Ids : Held(p)' <=> (Held(p) /\ t # "packet")
         /\ \A p \in Ids : t = "packet" => (Held(p) <=> job.packet.id = p)
<1>1. todo \in [Threads -> Seq(Jobs)] /\ Len(todo[t]) <= 1 /\ job.packet.by = t
      /\ (t = "sweep" => job.packet.id = 0)
  BY DEF Inv, ThreadInv
<1>2. job \in Jobs /\ Tail(todo[t]) = <<>> /\ <<>> \in Seq(Jobs)
  <2> DEFINE s == todo[t]
  <2>1. s \in Seq(Jobs) /\ Len(s) <= 1 /\ s # <<>> /\ job = Head(s)
    BY <1>1
  <2> HIDE DEF s
  <2>2. Head(s) \in Jobs /\ Tail(s) = <<>> /\ <<>> \in Seq(Jobs)
    BY <2>1
  <2> QED
    BY <2>1, <2>2 DEF s
<1>3. job.packet \in Packets /\ job.iface \in DOMAIN IfaceIp /\ job.nexthop \in Addrs
  BY <1>2 DEF Jobs
<1>4. job.packet.id = 0 \/ job.packet.id \in Ids
  BY <1>3 DEF Packets
<1>5. todo' = [todo EXCEPT ![t] = <<>>]
  BY <1>2
<1>6. todo' \in [Threads -> Seq(Jobs)] /\ todo'[t] = <<>> /\ \A u \in Threads : u # t => todo'[u] = todo[u]
  BY <1>1, <1>2, <1>5
<1>7. "packet" \in Threads
  BY DEF Threads
<1>8. \A p \in Ids : Held(p)' <=> (Held(p) /\ t # "packet")
  BY <1>6, <1>7 DEF Held
<1>9. \A p \in Ids : t = "packet" => (Held(p) <=> job.packet.id = p)
  BY DEF Held
<1> QED
  BY <1>1, <1>2, <1>3, <1>4, <1>6, <1>8, <1>9

\* The mapping is known.
LEMMA LookupHitKeeps == ASSUME Inv, NEW t \in Threads, LookupHit(t) PROVE Inv'
<1> DEFINE job == Head(todo[t])
           f == Sent(job.iface, job.nexthop)
<1>0. /\ todo[t] # <<>> /\ missed[t] = FALSE
      /\ todo' = [todo EXCEPT ![t] = Tail(@)]
      /\ fate' = IF job.packet.id = 0 THEN fate ELSE [fate EXCEPT ![job.packet.id] = Append(@, f)]
      /\ entries' = entries /\ req_list' = req_list /\ rtable' = rtable /\ missed' = missed
      /\ sweep' = sweep /\ crashed' = crashed /\ arrived' = arrived
  <2>1. missed \in [Threads -> BOOLEAN]
    BY DEF Inv, ThreadInv
  <2> QED
    BY <2>1 DEF LookupHit, Sending
<1>1. /\ job \in Jobs /\ job.packet \in Packets /\ job.iface \in DOMAIN IfaceIp /\ job.nexthop \in Addrs
      /\ job.packet.by = t /\ (job.packet.id = 0 \/ job.packet.id \in Ids)
      /\ t = "sweep" => job.packet.id = 0
      /\ todo' \in [Threads -> Seq(Jobs)] /\ todo'[t] = <<>>
      /\ \A u \in Threads : u # t => todo'[u] = todo[u]
      /\ \A p \in Ids : Held(p)' <=> (Held(p) /\ t # "packet")
      /\ \A p \in Ids : t = "packet" => (Held(p) <=> job.packet.id = p)
  BY <1>0, InHand
<1>2. ListInv'
  BY <1>0 DEF Inv, ListInv
<1>3. SweepInv'
  BY <1>0 DEF Inv, SweepInv, At
<1>4. CacheInv'
  BY <1>0 DEF Inv, CacheInv
<1>5. t = "packet" \/ t = "sweep"
  BY DEF Threads
<1>6. ThreadInv'
  BY <1>0, <1>1, <1>5 DEF Inv, ThreadInv, Threads
<1>7. \A p \in Ids : job.packet.id = p => Held(p) /\ fate[p] = <<>>
  BY <1>1, <1>5, IdsAre DEF Inv, PlaceInv, Placed
<1>8. f \in Fates /\ \A p \in Traffic : p.id = job.packet.id => SentRight(rtable, p, f)
  <2>1. f \in Fates
    BY <1>1, SentIs
  <2>2. ASSUME NEW p \in Traffic, p.id = job.packet.id PROVE SentRight(rtable, p, f)
    <3>1. Held(p.id) /\ t = "packet"
      BY <1>1, <1>5, <1>7, <2>2, IdsAre
    <3>2. Goes(rtable, p, job.iface, job.nexthop)
      BY <3>1 DEF Inv, RouteInv
    <3> HIDE DEF job
    <3> QED
      BY <1>1, <3>2, SentIs
  <2> QED
    BY <2>1, <2>2
<1> HIDE DEF job, f
<1>9. fate' \in [Ids -> Seq(Fates)]
      /\ \A p \in Ids : fate'[p] = IF p = job.packet.id THEN <<f>> ELSE fate[p]
  <2>1. fate \in [Ids -> Seq(Fates)]
    BY DEF Inv, PlaceInv
  <2>2. CASE job.packet.id = 0
    BY <1>0, <2>1, <2>2, IdsAre
  <2>3. CASE job.packet.id # 0
    <3>1. fate[job.packet.id] = <<>> /\ job.packet.id \in Ids
      BY <1>1, <1>7, <2>3
    <3>2. Append(fate[job.packet.id], f) = <<f>> /\ <<f>> \in Seq(Fates)
      BY <1>8, <3>1
    <3>3. fate' = [fate EXCEPT ![job.packet.id] = <<f>>]
      BY <1>0, <2>3, <3>2
    <3> QED
      BY <2>1, <3>1, <3>2, <3>3
  <2> QED
    BY <2>2, <2>3
<1>10. PlaceInv'
  <2>1. ASSUME NEW p \in Ids PROVE Placed(p)'
    <3>1. Placed(p)
      BY DEF Inv, PlaceInv
    <3>2. CASE p = job.packet.id
      <4>1. ~Held(p)' /\ Held(p) /\ fate'[p] = <<f>>
        BY <1>1, <1>5, <1>7, <1>9, <3>2, IdsAre
      <4>2. Len(fate'[p]) <= 1 /\ fate'[p] # <<>>
        BY <4>1
      <4> QED
        BY <1>0, <3>1, <4>1, <4>2 DEF Placed
    <3>3. CASE p # job.packet.id
      <4>1. (Held(p)' <=> Held(p)) /\ fate'[p] = fate[p]
        BY <1>1, <1>9, <3>3
      <4> QED
        BY <1>0, <3>1, <4>1 DEF Placed
    <3> QED
      BY <3>2, <3>3
  <2> QED
    BY <1>0, <1>9, <2>1 DEF Inv, PlaceInv
<1>11. RouteInv'
  <2>1. ASSUME NEW p \in Traffic, Held(p.id)'
        PROVE  Goes(rtable, p, Head(todo'["packet"]).iface, Head(todo'["packet"]).nexthop)
    <3>1. Held(p.id) /\ t # "packet"
      BY <1>1, <2>1, IdsAre
    <3>2. todo'["packet"] = todo["packet"]
      BY <1>1, <3>1 DEF Threads
    <3> QED
      BY <3>1, <3>2 DEF Inv, RouteInv
  <2>2. ASSUME NEW p \in Traffic, NEW i \in DOMAIN fate'[p.id]
        PROVE  SentRight(rtable, p, fate'[p.id][i])
    <3>1. CASE p.id = job.packet.id
      <4>1. fate'[p.id] = <<f>>
        BY <1>9, <3>1, IdsAre
      <4> QED
        BY <1>8, <2>2, <3>1, <4>1
    <3>2. CASE p.id # job.packet.id
      BY <1>9, <2>2, <3>2, IdsAre DEF Inv, RouteInv
    <3> QED
      BY <3>1, <3>2
  <2>3. rtable \in RTables /\ \A p \in Traffic : \A k \in DOMAIN req_list :
          Has(req_list[k], p.id) => Goes(rtable, p, req_list[k].iface, req_list[k].ip4)
    BY DEF Inv, RouteInv
  <2> QED
    BY <1>0, <2>1, <2>2, <2>3 DEF RouteInv
<1> QED
  BY <1>2, <1>3, <1>4, <1>6, <1>10, <1>11 DEF Inv

\* The mapping is not known.
LEMMA LookupMissKeeps == ASSUME Inv, NEW t \in Threads, LookupMiss(t) PROVE Inv'
<1>0. /\ todo[t] # <<>> /\ ~Known(entries, Head(todo[t]).nexthop)
      /\ missed' = [missed EXCEPT ![t] = TRUE]
      /\ entries' = entries /\ req_list' = req_list /\ rtable' = rtable /\ todo' = todo
      /\ sweep' = sweep /\ crashed' = crashed /\ arrived' = arrived /\ fate' = fate
  BY DEF LookupMiss, Sending, arpcache_lookup, Known
<1>1. ListInv'
  BY <1>0 DEF Inv, ListInv
<1>2. SweepInv'
  BY <1>0 DEF Inv, SweepInv, At
<1>3. CacheInv'
  BY <1>0 DEF Inv, CacheInv
<1>4. PlaceInv'
  BY <1>0 DEF Inv, PlaceInv, Placed, Held
<1>5. RouteInv'
  BY <1>0 DEF Inv, RouteInv, Held
<1>6. ThreadInv'
  <2>1. missed' \in [Threads -> BOOLEAN]
    BY <1>0 DEF Inv, ThreadInv
  <2>2. missed'["packet"] => t = "packet" \/ missed["packet"]
    BY <1>0 DEF Inv, ThreadInv, Threads
  <2>3. missed'["packet"] => todo["packet"] # <<>> /\ ~Known(entries, Head(todo["packet"]).nexthop)
    BY <1>0, <2>2 DEF Inv, ThreadInv
  <2> QED
    BY <1>0, <2>1, <2>3 DEF Inv, ThreadInv
<1> QED
  BY <1>1, <1>2, <1>3, <1>4, <1>5, <1>6 DEF Inv

\* The packet waits for the mapping.
LEMMA AppendPacketKeeps == ASSUME Inv, NEW t \in Threads, AppendPacket(t) PROVE Inv'
<1> DEFINE job == Head(todo[t])
           q == job.packet
<1>0. /\ todo[t] # <<>> /\ missed[t]
      /\ todo' = [todo EXCEPT ![t] = Tail(@)]
      /\ missed' = [missed EXCEPT ![t] = FALSE]
      /\ req_list' = arpcache_append_packet(job.iface, job.nexthop, q)
      /\ entries' = entries /\ rtable' = rtable
      /\ sweep' = sweep /\ crashed' = crashed /\ arrived' = arrived /\ fate' = fate
  BY DEF AppendPacket, Sending
<1>1. /\ job \in Jobs /\ q \in Packets /\ job.iface \in DOMAIN IfaceIp /\ job.nexthop \in Addrs
      /\ q.by = t /\ (q.id = 0 \/ q.id \in Ids)
      /\ t = "sweep" => q.id = 0
      /\ todo' \in [Threads -> Seq(Jobs)] /\ todo'[t] = <<>>
      /\ \A u \in Threads : u # t => todo'[u] = todo[u]
      /\ \A p \in Ids : Held(p)' <=> (Held(p) /\ t # "packet")
      /\ \A p \in Ids : t = "packet" => (Held(p) <=> q.id = p)
  BY <1>0, InHand
<1>2. t = "packet" \/ t = "sweep"
  BY DEF Threads
<1>3. req_list \in Seq(Request) /\ KeysOnce(req_list) /\ Filled(req_list, sweep.req)
  BY DEF Inv, ListInv
<1> HIDE DEF q
<1>4. /\ req_list' \in Seq(Request) /\ KeysOnce(req_list')
      /\ \A dry : Filled(req_list, dry) => Filled(req_list', dry)
      /\ \A p : SomeIn(req_list', p) <=> SomeIn(req_list, p) \/ q.id = p
      /\ \A p : OnceIn(req_list, p) /\ ~(SomeIn(req_list, p) /\ q.id = p) => OnceIn(req_list', p)
      /\ \A k \in DOMAIN req_list :
           /\ k \in DOMAIN req_list' /\ Key(req_list'[k]) = Key(req_list[k])
           /\ req_list[k].cached # <<>> => req_list'[k].cached # <<>>
      /\ \A k \in DOMAIN req_list' : \A p : Has(req_list'[k], p) =>
           \/ /\ k \in DOMAIN req_list /\ Has(req_list[k], p)
              /\ req_list'[k].iface = req_list[k].iface /\ req_list'[k].ip4 = req_list[k].ip4
           \/ q.id = p /\ req_list'[k].iface = job.iface /\ req_list'[k].ip4 = job.nexthop
      /\ \A k \in DOMAIN req_list' : Forwards(req_list'[k]) =>
           \/ k \in DOMAIN req_list /\ Forwards(req_list[k]) /\ req_list'[k].ip4 = req_list[k].ip4
           \/ q.by = "packet" /\ req_list'[k].ip4 = job.nexthop
  <2> HIDE DEF job
  <2> QED
    BY <1>0, <1>1, <1>3, AppendGives
<1>5. ListInv'
  BY <1>0, <1>3, <1>4 DEF ListInv
<1>6. missed' \in [Threads -> BOOLEAN] /\ missed'[t] = FALSE /\ \A u \in Threads : u # t => missed'[u] = missed[u]
  BY <1>0 DEF Inv, ThreadInv
<1>7. ThreadInv'
  BY <1>0, <1>1, <1>2, <1>6 DEF Inv, ThreadInv, Threads
<1>8. SweepInv'
  <2>1. ASSUME NEW k \in DOMAIN req_list, At(req_list, k) PROVE k \in DOMAIN req_list' /\ At(req_list, k)'
    BY <1>0, <1>4, <2>1 DEF At
  <2> QED
    BY <1>0, <2>1 DEF Inv, SweepInv
<1>9. \A p \in Ids : q.id = p => t = "packet" /\ Held(p)
  BY <1>1, <1>2, IdsAre
<1>10. PlaceInv'
  <2>1. ASSUME NEW p \in Ids PROVE Placed(p)'
    <3>1. Placed(p)
      BY DEF Inv, PlaceInv
    <3>2. OnceIn(req_list', p)
      BY <1>4, <1>9, <3>1 DEF Placed
    <3>3. SomeIn(req_list', p) <=> SomeIn(req_list, p) \/ q.id = p
      BY <1>4
    <3>4. Held(p)' <=> Held(p) /\ q.id # p
      BY <1>1, <1>2, <1>9
    <3> QED
      BY <1>0, <1>9, <3>1, <3>2, <3>3, <3>4 DEF Placed
  <2> QED
    BY <1>0, <2>1 DEF Inv, PlaceInv
<1>11. RouteInv'
  <2>1. ASSUME NEW p \in Traffic, Held(p.id)'
        PROVE  Goes(rtable, p, Head(todo'["packet"]).iface, Head(todo'["packet"]).nexthop)
    <3>1. Held(p.id) /\ t # "packet"
      BY <1>1, <2>1, IdsAre
    <3>2. todo'["packet"] = todo["packet"]
      BY <1>1, <3>1 DEF Threads
    <3> QED
      BY <3>1, <3>2 DEF Inv, RouteInv
  <2>2. ASSUME NEW p \in Traffic, NEW k \in DOMAIN req_list', Has(req_list'[k], p.id)
        PROVE  Goes(rtable, p, req_list'[k].iface, req_list'[k].ip4)
    <3>1. CASE /\ k \in DOMAIN req_list /\ Has(req_list[k], p.id)
               /\ req_list'[k].iface = req_list[k].iface /\ req_list'[k].ip4 = req_list[k].ip4
      BY <3>1 DEF Inv, RouteInv
    <3>2. CASE q.id = p.id /\ req_list'[k].iface = job.iface /\ req_list'[k].ip4 = job.nexthop
      <4>1. t = "packet" /\ Held(p.id)
        BY <1>9, <3>2, IdsAre
      <4>2. Goes(rtable, p, job.iface, job.nexthop)
        BY <4>1 DEF Inv, RouteInv
      <4> QED
        BY <3>2, <4>2
    <3> QED
      BY <1>4, <2>2, <3>1, <3>2
  <2> QED
    BY <1>0, <2>1, <2>2 DEF Inv, RouteInv
<1>12. CacheInv'
  <2>1. ASSUME NEW k \in DOMAIN req_list', Known(entries, req_list'[k].ip4), Forwards(req_list'[k]) PROVE FALSE
    <3>1. CASE k \in DOMAIN req_list /\ Forwards(req_list[k]) /\ req_list'[k].ip4 = req_list[k].ip4
      BY <2>1, <3>1 DEF Inv, CacheInv
    <3>2. CASE q.by = "packet" /\ req_list'[k].ip4 = job.nexthop
      <4>1. t = "packet" /\ missed["packet"]
        BY <1>0, <1>1, <3>2
      <4>2. ~Known(entries, job.nexthop)
        BY <4>1 DEF Inv, ThreadInv
      <4> QED
        BY <2>1, <3>2, <4>2
    <3> QED
      BY <1>4, <2>1, <3>1, <3>2
  <2> QED
    BY <1>0, <2>1 DEF Inv, CacheInv
<1> QED
  BY <1>5, <1>7, <1>8, <1>10, <1>11, <1>12 DEF Inv

\* A mapping comes in: all that waits for it goes out.
LEMMA ArpKeeps == ASSUME Inv, NEW h \in Hosts, handle_arp_packet(h) PROVE Inv'
<1> DEFINE S == {r \in Range(req_list) : r.ip4 # h}
           in(p) == {k \in Answered(h) : p \in Waiting(req_list[k])}
<1>0. /\ todo["packet"] = <<>> /\ ~crashed
      /\ req_list' = Kept(req_list, S)
      /\ \E i \in InsertSlots : entries' = [entries EXCEPT ![i] = [valid |-> TRUE, ip4 |-> h, age |-> 0]]
      /\ fate' = [p \in Ids |-> IF in(p) = {} THEN fate[p]
                                ELSE Append(fate[p], Sent(req_list[Min(in(p))].iface, h))]
      /\ crashed' = \E k \in Answered(h) : Key(req_list[k]) \in {sweep.req, sweep.temp}
      /\ rtable' = rtable /\ arrived' = arrived /\ todo' = todo /\ missed' = missed /\ sweep' = sweep
  BY DEF handle_arp_packet, Receiving, arpcache_insert
<1>1. req_list \in Seq(Request) /\ KeysOnce(req_list) /\ Filled(req_list, sweep.req)
  BY DEF Inv, ListInv
<1>2. /\ req_list' \in Seq(Request) /\ KeysOnce(req_list')
      /\ \A a \in DOMAIN req_list' : req_list'[a] \in S /\ \E i \in DOMAIN req_list : req_list'[a] = req_list[i]
      /\ \A i \in DOMAIN req_list : req_list[i] \in S => \E a \in DOMAIN req_list' : req_list'[a] = req_list[i]
      /\ \A dry : Filled(req_list, dry) => Filled(req_list', dry)
      /\ \A p : OnceIn(req_list, p) => OnceIn(req_list', p)
      /\ \A p : SomeIn(req_list', p) <=> \E k \in DOMAIN req_list : req_list[k] \in S /\ Has(req_list[k], p)
      /\ \A k, l \in DOMAIN req_list : req_list[k] \in S /\ req_list[l] \in S /\ k < l =>
           \E a, b \in DOMAIN req_list' : a < b /\ req_list'[a] = req_list[k] /\ req_list'[b] = req_list[l]
  <2> HIDE DEF S
  <2>1. Drops(req_list', req_list, S)
    BY <1>0, <1>1, KeptDrops
  <2> QED
    BY <1>1, <2>1, DropsHolds
<1>3. \A k \in DOMAIN req_list : req_list[k] \in S <=> req_list[k].ip4 # h
  BY DEF Range
<1>4. \A a \in DOMAIN req_list' : req_list'[a].ip4 # h
  BY <1>2
<1>5. \A k \in DOMAIN req_list : req_list[k] \in Request
  BY <1>1
<1>6. \A k \in Answered(h) : k \in DOMAIN req_list /\ req_list[k].ip4 = h
  BY DEF Answered
<1>7. \A k \in DOMAIN req_list : req_list[k].ip4 = h => k \in Answered(h)
  BY DEF Answered
<1>8. \A p \in Ids : \A k : k \in in(p) <=> k \in DOMAIN req_list /\ req_list[k].ip4 = h /\ Has(req_list[k], p)
  BY <1>6, <1>7, WaitingIs
<1>9. \A p \in Ids : in(p) # {} => Min(in(p)) \in in(p)
  <2> SUFFICES ASSUME NEW p \in Ids, in(p) # {} PROVE Min(in(p)) \in in(p)
    OBVIOUS
  <2>1. in(p) \subseteq Nat
    BY <1>1, <1>8
  <2> HIDE DEF in
  <2> QED
    BY <2>1, MinIs
<1> HIDE DEF S, in
<1>10. ListInv'
  BY <1>0, <1>1, <1>2 DEF ListInv
<1>11. ThreadInv'
  BY <1>0 DEF Inv, ThreadInv
<1>12. SweepInv'
  <2>1. crashed' \in BOOLEAN
    BY <1>0
  <2>2. ASSUME sweep.at = "drain", ~crashed' PROVE \E a \in DOMAIN req_list' : At(req_list, a)'
    <3>1. PICK k \in DOMAIN req_list : At(req_list, k)
      BY <1>0, <2>2 DEF Inv, SweepInv
    <3>2. \A i \in DOMAIN req_list : Key(req_list[i]) \in {sweep.req, sweep.temp} => req_list[i] \in S
      BY <1>0, <1>3, <1>7, <2>2
    <3>3. req_list[k] \in S
      BY <3>1, <3>2 DEF At
    <3>4. CASE sweep.temp = NoRequest
      <4>1. PICK a \in DOMAIN req_list' : req_list'[a] = req_list[k]
        BY <1>2, <3>3
      <4> QED
        BY <1>0, <3>1, <3>4, <4>1 DEF At
    <3>5. CASE sweep.temp # NoRequest
      <4>1. PICK l \in DOMAIN req_list : k < l /\ Key(req_list[l]) = sweep.temp
        BY <3>1, <3>5 DEF At
      <4>2. PICK a \in DOMAIN req_list', b \in DOMAIN req_list' :
              a < b /\ req_list'[a] = req_list[k] /\ req_list'[b] = req_list[l]
        BY <1>2, <3>2, <3>3, <4>1
      <4> QED
        BY <1>0, <3>1, <4>1, <4>2 DEF At
    <3> QED
      BY <3>4, <3>5
  <2> QED
    BY <1>0, <2>1, <2>2 DEF Inv, SweepInv
<1>13. ASSUME NEW p \in Ids, in(p) = {}
       PROVE  fate'[p] = fate[p] /\ (SomeIn(req_list', p) <=> SomeIn(req_list, p))
  <2>1. fate'[p] = fate[p]
    BY <1>0, <1>13
  <2>2. SomeIn(req_list', p) <=> SomeIn(req_list, p)
    BY <1>2, <1>3, <1>8, <1>13 DEF SomeIn
  <2> QED
    BY <2>1, <2>2
<1>14. ASSUME NEW p \in Ids, in(p) # {}
       PROVE  \E k \in DOMAIN req_list :
                /\ Has(req_list[k], p) /\ req_list[k].ip4 = h
                /\ SomeIn(req_list, p) /\ ~SomeIn(req_list', p) /\ fate[p] = <<>>
                /\ fate'[p] = << Sent(req_list[k].iface, h) >>
                /\ Sent(req_list[k].iface, h) \in Fates
  <2> DEFINE k == Min(in(p))
  <2>1. k \in DOMAIN req_list /\ Has(req_list[k], p) /\ req_list[k].ip4 = h
    BY <1>8, <1>9, <1>14
  <2>2. fate'[p] = Append(fate[p], Sent(req_list[k].iface, h))
    BY <1>0, <1>14
  <2> HIDE DEF k
  <2>3. Placed(p)
    BY DEF Inv, PlaceInv
  <2>4. SomeIn(req_list, p) /\ fate[p] = <<>>
    BY <2>1, <2>3 DEF SomeIn, Placed
  <2>5. ~SomeIn(req_list', p)
    BY <1>2, <1>3, <2>1, <2>3 DEF Placed, OnceIn
  <2>6. req_list[k].iface \in DOMAIN IfaceIp /\ h \in Addrs
    BY <1>5, <2>1, RequestIs
  <2>7. Sent(req_list[k].iface, h) \in Fates
    BY <2>6, SentIs
  <2>8. fate'[p] = << Sent(req_list[k].iface, h) >>
    BY <2>2, <2>4
  <2> QED
    BY <2>1, <2>4, <2>5, <2>7, <2>8
<1>15. PlaceInv'
  <2>1. ASSUME NEW p \in Ids PROVE Placed(p)' /\ fate'[p] \in Seq(Fates)
    <3>1. Placed(p) /\ fate[p] \in Seq(Fates) /\ (Held(p)' <=> Held(p)) /\ ~Held(p)
      BY <1>0 DEF Inv, PlaceInv, Held
    <3>2. OnceIn(req_list', p)
      BY <1>2, <3>1 DEF Placed
    <3>3. CASE in(p) = {}
      BY <1>0, <1>13, <3>1, <3>2, <3>3 DEF Placed
    <3>4. CASE in(p) # {}
      <4>1. PICK f \in Fates : SomeIn(req_list, p) /\ ~SomeIn(req_list', p) /\ fate'[p] = <<f>>
        BY <1>14, <3>4
      <4>2. Len(fate'[p]) = 1 /\ fate'[p] # <<>> /\ fate'[p] \in Seq(Fates)
        BY <4>1
      <4> QED
        BY <1>0, <3>1, <3>2, <4>1, <4>2 DEF Placed
    <3> QED
      BY <3>3, <3>4
  <2>2. fate' \in [Ids -> Seq(Fates)]
    <3>1. fate' = [p \in Ids |-> fate'[p]]
      BY <1>0
    <3> QED
      BY <2>1, <3>1
  <2> QED
    BY <1>0, <2>1, <2>2 DEF Inv, PlaceInv
<1>16. RouteInv'
  <2>1. ASSUME NEW p \in Traffic, NEW a \in DOMAIN req_list', Has(req_list'[a], p.id)
        PROVE  Goes(rtable, p, req_list'[a].iface, req_list'[a].ip4)
    BY <1>2, <2>1 DEF Inv, RouteInv
  <2>2. ASSUME NEW p \in Traffic, NEW i \in DOMAIN fate'[p.id]
        PROVE  SentRight(rtable, p, fate'[p.id][i])
    <3>0. p.id \in Ids
      BY IdsAre
    <3>1. CASE in(p.id) = {}
      BY <1>13, <2>2, <3>0, <3>1 DEF Inv, RouteInv
    <3>2. CASE in(p.id) # {}
      <4>1. PICK k \in DOMAIN req_list : /\ Has(req_list[k], p.id) /\ req_list[k].ip4 = h
                                         /\ fate'[p.id] = << Sent(req_list[k].iface, h) >>
        BY <1>14, <3>0, <3>2
      <4>2. Goes(rtable, p, req_list[k].iface, h)
        BY <4>1 DEF Inv, RouteInv
      <4>3. req_list[k].iface \in DOMAIN IfaceIp /\ h \in Addrs
        BY <1>5, <4>1, RequestIs
      <4>4. SentRight(rtable, p, Sent(req_list[k].iface, h))
        BY <4>2, <4>3, SentIs
      <4> QED
        BY <2>2, <4>1, <4>4
    <3> QED
      BY <3>1, <3>2
  <2> QED
    BY <1>0, <2>1, <2>2 DEF Inv, RouteInv, Held
<1>17. CacheInv'
  <2>1. PICK i \in InsertSlots : entries' = [entries EXCEPT ![i] = [valid |-> TRUE, ip4 |-> h, age |-> 0]]
    BY <1>0
  <2>2. i \in Slots
    <3> DEFINE invalid == {s \in Slots : ~entries[s].valid}
    <3>1. invalid \subseteq Nat /\ invalid \subseteq Slots
      BY ArpCacheAssumption DEF Slots
    <3>2. invalid # {} => Min(invalid) \in invalid
      <4> HIDE DEF invalid
      <4> QED
        BY <3>1, MinIs
    <3>3. InsertSlots = IF invalid = {} THEN Slots ELSE {Min(invalid)}
      BY DEF InsertSlots
    <3> HIDE DEF invalid
    <3> QED
      BY <2>1, <3>1, <3>2, <3>3
  <2> DEFINE new == [valid |-> TRUE, ip4 |-> h, age |-> 0]
  <2>3. new \in Entries /\ new.ip4 = h
    BY ArpCacheAssumption DEF Entries
  <2> HIDE DEF new
  <2>4. entries \in [Slots -> Entries]
    BY DEF Inv, CacheInv
  <2>5. entries' \in [Slots -> Entries] /\ \A s \in Slots : entries'[s] = IF s = i THEN new ELSE entries[s]
    BY <2>1, <2>2, <2>3, <2>4 DEF new
  <2>6. \A a : a # h /\ Known(entries', a) => Known(entries, a)
    BY <2>3, <2>5 DEF Known
  <2>7. \A a \in DOMAIN req_list' : Known(entries', req_list'[a].ip4) => ~Forwards(req_list'[a])
    BY <1>2, <1>4, <2>6 DEF Inv, CacheInv
  <2> QED
    BY <2>5, <2>7 DEF CacheInv
<1> QED
  BY <1>10, <1>11, <1>12, <1>15, <1>16, <1>17 DEF Inv

\* A round begins.
LEMMA SweepRoundKeeps == ASSUME Inv, NEW late, SweepRound(late) PROVE Inv'
<1> DEFINE s == Ripened(late)
<1>0. /\ ~crashed /\ sweep.at = "sleep" /\ entries' = SweptEntries /\ ScanFrom(s, 1)
      /\ rtable' = rtable /\ arrived' = arrived /\ todo' = todo /\ missed' = missed
      /\ fate' = fate /\ crashed' = crashed
  BY DEF SweepRound
<1>1. req_list \in Seq(Request) /\ KeysOnce(req_list) /\ Filled(req_list, NoRequest) /\ crashed' \in BOOLEAN
  BY <1>0 DEF Inv, ListInv, SweepInv, Asleep
<1>2. Same(req_list, s)
  BY <1>1, RipenedSame
<1>3. s \in Seq(Request) /\ KeysOnce(s) /\ Filled(s, NoRequest)
  <2> HIDE DEF s
  <2> QED
    BY <1>1, <1>2, SameHolds DEF Same
<1> HIDE DEF s
<1>4. Same(s, req_list') /\ ListInv' /\ SweepInv'
  BY <1>0, <1>1, <1>3, ScanIs
<1>5. Same(req_list, req_list')
  BY <1>2, <1>4, SameTwice
<1>6. /\ DOMAIN req_list' = DOMAIN req_list
      /\ \A k \in DOMAIN req_list : /\ Forwards(req_list'[k]) <=> Forwards(req_list[k])
                                    /\ req_list'[k].iface = req_list[k].iface /\ req_list'[k].ip4 = req_list[k].ip4
      /\ \A p : \A k \in DOMAIN req_list : Has(req_list'[k], p) <=> Has(req_list[k], p)
      /\ \A p : OnceIn(req_list, p) => OnceIn(req_list', p)
      /\ \A p : SomeIn(req_list', p) <=> SomeIn(req_list, p)
  BY <1>5, SameHolds DEF Same
<1>7. entries' \in [Slots -> Entries] /\ \A a : Known(entries', a) => Known(entries, a)
  <2>1. entries \in [Slots -> Entries]
    BY DEF Inv, CacheInv
  <2>2. ASSUME NEW i \in Slots
        PROVE  /\ entries'[i] \in Entries
               /\ entries'[i].valid => entries[i].valid /\ entries'[i].ip4 = entries[i].ip4
    <3> DEFINE e == entries[i]
    <3>1. e \in Entries
      BY <2>1
    <3>2. entries'[i] = IF ~e.valid THEN e
                        ELSE IF e.age + 1 > ARP_ENTRY_TIMEOUT THEN [e EXCEPT !.valid = FALSE, !.age = 0]
                        ELSE [e EXCEPT !.age = @ + 1]
      BY <1>0 DEF SweptEntries
    <3> HIDE DEF e
    <3>3. e = [valid |-> e.valid, ip4 |-> e.ip4, age |-> e.age] /\ e.age \in 0..ARP_ENTRY_TIMEOUT
          /\ e.ip4 \in Hosts \cup {NoAddr} /\ e.valid \in BOOLEAN
      BY <3>1 DEF Entries
    <3>4. CASE ~e.valid
      BY <3>1, <3>2, <3>4
    <3>5. CASE e.valid /\ e.age + 1 > ARP_ENTRY_TIMEOUT
      <4>1. entries'[i] = [valid |-> FALSE, ip4 |-> e.ip4, age |-> 0]
        BY <3>2, <3>3, <3>5
      <4> QED
        BY <3>3, <4>1, ArpCacheAssumption DEF Entries
    <3>6. CASE e.valid /\ ~(e.age + 1 > ARP_ENTRY_TIMEOUT)
      <4>1. entries'[i] = [valid |-> e.valid, ip4 |-> e.ip4, age |-> e.age + 1]
        BY <3>2, <3>3, <3>6
      <4>2. e.age + 1 \in 0..ARP_ENTRY_TIMEOUT
        BY <3>3, <3>6, ArpCacheAssumption
      <4>3. entries'[i] \in Entries
        BY <3>3, <4>1, <4>2 DEF Entries
      <4>4. entries'[i].ip4 = e.ip4
        BY <4>1
      <4> QED
        BY <3>6, <4>3, <4>4 DEF e
    <3> QED
      BY <3>4, <3>5, <3>6 DEF e
  <2>3. entries' = [i \in Slots |-> entries'[i]]
    BY <1>0 DEF SweptEntries
  <2>4. entries' \in [Slots -> Entries]
    BY <2>2, <2>3
  <2>5. \A a : Known(entries', a) => Known(entries, a)
    BY <2>2 DEF Known
  <2> QED
    BY <2>4, <2>5
<1>8. ThreadInv'
  BY <1>0, <1>7 DEF Inv, ThreadInv
<1>9. PlaceInv'
  BY <1>0, <1>6 DEF Inv, PlaceInv, Placed, Held
<1>10. RouteInv'
  BY <1>0, <1>6 DEF Inv, RouteInv, Held
<1>11. CacheInv'
  BY <1>6, <1>7 DEF Inv, CacheInv
<1> QED
  BY <1>4, <1>8, <1>9, <1>10, <1>11 DEF Inv

\* The next packet of the dead request is reported.
LEMMA DrainPacketKeeps == ASSUME Inv, DrainPacket PROVE Inv'
<1>1. PICK k \in DOMAIN req_list : At(req_list, k)
  BY DEF DrainPacket, Draining, Inv, SweepInv
<1> DEFINE r == req_list[k]
           c == Tail(r.cached)
           q == Head(r.cached)
           s == icmp_send_packet(q.src, "sweep")
<1>2. req_list \in Seq(Request) /\ KeysOnce(req_list) /\ Filled(req_list, sweep.req)
  BY DEF Inv, ListInv
<1>3. Index(sweep.req) = k
  BY <1>1, <1>2, IndexIs DEF At
<1>4. /\ ~crashed /\ sweep.at = "drain" /\ todo["sweep"] = <<>> /\ sweep.more
      /\ req_list' = [req_list EXCEPT ![k].cached = c]
      /\ sweep' = [sweep EXCEPT !.more = Len(r.cached) > 1]
      /\ todo' = [todo EXCEPT !["sweep"] = s]
      /\ fate' = IF q.id = 0 THEN fate ELSE [fate EXCEPT ![q.id] = Append(@, <<"unreachable">>)]
      /\ entries' = entries /\ rtable' = rtable /\ arrived' = arrived
      /\ missed' = missed /\ crashed' = crashed
  BY <1>3 DEF DrainPacket, Draining
<1>5. r.cached \in Seq(Packets) /\ r.cached # <<>>
  BY <1>1, <1>2, <1>4, RequestIs DEF At
<1>6. q \in Packets /\ c \in Seq(Packets) /\ (Len(r.cached) > 1 => c # <<>>) /\ (Len(r.cached) > 1) \in BOOLEAN
  <2> DEFINE w == r.cached
  <2>1. w \in Seq(Packets) /\ w # <<>>
    BY <1>5
  <2> HIDE DEF w
  <2>2. Head(w) \in Packets /\ Tail(w) \in Seq(Packets)
    BY <2>1
  <2>3. Len(w) > 1 => Tail(w) # <<>>
    <3> SUFFICES ASSUME Len(w) > 1, Tail(w) = <<>> PROVE FALSE
      OBVIOUS
    <3>1. 1 \in DOMAIN Tail(w)
      BY <2>1
    <3>2. 1 \notin DOMAIN <<>>
      OBVIOUS
    <3> QED
      BY <3>1, <3>2, Zenon
  <2>4. (Len(w) > 1) \in BOOLEAN
    OBVIOUS
  <2> QED
    BY <2>2, <2>3, <2>4 DEF w
<1>7. q.src \in Addrs /\ (q.id = 0 \/ q.id \in Ids)
  BY <1>6 DEF Packets
<1>8. /\ req_list' \in Seq(Request) /\ DOMAIN req_list' = DOMAIN req_list
      /\ \A j \in DOMAIN req_list : j # k => req_list'[j] = req_list[j]
      /\ req_list'[k].cached = c
      /\ \A j \in DOMAIN req_list : Key(req_list'[j]) = Key(req_list[j])
           /\ req_list'[j].iface = req_list[j].iface /\ req_list'[j].ip4 = req_list[j].ip4
      /\ KeysOnce(req_list')
  <2>1. Puts(req_list', req_list, k, c)
    BY <1>4 DEF Puts
  <2> HIDE DEF c
  <2> QED
    BY <1>2, <1>6, <2>1, OneChanged
<1>9. /\ \A p : Has(r, p) <=> Has(req_list'[k], p) \/ q.id = p
      /\ \A p : HasOnce(r, p) => HasOnce(req_list'[k], p) /\ ~(Has(req_list'[k], p) /\ q.id = p)
      /\ Forwards(req_list'[k]) => Forwards(r)
  <2> HIDE DEF r
  <2> QED
    BY <1>5, <1>8, PacketTaken
<1>10. Own(s, "sweep")
  BY <1>7, IcmpIsOwn DEF Inv, RouteInv, Threads
<1> HIDE DEF c, q, s
<1>11. /\ sweep'.req = sweep.req /\ sweep'.temp = sweep.temp /\ sweep'.at = "drain"
       /\ sweep'.more = (Len(r.cached) > 1)
       /\ sweep' \in [at : {"sleep", "drain"}, req : Keys \cup {NoRequest}, temp : Keys \cup {NoRequest},
                      more : BOOLEAN]
  <2>1. sweep \in [at : {"sleep", "drain"}, req : Keys \cup {NoRequest}, temp : Keys \cup {NoRequest},
                   more : BOOLEAN]
    BY DEF Inv, SweepInv
  <2> DEFINE m == Len(r.cached) > 1
  <2>2. sweep' = [sweep EXCEPT !.more = m] /\ m \in BOOLEAN
    BY <1>4, <1>6
  <2> HIDE DEF m
  <2>3. sweep' = [at |-> sweep.at, req |-> sweep.req, temp |-> sweep.temp, more |-> m]
    BY <2>1, <2>2
  <2>4. sweep'.more = m
    BY <2>3
  <2>5. sweep'.req = sweep.req /\ sweep'.temp = sweep.temp /\ sweep'.at = "drain"
    BY <1>4, <2>3
  <2>6. sweep' \in [at : {"sleep", "drain"}, req : Keys \cup {NoRequest}, temp : Keys \cup {NoRequest},
                    more : BOOLEAN]
    BY <2>1, <2>2, <2>3
  <2> QED
    BY <2>4, <2>5, <2>6 DEF m
<1>12. ListInv'
  <2>1. Filled(req_list', sweep'.req)
    BY <1>1, <1>2, <1>8, <1>11 DEF Filled, At
  <2> QED
    BY <1>8, <2>1 DEF ListInv
<1>13. SweepInv'
  <2>1. sweep'.more => c # <<>>
    BY <1>6, <1>11
  <2>2. At(req_list, k)'
    BY <1>1, <1>8, <1>11, <2>1 DEF At
  <2> QED
    BY <1>4, <1>8, <1>11, <2>2 DEF Inv, SweepInv
<1>14. todo' \in [Threads -> Seq(Jobs)] /\ todo'["sweep"] = s /\ todo'["packet"] = todo["packet"]
  BY <1>4, <1>10 DEF Inv, ThreadInv, Threads, Own
<1>15. ThreadInv'
  BY <1>4, <1>10, <1>14 DEF Inv, ThreadInv, Threads, Own
<1>16. \A p \in Ids : q.id = p => SomeIn(req_list, p) /\ fate[p] = <<>>
  BY <1>9 DEF Inv, PlaceInv, Placed, SomeIn
<1>17. <<"unreachable">> \in NotSent /\ <<"unreachable">> \in Fates
       /\ \A p : SentRight(rtable, p, <<"unreachable">>)
  <2>1. <<"unreachable">> \in NotSent
    BY DEF NotSent
  <2> QED
    BY <2>1, NotSentIs
<1>18. fate' \in [Ids -> Seq(Fates)]
       /\ \A p \in Ids : fate'[p] = IF p = q.id THEN << <<"unreachable">> >> ELSE fate[p]
  <2> DEFINE f == <<"unreachable">>
  <2>1. fate \in [Ids -> Seq(Fates)]
    BY DEF Inv, PlaceInv
  <2>2. f \in Fates /\ fate' = IF q.id = 0 THEN fate ELSE [fate EXCEPT ![q.id] = Append(@, f)]
    BY <1>4, <1>17
  <2> HIDE DEF f
  <2>3. CASE q.id = 0
    BY <2>1, <2>2, <2>3, IdsAre
  <2>4. CASE q.id # 0
    <3>1. fate[q.id] = <<>> /\ q.id \in Ids
      BY <1>7, <1>16, <2>4
    <3>2. Append(fate[q.id], f) = <<f>> /\ <<f>> \in Seq(Fates)
      BY <2>2, <3>1
    <3>3. fate' = [fate EXCEPT ![q.id] = <<f>>]
      BY <2>2, <2>4, <3>2
    <3>4. fate' \in [Ids -> Seq(Fates)] /\ \A p \in Ids : fate'[p] = IF p = q.id THEN <<f>> ELSE fate[p]
      BY <2>1, <3>1, <3>2, <3>3
    <3> QED
      BY <3>4 DEF f
  <2> QED
    BY <2>3, <2>4
<1>19. PlaceInv'
  <2>1. ASSUME NEW p \in Ids PROVE Placed(p)'
    <3>1. Placed(p) /\ (Held(p)' <=> Held(p))
      BY <1>14 DEF Inv, PlaceInv, Held
    <3>2. OnceIn(req_list', p)
      <4>1. \A j \in DOMAIN req_list' : HasOnce(req_list'[j], p)
        BY <1>8, <1>9, <3>1 DEF Placed, OnceIn
      <4>2. \A j, l \in DOMAIN req_list' : Has(req_list'[j], p) /\ Has(req_list'[l], p) => j = l
        BY <1>8, <1>9, <3>1 DEF Placed, OnceIn
      <4> QED
        BY <4>1, <4>2 DEF OnceIn
    <3>3. CASE q.id = p
      <4>1. SomeIn(req_list, p) /\ fate'[p] = << <<"unreachable">> >>
        BY <1>16, <1>18, <3>3
      <4>2. ~SomeIn(req_list', p)
        BY <1>8, <1>9, <3>1, <3>3 DEF Placed, OnceIn, SomeIn
      <4>3. Len(fate'[p]) = 1 /\ fate'[p] # <<>>
        BY <4>1
      <4> QED
        BY <1>4, <3>1, <3>2, <4>1, <4>2, <4>3 DEF Placed
    <3>4. CASE q.id # p
      <4>1. fate'[p] = fate[p]
        BY <1>18, <3>4
      <4>2. SomeIn(req_list', p) <=> SomeIn(req_list, p)
        BY <1>8, <1>9, <3>4 DEF SomeIn
      <4> QED
        BY <1>4, <3>1, <3>2, <4>1, <4>2 DEF Placed
    <3> QED
      BY <3>3, <3>4
  <2> QED
    BY <1>4, <1>18, <2>1 DEF Inv, PlaceInv
<1>20. RouteInv'
  <2>1. ASSUME NEW p \in Traffic, NEW j \in DOMAIN req_list', Has(req_list'[j], p.id)
        PROVE  Goes(rtable, p, req_list'[j].iface, req_list'[j].ip4)
    <3>1. Has(req_list[j], p.id)
      BY <1>8, <1>9, <2>1
    <3> QED
      BY <1>8, <3>1 DEF Inv, RouteInv
  <2>2. ASSUME NEW p \in Traffic, NEW i \in DOMAIN fate'[p.id]
        PROVE  SentRight(rtable, p, fate'[p.id][i])
    <3>1. CASE p.id = q.id
      <4>1. fate'[p.id] = << <<"unreachable">> >>
        BY <1>18, <3>1, IdsAre
      <4>2. fate'[p.id][i] = <<"unreachable">>
        BY <2>2, <4>1
      <4> QED
        BY <1>17, <4>2
    <3>2. CASE p.id # q.id
      BY <1>18, <2>2, <3>2, IdsAre DEF Inv, RouteInv
    <3> QED
      BY <3>1, <3>2
  <2> QED
    BY <1>4, <1>14, <2>1, <2>2 DEF Inv, RouteInv, Held
<1>21. CacheInv'
  BY <1>4, <1>8, <1>9 DEF Inv, CacheInv
<1> QED
  BY <1>12, <1>13, <1>15, <1>19, <1>20, <1>21 DEF Inv

\* The dead request is freed and the scan goes on.
LEMMA DrainDoneKeeps == ASSUME Inv, DrainDone PROVE Inv'
<1>1. PICK k \in DOMAIN req_list : At(req_list, k)
  BY DEF DrainDone, Draining, Inv, SweepInv
<1> DEFINE r == req_list[k]
           v == RemoveAt(req_list, k)
           S == {x \in Range(req_list) : Key(x) # Key(r)}
           from == IF sweep.temp = NoRequest THEN Len(req_list) ELSE Index(sweep.temp) - 1
<1>2. req_list \in Seq(Request) /\ KeysOnce(req_list) /\ Filled(req_list, sweep.req) /\ crashed \in BOOLEAN
  BY DEF Inv, ListInv, SweepInv
<1>3. Index(sweep.req) = k /\ Key(r) = sweep.req
  BY <1>1, <1>2, IndexIs DEF At
<1>4. /\ ScanFrom(v, from)
      /\ fate' = [p \in Ids |-> IF p \in Waiting(r) THEN Append(fate[p], <<"lost">>) ELSE fate[p]]
      /\ entries' = entries /\ rtable' = rtable /\ arrived' = arrived /\ todo' = todo
      /\ missed' = missed /\ crashed' = crashed
  BY <1>3 DEF DrainDone
<1>5. from \in Nat \ {0}
  <2>1. DOMAIN req_list = 1..Len(req_list) /\ Len(req_list) \in Nat /\ k >= 1
    BY <1>2
  <2>2. CASE sweep.temp = NoRequest
    BY <2>1, <2>2
  <2>3. CASE sweep.temp # NoRequest
    <3>1. PICK l \in DOMAIN req_list : k < l /\ Key(req_list[l]) = sweep.temp
      BY <1>1, <2>3 DEF At
    <3>2. Index(sweep.temp) = l
      BY <1>2, <3>1, IndexIs
    <3> QED
      BY <2>1, <2>3, <3>1, <3>2
  <2> QED
    BY <2>2, <2>3
<1>6. /\ v \in Seq(Request) /\ KeysOnce(v)
      /\ \A a \in DOMAIN v : v[a] \in S /\ \E i \in DOMAIN req_list : v[a] = req_list[i]
      /\ \A dry : Filled(req_list, dry) => Filled(v, dry)
      /\ \A p : OnceIn(req_list, p) => OnceIn(v, p)
      /\ \A p : SomeIn(v, p) <=> \E i \in DOMAIN req_list : req_list[i] \in S /\ Has(req_list[i], p)
  <2>1. Drops(v, req_list, S)
    BY <1>2, RemoveDrops
  <2> HIDE DEF v, S
  <2> QED
    BY <1>2, <2>1, DropsHolds
<1>7. \A i \in DOMAIN req_list : req_list[i] \in S <=> i # k
  BY <1>2 DEF KeysOnce, Range
<1>8. Filled(v, NoRequest)
  BY <1>2, <1>3, <1>6 DEF Filled
<1> HIDE DEF v, S, from
<1>9. Same(v, req_list') /\ ListInv' /\ SweepInv'
  BY <1>2, <1>4, <1>5, <1>6, <1>8, ScanIs
<1>10. /\ DOMAIN req_list' = DOMAIN v
       /\ \A a \in DOMAIN v : /\ Forwards(req_list'[a]) <=> Forwards(v[a])
                              /\ req_list'[a].iface = v[a].iface /\ req_list'[a].ip4 = v[a].ip4
       /\ \A p : \A a \in DOMAIN v : Has(req_list'[a], p) <=> Has(v[a], p)
       /\ \A p : OnceIn(v, p) => OnceIn(req_list', p)
       /\ \A p : SomeIn(req_list', p) <=> SomeIn(v, p)
  BY <1>9, SameHolds DEF Same
<1>11. ThreadInv'
  BY <1>4 DEF Inv, ThreadInv
<1>12. ASSUME NEW p \in Ids
       PROVE  /\ fate[p] \in Seq(Fates)
              /\ Has(r, p) => /\ SomeIn(req_list, p) /\ ~SomeIn(req_list', p) /\ fate[p] = <<>>
                              /\ fate'[p] = << <<"lost">> >>
              /\ ~Has(r, p) => fate'[p] = fate[p] /\ (SomeIn(req_list', p) <=> SomeIn(req_list, p))
  <2>1. Placed(p) /\ fate[p] \in Seq(Fates)
    BY DEF Inv, PlaceInv
  <2>2. CASE Has(r, p)
    <3>1. SomeIn(req_list, p) /\ fate[p] = <<>>
      BY <2>1, <2>2 DEF SomeIn, Placed
    <3>2. ~SomeIn(v, p)
      BY <1>6, <1>7, <2>1, <2>2 DEF Placed, OnceIn
    <3>3. fate'[p] = Append(fate[p], <<"lost">>)
      BY <1>4, <2>2, WaitingIs
    <3>4. fate'[p] = << <<"lost">> >>
      BY <3>1, <3>3
    <3> QED
      BY <1>10, <2>1, <2>2, <3>1, <3>2, <3>4
  <2>3. CASE ~Has(r, p)
    <3>1. fate'[p] = fate[p]
      BY <1>4, <2>3, WaitingIs
    <3>2. SomeIn(v, p) <=> SomeIn(req_list, p)
      BY <1>6, <1>7, <2>3 DEF SomeIn
    <3> QED
      BY <1>10, <2>1, <2>3, <3>1, <3>2
  <2> QED
    BY <2>2, <2>3
<1>13. <<"lost">> \in Fates /\ \A p : SentRight(rtable, p, <<"lost">>)
  <2>1. <<"lost">> \in NotSent
    BY DEF NotSent
  <2> QED
    BY <2>1, NotSentIs
<1> HIDE DEF r
<1>14. PlaceInv'
  <2>1. ASSUME NEW p \in Ids PROVE Placed(p)' /\ fate'[p] \in Seq(Fates)
    <3>1. Placed(p) /\ (Held(p)' <=> Held(p))
      BY <1>4 DEF Inv, PlaceInv, Held
    <3>2. OnceIn(req_list', p)
      BY <1>6, <1>10, <3>1 DEF Placed
    <3>3. CASE Has(r, p)
      <4> DEFINE f == <<"lost">>
      <4>1. f \in Fates /\ fate'[p] = <<f>>
        BY <1>12, <1>13, <3>3
      <4> HIDE DEF f
      <4>2. Len(fate'[p]) = 1 /\ fate'[p] # <<>> /\ fate'[p] \in Seq(Fates)
        BY <4>1
      <4> QED
        BY <1>4, <1>12, <3>1, <3>2, <3>3, <4>2 DEF Placed
    <3>4. CASE ~Has(r, p)
      BY <1>4, <1>12, <3>1, <3>2, <3>4 DEF Placed
    <3> QED
      BY <3>3, <3>4
  <2>2. fate' = [p \in Ids |-> fate'[p]]
    BY <1>4
  <2>3. fate' \in [Ids -> Seq(Fates)]
    BY <2>1, <2>2
  <2> QED
    BY <1>4, <2>1, <2>3 DEF Inv, PlaceInv
<1>15. RouteInv'
  <2>1. ASSUME NEW p \in Traffic, NEW a \in DOMAIN req_list', Has(req_list'[a], p.id)
        PROVE  Goes(rtable, p, req_list'[a].iface, req_list'[a].ip4)
    <3>1. a \in DOMAIN v /\ Has(v[a], p.id) /\ req_list'[a].iface = v[a].iface /\ req_list'[a].ip4 = v[a].ip4
      BY <1>10, <2>1
    <3>2. PICK i \in DOMAIN req_list : v[a] = req_list[i]
      BY <1>6, <3>1
    <3> QED
      BY <3>1, <3>2 DEF Inv, RouteInv
  <2>2. ASSUME NEW p \in Traffic, NEW i \in DOMAIN fate'[p.id]
        PROVE  SentRight(rtable, p, fate'[p.id][i])
    <3>0. p.id \in Ids
      BY IdsAre
    <3>1. CASE Has(r, p.id)
      <4>1. fate'[p.id] = << <<"lost">> >>
        BY <1>12, <3>0, <3>1
      <4>2. fate'[p.id][i] = <<"lost">>
        BY <2>2, <4>1
      <4> QED
        BY <1>13, <4>2
    <3>2. CASE ~Has(r, p.id)
      BY <1>12, <2>2, <3>0, <3>2 DEF Inv, RouteInv
    <3> QED
      BY <3>1, <3>2
  <2> QED
    BY <1>4, <2>1, <2>2 DEF Inv, RouteInv, Held
<1>16. CacheInv'
  <2>1. ASSUME NEW a \in DOMAIN req_list', Known(entries, req_list'[a].ip4), Forwards(req_list'[a]) PROVE FALSE
    <3>1. a \in DOMAIN v /\ Forwards(v[a]) /\ req_list'[a].ip4 = v[a].ip4
      BY <1>10, <2>1
    <3>2. PICK i \in DOMAIN req_list : v[a] = req_list[i]
      BY <1>6, <3>1
    <3> QED
      BY <2>1, <3>1, <3>2 DEF Inv, CacheInv
  <2> QED
    BY <1>4, <2>1 DEF Inv, CacheInv
<1> QED
  BY <1>9, <1>11, <1>14, <1>15, <1>16 DEF Inv

\* Every step keeps the invariant.
LEMMA NextInv == ASSUME Inv, [Next]_vars PROVE Inv'
<1>1. CASE Next
  <2>1. ASSUME NEW p \in Traffic, NEW ttl \in Ttls, Forward(p, ttl) PROVE Inv'
    BY <2>1, ForwardKeeps
  <2>2. ASSUME NEW p \in Traffic, NEW echo \in BOOLEAN, Local(p, echo) PROVE Inv'
    BY <2>2, LocalKeeps
  <2>3. ASSUME NEW h \in Hosts, handle_arp_packet(h) PROVE Inv'
    BY <2>3, ArpKeeps
  <2>4. ASSUME NEW t \in Threads, LookupHit(t) PROVE Inv'
    BY <2>4, LookupHitKeeps
  <2>5. ASSUME NEW t \in Threads, LookupMiss(t) PROVE Inv'
    BY <2>5, LookupMissKeeps
  <2>6. ASSUME NEW t \in Threads, AppendPacket(t) PROVE Inv'
    BY <2>6, AppendPacketKeeps
  <2>7. ASSUME NEW late \in 0..Len(req_list), SweepRound(late) PROVE Inv'
    BY <2>7, SweepRoundKeeps
  <2>8. CASE DrainPacket
    BY <2>8, DrainPacketKeeps
  <2>9. CASE DrainDone
    BY <2>9, DrainDoneKeeps
  <2> QED
    BY <1>1, <2>1, <2>2, <2>3, <2>4, <2>5, <2>6, <2>7, <2>8, <2>9 DEF Next
<1>2. CASE UNCHANGED vars
  <2>1. ListInv' /\ SweepInv'
    BY <1>2 DEF vars, Inv, ListInv, SweepInv, At
  <2>2. ThreadInv'
    BY <1>2 DEF vars, Inv, ThreadInv
  <2>3. PlaceInv'
    BY <1>2 DEF vars, Inv, PlaceInv, Placed, Held
  <2>4. RouteInv'
    BY <1>2 DEF vars, Inv, RouteInv, Held
  <2>5. CacheInv'
    BY <1>2 DEF vars, Inv, CacheInv
  <2> QED
    BY <2>1, <2>2, <2>3, <2>4, <2>5 DEF Inv
<1> QED
  BY <1>1, <1>2

-----------------------------------------------------------------------------
(***************************************************************************)
(* What the invariant says.                                                *)
(***************************************************************************)

\* The invariant always holds.
LEMMA RouterInv == Spec => []Inv
<1>1. Init => Inv
  BY InitInv
<1>2. Inv /\ [Next]_vars => Inv'
  BY NextInv
<1> QED
  BY <1>1, <1>2, PTL DEF Spec

\* The router's state is well-typed, with the bounds of arpcache_sweep: no request is
\* sent more often than the maximum, no entry outlives its timeout, and no request
\* but the one being given up is left without a packet.
THEOREM RouterTypeOK == Spec => []TypeOK
<1>1. ASSUME Inv PROVE TypeOK
  <2>1. \A i \in Slots : entries[i].valid \in BOOLEAN /\ entries[i].age \in 0..ARP_ENTRY_TIMEOUT
    BY <1>1 DEF Inv, CacheInv, Entries
  <2>2. ASSUME NEW k \in DOMAIN req_list
        PROVE  /\ req_list[k].age \in Ages
               /\ req_list[k].retries \in 1..ARP_REQUEST_MAX_RETRIES
               /\ req_list[k].cached \in Seq(Packets)
               /\ Key(req_list[k]) # sweep.req => req_list[k].cached # <<>>
               /\ \A j \in DOMAIN req_list : Key(req_list[j]) = Key(req_list[k]) => j = k
    <3>1. req_list \in Seq(Request) /\ KeysOnce(req_list) /\ Filled(req_list, sweep.req)
      BY <1>1 DEF Inv, ListInv
    <3>2. req_list[k] \in Request
      BY <3>1
    <3> QED
      BY <3>1, <3>2, RequestIs DEF KeysOnce, Filled
  <2>3. arrived \subseteq Ids /\ missed \in [Threads -> BOOLEAN]
    BY <1>1 DEF Inv, PlaceInv, ThreadInv
  <2>4. sweep.at \in {"sleep", "drain"} /\ sweep.more \in BOOLEAN /\ crashed \in BOOLEAN
    BY <1>1 DEF Inv, SweepInv
  <2> QED
    BY <2>1, <2>2, <2>3, <2>4 DEF TypeOK
<1> QED
  BY <1>1, RouterInv, PTL

\* A packet of the invariant is counted in one place, once it has arrived.
LEMMA PlacesAre ==
  ASSUME Inv, NEW p \in Ids PROVE Places(p) = IF p \in arrived THEN 1 ELSE 0
<1> DEFINE at(k) == {k} \X {i \in DOMAIN req_list[k].cached : req_list[k].cached[i].id = p}
           queued == UNION {at(k) : k \in DOMAIN req_list}
           held == {i \in DOMAIN todo["packet"] : todo["packet"][i].packet.id = p}
<1>1. Placed(p) /\ fate[p] \in Seq(Fates)
  BY DEF Inv, PlaceInv
<1>2. Cardinality(queued) = IF SomeIn(req_list, p) THEN 1 ELSE 0
  <2>1. CASE ~SomeIn(req_list, p)
    <3>1. queued = {}
      BY <2>1 DEF SomeIn, Has
    <3> HIDE DEF queued
    <3> QED
      BY <2>1, <3>1, FS_EmptySet
  <2>2. CASE SomeIn(req_list, p)
    <3>1. PICK k \in DOMAIN req_list : Has(req_list[k], p)
      BY <2>2 DEF SomeIn
    <3>2. PICK i \in DOMAIN req_list[k].cached : req_list[k].cached[i].id = p
      BY <3>1 DEF Has
    <3>3. <<k, i>> \in queued
      BY <3>2
    <3>4. ASSUME NEW x \in queued PROVE x = <<k, i>>
      <4>1. PICK l \in DOMAIN req_list : x \in at(l)
        BY <3>4
      <4>2. PICK j \in DOMAIN req_list[l].cached : x = <<l, j>> /\ req_list[l].cached[j].id = p
        BY <4>1
      <4>3. Has(req_list[l], p)
        BY <4>2 DEF Has
      <4>4. l = k
        BY <1>1, <3>1, <4>3 DEF Placed, OnceIn
      <4>5. j = i
        BY <1>1, <3>2, <4>2, <4>4 DEF Placed, OnceIn, HasOnce
      <4> QED
        BY <4>2, <4>4, <4>5
    <3> HIDE DEF queued
    <3>5. queued = {<<k, i>>}
      BY <3>3, <3>4
    <3> QED
      BY <2>2, <3>5, FS_Singleton
  <2> QED
    BY <2>1, <2>2
<1>3. Cardinality(held) = IF Held(p) THEN 1 ELSE 0
  <2> DEFINE s == todo["packet"]
  <2>1. s \in Seq(Jobs) /\ Len(s) <= 1
    BY DEF Inv, ThreadInv, Threads
  <2>2. held = {i \in DOMAIN s : s[i].packet.id = p} /\ (Held(p) <=> s # <<>> /\ Head(s).packet.id = p)
    BY DEF Held
  <2> HIDE DEF s, held
  <2>3. \A i \in DOMAIN s : i = 1
    BY <2>1
  <2>4. s # <<>> => 1 \in DOMAIN s /\ Head(s) = s[1]
    BY <2>1
  <2>5. CASE ~Held(p)
    <3>1. held = {}
      BY <2>1, <2>2, <2>3, <2>4, <2>5
    <3> QED
      BY <2>5, <3>1, FS_EmptySet
  <2>6. CASE Held(p)
    <3>1. held = {1}
      BY <2>2, <2>3, <2>4, <2>6
    <3> QED
      BY <2>6, <3>1, FS_Singleton
  <2> QED
    BY <2>5, <2>6
<1>4. Places(p) = Cardinality(queued) + Cardinality(held) + Len(fate[p])
  BY DEF Places
<1> HIDE DEF queued, held
<1>5. Len(fate[p]) \in Nat /\ Len(fate[p]) <= 1 /\ (fate[p] = <<>> <=> Len(fate[p]) = 0)
  BY <1>1 DEF Placed
<1>6. Len(fate[p]) = IF fate[p] = <<>> THEN 0 ELSE 1
  BY <1>5
<1> QED
  BY <1>1, <1>2, <1>3, <1>4, <1>6 DEF Placed

\* Every packet the router has received is in exactly one place: in the packet
\* thread's hand, in one request, or settled once (iface_send_packet_by_arp,
\* arpcache_insert and arpcache_sweep hand it on or free it).
THEOREM OneFateEach == Spec => []OneFate
<1>1. ASSUME Inv PROVE OneFate
  BY <1>1, PlacesAre DEF OneFate
<1> QED
  BY <1>1, RouterInv, PTL

\* A packet of the packet thread waits only for an address that is not known,
\* although iface_send_packet_by_arp lets go of the lock between look-up and append.
THEOREM OnlyUnknownWaits == Spec => []WaitsOnlyIfUnknown
<1>1. ASSUME Inv PROVE WaitsOnlyIfUnknown
  <2>1. SUFFICES ASSUME NEW k \in DOMAIN req_list, Known(entries, req_list[k].ip4),
                        NEW i \in DOMAIN req_list[k].cached
                 PROVE  req_list[k].cached[i].by = "sweep"
    BY DEF WaitsOnlyIfUnknown, Known
  <2>2. req_list[k].cached[i].by # "packet"
    BY <1>1, <2>1 DEF Inv, CacheInv, Forwards
  <2>3. req_list[k] \in Request
    BY <1>1 DEF Inv, ListInv
  <2>4. req_list[k].cached \in Seq(Packets)
    BY <2>3, RequestIs
  <2>5. req_list[k].cached[i] \in Packets
    BY <2>4
  <2> QED
    BY <2>2, <2>5 DEF Packets, Threads
<1> QED
  BY <1>1, RouterInv, PTL

\* A forwarded packet leaves by the longest of the routes that match, to its next
\* hop, at once or after waiting (longest_prefix_match, ip_forward_packet).
THEOREM LongestMatchForwards == Spec => []ForwardedByLongestMatch
<1>1. ASSUME Inv PROVE ForwardedByLongestMatch
  <2>1. SUFFICES ASSUME NEW p \in Traffic, NEW i \in DOMAIN fate[p.id], fate[p.id][i][1] = "sent"
                 PROVE  \E e \in Range(rtable) :
                          /\ Matches(p.dst, e)
                          /\ \A o \in Range(rtable) : Matches(p.dst, o) => o.mask <= e.mask
                          /\ fate[p.id][i] = Sent(e.iface, NextHop(e, p.dst))
    BY DEF ForwardedByLongestMatch
  <2>2. SentRight(rtable, p, fate[p.id][i])
    BY <1>1 DEF Inv, RouteInv
  <2>3. PICK iface, nexthop : Goes(rtable, p, iface, nexthop) /\ fate[p.id][i] = Sent(iface, nexthop)
    BY <2>1, <2>2 DEF SentRight
  <2> QED
    BY <2>3 DEF Goes
<1> QED
  BY <1>1, RouterInv, PTL
=============================================================================
