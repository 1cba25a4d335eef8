------------------------------ MODULE ArpCache ------------------------------
(***************************************************************************)
(* The ARP cache of the router (code-exp7/arpcache.c, the same code as     *)
(* code-exp5/arpcache.c): a fixed table of IP->MAC entries and the list of *)
(* requests, each with the packets that wait for its answer.  Every        *)
(* operator is one section under arpcache.lock; who takes it, and when, is *)
(* in Router.  MAC addresses are left out: an entry says that the address  *)
(* is known.  Time is counted in rounds of the sweep thread, which sleeps  *)
(* a second between two of them.                                           *)
(***************************************************************************)
EXTENDS Integers, Sequences, FiniteSets, FiniteSetsExt, Functions, Lists

CONSTANTS
  MAX_ARP_SIZE,              \* slots of the table (32 in the code)
  ARP_ENTRY_TIMEOUT,         \* rounds an entry lives (15 in the code)
  ARP_REQUEST_MAX_RETRIES    \* requests sent before giving up (5 in the code)

ASSUME ArpCacheAssumption ==
  /\ MAX_ARP_SIZE \in Nat \ {0}
  /\ ARP_ENTRY_TIMEOUT \in Nat
  /\ ARP_REQUEST_MAX_RETRIES \in Nat \ {0}

VARIABLES
  entries,    \* arpcache.entries: [slot -> [valid, ip4, age]]
  req_list    \* arpcache.req_list: sequence of [iface, ip4, age, retries, cached]

cacheVars == <<entries, req_list>>

Slots == 1..MAX_ARP_SIZE

\* The zero of an address: bzero of the table, and "no gateway".
NoAddr == <<>>

arpcache_init ==
  /\ entries = [i \in Slots |-> [valid |-> FALSE, ip4 |-> NoAddr, age |-> 0]]
  /\ req_list = <<>>

(***************************************************************************)
(* A request's age stands for now - req->sent, as far as the test >= 1 can *)
(* tell: "new" was sent since the last round began, "ripe" is due in this  *)
(* round, "waits" is not due in this round and will be in the next.        *)
(***************************************************************************)
Ages == {"new", "ripe", "waits"}

\* mutant: the last slot is not looked at
arpcache_lookup_short(ip4) == \E i \in Slots : i < MAX_ARP_SIZE /\ entries[i].valid /\ entries[i].ip4 = ip4

arpcache_lookup(ip4) == \E i \in Slots : entries[i].valid /\ entries[i].ip4 = ip4

\* The slot an insertion uses: the first that is not valid, else a random one.
InsertSlots ==
  LET invalid == {i \in Slots : ~entries[i].valid}
  IN  IF invalid = {} THEN Slots ELSE {Min(invalid)}

\* Requests that a mapping of ip4 answers, on whichever interface.
Answered(ip4) == {k \in DOMAIN req_list : req_list[k].ip4 = ip4}

\* The mapping is stored, and the requests it answers leave with their packets
\* (what becomes of the packets is the caller's: see handle_arp_packet).
arpcache_insert(ip4) ==
  /\ \E i \in InsertSlots : entries' = [entries EXCEPT ![i] = [valid |-> TRUE, ip4 |-> ip4, age |-> 0]]
  /\ req_list' = Kept(req_list, {r \in Range(req_list) : r.ip4 # ip4})

\* The request a packet for ip4 on iface would join.
Joined(iface, ip4) == {k \in DOMAIN req_list : req_list[k].ip4 = ip4 /\ req_list[k].iface = iface}

\* The request list once the packet waits in it.
arpcache_append_packet(iface, ip4, packet) ==
  IF Joined(iface, ip4) # {}
  THEN [req_list EXCEPT ![Min(Joined(iface, ip4))].cached = Append(@, packet)]
  ELSE Append(req_list, [iface |-> iface, ip4 |-> ip4, age |-> "new", retries |-> 1, cached |-> <<packet>>])

\* The table after a round: every entry a round older, the old ones invalid.
SweptEntries ==
  [i \in Slots |->
     LET e == entries[i]
     IN  IF ~e.valid THEN e
         ELSE IF e.age + 1 > ARP_ENTRY_TIMEOUT THEN [e EXCEPT !.valid = FALSE, !.age = 0]
         ELSE [e EXCEPT !.age = @ + 1]]

\* The list as the round finds it when the clock's second changed after the
\* first `late' of its requests had been sent.
Ripened(late) ==
  [k \in DOMAIN req_list |->
     [req_list[k] EXCEPT !.age = IF @ # "new" \/ k <= late THEN "ripe" ELSE "waits"]]

\* mutant: one try more than the maximum
GivenUpLate(list, k) ==
  {j \in k..Len(list) : list[j].age = "ripe" /\ list[j].retries > ARP_REQUEST_MAX_RETRIES}

\* Requests from index k on whose last try went unanswered.
GivenUp(list, k) ==
  {j \in k..Len(list) : list[j].age = "ripe" /\ list[j].retries >= ARP_REQUEST_MAX_RETRIES}

\* mutant: a request sent again keeps its count
ResentForever(r) == IF r.age = "ripe" THEN [r EXCEPT !.age = "waits"] ELSE r

\* A due request is sent again.
Resent(r) == IF r.age = "ripe" THEN [r EXCEPT !.age = "waits", !.retries = @ + 1] ELSE r

\* The list once the scan has gone from index k up to, not including, stop.
Scanned(list, k, stop) ==
  [j \in DOMAIN list |-> IF k <= j /\ j < stop THEN Resent(list[j]) ELSE list[j]]
=============================================================================
