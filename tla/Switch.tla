------------------------------- MODULE Switch -------------------------------
(***************************************************************************)
(* The hub (code-exp8) and the learning switch (code-exp9) on one segment. *)
(* The device is one or the other.  The packet thread handles one frame at *)
(* a time; in the switch, learning and lookup are two sections under       *)
(* mac_port_map.lock and the sweep thread may run in between.  A MAC       *)
(* address is a host; time is counted in rounds of the sweep thread, which *)
(* sleeps a second between two of them.                                    *)
(***************************************************************************)
EXTENDS Naturals

CONSTANTS
  Ports, Hosts, Broadcast,
  Home,                \* [host -> port it is plugged into at first]
  Hash,                \* [host -> hash8 of its address]
  MAC_PORT_TIMEOUT,    \* rounds an entry lives (30 in the code)
  MaxMoves             \* bound: times a host is plugged into another port

ASSUME SwitchAssumption ==
  /\ Broadcast \notin Hosts
  /\ Home \in [Hosts -> Ports]
  /\ MAC_PORT_TIMEOUT \in Nat
  /\ MaxMoves \in Nat

VARIABLES
  device,          \* which program runs: "hub" or "switch"
  hash_table,      \* [hash -> set of [mac, iface, age]]
  learned,         \* the packet thread has learnt the frame's source
  moves,           \* moves so far
  at, heard, frame, out    \* as in Segment

vars == <<device, hash_table, learned, moves, at, heard, frame, out>>

Buckets == {Hash[h] : h \in Hosts}

Init ==
  /\ device \in {"hub", "switch"}
  /\ hash_table = [b \in Buckets |-> {}]
  /\ learned = FALSE
  /\ moves = 0
  /\ at = Home
  /\ heard = [h \in Hosts |-> {}]
  /\ frame = {}
  /\ out = {}

-----------------------------------------------------------------------------
(* mac.c: the table.  The order of a bucket's list is left out: an address  *)
(* is in it at most once (TypeOK), so every search of the list finds the    *)
(* same entry in any order.                                                 *)

\* The entry of mac in its bucket: none or one.
Found(mac) == {e \in hash_table[Hash[mac]] : e.mac = mac}

\* mutant: an entry of the bucket, whatever its address
lookup_port_hash_only(mac) ==
  IF hash_table[Hash[mac]] = {} THEN {} ELSE {(CHOOSE e \in hash_table[Hash[mac]] : TRUE).iface}

\* The port of mac, if it is in the table.
lookup_port(mac) == {e.iface : e \in Found(mac)}

\* mutant: a known address is added again
insert_mac_port_again(mac, iface) ==
  [hash_table EXCEPT ![Hash[mac]] = @ \cup {[mac |-> mac, iface |-> iface, age |-> 0]}]

\* The table with mac on iface, just visited: its entry is overwritten, or added.
insert_mac_port(mac, iface) ==
  [hash_table EXCEPT ![Hash[mac]] =
     (@ \ Found(mac)) \cup {[mac |-> mac, iface |-> iface, age |-> 0]}]

\* mutant: entries grow old but are not removed
sweep_never ==
  [b \in Buckets |->
     {[e EXCEPT !.age = IF @ < MAC_PORT_TIMEOUT THEN @ + 1 ELSE @] : e \in hash_table[b]}]

\* The table a round later, without the entries not visited for too long.
sweep_aged_mac_port_entry ==
  [b \in Buckets |->
     {[e EXCEPT !.age = @ + 1] : e \in {e \in hash_table[b] : e.age + 1 <= MAC_PORT_TIMEOUT}}]

-----------------------------------------------------------------------------
(* The network.                                                            *)

\* A host is plugged into another port.
Move(h, p) ==
  /\ moves < MaxMoves
  /\ p # at[h]
  /\ moves' = moves + 1
  /\ at' = [at EXCEPT ![h] = p]
  /\ UNCHANGED <<device, hash_table, learned, heard, frame, out>>

\* A frame reaches the device, which receives it when the one before is done.
Send(h, d) ==
  /\ frame = {}
  /\ frame' = {[src |-> h, dst |-> d, in |-> at[h]]}
  /\ heard' = [heard EXCEPT ![h] = {at[h]}]
  /\ UNCHANGED <<device, hash_table, learned, moves, at, out>>

-----------------------------------------------------------------------------
(* handle_packet.                                                          *)

broadcast_packet(iface) == Ports \ {iface}

\* The hub's own function of that name.
hub_broadcast_packet(iface) == Ports \ {iface}

\* The hub: every frame goes everywhere.
HubHandle ==
  /\ device = "hub"
  /\ \E f \in frame : out' = hub_broadcast_packet(f.in)
  /\ frame' = {}
  /\ UNCHANGED <<device, hash_table, learned, moves, at, heard>>

\* The switch learns the source.
SwitchLearn ==
  /\ device = "switch"
  /\ ~learned
  /\ \E f \in frame : hash_table' = insert_mac_port(f.src, f.in)
  /\ learned' = TRUE
  /\ UNCHANGED <<device, moves, at, heard, frame, out>>

\* Then it forwards: to the port of the destination if that is known and is not
\* the frame's own, else everywhere.
SwitchForward ==
  /\ device = "switch"
  /\ learned
  /\ \E f \in frame :
       LET tx_iface == IF f.dst = Broadcast THEN {} ELSE lookup_port(f.dst)
       IN  out' = IF tx_iface # {} /\ tx_iface # {f.in} THEN tx_iface ELSE broadcast_packet(f.in)
  /\ learned' = FALSE
  /\ frame' = {}
  /\ UNCHANGED <<device, hash_table, moves, at, heard>>

\* The sweep thread, once a second.
SwitchSweep ==
  /\ device = "switch"
  /\ hash_table' = sweep_aged_mac_port_entry
  /\ UNCHANGED <<device, learned, moves, at, heard, frame, out>>

Next ==
  \/ \E h \in Hosts, p \in Ports : Move(h, p)
  \/ \E h \in Hosts, d \in Hosts \cup {Broadcast} : Send(h, d)
  \/ HubHandle \/ SwitchLearn \/ SwitchForward \/ SwitchSweep

\* Both threads of the device run.
Spec ==
  /\ Init /\ [][Next]_vars
  /\ WF_vars(HubHandle \/ SwitchLearn \/ SwitchForward)
  /\ WF_vars(SwitchSweep)

-----------------------------------------------------------------------------
Entry == [mac : Hosts, iface : Ports, age : 0..MAC_PORT_TIMEOUT]

\* Types, with what makes the table one: each address is in its own bucket, at
\* most once (insert_mac_port searches before it adds, and lookup_port and the
\* removal of old entries rely on it).
TypeOK ==
  /\ hash_table \in [Buckets -> SUBSET Entry]
  /\ \A b \in Buckets : \A d, e \in hash_table[b] :
       /\ Hash[e.mac] = b
       /\ d.mac = e.mac => d = e
  /\ learned \in BOOLEAN
  /\ learned => frame # {}
  /\ moves \in 0..MaxMoves
  /\ out \subseteq Ports

\* Hub and switch both implement a segment: whatever has been learnt, moved,
\* aged or hashed together, a frame is flooded or goes to the one port its
\* destination was last heard on, and never back where it came from
\* (handle_packet, lookup_port, insert_mac_port, broadcast_packet).
SegmentSpec == INSTANCE Segment
ImplementsSegment == SegmentSpec!Spec

\* The switch believes h to be where it no longer is.
Stale(h) == lookup_port(h) \notin {{}, {at[h]}}

\* A host that has moved is not lost for ever: what the switch has wrong about
\* it is corrected by its next frame or forgotten, even if it stays silent and
\* others keep sending to it (only its own frames refresh its entry).
StaleIsForgotten == \A h \in Hosts : Stale(h) ~> ~Stale(h)
=============================================================================
