---------------------------- MODULE SwitchProofs ----------------------------
(***************************************************************************)
(* Hub and switch implement the segment, for any hosts, ports, hash        *)
(* function and time-out: the table never disagrees with the wire, except  *)
(* about the source of the frame in hand, before that source is learnt.    *)
(***************************************************************************)
EXTENDS Switch, TLAPS

Frame == [src : Hosts, dst : Hosts \cup {Broadcast}, in : Ports]

\* The frame in hand is the last its sender sent.
FrameHeard ==
  /\ frame \subseteq Frame
  /\ \A f, g \in frame : f = g
  /\ \A f \in frame : heard[f.src] = {f.in}

\* An entry names the port its address was last heard on, unless that address
\* sent the frame in hand and the switch has not learnt it yet.
EntriesHeard ==
  \A b \in Buckets : \A e \in hash_table[b] :
    heard[e.mac] = {e.iface} \/ (~learned /\ \E f \in frame : f.src = e.mac)

\* A hub has no table.
HubHasNone == device = "hub" => ~learned /\ \A b \in Buckets : hash_table[b] = {}

IInv ==
  /\ TypeOK
  /\ at \in [Hosts -> Ports] /\ heard \in [Hosts -> SUBSET Ports]
  /\ FrameHeard /\ EntriesHeard /\ HubHasNone

-----------------------------------------------------------------------------
\* What insert_mac_port leaves in a bucket: the entries of other addresses and
\* one new entry for mac.
LEMMA InsertIs ==
  ASSUME TypeOK, NEW mac \in Hosts, NEW iface \in Ports,
         NEW t, t = insert_mac_port(mac, iface)
  PROVE  /\ t \in [Buckets -> SUBSET Entry]
         /\ \A b \in Buckets : \A e \in t[b] :
              \/ e.mac = mac /\ e.iface = iface /\ e = [mac |-> mac, iface |-> iface, age |-> 0]
                 /\ b = Hash[mac]
              \/ e \in hash_table[b] /\ e.mac # mac
<1>1. Hash[mac] \in Buckets
  BY DEF Buckets
<1>2. [mac |-> mac, iface |-> iface, age |-> 0] \in Entry
  BY SwitchAssumption DEF Entry
<1>3. hash_table \in [Buckets -> SUBSET Entry]
  BY DEF TypeOK
<1>4. \A b \in Buckets : \A e \in hash_table[b] : Hash[e.mac] = b
  BY DEF TypeOK
<1>5. t = [hash_table EXCEPT ![Hash[mac]] =
             (hash_table[Hash[mac]] \ Found(mac)) \cup {[mac |-> mac, iface |-> iface, age |-> 0]}]
  BY DEF insert_mac_port
<1>6. \A b \in Buckets :
        t[b] = IF b = Hash[mac]
               THEN (hash_table[b] \ Found(mac)) \cup {[mac |-> mac, iface |-> iface, age |-> 0]}
               ELSE hash_table[b]
  BY <1>1, <1>3, <1>5
<1>7. t \in [Buckets -> SUBSET Entry]
  BY <1>1, <1>2, <1>3, <1>5
<1>8. ASSUME NEW b \in Buckets, NEW e \in t[b]
      PROVE  \/ e.mac = mac /\ e.iface = iface /\ e = [mac |-> mac, iface |-> iface, age |-> 0]
                /\ b = Hash[mac]
             \/ e \in hash_table[b] /\ e.mac # mac
  <2>1. CASE b = Hash[mac] /\ e \in hash_table[b] \ Found(mac)
    BY <2>1 DEF Found
  <2>2. CASE b = Hash[mac] /\ e = [mac |-> mac, iface |-> iface, age |-> 0]
    BY <2>2
  <2>3. CASE b # Hash[mac] /\ e \in hash_table[b]
    BY <2>3, <1>4
  <2> QED
    BY <1>6, <1>8, <2>1, <2>2, <2>3
<1> QED
  BY <1>7, <1>8

\* What sweep_aged_mac_port_entry leaves: each entry a round older, none too old.
LEMMA SweepIs ==
  ASSUME TypeOK, NEW t, t = sweep_aged_mac_port_entry
  PROVE  /\ t \in [Buckets -> SUBSET Entry]
         /\ \A b \in Buckets : \A e \in t[b] :
              \E d \in hash_table[b] : e = [d EXCEPT !.age = @ + 1]
                                       /\ e.mac = d.mac /\ e.iface = d.iface
<1>1. hash_table \in [Buckets -> SUBSET Entry]
  BY DEF TypeOK
<1>2. ASSUME NEW b \in Buckets, NEW e \in t[b]
      PROVE  /\ e \in Entry
             /\ \E d \in hash_table[b] : e = [d EXCEPT !.age = @ + 1]
                                         /\ e.mac = d.mac /\ e.iface = d.iface
  <2>1. PICK d \in hash_table[b] : d.age + 1 <= MAC_PORT_TIMEOUT /\ e = [d EXCEPT !.age = @ + 1]
    BY <1>2 DEF sweep_aged_mac_port_entry
  <2>2. d \in Entry
    BY <1>1
  <2>3. e = [mac |-> d.mac, iface |-> d.iface, age |-> d.age + 1]
    BY <2>1, <2>2 DEF Entry
  <2>4. d.mac \in Hosts /\ d.iface \in Ports /\ d.age \in Nat
    BY <2>2, SwitchAssumption DEF Entry
  <2>5. d.age + 1 \in 0..MAC_PORT_TIMEOUT
    BY <2>1, <2>4, SwitchAssumption
  <2>6. e \in Entry
    BY <2>3, <2>4, <2>5 DEF Entry
  <2> QED
    BY <2>1, <2>3, <2>6
<1>3. t = [b \in Buckets |-> t[b]]
  BY DEF sweep_aged_mac_port_entry
<1>4. \A b \in Buckets : t[b] \in SUBSET Entry
  BY <1>2
<1>5. t \in [Buckets -> SUBSET Entry]
  BY <1>3, <1>4
<1> QED
  BY <1>2, <1>5

-----------------------------------------------------------------------------
\* At first the table and the device are empty.
LEMMA InitIInv == Init => IInv /\ SegmentSpec!Init
<1> SUFFICES ASSUME Init PROVE IInv /\ SegmentSpec!Init
  OBVIOUS
<1> USE SwitchAssumption DEF Init
<1>1. TypeOK
  <2>1. learned \in BOOLEAN /\ ~learned
    BY Zenon
  <2>2. hash_table \in [Buckets -> SUBSET Entry] /\ \A b \in Buckets : hash_table[b] = {}
    OBVIOUS
  <2>3. moves \in 0..MaxMoves
    OBVIOUS
  <2> QED
    BY <2>1, <2>2, <2>3 DEF TypeOK
<1>2. FrameHeard /\ EntriesHeard /\ HubHasNone
  BY DEF FrameHeard, EntriesHeard, HubHasNone
<1> QED
  BY <1>1, <1>2 DEF IInv, SegmentSpec!Init

\* Once the source is learnt, lookup_port returns where the address was last heard.
LEMMA LookupHeard ==
  ASSUME IInv, learned, NEW mac \in Hosts, lookup_port(mac) # {}
  PROVE  lookup_port(mac) = heard[mac] /\ \E p \in Ports : heard[mac] = {p}
<1>1. Hash[mac] \in Buckets
  BY DEF Buckets
<1>2. \A e \in Found(mac) : e.iface \in Ports /\ heard[mac] = {e.iface}
  BY <1>1 DEF IInv, TypeOK, EntriesHeard, Found, Entry
<1>3. PICK e \in Found(mac) : TRUE
  BY DEF lookup_port
<1>4. heard[mac] = {e.iface} /\ e.iface \in Ports
  BY <1>2, <1>3
<1>5. ASSUME NEW p PROVE p \in lookup_port(mac) <=> p \in heard[mac]
  BY <1>2, <1>3, <1>4 DEF lookup_port
<1> QED
  BY <1>4, <1>5

\* A host that moves is still where it was last heard, for the segment as well.
LEMMA MoveStep ==
  ASSUME IInv, NEW h \in Hosts, NEW p \in Ports, Move(h, p)
  PROVE  IInv' /\ SegmentSpec!Next
<1> USE DEF Move
<1>1. TypeOK'
  BY SwitchAssumption DEF IInv, TypeOK
<1>2. at' \in [Hosts -> Ports] /\ heard' \in [Hosts -> SUBSET Ports]
  BY DEF IInv
<1>3. FrameHeard' /\ EntriesHeard' /\ HubHasNone'
  BY DEF IInv, FrameHeard, EntriesHeard, HubHasNone
<1>4. SegmentSpec!Move(h, p)
  BY DEF SegmentSpec!Move
<1> QED
  BY <1>1, <1>2, <1>3, <1>4 DEF IInv, SegmentSpec!Next

\* A frame that arrives is heard; the device holds no other, so nothing is left half learnt.
LEMMA SendStep ==
  ASSUME IInv, NEW h \in Hosts, NEW d \in Hosts \cup {Broadcast}, Send(h, d)
  PROVE  IInv' /\ SegmentSpec!Next
<1> USE DEF Send
<1>1. ~learned /\ at[h] \in Ports
  BY DEF IInv, TypeOK
<1>2. TypeOK'
  BY <1>1 DEF IInv, TypeOK
<1>3. at' \in [Hosts -> Ports] /\ heard' \in [Hosts -> SUBSET Ports]
  BY <1>1 DEF IInv
<1>4. FrameHeard'
  <2>1. [src |-> h, dst |-> d, in |-> at[h]] \in Frame
    BY <1>1 DEF Frame
  <2>2. heard'[h] = {at[h]}
    BY DEF IInv
  <2> QED
    BY <2>1, <2>2 DEF FrameHeard
<1>5. EntriesHeard'
  <2> SUFFICES ASSUME NEW b \in Buckets, NEW e \in hash_table[b]
               PROVE  heard'[e.mac] = {e.iface} \/ (~learned' /\ \E f \in frame' : f.src = e.mac)
    BY DEF EntriesHeard
  <2>1. e.mac \in Hosts /\ heard[e.mac] = {e.iface}
    BY DEF IInv, TypeOK, Entry, EntriesHeard
  <2>2. CASE e.mac = h
    BY <2>2, <1>1
  <2>3. CASE e.mac # h
    BY <2>1, <2>3 DEF IInv
  <2> QED
    BY <2>2, <2>3
<1>6. HubHasNone'
  BY DEF IInv, HubHasNone
<1>7. SegmentSpec!Send(h, d)
  BY DEF SegmentSpec!Send
<1> QED
  BY <1>2, <1>3, <1>4, <1>5, <1>6, <1>7 DEF IInv, SegmentSpec!Next

\* HubHandle floods the frame.
LEMMA HubStep ==
  ASSUME IInv, HubHandle
  PROVE  IInv' /\ SegmentSpec!Next
<1> USE DEF HubHandle
<1>1. PICK f \in frame : out' = hub_broadcast_packet(f.in)
  OBVIOUS
<1>2. ~learned
  BY DEF IInv, HubHasNone
<1>3. TypeOK'
  BY <1>1, <1>2 DEF IInv, TypeOK, hub_broadcast_packet
<1>4. FrameHeard' /\ EntriesHeard' /\ HubHasNone'
  BY DEF IInv, FrameHeard, EntriesHeard, HubHasNone
<1>5. SegmentSpec!Deliver
  BY <1>1 DEF SegmentSpec!Deliver, SegmentSpec!Flooded, hub_broadcast_packet
<1> QED
  BY <1>3, <1>4, <1>5 DEF IInv, SegmentSpec!Next

\* SwitchLearn brings the table up to date with the frame in hand.
LEMMA LearnStep ==
  ASSUME IInv, SwitchLearn
  PROVE  IInv' /\ UNCHANGED SegmentSpec!vars
<1> USE DEF SwitchLearn
<1>1. PICK f \in frame : hash_table' = insert_mac_port(f.src, f.in)
  OBVIOUS
<1>2. TypeOK /\ f.src \in Hosts /\ f.in \in Ports /\ heard[f.src] = {f.in}
  BY DEF IInv, FrameHeard, Frame
<1>3. /\ hash_table' \in [Buckets -> SUBSET Entry]
      /\ \A b \in Buckets : \A e \in hash_table'[b] :
           \/ e.mac = f.src /\ e.iface = f.in
              /\ e = [mac |-> f.src, iface |-> f.in, age |-> 0] /\ b = Hash[f.src]
           \/ e \in hash_table[b] /\ e.mac # f.src
  BY <1>1, <1>2, InsertIs
<1>4. \A b \in Buckets : \A d, e \in hash_table'[b] :
        /\ Hash[e.mac] = b
        /\ d.mac = e.mac => d = e
  <2> SUFFICES ASSUME NEW b \in Buckets, NEW d \in hash_table'[b], NEW e \in hash_table'[b]
               PROVE  Hash[e.mac] = b /\ (d.mac = e.mac => d = e)
    OBVIOUS
  <2>1. \A c, g \in hash_table[b] : Hash[g.mac] = b /\ (c.mac = g.mac => c = g)
    BY <1>2 DEF TypeOK
  <2>2. CASE e \in hash_table[b] /\ e.mac # f.src
    BY <2>1, <2>2, <1>3
  <2>3. CASE e.mac = f.src /\ e = [mac |-> f.src, iface |-> f.in, age |-> 0] /\ b = Hash[f.src]
    <3>1. d.mac = f.src => d = [mac |-> f.src, iface |-> f.in, age |-> 0]
      BY <1>3
    <3> QED
      BY <2>3, <3>1
  <2> QED
    BY <1>3, <2>2, <2>3
<1>5. TypeOK'
  BY <1>1, <1>2, <1>3, <1>4 DEF TypeOK
<1>6. EntriesHeard'
  <2> SUFFICES ASSUME NEW b \in Buckets, NEW e \in hash_table'[b]
               PROVE  heard[e.mac] = {e.iface}
    BY DEF EntriesHeard
  <2>1. \A g \in frame : g = f
    BY DEF IInv, FrameHeard
  <2>2. CASE e.mac = f.src /\ e.iface = f.in
    BY <2>2, <1>2
  <2>3. CASE e \in hash_table[b] /\ e.mac # f.src
    BY <2>1, <2>3 DEF IInv, EntriesHeard
  <2> QED
    BY <1>3, <2>2, <2>3
<1>7. FrameHeard' /\ HubHasNone'
  BY DEF IInv, FrameHeard, HubHasNone
<1> QED
  BY <1>5, <1>6, <1>7 DEF IInv, SegmentSpec!vars

\* SwitchForward floods, or uses a table that is up to date.
LEMMA ForwardStep ==
  ASSUME IInv, SwitchForward
  PROVE  IInv' /\ SegmentSpec!Next
<1> USE DEF SwitchForward
<1> DEFINE tx(f) == IF f.dst = Broadcast THEN {} ELSE lookup_port(f.dst)
<1>1. PICK f \in frame :
        out' = IF tx(f) # {} /\ tx(f) # {f.in} THEN tx(f) ELSE broadcast_packet(f.in)
  OBVIOUS
<1>2. f.dst \in Hosts \cup {Broadcast} /\ f.in \in Ports
  BY DEF IInv, FrameHeard, Frame
<1>3. tx(f) # {} =>
        f.dst # Broadcast /\ tx(f) = heard[f.dst] /\ \E p \in Ports : heard[f.dst] = {p}
  BY <1>2, LookupHeard
<1> HIDE DEF tx
<1>4. out' \subseteq Ports
  BY <1>1, <1>3 DEF broadcast_packet
<1>5. TypeOK'
  <2>1. learned' \in BOOLEAN /\ ~learned'
    BY Zenon
  <2> QED
    BY <2>1, <1>4 DEF IInv, TypeOK
<1>6. FrameHeard' /\ HubHasNone'
  BY DEF IInv, FrameHeard, HubHasNone
<1>7. EntriesHeard'
  BY DEF IInv, EntriesHeard
<1>8. CASE tx(f) # {} /\ tx(f) # {f.in}
  <2>1. f.dst # Broadcast /\ out' = heard[f.dst] /\ out' # {} /\ f.in \notin out'
    BY <1>1, <1>3, <1>8
  <2> QED
    BY <2>1, <1>5, <1>6, <1>7 DEF IInv, SegmentSpec!Next, SegmentSpec!Deliver
<1>9. CASE ~(tx(f) # {} /\ tx(f) # {f.in})
  <2>1. out' = SegmentSpec!Flooded(f)
    BY <1>1, <1>9 DEF broadcast_packet, SegmentSpec!Flooded
  <2> QED
    BY <2>1, <1>5, <1>6, <1>7 DEF IInv, SegmentSpec!Next, SegmentSpec!Deliver
<1> QED
  BY <1>8, <1>9

\* SwitchSweep removes entries and changes none.
LEMMA SweepStep ==
  ASSUME IInv, SwitchSweep
  PROVE  IInv' /\ UNCHANGED SegmentSpec!vars
<1> USE DEF SwitchSweep
<1>1. /\ hash_table' \in [Buckets -> SUBSET Entry]
      /\ \A b \in Buckets : \A e \in hash_table'[b] :
           \E d \in hash_table[b] : e = [d EXCEPT !.age = @ + 1]
                                    /\ e.mac = d.mac /\ e.iface = d.iface
  BY SweepIs DEF IInv
<1>2. \A b \in Buckets : \A d, e \in hash_table'[b] :
        /\ Hash[e.mac] = b
        /\ d.mac = e.mac => d = e
  BY <1>1 DEF IInv, TypeOK
<1>3. TypeOK'
  BY <1>1, <1>2 DEF IInv, TypeOK
<1>4. EntriesHeard'
  BY <1>1 DEF IInv, EntriesHeard
<1>5. FrameHeard' /\ HubHasNone'
  BY DEF IInv, FrameHeard, HubHasNone
<1> QED
  BY <1>3, <1>4, <1>5 DEF IInv, SegmentSpec!vars

\* Every step keeps the invariant and is a step of the segment, or none.
LEMMA StepIsSegment == IInv /\ [Next]_vars => IInv' /\ [SegmentSpec!Next]_SegmentSpec!vars
<1> SUFFICES ASSUME IInv, [Next]_vars PROVE IInv' /\ [SegmentSpec!Next]_SegmentSpec!vars
  OBVIOUS
<1>1. CASE UNCHANGED vars
  BY <1>1 DEF vars, IInv, TypeOK, FrameHeard, EntriesHeard, HubHasNone, SegmentSpec!vars
<1>2. CASE Next
  BY <1>2, MoveStep, SendStep, HubStep, LearnStep, ForwardStep, SweepStep DEF Next
<1> QED
  BY <1>1, <1>2

\* The table of a switch stays one: every address in its own bucket, at most
\* once, with no entry older than the time-out, whatever the hash function.
THEOREM SwitchTypeOK == Spec => []TypeOK
<1>1. Spec => []IInv
  BY InitIInv, StepIsSegment, PTL DEF Spec
<1>2. IInv => TypeOK
  BY DEF IInv
<1> QED
  BY <1>1, <1>2, PTL

\* Hub and switch implement an Ethernet segment, for any hosts and ports, any
\* hash function, any time-out and any number of moves.
THEOREM SwitchImplementsSegment == Spec => ImplementsSegment
<1>1. Init => IInv /\ SegmentSpec!Init
  BY InitIInv
<1>2. IInv /\ [Next]_vars => IInv' /\ [SegmentSpec!Next]_SegmentSpec!vars
  BY StepIsSegment
<1> QED
  BY <1>1, <1>2, PTL DEF Spec, ImplementsSegment, SegmentSpec!Spec
=============================================================================
