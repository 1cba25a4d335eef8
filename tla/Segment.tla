------------------------------ MODULE Segment -------------------------------
(***************************************************************************)
(* What a hub or a learning switch promises: an Ethernet segment.  Each    *)
(* frame goes either to every port but its own, or to one port, and then   *)
(* only to the one its destination was last heard on.                      *)
(***************************************************************************)
CONSTANTS Ports, Hosts, Broadcast

VARIABLES
  at,       \* [host -> port it is plugged into]
  heard,    \* [host -> the ports it was last heard on: none or one]
  frame,    \* the frame in the device, if any: at most one [src, dst, in]
  out       \* the ports the last frame went to

vars == <<at, heard, frame, out>>

Init ==
  /\ at \in [Hosts -> Ports]
  /\ heard = [h \in Hosts |-> {}]
  /\ frame = {}
  /\ out = {}

\* A host is plugged into another port.
Move(h, p) ==
  /\ at' = [at EXCEPT ![h] = p]
  /\ UNCHANGED <<heard, frame, out>>

Send(h, d) ==
  /\ frame = {}
  /\ frame' = {[src |-> h, dst |-> d, in |-> at[h]]}
  /\ heard' = [heard EXCEPT ![h] = {at[h]}]
  /\ UNCHANGED <<at, out>>

Flooded(f) == Ports \ {f.in}

\* The frame leaves, and never through the port it came by.
Deliver ==
  \E f \in frame :
    /\ \/ out' = Flooded(f)
       \/ f.dst # Broadcast /\ out' = heard[f.dst] /\ out' # {} /\ f.in \notin out'
    /\ frame' = {}
    /\ UNCHANGED <<at, heard>>

Next ==
  \/ \E h \in Hosts, p \in Ports : Move(h, p)
  \/ \E h \in Hosts, d \in Hosts \cup {Broadcast} : Send(h, d)
  \/ Deliver

Spec == Init /\ [][Next]_vars
=============================================================================
