------------------------------ MODULE MCMospf -------------------------------
(* Router r1 of the ring r1-r2-r4-r3-r1 of code-exp7/topo.py.               *)
EXTENDS Mospf

MCIfaceNet == <<"n12", "n13">>
MCPeers == <<{"r2"}, {"r3"}>>

Lsa(n, r) == [network |-> n, rid |-> r]
Lsu(r, s, l) == [rid |-> r, seq |-> s, lsa |-> l]
MCLsus == {
  Lsu("r2", 0, {Lsa("n12", "r1"), Lsa("n24", "r4")}),
  Lsu("r2", 1, {Lsa("n12", "r1"), Lsa("n24", "r2")}),    \* r4 lost
  Lsu("r3", 0, {Lsa("n13", "r1"), Lsa("n34", "r4")}),
  Lsu("r4", 0, {Lsa("n24", "r2"), Lsa("n34", "r3")})}
=============================================================================
