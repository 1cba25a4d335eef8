------------------------------ MODULE MCRouter ------------------------------
(* A router with two interfaces.  An address is a network digit and a host  *)
(* digit; host digit 0 is the router.                                       *)
EXTENDS Router

MCIfaceIp == [if0 |-> <<0, 0>>, if1 |-> <<1, 0>>]
A == <<0, 1>>
B == <<1, 1>>
Far == <<2, 1>>
MCHosts == {A, B}

Net(d, m, g, i) == [dest |-> d, mask |-> m, gw |-> g, iface |-> i]
\* the first interface's network alone: B and Far have no route
OneNet == <<Net(<<0, 0>>, 1, NoAddr, "if0")>>
\* a host route before both networks and a default route behind them
Crossed == <<Net(Far, 2, B, "if1")>> \o OneNet \o
           <<Net(<<1, 0>>, 1, NoAddr, "if1"), Net(<<0, 0>>, 0, A, "if0")>>
MCRTables == {OneNet, Crossed}

\* two packets to forward and one for the router
Pkt(n, d) == [id |-> n, in |-> "if0", src |-> A, dst |-> d]
MCTraffic == {Pkt(1, B), Pkt(2, Far), Pkt(3, <<0, 0>>)}
=============================================================================
