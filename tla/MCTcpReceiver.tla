---------------------------- MODULE MCTcpReceiver ----------------------------
(* A stream of seven bytes cut into segments of one and two bytes, every probe *)
(* of it, and a ring of five bytes: it fills, wraps and empties.             *)
EXTENDS TcpReceiver

Seg(s, n) == [seq |-> s, off |-> s, len |-> n]
Probe(s)  == [seq |-> s, off |-> 0, len |-> 1]

MCSegment == {Seg(1, 2), Seg(3, 1), Seg(4, 2), Seg(6, 2)} \cup {Probe(s) : s \in {0, 2, 3}}
=============================================================================
