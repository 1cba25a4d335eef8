------------------------------ MODULE MCSwitch ------------------------------
(* Three hosts, two of which hash alike, one on each of three ports.        *)
EXTENDS Switch

MCHome == [h1 |-> 1, h2 |-> 2, h3 |-> 3]
MCHash == [h1 |-> 0, h2 |-> 0, h3 |-> 1]
=============================================================================
