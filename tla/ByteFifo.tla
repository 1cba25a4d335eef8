------------------------------ MODULE ByteFifo ------------------------------
(***************************************************************************)
(* What a receive buffer promises: a bounded first-in first-out queue of   *)
(* bytes.  A write appends a whole block, only when all of it fits; a read *)
(* removes the longest prefix that is asked for and available.             *)
(***************************************************************************)
EXTENDS Naturals, Sequences

CONSTANTS Byte,                     \* the byte values
          Capacity                  \* the number of bytes the queue can hold

VARIABLES q,                        \* the bytes written and not yet read
          in,                       \* the block the last write was given
          out                       \* the block the last read returned

FifoInit == q = <<>> /\ in = <<>> /\ out = <<>>

FifoWrite(s) ==
  /\ s # <<>>
  /\ Len(q) + Len(s) <= Capacity
  /\ q' = q \o s
  /\ in' = s
  /\ UNCHANGED out

FifoRead(n) ==
  LET len == IF n < Len(q) THEN n ELSE Len(q)
  IN /\ out' = SubSeq(q, 1, len)
     /\ q' = SubSeq(q, len + 1, Len(q))
     /\ UNCHANGED in

FifoNext ==
  \/ \E n \in 1..Capacity : \E s \in [1..n -> Byte] : FifoWrite(s)
  \/ \E n \in 0..Capacity : FifoRead(n)

FifoSpec == FifoInit /\ [][FifoNext]_<<q, in, out>>
=============================================================================
