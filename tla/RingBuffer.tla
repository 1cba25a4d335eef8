----------------------------- MODULE RingBuffer -----------------------------
(***************************************************************************)
(* struct ring_buffer of code-exp2/include/ring_buffer.h, byte by byte:    *)
(* size + 1 slots, a head to read from, a tail to write to, and the two    *)
(* memcpy calls of an operation that runs past the last slot.              *)
(***************************************************************************)
EXTENDS Integers, Sequences

CONSTANTS Byte,                     \* the byte values
          Capacity                  \* the argument of alloc_ring_buffer

ASSUME CapacityAssumption == Capacity \in Nat \ {0}

ASSUME ByteAssumption == 0 \in Byte

VARIABLES rbuf,                     \* [size, head, tail, buf]
          in,                       \* the bytes the last write was given
          out                       \* the bytes the last read copied to its caller

vars == <<rbuf, in, out>>

\* alloc_ring_buffer: memset to 0, and one slot more than the capacity
alloc_ring_buffer(size) ==
  [size |-> size + 1, head |-> 0, tail |-> 0, buf |-> [i \in 0..size |-> 0]]

ring_buffer_used(r) == (r.tail - r.head + r.size) % r.size

ring_buffer_free(r) == r.size - ring_buffer_used(r) - 1

\* mutant: forgets the part that wrapped around
memcpy_in_no_wrap(r, s) ==
  [i \in DOMAIN r.buf |->
     IF i \in r.tail..(r.tail + Len(s) - 1) THEN s[i - r.tail + 1] ELSE r.buf[i]]

\* the memcpy calls of write_ring_buffer
memcpy_in(r, s) ==
  LET right == r.size - r.tail          \* slots up to the end of buf
      left  == Len(s) - right           \* what is left for its beginning
  IN IF r.tail + Len(s) > r.size
     THEN [i \in DOMAIN r.buf |->
             IF i >= r.tail THEN s[i - r.tail + 1]
             ELSE IF i < left THEN s[right + i + 1] ELSE r.buf[i]]
     ELSE [i \in DOMAIN r.buf |->
             IF i \in r.tail..(r.tail + Len(s) - 1) THEN s[i - r.tail + 1] ELSE r.buf[i]]

\* the memcpy calls of read_ring_buffer
memcpy_out(r, len) ==
  LET right == r.size - r.head
  IN IF r.head + len > r.size
     THEN [k \in 1..len |->
             IF k <= right THEN r.buf[r.head + k - 1] ELSE r.buf[k - right - 1]]
     ELSE [k \in 1..len |-> r.buf[r.head + k - 1]]

-----------------------------------------------------------------------------
Init == rbuf = alloc_ring_buffer(Capacity) /\ in = <<>> /\ out = <<>>

\* mutant: the tail is not taken modulo the size
write_ring_buffer_no_mod(s) ==
  /\ Len(s) > 0 /\ ring_buffer_free(rbuf) >= Len(s)
  /\ rbuf' = [rbuf EXCEPT !.buf = memcpy_in(rbuf, s), !.tail = @ + Len(s)]
  /\ in' = s
  /\ UNCHANGED out

\* write_ring_buffer; its assertion is the guard, the caller sees to it
write_ring_buffer(s) ==
  /\ Len(s) > 0 /\ ring_buffer_free(rbuf) >= Len(s)
  /\ rbuf' = [rbuf EXCEPT !.buf = memcpy_in(rbuf, s),
                          !.tail = (@ + Len(s)) % rbuf.size]
  /\ in' = s
  /\ UNCHANGED out

read_ring_buffer(n) ==
  LET used == ring_buffer_used(rbuf)
      len  == IF used < n THEN used ELSE n
  IN /\ out' = memcpy_out(rbuf, len)
     /\ rbuf' = [rbuf EXCEPT !.head = IF len > 0 THEN (@ + len) % rbuf.size ELSE @]
     /\ UNCHANGED in

Next ==
  \/ \E n \in 1..Capacity : \E s \in [1..n -> Byte] : write_ring_buffer(s)
  \/ \E n \in 0..Capacity : read_ring_buffer(n)

Spec == Init /\ [][Next]_vars

-----------------------------------------------------------------------------
TypeOK ==
  /\ rbuf \in [size : {Capacity + 1}, head : 0..Capacity, tail : 0..Capacity,
               buf : [0..Capacity -> Byte]]
  /\ in \in Seq(Byte) /\ out \in Seq(Byte)

\* The bytes between head and tail, in the order they will be read.
Contents(r) == [k \in 1..ring_buffer_used(r) |-> r.buf[(r.head + k - 1) % r.size]]

Fifo == INSTANCE ByteFifo WITH q <- Contents(rbuf)

\* The ring implements the bounded byte queue: blocks come out whole, in order and
\* unaltered across any number of wrap-arounds, a write of all the free space included.
ImplementsFifo == Fifo!FifoSpec
=============================================================================
