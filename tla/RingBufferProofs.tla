-------------------------- MODULE RingBufferProofs --------------------------
(***************************************************************************)
(* The ring buffer of code-exp2/include/ring_buffer.h is a bounded byte    *)
(* queue, whatever its capacity and the sizes of the blocks.  The modulo   *)
(* operations are first replaced by the comparison they amount to; then a  *)
(* write and a read are followed slot by slot.                             *)
(***************************************************************************)
EXTENDS RingBuffer, SequenceTheorems, TLAPS

\* The states of a struct ring_buffer after alloc_ring_buffer(Capacity).
Ring == [size : {Capacity + 1}, head : 0..Capacity, tail : 0..Capacity,
         buf : [0..Capacity -> Byte]]

\* The slot k places after h.
SlotAfter(h, k) == IF h + k <= Capacity THEN h + k ELSE h + k - (Capacity + 1)

\* A remainder below twice the divisor is found by one comparison.
LEMMA ModSmall ==
  ASSUME NEW n \in Nat \ {0}, NEW x \in 0..(2 * n - 1)
  PROVE  x % n = IF x < n THEN x ELSE x - n
BY Z3

\* The slot arithmetic of ring_buffer.h never leaves buf.
LEMMA SlotIs ==
  ASSUME NEW h \in 0..Capacity, NEW k \in 0..(Capacity + 1), NEW n, n = Capacity + 1
  PROVE  /\ (h + k) % n = SlotAfter(h, k)
         /\ SlotAfter(h, k) \in 0..Capacity
<1>1. Capacity \in Nat /\ h \in Nat /\ k \in Nat /\ h <= Capacity /\ k <= Capacity + 1
  BY CapacityAssumption
<1>2. n \in Nat \ {0} /\ h + k \in 0..(2 * n - 1)
  BY <1>1
<1>3. (h + k) % n = IF h + k < n THEN h + k ELSE h + k - n
  BY <1>1, <1>2, Z3
<1> QED
  BY <1>1, <1>3 DEF SlotAfter

\* What ring_buffer_used computes.
LEMMA UsedIs ==
  ASSUME NEW r \in Ring
  PROVE  /\ ring_buffer_used(r) =
              IF r.tail >= r.head THEN r.tail - r.head ELSE r.tail - r.head + (Capacity + 1)
         /\ ring_buffer_used(r) \in 0..Capacity
         /\ ring_buffer_free(r) = Capacity - ring_buffer_used(r)
         /\ r.tail = SlotAfter(r.head, ring_buffer_used(r))
<1>1. /\ r.size = Capacity + 1 /\ r.head \in 0..Capacity /\ r.tail \in 0..Capacity
  BY DEF Ring
<1>2. (r.tail - r.head + r.size) \in 0..(2 * (Capacity + 1) - 1)
  BY <1>1, CapacityAssumption
<1>3. (r.tail - r.head + r.size) % r.size =
        IF r.tail - r.head + r.size < r.size
          THEN r.tail - r.head + r.size ELSE r.tail - r.head + r.size - r.size
  BY <1>1, <1>2, ModSmall, CapacityAssumption
<1> QED
  BY <1>1, <1>3, CapacityAssumption DEF ring_buffer_used, ring_buffer_free, SlotAfter

\* The contents of a ring, without a modulo.
LEMMA ContentsIs ==
  ASSUME NEW r \in Ring
  PROVE  /\ Contents(r) \in Seq(Byte)
         /\ Len(Contents(r)) = ring_buffer_used(r)
         /\ \A k \in 1..ring_buffer_used(r) :
              Contents(r)[k] = r.buf[SlotAfter(r.head, k - 1)]
<1>1. /\ r.size = Capacity + 1 /\ r.head \in 0..Capacity
      /\ r.buf \in [0..Capacity -> Byte]
  BY DEF Ring
<1>2. ring_buffer_used(r) \in 0..Capacity
  BY UsedIs
<1>3. ASSUME NEW k \in 1..ring_buffer_used(r)
      PROVE  /\ (r.head + k - 1) % r.size = SlotAfter(r.head, k - 1)
             /\ SlotAfter(r.head, k - 1) \in 0..Capacity
  <2>1. k - 1 \in 0..(Capacity + 1)
    BY <1>2, CapacityAssumption
  <2>2. r.head + k - 1 = r.head + (k - 1)
    BY <1>1, <1>2
  <2> QED
    BY <2>1, <2>2, <1>1, SlotIs
<1>4. Contents(r) = [k \in 1..ring_buffer_used(r) |-> r.buf[SlotAfter(r.head, k - 1)]]
  BY <1>3 DEF Contents
<1>5. \A k \in 1..ring_buffer_used(r) : r.buf[SlotAfter(r.head, k - 1)] \in Byte
  BY <1>1, <1>3
<1>6. Contents(r) \in [1..ring_buffer_used(r) -> Byte]
  BY <1>4, <1>5
<1> HIDE DEF Contents
<1>7. Contents(r) \in Seq(Byte) /\ Len(Contents(r)) = ring_buffer_used(r)
  <2> DEFINE u == ring_buffer_used(r)
  <2>1. u \in Nat
    BY <1>2, CapacityAssumption
  <2> HIDE DEF u
  <2>2. Contents(r) \in [1..u -> Byte]
    BY <1>6 DEF u
  <2>3. Contents(r) \in Seq(Byte) /\ Len(Contents(r)) = u
    BY <2>1, <2>2
  <2> QED
    BY <2>3 DEF u
<1> QED
  BY <1>4, <1>7

\* Where a write of n bytes leaves the tail, and which slots it fills: those
\* after the u slots in use, in order.
LEMMA WriteSlots ==
  ASSUME NEW h \in 0..Capacity, NEW u \in Nat, NEW n \in Nat, n > 0, u + n <= Capacity,
         NEW t, t = SlotAfter(h, u)
  PROVE  /\ t \in 0..Capacity
         /\ SlotAfter(t, n) \in 0..Capacity
         /\ u + n = IF SlotAfter(t, n) >= h THEN SlotAfter(t, n) - h
                    ELSE SlotAfter(t, n) - h + (Capacity + 1)
         /\ \A k \in 1..(u + n) : LET i == SlotAfter(h, k - 1) IN
              /\ i \in 0..Capacity
              /\ t + n > Capacity + 1 =>
                   /\ k <= u => i < t /\ i >= n - (Capacity + 1 - t)
                   /\ k > u /\ i >= t => i - t + 1 = k - u
                   /\ k > u /\ i < t => /\ i < n - (Capacity + 1 - t)
                                        /\ Capacity + 1 - t + i + 1 = k - u
              /\ t + n <= Capacity + 1 =>
                   IF k <= u THEN i < t \/ i >= t + n
                   ELSE i >= t /\ i < t + n /\ i - t + 1 = k - u
<1>1. Capacity \in Nat /\ h \in Nat /\ h <= Capacity
  BY CapacityAssumption
<1> QED
  BY <1>1 DEF SlotAfter

\* write_ring_buffer adds the whole block behind what the ring holds.
LEMMA WriteAppends ==
  ASSUME NEW r \in Ring, NEW s \in Seq(Byte), Len(s) > 0, ring_buffer_free(r) >= Len(s),
         NEW w, w = [r EXCEPT !.buf = memcpy_in(r, s), !.tail = (@ + Len(s)) % r.size]
  PROVE  w \in Ring /\ Contents(w) = Contents(r) \o s
<1> DEFINE u == ring_buffer_used(r)
           n == Len(s)
           t == r.tail
           h == r.head
<1>1. /\ r.size = Capacity + 1 /\ h \in 0..Capacity /\ r.buf \in [0..Capacity -> Byte]
      /\ DOMAIN r.buf = 0..Capacity
  BY DEF Ring
<1>2. u \in Nat /\ n \in Nat /\ n > 0 /\ u + n <= Capacity /\ t = SlotAfter(h, u)
  <2>1. u \in 0..Capacity /\ ring_buffer_free(r) = Capacity - u /\ t = SlotAfter(h, u)
    BY UsedIs
  <2> HIDE DEF u, t, h
  <2> QED
    BY <2>1, CapacityAssumption
<1>3. s \in [1..n -> Byte]
  OBVIOUS
<1>4. w.size = Capacity + 1 /\ w.head = h /\ w.tail = (t + n) % r.size
      /\ w.buf = memcpy_in(r, s)
  BY <1>1 DEF Ring
<1>5. /\ t + n > r.size =>
           memcpy_in(r, s) = [i \in 0..Capacity |->
             IF i >= t THEN s[i - t + 1]
             ELSE IF i < n - (r.size - t) THEN s[r.size - t + i + 1] ELSE r.buf[i]]
      /\ ~(t + n > r.size) =>
           memcpy_in(r, s) = [i \in 0..Capacity |->
             IF i \in t..(t + n - 1) THEN s[i - t + 1] ELSE r.buf[i]]
  <2>1. CASE t + n > r.size
    BY <1>1, <2>1 DEF memcpy_in
  <2>2. CASE ~(t + n > r.size)
    BY <1>1, <2>2 DEF memcpy_in
  <2> QED
    BY <2>1, <2>2
<1> HIDE DEF u, n, t, h
<1>6. Capacity \in Nat /\ t \in 0..Capacity /\ n <= Capacity
  BY <1>1, <1>2, WriteSlots, CapacityAssumption
<1>7. w.tail = SlotAfter(t, n) /\ w.tail \in 0..Capacity
  BY <1>1, <1>2, <1>4, <1>6, SlotIs
<1>8. w.buf \in [0..Capacity -> Byte]
  <2>1. CASE t + n > r.size
    <3> DEFINE e(i) == IF i >= t THEN s[i - t + 1]
                       ELSE IF i < n - (r.size - t) THEN s[r.size - t + i + 1]
                       ELSE r.buf[i]
    <3>1. w.buf = [i \in 0..Capacity |-> e(i)]
      BY <1>4, <1>5, <2>1
    <3>2. ASSUME NEW i \in 0..Capacity PROVE e(i) \in Byte
      <4>1. CASE i >= t
        <5>1. i - t + 1 \in 1..n
          BY <4>1, <2>1, <1>1, <1>2, <1>6
        <5> QED
          BY <5>1, <4>1, <1>3
      <4>2. CASE ~(i >= t) /\ i < n - (r.size - t)
        <5>1. r.size - t + i + 1 \in 1..n
          BY <4>2, <2>1, <1>1, <1>2, <1>6
        <5> QED
          BY <5>1, <4>2, <1>3
      <4>3. CASE ~(i >= t) /\ ~(i < n - (r.size - t))
        BY <4>3, <1>1
      <4> QED
        BY <4>1, <4>2, <4>3
    <3> QED
      BY <3>1, <3>2
  <2>2. CASE ~(t + n > r.size)
    <3> DEFINE e(i) == IF i \in t..(t + n - 1) THEN s[i - t + 1] ELSE r.buf[i]
    <3>1. w.buf = [i \in 0..Capacity |-> e(i)]
      BY <1>4, <1>5, <2>2
    <3>2. ASSUME NEW i \in 0..Capacity PROVE e(i) \in Byte
      <4>1. CASE i \in t..(t + n - 1)
        <5>1. i - t + 1 \in 1..n
          BY <4>1, <1>2, <1>6
        <5> QED
          BY <5>1, <4>1, <1>3
      <4>2. CASE ~(i \in t..(t + n - 1))
        BY <4>2, <1>1
      <4> QED
        BY <4>1, <4>2
    <3> QED
      BY <3>1, <3>2
  <2> QED
    BY <2>1, <2>2
<1>9. w \in Ring
  BY <1>4, <1>7, <1>8, <1>1 DEF Ring
<1>10. ring_buffer_used(w) = u + n
  <2>1. ring_buffer_used(w) =
          IF w.tail >= w.head THEN w.tail - w.head ELSE w.tail - w.head + (Capacity + 1)
    BY <1>9, UsedIs
  <2> QED
    BY <2>1, <1>1, <1>2, <1>4, <1>7, WriteSlots
<1>11. ASSUME NEW k \in 1..(u + n)
       PROVE  w.buf[SlotAfter(h, k - 1)] = IF k <= u THEN r.buf[SlotAfter(h, k - 1)] ELSE s[k - u]
  <2> DEFINE i == SlotAfter(h, k - 1)
  <2>1. /\ i \in 0..Capacity
        /\ t + n > Capacity + 1 =>
             /\ k <= u => i < t /\ i >= n - (Capacity + 1 - t)
             /\ k > u /\ i >= t => i - t + 1 = k - u
             /\ k > u /\ i < t => /\ i < n - (Capacity + 1 - t)
                                  /\ Capacity + 1 - t + i + 1 = k - u
        /\ t + n <= Capacity + 1 =>
             IF k <= u THEN i < t \/ i >= t + n
             ELSE i >= t /\ i < t + n /\ i - t + 1 = k - u
    BY <1>1, <1>2, WriteSlots
  <2> HIDE DEF i
  <2>2. CASE t + n > r.size
    <3>1. w.buf[i] = IF i >= t THEN s[i - t + 1]
                     ELSE IF i < n - (r.size - t) THEN s[r.size - t + i + 1]
                     ELSE r.buf[i]
      BY <2>1, <2>2, <1>4, <1>5
    <3>2. w.buf[i] = IF k <= u THEN r.buf[i] ELSE s[k - u]
      BY <3>1, <2>1, <2>2, <1>1, <1>2, <1>6
    <3> QED
      BY <3>2 DEF i
  <2>3. CASE ~(t + n > r.size)
    <3>1. w.buf[i] = IF i \in t..(t + n - 1) THEN s[i - t + 1] ELSE r.buf[i]
      BY <2>1, <2>3, <1>4, <1>5
    <3>2. w.buf[i] = IF k <= u THEN r.buf[i] ELSE s[k - u]
      BY <3>1, <2>1, <2>3, <1>1, <1>2, <1>6
    <3> QED
      BY <3>2 DEF i
  <2> QED
    BY <2>2, <2>3
<1> HIDE DEF Contents
<1>12. /\ Contents(r) \in Seq(Byte) /\ Len(Contents(r)) = u
       /\ \A k \in 1..u : Contents(r)[k] = r.buf[SlotAfter(h, k - 1)]
  BY ContentsIs DEF u, h
<1>13. /\ Contents(w) \in Seq(Byte) /\ Len(Contents(w)) = u + n
       /\ \A k \in 1..(u + n) : Contents(w)[k] = w.buf[SlotAfter(h, k - 1)]
  BY <1>4, <1>9, <1>10, ContentsIs
<1>14. /\ Contents(r) \o s \in Seq(Byte) /\ Len(Contents(r) \o s) = u + n
       /\ \A k \in 1..(u + n) :
            (Contents(r) \o s)[k] = IF k <= u THEN Contents(r)[k] ELSE s[k - u]
  BY <1>12, ConcatProperties DEF n
<1>15. ASSUME NEW k \in 1..(u + n) PROVE Contents(w)[k] = (Contents(r) \o s)[k]
  <2>1. CASE k <= u
    <3>1. k \in 1..u
      BY <2>1, <1>2
    <3> QED
      BY <3>1, <2>1, <1>11, <1>12, <1>13, <1>14
  <2>2. CASE ~(k <= u)
    BY <2>2, <1>11, <1>13, <1>14
  <2> QED
    BY <2>1, <2>2
<1>16. Contents(w) = Contents(r) \o s
  BY <1>13, <1>14, <1>15, SeqEqual
<1> QED
  BY <1>9, <1>16

\* Where a read of n bytes leaves the head, and which slots it copies.
LEMMA ReadSlots ==
  ASSUME NEW h \in 0..Capacity, NEW u \in Nat, NEW n \in Nat, n <= u, u <= Capacity
  PROVE  /\ SlotAfter(h, n) \in 0..Capacity
         /\ LET t == SlotAfter(h, u)
                g == SlotAfter(h, n)
            IN  u - n = IF t >= g THEN t - g ELSE t - g + (Capacity + 1)
         /\ \A k \in 1..n :
              SlotAfter(h, k - 1) =
                IF h + n > Capacity + 1 /\ k > Capacity + 1 - h
                THEN k - (Capacity + 1 - h) - 1 ELSE h + k - 1
         /\ \A k \in 1..(u - n) : SlotAfter(SlotAfter(h, n), k - 1) = SlotAfter(h, n + k - 1)
<1>1. Capacity \in Nat /\ h \in Nat /\ h <= Capacity
  BY CapacityAssumption
<1> QED
  BY <1>1 DEF SlotAfter

\* read_ring_buffer copies the oldest bytes, as many as are asked for and there,
\* and leaves the rest.
LEMMA ReadTakes ==
  ASSUME NEW r \in Ring, NEW n \in Nat, n <= ring_buffer_used(r),
         NEW w, w = [r EXCEPT !.head = IF n > 0 THEN (@ + n) % r.size ELSE @]
  PROVE  /\ w \in Ring
         /\ memcpy_out(r, n) = SubSeq(Contents(r), 1, n)
         /\ Contents(w) = SubSeq(Contents(r), n + 1, Len(Contents(r)))
<1> DEFINE u == ring_buffer_used(r)
           h == r.head
<1>1. /\ r.size = Capacity + 1 /\ h \in 0..Capacity /\ r.buf \in [0..Capacity -> Byte]
      /\ r.tail \in 0..Capacity
  BY DEF Ring
<1>2. Capacity \in Nat /\ u \in Nat /\ u <= Capacity /\ n <= u /\ r.tail = SlotAfter(h, u)
  <2>1. u \in 0..Capacity /\ r.tail = SlotAfter(h, u)
    BY UsedIs
  <2> HIDE DEF h
  <2> QED
    BY <2>1, CapacityAssumption
<1>3. /\ w.size = r.size /\ w.tail = r.tail /\ w.buf = r.buf
      /\ w.head = IF n > 0 THEN (h + n) % r.size ELSE h
  BY <1>1 DEF Ring
<1>4. /\ h + n > r.size =>
           memcpy_out(r, n) = [k \in 1..n |->
             IF k <= r.size - h THEN r.buf[h + k - 1] ELSE r.buf[k - (r.size - h) - 1]]
      /\ ~(h + n > r.size) => memcpy_out(r, n) = [k \in 1..n |-> r.buf[h + k - 1]]
  <2>1. CASE h + n > r.size
    BY <2>1 DEF memcpy_out
  <2>2. CASE ~(h + n > r.size)
    BY <2>2 DEF memcpy_out
  <2> QED
    BY <2>1, <2>2
<1>5. /\ Contents(r) \in Seq(Byte) /\ Len(Contents(r)) = u
      /\ \A k \in 1..u : Contents(r)[k] = r.buf[SlotAfter(h, k - 1)]
  BY ContentsIs
<1> HIDE DEF u, h
<1>6. w.head = SlotAfter(h, n) /\ w.head \in 0..Capacity
  <2>1. CASE n > 0
    <3>1. n \in 0..(Capacity + 1)
      BY <1>2
    <3> QED
      BY <3>1, <2>1, <1>1, <1>3, SlotIs
  <2>2. CASE n = 0
    BY <2>2, <1>1, <1>2, <1>3 DEF SlotAfter
  <2> QED
    BY <2>1, <2>2
<1>7. w \in Ring
  BY <1>1, <1>3, <1>6 DEF Ring
<1>8. ring_buffer_used(w) = u - n
  <2>1. ring_buffer_used(w) =
          IF w.tail >= w.head THEN w.tail - w.head ELSE w.tail - w.head + (Capacity + 1)
    BY <1>7, UsedIs
  <2>2. u - n = IF r.tail >= w.head THEN r.tail - w.head ELSE r.tail - w.head + (Capacity + 1)
    <3>1. LET t == SlotAfter(h, u)
              g == SlotAfter(h, n)
          IN  u - n = IF t >= g THEN t - g ELSE t - g + (Capacity + 1)
      BY <1>1, <1>2, ReadSlots
    <3> QED
      BY <3>1, <1>2, <1>6
  <2> QED
    BY <2>1, <2>2, <1>3
<1> HIDE DEF Contents
<1>9. ASSUME NEW k \in 1..n PROVE memcpy_out(r, n)[k] = Contents(r)[k]
  <2>1. k \in 1..u
    BY <1>2
  <2>2. SlotAfter(h, k - 1) = IF h + n > Capacity + 1 /\ k > Capacity + 1 - h
                              THEN k - (Capacity + 1 - h) - 1 ELSE h + k - 1
    BY <1>1, <1>2, ReadSlots
  <2>3. CASE h + n > r.size
    <3>1. memcpy_out(r, n)[k] =
            IF k <= r.size - h THEN r.buf[h + k - 1] ELSE r.buf[k - (r.size - h) - 1]
      BY <2>3, <1>4
    <3>2. memcpy_out(r, n)[k] = r.buf[SlotAfter(h, k - 1)]
      BY <3>1, <2>2, <2>3, <1>1, <1>2
    <3> QED
      BY <3>2, <2>1, <1>5
  <2>4. CASE ~(h + n > r.size)
    <3>1. memcpy_out(r, n)[k] = r.buf[h + k - 1]
      BY <2>4, <1>4
    <3>2. memcpy_out(r, n)[k] = r.buf[SlotAfter(h, k - 1)]
      BY <3>1, <2>2, <2>4, <1>1, <1>2
    <3> QED
      BY <3>2, <2>1, <1>5
  <2> QED
    BY <2>3, <2>4
<1>10. memcpy_out(r, n) = SubSeq(Contents(r), 1, n)
  <2>1. memcpy_out(r, n) = [k \in 1..n |-> memcpy_out(r, n)[k]]
    <3>1. CASE h + n > r.size
      BY <3>1, <1>4
    <3>2. CASE ~(h + n > r.size)
      BY <3>2, <1>4
    <3> QED
      BY <3>1, <3>2
  <2>2. \A k \in 1..n : Contents(r)[k] \in Byte
    BY <1>2, <1>5, ElementOfSeq
  <2>3. memcpy_out(r, n) \in [1..n -> Byte]
    BY <2>1, <2>2, <1>9
  <2>4. memcpy_out(r, n) \in Seq(Byte) /\ Len(memcpy_out(r, n)) = n
    BY <2>3
  <2>5. /\ SubSeq(Contents(r), 1, n) \in Seq(Byte)
        /\ Len(SubSeq(Contents(r), 1, n)) = n
        /\ \A k \in 1..n : SubSeq(Contents(r), 1, n)[k] = Contents(r)[k]
    BY <2>2, <1>2, SubSeqProperties
  <2> HIDE DEF memcpy_out
  <2> QED
    BY <2>4, <2>5, <1>9, SeqEqual
<1>11. Contents(w) = SubSeq(Contents(r), n + 1, u)
  <2>1. /\ Contents(w) \in Seq(Byte) /\ Len(Contents(w)) = u - n
        /\ \A k \in 1..(u - n) : Contents(w)[k] = r.buf[SlotAfter(SlotAfter(h, n), k - 1)]
    BY <1>3, <1>6, <1>7, <1>8, ContentsIs
  <2>2. \A k \in (n + 1)..u : Contents(r)[k] \in Byte
    BY <1>2, <1>5, ElementOfSeq
  <2>3. /\ SubSeq(Contents(r), n + 1, u) \in Seq(Byte)
        /\ Len(SubSeq(Contents(r), n + 1, u)) = u - n
        /\ \A k \in 1..(u - n) : SubSeq(Contents(r), n + 1, u)[k] = Contents(r)[n + k]
    BY <2>2, <1>2, SubSeqProperties
  <2>4. ASSUME NEW k \in 1..(u - n) PROVE Contents(w)[k] = SubSeq(Contents(r), n + 1, u)[k]
    <3>1. n + k \in 1..u /\ n + k - 1 = (n + k) - 1
      BY <1>2
    <3>2. SlotAfter(SlotAfter(h, n), k - 1) = SlotAfter(h, n + k - 1)
      BY <1>1, <1>2, ReadSlots
    <3>3. Contents(w)[k] = r.buf[SlotAfter(h, n + k - 1)]
      BY <3>2, <2>1
    <3>4. Contents(r)[n + k] = r.buf[SlotAfter(h, (n + k) - 1)]
      BY <3>1, <1>5
    <3>5. SubSeq(Contents(r), n + 1, u)[k] = Contents(r)[n + k]
      BY <2>3
    <3> QED
      BY <3>1, <3>3, <3>4, <3>5
  <2> QED
    BY <2>1, <2>3, <2>4, SeqEqual
<1> QED
  BY <1>5, <1>7, <1>10, <1>11

-----------------------------------------------------------------------------
\* The initial ring is empty.
LEMMA AllocEmpty == Init => TypeOK /\ Fifo!FifoInit
<1> SUFFICES ASSUME Init PROVE TypeOK /\ Fifo!FifoInit
  OBVIOUS
<1>1. rbuf \in Ring /\ rbuf.head = 0 /\ rbuf.tail = 0
  BY CapacityAssumption, ByteAssumption DEF Init, alloc_ring_buffer, Ring
<1>2. TypeOK
  BY <1>1 DEF Init, TypeOK, Ring
<1>3. Contents(rbuf) \in Seq(Byte) /\ Len(Contents(rbuf)) = 0
  BY <1>1, ContentsIs, UsedIs
<1> HIDE DEF Contents
<1>4. Contents(rbuf) = <<>>
  BY <1>3, EmptySeq
<1> QED
  BY <1>2, <1>4 DEF Init, Fifo!FifoInit

\* Every step of the ring keeps its types and is a step of the byte queue.
LEMMA StepIsFifo == TypeOK /\ [Next]_vars => TypeOK' /\ [Fifo!FifoNext]_<<Contents(rbuf), in, out>>
<1> SUFFICES ASSUME TypeOK, [Next]_vars
             PROVE  TypeOK' /\ [Fifo!FifoNext]_<<Contents(rbuf), in, out>>
  OBVIOUS
<1>1. rbuf \in Ring /\ in \in Seq(Byte) /\ out \in Seq(Byte)
  BY DEF TypeOK, Ring
<1>2. rbuf' \in Ring /\ in' \in Seq(Byte) /\ out' \in Seq(Byte) => TypeOK'
  BY DEF TypeOK, Ring
<1>3. /\ ring_buffer_used(rbuf) \in 0..Capacity /\ Len(Contents(rbuf)) = ring_buffer_used(rbuf)
      /\ ring_buffer_free(rbuf) = Capacity - ring_buffer_used(rbuf)
      /\ Contents(rbuf) \in Seq(Byte)
  BY <1>1, UsedIs, ContentsIs
<1> HIDE DEF TypeOK
<1>4. ASSUME NEW n \in 1..Capacity, NEW s \in [1..n -> Byte], write_ring_buffer(s)
      PROVE  TypeOK' /\ Fifo!FifoNext
  <2>1. s \in Seq(Byte) /\ Len(s) = n /\ n \in Nat
    BY CapacityAssumption
  <2>2. /\ Len(s) > 0 /\ ring_buffer_free(rbuf) >= Len(s) /\ in' = s /\ out' = out
        /\ rbuf' = [rbuf EXCEPT !.buf = memcpy_in(rbuf, s), !.tail = (@ + Len(s)) % rbuf.size]
    BY <1>4 DEF write_ring_buffer
  <2> HIDE DEF Contents
  <2>3. rbuf' \in Ring /\ Contents(rbuf') = Contents(rbuf) \o s
    BY <1>1, <2>1, <2>2, WriteAppends
  <2>4. Contents(rbuf)' = Contents(rbuf) \o s
    BY <2>3 DEF Contents, ring_buffer_used
  <2>5. Len(Contents(rbuf)) + Len(s) <= Capacity /\ s # <<>>
    BY <1>3, <2>1, <2>2, CapacityAssumption, EmptySeq
  <2>6. Fifo!FifoWrite(s)
    BY <2>2, <2>4, <2>5 DEF Fifo!FifoWrite
  <2>7. Fifo!FifoNext
    BY <2>6 DEF Fifo!FifoNext
  <2> QED
    BY <1>1, <1>2, <2>1, <2>2, <2>3, <2>7
<1>5. ASSUME NEW n \in 0..Capacity, read_ring_buffer(n)
      PROVE  TypeOK' /\ Fifo!FifoNext
  <2> DEFINE u == ring_buffer_used(rbuf)
             len == IF u < n THEN u ELSE n
  <2>1. /\ out' = memcpy_out(rbuf, len) /\ in' = in
        /\ rbuf' = [rbuf EXCEPT !.head = IF len > 0 THEN (@ + len) % rbuf.size ELSE @]
    BY <1>5 DEF read_ring_buffer
  <2>2. len \in Nat /\ len <= u
    BY <1>3, CapacityAssumption
  <2> HIDE DEF len, Contents
  <2>3. /\ rbuf' \in Ring
        /\ memcpy_out(rbuf, len) = SubSeq(Contents(rbuf), 1, len)
        /\ Contents(rbuf') = SubSeq(Contents(rbuf), len + 1, Len(Contents(rbuf)))
    BY <1>1, <2>1, <2>2, ReadTakes
  <2>4. Contents(rbuf)' = SubSeq(Contents(rbuf), len + 1, Len(Contents(rbuf)))
    BY <2>3 DEF Contents, ring_buffer_used
  <2>5. len = IF n < Len(Contents(rbuf)) THEN n ELSE Len(Contents(rbuf))
    BY <1>3, CapacityAssumption DEF len
  <2>6. Fifo!FifoRead(n)
    BY <2>1, <2>3, <2>4, <2>5, Zenon DEF Fifo!FifoRead
  <2>7. Fifo!FifoNext
    BY <2>6 DEF Fifo!FifoNext
  <2>8. \A k \in 1..len : Contents(rbuf)[k] \in Byte
    BY <1>3, <2>2, ElementOfSeq, CapacityAssumption
  <2>9. out' \in Seq(Byte)
    BY <2>1, <2>2, <2>3, <2>8, SubSeqProperties
  <2> QED
    BY <1>1, <1>2, <2>1, <2>3, <2>7, <2>9
<1>6. CASE UNCHANGED vars
  <2>1. Contents(rbuf)' = Contents(rbuf)
    BY <1>6 DEF vars, Contents, ring_buffer_used
  <2> HIDE DEF Contents
  <2> QED
    BY <1>1, <1>2, <1>6, <2>1 DEF vars
<1> HIDE DEF Contents
<1> QED
  BY <1>4, <1>5, <1>6 DEF Next

\* The head and the tail stay within the size + 1 slots and every slot holds a
\* byte, for every capacity.
THEOREM RingTypeOK == Spec => []TypeOK
<1>1. Init => TypeOK
  BY AllocEmpty
<1>2. TypeOK /\ [Next]_vars => TypeOK'
  BY StepIsFifo
<1> QED
  BY <1>1, <1>2, PTL DEF Spec

\* For every capacity and every byte set, read_ring_buffer and write_ring_buffer
\* are the read and the write of a bounded byte queue: no block is torn,
\* reordered or overwritten at the wrap-around, and the one slot left empty is
\* enough to tell a full ring from an empty one.
THEOREM RingImplementsFifo == Spec => ImplementsFifo
<1> HIDE DEF Contents
<1>1. Init => Fifo!FifoInit
  BY AllocEmpty
<1>2. TypeOK /\ [Next]_vars => [Fifo!FifoNext]_<<Contents(rbuf), in, out>>
  BY StepIsFifo
<1> QED
  BY <1>1, <1>2, RingTypeOK, PTL DEF Spec, ImplementsFifo, Fifo!FifoSpec
=============================================================================
