---------------------------- MODULE TcpReceiver ----------------------------
(***************************************************************************)
(* The receiving half of an ESTABLISHED tcp_sock (code-exp2): the receive  *)
(* thread in tcp_process with the out-of-order buffer, the application     *)
(* thread in tcp_sock_read, and rcv_buf_lock between them.                 *)
(*                                                                         *)
(* Bytes.  The application's i-th byte carries sequence number i (the      *)
(* connecting side leaves its initial sequence number 0 and SYN takes one  *)
(* number), and is modelled by the number i itself; the payload of a       *)
(* segment is the run of bytes off, off + 1, ... .  A probe's one byte 'X' *)
(* is the number 0, which is no byte of the stream.                        *)
(*                                                                         *)
(* rcv_buf, a FIFO (see RingBuffer), is kept as rcv_stream, every byte     *)
(* ever written to it, and rcv_read, how many of them were read.           *)
(*                                                                         *)
(* rcv_ofo_buf is a list sorted by seq without two equal seqs: a set of    *)
(* segments, whose least element is the list's head.                       *)
(***************************************************************************)
EXTENDS Integers, Sequences, SynchWait

CONSTANTS RcvBufSize,               \* TCP_DEFAULT_WINDOW: bytes of rcv_buf and initial rcv_wnd
          ReadLen,                  \* the len argument of tcp_sock_read
          MutexKind,                \* what unlocking a mutex owned by another thread does
          ChanCap                   \* bound: packets a channel holds; one more pushes out the oldest

ASSUME RcvBufSizeAssumption == RcvBufSize \in Nat \ {0}
ASSUME ReadLenAssumption    == ReadLen \in Nat \ {0}
ASSUME ChanCapAssumption    == ChanCap \in Nat \ {0}

\* The locks are initialised with default attributes; POSIX leaves open what a
\* default mutex does when a thread that does not own it unlocks it.  "normal":
\* it becomes free (what the C library of the build does); "errorcheck": the
\* call fails.
ASSUME MutexKindAssumption == MutexKind \in {"normal", "errorcheck"}

VARIABLES rcv_nxt, rcv_wnd,
          rcv_ofo_buf,
          rcv_stream, rcv_read,     \* rcv_buf
          rcv_buf_lock,             \* "free", or the thread that owns it: "reader", "rx"
          wait_recv,
          reader,                   \* the application thread in tcp_sock_read
          rx,                       \* the receive thread in tcp_process
          ackCh                     \* the ACKs on their way to the sender

rcvVars == <<rcv_nxt, rcv_wnd, rcv_ofo_buf, rcv_stream, rcv_read, rcv_buf_lock,
             wait_recv, reader, rx, ackCh>>

\* ring_buffer_used and ring_buffer_free of rcv_buf
Used == Len(rcv_stream) - rcv_read
Free == RcvBufSize - Used

\* mutant: a window wider than 16 bits
WndWide(x) == x

\* rcv_wnd is an unsigned 16-bit field and TCP_DEFAULT_WINDOW its largest value
Wnd(x) == x % (RcvBufSize + 1)

SeqEnd(m) == m.seq + m.len

Payload(m) == [k \in 1..m.len |-> m.off + k - 1]

\* ip_send_packet into a channel of bounded capacity
Send(ch, m) == IF Len(ch) < ChanCap THEN Append(ch, m) ELSE Append(Tail(ch), m)

\* tcp_send_control_packet(tsk, TCP_ACK)
SendAck == Send(ackCh, [ack |-> rcv_nxt, rwnd |-> rcv_wnd])

\* pthread_mutex_unlock(&tsk->rcv_buf_lock) called by a thread
Unlock(owner, thread) ==
  IF owner = thread \/ MutexKind = "normal" THEN "free" ELSE owner

Idle == [pc |-> "idle", seg |-> [seq |-> 0, off |-> 0, len |-> 0], moved |-> FALSE]

AtCall == [pc |-> "call", n |-> 0, wnd |-> 0]

RcvInit ==
  /\ rcv_nxt = 1 /\ rcv_wnd = RcvBufSize
  /\ rcv_ofo_buf = {}
  /\ rcv_stream = <<>> /\ rcv_read = 0
  /\ rcv_buf_lock = "free"
  /\ wait_recv = WaitInit
  /\ reader = AtCall
  /\ rx = Idle
  /\ ackCh = <<>>

-----------------------------------------------------------------------------
(* The receive thread: tcp_process in state TCP_ESTABLISHED, for a segment *)
(* with data.  It runs RcvData, OfoAdd, OfoMove as often as it can, and    *)
(* OfoDone, and takes no other packet in between.                          *)

\* A segment that starts before rcv_nxt is answered before the lock is taken.
RcvData(m) ==
  /\ rx.pc = "idle"
  /\ ackCh' = IF m.seq < rcv_nxt THEN SendAck ELSE ackCh
  /\ rx' = [pc |-> "lock", seg |-> m, moved |-> FALSE]
  /\ UNCHANGED <<rcv_nxt, rcv_wnd, rcv_ofo_buf, rcv_stream, rcv_read, rcv_buf_lock,
                 wait_recv, reader>>

\* A segment without data: it is answered if it starts before rcv_nxt, and the rest of
\* its handling concerns the sending half.
RcvEmpty(m) ==
  /\ rx.pc = "idle"
  /\ ackCh' = IF m.seq < rcv_nxt THEN SendAck ELSE ackCh
  /\ UNCHANGED <<rcv_nxt, rcv_wnd, rcv_ofo_buf, rcv_stream, rcv_read, rcv_buf_lock,
                 wait_recv, reader, rx>>

\* mutant: an already received segment is queued like any other
OfoAddStale ==
  /\ rx.pc = "lock" /\ rcv_buf_lock = "free"
  /\ rcv_ofo_buf' = IF \E e \in rcv_ofo_buf : e.seq = rx.seg.seq
                    THEN rcv_ofo_buf ELSE rcv_ofo_buf \cup {rx.seg}
  /\ rcv_buf_lock' = "rx"
  /\ rx' = [rx EXCEPT !.pc = "move"]
  /\ UNCHANGED <<rcv_nxt, rcv_wnd, rcv_stream, rcv_read, wait_recv, reader, ackCh>>

\* pthread_mutex_lock and tcp_recv_ofo_buffer_add_packet.  For a segment that was
\* already received the function gives the lock back, and its caller goes on.
OfoAdd ==
  /\ rx.pc = "lock" /\ rcv_buf_lock = "free"
  /\ \/ /\ SeqEnd(rx.seg) <= rcv_nxt
        /\ UNCHANGED <<rcv_ofo_buf, rcv_buf_lock>>
     \/ /\ SeqEnd(rx.seg) > rcv_nxt
        /\ rcv_buf_lock' = "rx"
        /\ rcv_ofo_buf' = IF \E e \in rcv_ofo_buf : e.seq = rx.seg.seq
                          THEN rcv_ofo_buf ELSE rcv_ofo_buf \cup {rx.seg}
  /\ rx' = [rx EXCEPT !.pc = "move"]
  /\ UNCHANGED <<rcv_nxt, rcv_wnd, rcv_stream, rcv_read, wait_recv, reader, ackCh>>

IsOfoHead(e) == e \in rcv_ofo_buf /\ \A f \in rcv_ofo_buf : e.seq <= f.seq

\* mutant: takes the head of the list whether or not it is the next segment
MovableAnyHead(e) == IsOfoHead(e) /\ Free >= e.len

\* the conditions of the loop in tcp_move_recv_ofo_buffer
Movable(e) == IsOfoHead(e) /\ e.seq = rcv_nxt /\ Free >= e.len

\* one iteration of tcp_move_recv_ofo_buffer
OfoMove ==
  /\ rx.pc = "move"
  /\ \E e \in rcv_ofo_buf :
       /\ Movable(e)
       /\ rcv_stream' = rcv_stream \o Payload(e)
       /\ rcv_nxt' = rcv_nxt + e.len
       /\ rcv_wnd' = Wnd(rcv_wnd - e.len)
       /\ rcv_ofo_buf' = rcv_ofo_buf \ {e}
       /\ rx' = [rx EXCEPT !.moved = TRUE]
  /\ UNCHANGED <<rcv_read, rcv_buf_lock, wait_recv, reader, ackCh>>

\* mutant: the reader is woken only by a segment that arrived in order
OfoDoneWakeInOrder ==
  /\ rx.pc = "move"
  /\ ~ \E e \in rcv_ofo_buf : Movable(e)
  /\ ackCh' = SendAck
  /\ IF rx.moved /\ SeqEnd(rx.seg) = rcv_nxt
     THEN wait_recv' \in WakeUps(wait_recv) ELSE UNCHANGED wait_recv
  /\ rcv_buf_lock' = Unlock(rcv_buf_lock, "rx")
  /\ rx' = Idle
  /\ UNCHANGED <<rcv_nxt, rcv_wnd, rcv_ofo_buf, rcv_stream, rcv_read, reader>>

\* the end of tcp_move_recv_ofo_buffer and the caller's unlock, which the thread also
\* executes when tcp_recv_ofo_buffer_add_packet has already given the lock back
OfoDone ==
  /\ rx.pc = "move"
  /\ ~ \E e \in rcv_ofo_buf : Movable(e)
  /\ ackCh' = SendAck
  /\ IF rx.moved THEN wait_recv' \in WakeUps(wait_recv) ELSE UNCHANGED wait_recv
  /\ rcv_buf_lock' = Unlock(rcv_buf_lock, "rx")
  /\ rx' = Idle
  /\ UNCHANGED <<rcv_nxt, rcv_wnd, rcv_ofo_buf, rcv_stream, rcv_read, reader>>

-----------------------------------------------------------------------------
(* The application thread: tcp_sock_read(tsk, buf, ReadLen), called again  *)
(* and again.                                                              *)

\* lock and look: nothing to read
ReadEmpty ==
  /\ reader.pc = "call" /\ rcv_buf_lock = "free"
  /\ Used = 0
  /\ reader' = [reader EXCEPT !.pc = "sleep"]
  /\ UNCHANGED <<rcv_nxt, rcv_wnd, rcv_ofo_buf, rcv_stream, rcv_read, rcv_buf_lock,
                 wait_recv, rx, ackCh>>

\* sleep_on(tsk->wait_recv), and back to the lock
ReadSleep ==
  /\ reader.pc = "sleep"
  /\ wait_recv' = Sleep(wait_recv, "reader")
  /\ reader' = [reader EXCEPT !.pc = IF SleepReturnsAtOnce(wait_recv) THEN "call" ELSE "blocked"]
  /\ UNCHANGED <<rcv_nxt, rcv_wnd, rcv_ofo_buf, rcv_stream, rcv_read, rcv_buf_lock, rx, ackCh>>

ReadWoken ==
  /\ reader.pc = "blocked" /\ "reader" \notin wait_recv.waiters
  /\ wait_recv' = Resume(wait_recv)
  /\ reader' = [reader EXCEPT !.pc = "call"]
  /\ UNCHANGED <<rcv_nxt, rcv_wnd, rcv_ofo_buf, rcv_stream, rcv_read, rcv_buf_lock, rx, ackCh>>

\* read_ring_buffer, and the load of rcv_wnd += avail
ReadCopy ==
  /\ reader.pc = "call" /\ rcv_buf_lock = "free"
  /\ Used > 0
  /\ LET avail == IF ReadLen < Used THEN ReadLen ELSE Used
     IN /\ rcv_read' = rcv_read + avail
        /\ reader' = [pc |-> "store", n |-> avail, wnd |-> rcv_wnd]
  /\ rcv_buf_lock' = "reader"
  /\ UNCHANGED <<rcv_nxt, rcv_wnd, rcv_ofo_buf, rcv_stream, wait_recv, rx, ackCh>>

\* mutant: tcp_sock_read takes the bytes and does not open the window again
ReadStoreNoWindow ==
  /\ reader.pc = "store"
  /\ rcv_buf_lock' = Unlock(rcv_buf_lock, "reader")
  /\ reader' = AtCall
  /\ UNCHANGED <<rcv_nxt, rcv_wnd, rcv_ofo_buf, rcv_stream, rcv_read, wait_recv, rx, ackCh>>

\* The store of rcv_wnd += avail, and unlock.  When the receive thread has changed
\* rcv_wnd since the load, the two unsynchronised updates may end in either order
\* or one of them may be lost.
ReadStore ==
  /\ reader.pc = "store"
  /\ rcv_wnd' \in {Wnd(reader.wnd + reader.n)} \cup
                  (IF rcv_wnd # reader.wnd THEN {Wnd(rcv_wnd + reader.n), rcv_wnd} ELSE {})
  /\ rcv_buf_lock' = Unlock(rcv_buf_lock, "reader")
  /\ reader' = AtCall
  /\ UNCHANGED <<rcv_nxt, rcv_ofo_buf, rcv_stream, rcv_read, wait_recv, rx, ackCh>>

ReaderStep == ReadEmpty \/ ReadSleep \/ ReadWoken \/ ReadCopy \/ ReadStore

RxStep == OfoAdd \/ OfoMove \/ OfoDone

-----------------------------------------------------------------------------
(* The receiver on its own, facing a peer and a network that may lose,     *)
(* repeat and reorder segments.                                            *)

CONSTANT Segment                    \* the peer's segments, probes included

ASSUME SegmentAssumption ==
  Segment \subseteq [seq : Nat, off : Nat, len : Nat \ {0}]

IsProbe(m) == m.off = 0 /\ m.len = 1

\* A peer's segment carries the bytes its sequence number names, or is a probe below what
\* the receiver has acknowledged.  It may lie outside the window: the peer may know of a
\* larger one, or none.
Conforming(m) == m.off = m.seq \/ (IsProbe(m) /\ SeqEnd(m) <= rcv_nxt)

Arrive == \E m \in Segment : Conforming(m) /\ RcvData(m)

\* an ACK reaches the peer, or is lost
AckLeaves ==
  /\ ackCh # <<>>
  /\ ackCh' = Tail(ackCh)
  /\ UNCHANGED <<rcv_nxt, rcv_wnd, rcv_ofo_buf, rcv_stream, rcv_read, rcv_buf_lock,
                 wait_recv, reader, rx>>

RcvNext == Arrive \/ RxStep \/ ReaderStep \/ AckLeaves

RcvSpec == RcvInit /\ [][RcvNext]_rcvVars

\* Both threads run: whoever can take a step eventually does, and a thread that
\* finds the lock free again and again eventually gets it.
RcvFairness ==
  /\ WF_rcvVars(OfoMove) /\ WF_rcvVars(OfoDone) /\ SF_rcvVars(OfoAdd)
  /\ WF_rcvVars(ReadSleep) /\ WF_rcvVars(ReadWoken) /\ WF_rcvVars(ReadStore)
  /\ SF_rcvVars(ReadEmpty) /\ SF_rcvVars(ReadCopy)

RcvFairSpec == RcvSpec /\ RcvFairness

-----------------------------------------------------------------------------
SegmentType == [seq : Nat, off : Nat, len : Nat]

RcvTypeOK ==
  /\ rcv_nxt \in Nat \ {0}
  /\ rcv_wnd \in 0..RcvBufSize
  /\ rcv_ofo_buf \subseteq SegmentType
  /\ rcv_stream \in Seq(Nat)
  /\ rcv_read \in 0..Len(rcv_stream)
  /\ rcv_buf_lock \in {"free", "reader", "rx"}
  /\ wait_recv \in WaitStructs({"reader"})
  /\ reader \in [pc : {"call", "sleep", "blocked", "store"}, n : Nat, wnd : 0..RcvBufSize]
  /\ rx \in [pc : {"idle", "lock", "move"}, seg : SegmentType, moved : BOOLEAN]
  /\ ackCh \in Seq([ack : Nat, rwnd : 0..RcvBufSize])

\* What reaches the ring buffer is the peer's stream: no byte missing, repeated or
\* out of place, whatever order the segments came in, and rcv_nxt is the next byte
\* (tcp_recv_ofo_buffer_add_packet, tcp_move_recv_ofo_buffer).
RcvStreamIntact ==
  /\ rcv_nxt = Len(rcv_stream) + 1
  /\ \A i \in 1..Len(rcv_stream) : rcv_stream[i] = i

\* The window advertised is the free space of the ring buffer: rcv_wnd is kept up to
\* date by the two threads in two places and under one lock.
WndIsFree ==
  rcv_wnd = Free - (IF reader.pc = "store" THEN reader.n ELSE 0)

\* No segment waits in the out-of-order buffer that could be delivered, unless the
\* receive thread is about to: data in order and in the window is never stranded.
NothingStranded == rx.pc # "move" => ~ \E e \in rcv_ofo_buf : e.seq <= rcv_nxt

\* tcp_sock_read never sleeps on data: if the reader is blocked and bytes are in the
\* ring, a wake-up has been issued or is about to be.
NoLostWakeup ==
  reader.pc = "blocked" /\ Used > 0 =>
    "reader" \notin wait_recv.waiters \/ (rx.pc = "move" /\ rx.moved)

\* rcv_buf_lock keeps the two threads' critical sections apart (tcp_sock.h:150): while
\* the reader is between its load and its store, the receive thread moves nothing.
ReaderUndisturbed ==
  [][reader.pc = "store" => UNCHANGED <<rcv_stream, rcv_nxt>>]_rcvVars

\* Every byte that reaches the ring is eventually read.
EverythingRead == (Used > 0) ~> (Used = 0)
=============================================================================
