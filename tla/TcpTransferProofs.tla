-------------------------- MODULE TcpTransferProofs --------------------------
(***************************************************************************)
(* Proofs about a transfer, for every size of buffer, write and segment,   *)
(* every capacity of the channels, and with and without reordering.  First *)
(* the receiving half alone, against any peer: it delivers the peer's      *)
(* stream and never sleeps on data, whatever kind rcv_buf_lock is: neither *)
(* result depends on the mutex keeping the two threads apart.  Then the    *)
(* two halves: their sequence numbers agree, the sender does not fall      *)
(* asleep with data in flight, and the window is kept.                     *)
(***************************************************************************)
EXTENDS TcpTransfer, ListProofs

-----------------------------------------------------------------------------
(* The receiver's operators.                                               *)

\* sleep_on and wake_up leave a wait structure behind.
LEMMA WaitOpsType ==
  ASSUME NEW T, NEW t \in T, NEW w \in WaitStructs(T)
  PROVE  /\ Sleep(w, t) \in WaitStructs(T)
         /\ Resume(w) \in WaitStructs(T)
         /\ WakeUps(w) \subseteq WaitStructs(T)
<1>1. Sleep(w, t) \in WaitStructs(T)
  BY DEF Sleep, WaitStructs
<1>2. Resume(w) \in WaitStructs(T)
  BY DEF Resume, WaitStructs
<1>3. ASSUME NEW v \in WaitStructs(T) PROVE Signal(v) \subseteq WaitStructs(T)
  BY <1>3 DEF Signal, WaitStructs
<1>4. [w EXCEPT !.notified = TRUE] \in WaitStructs(T)
  BY DEF WaitStructs
<1>5. WakeUps(w) \subseteq WaitStructs(T)
  BY <1>3, <1>4 DEF WakeUps
<1> QED
  BY <1>1, <1>2, <1>5

\* A window is at most RcvBufSize whatever is added to it or taken from it (u16 rcv_wnd).
LEMMA WndType == \A x \in Int : Wnd(x) \in 0..RcvBufSize
BY RcvBufSizeAssumption DEF Wnd

\* A channel that pushes out its oldest packet stays a sequence of packets.
LEMMA SendType ==
  ASSUME NEW S, NEW ch \in Seq(S), NEW m \in S
  PROVE  Send(ch, m) \in Seq(S)
<1>1. CASE Len(ch) < ChanCap
  BY <1>1 DEF Send
<1>2. CASE ~ (Len(ch) < ChanCap)
  <2>1. ch # <<>>
    BY <1>2, ChanCapAssumption
  <2> QED
    BY <1>2, <2>1 DEF Send
<1> QED
  BY <1>1, <1>2

\* The acknowledgements the receiver sends have the type of its channel.
LEMMA SendAckType ==
  RcvTypeOK => SendAck \in Seq([ack : Nat, rwnd : 0..RcvBufSize])
BY SendType DEF SendAck, RcvTypeOK

\* The payload of a segment is as many numbers as the segment is long.
LEMMA PayloadType ==
  ASSUME NEW m \in SegmentType
  PROVE  /\ Payload(m) \in Seq(Nat) /\ Len(Payload(m)) = m.len
         /\ \A k \in 1..m.len : Payload(m)[k] = m.off + k - 1
BY DEF Payload, SegmentType

\* What is appended to the ring buffer makes it longer by as much (write_ring_buffer).
LEMMA ConcatType ==
  ASSUME NEW a \in Seq(Nat), NEW b \in Seq(Nat)
  PROVE  a \o b \in Seq(Nat) /\ Len(a \o b) = Len(a) + Len(b)
OBVIOUS

-----------------------------------------------------------------------------
(* Types.                                                                  *)

\* tcp_process up to the lock keeps the types, for any segment.
LEMMA RcvDataType ==
  ASSUME RcvTypeOK, NEW m \in SegmentType, RcvData(m) \/ RcvEmpty(m)
  PROVE  RcvTypeOK'
<1>1. ackCh' \in Seq([ack : Nat, rwnd : 0..RcvBufSize])
  BY SendAckType DEF RcvData, RcvEmpty, RcvTypeOK
<1>2. CASE RcvData(m)
  BY <1>1, <1>2 DEF RcvData, RcvTypeOK
<1>3. CASE RcvEmpty(m)
  BY <1>1, <1>3 DEF RcvEmpty, RcvTypeOK
<1> QED
  BY <1>2, <1>3

\* An iteration of tcp_move_recv_ofo_buffer keeps the types.
LEMMA OfoMoveType ==
  ASSUME RcvTypeOK, OfoMove PROVE RcvTypeOK'
<1> USE DEF RcvTypeOK
<1>1. PICK e \in rcv_ofo_buf :
        /\ rcv_stream' = rcv_stream \o Payload(e)
        /\ rcv_nxt' = rcv_nxt + e.len
        /\ rcv_wnd' = Wnd(rcv_wnd - e.len)
        /\ rcv_ofo_buf' = rcv_ofo_buf \ {e}
        /\ rx' = [rx EXCEPT !.moved = TRUE]
  BY DEF OfoMove
<1>2. e \in SegmentType /\ e.len \in Nat /\ Len(rcv_stream) \in Nat
  BY DEF SegmentType
<1>3. Payload(e) \in Seq(Nat) /\ Len(Payload(e)) = e.len
  BY <1>2, PayloadType
<1>4. rcv_stream' \in Seq(Nat) /\ Len(rcv_stream') = Len(rcv_stream) + e.len
  BY <1>1, <1>3, ConcatType
<1>5. rcv_wnd' \in 0..RcvBufSize
  BY <1>1, <1>2, WndType, RcvBufSizeAssumption
<1>6. rcv_read' = rcv_read /\ rcv_nxt' \in Nat \ {0}
  BY <1>1, <1>2 DEF OfoMove
<1>7. rcv_read' \in 0..Len(rcv_stream')
  BY <1>2, <1>4, <1>6
<1>8. rx' \in [pc : {"idle", "lock", "move"}, seg : SegmentType, moved : BOOLEAN]
  BY <1>1
<1> QED
  BY <1>1, <1>4, <1>5, <1>6, <1>7, <1>8 DEF OfoMove

\* The receive thread keeps the types.
LEMMA RxType ==
  ASSUME RcvTypeOK, RxStep PROVE RcvTypeOK'
<1> USE DEF RcvTypeOK
<1>1. CASE OfoAdd
  BY <1>1 DEF OfoAdd
<1>2. CASE OfoDone
  <2>1. ackCh' \in Seq([ack : Nat, rwnd : 0..RcvBufSize])
    BY <1>2, SendAckType DEF OfoDone
  <2>2. wait_recv' \in WaitStructs({"reader"})
    <3>1. wait_recv' \in WakeUps(wait_recv) \/ wait_recv' = wait_recv
      BY <1>2 DEF OfoDone
    <3> QED
      BY <3>1, WaitOpsType
  <2>3. rcv_buf_lock' \in {"free", "reader", "rx"}
    BY <1>2 DEF OfoDone, Unlock
  <2>4. rx' \in [pc : {"idle", "lock", "move"}, seg : SegmentType, moved : BOOLEAN]
    BY <1>2 DEF OfoDone, Idle, SegmentType
  <2> QED
    BY <1>2, <2>1, <2>2, <2>3, <2>4 DEF OfoDone
<1> HIDE DEF RcvTypeOK
<1> QED
  BY <1>1, <1>2, OfoMoveType DEF RxStep

\* tcp_sock_read keeps the types: it never takes more than the ring holds.
LEMMA ReaderType ==
  ASSUME RcvTypeOK, ReaderStep PROVE RcvTypeOK'
<1> USE DEF RcvTypeOK
<1>1. CASE ReadEmpty
  BY <1>1 DEF ReadEmpty
<1>2. CASE ReadSleep
  <2>1. wait_recv' \in WaitStructs({"reader"})
    BY <1>2, WaitOpsType DEF ReadSleep
  <2>2. reader' \in [pc : {"call", "sleep", "blocked", "store"}, n : Nat, wnd : 0..RcvBufSize]
    BY <1>2 DEF ReadSleep
  <2> QED
    BY <1>2, <2>1, <2>2 DEF ReadSleep
<1>3. CASE ReadWoken
  <2>1. wait_recv' \in WaitStructs({"reader"})
    BY <1>3, WaitOpsType DEF ReadWoken
  <2> QED
    BY <1>3, <2>1 DEF ReadWoken
<1>4. CASE ReadCopy
  <2> DEFINE avail == IF ReadLen < Used THEN ReadLen ELSE Used
  <2>1. /\ Used \in Nat /\ avail \in Nat /\ avail <= Used
    BY <1>4, ReadLenAssumption DEF ReadCopy, Used
  <2>2. rcv_read' = rcv_read + avail /\ reader' = [pc |-> "store", n |-> avail, wnd |-> rcv_wnd]
    BY <1>4 DEF ReadCopy
  <2>3. rcv_read + avail \in 0..Len(rcv_stream)
    BY <2>1 DEF Used
  <2> HIDE DEF avail
  <2> QED
    BY <1>4, <2>1, <2>2, <2>3 DEF ReadCopy
<1>5. CASE ReadStore
  <2>1. rcv_wnd' \in 0..RcvBufSize
    <3>1. reader.wnd + reader.n \in Int /\ rcv_wnd + reader.n \in Int
      BY RcvBufSizeAssumption
    <3>2. Wnd(reader.wnd + reader.n) \in 0..RcvBufSize /\ Wnd(rcv_wnd + reader.n) \in 0..RcvBufSize
      BY <3>1, WndType
    <3> QED
      BY <1>5, <3>2 DEF ReadStore
  <2>2. rcv_buf_lock' \in {"free", "reader", "rx"}
    BY <1>5 DEF ReadStore, Unlock
  <2>3. reader' \in [pc : {"call", "sleep", "blocked", "store"}, n : Nat, wnd : 0..RcvBufSize]
    BY <1>5, RcvBufSizeAssumption DEF ReadStore, AtCall
  <2> QED
    BY <1>5, <2>1, <2>2, <2>3 DEF ReadStore
<1> QED
  BY <1>1, <1>2, <1>3, <1>4, <1>5 DEF ReaderStep

-----------------------------------------------------------------------------
(* The stream.  A segment is queued only if its bytes are the ones its     *)
(* sequence number names: a probe never is, because it lies below rcv_nxt, *)
(* and rcv_nxt stands still between the arrival of a segment and OfoAdd.   *)

OfoTrue == \A e \in rcv_ofo_buf : e.off = e.seq

RxTrue == rx.pc = "lock" => rx.seg.off = rx.seg.seq \/ SeqEnd(rx.seg) <= rcv_nxt

StreamInv == RcvTypeOK /\ RcvStreamIntact /\ OfoTrue /\ RxTrue

\* A new connection satisfies the invariant.
LEMMA StreamInvInit == RcvInit => StreamInv
BY RcvBufSizeAssumption
DEF RcvInit, StreamInv, RcvTypeOK, RcvStreamIntact, OfoTrue, RxTrue, WaitInit, WaitStructs,
    AtCall, Idle, SegmentType

\* An arriving segment (tcp_process up to the lock) preserves it.
LEMMA ArriveStep == StreamInv /\ Arrive => StreamInv'
<1> SUFFICES ASSUME StreamInv, NEW m \in Segment, Conforming(m), RcvData(m) PROVE StreamInv'
  BY DEF Arrive
<1> USE DEF StreamInv, RcvStreamIntact, OfoTrue, RxTrue
<1>1. m \in SegmentType
  BY SegmentAssumption DEF SegmentType
<1>2. RcvTypeOK'
  BY <1>1, RcvDataType
<1>3. m.off = m.seq \/ SeqEnd(m) <= rcv_nxt
  BY DEF Conforming
<1>4. rx' = [pc |-> "lock", seg |-> m, moved |-> FALSE]
  BY DEF RcvData
<1> QED
  BY <1>2, <1>3, <1>4 DEF RcvData, SeqEnd

\* What is moved is the next stretch of the stream, if the queue holds true segments.
LEMMA MovedIsNext ==
  ASSUME RcvTypeOK, RcvStreamIntact, OfoTrue, OfoMove PROVE RcvStreamIntact'
<1>1. PICK e \in rcv_ofo_buf :
        /\ e.seq = rcv_nxt
        /\ rcv_stream' = rcv_stream \o Payload(e)
        /\ rcv_nxt' = rcv_nxt + e.len
  BY DEF OfoMove, Movable
<1>2. /\ e \in SegmentType /\ e.off = rcv_nxt /\ e.len \in Nat
      /\ rcv_nxt = Len(rcv_stream) + 1 /\ rcv_stream \in Seq(Nat) /\ Len(rcv_stream) \in Nat
  BY <1>1 DEF RcvTypeOK, RcvStreamIntact, OfoTrue, SegmentType
<1>3. /\ Payload(e) \in Seq(Nat) /\ Len(Payload(e)) = e.len
      /\ \A k \in 1..e.len : Payload(e)[k] = Len(rcv_stream) + k
  BY <1>2, PayloadType
<1>4. rcv_stream' \in Seq(Nat) /\ Len(rcv_stream') = Len(rcv_stream) + e.len
  BY <1>1, <1>2, <1>3, ConcatType
<1>5. \A i \in 1..Len(rcv_stream') : rcv_stream'[i] = i
  <2> SUFFICES ASSUME NEW i \in 1..Len(rcv_stream') PROVE rcv_stream'[i] = i
    OBVIOUS
  <2>1. CASE i <= Len(rcv_stream)
    BY <1>1, <1>2, <1>3, <1>4, <2>1 DEF RcvStreamIntact
  <2>2. CASE i > Len(rcv_stream)
    <3>1. i - Len(rcv_stream) \in 1..e.len
      BY <1>2, <1>4, <2>2
    <3>2. rcv_stream'[i] = Payload(e)[i - Len(rcv_stream)]
      BY <1>1, <1>2, <1>3, <1>4, <2>2
    <3> QED
      BY <1>2, <1>3, <3>1, <3>2
  <2> QED
    BY <1>2, <2>1, <2>2
<1>6. rcv_nxt' = Len(rcv_stream') + 1
  <2> DEFINE n == Len(rcv_stream)
             m == Len(rcv_stream')
  <2>1. m = n + e.len /\ rcv_nxt' = (n + 1) + e.len /\ n \in Nat
    BY <1>1, <1>2, <1>4
  <2> HIDE DEF n, m
  <2>2. rcv_nxt' = m + 1
    BY <1>2, <2>1
  <2> QED
    BY <2>2 DEF m
<1> QED
  BY <1>5, <1>6 DEF RcvStreamIntact

\* The receive thread preserves the invariant (tcp_recv_ofo_buffer_add_packet,
\* tcp_move_recv_ofo_buffer).
LEMMA RxStreamStep == StreamInv /\ RxStep => StreamInv'
<1> SUFFICES ASSUME StreamInv, RxStep PROVE StreamInv'
  OBVIOUS
<1>1. RcvTypeOK'
  BY RxType DEF StreamInv
<1>2. CASE OfoAdd
  <2> USE DEF StreamInv, RcvStreamIntact, OfoTrue, RxTrue
  <2>1. SeqEnd(rx.seg) \in Nat
    BY DEF SeqEnd, SegmentType, RcvTypeOK
  <2>2. \A e \in rcv_ofo_buf' : e.off = e.seq
    BY <1>2, <2>1 DEF OfoAdd, RcvTypeOK
  <2>3. rx'.pc = "move"
    BY <1>2 DEF OfoAdd, RcvTypeOK
  <2> QED
    BY <1>1, <1>2, <2>2, <2>3 DEF OfoAdd
<1>3. CASE OfoMove
  <2>1. rx'.pc = "move"
    BY <1>3 DEF OfoMove, StreamInv, RcvTypeOK
  <2>2. OfoTrue'
    BY <1>3 DEF OfoMove, StreamInv, OfoTrue
  <2> QED
    BY <1>1, <1>3, <2>1, <2>2, MovedIsNext DEF StreamInv, RxTrue
<1>4. CASE OfoDone
  BY <1>1, <1>4 DEF OfoDone, Idle, StreamInv, RcvStreamIntact, OfoTrue, RxTrue
<1> QED
  BY <1>2, <1>3, <1>4 DEF RxStep

\* tcp_sock_read preserves it.
LEMMA ReaderStreamStep == StreamInv /\ ReaderStep => StreamInv'
<1> SUFFICES ASSUME StreamInv, ReaderStep PROVE StreamInv'
  OBVIOUS
<1>1. RcvTypeOK'
  BY ReaderType DEF StreamInv
<1>2. UNCHANGED <<rcv_nxt, rcv_stream, rcv_ofo_buf, rx>>
  BY DEF ReaderStep, ReadEmpty, ReadSleep, ReadWoken, ReadCopy, ReadStore
<1> QED
  BY <1>1, <1>2 DEF StreamInv, RcvStreamIntact, OfoTrue, RxTrue

\* Every step of the receiver preserves it.
LEMMA StreamInvStep == StreamInv /\ [RcvNext]_rcvVars => StreamInv'
<1> SUFFICES ASSUME StreamInv, [RcvNext]_rcvVars PROVE StreamInv'
  OBVIOUS
<1>1. CASE AckLeaves
  <2>1. ackCh' \in Seq([ack : Nat, rwnd : 0..RcvBufSize])
    BY <1>1 DEF AckLeaves, StreamInv, RcvTypeOK
  <2> QED
    BY <1>1, <2>1 DEF AckLeaves, StreamInv, RcvTypeOK, RcvStreamIntact, OfoTrue, RxTrue
<1>2. CASE UNCHANGED rcvVars
  BY <1>2 DEF rcvVars, StreamInv, RcvTypeOK, RcvStreamIntact, OfoTrue, RxTrue
<1> QED
  BY <1>1, <1>2, ArriveStep, RxStreamStep, ReaderStreamStep DEF RcvNext

\* The state of the receiving half keeps its types; in particular tcp_sock_read never takes
\* more bytes than the ring holds, and the advertised window never exceeds its size.
THEOREM ReceiverTypeOK == RcvSpec => []RcvTypeOK
<1>1. StreamInv => RcvTypeOK
  BY DEF StreamInv
<1> QED
  BY StreamInvInit, StreamInvStep, <1>1, PTL DEF RcvSpec

\* The ring buffer receives the peer's stream, whatever is lost, repeated and reordered and
\* however the two threads interleave (tcp_process, tcp_move_recv_ofo_buffer).
THEOREM ReceiverStreamIntact == RcvSpec => []RcvStreamIntact
<1>1. StreamInv => RcvStreamIntact
  BY DEF StreamInv
<1> QED
  BY StreamInvInit, StreamInvStep, <1>1, PTL DEF RcvSpec

-----------------------------------------------------------------------------
(* The wake-ups.  The reader decides to sleep when the ring is empty and   *)
(* falls asleep later; bytes that arrive in between have left a            *)
(* notification, or the receive thread is still on its way to wake_up.     *)

WakeComing == rx.pc = "move" /\ rx.moved

FallingAsleep == reader.pc = "sleep" /\ Used > 0 => wait_recv.notified \/ WakeComing

Sleeper ==
  "reader" \in wait_recv.waiters =>
    reader.pc = "blocked" /\ wait_recv.sleep /\ ~ wait_recv.notified

WakeInv == ~ wait_recv.dead /\ FallingAsleep /\ Sleeper /\ NoLostWakeup

\* A new connection satisfies the invariant.
LEMMA WakeInvInit == RcvInit => WakeInv
BY DEF RcvInit, WakeInv, FallingAsleep, Sleeper, NoLostWakeup, WaitInit, AtCall

\* What wake_up does to a live wait structure with at most one sleeper.
LEMMA WakeUpWakes ==
  ASSUME NEW t, NEW w \in WaitStructs({t}), NEW v \in WakeUps(w), ~ w.dead,
         t \in w.waiters => w.sleep /\ ~ w.notified
  PROVE  ~ v.dead /\ v.notified /\ t \notin v.waiters
<1>1. CASE w.notified
  BY <1>1 DEF WakeUps
<1>2. CASE ~ w.notified /\ ~ w.sleep
  BY <1>2 DEF WakeUps, WaitStructs
<1>3. CASE ~ w.notified /\ w.sleep
  <2> DEFINE u == [w EXCEPT !.notified = TRUE]
  <2>1. v \in Signal(u)
    BY <1>3 DEF WakeUps
  <2>2. u \in WaitStructs({t}) /\ u.notified /\ ~ u.dead
    BY DEF WaitStructs
  <2> HIDE DEF u
  <2>3. PICK W : v = [u EXCEPT !.waiters = W] /\ t \notin W
    BY <2>1, <2>2 DEF Signal, WaitStructs
  <2> QED
    BY <2>2, <2>3 DEF WaitStructs
<1> QED
  BY <1>1, <1>2, <1>3

\* The receive thread preserves it: bytes appear with rx.moved raised, and rx.moved is
\* lowered only by the step that calls wake_up.
LEMMA RxWakeStep ==
  ASSUME RcvTypeOK, WakeInv, RxStep \/ Arrive PROVE WakeInv'
<1> USE DEF WakeInv, FallingAsleep, Sleeper, NoLostWakeup, WakeComing
<1>1. CASE Arrive
  <2>1. PICK m : RcvData(m)
    BY <1>1 DEF Arrive
  <2> QED
    BY <2>1 DEF RcvData, Used
<1>2. CASE OfoAdd
  BY <1>2 DEF OfoAdd, Used
<1>3. CASE OfoMove
  <2>1. rx'.pc = "move" /\ rx'.moved /\ UNCHANGED <<reader, wait_recv>>
    BY <1>3 DEF OfoMove, RcvTypeOK
  <2> QED
    BY <2>1
<1>4. CASE OfoDone
  <2>1. UNCHANGED <<reader, rcv_stream, rcv_read>>
    BY <1>4 DEF OfoDone
  <2>2. CASE rx.moved
    <3>1. ~ wait_recv'.dead /\ wait_recv'.notified /\ "reader" \notin wait_recv'.waiters
      BY <1>4, <2>2, WakeUpWakes DEF OfoDone, RcvTypeOK
    <3> QED
      BY <2>1, <3>1
  <2>3. CASE ~ rx.moved
    BY <1>4, <2>1, <2>3 DEF OfoDone, Used
  <2> QED
    BY <2>2, <2>3
<1> HIDE DEF WakeInv
<1> QED
  BY <1>1, <1>2, <1>3, <1>4 DEF RxStep

\* tcp_sock_read preserves it.
LEMMA ReaderWakeStep ==
  ASSUME RcvTypeOK, WakeInv, ReaderStep PROVE WakeInv'
<1> USE DEF WakeInv, FallingAsleep, Sleeper, NoLostWakeup, WakeComing
<1>1. CASE ReadEmpty
  <2>1. reader'.pc = "sleep" /\ reader.pc = "call" /\ Used' = 0
        /\ UNCHANGED wait_recv
    BY <1>1 DEF ReadEmpty, Used, RcvTypeOK
  <2> QED
    BY <2>1
<1>2. CASE ReadSleep
  <2>1. reader.pc = "sleep" /\ Used' = Used /\ UNCHANGED rx
    BY <1>2 DEF ReadSleep, Used
  <2>2. CASE wait_recv.notified
    <3>1. /\ reader'.pc = "call"
          /\ wait_recv' = [wait_recv EXCEPT !.notified = FALSE, !.sleep = FALSE]
      BY <1>2, <2>2 DEF ReadSleep, Sleep, SleepReturnsAtOnce, RcvTypeOK
    <3> QED
      BY <2>1, <3>1 DEF RcvTypeOK, WaitStructs
  <2>3. CASE ~ wait_recv.notified
    <3>1. /\ reader'.pc = "blocked"
          /\ wait_recv' = [wait_recv EXCEPT !.sleep = TRUE, !.waiters = wait_recv.waiters \cup {"reader"}]
      BY <1>2, <2>3 DEF ReadSleep, Sleep, SleepReturnsAtOnce, RcvTypeOK
    <3> QED
      BY <2>1, <2>3, <3>1 DEF RcvTypeOK, WaitStructs
  <2> QED
    BY <2>2, <2>3
<1>3. CASE ReadWoken
  <2>1. /\ reader'.pc = "call" /\ "reader" \notin wait_recv.waiters
        /\ wait_recv' = [wait_recv EXCEPT !.notified = FALSE, !.sleep = FALSE]
    BY <1>3 DEF ReadWoken, Resume, RcvTypeOK
  <2> QED
    BY <2>1 DEF RcvTypeOK, WaitStructs
<1>4. CASE ReadCopy
  <2>1. reader.pc = "call" /\ reader'.pc = "store" /\ UNCHANGED wait_recv
    BY <1>4 DEF ReadCopy
  <2> QED
    BY <2>1
<1>5. CASE ReadStore
  <2>1. reader.pc = "store" /\ reader'.pc = "call" /\ UNCHANGED wait_recv
    BY <1>5 DEF ReadStore, AtCall
  <2> QED
    BY <2>1
<1> HIDE DEF WakeInv
<1> QED
  BY <1>1, <1>2, <1>3, <1>4, <1>5 DEF ReaderStep

\* Every step of the receiver preserves it.
LEMMA WakeInvStep == RcvTypeOK /\ WakeInv /\ [RcvNext]_rcvVars => WakeInv'
<1> SUFFICES ASSUME RcvTypeOK, WakeInv, [RcvNext]_rcvVars PROVE WakeInv'
  OBVIOUS
<1>1. CASE AckLeaves
  BY <1>1 DEF AckLeaves, WakeInv, FallingAsleep, Sleeper, NoLostWakeup, WakeComing, Used
<1>2. CASE UNCHANGED rcvVars
  BY <1>2 DEF rcvVars, WakeInv, FallingAsleep, Sleeper, NoLostWakeup, WakeComing, Used
<1> QED
  BY <1>1, <1>2, RxWakeStep, ReaderWakeStep DEF RcvNext

\* tcp_sock_read never sleeps on data without a wake-up issued or on its way, although it
\* tests the ring and goes to sleep in two steps with the lock released in between.
THEOREM ReaderNeverStranded == RcvSpec => []NoLostWakeup
<1>1. WakeInv => NoLostWakeup
  BY DEF WakeInv
<1> QED
  BY ReceiverTypeOK, WakeInvInit, WakeInvStep, <1>1, PTL DEF RcvSpec

-----------------------------------------------------------------------------
(* Channels, the send buffer and the sender's operators.                   *)

\* What a channel or a buffer holds.
Elems(s) == {s[i] : i \in 1..Len(s)}

\* A channel that is sent to holds nothing but what it held and the packet sent.
LEMMA SendDataElems ==
  ASSUME NEW S, NEW ch \in Seq(S), NEW m \in S
  PROVE  SendData(ch, m) \in Seq(S) /\ Elems(SendData(ch, m)) \subseteq Elems(ch) \cup {m}
<1>1. CASE Len(ch) < SndChanCap
  BY <1>1 DEF SendData, Elems
<1>2. CASE ~ (Len(ch) < SndChanCap)
  <2>1. ch # <<>>
    BY <1>2, SndChanCapAssumption
  <2> DEFINE t == Tail(ch)
  <2>2. t \in Seq(S) /\ Len(t) = Len(ch) - 1 /\ \A i \in 1..Len(t) : t[i] = ch[i + 1]
    BY <2>1
  <2>3. Elems(t) \subseteq Elems(ch)
    BY <2>2 DEF Elems
  <2> HIDE DEF t
  <2>4. Append(t, m) \in Seq(S) /\ Elems(Append(t, m)) \subseteq Elems(t) \cup {m}
    BY <2>2 DEF Elems
  <2> QED
    BY <1>2, <2>3, <2>4 DEF SendData, t
<1> QED
  BY <1>1, <1>2

\* The same of the ACKs' channel.
LEMMA SendElems ==
  ASSUME NEW S, NEW ch \in Seq(S), NEW m \in S
  PROVE  Elems(Send(ch, m)) \subseteq Elems(ch) \cup {m}
<1>1. CASE Len(ch) < ChanCap
  BY <1>1 DEF Send, Elems
<1>2. CASE ~ (Len(ch) < ChanCap)
  <2>1. ch # <<>>
    BY <1>2, ChanCapAssumption
  <2> DEFINE t == Tail(ch)
  <2>2. t \in Seq(S) /\ Len(t) = Len(ch) - 1 /\ \A i \in 1..Len(t) : t[i] = ch[i + 1]
    BY <2>1
  <2>3. Elems(t) \subseteq Elems(ch)
    BY <2>2 DEF Elems
  <2> HIDE DEF t
  <2>4. Elems(Append(t, m)) \subseteq Elems(t) \cup {m}
    BY <2>2 DEF Elems
  <2> QED
    BY <1>2, <2>3, <2>4 DEF Send, t
<1> QED
  BY <1>1, <1>2

\* The network takes a packet out and leaves the others.
LEMMA WithoutElems ==
  ASSUME NEW S, NEW ch \in Seq(S), NEW i \in Deliverable(ch)
  PROVE  /\ i \in 1..Len(ch) /\ ch[i] \in S /\ ch[i] \in Elems(ch)
         /\ Without(ch, i) \in Seq(S) /\ Elems(Without(ch, i)) \subseteq Elems(ch)
<1>1. i \in 1..Len(ch)
  BY DEF Deliverable, Lesser
<1> DEFINE a == SubSeq(ch, 1, i - 1)
           b == SubSeq(ch, i + 1, Len(ch))
<1>2. a \in Seq(S) /\ Len(a) = i - 1 /\ \A k \in 1..Len(a) : a[k] = ch[k]
  BY <1>1
<1>3. b \in Seq(S) /\ Len(b) = Len(ch) - i /\ \A k \in 1..Len(b) : b[k] = ch[i + k]
  BY <1>1
<1>4. Elems(a) \subseteq Elems(ch)
  BY <1>1, <1>2 DEF Elems
<1>5. Elems(b) \subseteq Elems(ch)
  BY <1>1, <1>3 DEF Elems
<1> HIDE DEF a, b
<1>6. a \o b \in Seq(S) /\ Elems(a \o b) \subseteq Elems(a) \cup Elems(b)
  <2> DEFINE w == a \o b
  <2>0. a \in Seq(S) /\ b \in Seq(S)
    BY <1>2, <1>3
  <2>1. w \in Seq(S) /\ Len(w) = Len(a) + Len(b) /\ Len(a) \in Nat /\ Len(b) \in Nat
    BY <1>2, <1>3
  <2>2. \A k \in 1..Len(w) : w[k] = IF k <= Len(a) THEN a[k] ELSE b[k - Len(a)]
    BY <2>0, <2>1
  <2> HIDE DEF w
  <2>3. ASSUME NEW x \in Elems(w) PROVE x \in Elems(a) \cup Elems(b)
    <3>1. PICK k \in 1..Len(w) : x = w[k]
      BY DEF Elems
    <3>2. k <= Len(a) => k \in 1..Len(a)
      BY <2>1
    <3>3. ~(k <= Len(a)) => k - Len(a) \in 1..Len(b)
      BY <2>1
    <3> QED
      BY <2>2, <3>1, <3>2, <3>3 DEF Elems
  <2> QED
    BY <2>1, <2>3 DEF w
<1>7. ch[i] \in S /\ ch[i] \in Elems(ch)
  BY <1>1 DEF Elems
<1>8. Without(ch, i) = a \o b
  BY DEF Without, a, b
<1> QED
  BY <1>1, <1>4, <1>5, <1>6, <1>7, <1>8

Entries == [seq : Nat, off : Nat, len : Nat]

\* tcp_update_send_buffer removes entries from the head of the list, and only entries that
\* start before ack.
LEMMA SendBufAfterElems ==
  ASSUME send_buf \in Seq(Entries), NEW ack \in Nat
  PROVE  \E n \in 0..Len(send_buf) :
           /\ SendBufAfter(ack) = SubSeq(send_buf, n + 1, Len(send_buf))
           /\ SendBufAfter(ack) \in Seq(Entries)
           /\ Elems(SendBufAfter(ack)) \subseteq Elems(send_buf)
           /\ \A i \in 1..n : send_buf[i].seq < ack
<1> DEFINE P(k) == /\ \A i \in 1..k : send_buf[i].seq < ack
                   /\ k < Len(send_buf) => send_buf[k + 1].seq >= ack
           T == {k \in 1..Len(send_buf) : send_buf[k].seq >= ack}
           n == CHOOSE k \in 0..Len(send_buf) : P(k)
<1>0. Len(send_buf) \in Nat /\ \A k \in 1..Len(send_buf) : send_buf[k].seq \in Nat
  <2>1. \A k \in 1..Len(send_buf) : send_buf[k] \in Entries
    OBVIOUS
  <2> QED
    BY <2>1 DEF Entries
<1>1. \E k \in 0..Len(send_buf) : P(k)
  <2>1. CASE T = {}
    <3>1. P(Len(send_buf))
      BY <1>0, <2>1
    <3> QED
      BY <1>0, <3>1
  <2>2. CASE T # {}
    <3>0. T \subseteq Nat
      BY <1>0
    <3>1. PICK k \in T : \A j \in T : k <= j
      <4> HIDE DEF T
      <4> QED
        BY <2>2, <3>0, Least
    <3>2. P(k - 1) /\ k - 1 \in 0..Len(send_buf)
      BY <1>0, <3>1
    <3> QED
      BY <3>2
  <2> QED
    BY <2>1, <2>2
<1>2. n \in 0..Len(send_buf) /\ P(n)
  BY <1>1
<1>3. SendBufAfter(ack) = SubSeq(send_buf, n + 1, Len(send_buf))
  BY DEF SendBufAfter
<1> HIDE DEF n
<1> DEFINE b == SubSeq(send_buf, n + 1, Len(send_buf))
<1>4. b \in Seq(Entries) /\ Len(b) = Len(send_buf) - n /\ \A k \in 1..Len(b) : b[k] = send_buf[n + k]
  BY <1>0, <1>2
<1>5. Elems(b) \subseteq Elems(send_buf)
  BY <1>0, <1>2, <1>4 DEF Elems
<1> QED
  BY <1>2, <1>3, <1>4, <1>5

-----------------------------------------------------------------------------
(* Types.  Two things are not obvious: congestion avoidance divides by the *)
(* congestion window, and the length of a packet is the difference between *)
(* what there is to send and what was sent.                                *)

CwndPositive == cc.cc_state = "CONGESTION_AVOIDANCE" => cc.cwnd > 0

NotOverSent == writer.sent <= writer.len

SndInv == SndTypeOK /\ CwndPositive /\ NotOverSent

CcType == [cc_state : CcStates, cwnd : Nat, ssthresh : Nat, dup : 0..2, recovery_point : Nat]

\* tcp_congestion_control keeps the types of what it works on, and cwnd positive where the
\* next ACK will divide by it.
LEMMA CcStep ==
  ASSUME SndInv, NEW ack \in Nat
  PROVE  LET c == CcAfter(CcOnAck(cc, ack))
         IN  c \in CcType /\ (c.cc_state = "CONGESTION_AVOIDANCE" => c.cwnd > 0)
<1> DEFINE CcMid == [cc_state : CcStates, cwnd : Nat, ssthresh : Nat, dup : 0..3, recovery_point : Nat]
           d == CcOnAck(cc, ack)
<1> USE MSSAssumption, CwndCapAssumption DEF CcType, CcStates
<1>0. cc \in CcType /\ snd_una \in Nat /\ snd_nxt \in Nat
  BY DEF SndInv, SndTypeOK
<1>1. \A x \in Int : x \in Nat => Lesser(x, CwndCap) \in Nat /\ (x > 0 => Lesser(x, CwndCap) > 0)
  BY DEF Lesser
<1>c. ASSUME NEW c \in CcMid, NEW x \in Nat
      PROVE  /\ [c EXCEPT !.cwnd = x] \in CcMid
             /\ [c EXCEPT !.dup = 0] \in CcMid
             /\ [c EXCEPT !.recovery_point = 0] \in CcMid
             /\ [c EXCEPT !.cc_state = "SLOW_START"] \in CcMid
  OBVIOUS
<1> DEFINE grown == Lesser(cc.cwnd + MSS, CwndCap)
<1>a. grown \in Nat
  BY <1>0, <1>1
<1>b. CcType \subseteq CcMid
  OBVIOUS
<1>d. cc.ssthresh \in Nat
  BY <1>0
<1> HIDE DEF grown
<1>2. d \in CcMid /\ (d.cc_state = "CONGESTION_AVOIDANCE" => d.cwnd > 0)
  <2>1. CASE cc.cc_state = "FAST_RECOVER"
    <3>1. CASE ack >= cc.recovery_point
      <4>1. d = [cc EXCEPT !.cc_state = "SLOW_START", !.cwnd = cc.ssthresh, !.recovery_point = 0]
        BY <2>1, <3>1 DEF CcOnAck
      <4> HIDE DEF d
      <4>2. d \in CcMid
        <5> HIDE DEF CcMid
        <5> QED
          BY <1>0, <1>b, <1>c, <1>d, <4>1
      <4> QED
        BY <1>0, <4>1, <4>2
    <3>2. CASE ~ (ack >= cc.recovery_point)
      <4>1. d = [cc EXCEPT !.cwnd = grown]
        BY <2>1, <3>2 DEF CcOnAck, grown
      <4> HIDE DEF d
      <4> QED
        BY <1>0, <1>a, <2>1, <4>1
    <3> QED
      BY <3>1, <3>2
  <2>2. CASE cc.cc_state = "SLOW_START"
    <3> DEFINE e == IF ack < snd_una THEN [cc EXCEPT !.dup = @ + 1]
                    ELSE [cc EXCEPT !.cwnd = grown, !.dup = 0]
    <3>1. e \in CcMid /\ e.cc_state = "SLOW_START"
      <4>1. [cc EXCEPT !.dup = @ + 1] \in CcMid /\ [cc EXCEPT !.dup = @ + 1].cc_state = "SLOW_START"
        BY <1>0, <2>2
      <4>2. /\ [cc EXCEPT !.cwnd = grown, !.dup = 0] \in CcMid
            /\ [cc EXCEPT !.cwnd = grown, !.dup = 0].cc_state = "SLOW_START"
        <5>1. [cc EXCEPT !.cwnd = grown, !.dup = 0] \in CcMid
          <6> HIDE DEF CcMid
          <6> QED
            BY <1>0, <1>a, <1>b, <1>c
        <5> QED
          BY <1>0, <2>2, <5>1
      <4> QED
        BY <4>1, <4>2
    <3>2. d = IF e.cwnd > e.ssthresh THEN [e EXCEPT !.cc_state = "CONGESTION_AVOIDANCE"] ELSE e
      BY <2>2 DEF CcOnAck, grown
    <3> HIDE DEF e, d
    <3> QED
      BY <3>1, <3>2
  <2>3. CASE cc.cc_state = "CONGESTION_AVOIDANCE"
    <3>1. cc.cwnd \in Nat /\ cc.cwnd > 0
      BY <1>0, <2>3 DEF SndInv, CwndPositive
    <3>2. (MSS * MSS) \div cc.cwnd \in Nat
      <4>1. MSS * MSS \in Nat
        OBVIOUS
      <4> QED
        BY <3>1, <4>1
    <3>3. d = IF ack > snd_una
              THEN [cc EXCEPT !.cwnd = Lesser(cc.cwnd + (MSS * MSS) \div cc.cwnd, CwndCap), !.dup = 0]
              ELSE [cc EXCEPT !.dup = @ + 1]
      BY <2>3 DEF CcOnAck
    <3> DEFINE q == (MSS * MSS) \div cc.cwnd
    <3> HIDE DEF q, d
    <3> DEFINE w == Lesser(cc.cwnd + q, CwndCap)
    <3>4. w \in Nat /\ w > 0
      BY <1>1, <3>1, <3>2 DEF q
    <3>5. d = IF ack > snd_una THEN [cc EXCEPT !.cwnd = w, !.dup = 0] ELSE [cc EXCEPT !.dup = @ + 1]
      BY <3>3 DEF q
    <3> HIDE DEF w
    <3>6. [cc EXCEPT !.dup = @ + 1] \in CcMid /\ [cc EXCEPT !.dup = @ + 1].cwnd = cc.cwnd
      BY <1>0
    <3>7. /\ [cc EXCEPT !.cwnd = w, !.dup = 0] \in CcMid
          /\ [cc EXCEPT !.cwnd = w, !.dup = 0].cwnd = w
      <4>1. [cc EXCEPT !.cwnd = w, !.dup = 0] \in CcMid
        <5> HIDE DEF CcMid
        <5> QED
          BY <1>0, <1>b, <1>c, <3>4
      <4> QED
        BY <1>0, <4>1
    <3> QED
      BY <3>1, <3>4, <3>5, <3>6, <3>7
  <2> QED
    BY <1>0, <2>1, <2>2, <2>3
<1> HIDE DEF d
<1>3. CASE FastRetransmit(d)
  <2>1. d.cwnd \div 2 \in Nat
    BY <1>2
  <2>2. Lesser(d.cwnd \div 2 + 3 * MSS, CwndCap) \in Nat
    BY <1>1, <2>1
  <2> QED
    BY <1>0, <1>3, <2>1, <2>2 DEF CcAfter, d
<1>4. CASE ~ FastRetransmit(d)
  BY <1>2, <1>4 DEF CcAfter, FastRetransmit, d
<1> QED
  BY <1>3, <1>4

\* A sender fresh from the handshake.
LEMMA SndInitType == SndInit => SndInv
BY MSSAssumption, SsthreshAssumption, MaxRetransAssumption, StreamLenAssumption
DEF SndInit, SndInv, SndTypeOK, CwndPositive, NotOverSent, CcStates, WaitInit, WaitStructs, WriterAtApp

\* tcp_sock_write keeps the types.
LEMMA WriterType ==
  ASSUME SndInv, WriterStep PROVE SndInv'
<1> USE DEF SndInv, SndTypeOK, CwndPositive, NotOverSent
<1> DEFINE W == [pc : {"app", "test", "sleep", "blocked", "size", "send"},
                 base : Nat, len : Nat, sent : Nat, n : Nat]
<1>1. CASE WriteCall
  <2>1. PICK n \in WriteLens :
          /\ written + n <= StreamLen
          /\ written' = written + n
          /\ writer' = IF state = "ESTABLISHED"
                       THEN [pc |-> "test", base |-> written, len |-> n, sent |-> 0, n |-> 0]
                       ELSE writer
    BY <1>1 DEF WriteCall
  <2>2. n \in Nat /\ written \in Nat /\ written' \in 0..StreamLen
    BY <2>1, WriteLensAssumption, StreamLenAssumption
  <2>3. writer' \in W
    BY <2>1, <2>2
  <2> QED
    BY <1>1, <2>2, <2>3 DEF WriteCall
<1>2. CASE WriteTest
  <2>1. writer' \in W
    BY <1>2 DEF WriteTest
  <2> QED
    BY <1>2, <2>1 DEF WriteTest
<1>3. CASE WriteSleep
  <2>1. writer' \in W
    BY <1>3 DEF WriteSleep
  <2>2. wait_send' \in WaitStructs({"writer"})
    BY <1>3, WaitOpsType DEF WriteSleep
  <2> QED
    BY <1>3, <2>1, <2>2 DEF WriteSleep
<1>4. CASE WriteWoken
  <2>1. writer' \in W
    BY <1>4 DEF WriteWoken
  <2>2. wait_send' \in WaitStructs({"writer"})
    BY <1>4, WaitOpsType DEF WriteWoken
  <2> QED
    BY <1>4, <2>1, <2>2 DEF WriteWoken
<1>5. CASE WriteSize
  <2> DEFINE k == Lesser(writer.len - writer.sent, Lesser(snd_wnd, MSS))
  <2>1. k \in Nat
    BY <1>5, MSSAssumption DEF Lesser
  <2>2. writer' = [writer EXCEPT !.pc = "send", !.n = k]
    BY <1>5 DEF WriteSize
  <2> HIDE DEF k
  <2>3. writer' \in W /\ writer'.sent <= writer'.len
    BY <2>1, <2>2
  <2> QED
    BY <1>5, <2>3 DEF WriteSize
<1>6. CASE WriteSend
  <2>1. NewEntry \in Entries /\ NewPacket \in Entries
    BY DEF NewEntry, NewPacket, Entries
  <2>2. send_buf' \in Seq(Entries) /\ dataCh' \in Seq(Entries)
    <3>1. send_buf \in Seq(Entries) /\ dataCh \in Seq(Entries)
      BY DEF Entries
    <3> QED
      BY <1>6, <2>1, <3>1, SendDataElems DEF WriteSend
  <2>3. writer' \in W /\ writer'.sent <= writer'.len
    <3>1. CASE writer.sent + writer.n < writer.len
      <4> DEFINE s == writer.sent + writer.n
      <4>1. s \in Nat /\ s <= writer.len
        BY <3>1
      <4>2. writer' = [writer EXCEPT !.sent = s, !.pc = "test", !.n = 0]
        BY <1>6, <3>1 DEF WriteSend
      <4> HIDE DEF s
      <4>3. [writer EXCEPT !.sent = s] \in W
        BY <4>1
      <4>4. ASSUME NEW w \in W PROVE [w EXCEPT !.pc = "test"] \in W /\ [w EXCEPT !.n = 0] \in W
        OBVIOUS
      <4>5. writer' \in W
        <5> HIDE DEF W
        <5> QED
          BY <4>2, <4>3, <4>4
      <4> QED
        BY <4>1, <4>2, <4>5
    <3>2. CASE ~ (writer.sent + writer.n < writer.len)
      BY <1>6, <3>2 DEF WriteSend, WriterAtApp
    <3> QED
      BY <3>1, <3>2
  <2>4. snd_nxt' \in Nat \ {0}
    BY <1>6 DEF WriteSend
  <2>5. retrans_timer' \in [enable : BOOLEAN, retrans_cnt : 0..MaxRetrans]
    BY <1>6 DEF WriteSend, SetRetransTimer
  <2> QED
    BY <1>6, <2>2, <2>3, <2>4, <2>5 DEF WriteSend, Entries
<1> QED
  BY <1>1, <1>2, <1>3, <1>4, <1>5, <1>6 DEF WriterStep

\* A retransmitted head entry keeps the type of the channel and adds an entry of the buffer.
LEMMA ResendElems ==
  ASSUME SndTypeOK, NEW buf \in Seq(Entries), buf # <<>>
  PROVE  /\ Resend(buf) \in Seq(Entries)
         /\ Elems(Resend(buf)) \subseteq Elems(dataCh) \cup Elems(buf)
<1>1. dataCh \in Seq(Entries)
  BY DEF SndTypeOK, Entries
<1>2. buf[1] \in Entries /\ buf[1] \in Elems(buf)
  BY DEF Elems
<1>3. /\ SendData(dataCh, buf[1]) \in Seq(Entries)
      /\ Elems(SendData(dataCh, buf[1])) \subseteq Elems(dataCh) \cup {buf[1]}
  BY <1>1, <1>2, SendDataElems
<1> QED
  BY <1>2, <1>3 DEF Resend

\* What wake_up and wait_exit do to the types.
LEMMA WakeType ==
  ASSUME SndTypeOK
  PROVE  WakeUps(wait_send) \subseteq WaitStructs({"writer"}) /\ WaitExit(wait_send) \in WaitStructs({"writer"})
<1>1. wait_send \in WaitStructs({"writer"})
  BY DEF SndTypeOK
<1>2. WaitExit(wait_send) \in WaitStructs({"writer"})
  <2>1. CASE wait_send.dead
    BY <1>1, <2>1 DEF WaitExit
  <2>2. CASE ~ wait_send.dead
    <3>1. WaitExit(wait_send) =
            [wait_send EXCEPT !.dead = TRUE, !.waiters = IF wait_send.sleep THEN {} ELSE wait_send.waiters]
      BY <2>2 DEF WaitExit
    <3> QED
      BY <1>1, <3>1 DEF WaitStructs
  <2> QED
    BY <2>1, <2>2
<1> QED
  BY <1>1, <1>2, WaitOpsType

RetransTimers == [enable : BOOLEAN, retrans_cnt : 0..MaxRetrans]

\* The operations on the retransmission timer keep its type.
LEMMA RetransTimerType ==
  ASSUME NEW t \in RetransTimers
  PROVE  /\ SetRetransTimer(t) \in RetransTimers /\ UnsetRetransTimer(t) \in RetransTimers
         /\ [t EXCEPT !.retrans_cnt = 0] \in RetransTimers
         /\ t.retrans_cnt < MaxRetrans => [t EXCEPT !.retrans_cnt = @ + 1] \in RetransTimers
<1>1. /\ SetRetransTimer(t) \in RetransTimers /\ UnsetRetransTimer(t) \in RetransTimers
  BY DEF SetRetransTimer, UnsetRetransTimer, RetransTimers
<1>2. [t EXCEPT !.retrans_cnt = 0] \in RetransTimers
  BY MaxRetransAssumption DEF RetransTimers
<1>3. ASSUME t.retrans_cnt < MaxRetrans PROVE [t EXCEPT !.retrans_cnt = @ + 1] \in RetransTimers
  <2>1. t.retrans_cnt + 1 \in 0..MaxRetrans
    BY <1>3, MaxRetransAssumption DEF RetransTimers
  <2> QED
    BY <2>1 DEF RetransTimers
<1> QED
  BY <1>1, <1>2, <1>3

\* What a time-out assigns keeps the type of the congestion control's state.
LEMMA CcFields ==
  ASSUME NEW c \in CcType, NEW n \in Nat
  PROVE  /\ [c EXCEPT !.ssthresh = n] \in CcType /\ [c EXCEPT !.cwnd = n] \in CcType
         /\ [c EXCEPT !.dup = 0] \in CcType /\ [c EXCEPT !.recovery_point = 0] \in CcType
         /\ [c EXCEPT !.cc_state = "SLOW_START"] \in CcType
<1>1. [c EXCEPT !.ssthresh = n] \in CcType /\ [c EXCEPT !.cwnd = n] \in CcType
  BY DEF CcType
<1>2. [c EXCEPT !.dup = 0] \in CcType /\ [c EXCEPT !.recovery_point = 0] \in CcType
  BY DEF CcType
<1>3. [c EXCEPT !.cc_state = "SLOW_START"] \in CcType
  BY DEF CcType, CcStates
<1> QED
  BY <1>1, <1>2, <1>3

\* The timer thread keeps the types.
LEMMA TimerType ==
  ASSUME SndInv, TimerStep PROVE SndInv'
<1> USE DEF SndInv, SndTypeOK, CwndPositive, NotOverSent
<1>1. CASE RetransTimeout
  <2>1. retrans_timer' \in [enable : BOOLEAN, retrans_cnt : 0..MaxRetrans]
    BY <1>1, RetransTimerType DEF RetransTimeout, RetransTimers
  <2>2. cc' \in CcType /\ cc'.cc_state = "SLOW_START"
    <3> DEFINE h == cc.cwnd \div 2
    <3>1. h \in Nat /\ MSS \in Nat
      BY MSSAssumption
    <3>2. cc' = [cc EXCEPT !.ssthresh = h, !.cwnd = MSS, !.dup = 0, !.cc_state = "SLOW_START",
                           !.recovery_point = 0]
      BY <1>1 DEF RetransTimeout
    <3> HIDE DEF h
    <3>4. cc \in CcType
      BY DEF CcType
    <3>5. cc' \in CcType
      BY <3>1, <3>2, <3>4, CcFields
    <3> QED
      BY <3>2, <3>5 DEF CcType
  <2>3. dataCh' \in Seq(Entries)
    <3>1. send_buf \in Seq(Entries) /\ dataCh \in Seq(Entries)
      BY DEF Entries
    <3> QED
      BY <1>1, <3>1, ResendElems DEF RetransTimeout
  <2>4. wait_send' \in WaitStructs({"writer"})
    BY <1>1, WakeType DEF RetransTimeout
  <2> QED
    BY <1>1, <2>1, <2>2, <2>3, <2>4 DEF RetransTimeout, CcType, Entries
<1>2. CASE GiveUp
  <2>1. retrans_timer' \in [enable : BOOLEAN, retrans_cnt : 0..MaxRetrans]
    BY <1>2 DEF GiveUp, UnsetRetransTimer
  <2> QED
    BY <1>2, <2>1, WakeType DEF GiveUp
<1>3. CASE PersistTimeout
  <2>1. ProbePacket \in Entries /\ probeCh \in Seq(Entries)
    BY DEF ProbePacket, Entries
  <2>2. probeCh' \in Seq(Entries)
    BY <1>3, <2>1, SendDataElems DEF PersistTimeout
  <2> QED
    BY <1>3, <2>2 DEF PersistTimeout, Entries
<1>4. CASE TimerOfClosed
  BY <1>4 DEF TimerOfClosed, UnsetRetransTimer
<1> QED
  BY <1>1, <1>2, <1>3, <1>4 DEF TimerStep

\* An ACK keeps the types, and snd_una never goes back.
LEMMA AckType ==
  ASSUME SndInv, NEW a \in [ack : Nat, rwnd : 0..RcvBufSize], RcvAck(a)
  PROVE  SndInv' /\ snd_una' >= snd_una
<1> USE DEF SndInv, SndTypeOK, CwndPositive, NotOverSent
<1> DEFINE buf   == SendBufAfter(a.ack)
           after == CcAfter(CcOnAck(cc, a.ack))
<1>1. a.ack \in Nat /\ a.rwnd \in Nat
  BY RcvBufSizeAssumption
<1>2. send_buf' = buf /\ buf \in Seq(Entries)
  BY <1>1, SendBufAfterElems DEF RcvAck, Entries
<1>3. /\ cc' = after /\ after \in CcType
      /\ after.cc_state = "CONGESTION_AVOIDANCE" => after.cwnd > 0
  BY <1>1, CcStep DEF RcvAck
<1>4. after.cwnd \in Nat
  BY <1>3 DEF CcType
<1> HIDE DEF buf, after
<1>5. retrans_timer' \in [enable : BOOLEAN, retrans_cnt : 0..MaxRetrans]
  <2>1. retrans_timer' = RetransTimerAfter(buf)
    BY DEF RcvAck, buf
  <2>2. retrans_timer \in RetransTimers
    BY DEF RetransTimers
  <2>3. ASSUME NEW t \in RetransTimers PROVE UpdateRetransTimer(t, buf) \in RetransTimers
    BY RetransTimerType DEF UpdateRetransTimer
  <2>4. RetransTimerAfter(buf) \in RetransTimers
    BY <2>2, <2>3, RetransTimerType DEF RetransTimerAfter
  <2> QED
    BY <2>1, <2>4 DEF RetransTimers
<1>6. dataCh' \in Seq(Entries)
  <2>1. dataCh' = dataCh \/ (buf # <<>> /\ dataCh' = Resend(buf))
    BY DEF RcvAck, buf
  <2> QED
    BY <1>2, <2>1, ResendElems DEF Entries
<1>7. wait_send' \in WaitStructs({"writer"})
  <2>1. wait_send' \in WakeUps(wait_send) \/ wait_send' = wait_send
    BY DEF RcvAck
  <2> QED
    BY <2>1, WakeType
<1>8. /\ snd_una' \in Nat \ {0} /\ snd_una' >= snd_una
      /\ snd_wnd' \in Nat /\ persist_timer' \in BOOLEAN
  <2>1. CASE UpdateWindowSafe(a.ack)
    <3>1. UpdateWindow(a, after.cwnd)
      BY <2>1 DEF RcvAck, after
    <3>2. snd_una' = a.ack /\ snd_una <= a.ack
      BY <2>1, <3>1 DEF UpdateWindow, UpdateWindowSafe
    <3>3. snd_wnd' \in Nat
      BY <1>1, <1>4, <3>1 DEF UpdateWindow, Lesser
    <3>4. persist_timer' \in BOOLEAN
      BY <3>1 DEF UpdateWindow, PersistTimerAfter
    <3> QED
      BY <1>1, <3>2, <3>3, <3>4
  <2>2. CASE ~ UpdateWindowSafe(a.ack)
    <3>1. UNCHANGED <<snd_una, snd_wnd, persist_timer>>
      BY <2>2 DEF RcvAck
    <3> QED
      BY <3>1
  <2> QED
    BY <2>1, <2>2
<1>9. UNCHANGED <<state, snd_nxt, written, writer, probeCh>>
  BY DEF RcvAck
<1>10. SndTypeOK'
  BY <1>2, <1>3, <1>5, <1>6, <1>7, <1>8, <1>9 DEF CcType, Entries
<1> QED
  BY <1>3, <1>8, <1>9, <1>10

Acks == [ack : Nat, rwnd : 0..RcvBufSize]

TypeInv == SndInv /\ RcvTypeOK

\* Every step of the transfer keeps the types, and snd_una never goes back: writer and timers
\* leave it alone, and tcp_update_window_safe filters older ACKs.
LEMMA TypeInvStep ==
  ASSUME TypeInv, [Next]_vars PROVE TypeInv' /\ snd_una' >= snd_una
<1> USE DEF TypeInv
<1>0. snd_una \in Nat /\ dataCh \in Seq(Entries) /\ probeCh \in Seq(Entries) /\ ackCh \in Seq(Acks)
  BY DEF SndInv, SndTypeOK, RcvTypeOK, Entries, Acks
<1>r. ASSUME UNCHANGED rcvVars PROVE RcvTypeOK'
  BY <1>r DEF rcvVars, RcvTypeOK
<1>s. ASSUME UNCHANGED sndOthers, dataCh' \in Seq(Entries), probeCh' \in Seq(Entries)
      PROVE  SndInv' /\ snd_una' >= snd_una
  BY <1>0, <1>s DEF sndOthers, SndInv, SndTypeOK, CwndPositive, NotOverSent, Entries
<1>1. CASE WriterStep /\ UNCHANGED rcvVars
  <2>1. snd_una' = snd_una
    BY <1>1 DEF WriterStep, WriteCall, WriteTest, WriteSleep, WriteWoken, WriteSize, WriteSend
  <2> QED
    BY <1>0, <1>1, <1>r, <2>1, WriterType
<1>2. CASE TimerStep /\ UNCHANGED rcvVars
  <2>1. snd_una' = snd_una
    BY <1>2 DEF TimerStep, RetransTimeout, GiveUp, PersistTimeout, TimerOfClosed
  <2> QED
    BY <1>0, <1>2, <1>r, <2>1, TimerType
<1>3. CASE (RxStep \/ ReaderStep) /\ UNCHANGED sndVars
  <2>1. RcvTypeOK'
    BY <1>3, RxType, ReaderType
  <2>2. UNCHANGED sndOthers /\ dataCh' = dataCh /\ probeCh' = probeCh
    BY <1>3 DEF sndVars, sndOthers
  <2> QED
    BY <1>0, <1>s, <2>1, <2>2
<1>4. CASE DeliverData
  <2>1. PICK i \in Deliverable(dataCh) :
          /\ dataCh' = Without(dataCh, i) /\ UNCHANGED <<sndOthers, probeCh>>
          /\ RcvData(dataCh[i]) \/ RcvEmpty(dataCh[i])
    BY <1>4 DEF DeliverData
  <2>2. dataCh' \in Seq(Entries) /\ dataCh[i] \in Entries
    BY <1>0, <2>1, WithoutElems
  <2>3. RcvTypeOK'
    BY <2>1, <2>2, RcvDataType DEF Entries, SegmentType
  <2> QED
    BY <1>0, <1>s, <2>1, <2>2, <2>3
<1>5. CASE DeliverProbe
  <2>1. PICK i \in Deliverable(probeCh) :
          /\ probeCh' = Without(probeCh, i) /\ UNCHANGED <<sndOthers, dataCh>>
          /\ RcvData(probeCh[i])
    BY <1>5 DEF DeliverProbe
  <2>2. probeCh' \in Seq(Entries) /\ probeCh[i] \in Entries
    BY <1>0, <2>1, WithoutElems
  <2>3. RcvTypeOK'
    BY <2>1, <2>2, RcvDataType DEF Entries, SegmentType
  <2> QED
    BY <1>0, <1>s, <2>1, <2>2, <2>3
<1>6. ASSUME NEW i \in Deliverable(ackCh), ackCh' = Without(ackCh, i), UNCHANGED rcvOthers
      PROVE  RcvTypeOK' /\ ackCh[i] \in Acks
  <2>1. ackCh' \in Seq(Acks) /\ ackCh[i] \in Acks
    BY <1>0, <1>6, WithoutElems
  <2> QED
    BY <1>6, <2>1 DEF rcvOthers, RcvTypeOK, Acks
<1>7. ASSUME NEW i \in Deliverable(ackCh), DropAck(i) PROVE TypeInv' /\ snd_una' >= snd_una
  <2>1. UNCHANGED sndOthers /\ dataCh' = dataCh /\ probeCh' = probeCh
    BY <1>7 DEF DropAck, sndVars, sndOthers
  <2> QED
    BY <1>0, <1>6, <1>7, <1>s, <2>1 DEF DropAck
<1>8. ASSUME NEW i \in Deliverable(ackCh), ackCh' = Without(ackCh, i), RcvAck(ackCh[i]),
             UNCHANGED rcvOthers
      PROVE  TypeInv' /\ snd_una' >= snd_una
  BY <1>6, <1>8, AckType DEF Acks
<1>9. CASE DeliverAck
  BY <1>7, <1>8, <1>9 DEF DeliverAck
<1>10. CASE LoseAck
  BY <1>7, <1>10 DEF LoseAck
<1>11. CASE LoseData
  <2>1. dataCh' \in Seq(Entries) /\ probeCh' \in Seq(Entries)
    <3>1. CASE \E i \in Deliverable(dataCh) : dataCh' = Without(dataCh, i) /\ UNCHANGED probeCh
      BY <1>0, <3>1, WithoutElems
    <3>2. CASE \E i \in Deliverable(probeCh) : probeCh' = Without(probeCh, i) /\ UNCHANGED dataCh
      BY <1>0, <3>2, WithoutElems
    <3> QED
      BY <1>11, <3>1, <3>2 DEF LoseData
  <2>2. UNCHANGED sndOthers /\ UNCHANGED rcvVars
    BY <1>11 DEF LoseData
  <2> QED
    BY <1>r, <1>s, <2>1, <2>2
<1>12. CASE UNCHANGED vars
  <2>1. UNCHANGED sndOthers /\ dataCh' = dataCh /\ probeCh' = probeCh /\ UNCHANGED rcvVars
    BY <1>12 DEF vars, sndVars, sndOthers
  <2> QED
    BY <1>0, <1>r, <1>s, <2>1
<1> QED
  BY <1>1, <1>2, <1>3, <1>4, <1>5, <1>9, <1>10, <1>11, <1>12 DEF Next

\* A transfer starts with the types.
LEMMA TypeInvInit == Init => TypeInv
BY SndInitType, StreamInvInit DEF Init, TypeInv, StreamInv

\* The state of both halves and of the channels keeps its types, for every size and bound; in
\* particular the length tcp_sock_write passes on is never negative and congestion avoidance
\* never divides by zero.
THEOREM TransferTypeOK == Spec => []TypeOK
<1>1. TypeInv => TypeOK
  BY DEF TypeInv, SndInv, TypeOK
<1> QED
  BY TypeInvInit, TypeInvStep, <1>1, PTL DEF Spec

\* snd_una only grows, whatever order the ACKs arrive in (tcp_update_window_safe).
THEOREM AcknowledgedStaysSo == Spec => SndUnaMonotone
<1>1. TypeInv /\ [Next]_vars => [snd_una' >= snd_una]_vars
  BY TypeInvStep
<1> QED
  BY TypeInvInit, TypeInvStep, <1>1, PTL DEF Spec, SndUnaMonotone

-----------------------------------------------------------------------------
(* Sequence numbers.  A write that goes out in one piece has one entry in  *)
(* send_buf, the same segment as the packet.  All copies of segments, in   *)
(* the send buffer, under way and at the receiver, are then equal or apart *)
(* from each other, and every number that is acknowledged lies between     *)
(* two of them.  (A write in several pieces breaks this: finding 2.)       *)

\* tcp_sock_write hands the whole buffer to one packet.
SentWhole == writer.pc = "send" => writer.n = writer.len

\* The segment the receive thread is about to queue.
Held == IF rx.pc = "lock" /\ SeqEnd(rx.seg) > rcv_nxt THEN {rx.seg} ELSE {}

Sent == Elems(send_buf) \cup Elems(dataCh) \cup rcv_ofo_buf \cup Held

Acked == {a.ack : a \in Elems(ackCh)} \cup {snd_una, rcv_nxt}

SegmentsTrue ==
  \A m \in Sent : m.off = m.seq /\ m.seq > 0 /\ m.len > 0 /\ SeqEnd(m) <= snd_nxt

SegmentsApart == \A m, k \in Sent : m = k \/ SeqEnd(m) <= k.seq \/ SeqEnd(k) <= m.seq

AckedWhole == \A b \in Acked : b <= rcv_nxt /\ \A m \in Sent : b <= m.seq \/ SeqEnd(m) <= b

SetsInv == SegmentsTrue /\ SegmentsApart /\ AckedWhole /\ rcv_nxt <= snd_nxt

ProbesOld == \A p \in Elems(probeCh) : SeqEnd(p) <= rcv_nxt

\* snd_nxt is the place in the stream that the application has come to.
WriterPlace ==
  /\ writer.pc # "app" => /\ writer.sent = 0 /\ writer.len > 0
                          /\ snd_nxt = writer.base + 1 /\ written = writer.base + writer.len
  /\ state = "ESTABLISHED" /\ writer.pc = "app" => snd_nxt = written + 1

Covered ==
  \A s \in snd_una..(snd_nxt - 1) : \E e \in Elems(send_buf) : e.seq <= s /\ s < SeqEnd(e)

SeqInv == SetsInv /\ ProbesOld /\ WriterPlace /\ Covered /\ RcvStreamIntact

\* What the numbers and segments above are.
LEMMA SentType ==
  ASSUME TypeInv
  PROVE  /\ Sent \subseteq Entries /\ Acked \subseteq Nat
         /\ Elems(send_buf) \subseteq Entries /\ Elems(dataCh) \subseteq Entries
         /\ Elems(probeCh) \subseteq Entries /\ Elems(ackCh) \subseteq Acks
         /\ snd_una \in Nat /\ snd_nxt \in Nat /\ rcv_nxt \in Nat
         /\ \A m \in Entries : m.seq \in Nat /\ m.len \in Nat /\ m.off \in Nat /\ SeqEnd(m) \in Nat
<1>1. /\ send_buf \in Seq(Entries) /\ dataCh \in Seq(Entries) /\ probeCh \in Seq(Entries)
      /\ ackCh \in Seq(Acks) /\ snd_una \in Nat /\ snd_nxt \in Nat /\ rcv_nxt \in Nat
  BY DEF TypeInv, SndInv, SndTypeOK, RcvTypeOK, Entries, Acks
<1>2. \A S : \A s \in Seq(S) : Elems(s) \subseteq S
  BY DEF Elems
<1>3. rcv_ofo_buf \subseteq Entries /\ rx.seg \in Entries
  BY DEF TypeInv, RcvTypeOK, Entries, SegmentType
<1>4. Held \subseteq Entries
  BY <1>3 DEF Held
<1>5. \A a \in Acks : a.ack \in Nat
  BY DEF Acks
<1>6. \A m \in Entries : m.seq \in Nat /\ m.len \in Nat /\ m.off \in Nat /\ SeqEnd(m) \in Nat
  BY DEF Entries, SeqEnd
<1>7. /\ Elems(send_buf) \subseteq Entries /\ Elems(dataCh) \subseteq Entries
      /\ Elems(probeCh) \subseteq Entries /\ Elems(ackCh) \subseteq Acks
  BY <1>1, <1>2
<1>8. Sent \subseteq Entries
  BY <1>3, <1>4, <1>7 DEF Sent
<1>9. Acked \subseteq Nat
  BY <1>1, <1>5, <1>7 DEF Acked
<1> QED
  BY <1>1, <1>6, <1>7, <1>8, <1>9

\* Whatever makes no new segment and no new acknowledgement keeps them as they should be.
LEMMA SetsShrink ==
  ASSUME SetsInv, Sent' \subseteq Sent, Acked' \subseteq Acked, UNCHANGED <<rcv_nxt, snd_nxt>>
  PROVE  SetsInv'
BY DEF SetsInv, SegmentsTrue, SegmentsApart, AckedWhole, SeqEnd

\* The ACK the receiver sends acknowledges rcv_nxt and nothing else.
LEMMA AckedGrows ==
  ASSUME TypeInv, ackCh' \in {ackCh, SendAck}, UNCHANGED <<snd_una, rcv_nxt>>
  PROVE  Acked' \subseteq Acked
<1> DEFINE a == [ack |-> rcv_nxt, rwnd |-> rcv_wnd]
<1>1. ackCh \in Seq(Acks) /\ a \in Acks
  BY DEF TypeInv, RcvTypeOK, Acks
<1>2. Elems(Send(ackCh, a)) \subseteq Elems(ackCh) \cup {a}
  BY <1>1, SendElems
<1>3. Elems(ackCh') \subseteq Elems(ackCh) \cup {a}
  BY <1>2 DEF SendAck
<1>4. Elems(ackCh)' = Elems(ackCh')
  BY DEF Elems
<1>5. a.ack = rcv_nxt
  OBVIOUS
<1> HIDE DEF a
<1> QED
  BY <1>3, <1>4, <1>5 DEF Acked

\* A step that touches no buffer, channel or number of the connection.
LEMMA SeqSame ==
  ASSUME SeqInv,
         UNCHANGED <<send_buf, dataCh, probeCh, ackCh, snd_una, snd_nxt, rcv_nxt, rcv_ofo_buf,
                     rcv_stream, rx>>,
         WriterPlace'
  PROVE  SeqInv'
<1>1. Sent' = Sent /\ Acked' = Acked
  BY DEF Sent, Acked, Held, Elems, SeqEnd
<1>2. SetsInv'
  BY <1>1, SetsShrink DEF SeqInv
<1>3. ProbesOld' /\ Covered' /\ RcvStreamIntact'
  BY DEF SeqInv, ProbesOld, Covered, RcvStreamIntact, Elems, SeqEnd
<1> QED
  BY <1>2, <1>3 DEF SeqInv

\* tcp_send_buffer_add_packet and tcp_send_packet add one segment, the next one.
LEMMA WriteSendSeq ==
  ASSUME TypeInv, SeqInv, SentWhole, WriteSend, UNCHANGED rcvVars PROVE SeqInv'
<1> DEFINE m == NewEntry
<1>1. /\ writer.pc = "send" /\ writer.n = writer.len /\ writer.sent = 0 /\ writer.len > 0
      /\ snd_nxt = writer.base + 1 /\ written = writer.base + writer.len
      /\ writer.len \in Nat /\ writer.base \in Nat /\ writer.sent \in Nat /\ written \in Nat
  BY StreamLenAssumption
  DEF SeqInv, WriterPlace, SentWhole, WriteSend, TypeInv, SndInv, SndTypeOK
<1>2. m \in Entries /\ m.seq = snd_nxt /\ m.off = m.seq /\ m.len = writer.len /\ NewPacket = m
  BY <1>1, SentType DEF NewEntry, NewPacket, Entries
<1>3. snd_nxt' = snd_nxt + m.len /\ SeqEnd(m) = snd_nxt'
  BY <1>1, <1>2 DEF WriteSend, SeqEnd
<1> HIDE DEF m
<1>4. send_buf \in Seq(Entries) /\ dataCh \in Seq(Entries)
  BY DEF TypeInv, SndInv, SndTypeOK, Entries
<1>5. send_buf' = Append(send_buf, m) /\ dataCh' = SendData(dataCh, m)
  BY <1>2 DEF WriteSend, m
<1>6. Elems(send_buf)' = Elems(send_buf) \cup {m}
  <2>1. Elems(Append(send_buf, m)) = Elems(send_buf) \cup {m}
    BY <1>2, <1>4 DEF Elems
  <2> QED
    BY <1>5, <2>1 DEF Elems
<1>7. Elems(dataCh)' \subseteq Elems(dataCh) \cup {m}
  <2>1. Elems(SendData(dataCh, m)) \subseteq Elems(dataCh) \cup {m}
    BY <1>2, <1>4, SendDataElems
  <2> QED
    BY <1>5, <2>1 DEF Elems
<1>8. /\ UNCHANGED <<rcv_nxt, rcv_ofo_buf, rx, ackCh, rcv_stream, snd_una, probeCh, state, written>>
  BY DEF WriteSend, rcvVars
<1>9. Sent' \subseteq Sent \cup {m} /\ Acked' = Acked
  <2>1. Held' = Held /\ rcv_ofo_buf' = rcv_ofo_buf
    BY <1>8 DEF Held, SeqEnd
  <2>2. Acked' = Acked
    BY <1>8 DEF Acked, Elems
  <2> QED
    BY <1>6, <1>7, <2>1, <2>2 DEF Sent
<1>10. SetsInv'
  <2>1. /\ \A k \in Sent : /\ k.off = k.seq /\ k.seq > 0 /\ k.len > 0 /\ SeqEnd(k) <= snd_nxt
                           /\ SeqEnd(k) \in Nat
        /\ \A b \in Acked : b \in Nat /\ b <= snd_nxt /\ b <= rcv_nxt
        /\ rcv_nxt <= snd_nxt /\ rcv_nxt \in Nat /\ snd_nxt \in Nat /\ snd_nxt > 0
        /\ m.len \in Nat /\ m.len > 0
    BY <1>1, <1>2, SentType DEF SeqInv, SetsInv, SegmentsTrue, AckedWhole
  <2>2. SegmentsTrue'
    <3> SUFFICES ASSUME NEW k \in Sent'
                 PROVE  k.off = k.seq /\ k.seq > 0 /\ k.len > 0 /\ SeqEnd(k) <= snd_nxt'
      BY DEF SegmentsTrue, SeqEnd
    <3>1. CASE k = m
      BY <1>2, <1>3, <2>1, <3>1
    <3>2. CASE k \in Sent
      BY <1>3, <2>1, <3>2
    <3> QED
      BY <1>9, <3>1, <3>2
  <2>3. SegmentsApart'
    <3> SUFFICES ASSUME NEW k \in Sent', NEW l \in Sent'
                 PROVE  k = l \/ SeqEnd(k) <= l.seq \/ SeqEnd(l) <= k.seq
      BY DEF SegmentsApart, SeqEnd
    <3> QED
      BY <1>2, <1>9, <2>1 DEF SeqInv, SetsInv, SegmentsApart
  <2>4. AckedWhole'
    <3> SUFFICES ASSUME NEW b \in Acked
                 PROVE  b <= rcv_nxt /\ \A k \in Sent' : b <= k.seq \/ SeqEnd(k) <= b
      BY <1>8, <1>9 DEF AckedWhole, SeqEnd
    <3> QED
      BY <1>2, <1>9, <2>1 DEF SeqInv, SetsInv, AckedWhole
  <2> QED
    BY <1>3, <1>8, <2>1, <2>2, <2>3, <2>4 DEF SetsInv
<1>11. Covered'
  <2> SUFFICES ASSUME NEW s \in snd_una..(snd_nxt' - 1)
               PROVE  \E e \in Elems(send_buf)' : e.seq <= s /\ s < SeqEnd(e)
    BY <1>8 DEF Covered, SeqEnd
  <2>1. CASE s < snd_nxt
    BY <1>6, <2>1, SentType DEF SeqInv, Covered
  <2>2. CASE s >= snd_nxt
    BY <1>1, <1>2, <1>3, <1>6, <2>2, SentType
  <2> QED
    BY <2>1, <2>2, SentType
<1>12. WriterPlace'
  <2>1. writer' = WriterAtApp
    BY <1>1 DEF WriteSend
  <2>2. snd_nxt' = written' + 1
    BY <1>1, <1>2, <1>3, <1>8
  <2> QED
    BY <2>1, <2>2 DEF WriterPlace, WriterAtApp
<1>13. ProbesOld' /\ RcvStreamIntact'
  BY <1>8 DEF SeqInv, ProbesOld, RcvStreamIntact, Elems, SeqEnd
<1> QED
  BY <1>10, <1>11, <1>12, <1>13 DEF SeqInv

\* The application thread preserves the invariant.
LEMMA WriterSeq ==
  ASSUME TypeInv, SeqInv, SentWhole, WriterStep, UNCHANGED rcvVars PROVE SeqInv'
<1>1. CASE WriteSend
  BY <1>1, WriteSendSeq
<1>2. CASE ~ WriteSend
  <2>1. UNCHANGED <<send_buf, dataCh, probeCh, ackCh, snd_una, snd_nxt, rcv_nxt, rcv_ofo_buf,
                     rcv_stream, rx, state>>
    BY <1>2 DEF WriterStep, WriteCall, WriteTest, WriteSleep, WriteWoken, WriteSize, rcvVars
  <2>2. WriterPlace'
    <3>1. CASE WriteCall
      BY <2>1, <3>1, WriteLensAssumption, StreamLenAssumption
      DEF WriteCall, SeqInv, WriterPlace, TypeInv, SndInv, SndTypeOK
    <3>2. CASE ~ WriteCall
      <4>1. /\ writer.pc # "app" /\ writer'.pc # "app" /\ UNCHANGED written
            /\ writer'.base = writer.base /\ writer'.len = writer.len /\ writer'.sent = writer.sent
        BY <1>2, <3>2
        DEF WriterStep, WriteTest, WriteSleep, WriteWoken, WriteSize, TypeInv, SndInv, SndTypeOK
      <4> QED
        BY <2>1, <4>1 DEF SeqInv, WriterPlace
    <3> QED
      BY <3>1, <3>2
  <2> QED
    BY <2>1, <2>2, SeqSame
<1> QED
  BY <1>1, <1>2

\* The timer thread preserves it: it resends what is in send_buf, and its probes lie below
\* snd_una (tcp_send_probe_packet).
LEMMA TimerSeq ==
  ASSUME TypeInv, SeqInv, TimerStep, UNCHANGED rcvVars PROVE SeqInv'
<1>0. UNCHANGED <<send_buf, ackCh, snd_una, snd_nxt, rcv_nxt, rcv_ofo_buf, rcv_stream, rx, written, writer>>
  BY DEF TimerStep, RetransTimeout, GiveUp, PersistTimeout, TimerOfClosed, rcvVars
<1>w. WriterPlace'
  <2>1. state' = "ESTABLISHED" => state = "ESTABLISHED"
    BY DEF TimerStep, RetransTimeout, GiveUp, PersistTimeout, TimerOfClosed
  <2> QED
    BY <1>0, <2>1 DEF SeqInv, WriterPlace
<1>c. Covered' /\ RcvStreamIntact'
  BY <1>0 DEF SeqInv, Covered, RcvStreamIntact, Elems, SeqEnd
<1>a. Acked' = Acked
  BY <1>0 DEF Acked, Elems
<1>1. CASE RetransTimeout
  <2>1. send_buf \in Seq(Entries)
    BY DEF TypeInv, SndInv, SndTypeOK, Entries
  <2>2. Elems(dataCh)' \subseteq Elems(dataCh) \cup Elems(send_buf)
    <3>1. CASE send_buf # <<>>
      <4>1. Elems(Resend(send_buf)) \subseteq Elems(dataCh) \cup Elems(send_buf)
        BY <2>1, <3>1, ResendElems DEF TypeInv, SndInv
      <4>2. dataCh' = Resend(send_buf)
        BY <1>1, <3>1 DEF RetransTimeout
      <4> QED
        BY <4>1, <4>2 DEF Elems
    <3>2. CASE send_buf = <<>>
      BY <1>1, <3>2 DEF RetransTimeout, Elems
    <3> QED
      BY <3>1, <3>2
  <2>3. Sent' \subseteq Sent
    <3>1. Held' = Held /\ Elems(send_buf)' = Elems(send_buf) /\ rcv_ofo_buf' = rcv_ofo_buf
      BY <1>0 DEF Held, SeqEnd, Elems
    <3> QED
      BY <2>2, <3>1 DEF Sent
  <2>4. SetsInv'
    BY <1>0, <1>a, <2>3, SetsShrink DEF SeqInv
  <2>5. ProbesOld'
    BY <1>0, <1>1 DEF RetransTimeout, SeqInv, ProbesOld, Elems, SeqEnd
  <2> QED
    BY <1>c, <1>w, <2>4, <2>5 DEF SeqInv
<1>2. CASE GiveUp \/ TimerOfClosed
  <2>1. UNCHANGED <<dataCh, probeCh>>
    BY <1>2 DEF GiveUp, TimerOfClosed
  <2> QED
    BY <1>0, <1>w, <2>1, SeqSame
<1>3. CASE PersistTimeout
  <2>1. Sent' = Sent
    BY <1>0, <1>3 DEF PersistTimeout, Sent, Held, SeqEnd, Elems
  <2>2. SetsInv'
    BY <1>0, <1>a, <2>1, SetsShrink DEF SeqInv
  <2>3. ProbesOld'
    <3> DEFINE p == ProbePacket
    <3>1. p \in Entries /\ probeCh \in Seq(Entries)
      BY DEF ProbePacket, Entries, TypeInv, SndInv, SndTypeOK
    <3>2. SeqEnd(p) = snd_una
      BY SentType DEF ProbePacket, SeqEnd
    <3>3. snd_una <= rcv_nxt
      BY DEF SeqInv, SetsInv, AckedWhole, Acked
    <3> HIDE DEF p
    <3>4. Elems(SendData(probeCh, p)) \subseteq Elems(probeCh) \cup {p}
      BY <3>1, SendDataElems
    <3>5. Elems(probeCh)' \subseteq Elems(probeCh) \cup {p}
      BY <1>3, <3>4 DEF PersistTimeout, Elems, p
    <3>6. \A k \in Elems(probeCh)' : SeqEnd(k) <= rcv_nxt
      BY <3>2, <3>3, <3>5 DEF SeqInv, ProbesOld
    <3> QED
      BY <1>0, <3>6 DEF ProbesOld, SeqEnd
  <2> QED
    BY <1>c, <1>w, <2>2, <2>3 DEF SeqInv
<1> QED
  BY <1>1, <1>2, <1>3 DEF TimerStep

\* An ACK preserves it: what tcp_update_send_buffer releases lies below the number that is
\* acknowledged, because that number does not fall inside a segment.
LEMMA AckSeq ==
  ASSUME TypeInv, SeqInv, NEW i \in Deliverable(ackCh), ackCh' = Without(ackCh, i),
         RcvAck(ackCh[i]), UNCHANGED rcvOthers
  PROVE  SeqInv'
<1> DEFINE a == ackCh[i]
           buf == SendBufAfter(a.ack)
<1>1. a \in Acks /\ a \in Elems(ackCh) /\ Elems(ackCh') \subseteq Elems(ackCh)
  <2>1. ackCh \in Seq(Acks)
    BY DEF TypeInv, RcvTypeOK, Acks
  <2> QED
    BY <2>1, WithoutElems
<1>2. RcvAck(a)
  OBVIOUS
<1> HIDE DEF a
<1>3. a.ack \in Nat /\ a.ack \in Acked
  BY <1>1 DEF Acks, Acked
<1>4. send_buf \in Seq(Entries)
  BY DEF TypeInv, SndInv, SndTypeOK, Entries
<1>5. PICK n \in 0..Len(send_buf) :
        /\ buf = SubSeq(send_buf, n + 1, Len(send_buf))
        /\ buf \in Seq(Entries)
        /\ Elems(buf) \subseteq Elems(send_buf)
        /\ \A j \in 1..n : send_buf[j].seq < a.ack
  BY <1>3, <1>4, SendBufAfterElems
<1>6. send_buf' = buf
  BY <1>2 DEF RcvAck
<1>7. \A e \in Elems(send_buf) : e.seq >= a.ack => e \in Elems(buf)
  <2> SUFFICES ASSUME NEW j \in 1..Len(send_buf), send_buf[j].seq >= a.ack
               PROVE  send_buf[j] \in Elems(buf)
    BY DEF Elems
  <2>1. send_buf[j].seq \in Nat
    BY <1>4, SentType
  <2>2. j > n
    BY <1>3, <1>5, <2>1
  <2>3. Len(buf) = Len(send_buf) - n /\ j - n \in 1..Len(buf) /\ buf[j - n] = send_buf[j]
    BY <1>4, <1>5, <2>2
  <2> QED
    BY <2>3 DEF Elems
<1> HIDE DEF buf
<1>8. Elems(dataCh)' \subseteq Elems(dataCh) \cup Elems(send_buf)
  <2>1. CASE dataCh' = dataCh
    BY <2>1 DEF Elems
  <2>2. CASE buf # <<>> /\ dataCh' = Resend(buf)
    <3>1. Elems(Resend(buf)) \subseteq Elems(dataCh) \cup Elems(buf)
      BY <1>5, <2>2, ResendElems DEF TypeInv, SndInv
    <3> QED
      BY <1>5, <2>2, <3>1 DEF Elems
  <2> QED
    BY <1>2, <2>1, <2>2 DEF RcvAck, buf
<1>9. UNCHANGED <<rcv_nxt, rcv_ofo_buf, rcv_stream, rx, snd_nxt, state, written, writer, probeCh>>
  BY <1>2 DEF RcvAck, rcvOthers
<1>10. Sent' \subseteq Sent
  <2>1. Held' = Held /\ Elems(send_buf)' = Elems(buf) /\ rcv_ofo_buf' = rcv_ofo_buf
    BY <1>6, <1>9 DEF Held, SeqEnd, Elems
  <2> QED
    BY <1>5, <1>8, <2>1 DEF Sent
<1>11. /\ a.ack <= rcv_nxt /\ rcv_nxt <= snd_nxt /\ snd_una <= rcv_nxt
       /\ \A m \in Sent : a.ack <= m.seq \/ SeqEnd(m) <= a.ack
  BY <1>3 DEF SeqInv, SetsInv, AckedWhole, Acked
<1>12. snd_una' = IF snd_una <= a.ack THEN a.ack ELSE snd_una
  BY <1>2, <1>3, <1>11, SentType DEF RcvAck, UpdateWindowSafe, UpdateWindow
<1>13. Acked' \subseteq Acked
  <2>1. Elems(ackCh)' \subseteq Elems(ackCh)
    BY <1>1 DEF Elems
  <2> QED
    BY <1>3, <1>9, <1>12, <2>1 DEF Acked
<1>14. SetsInv'
  BY <1>9, <1>10, <1>13, SetsShrink DEF SeqInv
<1>15. Covered'
  <2>1. snd_una' \in Nat /\ snd_una' >= a.ack /\ snd_una' >= snd_una
    BY <1>3, <1>12, SentType
  <2> SUFFICES ASSUME NEW s \in snd_una'..(snd_nxt - 1)
               PROVE  \E e \in Elems(buf) : e.seq <= s /\ s < SeqEnd(e)
    BY <1>6, <1>9 DEF Covered, SeqEnd, Elems
  <2>2. PICK e \in Elems(send_buf) : e.seq <= s /\ s < SeqEnd(e)
    BY <2>1, SentType DEF SeqInv, Covered
  <2>3. e \in Sent /\ e.seq \in Nat /\ SeqEnd(e) \in Nat
    BY SentType DEF Sent
  <2>4. a.ack <= e.seq
    BY <1>3, <1>11, <2>1, <2>2, <2>3
  <2> QED
    BY <1>3, <1>7, <2>2, <2>3, <2>4
<1>16. WriterPlace' /\ ProbesOld' /\ RcvStreamIntact'
  BY <1>9 DEF SeqInv, WriterPlace, ProbesOld, RcvStreamIntact, Elems, SeqEnd
<1> QED
  BY <1>14, <1>15, <1>16 DEF SeqInv

\* The receive thread preserves it: tcp_move_recv_ofo_buffer moves whole segments.
LEMMA RxSeq ==
  ASSUME TypeInv, SeqInv, RxStep, UNCHANGED sndVars PROVE SeqInv'
<1>0. UNCHANGED <<send_buf, dataCh, probeCh, snd_una, snd_nxt, state, written, writer>>
  BY DEF sndVars
<1>e. Elems(send_buf)' = Elems(send_buf) /\ Elems(dataCh)' = Elems(dataCh) /\ Elems(probeCh)' = Elems(probeCh)
  BY <1>0 DEF Elems
<1>w. WriterPlace' /\ Covered'
  BY <1>0, <1>e DEF SeqInv, WriterPlace, Covered, SeqEnd
<1>1. CASE OfoAdd
  <2>1. UNCHANGED <<rcv_nxt, rcv_stream, ackCh>> /\ rx'.pc = "move" /\ rx.pc = "lock"
    BY <1>1 DEF OfoAdd, TypeInv, RcvTypeOK
  <2>2. rcv_ofo_buf' \subseteq rcv_ofo_buf \cup Held
    <3>1. SeqEnd(rx.seg) \in Nat /\ rcv_nxt \in Nat
      BY DEF TypeInv, RcvTypeOK, SegmentType, SeqEnd
    <3> QED
      BY <1>1, <2>1, <3>1 DEF OfoAdd, Held
  <2>3. Held' = {}
    BY <2>1 DEF Held
  <2>4. Sent' \subseteq Sent
    BY <1>e, <2>2, <2>3 DEF Sent
  <2>5. Acked' = Acked
    BY <1>0, <2>1 DEF Acked, Elems
  <2>6. SetsInv'
    BY <1>0, <2>1, <2>4, <2>5, SetsShrink DEF SeqInv
  <2> QED
    BY <1>e, <1>w, <2>1, <2>6 DEF SeqInv, ProbesOld, RcvStreamIntact, SeqEnd
<1>2. CASE OfoMove
  <2>1. PICK e \in rcv_ofo_buf :
          /\ e.seq = rcv_nxt /\ rcv_nxt' = rcv_nxt + e.len /\ rcv_ofo_buf' = rcv_ofo_buf \ {e}
          /\ rx' = [rx EXCEPT !.moved = TRUE] /\ rx.pc = "move" /\ UNCHANGED ackCh
    BY <1>2 DEF OfoMove, Movable
  <2>2. rx'.pc = "move"
    BY <2>1 DEF TypeInv, RcvTypeOK
  <2>3. e \in Sent /\ e \in Entries /\ rcv_nxt' = SeqEnd(e) /\ Sent' \subseteq Sent
    <3>1. Held' = {}
      BY <2>2 DEF Held
    <3> QED
      BY <1>e, <2>1, <3>1, SentType DEF Sent, SeqEnd
  <2>4. /\ SeqEnd(e) \in Nat /\ SeqEnd(e) <= snd_nxt /\ rcv_nxt <= SeqEnd(e) /\ e.seq <= SeqEnd(e)
        /\ \A m \in Sent : m.seq \in Nat /\ SeqEnd(m) \in Nat
        /\ \A m \in Sent : SeqEnd(e) <= m.seq \/ SeqEnd(m) <= SeqEnd(e)
    <3>1. \A m \in Sent : m \in Entries /\ m.seq \in Nat /\ SeqEnd(m) \in Nat
      BY SentType
    <3>2. SeqEnd(e) \in Nat /\ rcv_nxt \in Nat /\ e.len \in Nat /\ e.seq \in Nat
      BY <2>3, SentType
    <3>3. rcv_nxt <= SeqEnd(e) /\ e.seq <= SeqEnd(e)
      BY <2>1, <3>2 DEF SeqEnd
    <3>4. SeqEnd(e) <= snd_nxt
      BY <2>3 DEF SeqInv, SetsInv, SegmentsTrue
    <3>5. ASSUME NEW m \in Sent PROVE SeqEnd(e) <= m.seq \/ SeqEnd(m) <= SeqEnd(e)
      <4>1. m = e \/ SeqEnd(e) <= m.seq \/ SeqEnd(m) <= e.seq
        BY <2>3 DEF SeqInv, SetsInv, SegmentsApart
      <4> QED
        BY <3>1, <3>2, <3>3, <4>1
    <3> QED
      BY <3>1, <3>2, <3>3, <3>4, <3>5
  <2>5. Acked' \subseteq Acked \cup {SeqEnd(e)}
    BY <1>0, <2>1, <2>3 DEF Acked, Elems
  <2>6. \A b \in Acked : /\ b \in Nat /\ b <= rcv_nxt
                         /\ \A m \in Sent : b <= m.seq \/ SeqEnd(m) <= b
    BY SentType DEF SeqInv, SetsInv, AckedWhole
  <2>7. SetsInv'
    <3>1. SegmentsTrue' /\ SegmentsApart'
      BY <1>0, <2>3 DEF SeqInv, SetsInv, SegmentsTrue, SegmentsApart, SeqEnd
    <3>2. AckedWhole'
      <4> SUFFICES ASSUME NEW b \in Acked'
                   PROVE  b <= SeqEnd(e) /\ \A m \in Sent' : b <= m.seq \/ SeqEnd(m) <= b
        BY <2>3 DEF AckedWhole, SeqEnd
      <4>1. CASE b = SeqEnd(e)
        BY <2>3, <2>4, <4>1
      <4>2. CASE b \in Acked
        BY <2>3, <2>4, <2>6, <4>2, SentType
      <4> QED
        BY <2>5, <4>1, <4>2
    <3> QED
      BY <1>0, <2>3, <2>4, <3>1, <3>2 DEF SetsInv
  <2>8. ProbesOld'
    <3>1. \A p \in Elems(probeCh) : SeqEnd(p) \in Nat /\ SeqEnd(p) <= rcv_nxt
      BY SentType DEF SeqInv, ProbesOld
    <3>2. \A p \in Elems(probeCh) : SeqEnd(p) <= rcv_nxt'
      BY <2>3, <2>4, <3>1, SentType
    <3> QED
      BY <1>e, <3>2 DEF ProbesOld, SeqEnd
  <2>9. RcvStreamIntact'
    <3>1. OfoTrue
      BY DEF OfoTrue, SeqInv, SetsInv, SegmentsTrue, Sent
    <3> QED
      BY <1>2, <3>1, MovedIsNext DEF TypeInv, SeqInv
  <2> QED
    BY <1>w, <2>7, <2>8, <2>9 DEF SeqInv
<1>3. CASE OfoDone
  <2>1. UNCHANGED <<rcv_nxt, rcv_stream, rcv_ofo_buf>> /\ ackCh' = SendAck /\ rx'.pc = "idle"
    BY <1>3 DEF OfoDone, Idle
  <2>2. Held' = {}
    BY <2>1 DEF Held
  <2>3. Sent' \subseteq Sent
    BY <1>e, <2>1, <2>2 DEF Sent
  <2>4. Acked' \subseteq Acked
    BY <1>0, <2>1, AckedGrows
  <2>5. SetsInv'
    BY <1>0, <2>1, <2>3, <2>4, SetsShrink DEF SeqInv
  <2> QED
    BY <1>e, <1>w, <2>1, <2>5 DEF SeqInv, ProbesOld, RcvStreamIntact, SeqEnd
<1> QED
  BY <1>1, <1>2, <1>3 DEF RxStep

\* A packet that arrives preserves it; a probe is never taken for data.
LEMMA ArriveSeq ==
  ASSUME TypeInv, SeqInv, NEW m \in Entries, m \in Elems(dataCh) \/ SeqEnd(m) <= rcv_nxt,
         RcvData(m) \/ RcvEmpty(m),
         UNCHANGED sndOthers, Elems(dataCh') \subseteq Elems(dataCh), Elems(probeCh') \subseteq Elems(probeCh)
  PROVE  SeqInv'
<1>0. UNCHANGED <<send_buf, snd_una, snd_nxt, state, written, writer>>
  BY DEF sndOthers
<1>1. UNCHANGED <<rcv_nxt, rcv_stream, rcv_ofo_buf>> /\ ackCh' \in {ackCh, SendAck}
  BY DEF RcvData, RcvEmpty
<1>e. Elems(send_buf)' = Elems(send_buf) /\ Elems(dataCh)' \subseteq Elems(dataCh) /\ Elems(probeCh)' \subseteq Elems(probeCh)
  BY <1>0 DEF Elems
<1>2. Held' \subseteq Elems(dataCh) \cup Held
  <2>0. SeqEnd(m) \in Nat /\ rcv_nxt \in Nat
    BY SentType
  <2>1. CASE RcvData(m)
    <3>1. rx'.pc = "lock" /\ rx'.seg = m
      BY <2>1 DEF RcvData
    <3> QED
      BY <1>1, <2>0, <3>1 DEF Held, SeqEnd
  <2>2. CASE RcvEmpty(m)
    BY <1>1, <2>2 DEF RcvEmpty, Held, SeqEnd
  <2> QED
    BY <2>1, <2>2
<1>3. Sent' \subseteq Sent
  BY <1>1, <1>e, <1>2 DEF Sent
<1>4. Acked' \subseteq Acked
  BY <1>0, <1>1, AckedGrows
<1>5. SetsInv'
  BY <1>0, <1>1, <1>3, <1>4, SetsShrink DEF SeqInv
<1>6. WriterPlace' /\ Covered'
  BY <1>0, <1>e DEF SeqInv, WriterPlace, Covered, SeqEnd
<1> QED
  BY <1>1, <1>e, <1>5, <1>6 DEF SeqInv, ProbesOld, RcvStreamIntact, SeqEnd

\* tcp_sock_read touches none of it.
LEMMA ReaderSeq ==
  ASSUME SeqInv, ReaderStep, UNCHANGED sndVars PROVE SeqInv'
<1>1. UNCHANGED <<send_buf, dataCh, probeCh, snd_una, snd_nxt, state, written, writer>>
  BY DEF sndVars
<1>2. UNCHANGED <<ackCh, rcv_nxt, rcv_ofo_buf, rcv_stream, rx>>
  BY DEF ReaderStep, ReadEmpty, ReadSleep, ReadWoken, ReadCopy, ReadStore
<1>3. WriterPlace'
  BY <1>1 DEF SeqInv, WriterPlace
<1> QED
  BY <1>1, <1>2, <1>3, SeqSame

\* A packet that is lost leaves the others as they were.
LEMMA LossSeq ==
  ASSUME TypeInv, SeqInv, UNCHANGED sndOthers, UNCHANGED rcvOthers,
         Elems(dataCh') \subseteq Elems(dataCh), Elems(probeCh') \subseteq Elems(probeCh),
         Elems(ackCh') \subseteq Elems(ackCh)
  PROVE  SeqInv'
<1>0. UNCHANGED <<send_buf, snd_una, snd_nxt, state, written, writer, rcv_nxt, rcv_stream, rcv_ofo_buf, rx>>
  BY DEF sndOthers, rcvOthers
<1>e. /\ Elems(send_buf)' = Elems(send_buf) /\ Elems(dataCh)' \subseteq Elems(dataCh)
      /\ Elems(probeCh)' \subseteq Elems(probeCh) /\ Elems(ackCh)' \subseteq Elems(ackCh)
  BY <1>0 DEF Elems
<1>1. Held' = Held
  BY <1>0 DEF Held, SeqEnd
<1>2. Sent' \subseteq Sent /\ Acked' \subseteq Acked
  BY <1>0, <1>1, <1>e DEF Sent, Acked
<1>3. SetsInv'
  BY <1>0, <1>2, SetsShrink DEF SeqInv
<1>4. WriterPlace' /\ Covered'
  BY <1>0, <1>e DEF SeqInv, WriterPlace, Covered, SeqEnd
<1> QED
  BY <1>0, <1>3, <1>4, <1>e DEF SeqInv, ProbesOld, RcvStreamIntact, SeqEnd

\* Every step of a transfer whose writes go out whole preserves the invariant.
LEMMA SeqInvStep ==
  ASSUME TypeInv, SeqInv, SentWhole, [Next]_vars PROVE SeqInv'
<1>0. dataCh \in Seq(Entries) /\ probeCh \in Seq(Entries) /\ ackCh \in Seq(Acks)
  BY DEF TypeInv, SndInv, SndTypeOK, RcvTypeOK, Entries, Acks
<1>1. CASE (WriterStep \/ TimerStep) /\ UNCHANGED rcvVars
  BY <1>1, WriterSeq, TimerSeq
<1>2. CASE (RxStep \/ ReaderStep) /\ UNCHANGED sndVars
  BY <1>2, RxSeq, ReaderSeq
<1>3. CASE DeliverData
  <2>1. PICK i \in Deliverable(dataCh) :
          /\ dataCh' = Without(dataCh, i) /\ UNCHANGED sndOthers /\ probeCh' = probeCh
          /\ RcvData(dataCh[i]) \/ RcvEmpty(dataCh[i])
    BY <1>3 DEF DeliverData
  <2> DEFINE m == dataCh[i]
  <2>2. m \in Entries /\ m \in Elems(dataCh) /\ Elems(dataCh') \subseteq Elems(dataCh)
    BY <1>0, <2>1, WithoutElems
  <2>3. RcvData(m) \/ RcvEmpty(m)
    BY <2>1
  <2> HIDE DEF m
  <2> QED
    BY <2>1, <2>2, <2>3, ArriveSeq
<1>4. CASE DeliverProbe
  <2>1. PICK i \in Deliverable(probeCh) :
          /\ probeCh' = Without(probeCh, i) /\ UNCHANGED sndOthers /\ dataCh' = dataCh
          /\ RcvData(probeCh[i])
    BY <1>4 DEF DeliverProbe
  <2> DEFINE m == probeCh[i]
  <2>2. m \in Entries /\ m \in Elems(probeCh) /\ Elems(probeCh') \subseteq Elems(probeCh)
    BY <1>0, <2>1, WithoutElems
  <2>3. SeqEnd(m) <= rcv_nxt
    BY <2>2 DEF SeqInv, ProbesOld
  <2>4. RcvData(m)
    BY <2>1
  <2> HIDE DEF m
  <2> QED
    BY <2>1, <2>2, <2>3, <2>4, ArriveSeq
<1>5. ASSUME NEW i \in Deliverable(ackCh), DropAck(i) PROVE SeqInv'
  <2>1. Elems(ackCh') \subseteq Elems(ackCh)
    BY <1>0, <1>5, WithoutElems DEF DropAck
  <2>2. UNCHANGED sndOthers /\ UNCHANGED rcvOthers /\ dataCh' = dataCh /\ probeCh' = probeCh
    BY <1>5 DEF DropAck, sndVars, sndOthers
  <2> QED
    BY <2>1, <2>2, LossSeq
<1>6. CASE DeliverAck
  BY <1>5, <1>6, AckSeq DEF DeliverAck
<1>7. CASE LoseAck
  BY <1>5, <1>7 DEF LoseAck
<1>8. CASE LoseData
  <2>1. Elems(dataCh') \subseteq Elems(dataCh) /\ Elems(probeCh') \subseteq Elems(probeCh)
    <3>1. CASE \E i \in Deliverable(dataCh) : dataCh' = Without(dataCh, i) /\ UNCHANGED probeCh
      BY <1>0, <3>1, WithoutElems
    <3>2. CASE \E i \in Deliverable(probeCh) : probeCh' = Without(probeCh, i) /\ UNCHANGED dataCh
      BY <1>0, <3>2, WithoutElems
    <3> QED
      BY <1>8, <3>1, <3>2 DEF LoseData
  <2>2. UNCHANGED sndOthers /\ UNCHANGED rcvOthers /\ ackCh' = ackCh
    BY <1>8 DEF LoseData, rcvVars, rcvOthers
  <2> QED
    BY <2>1, <2>2, LossSeq
<1>9. CASE UNCHANGED vars
  <2>1. /\ UNCHANGED sndOthers /\ UNCHANGED rcvOthers /\ dataCh' = dataCh /\ probeCh' = probeCh
        /\ ackCh' = ackCh
    BY <1>9 DEF vars, sndVars, sndOthers, rcvVars, rcvOthers
  <2> QED
    BY <2>1, LossSeq
<1> QED
  BY <1>1, <1>2, <1>3, <1>4, <1>6, <1>7, <1>8, <1>9 DEF Next

\* A connection fresh from the handshake has nothing under way.
LEMMA SeqInvInit == Init => SeqInv
<1> SUFFICES ASSUME Init PROVE SeqInv
  OBVIOUS
<1> USE DEF Init, SndInit, RcvInit
<1>1. Elems(send_buf) = {} /\ Elems(dataCh) = {} /\ Elems(probeCh) = {} /\ Elems(ackCh) = {}
  BY DEF Elems
<1>2. Sent = {} /\ Acked = {1}
  <2>1. Held = {}
    BY DEF Held, Idle
  <2> QED
    BY <1>1, <2>1 DEF Sent, Acked
<1>3. SetsInv
  BY <1>2 DEF SetsInv, SegmentsTrue, SegmentsApart, AckedWhole
<1>4. WriterPlace /\ ProbesOld /\ Covered /\ RcvStreamIntact
  BY <1>1 DEF WriterPlace, ProbesOld, Covered, RcvStreamIntact, WriterAtApp
<1> QED
  BY <1>3, <1>4 DEF SeqInv

\* As long as every write goes out in one piece, the server's ring buffer holds the client's
\* stream, for every size and bound, with losses, repetitions and reordering, and whatever
\* the mutexes do (tcp_process, tcp_retrans_send_buffer, tcp_send_probe_packet).
THEOREM TransferStreamIntact == Spec /\ []SentWhole => []StreamIntact
<1>1. SeqInv => StreamIntact
  BY DEF SeqInv, StreamIntact
<1> QED
  BY TypeInvInit, TypeInvStep, SeqInvInit, SeqInvStep, <1>1, PTL DEF Spec

\* Under the same hypothesis the client takes nothing for acknowledged that the server has
\* not received, and the server expects nothing that the client will not send next.
THEOREM EndsAgree == Spec /\ []SentWhole => []SequenceAgreement
<1>1. SeqInv => SequenceAgreement
  BY DEF SeqInv, SetsInv, AckedWhole, Acked, SequenceAgreement
<1> QED
  BY TypeInvInit, TypeInvStep, SeqInvInit, SeqInvStep, <1>1, PTL DEF Spec

\* Under the same hypothesis no byte in flight has been released from send_buf
\* (tcp_update_send_buffer), so that every loss can be repaired.
THEOREM InFlightIsBuffered == Spec /\ []SentWhole => []UnackedIsBuffered
<1>1. ASSUME TypeInv, SeqInv PROVE UnackedIsBuffered
  <2> SUFFICES ASSUME NEW s \in snd_una..(snd_nxt - 1)
               PROVE  \E i \in 1..Len(send_buf) :
                        s \in send_buf[i].seq..(send_buf[i].seq + send_buf[i].len - 1)
    BY DEF UnackedIsBuffered
  <2>1. PICK e \in Elems(send_buf) : e.seq <= s /\ s < SeqEnd(e)
    BY <1>1 DEF SeqInv, Covered
  <2>2. s \in Int /\ e.seq \in Nat /\ e.len \in Nat /\ SeqEnd(e) = e.seq + e.len
    BY <1>1, SentType DEF SeqEnd
  <2>3. s \in e.seq..(e.seq + e.len - 1)
    BY <2>1, <2>2
  <2> QED
    BY <2>1, <2>3 DEF Elems
<1> QED
  BY TypeInvInit, TypeInvStep, SeqInvInit, SeqInvStep, <1>1, PTL DEF Spec

-----------------------------------------------------------------------------
(* The timers and the sleeping writer.  Whatever is in send_buf is guarded *)
(* by the retransmission timer; when nothing is in flight, the persist     *)
(* timer runs exactly while the window is shut; and a writer that goes to  *)
(* sleep although neither is the case has been notified in the meantime.   *)

BufferIsTimed == state = "ESTABLISHED" /\ send_buf # <<>> => retrans_timer.enable

PersistWhenShut ==
  state = "ESTABLISHED" /\ snd_una = snd_nxt =>
    (persist_timer <=> ~ WindowTest(snd_una, snd_nxt, snd_wnd))

WriterAsleep ==
  "writer" \in wait_send.waiters =>
    writer.pc = "blocked" /\ wait_send.sleep /\ ~ wait_send.notified

Dozing == writer.pc = "sleep" \/ (writer.pc = "blocked" /\ "writer" \in wait_send.waiters)

DozingIsNoticed ==
  state = "ESTABLISHED" /\ Dozing => wait_send.notified \/ snd_una < snd_nxt \/ persist_timer

StallInv ==
  /\ state = "ESTABLISHED" => ~ wait_send.dead
  /\ BufferIsTimed /\ PersistWhenShut /\ WriterAsleep /\ DozingIsNoticed

\* tcp_sock_write preserves it, although it tests the window and goes to sleep in two steps.
LEMMA WriterStall ==
  ASSUME TypeInv, SeqInv, SentWhole, StallInv, WriterStep PROVE StallInv'
<1> USE DEF StallInv, BufferIsTimed, PersistWhenShut, WriterAsleep, Dozing, DozingIsNoticed
<1>0. /\ writer \in [pc : {"app", "test", "sleep", "blocked", "size", "send"},
                     base : Nat, len : Nat, sent : Nat, n : Nat]
      /\ wait_send \in WaitStructs({"writer"})
      /\ snd_una \in Nat /\ snd_nxt \in Nat /\ snd_una <= snd_nxt
  <2>1. snd_una <= rcv_nxt /\ rcv_nxt <= snd_nxt
    BY DEF SeqInv, SetsInv, AckedWhole, Acked
  <2> QED
    BY <2>1, SentType DEF TypeInv, SndInv, SndTypeOK
<1>1. CASE WriteCall
  <2>1. writer'.pc # "sleep" /\ writer'.pc # "blocked" /\ writer.pc = "app"
    BY <1>1 DEF WriteCall
  <2> QED
    BY <1>1, <2>1 DEF WriteCall
<1>2. CASE WriteTest
  <2>1. /\ writer.pc = "test" /\ writer'.pc \in {"size", "sleep"}
        /\ writer'.pc = "sleep" => ~ WindowTest(snd_una, snd_nxt, snd_wnd)
        /\ UNCHANGED <<state, snd_una, snd_nxt, snd_wnd, send_buf, retrans_timer, persist_timer, wait_send>>
    BY <1>0, <1>2 DEF WriteTest
  <2> QED
    BY <1>0, <2>1 DEF WindowTest
<1>3. CASE WriteSleep
  <2>1. /\ writer.pc = "sleep"
        /\ UNCHANGED <<state, snd_una, snd_nxt, snd_wnd, send_buf, retrans_timer, persist_timer>>
    BY <1>3 DEF WriteSleep
  <2>2. CASE wait_send.dead
    <3>1. wait_send' = wait_send /\ writer'.pc = "test"
      BY <1>0, <1>3, <2>2 DEF WriteSleep, Sleep, SleepReturnsAtOnce
    <3> QED
      BY <2>1, <2>2, <3>1
  <2>3. CASE ~ wait_send.dead /\ wait_send.notified
    <3>1. /\ writer'.pc = "test"
          /\ wait_send' = [wait_send EXCEPT !.notified = FALSE, !.sleep = FALSE]
      BY <1>0, <1>3, <2>3 DEF WriteSleep, Sleep, SleepReturnsAtOnce
    <3> QED
      BY <1>0, <2>1, <2>3, <3>1 DEF WaitStructs
  <2>4. CASE ~ wait_send.dead /\ ~ wait_send.notified
    <3>1. /\ writer'.pc = "blocked"
          /\ wait_send' = [wait_send EXCEPT !.sleep = TRUE, !.waiters = wait_send.waiters \cup {"writer"}]
      BY <1>0, <1>3, <2>4 DEF WriteSleep, Sleep, SleepReturnsAtOnce
    <3> QED
      BY <1>0, <2>1, <2>4, <3>1 DEF WaitStructs
  <2> QED
    BY <2>2, <2>3, <2>4
<1>4. CASE WriteWoken
  <2>1. /\ writer'.pc = "test" /\ "writer" \notin wait_send.waiters
        /\ wait_send' = [wait_send EXCEPT !.notified = FALSE, !.sleep = FALSE]
        /\ UNCHANGED <<state, snd_una, snd_nxt, snd_wnd, send_buf, retrans_timer, persist_timer>>
    BY <1>0, <1>4 DEF WriteWoken, Resume
  <2> QED
    BY <1>0, <2>1 DEF WaitStructs
<1>5. CASE WriteSize
  <2>1. /\ writer.pc = "size" /\ writer'.pc = "send"
        /\ UNCHANGED <<state, snd_una, snd_nxt, snd_wnd, send_buf, retrans_timer, persist_timer, wait_send>>
    BY <1>0, <1>5 DEF WriteSize
  <2> QED
    BY <2>1
<1>6. CASE WriteSend
  <2>1. writer.pc = "send" /\ writer.n = writer.len /\ writer.len > 0 /\ writer.len \in Nat
    BY <1>0, <1>6 DEF WriteSend, SentWhole, SeqInv, WriterPlace
  <2>2. snd_nxt' = snd_nxt + writer.len /\ snd_una' = snd_una /\ snd_una < snd_nxt'
    BY <1>0, <1>6, <2>1 DEF WriteSend
  <2>3. retrans_timer'.enable
    BY <1>6 DEF WriteSend, SetRetransTimer, TypeInv, SndInv, SndTypeOK
  <2>4. "writer" \notin wait_send.waiters /\ UNCHANGED <<state, wait_send>>
    BY <1>6, <2>1 DEF WriteSend
  <2> QED
    BY <2>2, <2>3, <2>4
<1> QED
  BY <1>1, <1>2, <1>3, <1>4, <1>5, <1>6 DEF WriterStep

\* The timer thread preserves it.
LEMMA TimerStall ==
  ASSUME TypeInv, StallInv, TimerStep PROVE StallInv'
<1> USE DEF StallInv, BufferIsTimed, PersistWhenShut, WriterAsleep, Dozing, DozingIsNoticed
<1>0. wait_send \in WaitStructs({"writer"}) /\ retrans_timer \in RetransTimers
  BY DEF TypeInv, SndInv, SndTypeOK, RetransTimers
<1>1. CASE RetransTimeout
  <2>1. /\ retrans_timer'.enable /\ state = "ESTABLISHED"
        /\ UNCHANGED <<state, snd_una, snd_nxt, snd_wnd, send_buf, persist_timer, writer>>
    BY <1>0, <1>1 DEF RetransTimeout, RetransTimers
  <2>2. CASE UNCHANGED wait_send
    BY <2>1, <2>2
  <2>3. CASE wait_send' \in WakeUps(wait_send)
    <3>1. ~ wait_send'.dead /\ wait_send'.notified /\ "writer" \notin wait_send'.waiters
      BY <1>0, <2>1, <2>3, WakeUpWakes
    <3> QED
      BY <2>1, <3>1
  <2> QED
    BY <1>1, <2>2, <2>3 DEF RetransTimeout
<1>2. CASE GiveUp
  <2>1. wait_send' = WaitExit(wait_send) /\ state' = "CLOSED" /\ state = "ESTABLISHED" /\ writer' = writer
    BY <1>2 DEF GiveUp
  <2>2. "writer" \notin wait_send'.waiters
    <3>1. wait_send' = [wait_send EXCEPT !.dead = TRUE,
                                         !.waiters = IF wait_send.sleep THEN {} ELSE wait_send.waiters]
      BY <2>1 DEF WaitExit
    <3> QED
      BY <1>0, <3>1 DEF WaitStructs
  <2> QED
    BY <2>1, <2>2
<1>3. CASE PersistTimeout
  BY <1>3 DEF PersistTimeout
<1>4. CASE TimerOfClosed
  <2>1. state' = "CLOSED" /\ UNCHANGED <<wait_send, writer>>
    BY <1>4 DEF TimerOfClosed
  <2> QED
    BY <2>1
<1> QED
  BY <1>1, <1>2, <1>3, <1>4 DEF TimerStep

\* An ACK preserves it: tcp_update_window starts the persist timer or wakes the writer.
LEMMA AckStall ==
  ASSUME TypeInv, SeqInv, StallInv, NEW a \in Acks, RcvAck(a) PROVE StallInv'
<1> USE DEF StallInv, BufferIsTimed, PersistWhenShut, WriterAsleep, Dozing, DozingIsNoticed
<1>0. /\ wait_send \in WaitStructs({"writer"}) /\ retrans_timer \in RetransTimers
      /\ send_buf \in Seq(Entries) /\ a.ack \in Nat
      /\ snd_una \in Nat /\ snd_nxt \in Nat /\ state = "ESTABLISHED"
  BY SentType DEF TypeInv, SndInv, SndTypeOK, RetransTimers, Acks, Entries, RcvAck
<1> DEFINE buf  == SendBufAfter(a.ack)
           cwnd == CcAfter(CcOnAck(cc, a.ack)).cwnd
           w    == Lesser(a.rwnd, cwnd)
<1>1. /\ send_buf' = buf /\ retrans_timer' = RetransTimerAfter(buf)
      /\ UNCHANGED <<state, snd_nxt, writer>>
  BY DEF RcvAck
<1>2. buf # <<>> => send_buf # <<>>
  <2>1. \E n \in 0..Len(send_buf) : buf = SubSeq(send_buf, n + 1, Len(send_buf))
    BY <1>0, SendBufAfterElems
  <2> HIDE DEF buf
  <2>2. CASE send_buf = <<>>
    <3>1. buf = SubSeq(<<>>, 1, 0)
      BY <2>1, <2>2
    <3> QED
      BY <3>1
  <2> QED
    BY <2>2
<1>3. BufferIsTimed'
  <2> HIDE DEF buf
  <2>1. buf # <<>> /\ retrans_timer.enable => retrans_timer'.enable
    BY <1>0, <1>1 DEF RetransTimerAfter, UpdateRetransTimer, RetransTimers
  <2> QED
    BY <1>0, <1>1, <1>2, <2>1
<1>4. \/ wait_send' = wait_send
      \/ ~ wait_send'.dead /\ wait_send'.notified /\ "writer" \notin wait_send'.waiters
  <2>1. wait_send' = wait_send \/ wait_send' \in WakeUps(wait_send)
    BY DEF RcvAck
  <2> QED
    BY <1>0, <2>1, WakeUpWakes
<1>5. /\ ~ wait_send'.dead /\ (wait_send.notified => wait_send'.notified)
      /\ WriterAsleep' /\ (Dozing' => Dozing)
  BY <1>0, <1>1, <1>4
<1>6. CASE UpdateWindowSafe(a.ack)
  <2>1. /\ snd_una' = a.ack /\ snd_wnd' = w /\ snd_una' <= snd_nxt
        /\ persist_timer' = ~ WindowTest(a.ack, snd_nxt, w)
    BY <1>6 DEF RcvAck, UpdateWindow, PersistTimerAfter, Opens, UpdateWindowSafe
  <2>2. PersistWhenShut'
    BY <1>1, <2>1 DEF WindowTest
  <2>3. WindowTest(a.ack, snd_nxt, w) => wait_send'.notified
    <3>1. WindowTest(a.ack, snd_nxt, w) => wait_send' \in WakeUps(wait_send)
      BY <1>6 DEF RcvAck, Opens
    <3> QED
      BY <1>0, <3>1, WakeUpWakes
  <2>4. DozingIsNoticed'
    BY <2>1, <2>3
  <2> QED
    BY <1>1, <1>3, <1>5, <2>2, <2>4
<1>7. CASE ~ UpdateWindowSafe(a.ack)
  <2>1. UNCHANGED <<snd_una, snd_wnd, persist_timer>>
    BY <1>7 DEF RcvAck
  <2> QED
    BY <1>0, <1>1, <1>3, <1>5, <2>1 DEF WindowTest
<1> QED
  BY <1>6, <1>7

\* Every step of the transfer preserves it.
LEMMA StallInvStep ==
  ASSUME TypeInv, SeqInv, SentWhole, StallInv, [Next]_vars PROVE StallInv'
<1>1. ASSUME UNCHANGED sndOthers PROVE StallInv'
  BY <1>1 DEF sndOthers, StallInv, BufferIsTimed, PersistWhenShut, WriterAsleep, Dozing,
              DozingIsNoticed, WindowTest
<1>2. CASE WriterStep \/ TimerStep
  BY <1>2, WriterStall, TimerStall
<1>3. UNCHANGED sndVars => UNCHANGED sndOthers
  BY DEF sndVars, sndOthers
<1>4. CASE DeliverData \/ DeliverProbe \/ LoseData
  BY <1>1, <1>4 DEF DeliverData, DeliverProbe, LoseData
<1>5. ASSUME NEW i \in Deliverable(ackCh), RcvAck(ackCh[i]) PROVE StallInv'
  <2>1. ackCh \in Seq(Acks)
    BY DEF TypeInv, RcvTypeOK, Acks
  <2>2. ackCh[i] \in Acks
    BY <2>1, WithoutElems
  <2> QED
    BY <1>5, <2>2, AckStall
<1>6. CASE DeliverAck \/ LoseAck
  BY <1>1, <1>3, <1>5, <1>6 DEF DeliverAck, LoseAck, DropAck
<1>7. UNCHANGED vars => UNCHANGED sndVars
  BY DEF vars
<1> QED
  BY <1>1, <1>2, <1>3, <1>4, <1>6, <1>7 DEF Next

\* The persist timer runs when the handshake is over (snd_wnd is still 0).
LEMMA StallInvInit == Init => StallInv
BY MSSAssumption
DEF Init, SndInit, StallInv, BufferIsTimed, PersistWhenShut, WriterAsleep, Dozing, DozingIsNoticed,
    WaitInit, WriterAtApp, WindowTest

\* What the last two theorems need of a state.
LEMMA TimedOrProbed ==
  ASSUME TypeInv, SeqInv, StallInv PROVE InFlightIsTimed /\ NoSilentStall
<1>1. snd_una < snd_nxt => send_buf # <<>>
  <2> SUFFICES ASSUME snd_una < snd_nxt PROVE send_buf # <<>>
    OBVIOUS
  <2>1. snd_una \in snd_una..(snd_nxt - 1)
    BY SentType
  <2>2. PICK e \in Elems(send_buf) : TRUE
    BY <2>1 DEF SeqInv, Covered
  <2> QED
    BY <2>2 DEF Elems
<1>2. InFlightIsTimed
  BY <1>1 DEF StallInv, BufferIsTimed, InFlightIsTimed
<1>3. NoSilentStall
  BY <1>2 DEF StallInv, WriterAsleep, Dozing, DozingIsNoticed, InFlightIsTimed, NoSilentStall
<1> QED
  BY <1>2, <1>3

\* As long as every write goes out in one piece, data in flight is guarded by the
\* retransmission timer, although every ACK may stop it and every write starts it
\* (tcp_update_send_buffer, tcp_send_buffer_add_packet).
THEOREM InFlightTimed == Spec /\ []SentWhole => []InFlightIsTimed
BY TypeInvInit, TypeInvStep, SeqInvInit, SeqInvStep, StallInvInit, StallInvStep, TimedOrProbed,
   PTL DEF Spec

\* Under the same hypothesis a writer that sleeps has a wake-up or a timer coming
\* (tcp_sock_write, tcp_update_window).
THEOREM WriterNeverStalls == Spec /\ []SentWhole => []NoSilentStall
BY TypeInvInit, TypeInvStep, SeqInvInit, SeqInvStep, StallInvInit, StallInvStep, TimedOrProbed,
   PTL DEF Spec

-----------------------------------------------------------------------------
(* The window.  Where unlocking a mutex that another thread owns fails,    *)
(* rcv_wnd is exact, and the right edge of the window, rcv_nxt plus the    *)
(* free space, is RcvBufSize + 1 + rcv_read: it only moves with the reader *)
(* and to the right.  No advertisement, however late or overtaken, ever    *)
(* reaches beyond it, so no segment does either, and a segment that is     *)
(* next in order always fits.                                              *)

Edge == RcvBufSize + 1 + rcv_read

OfoFresh == \A e \in rcv_ofo_buf : SeqEnd(e) > rcv_nxt

LockMeans == (reader.pc = "store" <=> rcv_buf_lock = "reader") /\ (rcv_buf_lock = "rx" => rx.pc = "move")

LoadedWnd == reader.pc = "store" => reader.wnd = rcv_wnd

UnlockedMovesNothing ==
  rx.pc = "move" /\ rcv_buf_lock # "rx" => \A e \in rcv_ofo_buf : e.seq # rcv_nxt

WndInv == WndIsFree /\ OfoFresh /\ LockMeans /\ LoadedWnd /\ UnlockedMovesNothing /\ NothingStranded

AdvertisedFits == (\A a \in Elems(ackCh) : a.ack + a.rwnd <= Edge) /\ snd_una + snd_wnd <= Edge

WriterFits ==
  /\ snd_nxt <= Edge
  /\ writer.pc = "size" => snd_nxt + MSS <= Edge
  /\ writer.pc = "send" => snd_nxt + writer.n <= Edge

EdgeInv == AdvertisedFits /\ WriterFits

\* The free space in terms of the sequence numbers.
LEMMA FreeToEdge ==
  ASSUME TypeInv, SeqInv
  PROVE  /\ Free = Edge - rcv_nxt /\ rcv_read \in Nat /\ rcv_nxt \in Nat /\ rcv_read < rcv_nxt
         /\ Free \in Int /\ Free <= RcvBufSize /\ Edge \in Nat
<1> DEFINE L == Len(rcv_stream)
<1>1. L \in Nat /\ rcv_read \in 0..L
  BY DEF TypeInv, RcvTypeOK
<1>2. rcv_nxt = L + 1
  BY DEF SeqInv, RcvStreamIntact
<1>3. Free = RcvBufSize - (L - rcv_read)
  BY DEF Free, Used
<1> HIDE DEF L
<1> QED
  BY <1>1, <1>2, <1>3, RcvBufSizeAssumption DEF Edge

\* Every entry of the out-of-order buffer starts at rcv_nxt or later.
LEMMA OfoAhead ==
  ASSUME TypeInv, SeqInv, OfoFresh
  PROVE  \A e \in rcv_ofo_buf : /\ e \in Entries /\ e \in Sent /\ rcv_nxt <= e.seq
                                /\ e.seq \in Nat /\ e.len \in Nat /\ e.len > 0
<1> SUFFICES ASSUME NEW e \in rcv_ofo_buf
             PROVE  /\ e \in Entries /\ e \in Sent /\ rcv_nxt <= e.seq
                    /\ e.seq \in Nat /\ e.len \in Nat /\ e.len > 0
  OBVIOUS
<1>1. e \in Sent /\ rcv_nxt \in Acked
  BY DEF Sent, Acked
<1>2. rcv_nxt <= e.seq \/ SeqEnd(e) <= rcv_nxt
  BY <1>1 DEF SeqInv, SetsInv, AckedWhole
<1>3. e \in Entries /\ e.seq \in Nat /\ e.len \in Nat /\ SeqEnd(e) \in Nat /\ rcv_nxt \in Nat
  BY <1>1, SentType
<1>4. SeqEnd(e) > rcv_nxt
  BY DEF OfoFresh
<1>5. e.len > 0
  BY <1>1 DEF SeqInv, SetsInv, SegmentsTrue
<1> QED
  BY <1>1, <1>2, <1>3, <1>4, <1>5

\* A window within its bounds is not cut by its 16 bits.
LEMMA WndExact == \A x \in 0..RcvBufSize : Wnd(x) = x
BY RcvBufSizeAssumption DEF Wnd

\* The receive thread keeps rcv_wnd exact and strands nothing.
LEMMA RxWnd ==
  ASSUME MutexKind = "errorcheck", TypeInv, TypeInv', SeqInv, SeqInv', WndInv, EdgeInv, RxStep
  PROVE  WndInv'
<1> USE DEF WndInv
<1>0. /\ Free = Edge - rcv_nxt /\ rcv_nxt \in Nat /\ Free \in Int /\ Free <= RcvBufSize /\ Edge \in Nat
      /\ rcv_wnd \in 0..RcvBufSize /\ reader.n \in Nat /\ reader.wnd \in 0..RcvBufSize
      /\ rx \in [pc : {"idle", "lock", "move"}, seg : SegmentType, moved : BOOLEAN]
      /\ rcv_buf_lock \in {"free", "reader", "rx"}
  BY FreeToEdge DEF TypeInv, RcvTypeOK
<1>1. CASE OfoAdd
  <2>1. /\ rx.pc = "lock" /\ rcv_buf_lock = "free" /\ rx'.pc = "move" /\ rx'.seg = rx.seg
        /\ UNCHANGED <<rcv_nxt, rcv_wnd, rcv_stream, rcv_read, reader>>
    BY <1>0, <1>1 DEF OfoAdd
  <2>2. WndIsFree' /\ LoadedWnd'
    BY <2>1 DEF WndIsFree, LoadedWnd, Free, Used
  <2>3. CASE SeqEnd(rx.seg) <= rcv_nxt /\ UNCHANGED <<rcv_ofo_buf, rcv_buf_lock>>
    <3>1. \A e \in rcv_ofo_buf : e.seq # rcv_nxt
      BY <2>1, OfoAhead DEF NothingStranded
    <3> QED
      BY <2>1, <2>2, <2>3, <3>1
      DEF OfoFresh, LockMeans, UnlockedMovesNothing, NothingStranded, SeqEnd
  <2>4. CASE /\ SeqEnd(rx.seg) > rcv_nxt /\ rcv_buf_lock' = "rx"
             /\ rcv_ofo_buf' \subseteq rcv_ofo_buf \cup {rx.seg}
    BY <2>1, <2>2, <2>4 DEF OfoFresh, LockMeans, UnlockedMovesNothing, NothingStranded, SeqEnd
  <2> QED
    BY <1>1, <2>3, <2>4 DEF OfoAdd
<1>2. CASE OfoMove
  <2>1. PICK e \in rcv_ofo_buf :
          /\ e.seq = rcv_nxt /\ Free >= e.len /\ rcv_nxt' = rcv_nxt + e.len
          /\ rcv_wnd' = Wnd(rcv_wnd - e.len) /\ rcv_ofo_buf' = rcv_ofo_buf \ {e}
          /\ rx.pc = "move" /\ rx' = [rx EXCEPT !.moved = TRUE]
          /\ UNCHANGED <<rcv_read, rcv_buf_lock, reader>>
    BY <1>2 DEF OfoMove, Movable
  <2>2. rcv_buf_lock = "rx" /\ reader.pc # "store" /\ rx'.pc = "move"
    BY <1>0, <2>1 DEF UnlockedMovesNothing, LockMeans
  <2>3. e.len \in Nat /\ e.seq \in Nat /\ e \in Sent /\ e \in Entries
    BY OfoAhead
  <2>4. WndIsFree'
    <3>1. rcv_wnd = Free
      BY <1>0, <2>2 DEF WndIsFree
    <3>2. rcv_wnd' = Free - e.len
      BY <1>0, <2>1, <2>3, <3>1, WndExact, RcvBufSizeAssumption
    <3>3. Free' = Free - e.len
      <4>1. Free' = Edge' - rcv_nxt'
        <5> DEFINE L == Len(rcv_stream')
        <5>1. L \in Nat /\ rcv_nxt' = L + 1
          BY DEF SeqInv, RcvStreamIntact, TypeInv, RcvTypeOK
        <5>2. Free' = RcvBufSize - (L - rcv_read')
          BY DEF Free, Used
        <5>3. rcv_read \in Nat /\ rcv_read' = rcv_read
          BY <2>1, FreeToEdge
        <5> HIDE DEF L
        <5> QED
          BY <5>1, <5>2, <5>3, RcvBufSizeAssumption DEF Edge
      <4>2. Edge' = Edge
        BY <2>1 DEF Edge
      <4> QED
        BY <1>0, <2>1, <2>3, <4>1, <4>2
    <3> QED
      BY <2>1, <2>2, <3>2, <3>3, <1>0, <2>3 DEF WndIsFree
  <2>5. OfoFresh'
    <3> SUFFICES ASSUME NEW f \in rcv_ofo_buf, f # e PROVE SeqEnd(f) > rcv_nxt'
      BY <2>1 DEF OfoFresh, SeqEnd
    <3>1. /\ f \in Sent /\ f \in Entries /\ rcv_nxt <= f.seq /\ f.seq \in Nat /\ f.len \in Nat /\ f.len > 0
      BY OfoAhead
    <3>2. SeqEnd(f) <= e.seq \/ SeqEnd(e) <= f.seq
      BY <2>3, <3>1 DEF SeqInv, SetsInv, SegmentsApart
    <3>3. SeqEnd(f) = f.seq + f.len /\ SeqEnd(e) = e.seq + e.len
      BY DEF SeqEnd
    <3> QED
      BY <1>0, <2>1, <2>3, <3>1, <3>2, <3>3
  <2> QED
    BY <2>1, <2>2, <2>4, <2>5 DEF LockMeans, LoadedWnd, UnlockedMovesNothing, NothingStranded
<1>3. CASE OfoDone
  <2>1. /\ rx.pc = "move" /\ rcv_buf_lock' = Unlock(rcv_buf_lock, "rx") /\ rx'.pc = "idle"
        /\ UNCHANGED <<rcv_nxt, rcv_wnd, rcv_ofo_buf, rcv_stream, rcv_read, reader>>
        /\ ~ \E e \in rcv_ofo_buf : Movable(e)
    BY <1>3 DEF OfoDone, Idle
  <2>2. NothingStranded'
    <3> SUFFICES ASSUME NEW e \in rcv_ofo_buf, e.seq <= rcv_nxt PROVE FALSE
      BY <2>1 DEF NothingStranded
    <3>1. /\ e \in Entries /\ e \in Sent /\ e.seq \in Nat /\ e.len \in Nat /\ e.seq = rcv_nxt
      BY <1>0, OfoAhead
    <3>2. IsOfoHead(e)
      BY <3>1, OfoAhead DEF IsOfoHead
    <3>3. SeqEnd(e) <= snd_nxt /\ snd_nxt <= Edge /\ snd_nxt \in Nat
      BY <3>1, SentType DEF SeqInv, SetsInv, SegmentsTrue, EdgeInv, WriterFits
    <3>4. Free >= e.len
      BY <1>0, <3>1, <3>3 DEF SeqEnd
    <3> QED
      BY <2>1, <3>1, <3>2, <3>4 DEF Movable
  <2>3. LockMeans'
    BY <1>0, <2>1 DEF LockMeans, Unlock
  <2>4. WndIsFree' /\ LoadedWnd' /\ OfoFresh' /\ UnlockedMovesNothing'
    BY <2>1 DEF WndIsFree, LoadedWnd, OfoFresh, UnlockedMovesNothing, Free, Used, SeqEnd
  <2> QED
    BY <2>2, <2>3, <2>4
<1> QED
  BY <1>1, <1>2, <1>3 DEF RxStep

\* tcp_sock_read keeps it exact: nothing moves between its load and its store of rcv_wnd.
LEMMA ReaderWnd ==
  ASSUME MutexKind = "errorcheck", TypeInv, SeqInv, WndInv, ReaderStep
  PROVE  WndInv'
<1> USE DEF WndInv
<1> DEFINE L == Len(rcv_stream)
<1>0. /\ rcv_wnd \in 0..RcvBufSize /\ reader.wnd \in 0..RcvBufSize
      /\ reader \in [pc : {"call", "sleep", "blocked", "store"}, n : Nat, wnd : 0..RcvBufSize]
      /\ rcv_buf_lock \in {"free", "reader", "rx"} /\ L \in Nat /\ rcv_read \in 0..L
      /\ Free = RcvBufSize - (L - rcv_read) /\ Used = L - rcv_read
  BY DEF TypeInv, RcvTypeOK, Free, Used
<1>1. UNCHANGED <<rcv_nxt, rcv_ofo_buf, rcv_stream, rx>>
  BY DEF ReaderStep, ReadEmpty, ReadSleep, ReadWoken, ReadCopy, ReadStore
<1>2. OfoFresh' /\ NothingStranded'
  BY <1>1 DEF OfoFresh, NothingStranded, SeqEnd
<1>3. CASE ReadEmpty \/ ReadSleep \/ ReadWoken
  <2>1. /\ UNCHANGED <<rcv_wnd, rcv_read, rcv_buf_lock>>
        /\ reader.pc # "store" /\ reader'.pc # "store"
    BY <1>0, <1>3 DEF ReadEmpty, ReadSleep, ReadWoken
  <2> QED
    BY <1>1, <1>2, <2>1
    DEF WndIsFree, LockMeans, LoadedWnd, UnlockedMovesNothing, Free, Used
<1>4. CASE ReadCopy
  <2> DEFINE avail == IF ReadLen < Used THEN ReadLen ELSE Used
  <2>1. /\ reader.pc = "call" /\ rcv_buf_lock = "free" /\ rcv_buf_lock' = "reader"
        /\ rcv_read' = rcv_read + avail /\ reader' = [pc |-> "store", n |-> avail, wnd |-> rcv_wnd]
        /\ UNCHANGED rcv_wnd
    BY <1>4 DEF ReadCopy
  <2>2. avail \in Int
    BY <1>0, ReadLenAssumption
  <2> HIDE DEF avail
  <2>3. reader'.pc = "store" /\ reader'.n = avail /\ reader'.wnd = rcv_wnd
    BY <2>1
  <2>4. rcv_wnd = Free
    BY <1>0, <2>1 DEF WndIsFree
  <2>5. Free' = Free + avail
    <3>1. Free' = RcvBufSize - (L - rcv_read')
      BY <1>1 DEF Free, Used
    <3> HIDE DEF L
    <3> QED
      BY <1>0, <2>1, <2>2, <3>1, RcvBufSizeAssumption
  <2>6. WndIsFree'
    <3>1. Free \in Int
      <4> HIDE DEF L
      <4> QED
        BY <1>0, RcvBufSizeAssumption
    <3> QED
      BY <2>1, <2>2, <2>3, <2>4, <2>5, <3>1 DEF WndIsFree
  <2> QED
    BY <1>1, <1>2, <2>1, <2>3, <2>6 DEF LockMeans, LoadedWnd, UnlockedMovesNothing
<1>5. CASE ReadStore
  <2>1. /\ reader.pc = "store" /\ rcv_wnd = reader.wnd /\ rcv_wnd' = Wnd(rcv_wnd + reader.n)
        /\ rcv_buf_lock = "reader" /\ rcv_buf_lock' = "free" /\ reader'.pc = "call"
        /\ UNCHANGED rcv_read
    BY <1>5 DEF ReadStore, LoadedWnd, LockMeans, Unlock, AtCall
  <2>2. rcv_wnd + reader.n = Free /\ Free \in 0..RcvBufSize
    <3>1. rcv_wnd = Free - reader.n /\ reader.n \in Nat
      BY <1>0, <2>1 DEF WndIsFree
    <3> HIDE DEF L
    <3> QED
      BY <1>0, <3>1, RcvBufSizeAssumption
  <2>3. rcv_wnd' = Free /\ Free' = Free
    BY <1>1, <2>1, <2>2, WndExact DEF Free, Used
  <2>4. WndIsFree'
    <3>1. Free' \in Int
      BY <2>2, <2>3
    <3> QED
      BY <2>1, <2>3, <3>1 DEF WndIsFree
  <2> QED
    BY <1>1, <1>2, <2>1, <2>4 DEF LockMeans, LoadedWnd, UnlockedMovesNothing
<1> QED
  BY <1>3, <1>4, <1>5 DEF ReaderStep

\* Packets that come or go leave the receiver's window alone.
LEMMA NetworkWnd ==
  ASSUME WndInv, UNCHANGED <<rcv_nxt, rcv_wnd, rcv_ofo_buf, rcv_stream, rcv_read, rcv_buf_lock, reader>>,
         rx' = rx \/ (rx.pc = "idle" /\ rx'.pc = "lock")
  PROVE  WndInv'
BY DEF WndInv, WndIsFree, OfoFresh, LockMeans, LoadedWnd, UnlockedMovesNothing, NothingStranded,
       Free, Used, SeqEnd

\* What the receiver advertises lies within the edge.
LEMMA AckFits ==
  ASSUME TypeInv, SeqInv, WndInv, AdvertisedFits, ackCh' \in {ackCh, SendAck}
  PROVE  \A a \in Elems(ackCh)' : a \in Acks /\ a.ack + a.rwnd <= Edge
<1> DEFINE b == [ack |-> rcv_nxt, rwnd |-> rcv_wnd]
<1>1. ackCh \in Seq(Acks) /\ b \in Acks
  BY DEF TypeInv, RcvTypeOK, Acks
<1>2. b.ack + b.rwnd <= Edge
  <2>1. rcv_wnd \in Nat /\ reader.n \in Nat
    BY RcvBufSizeAssumption DEF TypeInv, RcvTypeOK
  <2>2. rcv_wnd = Free \/ rcv_wnd = Free - reader.n
    <3>1. Free \in Int
      BY FreeToEdge
    <3> QED
      BY <3>1 DEF WndInv, WndIsFree
  <2> QED
    BY <2>1, <2>2, FreeToEdge
<1> HIDE DEF b
<1>3. Elems(Send(ackCh, b)) \subseteq Elems(ackCh) \cup {b}
  BY <1>1, SendElems
<1>4. Elems(ackCh)' \subseteq Elems(ackCh) \cup {b}
  BY <1>3 DEF SendAck, Elems, b
<1> QED
  BY <1>1, <1>2, <1>4, SentType DEF AdvertisedFits

\* The edge moves with the reader.
LEMMA EdgeGrows ==
  ASSUME rcv_read \in Nat, NEW d \in Nat, rcv_read' = rcv_read + d
  PROVE  Edge \in Nat /\ Edge' \in Nat /\ Edge <= Edge'
BY RcvBufSizeAssumption DEF Edge

\* A step that leaves the sender alone keeps everything within the edge, which only moves to
\* the right.
LEMMA ReceiverEdge ==
  ASSUME TypeInv, EdgeInv, UNCHANGED sndOthers, NEW d \in Nat, rcv_read' = rcv_read + d,
         \A a \in Elems(ackCh)' : a \in Acks /\ a.ack + a.rwnd <= Edge
  PROVE  EdgeInv'
<1>0. UNCHANGED <<snd_una, snd_nxt, snd_wnd, writer>>
  BY DEF sndOthers
<1>1. rcv_read \in Nat /\ snd_una \in Nat /\ snd_nxt \in Nat /\ snd_wnd \in Nat /\ writer.n \in Nat
  <2>1. rcv_read \in 0..Len(rcv_stream) /\ Len(rcv_stream) \in Nat
    BY DEF TypeInv, RcvTypeOK
  <2> QED
    BY <2>1 DEF TypeInv, SndInv, SndTypeOK
<1>2. Edge \in Nat /\ Edge' \in Nat /\ Edge <= Edge'
  BY <1>1, EdgeGrows
<1>3. \A a \in Elems(ackCh)' : a.ack + a.rwnd <= Edge'
  <2> SUFFICES ASSUME NEW a \in Elems(ackCh)' PROVE a.ack + a.rwnd <= Edge'
    OBVIOUS
  <2>1. a.ack \in Nat /\ a.rwnd \in Nat /\ a.ack + a.rwnd <= Edge
    BY RcvBufSizeAssumption DEF Acks
  <2> QED
    BY <1>2, <2>1
<1>4. AdvertisedFits'
  BY <1>0, <1>1, <1>2, <1>3 DEF EdgeInv, AdvertisedFits
<1>5. WriterFits'
  BY <1>0, <1>1, <1>2, MSSAssumption DEF EdgeInv, WriterFits
<1> QED
  BY <1>4, <1>5 DEF EdgeInv

\* tcp_sock_write stays within it: the packet it sends is no longer than the room it tested
\* for, even if the window has changed in between.
LEMMA WriterEdge ==
  ASSUME TypeInv, EdgeInv, WriterStep, UNCHANGED rcvVars PROVE EdgeInv'
<1>0. /\ writer \in [pc : {"app", "test", "sleep", "blocked", "size", "send"},
                     base : Nat, len : Nat, sent : Nat, n : Nat]
      /\ snd_una \in Nat /\ snd_nxt \in Nat /\ snd_wnd \in Nat
  BY DEF TypeInv, SndInv, SndTypeOK
<1>1. Edge' = Edge /\ Edge \in Int
  <2>1. rcv_read \in 0..Len(rcv_stream) /\ Len(rcv_stream) \in Nat
    BY DEF TypeInv, RcvTypeOK
  <2> QED
    BY <2>1, RcvBufSizeAssumption DEF Edge, rcvVars
<1>2. UNCHANGED <<snd_una, snd_wnd>> /\ Elems(ackCh)' = Elems(ackCh)
  BY DEF WriterStep, WriteCall, WriteTest, WriteSleep, WriteWoken, WriteSize, WriteSend, rcvVars, Elems
<1>3. AdvertisedFits'
  BY <1>1, <1>2 DEF EdgeInv, AdvertisedFits
<1>4. CASE WriteCall \/ WriteSleep \/ WriteWoken
  <2>1. snd_nxt' = snd_nxt /\ writer'.pc # "size" /\ writer'.pc # "send"
    BY <1>0, <1>4 DEF WriteCall, WriteSleep, WriteWoken
  <2> QED
    BY <1>1, <1>3, <2>1 DEF EdgeInv, WriterFits
<1>5. CASE WriteTest
  <2>1. /\ snd_nxt' = snd_nxt /\ writer'.pc # "send"
        /\ writer'.pc = "size" => snd_wnd - snd_nxt + snd_una >= MSS
    BY <1>0, <1>5 DEF WriteTest, WindowTest
  <2>2. writer'.pc = "size" => snd_nxt + MSS <= Edge
    BY <1>0, <1>1, <2>1, MSSAssumption DEF EdgeInv, AdvertisedFits
  <2> QED
    BY <1>1, <1>3, <2>1, <2>2 DEF EdgeInv, WriterFits
<1>6. CASE WriteSize
  <2> DEFINE k == Lesser(writer.len - writer.sent, Lesser(snd_wnd, MSS))
  <2>1. k \in Int /\ k <= MSS
    BY <1>0, MSSAssumption DEF Lesser
  <2>2. snd_nxt' = snd_nxt /\ writer.pc = "size" /\ writer' = [writer EXCEPT !.pc = "send", !.n = k]
    BY <1>6 DEF WriteSize
  <2> HIDE DEF k
  <2>3. writer'.pc = "send" /\ writer'.n = k
    BY <1>0, <2>2
  <2>4. snd_nxt + k <= Edge
    BY <1>0, <1>1, <2>1, <2>2, MSSAssumption DEF EdgeInv, WriterFits
  <2> QED
    BY <1>1, <1>3, <2>2, <2>3, <2>4 DEF EdgeInv, WriterFits
<1>7. CASE WriteSend
  <2>1. writer.pc = "send" /\ snd_nxt' = snd_nxt + writer.n /\ writer'.pc \in {"test", "app"}
    BY <1>0, <1>7 DEF WriteSend, WriterAtApp
  <2> QED
    BY <1>1, <1>3, <2>1 DEF EdgeInv, WriterFits
<1> QED
  BY <1>4, <1>5, <1>6, <1>7 DEF WriterStep

\* An ACK takes over the window it carries, or less.
LEMMA AckEdge ==
  ASSUME TypeInv, EdgeInv, NEW i \in Deliverable(ackCh), ackCh' = Without(ackCh, i),
         RcvAck(ackCh[i]), UNCHANGED rcvOthers
  PROVE  EdgeInv'
<1> DEFINE a == ackCh[i]
           after == CcAfter(CcOnAck(cc, a.ack))
<1>1. a \in Acks /\ a \in Elems(ackCh) /\ Elems(ackCh') \subseteq Elems(ackCh)
  <2>1. ackCh \in Seq(Acks)
    BY DEF TypeInv, RcvTypeOK, Acks
  <2> QED
    BY <2>1, WithoutElems
<1>2. RcvAck(a)
  OBVIOUS
<1> HIDE DEF a
<1>3. a.ack \in Nat /\ a.rwnd \in Nat /\ a.ack + a.rwnd <= Edge
  BY <1>1, RcvBufSizeAssumption DEF Acks, EdgeInv, AdvertisedFits
<1>4. after.cwnd \in Nat
  BY <1>3, CcStep DEF TypeInv, CcType
<1> HIDE DEF after
<1>5. Edge' = Edge /\ Edge \in Int
  <2>1. rcv_read \in 0..Len(rcv_stream) /\ Len(rcv_stream) \in Nat
    BY DEF TypeInv, RcvTypeOK
  <2> QED
    BY <2>1, RcvBufSizeAssumption DEF Edge, rcvOthers
<1>6. snd_una' + snd_wnd' <= Edge
  <2>1. CASE UpdateWindowSafe(a.ack)
    <3>1. snd_una' = a.ack /\ snd_wnd' = Lesser(a.rwnd, after.cwnd)
      BY <1>2, <2>1 DEF RcvAck, UpdateWindow, after
    <3> QED
      BY <1>3, <1>4, <1>5, <3>1 DEF Lesser
  <2>2. CASE ~ UpdateWindowSafe(a.ack)
    BY <1>2, <2>2 DEF RcvAck, EdgeInv, AdvertisedFits
  <2> QED
    BY <2>1, <2>2
<1>7. UNCHANGED <<snd_nxt, writer>>
  BY <1>2 DEF RcvAck
<1>8. Elems(ackCh)' \subseteq Elems(ackCh)
  BY <1>1 DEF Elems
<1> QED
  BY <1>5, <1>6, <1>7, <1>8 DEF EdgeInv, AdvertisedFits, WriterFits

\* Every step of the transfer preserves both.
LEMMA WindowStep ==
  ASSUME MutexKind = "errorcheck", TypeInv, TypeInv', SeqInv, SeqInv', WndInv, EdgeInv, [Next]_vars
  PROVE  WndInv' /\ EdgeInv'
<1>0. rcv_read \in Nat /\ 0 \in Nat
  <2>1. rcv_read \in 0..Len(rcv_stream) /\ Len(rcv_stream) \in Nat
    BY DEF TypeInv, RcvTypeOK
  <2> QED
    BY <2>1
<1>s. UNCHANGED sndVars => UNCHANGED sndOthers
  BY DEF sndVars, sndOthers
<1>a. \A a \in Elems(ackCh) : a \in Acks /\ a.ack + a.rwnd <= Edge
  BY SentType DEF EdgeInv, AdvertisedFits
<1>b. ackCh' = ackCh => \A a \in Elems(ackCh)' : a \in Acks /\ a.ack + a.rwnd <= Edge
  BY <1>a DEF Elems
<1>c. UNCHANGED rcvVars => /\ UNCHANGED rcvOthers /\ ackCh' = ackCh
  BY DEF rcvVars, rcvOthers
<1>d. UNCHANGED rcvOthers => WndInv' /\ rcv_read' = rcv_read + 0
  BY <1>0, NetworkWnd DEF rcvOthers
<1>1. CASE WriterStep /\ UNCHANGED rcvVars
  BY <1>1, <1>c, <1>d, WriterEdge
<1>2. CASE TimerStep /\ UNCHANGED rcvVars
  <2>1. UNCHANGED <<snd_una, snd_nxt, snd_wnd, writer>>
    BY <1>2 DEF TimerStep, RetransTimeout, GiveUp, PersistTimeout, TimerOfClosed
  <2>2. EdgeInv'
    BY <1>2, <2>1 DEF rcvVars, EdgeInv, AdvertisedFits, WriterFits, Edge, Elems
  <2> QED
    BY <1>2, <1>c, <1>d, <2>2
<1>3. CASE RxStep /\ UNCHANGED sndVars
  <2>1. WndInv'
    BY <1>3, RxWnd
  <2>2. rcv_read' = rcv_read + 0 /\ ackCh' \in {ackCh, SendAck}
    BY <1>0, <1>3 DEF RxStep, OfoAdd, OfoMove, OfoDone
  <2>3. \A a \in Elems(ackCh)' : a \in Acks /\ a.ack + a.rwnd <= Edge
    BY <2>2, AckFits DEF EdgeInv
  <2> QED
    BY <1>0, <1>3, <1>s, <2>1, <2>2, <2>3, ReceiverEdge
<1>4. CASE ReaderStep /\ UNCHANGED sndVars
  <2>1. WndInv'
    BY <1>4, ReaderWnd
  <2>2. ackCh' = ackCh
    BY <1>4 DEF ReaderStep, ReadEmpty, ReadSleep, ReadWoken, ReadCopy, ReadStore
  <2>3. PICK d \in Nat : rcv_read' = rcv_read + d
    <3>1. CASE ReadCopy
      <4> DEFINE avail == IF ReadLen < Used THEN ReadLen ELSE Used
      <4>1. rcv_read' = rcv_read + avail /\ Used > 0
        BY <3>1 DEF ReadCopy
      <4>2. Used \in Int
        <5>1. Len(rcv_stream) \in Nat
          BY DEF TypeInv, RcvTypeOK
        <5> QED
          BY <1>0, <5>1 DEF Used
      <4>3. avail \in Nat
        BY <4>1, <4>2, ReadLenAssumption
      <4> HIDE DEF avail
      <4> QED
        BY <4>1, <4>3
    <3>2. CASE ~ ReadCopy
      <4>1. rcv_read' = rcv_read + 0
        BY <1>0, <1>4, <3>2 DEF ReaderStep, ReadEmpty, ReadSleep, ReadWoken, ReadStore
      <4> QED
        BY <1>0, <4>1
    <3> QED
      BY <3>1, <3>2
  <2> QED
    BY <1>0, <1>4, <1>b, <1>s, <2>1, <2>2, <2>3, ReceiverEdge
<1>5. CASE DeliverData \/ DeliverProbe
  <2>1. PICK m : RcvData(m) \/ RcvEmpty(m)
    BY <1>5 DEF DeliverData, DeliverProbe
  <2>2. UNCHANGED sndOthers
    BY <1>5 DEF DeliverData, DeliverProbe
  <2>3. /\ UNCHANGED <<rcv_nxt, rcv_wnd, rcv_ofo_buf, rcv_stream, rcv_read, rcv_buf_lock, reader>>
        /\ rx' = rx \/ (rx.pc = "idle" /\ rx'.pc = "lock")
        /\ ackCh' \in {ackCh, SendAck} /\ rcv_read' = rcv_read + 0
    BY <1>0, <2>1 DEF RcvData, RcvEmpty
  <2>4. WndInv'
    BY <2>3, NetworkWnd
  <2>5. \A a \in Elems(ackCh)' : a \in Acks /\ a.ack + a.rwnd <= Edge
    BY <2>3, AckFits DEF EdgeInv
  <2> QED
    BY <1>0, <2>2, <2>3, <2>4, <2>5, ReceiverEdge
<1>6. ASSUME NEW i \in Deliverable(ackCh), DropAck(i) PROVE WndInv' /\ EdgeInv'
  <2>1. ackCh \in Seq(Acks)
    BY DEF TypeInv, RcvTypeOK, Acks
  <2>2. Elems(Without(ackCh, i)) \subseteq Elems(ackCh)
    BY <2>1, WithoutElems
  <2>3. Elems(ackCh)' \subseteq Elems(ackCh)
    BY <1>6, <2>2 DEF DropAck, Elems
  <2>4. \A a \in Elems(ackCh)' : a \in Acks /\ a.ack + a.rwnd <= Edge
    BY <1>a, <2>3
  <2>5. UNCHANGED rcvOthers /\ UNCHANGED sndOthers
    BY <1>6, <1>s DEF DropAck
  <2> QED
    BY <1>0, <1>d, <2>4, <2>5, ReceiverEdge
<1>7. CASE DeliverAck
  BY <1>6, <1>7, <1>d, AckEdge DEF DeliverAck
<1>8. CASE LoseAck
  BY <1>6, <1>8 DEF LoseAck
<1>9. CASE LoseData \/ UNCHANGED vars
  <2>1. UNCHANGED sndOthers /\ UNCHANGED rcvVars
    BY <1>9, <1>s DEF LoseData, vars
  <2> QED
    BY <1>0, <1>b, <1>c, <1>d, <2>1, ReceiverEdge
<1> QED
  BY <1>1, <1>2, <1>3, <1>4, <1>5, <1>7, <1>8, <1>9 DEF Next

\* A new connection has an empty buffer and has advertised it.
LEMMA WindowInit == Init => WndInv /\ EdgeInv
<1> SUFFICES ASSUME Init PROVE WndInv /\ EdgeInv
  OBVIOUS
<1> USE DEF Init, SndInit, RcvInit
<1>1. WndInv
  BY RcvBufSizeAssumption
  DEF WndInv, WndIsFree, OfoFresh, LockMeans, LoadedWnd, UnlockedMovesNothing, NothingStranded,
      Free, Used, AtCall, Idle
<1>2. Edge = RcvBufSize + 1 /\ Elems(ackCh) = {}
  BY RcvBufSizeAssumption DEF Edge, Elems
<1>3. EdgeInv
  BY <1>2, RcvBufSizeAssumption DEF EdgeInv, AdvertisedFits, WriterFits, WriterAtApp
<1> QED
  BY <1>1, <1>3

WindowInv == TypeInv /\ SeqInv /\ WndInv /\ EdgeInv

\* The whole invariant, under the two hypotheses of the next three theorems.
LEMMA WindowInvStep ==
  ASSUME MutexKind = "errorcheck", WindowInv, SentWhole, [Next]_vars PROVE WindowInv'
BY TypeInvStep, SeqInvStep, WindowStep DEF WindowInv

\* Where the unlock of another thread's mutex fails and every write goes out in one piece,
\* rcv_wnd, which two threads update in two places, is the free space of the ring buffer.
THEOREM AdvertisedIsFree == MutexKind = "errorcheck" /\ Spec /\ []SentWhole => []WndIsFree
<1> SUFFICES ASSUME MutexKind = "errorcheck" PROVE Spec /\ []SentWhole => []WndIsFree
  OBVIOUS
<1>1. Init => WindowInv
  BY TypeInvInit, SeqInvInit, WindowInit DEF WindowInv
<1>2. WindowInv /\ SentWhole /\ [Next]_vars => WindowInv'
  BY WindowInvStep
<1>3. WindowInv => WndIsFree
  BY DEF WindowInv, WndInv
<1> QED
  BY <1>1, <1>2, <1>3, PTL DEF Spec

\* Under the same hypotheses the sender never sends past the receiver's room, although
\* tcp_sock_write reads the window twice without a lock and ACKs may overtake each other.
THEOREM RoomIsRespected == MutexKind = "errorcheck" /\ Spec /\ []SentWhole => []WindowRespected
<1> SUFFICES ASSUME MutexKind = "errorcheck" PROVE Spec /\ []SentWhole => []WindowRespected
  OBVIOUS
<1>1. Init => WindowInv
  BY TypeInvInit, SeqInvInit, WindowInit DEF WindowInv
<1>2. WindowInv /\ SentWhole /\ [Next]_vars => WindowInv'
  BY WindowInvStep
<1>3. ASSUME WindowInv PROVE WindowRespected
  <2>1. Free = Edge - rcv_nxt /\ rcv_nxt \in Nat /\ Edge \in Nat /\ snd_nxt <= Edge
    BY <1>3, FreeToEdge DEF WindowInv, EdgeInv, WriterFits
  <2> QED
    BY <2>1 DEF WindowRespected
<1> QED
  BY <1>1, <1>2, <1>3, PTL DEF Spec

\* Under the same hypotheses no segment that could be delivered is left in the out-of-order
\* buffer (tcp_move_recv_ofo_buffer stops only at a gap, never for want of room).
THEOREM DeliverableIsDelivered == MutexKind = "errorcheck" /\ Spec /\ []SentWhole => []NothingStranded
<1> SUFFICES ASSUME MutexKind = "errorcheck" PROVE Spec /\ []SentWhole => []NothingStranded
  OBVIOUS
<1>1. Init => WindowInv
  BY TypeInvInit, SeqInvInit, WindowInit DEF WindowInv
<1>2. WindowInv /\ SentWhole /\ [Next]_vars => WindowInv'
  BY WindowInvStep
<1>3. WindowInv => NothingStranded
  BY DEF WindowInv, WndInv
<1> QED
  BY <1>1, <1>2, <1>3, PTL DEF Spec
=============================================================================
