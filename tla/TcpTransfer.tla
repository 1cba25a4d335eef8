---------------------------- MODULE TcpTransfer ----------------------------
(***************************************************************************)
(* A one-way transfer over an ESTABLISHED connection: the sending half of  *)
(* the client, the receiving half of the server, and the network between   *)
(* them (code-exp2 over ip_send_packet).                                   *)
(***************************************************************************)
EXTENDS TcpSender, TcpReceiver

CONSTANT Reorder                    \* may the network reorder packets?

ASSUME NetworkAssumption == Reorder \in BOOLEAN

vars == <<sndVars, rcvVars>>

Init == SndInit /\ RcvInit

\* the positions of a channel from which the network may take a packet
Deliverable(ch) == IF Reorder THEN 1..Len(ch) ELSE 1..Lesser(1, Len(ch))

Without(ch, i) == SubSeq(ch, 1, i - 1) \o SubSeq(ch, i + 1, Len(ch))

sndOthers == <<state, snd_una, snd_nxt, snd_wnd, cc, send_buf, retrans_timer, persist_timer,
               wait_send, written, writer>>

rcvOthers == <<rcv_nxt, rcv_wnd, rcv_ofo_buf, rcv_stream, rcv_read, rcv_buf_lock,
               wait_recv, reader, rx>>

\* a segment reaches the receiver's tcp_process
DeliverData ==
  \E i \in Deliverable(dataCh) :
    LET m == dataCh[i]
    IN /\ dataCh' = Without(dataCh, i)
       /\ UNCHANGED <<sndOthers, probeCh>>
       /\ \/ m.len > 0 /\ RcvData(m)
          \/ m.len = 0 /\ RcvEmpty(m)

DeliverProbe ==
  \E i \in Deliverable(probeCh) :
    /\ probeCh' = Without(probeCh, i)
    /\ UNCHANGED <<sndOthers, dataCh>>
    /\ RcvData(probeCh[i])

DropAck(i) ==
  /\ ackCh' = Without(ackCh, i)
  /\ UNCHANGED <<sndVars, rcvOthers>>

\* an ACK reaches the sender's tcp_process
DeliverAck ==
  \E i \in Deliverable(ackCh) :
    \/ ackCh' = Without(ackCh, i) /\ RcvAck(ackCh[i]) /\ UNCHANGED rcvOthers
    \/ state = "CLOSED" /\ DropAck(i)

LoseAck == \E i \in Deliverable(ackCh) : DropAck(i)

\* a packet is lost at the moment it would have been delivered: nobody can tell when
LoseData ==
  /\ rx.pc = "idle"
  /\ \/ \E i \in Deliverable(dataCh) : dataCh' = Without(dataCh, i) /\ UNCHANGED probeCh
     \/ \E i \in Deliverable(probeCh) : probeCh' = Without(probeCh, i) /\ UNCHANGED dataCh
  /\ UNCHANGED <<sndOthers, rcvVars>>

Next ==
  \/ (WriterStep \/ TimerStep) /\ UNCHANGED rcvVars
  \/ (RxStep \/ ReaderStep) /\ UNCHANGED sndVars
  \/ DeliverData \/ DeliverProbe \/ DeliverAck \/ LoseData \/ LoseAck

Spec == Init /\ [][Next]_vars

\* Every thread keeps running, a timer that stays armed expires, and a packet that is
\* sent over and over again (the head of send_buf, a probe, an ACK) gets through.
Fairness ==
  /\ WF_vars(WriterStep /\ UNCHANGED rcvVars)
  /\ WF_vars((RetransTimeout \/ GiveUp) /\ UNCHANGED rcvVars)
  /\ WF_vars(PersistTimeout /\ UNCHANGED rcvVars)
  /\ SF_vars(OfoAdd /\ UNCHANGED sndVars)
  /\ WF_vars((OfoMove \/ OfoDone) /\ UNCHANGED sndVars)
  /\ SF_vars((ReadEmpty \/ ReadCopy) /\ UNCHANGED sndVars)
  /\ WF_vars((ReadSleep \/ ReadWoken \/ ReadStore) /\ UNCHANGED sndVars)
  /\ SF_vars(DeliverData) /\ SF_vars(DeliverProbe) /\ SF_vars(DeliverAck)

FairSpec == Spec /\ Fairness

-----------------------------------------------------------------------------
TypeOK == SndTypeOK /\ RcvTypeOK

\* The server's ring buffer receives the client's bytes, in order and unaltered, although
\* every loss is repaired from copies kept in send_buf.
StreamIntact == RcvStreamIntact

\* The two ends agree: what the client takes for acknowledged has been received, and what
\* the server expects next has not been passed over.
SequenceAgreement == snd_una <= rcv_nxt /\ rcv_nxt <= snd_nxt

\* An old ACK overtaken by a newer one takes nothing back (tcp_update_window_safe): the
\* client never comes to wait again for what it knows to be received.
SndUnaMonotone == [][snd_una' >= snd_una]_vars

\* Nothing that may still have to be sent again has been released: every byte in flight
\* is in some entry of send_buf.
UnackedIsBuffered ==
  \A s \in snd_una..(snd_nxt - 1) :
    \E i \in 1..Len(send_buf) :
      s \in send_buf[i].seq..(send_buf[i].seq + send_buf[i].len - 1)

\* The sender never sends past the room the receiver has.
WindowRespected == snd_nxt <= rcv_nxt + Free

\* A writer that sleeps will be woken: a wake-up is pending, or a timer runs that will
\* provoke an answer from the receiver.
NoSilentStall ==
  state = "ESTABLISHED" /\ writer.pc = "blocked" =>
    \/ "writer" \notin wait_send.waiters
    \/ retrans_timer.enable
    \/ persist_timer

\* Every byte the application wrote is read at the other end, unless the connection is
\* given up: no lost segment, lost ACK, lost window update or lost wake-up stops it.
EverythingDelivered == <>(state = "CLOSED" \/ rcv_read = StreamLen)

\* Data in flight is guarded by the retransmission timer.
InFlightIsTimed ==
  state = "ESTABLISHED" /\ snd_una < snd_nxt => retrans_timer.enable

\* send_buf is "used to pend unacked packets" (tcp_sock.h:113): what is sent, for the first
\* time or again, is the stretch of the stream that its sequence number names.
ResentAsSent == \A i \in 1..Len(dataCh) : dataCh[i].off = dataCh[i].seq
=============================================================================
