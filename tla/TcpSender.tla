----------------------------- MODULE TcpSender -----------------------------
(***************************************************************************)
(* The sending half of an ESTABLISHED tcp_sock (code-exp2): the            *)
(* application thread in tcp_sock_write, the receive thread that processes *)
(* an ACK (send buffer, congestion control, window), and the timer thread  *)
(* with the retransmission and the persist timer.                          *)
(*                                                                         *)
(* Segments and send-buffer entries are [seq, off, len], bytes being       *)
(* numbered as in TcpReceiver.  Sequence numbers do not wrap (less than    *)
(* 2^31 bytes are sent).  cwnd, a float in the code, is a whole number of  *)
(* bytes.  A timer may expire whenever it is enabled.                      *)
(***************************************************************************)
EXTENDS Integers, Sequences, SynchWait

CONSTANTS MSS,                      \* TCP_MSS
          InitialSsthresh,          \* 64 * 1024
          StreamLen,                \* bound: bytes the application writes in all
          WriteLens,                \* the len arguments of tcp_sock_write
          MaxRetrans,               \* 3: retransmissions before a connection is given up
          CwndCap,                  \* bound: cwnd grows no further
          SndChanCap                \* bound: packets the data channel holds

ASSUME MSSAssumption       == MSS \in Nat \ {0}
ASSUME SsthreshAssumption  == InitialSsthresh \in Nat
ASSUME StreamLenAssumption == StreamLen \in Nat
ASSUME WriteLensAssumption == WriteLens \subseteq Nat \ {0}
ASSUME SndChanCapAssumption == SndChanCap \in Nat \ {0}
ASSUME MaxRetransAssumption == MaxRetrans \in Nat
ASSUME CwndCapAssumption   == CwndCap \in Nat /\ CwndCap >= 2 * MSS

VARIABLES state,                    \* "ESTABLISHED" or "CLOSED"
          snd_una, snd_nxt, snd_wnd,
          cc,                       \* cc_state, cwnd, ssthresh, dup_ack_count, and
                                    \* recovery_point (0 where nothing reads it)
          send_buf,                 \* the list of send_buffer_entry
          retrans_timer,            \* [enable, retrans_cnt]
          persist_timer,            \* enable
          wait_send,
          written,                  \* bytes the application has passed to tcp_sock_write
          writer,                   \* the application thread in tcp_sock_write
          dataCh,                   \* the segments on their way to the receiver
          probeCh                   \* the probes on their way to the receiver

sndVars == <<state, snd_una, snd_nxt, snd_wnd, cc, send_buf, retrans_timer, persist_timer,
             wait_send, written, writer, dataCh, probeCh>>

Lesser(a, b) == IF a < b THEN a ELSE b

SendData(ch, m) == IF Len(ch) < SndChanCap THEN Append(ch, m) ELSE Append(Tail(ch), m)

\* mutant: any room at all will do
WindowTestAnyRoom(una, nxt, wnd) == wnd - nxt + una > 0

\* tcp_tx_window_test
WindowTest(una, nxt, wnd) == wnd - nxt + una >= MSS

WriterAtApp == [pc |-> "app", base |-> 0, len |-> 0, sent |-> 0, n |-> 0]

\* The state the handshake leaves: cwnd was still 0 when the SYN|ACK's window was
\* processed, so snd_wnd is 0 and the persist timer runs; cwnd was set after that.
SndInit ==
  /\ state = "ESTABLISHED"
  /\ snd_una = 1 /\ snd_nxt = 1 /\ snd_wnd = 0
  /\ cc = [cc_state |-> "SLOW_START", cwnd |-> MSS, ssthresh |-> InitialSsthresh,
           dup |-> 0, recovery_point |-> 0]
  /\ send_buf = <<>>
  /\ retrans_timer = [enable |-> FALSE, retrans_cnt |-> 0]
  /\ persist_timer = TRUE
  /\ wait_send = WaitInit
  /\ written = 0
  /\ writer = WriterAtApp
  /\ dataCh = <<>> /\ probeCh = <<>>

-----------------------------------------------------------------------------
(* The retransmission timer.  Stopping it keeps its count, and so does     *)
(* starting it: only an ACK that leaves something unacknowledged clears it. *)

SetRetransTimer(t) == [t EXCEPT !.enable = TRUE]

UnsetRetransTimer(t) == [t EXCEPT !.enable = FALSE]

\* tcp_update_retrans_timer, without its wake_up for an empty send_buf: the one caller has
\* already stopped the timer then
UpdateRetransTimer(t, buf) ==
  IF t.enable /\ buf # <<>> THEN [t EXCEPT !.retrans_cnt = 0] ELSE t

-----------------------------------------------------------------------------
(* The application thread: tcp_sock_write. *)

\* tcp_sock_write(tsk, buf, n) is called; it refuses in any other state
WriteCall ==
  /\ writer.pc = "app"
  /\ \E n \in WriteLens :
       /\ written + n <= StreamLen
       /\ written' = written + n
       /\ writer' = IF state = "ESTABLISHED"
                    THEN [pc |-> "test", base |-> written, len |-> n, sent |-> 0, n |-> 0]
                    ELSE writer
  /\ UNCHANGED <<state, snd_una, snd_nxt, snd_wnd, cc, send_buf, retrans_timer,
                 persist_timer, wait_send, dataCh, probeCh>>

\* while (!tcp_tx_window_test(tsk)), outside sk_lock
WriteTest ==
  /\ writer.pc = "test"
  /\ writer' = [writer EXCEPT !.pc = IF WindowTest(snd_una, snd_nxt, snd_wnd)
                                     THEN "size" ELSE "sleep"]
  /\ UNCHANGED <<state, snd_una, snd_nxt, snd_wnd, cc, send_buf, retrans_timer,
                 persist_timer, wait_send, written, dataCh, probeCh>>

\* sleep_on(tsk->wait_send), and back to the test
WriteSleep ==
  /\ writer.pc = "sleep"
  /\ wait_send' = Sleep(wait_send, "writer")
  /\ writer' = [writer EXCEPT !.pc = IF SleepReturnsAtOnce(wait_send) THEN "test" ELSE "blocked"]
  /\ UNCHANGED <<state, snd_una, snd_nxt, snd_wnd, cc, send_buf, retrans_timer,
                 persist_timer, written, dataCh, probeCh>>

WriteWoken ==
  /\ writer.pc = "blocked" /\ "writer" \notin wait_send.waiters
  /\ wait_send' = Resume(wait_send)
  /\ writer' = [writer EXCEPT !.pc = "test"]
  /\ UNCHANGED <<state, snd_una, snd_nxt, snd_wnd, cc, send_buf, retrans_timer,
                 persist_timer, written, dataCh, probeCh>>

\* snd_wnd is read again, now for the length, still outside sk_lock
WriteSize ==
  /\ writer.pc = "size"
  /\ writer' = [writer EXCEPT !.pc = "send",
                              !.n = Lesser(writer.len - writer.sent, Lesser(snd_wnd, MSS))]
  /\ UNCHANGED <<state, snd_una, snd_nxt, snd_wnd, cc, send_buf, retrans_timer,
                 persist_timer, wait_send, written, dataCh, probeCh>>

\* the entry tcp_send_buffer_add_packet(tsk, buf, len) makes: the caller's whole buffer
NewEntry == [seq |-> snd_nxt, off |-> writer.base + 1, len |-> writer.len]

\* the packet tcp_send_packet makes: the part of the buffer that is sent now
NewPacket == [seq |-> snd_nxt, off |-> writer.base + writer.sent + 1, len |-> writer.n]

\* under sk_lock: tcp_send_buffer_add_packet, which also starts the retransmission timer,
\* and tcp_send_packet
WriteSend ==
  /\ writer.pc = "send"
  /\ send_buf' = Append(send_buf, NewEntry)
  /\ dataCh' = SendData(dataCh, NewPacket)
  /\ snd_nxt' = snd_nxt + writer.n
  /\ writer' = IF writer.sent + writer.n < writer.len
               THEN [writer EXCEPT !.sent = @ + writer.n, !.pc = "test", !.n = 0]
               ELSE WriterAtApp
  /\ retrans_timer' = SetRetransTimer(retrans_timer)
  /\ UNCHANGED <<state, snd_una, snd_wnd, cc, persist_timer, wait_send, written, probeCh>>

WriterStep == WriteCall \/ WriteTest \/ WriteSleep \/ WriteWoken \/ WriteSize \/ WriteSend

-----------------------------------------------------------------------------
(* The receive thread: tcp_process for a segment without data.             *)

\* mutant: an entry is released as soon as an ACK reaches its first byte
SendBufAfterEager(ack) ==
  LET n == CHOOSE k \in 0..Len(send_buf) :
             /\ \A i \in 1..k : send_buf[i].seq <= ack
             /\ k < Len(send_buf) => send_buf[k + 1].seq > ack
  IN SubSeq(send_buf, n + 1, Len(send_buf))

\* tcp_update_send_buffer: the leading entries that start before ack go
SendBufAfter(ack) ==
  LET n == CHOOSE k \in 0..Len(send_buf) :
             /\ \A i \in 1..k : send_buf[i].seq < ack
             /\ k < Len(send_buf) => send_buf[k + 1].seq >= ack
  IN SubSeq(send_buf, n + 1, Len(send_buf))

\* mutant: the timer is cancelled by any ACK
RetransTimerCancelled(buf) == UnsetRetransTimer(retrans_timer)

\* the end of tcp_update_send_buffer, reached whether or not the ACK was new
RetransTimerAfter(buf) ==
  UpdateRetransTimer(IF buf = <<>> THEN UnsetRetransTimer(retrans_timer) ELSE retrans_timer, buf)

\* the per-state part of tcp_congestion_control
CcOnAck(c, ack) ==
  CASE c.cc_state = "FAST_RECOVER" ->
         IF ack >= c.recovery_point
         THEN [c EXCEPT !.cc_state = "SLOW_START", !.cwnd = c.ssthresh, !.recovery_point = 0]
         ELSE [c EXCEPT !.cwnd = Lesser(@ + MSS, CwndCap)]
    [] c.cc_state = "SLOW_START" ->
         LET d == IF ack < snd_una THEN [c EXCEPT !.dup = @ + 1]
                  ELSE [c EXCEPT !.cwnd = Lesser(@ + MSS, CwndCap), !.dup = 0]
         IN IF d.cwnd > d.ssthresh THEN [d EXCEPT !.cc_state = "CONGESTION_AVOIDANCE"] ELSE d
    [] OTHER ->
         IF ack > snd_una
         THEN [c EXCEPT !.cwnd = Lesser(@ + (MSS * MSS) \div @, CwndCap), !.dup = 0]
         ELSE [c EXCEPT !.dup = @ + 1]

\* mutant: one duplicate too many
FastRetransmitLate(c) == c.dup > 3

FastRetransmit(c) == c.dup >= 3

\* the fast-retransmit part of tcp_congestion_control
CcAfter(c) ==
  IF FastRetransmit(c)
  THEN [cc_state |-> "FAST_RECOVER", ssthresh |-> c.cwnd \div 2,
        cwnd |-> Lesser(c.cwnd \div 2 + 3 * MSS, CwndCap), dup |-> 0, recovery_point |-> snd_nxt]
  ELSE c

\* tcp_retrans_send_buffer with a non-empty list: the head entry, whole, goes out again
Resend(buf) == SendData(dataCh, buf[1])

\* mutant: an ACK below snd_una is not filtered out
UpdateWindowUnsafe(ack) == ack <= snd_nxt

\* the condition of tcp_update_window_safe
UpdateWindowSafe(ack) == snd_una <= ack /\ ack <= snd_nxt

\* mutant: tcp_update_window forgets to start the persist timer
PersistTimerNever(open) == IF open THEN FALSE ELSE persist_timer

\* tcp_update_window stops the persist timer when a full segment fits, else starts it
PersistTimerAfter(open) == ~ open

\* is the window open once it is min(rwnd, cwnd) and everything below ack is acknowledged?
Opens(a, cwnd) == WindowTest(a.ack, snd_nxt, Lesser(a.rwnd, cwnd))

\* tcp_update_window, but for its wake_up
UpdateWindow(a, cwnd) ==
  /\ snd_una' = a.ack
  /\ snd_wnd' = Lesser(a.rwnd, cwnd)
  /\ persist_timer' = PersistTimerAfter(Opens(a, cwnd))

\* tcp_update_send_buffer, tcp_congestion_control, tcp_update_window_safe; a sock in
\* state TCP_CLOSED only logs "wrong state"
RcvAck(a) ==
  /\ state = "ESTABLISHED"
  /\ LET buf   == SendBufAfter(a.ack)
         c     == CcOnAck(cc, a.ack)
         fast  == FastRetransmit(c)
         after == CcAfter(c)
         safe  == UpdateWindowSafe(a.ack)
     IN /\ send_buf' = buf
        /\ retrans_timer' = RetransTimerAfter(buf)
        /\ cc' = after
        /\ dataCh' = IF fast /\ buf # <<>> THEN Resend(buf) ELSE dataCh
        /\ IF safe THEN UpdateWindow(a, after.cwnd)
           ELSE UNCHANGED <<snd_una, snd_wnd, persist_timer>>
        /\ IF (fast /\ buf = <<>>) \/ (safe /\ Opens(a, after.cwnd))
           THEN wait_send' \in WakeUps(wait_send)
           ELSE UNCHANGED wait_send
  /\ UNCHANGED <<state, snd_nxt, written, writer, probeCh>>

-----------------------------------------------------------------------------
(* The timer thread: tcp_scan_timer_list. *)

\* the retransmission timer expires and retransmissions are left
RetransTimeout ==
  /\ state = "ESTABLISHED" /\ retrans_timer.enable /\ retrans_timer.retrans_cnt < MaxRetrans
  /\ retrans_timer' = [retrans_timer EXCEPT !.retrans_cnt = @ + 1]
  /\ cc' = [cc EXCEPT !.ssthresh = cc.cwnd \div 2, !.cwnd = MSS, !.dup = 0,
                      !.cc_state = "SLOW_START", !.recovery_point = 0]
  /\ IF send_buf # <<>>
     THEN dataCh' = Resend(send_buf) /\ UNCHANGED wait_send
     ELSE wait_send' \in WakeUps(wait_send) /\ UNCHANGED dataCh
  /\ UNCHANGED <<state, snd_una, snd_nxt, snd_wnd, send_buf, persist_timer, written, writer, probeCh>>

\* the retransmission timer expires once more: the connection is given up
GiveUp ==
  /\ state = "ESTABLISHED" /\ retrans_timer.enable /\ retrans_timer.retrans_cnt >= MaxRetrans
  /\ retrans_timer' = UnsetRetransTimer(retrans_timer)
  /\ wait_send' = WaitExit(wait_send)
  /\ state' = "CLOSED"
  /\ UNCHANGED <<snd_una, snd_nxt, snd_wnd, cc, send_buf, persist_timer, written, writer, dataCh,
                 probeCh>>

\* mutant: the probe takes the next sequence number
PersistTimeoutNewByte ==
  /\ state = "ESTABLISHED" /\ persist_timer
  /\ probeCh' = SendData(probeCh, [seq |-> snd_nxt, off |-> 0, len |-> 1])
  /\ UNCHANGED <<state, snd_una, snd_nxt, snd_wnd, cc, send_buf, retrans_timer, persist_timer,
                 wait_send, written, writer, dataCh>>

\* tcp_send_probe_packet: one byte below snd_una
ProbePacket == [seq |-> snd_una - 1, off |-> 0, len |-> 1]

\* the persist timer expires: a probe goes out and the timer is armed again
PersistTimeout ==
  /\ state = "ESTABLISHED" /\ persist_timer
  /\ probeCh' = SendData(probeCh, ProbePacket)
  /\ UNCHANGED <<state, snd_una, snd_nxt, snd_wnd, cc, send_buf, retrans_timer, persist_timer,
                 wait_send, written, writer, dataCh>>

\* a timer of a closed sock expires and is taken off the list
TimerOfClosed ==
  /\ state = "CLOSED"
  /\ \/ retrans_timer.enable /\ retrans_timer' = UnsetRetransTimer(retrans_timer)
        /\ UNCHANGED persist_timer
     \/ persist_timer /\ persist_timer' = FALSE /\ UNCHANGED retrans_timer
  /\ UNCHANGED <<state, snd_una, snd_nxt, snd_wnd, cc, send_buf, wait_send, written, writer, dataCh,
                 probeCh>>

TimerStep == RetransTimeout \/ GiveUp \/ PersistTimeout \/ TimerOfClosed

-----------------------------------------------------------------------------
CcStates == {"SLOW_START", "CONGESTION_AVOIDANCE", "FAST_RECOVER"}

SndTypeOK ==
  /\ state \in {"ESTABLISHED", "CLOSED"}
  /\ snd_una \in Nat \ {0} /\ snd_nxt \in Nat \ {0} /\ snd_wnd \in Nat
  /\ cc \in [cc_state : CcStates, cwnd : Nat, ssthresh : Nat, dup : 0..2, recovery_point : Nat]
  /\ send_buf \in Seq([seq : Nat, off : Nat, len : Nat])
  /\ retrans_timer \in [enable : BOOLEAN, retrans_cnt : 0..MaxRetrans]
  /\ persist_timer \in BOOLEAN
  /\ wait_send \in WaitStructs({"writer"})
  /\ written \in 0..StreamLen
  /\ writer \in [pc : {"app", "test", "sleep", "blocked", "size", "send"},
                 base : Nat, len : Nat, sent : Nat, n : Nat]
  /\ dataCh \in Seq([seq : Nat, off : Nat, len : Nat])
  /\ probeCh \in Seq([seq : Nat, off : Nat, len : Nat])
=============================================================================
