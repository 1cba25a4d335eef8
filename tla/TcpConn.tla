------------------------------- MODULE TcpConn -------------------------------
(***************************************************************************)
(* Connection management of code-exp2: the handshake, the accept queue,    *)
(* the FIN exchange, the sock tables and their reference counts, the       *)
(* time-wait timer, and the two applications of tcp_apps.c that drive      *)
(* them.  Each connection k has a client stack of its own; all of them     *)
(* talk to one server stack, whose application listens and accepts once.   *)
(*                                                                         *)
(* The transfer of data is the subject of TcpSender and TcpReceiver.  Here *)
(* a block of data is one unit of sequence space, written one at a time,   *)
(* and what stays of the windows is whether the persist timer runs.        *)
(*                                                                         *)
(* tcp_process runs in one receive thread per stack, so it is one step; the *)
(* socket calls take no lock and are several.  A stack that dereferences a *)
(* null pointer dies: that is SIGSEGV in the program, dead in the model.   *)
(***************************************************************************)
EXTENDS Naturals, Sequences, FiniteSets, SynchWait

CONSTANTS Conns,     \* connections: one client stack each
          MaxData,   \* blocks the client application writes
          MaxRetrans, \* timeouts before a connection is given up: 3 in the code
          MaxProbes, \* bound: probes one sock sends
          MaxLoss    \* bound: segments the network loses

ASSUME ConnAssumption ==
  MaxData \in Nat /\ MaxRetrans \in Nat /\ MaxProbes \in Nat \ {0} /\ MaxLoss \in Nat

VARIABLES
  sk,        \* sk[k].c and sk[k].s: the client's sock and the server's child
  lsn,       \* the listening sock
  queue,     \* its accept_queue
  accepted,  \* the connections accept has returned
  cpc,       \* program counter of each client application
  spc,       \* program counter of the server application
  got,       \* blocks the server application has read
  rx,        \* the server's receive thread owes wait_accept a wake_up
  wconn,     \* wait_connect of each client sock
  wacc,      \* wait_accept of the listening sock
  wrecv,     \* wait_recv of each child
  chan,      \* chan[k].c, chan[k].s: segments under way to that end
  dead,      \* the stacks that crashed
  lost       \* how many segments were lost

vars == <<sk, lsn, queue, accepted, cpc, spc, got, rx, wconn, wacc, wrecv, chan,
          dead, lost>>

Server == "server"
Ends == {"c", "s"}
Other(e) == IF e = "c" THEN "s" ELSE "c"
HostOf(k, e) == IF e = "c" THEN k ELSE Server
App == "app"

-----------------------------------------------------------------------------
(***************************************************************************)
(* Socks.  A list node is null (only zeroed), linked, self (inserted at    *)
(* the head twice, so that its next is itself and list_empty holds of it)  *)
(* or gone (deleted, its pointers still pointing into the list).           *)
(***************************************************************************)
States == {"NONE", "CLOSED", "LISTEN", "SYN_SENT", "SYN_RECV", "ESTABLISHED",
           "CLOSE_WAIT", "LAST_ACK", "FIN_WAIT_1", "FIN_WAIT_2", "CLOSING",
           "TIME_WAIT"}
Nodes == {"null", "linked", "self", "gone"}

\* alloc_tcp_sock; "NONE" stands for a child that does not exist yet
alloc_tcp_sock ==
  [state |-> "CLOSED", hash |-> "null", bind |-> "null", ref |-> 0, freed |-> FALSE,
   snd_una |-> 0, snd_nxt |-> 0, rcv_nxt |-> 0, ring |-> 0, buf |-> {},
   persist |-> FALSE, retrans |-> FALSE, cnt |-> 0, timewait |-> FALSE, probes |-> 0]
NoSock == [alloc_tcp_sock EXCEPT !.state = "NONE"]

list_add_head(node) == IF node = "linked" \/ node = "self" THEN "self" ELSE "linked"

free_tcp_sock(s) ==
  LET r == IF s.ref > 0 THEN s.ref - 1 ELSE 0
  IN  [s EXCEPT !.ref = r, !.freed = s.freed \/ r = 0]

tcp_bind_hash(s) == [s EXCEPT !.bind = list_add_head(s.bind), !.ref = @ + 1]

\* tcp_hash of a sock whose four-tuple is not in the table yet
tcp_hash(s) == [s EXCEPT !.hash = list_add_head(s.hash), !.ref = @ + 1]

\* list_empty holds of a node that is its own successor
tcp_unhash(s) == IF s.hash = "self" THEN s ELSE free_tcp_sock([s EXCEPT !.hash = "gone"])
tcp_bind_unhash(s) ==
  IF s.bind = "self" THEN s ELSE free_tcp_sock([s EXCEPT !.bind = "gone"])

\* list_delete_entry follows the null pointers of a node that was never linked
BindUnhashCrashes(s) == s.bind = "null"

Hashed(s) == s.hash \in {"linked", "self"}

-----------------------------------------------------------------------------
(***************************************************************************)
(* Segments and the pieces tcp_process is made of.                         *)
(***************************************************************************)
Segment(s, fl, n) == [flags |-> fl, seq |-> n, ack |-> s.rcv_nxt, len |-> 0]

\* tcp_send_control_packet: the segment, and the sock after sending it
Control(s, fl) == Segment(s, fl, s.snd_nxt)
AfterControl(s, fl) ==
  [s EXCEPT !.snd_nxt = @ + (IF fl \cap {"SYN", "FIN"} # {} THEN 1 ELSE 0)]

Data(s, n) == [Segment(s, {"PSH", "ACK"}, n) EXCEPT !.len = 1]
SeqEnd(seg) == seg.seq + seg.len

\* tcp_update_send_buffer with the retransmission timer
UnsetRetrans(s) ==
  IF s.retrans THEN [s EXCEPT !.retrans = FALSE, !.ref = @ - 1] ELSE s

\* mutant: the timer of an empty send buffer keeps running
UpdateSendBufferTimed(s, ack) == [s EXCEPT !.buf = {q \in s.buf : q >= ack}]

UpdateSendBuffer(s, ack) ==
  LET rest == {q \in s.buf : q >= ack}
      t    == [s EXCEPT !.buf = rest]
  IN  IF rest = {} THEN UnsetRetrans(t)
      ELSE [t EXCEPT !.cnt = IF t.retrans THEN 0 ELSE @]

\* tcp_update_window_safe; open: whether tcp_tx_window_test then succeeds
UpdateWindow(s, seg, open) ==
  IF s.snd_una <= seg.ack /\ seg.ack <= s.snd_nxt
  THEN [s EXCEPT !.snd_una = seg.ack, !.persist = ~open,
                 !.ref = IF open = s.persist THEN (IF open THEN @ - 1 ELSE @ + 1) ELSE @]
  ELSE s

-----------------------------------------------------------------------------
(***************************************************************************)
(* The receive thread: handle_tcp_packet and the branches of tcp_process.  *)
(***************************************************************************)
\* the segment at the front reaches its stack, whose receive thread is free
Arrives(k, e) ==
  /\ chan[k][e] # <<>> /\ HostOf(k, e) \notin dead
  /\ e = "s" => ~rx
Reply(k, e, out) ==
  chan' = [chan EXCEPT ![k][e] = Tail(@), ![k][Other(e)] = @ \o out]
\* tcp_sock_lookup finds the sock of the connection, in the given state
Finds(k, e, st) == Arrives(k, e) /\ Hashed(sk[k][e]) /\ sk[k][e].state = st
\* the sock's state after its handler
Becomes(k, e, s) == sk' = [sk EXCEPT ![k][e] = s]
OnlySock == UNCHANGED <<lsn, queue, accepted, cpc, spc, got, rx, wconn, wacc, wrecv, dead, lost>>

\* no sock at all: sk_lock of a null pointer is locked before tcp_process can
\* answer with a reset
RcvNoSock(k, e) ==
  /\ Arrives(k, e) /\ ~Hashed(sk[k][e])
  /\ e = "s" => lsn.state # "LISTEN"
  /\ dead' = dead \cup {HostOf(k, e)}
  /\ Reply(k, e, <<>>)
  /\ UNCHANGED <<sk, lsn, queue, accepted, cpc, spc, got, rx, wconn, wacc, wrecv, lost>>

\* mutant: the child does not wait for the acknowledgement of its SYN
NewChildEstablished(seg) ==
  tcp_hash([alloc_tcp_sock EXCEPT !.state = "ESTABLISHED", !.rcv_nxt = seg.seq + 1])

\* the child sock of a SYN
NewChild(seg) ==
  tcp_hash([alloc_tcp_sock EXCEPT !.state = "SYN_RECV", !.rcv_nxt = seg.seq + 1])

\* mutant: the child is not queued until its handshake is complete
tcp_sock_accept_enqueue_later(q, k) == q

tcp_sock_accept_enqueue(q, k) == Append(q, k)

\* LISTEN: the child is hashed, answers and is queued; the wake_up of
\* wait_accept follows
RcvListen(k) ==
  /\ Arrives(k, "s")
  /\ ~Hashed(sk[k].s) /\ lsn.state = "LISTEN"
  /\ LET seg == Head(chan[k].s)
         syn == "SYN" \in seg.flags
         child == NewChild(seg)
     IN  /\ sk' = IF syn THEN [sk EXCEPT ![k].s = AfterControl(child, {"SYN", "ACK"})] ELSE sk
         /\ Reply(k, "s", IF syn THEN <<Control(child, {"SYN", "ACK"})>> ELSE <<>>)
         /\ queue' = IF syn THEN tcp_sock_accept_enqueue(queue, k) ELSE queue
         /\ rx' = syn
  /\ UNCHANGED <<lsn, accepted, cpc, spc, got, wconn, wacc, wrecv, dead, lost>>

\* mutant: nobody is told
WakeAcceptSilently ==
  /\ rx /\ Server \notin dead
  /\ rx' = FALSE
  /\ UNCHANGED <<sk, lsn, queue, accepted, cpc, spc, got, wconn, wacc, wrecv, chan, dead, lost>>

WakeAccept ==
  /\ rx /\ Server \notin dead
  /\ rx' = FALSE
  /\ wacc' \in WakeUps(wacc)
  /\ UNCHANGED <<sk, lsn, queue, accepted, cpc, spc, got, wconn, wrecv, chan, dead, lost>>

\* SYN_RECV: any acknowledgement completes the handshake; what else the
\* segment carries is ignored.  cwnd is still 0, so the window stays closed.
RcvSynRecv(k) ==
  /\ Finds(k, "s", "SYN_RECV")
  /\ LET seg == Head(chan[k].s)
         s   == [sk[k].s EXCEPT !.state = "ESTABLISHED"]
     IN  IF "ACK" \in seg.flags
         THEN /\ Becomes(k, "s", UnsetRetrans(UpdateWindow(s, seg, FALSE)))
              /\ \E w \in WakeUps(wrecv[k]) : wrecv' = [wrecv EXCEPT ![k] = w]
         ELSE UNCHANGED <<sk, wrecv>>
  /\ Reply(k, "s", <<>>)
  /\ UNCHANGED <<lsn, queue, accepted, cpc, spc, got, rx, wconn, wacc, dead, lost>>

\* SYN_SENT: tcp_hash finds the sock in its table already and does nothing; cwnd
\* becomes one MSS only after the window was computed with 0.  A segment with
\* neither flag would be answered by a reset: no stack here sends one.
RcvSynSent(k) ==
  /\ Finds(k, "c", "SYN_SENT")
  /\ LET seg == Head(chan[k].c)
         s   == [sk[k].c EXCEPT !.rcv_nxt = seg.seq + 1, !.state = "ESTABLISHED"]
         t   == UnsetRetrans(UpdateWindow(UpdateSendBuffer(s, seg.ack), seg, FALSE))
     IN  /\ seg.flags \cap {"SYN", "ACK"} # {}
         /\ Becomes(k, "c", t)
         /\ Reply(k, "c", <<Control(t, {"ACK"})>>)
  /\ \E w \in WakeUps(wconn[k]) : wconn' = [wconn EXCEPT ![k] = w]
  /\ UNCHANGED <<lsn, queue, accepted, cpc, spc, got, rx, wacc, wrecv, dead, lost>>

\* mutant: the reader is not woken
RcvFinQuietly(k, e) ==
  /\ Finds(k, e, "ESTABLISHED")
  /\ LET seg == Head(chan[k][e])
         s   == [sk[k][e] EXCEPT !.rcv_nxt = seg.seq + 1, !.state = "CLOSE_WAIT"]
     IN  /\ "FIN" \in seg.flags
         /\ Becomes(k, e, s)
         /\ Reply(k, e, <<Control(s, {"ACK"})>>)
  /\ UNCHANGED wrecv
  /\ UNCHANGED <<lsn, queue, accepted, cpc, spc, got, rx, wconn, wacc, dead, lost>>

\* ESTABLISHED, a FIN
RcvFin(k, e) ==
  /\ Finds(k, e, "ESTABLISHED")
  /\ LET seg == Head(chan[k][e])
         s   == [sk[k][e] EXCEPT !.rcv_nxt = seg.seq + 1, !.state = "CLOSE_WAIT"]
     IN  /\ "FIN" \in seg.flags
         /\ Becomes(k, e, s)
         /\ Reply(k, e, <<Control(s, {"ACK"})>>)
  /\ IF e = "s" THEN \E w \in WakeUps(wrecv[k]) : wrecv' = [wrecv EXCEPT ![k] = w]
     ELSE UNCHANGED wrecv
  /\ UNCHANGED <<lsn, queue, accepted, cpc, spc, got, rx, wconn, wacc, dead, lost>>

\* ESTABLISHED, an acknowledgement without data: it opens the window
RcvAck(k, e) ==
  /\ Finds(k, e, "ESTABLISHED")
  /\ LET seg == Head(chan[k][e])
         s   == sk[k][e]
     IN  /\ "FIN" \notin seg.flags /\ seg.len = 0
         /\ Becomes(k, e, UpdateWindow(UpdateSendBuffer(s, seg.ack), seg, TRUE))
         /\ Reply(k, e, IF seg.seq < s.rcv_nxt THEN <<Control(s, {"ACK"})>> ELSE <<>>)
  /\ OnlySock

\* ESTABLISHED, a data segment or a probe: a byte below rcv_nxt is answered
\* once more; the next byte expected goes into the ring and wakes the reader
RcvData(k, e) ==
  /\ Finds(k, e, "ESTABLISHED")
  /\ LET seg == Head(chan[k][e])
         s   == sk[k][e]
         new == seg.seq = s.rcv_nxt
         t   == IF new THEN [s EXCEPT !.rcv_nxt = SeqEnd(seg), !.ring = @ + seg.len] ELSE s
     IN  /\ "FIN" \notin seg.flags /\ seg.len > 0
         /\ Becomes(k, e, t)
         /\ Reply(k, e, (IF seg.seq < s.rcv_nxt THEN <<Control(s, {"ACK"})>> ELSE <<>>)
                        \o <<Control(t, {"ACK"})>>)
         /\ IF new /\ e = "s"
            THEN \E w \in WakeUps(wrecv[k]) : wrecv' = [wrecv EXCEPT ![k] = w]
            ELSE UNCHANGED wrecv
  /\ UNCHANGED <<lsn, queue, accepted, cpc, spc, got, rx, wconn, wacc, dead, lost>>

\* CLOSE_WAIT: any segment makes the stack send its own FIN
RcvCloseWait(k, e) ==
  /\ Finds(k, e, "CLOSE_WAIT")
  /\ LET s == [sk[k][e] EXCEPT !.state = "LAST_ACK", !.rcv_nxt = Head(chan[k][e]).seq + 1]
     IN  /\ Becomes(k, e, AfterControl(s, {"ACK", "FIN"}))
         /\ Reply(k, e, <<Control(s, {"ACK", "FIN"})>>)
  /\ OnlySock

\* LAST_ACK: tcp_bind_unhash of a child follows pointers that were never set
RcvLastAck(k, e) ==
  /\ Finds(k, e, "LAST_ACK")
  /\ LET s == UpdateSendBuffer(sk[k][e], Head(chan[k][e]).ack)
         t == [s EXCEPT !.state = "CLOSED"]
     IN  IF BindUnhashCrashes(t)
         THEN Becomes(k, e, t) /\ dead' = dead \cup {HostOf(k, e)}
         ELSE Becomes(k, e, tcp_bind_unhash(t)) /\ dead' = dead
  /\ Reply(k, e, <<>>)
  /\ UNCHANGED <<lsn, queue, accepted, cpc, spc, got, rx, wconn, wacc, wrecv, lost>>

\* tcp_set_timewait_timer
SetTimeWait(s) == [s EXCEPT !.timewait = TRUE, !.ref = @ + 1]

\* mutant: any acknowledgement is taken for the end of the connection
RcvFinWait1Eager(k) ==
  /\ Finds(k, "c", "FIN_WAIT_1")
  /\ Becomes(k, "c", SetTimeWait([sk[k].c EXCEPT !.state = "TIME_WAIT"]))
  /\ Reply(k, "c", <<>>)
  /\ OnlySock

\* FIN_WAIT_1: a FIN|ACK enters TIME_WAIT and then CLOSING, with its timer
RcvFinWait1(k) ==
  /\ Finds(k, "c", "FIN_WAIT_1")
  /\ LET seg == Head(chan[k].c)
         s   == UpdateSendBuffer([sk[k].c EXCEPT !.rcv_nxt = seg.seq + 1], seg.ack)
         ack == Control(s, {"ACK"})
     IN  IF "FIN" \in seg.flags
         THEN /\ Becomes(k, "c", SetTimeWait([s EXCEPT !.state = "CLOSING"]))
              /\ Reply(k, "c", <<ack, ack>>)
         ELSE /\ Becomes(k, "c", [sk[k].c EXCEPT !.state = "FIN_WAIT_2"])
              /\ Reply(k, "c", <<>>)
  /\ OnlySock

RcvFinWait2(k) ==
  /\ Finds(k, "c", "FIN_WAIT_2")
  /\ LET seg == Head(chan[k].c)
         s   == [sk[k].c EXCEPT !.rcv_nxt = seg.seq + 1, !.state = "TIME_WAIT"]
     IN  IF "FIN" \in seg.flags
         THEN Becomes(k, "c", SetTimeWait(s)) /\ Reply(k, "c", <<Control(s, {"ACK"})>>)
         ELSE Reply(k, "c", <<>>) /\ UNCHANGED sk
  /\ OnlySock

\* TIME_WAIT, CLOSING and CLOSED: nothing happens
RcvIgnored(k) ==
  /\ Arrives(k, "c") /\ Hashed(sk[k].c)
  /\ sk[k].c.state \in {"TIME_WAIT", "CLOSING", "CLOSED"}
  /\ Reply(k, "c", <<>>)
  /\ UNCHANGED sk
  /\ OnlySock

-----------------------------------------------------------------------------
(***************************************************************************)
(* The client application: tcp_client.                                     *)
(***************************************************************************)
ClientAt(k, pc) == cpc[k] = pc /\ k \notin dead
ClientGoes(k, pc) == cpc' = [cpc EXCEPT ![k] = pc]
OnlyClient == UNCHANGED <<lsn, queue, accepted, spc, got, rx, wacc, wrecv, dead, lost>>

\* mutant: connect relies on the bind_hash that tcp_sock_set_sport made
ConnectedOnce(s) == tcp_hash([tcp_bind_hash(s) EXCEPT !.state = "SYN_SENT"])

\* what tcp_sock_connect makes of the sock: tcp_sock_set_sport binds the port
\* and connect binds it a second time
Connected(s) == tcp_hash([tcp_bind_hash(tcp_bind_hash(s)) EXCEPT !.state = "SYN_SENT"])

\* tcp_sock_connect up to the SYN
Connect(k) ==
  /\ ClientAt(k, "start")
  /\ LET s == Connected(sk[k].c)
     IN  /\ Becomes(k, "c", AfterControl(s, {"SYN"}))
         /\ chan' = [chan EXCEPT ![k].s = Append(@, Control(s, {"SYN"}))]
  /\ ClientGoes(k, "connecting")
  /\ OnlyClient /\ UNCHANGED wconn

\* its sleep_on
ConnectSleep(k) ==
  /\ ClientAt(k, "connecting")
  /\ wconn' = [wconn EXCEPT ![k] = Sleep(@, App)]
  /\ ClientGoes(k, IF SleepReturnsAtOnce(wconn[k]) THEN "connected" ELSE "asleep")
  /\ OnlyClient /\ UNCHANGED <<sk, chan>>

ConnectWoken(k) ==
  /\ ClientAt(k, "asleep") /\ App \notin wconn[k].waiters
  /\ wconn' = [wconn EXCEPT ![k] = Resume(@)]
  /\ ClientGoes(k, "connected")
  /\ OnlyClient /\ UNCHANGED <<sk, chan>>

\* connect returns 0 in ESTABLISHED only
ConnectReturn(k) ==
  /\ ClientAt(k, "connected") /\ sk[k].c.state = "ESTABLISHED"
  /\ ClientGoes(k, "write")
  /\ OnlyClient /\ UNCHANGED <<sk, wconn, chan>>

\* one tcp_sock_write of the loop: the window is open, the block before it was
\* acknowledged
Write(k) ==
  LET s == sk[k].c IN
  /\ ClientAt(k, "write")
  /\ s.snd_nxt <= MaxData
  /\ ~s.persist /\ s.buf = {}
  /\ Becomes(k, "c", [s EXCEPT !.snd_nxt = @ + 1, !.buf = {s.snd_nxt},
                               !.retrans = TRUE, !.ref = IF s.retrans THEN @ ELSE @ + 1])
  /\ chan' = [chan EXCEPT ![k].s = Append(@, Data(s, s.snd_nxt))]
  /\ UNCHANGED cpc
  /\ OnlyClient /\ UNCHANGED wconn

\* Nothing of the connection is left to do: the five seconds the client sleeps
\* before it closes are far longer than a round trip and the timers, unless
\* something was lost.
Quiet(k) ==
  /\ chan[k].c = <<>> /\ chan[k].s = <<>>
  /\ sk[k].c.buf = {} /\ ~sk[k].c.persist /\ ~sk[k].s.persist
  /\ accepted \subseteq {k} => sk[k].s.ring = 0

SleepOver(k) ==
  /\ ClientAt(k, "write") /\ sk[k].c.snd_nxt = MaxData + 1
  /\ lost > 0 \/ Quiet(k)
  /\ ClientGoes(k, "close")
  /\ OnlyClient /\ UNCHANGED <<sk, wconn, chan>>

\* tcp_sock_close, ESTABLISHED: the FIN goes out before the state changes
CloseFin(k) ==
  LET s == sk[k].c IN
  /\ ClientAt(k, "close") /\ s.state = "ESTABLISHED"
  /\ Becomes(k, "c", AfterControl(s, {"FIN", "ACK"}))
  /\ chan' = [chan EXCEPT ![k].s = Append(@, Control(s, {"FIN", "ACK"}))]
  /\ ClientGoes(k, "closing")
  /\ OnlyClient /\ UNCHANGED wconn

CloseFinWait(k) ==
  /\ ClientAt(k, "closing")
  /\ Becomes(k, "c", [sk[k].c EXCEPT !.state = "FIN_WAIT_1"])
  /\ ClientGoes(k, "done")
  /\ OnlyClient /\ UNCHANGED <<wconn, chan>>

\* tcp_sock_close, CLOSED: the timer thread had given the connection up
CloseClosed(k) ==
  /\ ClientAt(k, "close") /\ sk[k].c.state = "CLOSED"
  /\ Becomes(k, "c", tcp_bind_unhash(tcp_unhash(sk[k].c)))
  /\ ClientGoes(k, "done")
  /\ OnlyClient /\ UNCHANGED <<wconn, chan>>

-----------------------------------------------------------------------------
(***************************************************************************)
(* The server application: tcp_server.                                     *)
(***************************************************************************)
ServerAt(pc) == spc = pc /\ Server \notin dead
OnlyServer == UNCHANGED <<cpc, rx, wconn, dead, lost>>
Mine == CHOOSE k \in accepted : TRUE

\* tcp_sock_bind
Bind ==
  /\ ServerAt("bind")
  /\ lsn' = tcp_bind_hash(lsn)
  /\ spc' = "listen"
  /\ OnlyServer /\ UNCHANGED <<sk, queue, accepted, got, wacc, wrecv, chan>>

\* tcp_sock_listen inserts the sock itself and lets tcp_hash do it again
Listen ==
  /\ ServerAt("listen")
  /\ lsn' = tcp_hash([lsn EXCEPT !.state = "LISTEN", !.hash = list_add_head(@)])
  /\ spc' = "accept"
  /\ OnlyServer /\ UNCHANGED <<sk, queue, accepted, got, wacc, wrecv, chan>>

\* tcp_sock_accept looks at the queue once
AcceptTest ==
  /\ ServerAt("accept")
  /\ spc' = IF queue = <<>> THEN "to_sleep" ELSE "dequeue"
  /\ OnlyServer /\ UNCHANGED <<sk, lsn, queue, accepted, got, wacc, wrecv, chan>>

AcceptSleep ==
  /\ ServerAt("to_sleep")
  /\ wacc' = Sleep(wacc, App)
  /\ spc' = IF SleepReturnsAtOnce(wacc) THEN "dequeue" ELSE "asleep"
  /\ OnlyServer /\ UNCHANGED <<sk, lsn, queue, accepted, got, wrecv, chan>>

AcceptWoken ==
  /\ ServerAt("asleep") /\ App \notin wacc.waiters
  /\ wacc' = Resume(wacc)
  /\ spc' = "dequeue"
  /\ OnlyServer /\ UNCHANGED <<sk, lsn, queue, accepted, got, wrecv, chan>>

\* the first child leaves the queue and the listening sock is hashed once more
AcceptReturn ==
  /\ ServerAt("dequeue") /\ queue # <<>>
  /\ accepted' = accepted \cup {Head(queue)}
  /\ queue' = Tail(queue)
  /\ lsn' = tcp_hash(lsn)
  /\ spc' = "read"
  /\ OnlyServer /\ UNCHANGED <<sk, got, wacc, wrecv, chan>>

\* tcp_sock_read, the tests at its start
ReadEnter ==
  /\ ServerAt("read")
  /\ spc' = IF sk[Mine].s.state \in {"CLOSED", "CLOSE_WAIT"} THEN "close" ELSE "read_loop"
  /\ OnlyServer /\ UNCHANGED <<sk, lsn, queue, accepted, got, wacc, wrecv, chan>>

\* one turn of its loop: data, the end, or sleep
ReadLoop ==
  LET s == sk[Mine].s IN
  /\ ServerAt("read_loop")
  /\ \/ /\ s.ring > 0
        /\ got' = got + s.ring
        /\ Becomes(Mine, "s", [s EXCEPT !.ring = 0])
        /\ spc' = "read"
     \/ /\ s.ring = 0
        /\ spc' = IF s.state = "CLOSE_WAIT" THEN "close" ELSE "read_sleep"
        /\ UNCHANGED <<sk, got>>
  /\ OnlyServer /\ UNCHANGED <<lsn, queue, accepted, wacc, wrecv, chan>>

ReadSleep ==
  /\ ServerAt("read_sleep")
  /\ wrecv' = [wrecv EXCEPT ![Mine] = Sleep(@, App)]
  /\ spc' = IF SleepReturnsAtOnce(wrecv[Mine]) THEN "read_loop" ELSE "read_asleep"
  /\ OnlyServer /\ UNCHANGED <<sk, lsn, queue, accepted, got, wacc, chan>>

ReadWoken ==
  /\ ServerAt("read_asleep") /\ App \notin wrecv[Mine].waiters
  /\ wrecv' = [wrecv EXCEPT ![Mine] = Resume(@)]
  /\ spc' = "read_loop"
  /\ OnlyServer /\ UNCHANGED <<sk, lsn, queue, accepted, got, wacc, chan>>

\* tcp_sock_close, CLOSE_WAIT: the state changes before the FIN goes out
CloseLastAck ==
  /\ ServerAt("close") /\ sk[Mine].s.state = "CLOSE_WAIT"
  /\ Becomes(Mine, "s", [sk[Mine].s EXCEPT !.state = "LAST_ACK"])
  /\ spc' = "closing"
  /\ OnlyServer /\ UNCHANGED <<lsn, queue, accepted, got, wacc, wrecv, chan>>

CloseSend ==
  LET s == sk[Mine].s IN
  /\ ServerAt("closing")
  /\ Becomes(Mine, "s", AfterControl(s, {"FIN", "ACK"}))
  /\ chan' = [chan EXCEPT ![Mine].c = Append(@, Control(s, {"FIN", "ACK"}))]
  /\ spc' = "done"
  /\ OnlyServer /\ UNCHANGED <<lsn, queue, accepted, got, wacc, wrecv>>

\* tcp_sock_close, LAST_ACK: a segment came first and the stack sent the FIN
CloseNothing ==
  /\ ServerAt("close") /\ sk[Mine].s.state = "LAST_ACK"
  /\ spc' = "done"
  /\ OnlyServer /\ UNCHANGED <<sk, lsn, queue, accepted, got, wacc, wrecv, chan>>

-----------------------------------------------------------------------------
(***************************************************************************)
(* The timer thread (tcp_scan_timer_list) and the network.                 *)
(***************************************************************************)
OnlyTimer == UNCHANGED <<lsn, queue, accepted, cpc, spc, got, rx, wacc, wrecv, dead, lost>>

\* the persist timer sends a probe: one byte below what was acknowledged
Probe(k, e) ==
  LET s == sk[k][e] IN
  /\ HostOf(k, e) \notin dead
  /\ s.persist /\ s.state # "CLOSED" /\ s.probes < MaxProbes
  /\ chan' = [chan EXCEPT ![k][Other(e)] = Append(@, Data(s, s.snd_una - 1))]
  /\ Becomes(k, e, [s EXCEPT !.probes = @ + 1])
  /\ OnlyTimer /\ UNCHANGED wconn

\* 200 ms and more are longer than a round trip: a timeout means a loss
RetransTimeout(k) ==
  LET s == sk[k].c IN
  /\ k \notin dead
  /\ s.retrans /\ s.cnt < MaxRetrans /\ s.state # "CLOSED"
  /\ chan[k].c = <<>> /\ chan[k].s = <<>>
  /\ Becomes(k, "c", [s EXCEPT !.cnt = @ + 1])
  /\ chan' = [chan EXCEPT ![k].s = Append(@, Data(s, CHOOSE q \in s.buf : TRUE))]
  /\ OnlyTimer /\ UNCHANGED wconn

\* the timeout after the last retransmission gives the connection up
GiveUp(k) ==
  LET s == UnsetRetrans(sk[k].c) IN
  /\ k \notin dead
  /\ sk[k].c.retrans /\ sk[k].c.cnt >= MaxRetrans /\ sk[k].c.state # "CLOSED"
  /\ chan[k].c = <<>> /\ chan[k].s = <<>>
  /\ Becomes(k, "c", free_tcp_sock([tcp_bind_unhash(s) EXCEPT !.state = "CLOSED"]))
  /\ wconn' = [wconn EXCEPT ![k] = WaitExit(@)]
  /\ OnlyTimer /\ UNCHANGED chan

\* the else branch: CLOSED, then tcp_sock_close takes the sock out of the tables
Expired(s) == tcp_bind_unhash(tcp_unhash([s EXCEPT !.state = "CLOSED"]))

\* 2 MSL outlast whatever is under way to this end
TimeWaitTimeout(k) ==
  /\ k \notin dead /\ sk[k].c.timewait /\ chan[k].c = <<>>
  /\ Becomes(k, "c", Expired([sk[k].c EXCEPT !.timewait = FALSE]))
  /\ OnlyTimer /\ UNCHANGED <<wconn, chan>>

\* the same branch for the retransmission timer of a sock that was closed under
\* it: the sock is taken out of the tables a second time
TimerOfClosed(k) ==
  /\ k \notin dead /\ sk[k].c.retrans /\ sk[k].c.state = "CLOSED"
  /\ Becomes(k, "c", Expired([sk[k].c EXCEPT !.retrans = FALSE]))
  /\ OnlyTimer /\ UNCHANGED <<wconn, chan>>

\* the network keeps order and may lose any segment
Lose(k, e) ==
  /\ chan[k][e] # <<>> /\ lost < MaxLoss
  /\ chan' = [chan EXCEPT ![k][e] = Tail(@)]
  /\ lost' = lost + 1
  /\ UNCHANGED <<sk, lsn, queue, accepted, cpc, spc, got, rx, wconn, wacc, wrecv, dead>>

\* nobody takes what reaches a stack that crashed
Vanish(k, e) ==
  /\ chan[k][e] # <<>> /\ HostOf(k, e) \in dead
  /\ chan' = [chan EXCEPT ![k][e] = <<>>]
  /\ UNCHANGED <<sk, lsn, queue, accepted, cpc, spc, got, rx, wconn, wacc, wrecv, dead, lost>>

-----------------------------------------------------------------------------
Init ==
  /\ sk = [k \in Conns |-> [c |-> alloc_tcp_sock, s |-> NoSock]]
  /\ lsn = alloc_tcp_sock
  /\ queue = <<>> /\ accepted = {}
  /\ cpc = [k \in Conns |-> "start"] /\ spc = "bind"
  /\ got = 0 /\ rx = FALSE
  /\ wconn = [k \in Conns |-> WaitInit] /\ wacc = WaitInit
  /\ wrecv = [k \in Conns |-> WaitInit]
  /\ chan = [k \in Conns |-> [c |-> <<>>, s |-> <<>>]]
  /\ dead = {} /\ lost = 0

Receive(k, e) ==
  \/ RcvNoSock(k, e) \/ RcvFin(k, e) \/ RcvAck(k, e) \/ RcvData(k, e)
  \/ RcvCloseWait(k, e) \/ RcvLastAck(k, e)

ReceiveClient(k) ==
  \/ RcvSynSent(k) \/ RcvFinWait1(k) \/ RcvFinWait2(k) \/ RcvIgnored(k)

ReceiveServer(k) == RcvListen(k) \/ RcvSynRecv(k)

ClientApp(k) ==
  \/ Connect(k) \/ ConnectSleep(k) \/ ConnectWoken(k) \/ ConnectReturn(k)
  \/ Write(k) \/ SleepOver(k) \/ CloseFin(k) \/ CloseFinWait(k) \/ CloseClosed(k)

ServerApp ==
  \/ Bind \/ Listen \/ AcceptTest \/ AcceptSleep \/ AcceptWoken \/ AcceptReturn
  \/ ReadEnter \/ ReadLoop \/ ReadSleep \/ ReadWoken
  \/ CloseLastAck \/ CloseSend \/ CloseNothing

Timers(k) ==
  RetransTimeout(k) \/ GiveUp(k) \/ TimeWaitTimeout(k) \/ TimerOfClosed(k)

Next ==
  \/ ServerApp \/ WakeAccept
  \/ \E k \in Conns :
       \/ ClientApp(k) \/ ReceiveClient(k) \/ ReceiveServer(k) \/ Timers(k)
       \/ \E e \in Ends : Receive(k, e) \/ Probe(k, e) \/ Lose(k, e) \/ Vanish(k, e)

\* Threads that can run do run, a receive thread takes what has arrived, and a
\* timer that stays armed expires.
Fairness ==
  /\ WF_vars(ServerApp) /\ WF_vars(WakeAccept)
  /\ \A k \in Conns :
       /\ WF_vars(ClientApp(k)) /\ WF_vars(Timers(k))
       /\ WF_vars(ReceiveClient(k) \/ Receive(k, "c"))
       /\ WF_vars(ReceiveServer(k) \/ Receive(k, "s"))
       /\ \A e \in Ends : WF_vars(Probe(k, e)) /\ WF_vars(Vanish(k, e))

Spec == Init /\ [][Next]_vars /\ Fairness

-----------------------------------------------------------------------------
(***************************************************************************)
(* Properties.                                                             *)
(***************************************************************************)
Sock(s) ==
  /\ s.state \in States /\ s.hash \in Nodes /\ s.bind \in Nodes
  /\ s.ref \in 0..6 /\ s.ring \in 0..MaxData /\ s.cnt \in 0..MaxRetrans
  /\ s.buf \subseteq 1..MaxData
  /\ s.snd_una <= s.snd_nxt /\ s.snd_nxt \in 0..(MaxData + 3)
  /\ (s.retrans => s.buf # {})

\* Every sock keeps its ranges: a stack sends at most one SYN and two FINs (the
\* application's and the one of the CLOSE_WAIT branch), the retransmission timer
\* runs only over unacknowledged data.
TypeOK ==
  /\ \A k \in Conns : Sock(sk[k].c) /\ Sock(sk[k].s)
  /\ Sock(lsn) /\ got \in 0..MaxData
  /\ accepted \subseteq Conns /\ Cardinality(accepted) <= 1
  /\ dead \subseteq Conns \cup {Server}

Closing == {"FIN_WAIT_1", "FIN_WAIT_2", "CLOSING", "TIME_WAIT"}

\* The three-way handshake of tcp_process: a client that believes in the
\* connection has a child at the server, and a child beyond SYN_RECV has a client
\* that received its SYN|ACK and has sent everything the child counts as received.
HandshakeAgreement ==
  \A k \in Conns :
    LET c == sk[k].c  s == sk[k].s IN
    /\ c.state \in {"ESTABLISHED"} \cup Closing => s.state # "NONE" /\ c.rcv_nxt >= 1
    /\ s.state \notin {"NONE", "SYN_RECV"} => c.state # "SYN_SENT"
    /\ s.state = "ESTABLISHED" => s.rcv_nxt \in 1..c.snd_nxt

\* The FIN exchange: a client in TIME_WAIT or CLOSING has a server that sent its
\* FIN, and the server closes only after the client's application called close.
CloseAgreement ==
  \A k \in Conns :
    LET c == sk[k].c  s == sk[k].s IN
    /\ c.state \in {"TIME_WAIT", "CLOSING"} => s.state \in {"LAST_ACK", "CLOSED"}
    /\ s.state \in {"CLOSE_WAIT", "LAST_ACK", "CLOSED"} => cpc[k] \in {"closing", "done"}

\* The rule stated above free_tcp_sock: a sock that is still in a table, or whose
\* timer is still on the timer list, has not been released, whichever of the
\* timer thread, the receive thread and the application dropped its reference.
NoFreedSockInUse ==
  \A k \in Conns, e \in Ends :
    LET s == sk[k][e] IN
    s.freed => ~Hashed(s) /\ s.bind \notin {"linked", "self"} /\ ~s.persist /\ ~s.retrans

\* tcp_sock_accept tests its queue only once, before it sleeps: when it goes on to
\* tcp_sock_accept_dequeue there is a child in the queue.
NoEmptyDequeue == spc = "dequeue" => queue # <<>>

\* A reader that sleeps on wait_recv has not missed the FIN: the state changed and
\* the wake-up was issued in whatever order the application looked at them.
ReaderSeesFin ==
  spc = "read_asleep" /\ App \in wrecv[Mine].waiters => sk[Mine].s.state # "CLOSE_WAIT"

\* Nothing was lost, the server listened before the SYN came, and the server's
\* FIN did not come back before the client's close had stored FIN_WAIT_1.
Orderly ==
  /\ lost = 0
  /\ Server \in dead => \E k \in Conns : sk[k].s.state = "CLOSED"
  /\ \A k \in Conns : cpc[k] = "closing" => sk[k].c.state = "ESTABLISHED"

\* An orderly connection ends: connect returns, the server application reads every
\* block and closes, and the client's sock leaves TIME_WAIT and the tables.
OrderlyClose ==
  []Orderly => <>(/\ spc = "done" /\ got = MaxData
                  /\ \E k \in accepted : sk[k].c.state = "CLOSED" /\ ~Hashed(sk[k].c))
=============================================================================
